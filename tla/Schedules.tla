----------------------------- MODULE Schedules -----------------------------
(* Shipped schedules, as parseXMLAndFillStructs reads them. *)
EXTENDS Integers, Sequences

Buffers(i, o, s) == [b \in {"i", "o", "s"} |->
                       IF b = "i" THEN i ELSE IF b = "o" THEN o ELSE s]

\* parseRank, parseThreadBlock and parseStep: the attributes in file order.
Gpu(i, o, s, tbs) == [chunks |-> Buffers(i, o, s), tbs |-> tbs]

Tb(send, recv, chan, steps) ==
  [send |-> send, recv |-> recv, chan |-> chan, steps |-> steps]

Op(type, sb, so, db, do, cnt, depid, deps, hasdep) ==
  [type |-> type, srcbuf |-> sb, srcoff |-> so, dstbuf |-> db, dstoff |-> do,
   cnt |-> cnt, depid |-> depid, deps |-> deps, hasdep |-> hasdep]

\* allreduce_2_nodes.xml
TwoNodes == [r \in 0 .. 1 |->
  LET mine == r  other == 1 - r IN
  Gpu(2, 0, 0,
   <<Tb(-1, other, 0, <<Op("rrc", "i", other, "i", other, 1, -1, -1, 1),
                        Op("r",   "i", mine,  "i", mine,  1,  1,  0, 0)>>),
     Tb(other, -1, 0, <<Op("s", "i", mine,  "i", mine,  1, -1, -1, 1),
                        Op("s", "i", other, "i", other, 1,  0,  0, 0)>>)>>)]

\* allreduce_allpairs_2nodes.xml: rank r sums chunks 2r and 2r+1, one with
\* tb 0 and one with tb 1.
AllPairs2 == [r \in 0 .. 1 |->
  LET mine == 2 * r  other == 2 * (1 - r)  a == r  b == 1 - r IN
  Gpu(4, 0, 2,
   <<Tb(-1, -1, 0, <<Op("re", "s", a, "i", mine + a, 1, 1, 1, 1)>>),
     Tb(1 - r, 1 - r, 0,
        <<Op("s",  "i", other, "s", 0,        2, -1, -1, 0),
          Op("r",  "i", mine,  "s", 0,        2, -1, -1, 1),
          Op("re", "s", b,     "i", mine + b, 1, -1, -1, 0),
          Op("s",  "i", mine,  "i", mine,     2,  0,  0, 0),
          Op("r",  "i", other, "i", other,    2, -1, -1, 0)>>)>>)]

\* allreduce_ring_4_nodes.xml and its shape on n ranks: rank r starts chunk r,
\* adds to the chunks that come round, completes chunk r+1, passes them on.
Ring(n) == [r \in 0 .. n - 1 |->
  LET Chunk(k) == (r + n - k) % n
      Type(k) == IF k = 0 THEN "s"
                 ELSE IF k < n - 1 THEN "rrs"
                 ELSE IF k = n - 1 THEN "rrcs"
                 ELSE IF k < 2 * n - 2 THEN "rcs" ELSE "r"
  IN Gpu(n, 0, 0,
      <<Tb((r + 1) % n, (r + n - 1) % n, 0,
           [i \in 1 .. 2 * n - 1 |->
              Op(Type(i - 1), "i", Chunk(i - 1), "i", Chunk(i - 1), 1, -1, -1, 0)])>>)]

\* allreduce_binomial_tree_one.xml, the tree of its ranks 0 and 1: the leaf
\* sends its chunk with one tb, the root adds it, and the sum comes back.
Tree2 == [r \in 0 .. 1 |->
  Gpu(1, 0, 0,
    IF r = 0
    THEN <<Tb(-1, 1, 0, <<Op("rrc", "i", 0, "i", 0, 1, -1, -1, 1)>>),
           Tb(1, -1, 0, <<Op("s",   "i", 0, "i", 0, 1,  0,  0, 0)>>)>>
    ELSE <<Tb(-1, 0, 0, <<Op("r",   "i", 0, "i", 0, 1,  1,  0, 0)>>),
           Tb(0, -1, 0, <<Op("s",   "i", 0, "i", 0, 1, -1, -1, 1)>>)>>)]
=============================================================================
