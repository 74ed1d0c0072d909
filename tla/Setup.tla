------------------------------- MODULE Setup -------------------------------
(***************************************************************************)
(* mpitest.cc before its threads execute: main of each rank creates a      *)
(* worker for each tb, exchanges their addresses with the other ranks (the *)
(* lengths with MPI_Allgather, the bytes with MPI_Allgatherv), and starts  *)
(* the threads; a thread looks up the tb of its peer that receives from it *)
(* and connects to the address at that place of the table.  From then on   *)
(* it is the thread of Interpreter.                                        *)
(*                                                                         *)
(* An address is the sequence of its bytes, byte i of worker w of rank r   *)
(* being <<r, w, i>>.  MPI is external: a collective is one step of all    *)
(* ranks.                                                                  *)
(***************************************************************************)
EXTENDS Interpreter

CONSTANT AddressLengths   \* the lengths a worker's address can have

\* main takes tb_num from rank 0, before MPI_Init has set world_rank.
TbNum == Len(Sched[0].tbs)

WorkerIds == 0 .. TbNum - 1

\* No rank has more tbs than rank 0: g_workers has room for each.
ASSUME TbNumAssumption == \A r \in Ranks : Len(Sched[r].tbs) <= TbNum

ASSUME LengthsAssumption == AddressLengths \subseteq Nat \ {0}

VARIABLES
  main,     \* rank -> "workers", "gather", "buffers" or "started"
  lengths,  \* rank -> local_addr_lengths, until it is freed
  table,    \* rank -> g_all_workeraddress: the worker whose address is there
  ep        \* thread -> the worker its endpoint leads to

setupVars == <<main, lengths, table, ep>>
allVars == <<vars, setupVars>>

Workers == Ranks \X WorkerIds

Unconnected == <<-1, -1>>
NoWorker    == <<-2, -2>>   \* no address, or an uninitialised endpoint

SetupInit ==
  /\ Init
  /\ main = [r \in Ranks |-> "workers"]
  /\ lengths = [r \in Ranks |-> <<>>]
  /\ table = [r \in Ranks |-> <<>>]
  /\ ep = [th \in Threads |-> Unconnected]

-----------------------------------------------------------------------------
\* all_address_lengths, which MPI_Allgather leaves on every rank: worker w of
\* rank q is at q * tb_num + w.
AllLengths == [k \in 0 .. NRanks * TbNum - 1 |-> lengths[k \div TbNum][k % TbNum]]

\* What a loop that adds up the values of f has after n of them.
RunningSum(f, n) ==
  LET sum[m \in Nat] == IF m = 0 THEN 0 ELSE sum[m - 1] + f[m - 1] IN sum[n]

\* Where the address of worker w is in those of its rank: send_displs[w] on
\* rank q, the running offset on the rank that reads.
Offset(all, q, w) == RunningSum([v \in WorkerIds |-> all[q * TbNum + v]], w)

RecvCount(all, q) == Offset(all, q, TbNum)

\* Variant: displs[i] = displs[i - 1] + recvcounts[i].
DisplsNext(all, q) == RunningSum([p \in 0 .. q - 1 |-> RecvCount(all, p + 1)], q)

\* displs[q]: where the addresses of rank q start.
Displs(all, q) == RunningSum([p \in Ranks |-> RecvCount(all, p)], q)

\* The bytes that MPI_Allgatherv writes, and where in recv_buffer.
Bytes(all) == UNION {{<<x[1], x[2], i>> : i \in 0 .. all[x[1] * TbNum + x[2]] - 1} : x \in Workers}

Position(all, y) == Displs(all, y[1]) + Offset(all, y[1], y[2]) + y[3]

\* The worker whose address starts at o and of which no byte is overwritten.
AddressAt(all, o) ==
  LET there == {x \in Workers : Position(all, <<x[1], x[2], 0>>) = o}
      lost  == {y \in Bytes(all) : \E z \in Bytes(all) \ {y} : Position(all, y) = Position(all, z)}
  IN  IF \E x \in there : \A y \in lost : <<y[1], y[2]>> # x
      THEN CHOOSE x \in there : \A y \in lost : <<y[1], y[2]>> # x ELSE NoWorker

-----------------------------------------------------------------------------
\* init_all_workers_ucp, and ucp_worker_get_address of each.
InitWorkers(r) ==
  /\ main[r] = "workers"
  /\ \E l \in [WorkerIds -> AddressLengths] : lengths' = [lengths EXCEPT ![r] = l]
  /\ main' = [main EXCEPT ![r] = "gather"]
  /\ UNCHANGED <<vars, table, ep>>

\* allgather_addresses, the two collectives on all ranks and the table that
\* each builds from them; the lengths are freed.
AllgatherAddresses ==
  /\ \A r \in Ranks : main[r] = "gather"
  /\ table' = [r \in Ranks |-> [q \in Ranks |-> [w \in WorkerIds |->
                 AddressAt(AllLengths, Displs(AllLengths, q) + Offset(AllLengths, q, w))]]]
  /\ lengths' = [r \in Ranks |-> <<>>]
  /\ main' = [r \in Ranks |-> "buffers"]
  /\ UNCHANGED <<vars, ep>>

\* init_buffer_pool, start_thread.
StartThreads(r) ==
  /\ main[r] = "buffers"
  /\ main' = [main EXCEPT ![r] = "started"]
  /\ UNCHANGED <<vars, lengths, table, ep>>

\* A thread is an Interpreter's once it is started and, if it sends, connected.
Connected(th) ==
  /\ main[th[1]] = "started"
  /\ Block(th).send = -1 \/ ep[th] # Unconnected

\* The tbs of the peer that connect_to_peer may choose; it takes the first.
PeerTb(th) ==
  {t \in 0 .. Len(Sched[Block(th).send].tbs) - 1 :
     LET tb == Block(<<Block(th).send, t>>)
     IN  tb.recv = th[1] /\ tb.chan = Block(th).chan}

\* connect_to_peer: the first tb of the peer that receives from this rank on
\* this channel, and the address in the table at that place.  If there is
\* none the thread goes on all the same.
Connect(th) ==
  /\ main[th[1]] = "started" /\ Block(th).send # -1 /\ ep[th] = Unconnected
  /\ IF PeerTb(th) = {}
     THEN ep' = [ep EXCEPT ![th] = NoWorker]
     ELSE \E t \in PeerTb(th) :
            /\ \A u \in PeerTb(th) : t <= u
            /\ ep' = [ep EXCEPT ![th] = table[th[1]][Block(th).send][t]]
  /\ UNCHANGED <<vars, main, lengths, table>>

Execute(th) == Connected(th) /\ Run(th) /\ UNCHANGED setupVars

SetupNext ==
  \/ \E r \in Ranks : InitWorkers(r) \/ StartThreads(r)
  \/ AllgatherAddresses
  \/ \E th \in Threads : Connect(th) \/ Execute(th)
  \/ Finished /\ UNCHANGED allVars

\* As in Interpreter, and every main runs.
SetupSpec == /\ SetupInit /\ [][SetupNext]_allVars
             /\ \A r \in Ranks : WF_allVars(InitWorkers(r) \/ StartThreads(r))
             /\ WF_allVars(AllgatherAddresses)
             /\ \A th \in Threads : WF_allVars(Connect(th) \/ Execute(th))

-----------------------------------------------------------------------------
(* Properties. *)

\* Whatever the lengths of the addresses on all the ranks, a thread is
\* connected to the worker of the tb that will receive from it (the one that
\* its messages go to in Interpreter), and no other thread is: the tags of two
\* senders would mix.
EndpointsRight ==
  \A th \in Threads : ep[th] # Unconnected =>
    /\ ep[th] = Peer[th]
    /\ \A q \in Threads \ {th} : ep[q] # ep[th]
=============================================================================
