--------------------------- MODULE MCClientServer ---------------------------
(* ClientServer with small sets of clients and chosen modes. *)
EXTENDS ClientServer

CONSTANTS c1, c2

TwoClients == {c1, c2}
OneClient  == {c1}

\* All but small active messages.
Buffered == [api : {"stream", "tag"}, rndv : BOOLEAN]
              \cup {[api |-> "am", rndv |-> TRUE]}
AmEager  == {[api |-> "am", rndv |-> FALSE]}
=============================================================================
