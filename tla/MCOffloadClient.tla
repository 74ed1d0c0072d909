-------------------------- MODULE MCOffloadClient --------------------------
(* OffloadClient with the two clients of two servers. *)
EXTENDS OffloadClient

\* The reply that ends the first measurement of one client may fail.
SecondOfOne == {<<0, 2>>}
=============================================================================
