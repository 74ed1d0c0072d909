---------------------------- MODULE MCHelloWorld ----------------------------
(* HelloWorld in all its failure modes. *)
EXTENDS HelloWorld

AllModes  == {"none", "send", "recv", "keepalive"}
AnyResult == {"left", "held", "error"}
=============================================================================
