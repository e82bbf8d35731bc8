---------------------------- MODULE MCCommunicate ----------------------------
(* Communicate with every script of at most MaxScript steps. *)
EXTENDS Communicate

CONSTANT MaxScript

Steps == {"read", "close", "stdout", "stderr"}
MCScripts == UNION {[1..n -> Steps] : n \in 0..MaxScript}
=============================================================================
