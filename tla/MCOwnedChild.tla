---------------------------- MODULE MCOwnedChild ----------------------------
(* OwnedChild on a few threads. *)
EXTENDS OwnedChildRefinement
=============================================================================
