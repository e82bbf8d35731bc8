---------------------------- MODULE MCCgroupLeaf ----------------------------
(* CgroupLeaf on a small instance. *)
EXTENDS CgroupLeaf

CONSTANTS root, other, w1
=============================================================================
