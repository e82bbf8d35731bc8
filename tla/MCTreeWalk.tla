----------------------------- MODULE MCTreeWalk -----------------------------
(* TreeWalk with three process numbers.                                    *)
EXTENDS TreeWalk

\* A number changes hands in three moves: exit, release, fork.
ThreeForTheKill ==
    [o \in Ops, sys \in Systems |->
        IF o = "hard_kill" \/ (o = "parent" /\ sys = "windows") THEN 3
        ELSE 1]
=============================================================================
