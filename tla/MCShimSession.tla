---------------------------- MODULE MCShimSession ----------------------------
(* ShimSession for TLC: the scenes of its two runs. *)
EXTENDS ShimSession

CONSTANTS s1, s2, t1, t2

Scene(shims, threads, bound, may) ==
  [shims |-> shims, threads |-> threads, calls |-> bound, may |-> may, strangers |-> {}, crashes |-> {}, controls |-> {}]

SafetyScenes ==
  { \* Two shims race for one link while a caller waits, kills and drops.
    [Scene({s1, s2}, {t1}, 2, {"link faults"}) EXCEPT !.crashes = {s1}],
    \* cosca ends, its pid is reused, copies keep its descriptors.
    [Scene({s1}, {t1}, 2, {"cosca dies", "copies"}) EXCEPT !.controls = {"D"}],
    \* One shim with every fault of its own.
    [Scene({s1}, {t1}, 2, {"run faults", "signals", "reapers"}) EXCEPT !.controls = {"T", "D"}, !.crashes = {s1}] }

LiveScenes ==
  { Scene({s1}, {t1}, 0, {"cosca dies", "copies"}),
    \* Two waiters, reads that fail, and a shim that may be stopped.
    Scene({s1}, {t1, t2}, 2, {"copies", "stalls", "link faults"}),
    \* A shim that may be killed, and a peer of the wrong euid.
    [Scene({s1, s2}, {t1}, 1, {}) EXCEPT !.strangers = {s2}, !.crashes = {s1}] }
=============================================================================
