---- MODULE MCVddSlots ----
(***************************************************************************)
(* Instances of VddSlots for TLC.  Threads and handles are interchangeable *)
(* (only their identity is ever compared), so the safety runs use them as  *)
(* a symmetry set; the runs with liveness properties do not.               *)
(***************************************************************************)
EXTENDS VddSlots, TLC

Symmetry == Permutations(Callers) \cup Permutations(Monitors)
                \cup Permutations(Cookies) \cup Permutations(Modes)
====
