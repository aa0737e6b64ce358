------------------------ MODULE MCScheduleLifecycle ------------------------
(* Instances of ScheduleLifecycle for TLC. *)
EXTENDS ScheduleLifecycle, TLC

\* Definitions are interchangeable, and so are variants, crons and the tasks of
\* one kind.
Symmetry ==
    Permutations(Defs) \cup Permutations(Variants) \cup Permutations(Crons)
    \cup Permutations(Schedules) \cup Permutations(Patches)
=============================================================================
