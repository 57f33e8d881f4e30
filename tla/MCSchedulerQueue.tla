-------------------------- MODULE MCSchedulerQueue --------------------------
(***************************************************************************)
(* SchedulerQueue for TLC, with the priorities of the class Priority.      *)
(***************************************************************************)
EXTENDS SchedulerQueue

\* NORMAL, LOW and BACKGROUND: two priorities that are deferred.
ThreePriorities == {50, 25, 10}

=============================================================================
