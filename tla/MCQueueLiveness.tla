--------------------------- MODULE MCQueueLiveness ---------------------------
(* What keeps the queue moving, in two stories: the watchdog repairs what a  *)
(* failed database call or an invalid row leaves behind, or it never runs    *)
(* and the workers hand over to each other, with a rollback among the runs   *)
(* and a crash.                                                              *)
EXTENDS MCRunQueue

VARIABLE watched   \* the watchdog gets to run

StoryInit == Init /\ watched \in BOOLEAN

Watched ==
  watched /\ Next /\ crashes' = 0 /\ \A r \in Rollbacks : status'[r] = "absent"

\* The watchdog never gets to run.
Unwatched == ~watched /\ Foreground /\ faults' = 0 /\ tampers' = 0

StoryNext == (Watched \/ Unwatched) /\ UNCHANGED watched

StorySpec ==
  StoryInit /\ [][StoryNext]_<<vars, watched>> /\ LiveWorkers /\ WF_vars(watched /\ Watchdog)

\* Without faults the hand-off alone loses no wake-up: again and again every run
\* that was committed has ended, also one committed while the last worker was
\* leaving, although the watchdog never runs (environmentWorker asks the queue
\* again after it has unregistered).
NoLostWakeup ==
  []<>(watched \/ \A r \in Runs : status[r] \notin Active)
=============================================================================
