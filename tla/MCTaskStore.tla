---------------------------- MODULE MCTaskStore ----------------------------
(***************************************************************************)
(* TaskStore and TaskResponses on small instances.                         *)
(***************************************************************************)
EXTENDS TaskResponses, TLC

\* Task ids and sessions are interchangeable.
Symmetry == Permutations(TaskIds) \cup Permutations(Sessions)

\* Bound of a run about tasks that supersede each other: no request to pause or to
\* cancel a task is taken further than its first step.
OnlySuperseding ==
    \A s \in Sessions : req[s] # NULL =>
        req[s].update.status \notin {"paused", "cancelled"}

\* The sessions never wait for each other in a circle: whenever requests are being
\* handled, a step of one of them is enabled, and which steps are is what
\* can_proceed says.
SomeoneProceeds ==
    /\ NotAllWait
    /\ \A s \in Sessions : can_proceed(s) <=> ENABLED Proceed(s)
=============================================================================
