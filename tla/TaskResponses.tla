--------------------------- MODULE TaskResponses ---------------------------
(***************************************************************************)
(* What the server shows of a task: the links and details of a response    *)
(* (tasks/responses.py) and the chain of tasks it continues                *)
(* (build_lineage_chain in tasks/lifecycle.py).  They read the tables of   *)
(* TaskStore and change nothing.  References and wording are left out: a   *)
(* link is the name of its operation.                                      *)
(***************************************************************************)
EXTENDS TaskStore, Sequences

\* Mutant: a task that has not started has a pause link.
_STATUS_ACTION_LINKS_early(status) ==
    CASE status \in {"accepted", "running"} -> {"cancel", "pause", "context", "redirect"}
      [] status = "paused"                 -> {"resume", "cancel", "context", "redirect"}
      [] status \in {"completed", "failed"} -> {"retask", "rerun"}
      [] status = "cancelled"              -> {"rerun"}
      [] OTHER                             -> {}

\* The action links of a status.  "rerun" is a new dispatch to the workflow.
_STATUS_ACTION_LINKS(status) ==
    CASE status = "accepted"               -> {"cancel"}
      [] status = "running"                -> {"cancel", "pause", "context", "redirect"}
      [] status = "paused"                 -> {"resume", "cancel", "context", "redirect"}
      [] status \in {"completed", "failed"} -> {"retask", "rerun"}
      [] status = "cancelled"              -> {"rerun"}
      [] OTHER                             -> {}

build_task_links(status) ==
    {"self", "workflow", "stream"} \cup _STATUS_ACTION_LINKS(status)

\* _compute_duration: whether there is one.
_compute_duration(started_at, completed_at) == started_at /\ completed_at

\* Mutant: the result of completed tasks only.
task_to_detail_response_completed(t) ==
    LET r == row[t] IN
    [status   |-> r.status,
     progress |-> IF r.status = "running" /\ r.metadata \in Progress
                  THEN r.metadata ELSE NULL,
     result   |-> IF r.status = "completed" THEN r.result ELSE NULL,
     duration |-> /\ r.status \in {"completed", "failed"}
                  /\ _compute_duration(r.started_at, r.completed_at),
     links    |-> build_task_links(r.status)]

\* progress of a running task; result and duration of a completed or failed one.
task_to_detail_response(t) ==
    LET r == row[t] IN
    [status   |-> r.status,
     progress |-> IF r.status = "running" /\ r.metadata \in Progress
                  THEN r.metadata ELSE NULL,
     result   |-> IF r.status \in {"completed", "failed"} THEN r.result ELSE NULL,
     duration |-> /\ r.status \in {"completed", "failed"}
                  /\ _compute_duration(r.started_at, r.completed_at),
     links    |-> build_task_links(r.status)]

\* Mutant: the walk stops one task short of the root.
build_lineage_chain_short(t) ==
    LET up[n \in 0..tasks[t].lineage_depth] ==
            IF n <= 1 THEN <<t>>
            ELSE LET p == tasks[Head(up[n - 1])].parent_task_id
                 IN  IF p = NULL THEN up[n - 1] ELSE <<p>> \o up[n - 1]
    IN  up[tasks[t].lineage_depth]

\* lineage_depth steps from parent to parent at most, the root first.
build_lineage_chain(t) ==
    LET up[n \in 0..tasks[t].lineage_depth] ==
            IF n = 0 THEN <<t>>
            ELSE LET p == tasks[Head(up[n - 1])].parent_task_id
                 IN  IF p = NULL THEN up[n - 1] ELSE <<p>> \o up[n - 1]
    IN  up[tasks[t].lineage_depth]

-----------------------------------------------------------------------------
StateErrors == {"INVALID_STATE_TRANSITION", "RETASK_NOT_REVIEWABLE",
                "REDIRECT_NOT_POSSIBLE", "TASK_NOT_PAUSABLE", "TASK_NOT_PAUSED"}

\* The links of a task are what its principal may do with it: an operation is
\* linked exactly if its handler, called now, does not refuse it for the task's
\* status.  The table of links and the checks of the handlers are written down
\* apart from each other.  (context: with a number higher than all so far.)
LinksHonoured ==
    \A t \in TaskIds : exists(t) =>
        LET links == task_to_detail_response(t).links
            caller == tasks[t].principal_agent_id
            input == tasks[t].input
        IN  /\ "cancel" \in links <=> cancel_outcome(t, caller) \notin StateErrors
            /\ "pause" \in links <=> pause_outcome(t, caller) \notin StateErrors
            /\ "resume" \in links <=> resume_outcome(t, caller) \notin StateErrors
            /\ "redirect" \in links
                  <=> redirect_outcome(t, caller, input, NULL) \notin StateErrors
            /\ "retask" \in links
                  <=> retask_outcome(t, caller, input, NULL) \notin StateErrors
            /\ "context" \in links <=> inject_outcome(t, caller, MaxContext + 1) = "ok"

\* What GET shows of a task is what the log says last, whichever requests
\* overlapped: the status of the latest event that carries one and, if that is the
\* executor's outcome, the result it holds; a completed task comes with a duration.
DetailTellsOutcome ==
    \A t \in TaskIds : exists(t) =>
        LET shown == task_to_detail_response(t) IN
        /\ \E e \in events[t] :
              /\ \A f \in events[t] : f.status # NULL => f.sequence <= e.sequence
              /\ shown.status = e.status
              /\ e.event_type \in {"completed", "failed"} => shown.result = e.result
        /\ shown.status = "completed" => shown.duration

\* The lineage of a task starts with the root, goes from parent to child and ends
\* with the task: the walk over parent_task_id, limited by lineage_depth, is as
\* long as the chain.
ChainFromRoot ==
    \A t \in TaskIds : exists(t) =>
        LET chain == build_lineage_chain(t) IN
        /\ Len(chain) = tasks[t].lineage_depth + 1
        /\ chain[1] = IF tasks[t].root_task_id = NULL THEN t ELSE tasks[t].root_task_id
        /\ chain[Len(chain)] = t
        /\ \A i \in 2..Len(chain) : tasks[chain[i]].parent_task_id = chain[i - 1]
=============================================================================
