----------------------------- MODULE TaskClaims -----------------------------
(***************************************************************************)
(* What the repository's documents and comments say of tasks and the       *)
(* code does not keep: naming one of these in a configuration of this      *)
(* module gives a counterexample.  The runs named Claim... do so for the   *)
(* most consequential ones.                                                *)
(***************************************************************************)
EXTENDS TaskStore

Quiet == \A s \in Sessions : req[s] = NULL

\* A retask repeated with its idempotency key and input is answered with the
\* task it made (routes.py, retask_task_endpoint).  The handler checks the
\* original task's status first, and that has become "retasked".
RetryReplayed ==
    \A c \in TaskIds : exists(c) =>
        LET p == tasks[c].parent_task_id IN
        /\ p # NULL
        /\ tasks[c].idempotency_key # NULL
        /\ row[p].status = "retasked"
        => retask_outcome(p, tasks[p].principal_agent_id, tasks[c].input,
                          tasks[c].idempotency_key) = "replayed"

\* A task with a callback_url that has reached a terminal state is called back
\* (callbacks.py).  Only process_sidecar_event schedules callbacks, so a task
\* the principal cancels is not.
TerminalCalledBack ==
    \A t \in TaskIds :
        /\ Quiet
        /\ exists(t) /\ tasks[t].callback_url
        /\ is_terminal(row[t].status)
        => callbacks[t] > 0

\* A callback is scheduled when a terminal event is received
\* (schedule_callback): not more of them than of such events.  Any event posted
\* to a terminal task schedules one.
CalledBackPerOutcome ==
    \A t \in TaskIds :
        callbacks[t] <= Cardinality({e \in events[t] : is_terminal(e.status)})

\* A superseded task has a successor (RFC 1, status definitions).  An executor's
\* "status" event may say "redirected" and creates none.
SupersededHasSuccessor ==
    \A t \in TaskIds :
        row[t].status \in {"retasked", "redirected"} => children(t) # {}

\* A completed task has a result (RFC 1, status definitions).  The event that
\* completes it need not hold one, and an executor's "status" event may say
\* "completed" and holds none.
CompletedHasResult ==
    \A t \in TaskIds : row[t].status = "completed" => row[t].result # NULL


\* An accepted progress event updates the task's progress (routes.py,
\* post_task_event).  A change inside an existing metadata_ is not written.
ProgressRecorded ==
    \A t \in TaskIds :
        (\E e \in events[t] : e.event_type = "progress") =>
            row[t].metadata \in Progress

\* Sequence numbers are monotonic per task (sse.py): an event that becomes
\* visible has a higher number than those a reader has seen.
EventsInOrder ==
    [][\A t \in TaskIds : \A e \in events'[t] \ events[t], f \in events[t] :
          f.sequence < e.sequence]_vars

\* A task not resumed within the pause TTL is cancelled (RFC 1, 3.11).  Nothing
\* looks at the clock but resume_task.
PauseExpires ==
    \A t \in TaskIds :
        (/\ row[t].status = "paused"
         /\ row[t].paused_at # NULL
         /\ now - row[t].paused_at > fleet_pause_ttl_seconds)
        ~> (row[t].status # "paused")
=============================================================================
