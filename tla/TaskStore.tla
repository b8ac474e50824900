----------------------------- MODULE TaskStore -----------------------------
(***************************************************************************)
(* The task tables of the Fleet API server and the request handlers that   *)
(* write them: create_task (tasks/crud.py), cancel, retask, redirect,      *)
(* pause and resume (tasks/lifecycle.py), inject_context (tasks/context.py)*)
(* and process_sidecar_event (tasks/sidecar.py).                           *)
(*                                                                         *)
(* Each handler runs in a database session of its own, READ COMMITTED,     *)
(* without SELECT FOR UPDATE and without a version column.  It              *)
(*   - loads the task and validates the request on that copy (an action    *)
(*     named after the handler),                                           *)
(*   - flushes before it reads max(sequence) + 1, the number of its event: *)
(*     the UPDATE of the dirty task locks its row (FlushUpdate), then the  *)
(*     INSERT of a successor may wait for its idempotency key (Flush); not *)
(*     for create_task and the sidecar's events, whose number is given,    *)
(*   - commits (Commit) or is rolled back by a UNIQUE constraint           *)
(*     (IntegrityError), and, for a sidecar event, reads the task again and*)
(*     schedules its callback (ScheduleCallback).                          *)
(* The steps of different sessions interleave.  A rejected request changes *)
(* nothing, so only requests that pass the validation are actions; the     *)
(* operators ..._outcome say which error the others get.  Priorities, a    *)
(* wrong workflow id and an unknown task id lead to such rejections only   *)
(* and are left out.                                                       *)
(***************************************************************************)
EXTENDS Integers, FiniteSets, TaskStateMachine

CONSTANTS
    TaskIds,                  \* task ids that may ever be drawn
    Sessions,                 \* requests the server handles at the same time
    Agents,                   \* registered agents
    Owner,                    \* owner_agent_id of the workflow
    Suspended,                \* the suspended agents
    Keys,                     \* idempotency keys
    Inputs,                   \* task inputs
    ValidInputs,              \* those the workflow's input_schema accepts
    Progress,                 \* progress reports
    CallbackUrls,             \* whether a dispatch names a callback_url
    DispatchMetadata,         \* metadata of a dispatch
    ExecutorEvents,           \* event types the executors post
    ExecutorStatuses,         \* statuses their "status" events carry
    ExecutorPostsSerially,    \* a task's executor awaits each answer
    fleet_lineage_max_depth,  \* settings
    fleet_pause_ttl_seconds,
    MaxDispatched,            \* bound on the tasks made by create_task
    MaxSequence,              \* bound: no request is taken up past it
    MaxContext,               \* bound on context sequence numbers
    MaxTime,                  \* bound on the clock
    MaxCrashes,               \* bound on server crashes
    NULL,
    Keep                      \* a column an UPDATE does not name

_VALID_EVENT_TYPES == {"status", "progress", "log", "completed", "failed",
                       "heartbeat", "context_injected", "escalation"}

ASSUME StoreAssumption ==
    /\ IsFiniteSet(Sessions)
    /\ Owner \in Agents
    /\ Suspended \subseteq Agents
    /\ ValidInputs \subseteq Inputs
    /\ CallbackUrls \subseteq BOOLEAN
    /\ DispatchMetadata \subseteq {NULL, "no_progress"}
    /\ ExecutorEvents \subseteq _VALID_EVENT_TYPES
    /\ ExecutorStatuses \subseteq TaskStatus
    /\ ExecutorPostsSerially \in BOOLEAN
    /\ fleet_lineage_max_depth \in Nat
    /\ fleet_pause_ttl_seconds \in Nat
    /\ MaxDispatched \in Nat
    /\ MaxSequence \in Nat
    /\ MaxContext \in Nat
    /\ MaxTime \in Nat
    /\ MaxCrashes \in Nat

ASSUME NullAssumption ==
    /\ NULL \notin TaskIds \cup Agents \cup Keys \cup Inputs \cup Progress
    /\ NULL \notin TaskStatus \cup Nat
    /\ NULL \notin {"result", "error", "no_progress"}
    /\ Keep \notin TaskStatus /\ Keep \notin BOOLEAN /\ Keep \notin Progress
    /\ Keep \notin {NULL, "result", "error", "no_progress"}

VARIABLES
    tasks,        \* the columns of a task that no handler updates, or NULL
    row,          \* the columns that handlers update
    events,       \* the task's rows of task_events
    context_seq,  \* context_sequence of its latest context_injected event
    callbacks,    \* how often a callback was scheduled for it
    req,          \* the request each session handles, or NULL
    now,          \* the clock, in units of the pause TTL
    crashes       \* server crashes so far

vars == <<tasks, row, events, context_seq, callbacks, req, now, crashes>>

-----------------------------------------------------------------------------
(* Rows, events, requests.                                                 *)

\* class Task, the columns set once.  callback_url: whether there is one.
Task == [principal_agent_id : Agents,
         executor_agent_id  : Agents,
         input              : Inputs,
         idempotency_key    : Keys \cup {NULL},
         callback_url       : BOOLEAN,
         parent_task_id     : TaskIds \cup {NULL},
         root_task_id       : TaskIds \cup {NULL},
         lineage_depth      : Nat]

\* metadata_: None, a dictionary without a progress entry, or with one.
Metadata == Progress \cup {NULL, "no_progress"}

\* class Task, the columns handlers update.  started_at and completed_at: set
\* or not; result: none, the executor's, or the error of a "failed" event.
Row == [status       : TaskStatus,
        started_at   : BOOLEAN,
        completed_at : BOOLEAN,
        paused_at    : Nat \cup {NULL},
        result       : {NULL, "result", "error"},
        metadata     : Metadata]

\* What an UPDATE assigns: SQLAlchemy names the changed columns only.
Update == [status       : TaskStatus \cup {Keep},
           started_at   : BOOLEAN \cup {Keep},
           completed_at : BOOLEAN \cup {Keep},
           paused_at    : Nat \cup {NULL, Keep},
           result       : {NULL, "result", "error", Keep},
           metadata     : Metadata \cup {Keep}]

EventTypes == _VALID_EVENT_TYPES \cup {"created", "pause_requested",
                                       "resume_requested"}

\* class TaskEvent.  status: the status the event says the task now has;
\* context: data["context_sequence"], 0 when there is none; result: what the
\* data of a "completed" or "failed" event holds, NULL when there is none.
TaskEvent == [sequence   : Nat,
              event_type : EventTypes,
              status     : TaskStatus \cup {NULL},
              context    : Nat,
              result     : {NULL, "result", "error"}]

\* A request in progress: what its session will write.  phase "updated": the
\* UPDATE of the task has been sent.  sequence is 0 until Flush numbers the event;
\* task is NULL for create_task; child and insert are
\* the id and the row of the task it creates; seen: the context_injected
\* events that were there when it was loaded.
Request == [phase    : {"loaded", "updated", "flushed", "committed"},
            sidecar  : BOOLEAN,
            task     : TaskIds \cup {NULL},
            update   : Update,
            event    : TaskEvent,
            child    : TaskIds \cup {NULL},
            insert   : Task \cup {NULL},
            metadata : Metadata,
            seen     : SUBSET TaskEvent]

ASSUME RowAssumption == NULL \notin Task /\ NULL \notin Request

Unchanged == [status |-> Keep, started_at |-> Keep, completed_at |-> Keep,
              paused_at |-> Keep, result |-> Keep, metadata |-> Keep]

\* Mutant: completed_at for the executor's outcomes only.
transition_to_closing_outcomes(new_status) ==
    [Unchanged EXCEPT !.status = new_status,
                      !.completed_at = IF new_status \in {"completed", "failed"}
                                       THEN TRUE ELSE Keep]

\* Task.transition_to: the assignments it makes.
transition_to(new_status) ==
    [Unchanged EXCEPT !.status = new_status,
                      !.completed_at = IF is_terminal(new_status)
                                       THEN TRUE ELSE Keep]

Written(old, new) == IF new = Keep THEN old ELSE new

\* UPDATE tasks SET ... WHERE id = ...
Apply(r, u) == [status       |-> Written(r.status, u.status),
                started_at   |-> Written(r.started_at, u.started_at),
                completed_at |-> Written(r.completed_at, u.completed_at),
                paused_at    |-> Written(r.paused_at, u.paused_at),
                result       |-> Written(r.result, u.result),
                metadata     |-> Written(r.metadata, u.metadata)]

\* Mutant: paused_at is filled in on insertion, with no time.
accepted_paused(metadata) ==
    [status |-> "accepted", started_at |-> FALSE, completed_at |-> FALSE,
     paused_at |-> -1, result |-> NULL, metadata |-> metadata]

\* The values of a task's row when it is inserted.
Accepted(metadata) ==
    [status |-> "accepted", started_at |-> FALSE, completed_at |-> FALSE,
     paused_at |-> NULL, result |-> NULL, metadata |-> metadata]

Event(sequence, event_type, status, context) ==
    [sequence |-> sequence, event_type |-> event_type, status |-> status,
     context |-> context, result |-> NULL]

created_event == Event(1, "created", "accepted", 0)

TypeOK ==
    /\ tasks \in [TaskIds -> Task \cup {NULL}]
    /\ row \in [TaskIds -> Row]
    /\ events \in [TaskIds -> SUBSET TaskEvent]
    /\ context_seq \in [TaskIds -> Nat]
    /\ callbacks \in [TaskIds -> Nat]
    /\ req \in [Sessions -> Request \cup {NULL}]
    /\ now \in Nat
    /\ crashes \in Nat

Init ==
    /\ tasks = [t \in TaskIds |-> NULL]
    /\ row = [t \in TaskIds |-> Accepted(NULL)]
    /\ events = [t \in TaskIds |-> {}]
    /\ context_seq = [t \in TaskIds |-> 0]
    /\ callbacks = [t \in TaskIds |-> 0]
    /\ req = [s \in Sessions |-> NULL]
    /\ now = 0
    /\ crashes = 0

-----------------------------------------------------------------------------
(* What the handlers check.                                                *)

exists(t) == tasks[t] # NULL

\* A new id, uuid4: none that a task or a request has.
fresh(t) == /\ ~exists(t)
            /\ \A s \in Sessions : req[s] # NULL => req[s].child # t

\* Bound: MaxDispatched, counting the requests in progress.
may_dispatch ==
    Cardinality({t \in TaskIds : exists(t) /\ tasks[t].parent_task_id = NULL}) +
    Cardinality({s \in Sessions : req[s] # NULL /\ req[s].task = NULL})
        < MaxDispatched

\* Bound: MaxSequence.
room(t) == \A e \in events[t] : e.sequence < MaxSequence

context_events(t) == {e \in events[t] : e.event_type = "context_injected"}

\* The caller must be the task's principal or the workflow's owner.
authorized(t, caller) ==
    caller = tasks[t].principal_agent_id \/ caller = Owner

\* check_idempotency: the key is new, was used with the same input, or with
\* another one.  There is no expiry.
check_idempotency(key, input) ==
    LET existing == {t \in TaskIds : exists(t) /\ tasks[t].idempotency_key = key}
    IN  IF key = NULL \/ existing = {} THEN "new"
        ELSE IF \E t \in existing : tasks[t].input = input THEN "replayed"
        ELSE "IDEMPOTENCY_MISMATCH"

\* The answers of the handlers, in the order of their checks; "ok": the request
\* goes on to write, "replayed": an existing task is returned.
create_outcome(executor, input, key) ==
    IF check_idempotency(key, input) # "new" THEN check_idempotency(key, input)
    ELSE IF executor \in Suspended THEN "AGENT_SUSPENDED"
    ELSE IF input \notin ValidInputs THEN "INVALID_INPUT"
    ELSE "ok"

cancel_outcome(t, caller) ==
    IF ~authorized(t, caller) THEN "NOT_AUTHORIZED"
    ELSE IF ~validate_transition(row[t].status, "cancelled")
         THEN "INVALID_STATE_TRANSITION"
    ELSE "ok"

\* Mutant: any terminal task can be retasked.
retask_outcome_terminal(t, caller, merged, key) ==
    IF ~authorized(t, caller) THEN "NOT_AUTHORIZED"
    ELSE IF ~is_terminal(row[t].status) THEN "RETASK_NOT_REVIEWABLE"
    ELSE IF tasks[t].lineage_depth >= fleet_lineage_max_depth
         THEN "RETASK_DEPTH_EXCEEDED"
    ELSE IF check_idempotency(key, merged) # "new"
         THEN check_idempotency(key, merged)
    ELSE "ok"

\* merged: the task's input updated with the refinement's additional_input.
retask_outcome(t, caller, merged, key) ==
    IF ~authorized(t, caller) THEN "NOT_AUTHORIZED"
    ELSE IF row[t].status \notin {"completed", "failed"}
         THEN "RETASK_NOT_REVIEWABLE"
    ELSE IF tasks[t].lineage_depth >= fleet_lineage_max_depth
         THEN "RETASK_DEPTH_EXCEEDED"
    ELSE IF check_idempotency(key, merged) # "new"
         THEN check_idempotency(key, merged)
    ELSE "ok"

\* Mutant: the depth limit is off by one.
redirect_outcome_too_deep(t, caller, new_input, key) ==
    IF ~authorized(t, caller) THEN "NOT_AUTHORIZED"
    ELSE IF row[t].status \notin {"running", "paused"}
         THEN "REDIRECT_NOT_POSSIBLE"
    ELSE IF tasks[t].lineage_depth > fleet_lineage_max_depth
         THEN "RETASK_DEPTH_EXCEEDED"
    ELSE IF check_idempotency(key, new_input) # "new"
         THEN check_idempotency(key, new_input)
    ELSE "ok"

redirect_outcome(t, caller, new_input, key) ==
    IF ~authorized(t, caller) THEN "NOT_AUTHORIZED"
    ELSE IF row[t].status \notin {"running", "paused"}
         THEN "REDIRECT_NOT_POSSIBLE"
    ELSE IF tasks[t].lineage_depth >= fleet_lineage_max_depth
         THEN "RETASK_DEPTH_EXCEEDED"
    ELSE IF check_idempotency(key, new_input) # "new"
         THEN check_idempotency(key, new_input)
    ELSE "ok"

\* Mutant: a task that has not started can be paused.
pause_outcome_unstarted(t, caller) ==
    IF ~authorized(t, caller) THEN "NOT_AUTHORIZED"
    ELSE IF row[t].status \notin {"running", "accepted"} THEN "TASK_NOT_PAUSABLE"
    ELSE "ok"

pause_outcome(t, caller) ==
    IF ~authorized(t, caller) THEN "NOT_AUTHORIZED"
    ELSE IF row[t].status # "running" THEN "TASK_NOT_PAUSABLE"
    ELSE "ok"

\* An expired pause is cancelled before the caller is told PAUSE_TIMEOUT.
resume_outcome(t, caller) ==
    IF ~authorized(t, caller) THEN "NOT_AUTHORIZED"
    ELSE IF row[t].status # "paused" THEN "TASK_NOT_PAUSED"
    ELSE IF /\ row[t].paused_at # NULL
            /\ now - row[t].paused_at > fleet_pause_ttl_seconds
         THEN "PAUSE_TIMEOUT"
    ELSE "ok"

inject_outcome(t, caller, sequence) ==
    IF ~authorized(t, caller) THEN "NOT_AUTHORIZED"
    ELSE IF row[t].status \notin {"running", "paused"} THEN "CONTEXT_REJECTED"
    ELSE IF sequence <= context_seq[t] THEN "CONTEXT_REJECTED"
    ELSE "ok"

-----------------------------------------------------------------------------
(* The first step of each handler: session.get and the checks.             *)

\* A session takes up a request.
Begin(s, q) ==
    /\ req[s] = NULL
    /\ req' = [req EXCEPT ![s] = q]
    /\ UNCHANGED <<tasks, row, events, context_seq, callbacks, now, crashes>>

\* A principal's request to write the task and an event Flush will number.
Lifecycle(t, update, event_type, status) ==
    [phase |-> "loaded", sidecar |-> FALSE, task |-> t, update |-> update,
     event |-> Event(0, event_type, status, 0), child |-> NULL,
     insert |-> NULL, metadata |-> NULL, seen |-> {}]

\* Mutant: the new task is linked to the root of the chain.
successor_of_root(t, input, key) ==
    LET root == IF tasks[t].root_task_id # NULL THEN tasks[t].root_task_id ELSE t
    IN  [principal_agent_id |-> tasks[t].principal_agent_id,
         executor_agent_id  |-> tasks[t].executor_agent_id,
         input              |-> input,
         idempotency_key    |-> key,
         callback_url       |-> FALSE,
         parent_task_id     |-> root,
         root_task_id       |-> root,
         lineage_depth      |-> tasks[t].lineage_depth + 1]

\* The row that retask and redirect insert.  callback_url is not copied.
successor(t, input, key) ==
    [principal_agent_id |-> tasks[t].principal_agent_id,
     executor_agent_id  |-> tasks[t].executor_agent_id,
     input              |-> input,
     idempotency_key    |-> key,
     callback_url       |-> FALSE,
     parent_task_id     |-> t,
     root_task_id       |-> IF tasks[t].root_task_id # NULL
                            THEN tasks[t].root_task_id ELSE t,
     lineage_depth      |-> tasks[t].lineage_depth + 1]

create_task(s, caller, executor, input, key, callback_url, metadata, new) ==
    /\ fresh(new) /\ may_dispatch
    /\ create_outcome(executor, input, key) = "ok"
    /\ Begin(s, [phase |-> "loaded", sidecar |-> FALSE, task |-> NULL,
                 update |-> Unchanged, event |-> created_event, child |-> new,
                 insert |-> [principal_agent_id |-> caller,
                             executor_agent_id  |-> executor,
                             input              |-> input,
                             idempotency_key    |-> key,
                             callback_url       |-> callback_url,
                             parent_task_id     |-> NULL,
                             root_task_id       |-> NULL,
                             lineage_depth      |-> 0],
                 metadata |-> metadata, seen |-> {}])

cancel_task(s, t, caller) ==
    /\ exists(t) /\ room(t)
    /\ cancel_outcome(t, caller) = "ok"
    /\ Begin(s, Lifecycle(t, transition_to("cancelled"), "status", "cancelled"))

retask_task(s, t, caller, merged, key, new) ==
    /\ exists(t) /\ room(t) /\ fresh(new)
    /\ retask_outcome(t, caller, merged, key) = "ok"
    /\ Begin(s, [Lifecycle(t, transition_to("retasked"), "status", "retasked")
                 EXCEPT !.child = new,
                        !.insert = successor(t, merged, key),
                        !.metadata = "no_progress"])

\* Mutant: a redirected task, which is cancelled for its successor, is logged as
\* cancelled.
redirect_task_as_cancel(s, t, caller, new_input, key, inherit_progress, new) ==
    /\ exists(t) /\ room(t) /\ fresh(new)
    /\ redirect_outcome(t, caller, new_input, key) = "ok"
    /\ Begin(s, [Lifecycle(t, transition_to("redirected"), "status", "cancelled")
                 EXCEPT !.child = new,
                        !.insert = successor(t, new_input, key),
                        !.metadata = "no_progress"])

\* inherit_progress copies the progress the loaded metadata holds.
redirect_task(s, t, caller, new_input, key, inherit_progress, new) ==
    /\ exists(t) /\ room(t) /\ fresh(new)
    /\ redirect_outcome(t, caller, new_input, key) = "ok"
    /\ Begin(s, [Lifecycle(t, transition_to("redirected"), "status", "redirected")
                 EXCEPT !.child = new,
                        !.insert = successor(t, new_input, key),
                        !.metadata = IF /\ inherit_progress
                                        /\ row[t].metadata \in Progress
                                     THEN row[t].metadata
                                     ELSE "no_progress"])

\* Mutant: the event of a pause does not say that the task is paused.
pause_task_unlogged(s, t, caller) ==
    /\ exists(t) /\ room(t)
    /\ pause_outcome(t, caller) = "ok"
    /\ Begin(s, Lifecycle(t, [transition_to("paused") EXCEPT !.paused_at = now],
                          "pause_requested", NULL))

pause_task(s, t, caller) ==
    /\ exists(t) /\ room(t)
    /\ pause_outcome(t, caller) = "ok"
    /\ Begin(s, Lifecycle(t, [transition_to("paused") EXCEPT !.paused_at = now],
                          "pause_requested", "paused"))

\* Mutant: an expired pause is refused and left as it is.
resume_task_refused(s, t, caller) ==
    /\ exists(t) /\ room(t)
    /\ resume_outcome(t, caller) = "ok"
    /\ Begin(s, Lifecycle(t, [transition_to("running") EXCEPT
                                !.paused_at = IF row[t].paused_at = NULL
                                              THEN Keep ELSE NULL],
                          "resume_requested", "running"))

\* paused_at = None is a change only if the loaded value was not None.
resume_task(s, t, caller) ==
    /\ exists(t) /\ room(t)
    /\ \/ /\ resume_outcome(t, caller) = "PAUSE_TIMEOUT"
          /\ Begin(s, Lifecycle(t, transition_to("cancelled"),
                                "status", "cancelled"))
       \/ /\ resume_outcome(t, caller) = "ok"
          /\ Begin(s, Lifecycle(t, [transition_to("running") EXCEPT
                                      !.paused_at = IF row[t].paused_at = NULL
                                                    THEN Keep ELSE NULL],
                                "resume_requested", "running"))

inject_context(s, t, caller, sequence) ==
    /\ exists(t) /\ room(t)
    /\ inject_outcome(t, caller, sequence) = "ok"
    /\ Begin(s, [Lifecycle(t, Unchanged, "context_injected", NULL)
                 EXCEPT !.event = Event(0, "context_injected", NULL, sequence),
                        !.seen = context_events(t)])

\* process_sidecar_event: the number must exceed the task's last one.
PostEvent(s, t, event, update) ==
    /\ exists(t)
    /\ event.event_type \in ExecutorEvents
    /\ ExecutorPostsSerially =>
          \A r \in Sessions :
              (req[r] # NULL /\ req[r].sidecar) => req[r].task # t
    /\ \A e \in events[t] : e.sequence < event.sequence
    /\ Begin(s, [Lifecycle(t, update, event.event_type, event.status)
                 EXCEPT !.sidecar = TRUE,
                        !.event = event,
                        !.seen = IF event.event_type = "context_injected"
                                 THEN context_events(t) ELSE {}])

sidecar_status(s, t, sequence, new_status) ==
    /\ validate_transition(row[t].status, new_status)
    /\ PostEvent(s, t, Event(sequence, "status", new_status, 0),
                 [transition_to(new_status) EXCEPT
                    !.started_at = IF /\ new_status = "running"
                                      /\ ~row[t].started_at
                                   THEN TRUE ELSE Keep])

\* Mutant: a completed event without a result leaves the one that is there.
sidecar_completed_keeping(s, t, sequence, result, quality) ==
    /\ validate_transition(row[t].status, "completed")
    /\ PostEvent(s, t, [Event(sequence, "completed", "completed", 0)
                        EXCEPT !.result = result],
                 [transition_to("completed") EXCEPT
                    !.result = IF result = NULL THEN Keep ELSE result,
                    !.metadata = IF quality /\ row[t].metadata = NULL
                                 THEN "no_progress" ELSE Keep])

\* result: data.get("result"), which may be None.  With "quality" or "warnings",
\* None becomes a dictionary; one that is there is changed in place, which the
\* UPDATE does not see.  It does not see None assigned to None either.
sidecar_completed(s, t, sequence, result, quality) ==
    /\ validate_transition(row[t].status, "completed")
    /\ PostEvent(s, t, [Event(sequence, "completed", "completed", 0)
                        EXCEPT !.result = result],
                 [transition_to("completed") EXCEPT
                    !.result = IF result = NULL /\ row[t].result = NULL
                               THEN Keep ELSE result,
                    !.metadata = IF quality /\ row[t].metadata = NULL
                                 THEN "no_progress" ELSE Keep])

sidecar_failed(s, t, sequence) ==
    /\ validate_transition(row[t].status, "failed")
    /\ PostEvent(s, t, [Event(sequence, "failed", "failed", 0)
                        EXCEPT !.result = "error"],
                 [transition_to("failed") EXCEPT !.result = "error"])

\* Mutant: a missing dictionary is not made.
sidecar_progress_in_place(s, t, sequence, progress) ==
    PostEvent(s, t, Event(sequence, "progress", NULL, 0), Unchanged)

\* metadata_["progress"] = ...: seen by the UPDATE only if metadata_ was None.
sidecar_progress(s, t, sequence, progress) ==
    PostEvent(s, t, Event(sequence, "progress", NULL, 0),
              [Unchanged EXCEPT !.metadata = IF row[t].metadata = NULL
                                             THEN progress ELSE Keep])

\* log, heartbeat, escalation, context_injected: the event is recorded only.
sidecar_record(s, t, sequence, event_type, context) ==
    /\ event_type \in {"log", "heartbeat", "escalation", "context_injected"}
    /\ event_type # "context_injected" => context = 0
    /\ PostEvent(s, t, Event(sequence, event_type, NULL, context), Unchanged)

-----------------------------------------------------------------------------
(* Flush, commit, roll back.                                               *)

\* Mutants: the UPDATE is sent with the commit only; the row is locked from the
\* moment the task is loaded, in shared mode.
unlocked(s, t) == FALSE
locked_when_loaded(s, t) == \E r \in Sessions \ {s} : /\ req[r] # NULL
                                                      /\ req[r].phase # "committed"
                                                      /\ req[r].task = t
                                                      /\ req[r].update # Unchanged

\* The row lock of an UPDATE, held from the flush to the end of the session.
\* (An INSERT that refers to the row takes a KEY SHARE lock on it, which an
\* UPDATE of these columns does not conflict with.)
locked(s, t) == \E r \in Sessions \ {s} : /\ req[r] # NULL
                                          /\ req[r].phase \in {"updated", "flushed"}
                                          /\ req[r].task = t
                                          /\ req[r].update # Unchanged

\* Another session has inserted the key and not yet committed.
key_locked(s, key) == \E r \in Sessions \ {s} : /\ req[r] # NULL
                                                /\ req[r].phase = "flushed"
                                                /\ req[r].insert # NULL
                                                /\ req[r].insert.idempotency_key = key

\* Mutant: no UNIQUE constraint on idempotency_key.
key_not_unique(q) == FALSE

\* UNIQUE (idempotency_key), UNIQUE (task_id, sequence).
key_taken(q) == /\ q.insert # NULL
                /\ q.insert.idempotency_key # NULL
                /\ \E t \in TaskIds : /\ exists(t)
                                      /\ tasks[t].idempotency_key
                                           = q.insert.idempotency_key
sequence_taken(q) == /\ q.task # NULL
                     /\ \E e \in events[q.task] : e.sequence = q.event.sequence

\* What an UPDATE waits for: nobody else holds the row.
row_free(s) == req[s].update # Unchanged => ~locked(s, req[s].task)

\* What the INSERT of a task waits for, and that it does not then fail: nobody
\* has inserted its key.
key_free(s) ==
    LET q == req[s] IN
    /\ (q.insert # NULL /\ q.insert.idempotency_key # NULL)
          => ~key_locked(s, q.insert.idempotency_key)
    /\ ~key_taken(q)

\* The autoflush before SELECT max(sequence) sends the UPDATE of the dirty task
\* first: from here on the session holds the row.
FlushUpdate(s) ==
    LET q == req[s] IN
    /\ q # NULL
    /\ q.phase = "loaded"
    /\ q.event.sequence = 0
    /\ q.update # Unchanged
    /\ row_free(s)
    /\ req' = [req EXCEPT ![s] = [q EXCEPT !.phase = "updated"]]
    /\ UNCHANGED <<tasks, row, events, context_seq, callbacks, now, crashes>>

\* It then sends the INSERT of the successor, if there is one, and may wait for
\* the key while it holds the row.  The event's number is one more than the last,
\* 1 for a task without events.
Flush(s) ==
    LET q == req[s] IN
    /\ q # NULL
    /\ q.phase = IF q.update = Unchanged THEN "loaded" ELSE "updated"
    /\ q.event.sequence = 0
    /\ key_free(s)
    /\ \E n \in 1..(MaxSequence + Cardinality(Sessions)) :
          /\ \A e \in events[q.task] : e.sequence < n
          /\ n # 1 => \E e \in events[q.task] : e.sequence = n - 1
          /\ req' = [req EXCEPT ![s] =
                        [q EXCEPT !.phase = "flushed",
                                  !.event = [q.event EXCEPT !.sequence = n]]]
    /\ UNCHANGED <<tasks, row, events, context_seq, callbacks, now, crashes>>

\* What get_max_context_sequence may return once q is committed: the value of
\* the event with the latest created_at, which one committed since q was loaded
\* may have.
latest_context(q) ==
    {q.event.context} \cup
    (IF context_events(q.task) = q.seen THEN {} ELSE {context_seq[q.task]})

\* The commit sends what is not yet sent: the event, and for create_task the
\* INSERT of the task, for a sidecar event the UPDATE of the task; then only
\* COMMIT is left, so a session that waits here holds nothing others wait for.
Commit(s) ==
    LET q == req[s] IN
    /\ q # NULL
    /\ q.phase # "committed"
    /\ q.event.sequence # 0
    /\ row_free(s)
    /\ key_free(s)
    /\ ~sequence_taken(q)
    /\ tasks' = [t \in TaskIds |-> IF t = q.child THEN q.insert ELSE tasks[t]]
    /\ row' = [t \in TaskIds |->
                 IF t = q.child THEN Accepted(q.metadata)
                 ELSE IF t = q.task THEN Apply(row[t], q.update) ELSE row[t]]
    /\ events' = [t \in TaskIds |->
                    IF t = q.child THEN {created_event}
                    ELSE IF t = q.task THEN events[t] \cup {q.event}
                    ELSE events[t]]
    /\ IF q.event.event_type = "context_injected"
       THEN \E c \in latest_context(q) :
               context_seq' = [context_seq EXCEPT ![q.task] = c]
       ELSE UNCHANGED context_seq
    /\ req' = [req EXCEPT ![s] = IF q.sidecar
                                 THEN [q EXCEPT !.phase = "committed"] ELSE NULL]
    /\ UNCHANGED <<callbacks, now, crashes>>

\* A UNIQUE constraint fails, at the INSERT of a task, which follows the UPDATE
\* of its parent, or of the event: the session is rolled back.
integrity_error(s) ==
    LET q == req[s] IN
    \/ key_taken(q) /\ (q.task = NULL \/ q.phase # "loaded")
    \/ sequence_taken(q) /\ row_free(s)

IntegrityError(s) ==
    /\ req[s] # NULL
    /\ req[s].phase # "committed"
    /\ integrity_error(s)
    /\ req' = [req EXCEPT ![s] = NULL]
    /\ UNCHANGED <<tasks, row, events, context_seq, callbacks, now, crashes>>

\* Mutant: failures are not called back.
ScheduleCallbackOnSuccess(s) ==
    /\ req[s] # NULL
    /\ req[s].phase = "committed"
    /\ LET t == req[s].task IN
       callbacks' = IF row[t].status = "completed" /\ tasks[t].callback_url
                    THEN [callbacks EXCEPT ![t] = @ + 1] ELSE callbacks
    /\ req' = [req EXCEPT ![s] = NULL]
    /\ UNCHANGED <<tasks, row, events, context_seq, now, crashes>>

\* After its commit a sidecar event reads the task again.
ScheduleCallback(s) ==
    /\ req[s] # NULL
    /\ req[s].phase = "committed"
    /\ LET t == req[s].task IN
       callbacks' = IF is_terminal(row[t].status) /\ tasks[t].callback_url
                    THEN [callbacks EXCEPT ![t] = @ + 1] ELSE callbacks
    /\ req' = [req EXCEPT ![s] = NULL]
    /\ UNCHANGED <<tasks, row, events, context_seq, now, crashes>>

\* The server process dies: what was not committed is rolled back.
Crash ==
    /\ crashes < MaxCrashes
    /\ \E s \in Sessions : req[s] # NULL
    /\ crashes' = crashes + 1
    /\ req' = [s \in Sessions |-> NULL]
    /\ UNCHANGED <<tasks, row, events, context_seq, callbacks, now>>

Tick ==
    /\ now < MaxTime
    /\ now' = now + 1
    /\ UNCHANGED <<tasks, row, events, context_seq, callbacks, req, crashes>>

-----------------------------------------------------------------------------
Dispatch(s) ==
    \E caller, executor \in Agents, input \in Inputs, key \in Keys \cup {NULL},
       callback_url \in CallbackUrls, metadata \in DispatchMetadata,
       new \in TaskIds :
        create_task(s, caller, executor, input, key, callback_url, metadata, new)

Principal(s, t) ==
    \E caller \in Agents :
        \/ cancel_task(s, t, caller)
        \/ pause_task(s, t, caller)
        \/ resume_task(s, t, caller)
        \/ \E sequence \in 1..MaxContext : inject_context(s, t, caller, sequence)
        \/ \E input \in Inputs, key \in Keys \cup {NULL}, new \in TaskIds :
              \/ retask_task(s, t, caller, input, key, new)
              \/ \E inherit_progress \in BOOLEAN :
                    redirect_task(s, t, caller, input, key, inherit_progress, new)

process_sidecar_event(s, t) ==
    \E sequence \in 1..MaxSequence :
        \/ \E new_status \in ExecutorStatuses :
              sidecar_status(s, t, sequence, new_status)
        \/ \E result \in {NULL, "result"}, quality \in BOOLEAN :
              sidecar_completed(s, t, sequence, result, quality)
        \/ sidecar_failed(s, t, sequence)
        \/ \E progress \in Progress : sidecar_progress(s, t, sequence, progress)
        \/ \E event_type \in ExecutorEvents, context \in 0..MaxContext :
              sidecar_record(s, t, sequence, event_type, context)

\* A step of the session that handles a request.
Proceed(s) == \/ FlushUpdate(s)
              \/ Flush(s)
              \/ Commit(s)
              \/ IntegrityError(s)
              \/ ScheduleCallback(s)

Next ==
    \/ \E s \in Sessions :
          \/ Dispatch(s)
          \/ \E t \in TaskIds : Principal(s, t) \/ process_sidecar_event(s, t)
          \/ Proceed(s)
    \/ Crash
    \/ Tick

Spec == Init /\ [][Next]_vars

-----------------------------------------------------------------------------
(* Properties.                                                             *)

children(t) == {c \in TaskIds : exists(c) /\ tasks[c].parent_task_id = t}

\* A row that starts a chain, or continues the existing task it names.
continues(r) ==
    LET p == r.parent_task_id IN
    IF p = NULL
    THEN r.root_task_id = NULL /\ r.lineage_depth = 0
    ELSE /\ exists(p)
         /\ r.principal_agent_id = tasks[p].principal_agent_id
         /\ r.executor_agent_id = tasks[p].executor_agent_id
         /\ r.lineage_depth = tasks[p].lineage_depth + 1
         /\ r.lineage_depth <= fleet_lineage_max_depth
         /\ r.root_task_id = IF tasks[p].root_task_id = NULL THEN p
                             ELSE tasks[p].root_task_id

\* Every task that retask or redirect made continues an existing one: its
\* principal and executor, one deeper, within the depth limit, with the id of
\* the first task of the chain as its root; a task made by create_task starts
\* a chain.  Holds although the parent is read before it is locked.
LineageSound == \A t \in TaskIds : exists(t) => continues(tasks[t])

\* An idempotency key names one task, also when two requests with it have both
\* passed check_idempotency before either commits.
KeyNamesOneTask ==
    \A t, u \in TaskIds :
        /\ exists(t) /\ exists(u)
        /\ tasks[t].idempotency_key # NULL
        /\ tasks[t].idempotency_key = tasks[u].idempotency_key
        => t = u

\* The log tells what became of a task: of the events that carry a status, the
\* one with the highest sequence number carries the task's.  Readers of the
\* event stream rely on it.  It needs the row lock under which a handler numbers
\* its event, and an executor that posts one event at a time.
LogTellsStatus ==
    \A t \in TaskIds : exists(t) =>
        \E e \in events[t] :
            /\ e.status = row[t].status
            /\ \A f \in events[t] : f.status # NULL => f.sequence <= e.sequence

\* ... and its result: what the last "completed" or "failed" event holds, nothing
\* if it holds nothing.
LogTellsResult ==
    \A t \in TaskIds :
        LET outcomes == {e \in events[t] : e.event_type \in {"completed", "failed"}}
        IN  IF outcomes = {} THEN row[t].result = NULL
            ELSE \E e \in outcomes :
                    /\ \A f \in outcomes : f.sequence <= e.sequence
                    /\ row[t].result = e.result

\* A successor is committed with the event that announces it on its parent, and
\* never without: as many of the one as of the other, whatever crashes or
\* rolls back.  (The executors post neither "retasked" nor "redirected".)
SuccessorsAnnounced ==
    \A t \in TaskIds :
        Cardinality(children(t)) =
        Cardinality({e \in events[t] : e.status \in {"retasked", "redirected"}})

\* A task whose status is terminal has completed_at set, and one that has run
\* has started_at set, whichever handlers raced.
TimesSet ==
    \A t \in TaskIds :
        /\ is_terminal(row[t].status) => row[t].completed_at
        /\ row[t].status \in {"running", "paused", "redirected", "completed"}
              => row[t].started_at

\* No request is served twice from the same state: a task is superseded by one
\* successor at most, and once superseded it stays so.
OneSuccessor ==
    \A t \in TaskIds :
        /\ Cardinality(children(t)) <= 1
        /\ children(t) # {} <=> row[t].status \in {"retasked", "redirected"}

\* Every change of a task's status is one the table of state_machine.py lists.
OnlyValidTransitions ==
    [][\A t \in TaskIds :
          row'[t].status # row[t].status =>
              validate_transition(row[t].status, row'[t].status)]_vars

\* The executor's outcomes are called back: of a task with a callback_url, each
\* "completed" or "failed" event that was recorded has scheduled a callback of its
\* own by the time the requests are served.  Unless the server crashed.  Of tasks
\* the principal ends, and of events after the outcome, it says nothing: there the
\* code does not do what callbacks.py says (TerminalCalledBack and
\* CalledBackPerOutcome in TaskClaims).
OutcomesCalledBack ==
    \A t \in TaskIds :
        /\ crashes = 0
        /\ exists(t) /\ tasks[t].callback_url
        /\ \A s \in Sessions : req[s] = NULL
        => callbacks[t] >=
           Cardinality({e \in events[t] : e.event_type \in {"completed", "failed"}})

\* How often exactly: once for the event that ends the task and once for each
\* event the executor posts after that, whatever it says.  (The executors'
\* "status" events end no task.)
CallbacksCounted ==
    \A t \in TaskIds :
        /\ crashes = 0
        /\ exists(t) /\ tasks[t].callback_url
        /\ \A s \in Sessions : req[s] = NULL
        => callbacks[t] =
           Cardinality({e \in events[t] :
                           /\ e.event_type \in _VALID_EVENT_TYPES \ {"status"}
                           /\ \E f \in events[t] : /\ is_terminal(f.status)
                                                  /\ f.sequence <= e.sequence})

\* A task that was dispatched without metadata and whose executor has reported
\* progress before any outcome shows progress: the first report makes the
\* dictionary and is stored, although later ones are not.
FirstProgressStored ==
    \A t \in TaskIds :
        /\ exists(t) /\ tasks[t].parent_task_id = NULL
        /\ DispatchMetadata = {NULL}
        /\ \E e \in events[t] :
              /\ e.event_type = "progress"
              /\ \A f \in events[t] : f.event_type = "completed" =>
                                         e.sequence < f.sequence
        => row[t].metadata \in Progress

\* Context is applied in the order its sender numbered it: along the log the
\* context sequence numbers grow.
ContextInOrder ==
    \A t \in TaskIds : \A e, f \in context_events(t) :
        e.sequence < f.sequence => e.context < f.context

\* What a session needs for its next step: the guards of ScheduleCallback, of
\* IntegrityError, of FlushUpdate, of Flush and of Commit.
can_proceed(s) ==
    LET q == req[s] IN
    /\ q # NULL
    /\ \/ q.phase = "committed"
       \/ /\ q.phase # "committed"
          /\ integrity_error(s)
       \/ /\ q.phase = "loaded"
          /\ q.event.sequence = 0
          /\ q.update # Unchanged
          /\ row_free(s)
       \/ /\ q.phase = IF q.update = Unchanged THEN "loaded" ELSE "updated"
          /\ q.event.sequence = 0
          /\ key_free(s)
          /\ \E n \in 1..(MaxSequence + Cardinality(Sessions)) :
                /\ \A e \in events[q.task] : e.sequence < n
                /\ n # 1 => \E e \in events[q.task] : e.sequence = n - 1
       \/ /\ q.phase # "committed"
          /\ q.event.sequence # 0
          /\ row_free(s)
          /\ key_free(s)
          /\ ~sequence_taken(q)

\* Sessions never all wait for each other, although retask and redirect hold the
\* row of their parent while they wait for an idempotency key: whenever requests
\* are being handled, one of them can go on.
NotAllWait ==
    (\E s \in Sessions : req[s] # NULL) => \E s \in Sessions : can_proceed(s)
=============================================================================
