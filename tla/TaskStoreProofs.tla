-------------------------- MODULE TaskStoreProofs --------------------------
(***************************************************************************)
(* Theorems about TaskStore, for every value of its constants.             *)
(***************************************************************************)
EXTENDS TaskStore, FiniteSetTheorems, TLAPS

-----------------------------------------------------------------------------
(* What the handlers hand to their sessions is a request.                  *)

\* transition_to assigns columns of their types.
LEMMA TransitionType ==
    ASSUME NEW st \in TaskStatus
    PROVE  transition_to(st) \in Update
BY DEF transition_to, Unchanged, Update

LEMMA UnchangedType == Unchanged \in Update
BY DEF Unchanged, Update

\* Lifecycle builds a request from an update, an event type and a status.
LEMMA LifecycleType ==
    ASSUME NEW t \in TaskIds, NEW u \in Update, NEW k \in EventTypes,
           NEW st \in TaskStatus \cup {NULL}
    PROVE  Lifecycle(t, u, k, st) \in Request
BY DEF Lifecycle, Request, Event, TaskEvent, Metadata

\* The row of a successor is a task's row.
LEMMA SuccessorType ==
    ASSUME TypeOK, NEW t \in TaskIds, exists(t), NEW i \in Inputs,
           NEW k \in Keys \cup {NULL}
    PROVE  successor(t, i, k) \in Task
BY DEF TypeOK, exists, successor, Task

LEMMA ApplyType ==
    ASSUME NEW r \in Row, NEW u \in Update
    PROVE  Apply(r, u) \in Row
BY DEF Row, Update, Apply, Written

LEMMA AcceptedType ==
    ASSUME NEW m \in Metadata
    PROVE  Accepted(m) \in Row
BY DEF Row, Accepted, TaskStatus

LEMMA CreatedType == created_event \in TaskEvent
BY DEF created_event, Event, TaskEvent, EventTypes, TaskStatus

-----------------------------------------------------------------------------
(* Type correctness.                                                       *)

LEMMA BeginType ==
    ASSUME TypeOK, NEW s \in Sessions, NEW q \in Request, Begin(s, q)
    PROVE  TypeOK'
BY DEF TypeOK, Begin

-----------------------------------------------------------------------------
(* What holds of a request when a handler takes it up.                     *)

\* The event tells the status that the update writes, if it writes one.
Announces(q) ==
    \/ q.update.status = Keep /\ q.event.status = NULL
    \/ q.update.status \in TaskStatus /\ q.event.status = q.update.status

\* The inserted row is that of a new task and continues the chain it names.
InsertOK(q) == q.child # NULL => /\ ~q.sidecar
                                 /\ q.insert \in Task
                                 /\ continues(q.insert)

\* The status written is valid for the task as it is now.
Valid(q) ==
    q.update.status # Keep =>
        validate_transition(row[q.task].status, q.update.status)

\* The number of a sidecar event is ahead of the log, and no other event of
\* the same task is being posted; the other handlers have no number yet.
NumberOK(q) ==
    IF q.sidecar
    THEN /\ q.event.sequence > 0
         /\ \A e \in events[q.task] : e.sequence < q.event.sequence
         /\ ExecutorPostsSerially =>
               \A r \in Sessions :
                   (req[r] # NULL /\ req[r].sidecar) => req[r].task # q.task
    ELSE q.event.sequence = 0

Admitted(q) ==
    /\ q \in Request
    /\ q.phase = "loaded"
    /\ q.child # NULL => fresh(q.child)
    /\ InsertOK(q)
    /\ q.sidecar => q.task # NULL
    /\ q.task = NULL => q.event.sequence # 0
    /\ q.task # NULL => /\ exists(q.task)
                        /\ Announces(q)
                        /\ Valid(q)
                        /\ NumberOK(q)

LEMMA TransitionStatus ==
    ASSUME NEW st \in TaskStatus
    PROVE  transition_to(st).status = st
BY DEF transition_to, Unchanged

\* The transitions of the principals' handlers are in the table.
LEMMA HandlersValid ==
    /\ validate_transition("completed", "retasked")
    /\ validate_transition("failed", "retasked")
    /\ validate_transition("running", "redirected")
    /\ validate_transition("paused", "redirected")
    /\ validate_transition("running", "paused")
    /\ validate_transition("paused", "running")
    /\ validate_transition("paused", "cancelled")
BY DEF validate_transition, VALID_TRANSITIONS, TaskStatus

\* A successor continues its parent if that is not at the depth limit.
LEMMA SuccessorContinues ==
    ASSUME TypeOK, NEW t \in TaskIds, exists(t), NEW i, NEW k,
           ~(tasks[t].lineage_depth >= fleet_lineage_max_depth)
    PROVE  continues(successor(t, i, k))
<1>1. tasks[t] \in Task
  BY DEF TypeOK, exists
<1>2. t # NULL
  BY NullAssumption
<1> QED  BY <1>1, <1>2, StoreAssumption DEF continues, successor, Task, exists

\* A request to change the status, and to insert nothing.
LEMMA LifecycleAdmitted ==
    ASSUME TypeOK, NEW t \in TaskIds, exists(t), NEW u \in Update,
           NEW k \in EventTypes, NEW st \in TaskStatus, u.status = st,
           validate_transition(row[t].status, st)
    PROVE  Admitted(Lifecycle(t, u, k, st))
<1> DEFINE q == Lifecycle(t, u, k, st)
<1>1. q \in Request
  BY LifecycleType
<1>2. /\ q.phase = "loaded" /\ q.child = NULL /\ ~q.sidecar /\ q.task = t
      /\ q.update = u /\ q.event.status = st /\ q.event.sequence = 0
  BY DEF Lifecycle, Event
<1> HIDE DEF q
<1>3. Admitted(q)
  BY <1>1, <1>2, NullAssumption DEF Admitted, InsertOK, Announces, Valid, NumberOK
<1> QED  BY <1>3 DEF q

\* A request to supersede the task by a new one.
LEMMA SupersedeAdmitted ==
    ASSUME TypeOK, NEW t \in TaskIds, exists(t), NEW st \in TaskStatus,
           validate_transition(row[t].status, st), NEW new \in TaskIds, fresh(new),
           NEW i \in Inputs, NEW k \in Keys \cup {NULL}, NEW m \in Metadata,
           ~(tasks[t].lineage_depth >= fleet_lineage_max_depth)
    PROVE  Admitted([Lifecycle(t, transition_to(st), "status", st)
                       EXCEPT !.child = new, !.insert = successor(t, i, k),
                              !.metadata = m])
<1> DEFINE p == Lifecycle(t, transition_to(st), "status", st)
           q == [p EXCEPT !.child = new, !.insert = successor(t, i, k),
                          !.metadata = m]
<1>1. "status" \in EventTypes
  BY DEF EventTypes, _VALID_EVENT_TYPES
<1>2. p \in Request
  BY <1>1, TransitionType, LifecycleType
<1>3. successor(t, i, k) \in Task
  BY SuccessorType
<1>4. q \in Request
  <2> HIDE DEF p
  <2> QED  BY <1>2, <1>3 DEF Request
<1>5. /\ q.phase = "loaded" /\ q.child = new /\ ~q.sidecar /\ q.task = t
      /\ q.update = transition_to(st) /\ q.event.status = st
      /\ q.event.sequence = 0 /\ q.insert = successor(t, i, k)
  BY DEF Lifecycle, Event
<1>6. q.update.status = st
  BY <1>5, TransitionStatus
<1>7. continues(successor(t, i, k))
  BY SuccessorContinues
<1> HIDE DEF q
<1>8. Admitted(q)
  BY <1>3, <1>4, <1>5, <1>6, <1>7, NullAssumption
     DEF Admitted, InsertOK, Announces, Valid, NumberOK
<1> QED  BY <1>8 DEF q, p

LEMMA DispatchAdmitted ==
    ASSUME TypeOK, NEW s \in Sessions, Dispatch(s)
    PROVE  \E q : Begin(s, q) /\ Admitted(q)
<1>1. PICK caller, executor \in Agents, input \in Inputs,
           key \in Keys \cup {NULL}, callback_url \in CallbackUrls,
           metadata \in DispatchMetadata, new \in TaskIds :
        create_task(s, caller, executor, input, key, callback_url, metadata, new)
  BY DEF Dispatch
<1> DEFINE ins == [principal_agent_id |-> caller,
                   executor_agent_id  |-> executor,
                   input              |-> input,
                   idempotency_key    |-> key,
                   callback_url       |-> callback_url,
                   parent_task_id     |-> NULL,
                   root_task_id       |-> NULL,
                   lineage_depth      |-> 0]
           q == [phase |-> "loaded", sidecar |-> FALSE, task |-> NULL,
                 update |-> Unchanged, event |-> created_event, child |-> new,
                 insert |-> ins, metadata |-> metadata, seen |-> {}]
<1>2. ins \in Task
  BY StoreAssumption DEF Task
<1>3. metadata \in Metadata
  BY StoreAssumption DEF Metadata
<1>4. continues(ins)
  BY DEF continues
<1>5. Begin(s, q) /\ fresh(new)
  BY <1>1 DEF create_task
<1>6. Admitted(q)
  <2> HIDE DEF ins
  <2>1. q \in Request
    BY <1>2, <1>3, UnchangedType, CreatedType DEF Request
  <2>2. created_event.sequence # 0
    BY DEF created_event, Event
  <2> QED  BY <2>1, <2>2, <1>2, <1>4, <1>5 DEF Admitted, InsertOK
<1> QED  BY <1>5, <1>6

LEMMA PrincipalAdmitted ==
    ASSUME TypeOK, NEW s \in Sessions, NEW t \in TaskIds, Principal(s, t)
    PROVE  \E q : Begin(s, q) /\ Admitted(q)
<1>1. PICK caller \in Agents :
        \/ cancel_task(s, t, caller)
        \/ pause_task(s, t, caller)
        \/ resume_task(s, t, caller)
        \/ \E sequence \in 1..MaxContext : inject_context(s, t, caller, sequence)
        \/ \E input \in Inputs, key \in Keys \cup {NULL}, new \in TaskIds :
              \/ retask_task(s, t, caller, input, key, new)
              \/ \E inherit_progress \in BOOLEAN :
                    redirect_task(s, t, caller, input, key, inherit_progress, new)
  BY DEF Principal
<1>2. /\ "status" \in EventTypes /\ "pause_requested" \in EventTypes
      /\ "resume_requested" \in EventTypes /\ "context_injected" \in EventTypes
      /\ {"cancelled", "paused", "running", "retasked", "redirected"}
            \subseteq TaskStatus
  BY DEF EventTypes, _VALID_EVENT_TYPES, TaskStatus
<1>3. CASE cancel_task(s, t, caller)
  <2>1. /\ exists(t)
        /\ validate_transition(row[t].status, "cancelled")
        /\ Begin(s, Lifecycle(t, transition_to("cancelled"), "status", "cancelled"))
    BY <1>3 DEF cancel_task, cancel_outcome
  <2> QED  BY <1>2, <2>1, TransitionType, TransitionStatus, LifecycleAdmitted
<1>4. CASE pause_task(s, t, caller)
  <2> DEFINE u == [transition_to("paused") EXCEPT !.paused_at = now]
  <2>1. u \in Update /\ u.status = "paused"
    BY <1>2, TransitionType, TransitionStatus DEF TypeOK, Update
  <2>2. /\ exists(t)
        /\ row[t].status = "running"
        /\ Begin(s, Lifecycle(t, u, "pause_requested", "paused"))
    BY <1>4 DEF pause_task, pause_outcome
  <2> HIDE DEF u
  <2> QED  BY <1>2, <2>1, <2>2, HandlersValid, LifecycleAdmitted
<1>5. CASE resume_task(s, t, caller)
  <2> DEFINE u == [transition_to("running") EXCEPT
                     !.paused_at = IF row[t].paused_at = NULL THEN Keep ELSE NULL]
  <2>1. u \in Update /\ u.status = "running"
    BY <1>2, TransitionType, TransitionStatus DEF Update
  <2>2. /\ exists(t)
        /\ row[t].status = "paused"
        /\ \/ Begin(s, Lifecycle(t, transition_to("cancelled"), "status", "cancelled"))
           \/ Begin(s, Lifecycle(t, u, "resume_requested", "running"))
    BY <1>5 DEF resume_task, resume_outcome
  <2> HIDE DEF u
  <2> QED  BY <1>2, <2>1, <2>2, HandlersValid, TransitionType, TransitionStatus,
              LifecycleAdmitted
<1>6. CASE \E sequence \in 1..MaxContext : inject_context(s, t, caller, sequence)
  <2>1. PICK sequence \in 1..MaxContext : inject_context(s, t, caller, sequence)
    BY <1>6
  <2> DEFINE p == Lifecycle(t, Unchanged, "context_injected", NULL)
             e == Event(0, "context_injected", NULL, sequence)
             q == [p EXCEPT !.event = e, !.seen = context_events(t)]
  <2>2. p \in Request
    BY <1>2, UnchangedType, LifecycleType
  <2>3. context_events(t) \subseteq TaskEvent
    BY DEF TypeOK, context_events
  <2>4. e \in TaskEvent
    BY <1>2, StoreAssumption DEF Event, TaskEvent
  <2>5. q \in Request
    <3> HIDE DEF p, e
    <3> QED  BY <2>2, <2>3, <2>4 DEF Request
  <2>6. /\ q.phase = "loaded" /\ q.child = NULL /\ ~q.sidecar /\ q.task = t
        /\ q.update.status = Keep /\ q.event.status = NULL /\ q.event.sequence = 0
    BY DEF Lifecycle, Event, Unchanged
  <2>7. exists(t) /\ Begin(s, q)
    BY <2>1 DEF inject_context
  <2> HIDE DEF q
  <2>8. Admitted(q)
    BY <2>5, <2>6, <2>7, NullAssumption
       DEF Admitted, InsertOK, Announces, Valid, NumberOK
  <2> QED  BY <2>7, <2>8
<1>7. CASE \E input \in Inputs, key \in Keys \cup {NULL}, new \in TaskIds :
              \/ retask_task(s, t, caller, input, key, new)
              \/ \E inherit_progress \in BOOLEAN :
                    redirect_task(s, t, caller, input, key, inherit_progress, new)
  <2>1. PICK input \in Inputs, key \in Keys \cup {NULL}, new \in TaskIds :
              \/ retask_task(s, t, caller, input, key, new)
              \/ \E inherit_progress \in BOOLEAN :
                    redirect_task(s, t, caller, input, key, inherit_progress, new)
    BY <1>7
  <2>2. CASE retask_task(s, t, caller, input, key, new)
    <3> DEFINE q == [Lifecycle(t, transition_to("retasked"), "status", "retasked")
                       EXCEPT !.child = new, !.insert = successor(t, input, key),
                              !.metadata = "no_progress"]
    <3>1. /\ exists(t) /\ fresh(new)
          /\ row[t].status \in {"completed", "failed"}
          /\ ~(tasks[t].lineage_depth >= fleet_lineage_max_depth)
          /\ Begin(s, q)
      BY <2>2 DEF retask_task, retask_outcome
    <3>2. "no_progress" \in Metadata
      BY DEF Metadata
    <3>3. Admitted(q)
      BY <1>2, <3>1, <3>2, HandlersValid, SupersedeAdmitted
    <3> QED  BY <3>1, <3>3
  <2>3. ASSUME NEW inherit_progress \in BOOLEAN,
               redirect_task(s, t, caller, input, key, inherit_progress, new)
        PROVE  \E q : Begin(s, q) /\ Admitted(q)
    <3> DEFINE m == IF inherit_progress /\ row[t].metadata \in Progress
                    THEN row[t].metadata ELSE "no_progress"
               q == [Lifecycle(t, transition_to("redirected"), "status", "redirected")
                       EXCEPT !.child = new, !.insert = successor(t, input, key),
                              !.metadata = m]
    <3>1. /\ exists(t) /\ fresh(new)
          /\ row[t].status \in {"running", "paused"}
          /\ ~(tasks[t].lineage_depth >= fleet_lineage_max_depth)
          /\ Begin(s, q)
      BY <2>3 DEF redirect_task, redirect_outcome
    <3>2. m \in Metadata
      BY DEF Metadata
    <3> HIDE DEF m
    <3>3. Admitted(q)
      BY <1>2, <3>1, <3>2, HandlersValid, SupersedeAdmitted
    <3> QED  BY <3>1, <3>3
  <2> QED  BY <2>1, <2>2, <2>3
<1> QED  BY <1>1, <1>3, <1>4, <1>5, <1>6, <1>7

\* A sidecar event that says what its update writes.
LEMMA PostAdmitted ==
    ASSUME TypeOK, NEW s \in Sessions, NEW t \in TaskIds, NEW e \in TaskEvent,
           e.sequence > 0, NEW u \in Update, PostEvent(s, t, e, u),
           \/ u.status = Keep /\ e.status = NULL
           \/ /\ u.status \in TaskStatus /\ e.status = u.status
              /\ validate_transition(row[t].status, u.status)
    PROVE  \E q : Begin(s, q) /\ Admitted(q)
<1> DEFINE seen == IF e.event_type = "context_injected" THEN context_events(t) ELSE {}
           p == Lifecycle(t, u, e.event_type, e.status)
           q == [p EXCEPT !.sidecar = TRUE, !.event = e, !.seen = seen]
<1>1. /\ e.event_type \in EventTypes
      /\ e.status \in TaskStatus \cup {NULL}
  BY DEF TaskEvent
<1>2. p \in Request
  BY <1>1, LifecycleType
<1>3. seen \subseteq TaskEvent
  BY DEF TypeOK, context_events
<1>4. q \in Request
  <2> HIDE DEF seen, p
  <2> QED  BY <1>2, <1>3 DEF Request
<1>5. /\ q.phase = "loaded" /\ q.child = NULL /\ q.sidecar /\ q.task = t
      /\ q.update = u /\ q.event = e
  <2> HIDE DEF seen
  <2> QED  BY DEF Lifecycle
<1>6. /\ exists(t) /\ Begin(s, q)
      /\ \A f \in events[t] : f.sequence < e.sequence
      /\ ExecutorPostsSerially =>
            \A r \in Sessions : (req[r] # NULL /\ req[r].sidecar) => req[r].task # t
  BY DEF PostEvent
<1>7. t # NULL
  BY NullAssumption
<1> HIDE DEF q
<1>8. Admitted(q)
  <2>1. Announces(q) /\ Valid(q)
    BY <1>5 DEF Announces, Valid
  <2>2. NumberOK(q)
    BY <1>5, <1>6 DEF NumberOK
  <2> QED  BY <1>4, <1>5, <1>6, <1>7, <2>1, <2>2 DEF Admitted, InsertOK
<1> QED  BY <1>6, <1>8

LEMMA SidecarAdmitted ==
    ASSUME TypeOK, NEW s \in Sessions, NEW t \in TaskIds,
           process_sidecar_event(s, t)
    PROVE  \E q : Begin(s, q) /\ Admitted(q)
<1> DEFINE Goal == \E q : Begin(s, q) /\ Admitted(q)
<1>1. PICK sequence \in 1..MaxSequence :
        \/ \E new_status \in ExecutorStatuses :
              sidecar_status(s, t, sequence, new_status)
        \/ \E result \in {NULL, "result"}, quality \in BOOLEAN :
              sidecar_completed(s, t, sequence, result, quality)
        \/ sidecar_failed(s, t, sequence)
        \/ \E progress \in Progress : sidecar_progress(s, t, sequence, progress)
        \/ \E event_type \in ExecutorEvents, context \in 0..MaxContext :
              sidecar_record(s, t, sequence, event_type, context)
  BY DEF process_sidecar_event
<1>2. sequence \in Nat /\ sequence > 0
  BY StoreAssumption
<1>3. ASSUME NEW k \in EventTypes, NEW st \in TaskStatus \cup {NULL}, NEW c \in Nat
      PROVE  /\ Event(sequence, k, st, c) \in TaskEvent
             /\ Event(sequence, k, st, c).sequence > 0
             /\ Event(sequence, k, st, c).status = st
  BY <1>2 DEF Event, TaskEvent
<1>10. ASSUME NEW k \in EventTypes, NEW st \in TaskStatus \cup {NULL},
              NEW r \in {NULL, "result", "error"}
       PROVE  /\ [Event(sequence, k, st, 0) EXCEPT !.result = r] \in TaskEvent
              /\ [Event(sequence, k, st, 0) EXCEPT !.result = r].sequence > 0
              /\ [Event(sequence, k, st, 0) EXCEPT !.result = r].status = st
  BY <1>2 DEF Event, TaskEvent
<1>4. /\ {"status", "completed", "failed", "progress"} \subseteq EventTypes
      /\ {"completed", "failed"} \subseteq TaskStatus
      /\ ExecutorStatuses \subseteq TaskStatus
      /\ ExecutorEvents \subseteq EventTypes
  BY StoreAssumption DEF EventTypes, _VALID_EVENT_TYPES, TaskStatus
<1>5. ASSUME NEW new_status \in ExecutorStatuses,
             sidecar_status(s, t, sequence, new_status)
      PROVE  Goal
  <2> DEFINE u == [transition_to(new_status) EXCEPT
                     !.started_at = IF new_status = "running" /\ ~row[t].started_at
                                    THEN TRUE ELSE Keep]
             e == Event(sequence, "status", new_status, 0)
  <2>1. u \in Update /\ u.status = new_status
    <3>1. u \in Update
      BY <1>4, TransitionType DEF Update
    <3>2. u.status = new_status
      BY DEF transition_to, Unchanged
    <3> QED  BY <3>1, <3>2
  <2>2. e \in TaskEvent /\ e.sequence > 0 /\ e.status = new_status
    BY <1>3, <1>4
  <2>3. /\ validate_transition(row[t].status, new_status)
        /\ PostEvent(s, t, e, u)
    BY <1>5 DEF sidecar_status
  <2> HIDE DEF u, e
  <2> QED  BY <1>4, <2>1, <2>2, <2>3, PostAdmitted
<1>6. ASSUME NEW result \in {NULL, "result"}, NEW quality \in BOOLEAN,
             sidecar_completed(s, t, sequence, result, quality)
      PROVE  Goal
  <2> DEFINE m == IF quality /\ row[t].metadata = NULL THEN "no_progress" ELSE Keep
             v == IF result = NULL /\ row[t].result = NULL THEN Keep ELSE result
             u == [transition_to("completed") EXCEPT !.result = v, !.metadata = m]
             e == [Event(sequence, "completed", "completed", 0)
                   EXCEPT !.result = result]
  <2>1. m \in Metadata \cup {Keep} /\ v \in {NULL, "result", "error", Keep}
    BY DEF Metadata
  <2>2. u \in Update /\ u.status = "completed"
    <3> HIDE DEF m, v
    <3>1. u \in Update
      BY <1>4, <2>1, TransitionType DEF Update
    <3>2. u.status = "completed"
      BY DEF transition_to, Unchanged
    <3> QED  BY <3>1, <3>2
  <2>3. e \in TaskEvent /\ e.sequence > 0 /\ e.status = "completed"
    <3>1. /\ result \in {NULL, "result", "error"}
          /\ "completed" \in EventTypes /\ "completed" \in TaskStatus \cup {NULL}
      BY <1>4
    <3> QED  BY <3>1, <1>10, Zenon
  <2>4. /\ validate_transition(row[t].status, "completed")
        /\ PostEvent(s, t, e, u)
    BY <1>6 DEF sidecar_completed
  <2> HIDE DEF u, e
  <2> QED  BY <1>4, <2>2, <2>3, <2>4, PostAdmitted
<1>7. CASE sidecar_failed(s, t, sequence)
  <2> DEFINE u == [transition_to("failed") EXCEPT !.result = "error"]
             e == [Event(sequence, "failed", "failed", 0) EXCEPT !.result = "error"]
  <2>1. u \in Update /\ u.status = "failed"
    BY <1>4, TransitionType, TransitionStatus DEF Update
  <2>2. e \in TaskEvent /\ e.sequence > 0 /\ e.status = "failed"
    BY <1>10, <1>4
  <2>3. /\ validate_transition(row[t].status, "failed")
        /\ PostEvent(s, t, e, u)
    BY <1>7 DEF sidecar_failed
  <2> HIDE DEF u, e
  <2> QED  BY <1>4, <2>1, <2>2, <2>3, PostAdmitted
<1>8. ASSUME NEW progress \in Progress, sidecar_progress(s, t, sequence, progress)
      PROVE  Goal
  <2> DEFINE u == [Unchanged EXCEPT !.metadata = IF row[t].metadata = NULL
                                                 THEN progress ELSE Keep]
             e == Event(sequence, "progress", NULL, 0)
  <2>1. u \in Update /\ u.status = Keep
    BY UnchangedType DEF Update, Metadata, Unchanged
  <2>2. e \in TaskEvent /\ e.sequence > 0 /\ e.status = NULL
    BY <1>3, <1>4
  <2>3. PostEvent(s, t, e, u)
    BY <1>8 DEF sidecar_progress
  <2> HIDE DEF u, e
  <2> QED  BY <2>1, <2>2, <2>3, PostAdmitted
<1>9. ASSUME NEW event_type \in ExecutorEvents, NEW context \in 0..MaxContext,
             sidecar_record(s, t, sequence, event_type, context)
      PROVE  Goal
  <2> DEFINE e == Event(sequence, event_type, NULL, context)
  <2>1. Unchanged.status = Keep
    BY DEF Unchanged
  <2>2. e \in TaskEvent /\ e.sequence > 0 /\ e.status = NULL
    <3>1. context \in Nat /\ event_type \in EventTypes
      BY <1>4, StoreAssumption
    <3> QED  BY <1>3, <3>1
  <2>3. PostEvent(s, t, e, Unchanged)
    BY <1>9 DEF sidecar_record
  <2> HIDE DEF e
  <2> QED  BY <2>1, <2>2, <2>3, UnchangedType, PostAdmitted
<1> QED  BY <1>1, <1>5, <1>6, <1>7, <1>8, <1>9

\* The steps of the specification, with what is known of a request taken up.
LEMMA Steps ==
    ASSUME TypeOK, [Next]_vars
    PROVE  \/ \E s \in Sessions : \E q : Begin(s, q) /\ Admitted(q)
           \/ \E s \in Sessions : Proceed(s)
           \/ Crash
           \/ Tick
           \/ UNCHANGED vars
BY DispatchAdmitted, PrincipalAdmitted, SidecarAdmitted DEF Next

\* The request that FlushUpdate leaves: in the next phase, and otherwise as it was.
LEMMA UpdateStep ==
    ASSUME TypeOK, NEW s \in Sessions, FlushUpdate(s)
    PROVE  \E q \in Request :
              /\ req' = [req EXCEPT ![s] = q]
              /\ q = [req[s] EXCEPT !.phase = "updated"]
<1>1. req[s] \in Request
  BY DEF FlushUpdate, TypeOK
<1>2. [req[s] EXCEPT !.phase = "updated"] \in Request
  BY <1>1 DEF Request
<1> QED  BY <1>2 DEF FlushUpdate

\* The request that Flush leaves: numbered, and otherwise as it was.
LEMMA FlushStep ==
    ASSUME TypeOK, NEW s \in Sessions, Flush(s)
    PROVE  \E n \in Nat, q \in Request :
              /\ req' = [req EXCEPT ![s] = q]
              /\ n > 0
              /\ q = [req[s] EXCEPT !.phase = "flushed",
                                    !.event = [req[s].event EXCEPT !.sequence = n]]
              /\ \A e \in events[req[s].task] : e.sequence < n
              /\ n # 1 => \E e \in events[req[s].task] : e.sequence = n - 1
<1>1. PICK n \in 1..(MaxSequence + Cardinality(Sessions)) :
          /\ \A e \in events[req[s].task] : e.sequence < n
          /\ n # 1 => \E e \in events[req[s].task] : e.sequence = n - 1
          /\ req' = [req EXCEPT ![s] =
                        [req[s] EXCEPT !.phase = "flushed",
                                       !.event = [req[s].event EXCEPT !.sequence = n]]]
  BY DEF Flush
<1>2. Cardinality(Sessions) \in Nat
  BY StoreAssumption, FS_CardinalityType
<1>3. n \in Nat /\ n > 0
  BY <1>2, StoreAssumption
<1>4. req[s] \in Request
  BY DEF Flush, TypeOK
<1>5. [req[s].event EXCEPT !.sequence = n] \in TaskEvent
  BY <1>3, <1>4 DEF Request, TaskEvent
<1>6. [req[s] EXCEPT !.phase = "flushed",
                     !.event = [req[s].event EXCEPT !.sequence = n]] \in Request
  BY <1>4, <1>5 DEF Request
<1> QED  BY <1>1, <1>3, <1>6

LEMMA CommitType ==
    ASSUME TypeOK, NEW s \in Sessions, Commit(s)
    PROVE  TypeOK'
<1> DEFINE q == req[s]
<1>1. q \in Request
  BY DEF Commit, TypeOK
<1>2. tasks' \in [TaskIds -> Task \cup {NULL}]
  BY <1>1 DEF Commit, TypeOK, Request
<1>3. row' \in [TaskIds -> Row]
  <2>1. Accepted(q.metadata) \in Row
    BY <1>1, AcceptedType DEF Request
  <2>2. \A t \in TaskIds : Apply(row[t], q.update) \in Row
    BY <1>1, ApplyType DEF Request, TypeOK
  <2> QED  BY <2>1, <2>2 DEF Commit, TypeOK
<1>4. events' \in [TaskIds -> SUBSET TaskEvent]
  <2>1. q.event \in TaskEvent
    BY <1>1 DEF Request
  <2> QED  BY <2>1, CreatedType DEF Commit, TypeOK
<1>5. context_seq' \in [TaskIds -> Nat]
  <2>1. CASE q.event.event_type = "context_injected"
    <3>1. PICK c \in latest_context(q) :
              context_seq' = [context_seq EXCEPT ![q.task] = c]
      BY <2>1 DEF Commit
    <3>2. q.task \in TaskIds => c \in Nat
      BY <1>1 DEF latest_context, TypeOK, Request, TaskEvent
    <3> QED  BY <3>1, <3>2 DEF TypeOK
  <2>2. CASE q.event.event_type # "context_injected"
    BY <2>2 DEF Commit, TypeOK
  <2> QED  BY <2>1, <2>2
<1>6. req' \in [Sessions -> Request \cup {NULL}]
  <2>1. [q EXCEPT !.phase = "committed"] \in Request
    BY <1>1 DEF Request
  <2> QED  BY <2>1 DEF Commit, TypeOK
<1>7. /\ callbacks' \in [TaskIds -> Nat]
      /\ now' \in Nat /\ crashes' \in Nat
  BY DEF Commit, TypeOK
<1> QED  BY <1>2, <1>3, <1>4, <1>5, <1>6, <1>7 DEF TypeOK

LEMMA ProceedType ==
    ASSUME TypeOK, NEW s \in Sessions, Proceed(s)
    PROVE  TypeOK'
<1>1. CASE Flush(s)
  BY <1>1, FlushStep DEF Flush, TypeOK
<1>2. CASE Commit(s)
  BY <1>2, CommitType
<1>3. CASE IntegrityError(s)
  BY <1>3 DEF IntegrityError, TypeOK
<1>5. CASE FlushUpdate(s)
  BY <1>5, UpdateStep DEF FlushUpdate, TypeOK
<1>4. CASE ScheduleCallback(s)
  <2>1. callbacks' \in [TaskIds -> Nat]
    <3> DEFINE t == req[s].task
    <3>1. \/ callbacks' = callbacks
          \/ callbacks' = [callbacks EXCEPT ![t] = callbacks[t] + 1]
      BY <1>4, Zenon DEF ScheduleCallback
    <3> QED  BY <3>1 DEF TypeOK
  <2>2. req' \in [Sessions -> Request \cup {NULL}]
    BY <1>4 DEF ScheduleCallback, TypeOK
  <2> QED  BY <1>4, <2>1, <2>2 DEF ScheduleCallback, TypeOK
<1> QED  BY <1>1, <1>2, <1>3, <1>4, <1>5 DEF Proceed

LEMMA TypeStep == TypeOK /\ [Next]_vars => TypeOK'
<1> SUFFICES ASSUME TypeOK, [Next]_vars PROVE TypeOK'
  OBVIOUS
<1>1. ASSUME NEW s \in Sessions, NEW q, Begin(s, q), Admitted(q) PROVE TypeOK'
  BY <1>1, BeginType DEF Admitted
<1>2. ASSUME NEW s \in Sessions, Proceed(s) PROVE TypeOK'
  BY <1>2, ProceedType
<1>3. CASE Crash
  BY <1>3 DEF Crash, TypeOK
<1>4. CASE Tick
  BY <1>4 DEF Tick, TypeOK
<1>5. CASE UNCHANGED vars
  BY <1>5 DEF vars, TypeOK
<1> QED  BY <1>1, <1>2, <1>3, <1>4, <1>5, Steps

LEMMA TypeInit == Init => TypeOK
<1>1. Accepted(NULL) \in Row
  BY AcceptedType DEF Metadata
<1> QED  BY <1>1 DEF Init, TypeOK

\* Every variable of the task tables keeps its type, whatever the handlers do.
THEOREM TypeCorrect == Spec => []TypeOK
BY TypeInit, TypeStep, PTL DEF Spec

-----------------------------------------------------------------------------
(* Lineage and idempotency keys.  LineageSound is not inductive: a commit  *)
(* inserts a row that was computed when the request was taken up.  What    *)
(* holds in between: the parent exists and is never changed (tasks are     *)
(* never deleted, their lineage columns never updated), and the new id is  *)
(* nobody else's.                                                          *)

InsertsSound ==
    \A s \in Sessions :
        (req[s] # NULL /\ req[s].child # NULL) =>
            /\ ~exists(req[s].child)
            /\ InsertOK(req[s])
            /\ \A r \in Sessions \ {s} :
                  req[r] # NULL => req[r].child # req[s].child

LineageInv == TypeOK /\ LineageSound /\ InsertsSound

LEMMA BeginLineage ==
    ASSUME LineageInv, NEW s \in Sessions, NEW q, Begin(s, q), Admitted(q)
    PROVE  LineageSound' /\ InsertsSound'
<1>1. tasks' = tasks
  BY DEF Begin
<1>2. LineageSound'
  BY <1>1 DEF LineageInv, LineageSound, exists, continues
<1>3. req' = [req EXCEPT ![s] = q] /\ req[s] = NULL
  BY DEF Begin
<1>4. ASSUME NEW u \in Sessions, req'[u] # NULL, req'[u].child # NULL
      PROVE  /\ ~exists(req[u].child)'
             /\ InsertOK(req[u])'
             /\ \A r \in Sessions \ {u} :
                   req'[r] # NULL => req'[r].child # req'[u].child
  <2>1. CASE u = s
    <3>1. req'[u] = q
      BY <1>3, <2>1 DEF LineageInv, TypeOK
    <3>2. fresh(q.child) /\ InsertOK(q)
      BY <1>4, <3>1 DEF Admitted
    <3>3. ~exists(req[u].child)'
      BY <1>1, <3>1, <3>2 DEF fresh, exists
    <3>4. InsertOK(req[u])'
      BY <1>1, <3>1, <3>2 DEF InsertOK, continues, exists
    <3>5. \A r \in Sessions \ {u} :
            req'[r] # NULL => req'[r].child # req'[u].child
      BY <1>3, <2>1, <3>1, <3>2 DEF fresh, LineageInv, TypeOK
    <3> QED  BY <3>3, <3>4, <3>5
  <2>2. CASE u # s
    <3>1. req'[u] = req[u]
      BY <1>3, <2>2 DEF LineageInv, TypeOK
    <3>2. /\ ~exists(req[u].child) /\ InsertOK(req[u])
          /\ \A r \in Sessions \ {u} :
                req[r] # NULL => req[r].child # req[u].child
      BY <1>4, <3>1 DEF LineageInv, InsertsSound
    <3>3. ~exists(req[u].child)' /\ InsertOK(req[u])'
      BY <1>1, <3>1, <3>2 DEF InsertOK, continues, exists
    <3>4. q.child # NULL => q.child # req[u].child
      BY <1>4, <3>1 DEF Admitted, fresh
    <3>5. \A r \in Sessions \ {u} :
            req'[r] # NULL => req'[r].child # req'[u].child
      BY <1>3, <1>4, <3>1, <3>2, <3>4 DEF LineageInv, TypeOK
    <3> QED  BY <3>3, <3>5
  <2> QED  BY <2>1, <2>2
<1> QED  BY <1>2, <1>4 DEF InsertsSound

LEMMA CommitLineage ==
    ASSUME LineageInv, NEW s \in Sessions, Commit(s)
    PROVE  LineageSound' /\ InsertsSound'
<1> DEFINE q == req[s]
<1>1. q \in Request /\ q # NULL
  BY DEF Commit, LineageInv, TypeOK
<1>2. tasks' = [t \in TaskIds |-> IF t = q.child THEN q.insert ELSE tasks[t]]
  BY DEF Commit
<1>3. NULL \notin TaskIds
  BY NullAssumption
<1>4. q.child # NULL => /\ ~exists(q.child) /\ q.insert \in Task
                        /\ continues(q.insert) /\ ~q.sidecar
  BY <1>1 DEF LineageInv, InsertsSound, InsertOK
<1>5. \A t \in TaskIds : exists(t) => tasks'[t] = tasks[t]
  BY <1>2, <1>3, <1>4 DEF exists
<1>6. LineageSound'
  <2> SUFFICES ASSUME NEW t \in TaskIds, exists(t)'
               PROVE  continues(tasks[t])'
    BY DEF LineageSound
  <2>1. CASE t = q.child
    <3>1. tasks'[t] = q.insert
      BY <1>2, <2>1
    <3>2. continues(q.insert) /\ q.insert \in Task
      BY <1>3, <1>4, <2>1
    <3> QED  BY <3>1, <3>2, <1>5 DEF continues, Task, exists
  <2>2. CASE t # q.child
    <3>1. tasks'[t] = tasks[t] /\ exists(t)
      BY <1>2, <2>2 DEF exists
    <3>2. continues(tasks[t]) /\ tasks[t] \in Task
      BY <3>1 DEF LineageInv, LineageSound, TypeOK, exists
    <3> QED  BY <3>1, <3>2, <1>5 DEF continues, Task, exists
  <2> QED  BY <2>1, <2>2
<1>7. InsertsSound'
  <2> SUFFICES ASSUME NEW u \in Sessions, req'[u] # NULL, req'[u].child # NULL
               PROVE  /\ ~exists(req[u].child)'
                      /\ InsertOK(req[u])'
                      /\ \A r \in Sessions \ {u} :
                            req'[r] # NULL => req'[r].child # req'[u].child
    BY DEF InsertsSound
  <2>1. req' = [req EXCEPT ![s] = IF q.sidecar
                                  THEN [q EXCEPT !.phase = "committed"] ELSE NULL]
    BY DEF Commit
  <2>2. [q EXCEPT !.phase = "committed"].child = q.child
    BY <1>1 DEF Request
  <2>3. u # s
    BY <1>4, <2>1, <2>2 DEF LineageInv, TypeOK
  <2>4. req'[u] = req[u]
    BY <2>1, <2>3 DEF LineageInv, TypeOK
  <2>5. /\ ~exists(req[u].child) /\ InsertOK(req[u])
        /\ \A r \in Sessions \ {u} :
              req[r] # NULL => req[r].child # req[u].child
    BY <2>4 DEF LineageInv, InsertsSound
  <2>6. req[u] \in Request
    BY <2>4 DEF LineageInv, TypeOK
  <2>7. q.child # req[u].child
    BY <1>1, <2>3, <2>5
  <2>8. ~exists(req[u].child)'
    BY <1>2, <2>4, <2>5, <2>6, <2>7 DEF exists, Request
  <2>9. InsertOK(req[u])'
    BY <1>5, <2>4, <2>5 DEF InsertOK, continues, Task, exists
  <2>10. \A r \in Sessions \ {u} :
            req'[r] # NULL => req'[r].child # req'[u].child
    BY <2>1, <2>2, <2>4, <2>5, <2>7 DEF LineageInv, TypeOK
  <2> QED  BY <2>8, <2>9, <2>10
<1> QED  BY <1>6, <1>7

\* A step that leaves the tasks alone, and only numbers or drops requests.
LEMMA QuietLineage ==
    ASSUME LineageInv, tasks' = tasks, DOMAIN req' = Sessions,
           \A u \in Sessions :
               req'[u] # NULL => /\ req[u] # NULL
                                 /\ req'[u].child = req[u].child
                                 /\ req'[u].insert = req[u].insert
                                 /\ req'[u].sidecar = req[u].sidecar
    PROVE  LineageSound' /\ InsertsSound'
<1>1. LineageSound'
  BY DEF LineageInv, LineageSound, exists, continues
<1>2. InsertsSound'
  <2> SUFFICES ASSUME NEW u \in Sessions, req'[u] # NULL, req'[u].child # NULL
               PROVE  /\ ~exists(req[u].child)'
                      /\ InsertOK(req[u])'
                      /\ \A r \in Sessions \ {u} :
                            req'[r] # NULL => req'[r].child # req'[u].child
    BY DEF InsertsSound
  <2>1. /\ ~exists(req[u].child) /\ InsertOK(req[u])
        /\ \A r \in Sessions \ {u} :
              req[r] # NULL => req[r].child # req[u].child
    BY DEF LineageInv, InsertsSound
  <2> QED  BY <2>1 DEF exists, InsertOK, continues
<1> QED  BY <1>1, <1>2

LEMMA LineageStep == LineageInv /\ [Next]_vars => LineageInv'
<1> SUFFICES ASSUME LineageInv, [Next]_vars
             PROVE  LineageSound' /\ InsertsSound'
  BY TypeStep DEF LineageInv
<1>0. TypeOK
  BY DEF LineageInv
<1>1. ASSUME NEW s \in Sessions, NEW q, Begin(s, q), Admitted(q)
      PROVE  LineageSound' /\ InsertsSound'
  BY <1>1, BeginLineage
<1>2. ASSUME NEW s \in Sessions, Flush(s)
      PROVE  LineageSound' /\ InsertsSound'
  <2>1. PICK n \in Nat, q \in Request :
          /\ req' = [req EXCEPT ![s] = q]
          /\ q = [req[s] EXCEPT !.phase = "flushed",
                                !.event = [req[s].event EXCEPT !.sequence = n]]
    BY <1>0, <1>2, FlushStep
  <2>2. req[s] \in Request /\ req[s] # NULL
    BY <1>0, <1>2 DEF Flush, TypeOK
  <2>3. /\ q.child = req[s].child /\ q.insert = req[s].insert
        /\ q.sidecar = req[s].sidecar
    BY <2>1, <2>2 DEF Request
  <2>4. tasks' = tasks
    BY <1>2 DEF Flush
  <2> QED  BY <1>0, <2>1, <2>2, <2>3, <2>4, QuietLineage DEF TypeOK
<1>3. ASSUME NEW s \in Sessions, Commit(s)
      PROVE  LineageSound' /\ InsertsSound'
  BY <1>3, CommitLineage
<1>4. ASSUME NEW s \in Sessions, IntegrityError(s) \/ ScheduleCallback(s)
      PROVE  LineageSound' /\ InsertsSound'
  <2>1. tasks' = tasks /\ req' = [req EXCEPT ![s] = NULL]
    BY <1>4 DEF IntegrityError, ScheduleCallback
  <2> QED  BY <1>0, <2>1, QuietLineage DEF TypeOK
<1>7. ASSUME NEW s \in Sessions, FlushUpdate(s)
      PROVE  LineageSound' /\ InsertsSound'
  <2>1. PICK q \in Request : /\ req' = [req EXCEPT ![s] = q]
                             /\ q = [req[s] EXCEPT !.phase = "updated"]
    BY <1>0, <1>7, UpdateStep
  <2>2. req[s] \in Request /\ req[s] # NULL
    BY <1>0, <1>7 DEF FlushUpdate, TypeOK
  <2>3. /\ q.child = req[s].child /\ q.insert = req[s].insert
        /\ q.sidecar = req[s].sidecar
    BY <2>1, <2>2 DEF Request
  <2>4. tasks' = tasks
    BY <1>7 DEF FlushUpdate
  <2> QED  BY <1>0, <2>1, <2>2, <2>3, <2>4, QuietLineage DEF TypeOK
<1>5. CASE Crash
  BY <1>5, QuietLineage DEF Crash
<1>6. CASE Tick \/ UNCHANGED vars
  <2>1. tasks' = tasks /\ req' = req
    BY <1>6 DEF Tick, vars
  <2> QED  BY <1>0, <2>1, QuietLineage DEF TypeOK
<1> QED  BY <1>0, <1>1, <1>2, <1>3, <1>4, <1>5, <1>6, <1>7, Steps DEF Proceed

LEMMA LineageInit == Init => LineageInv
BY TypeInit DEF Init, LineageInv, LineageSound, InsertsSound, exists

\* Every chain of retasks and redirects is sound, and at most
\* fleet_lineage_max_depth deep, however many requests run at the same time.
THEOREM LineageIsSound == Spec => []LineageSound
<1>1. LineageInv => LineageSound
  BY DEF LineageInv
<1> QED  BY <1>1, LineageInit, LineageStep, PTL DEF Spec

LEMMA KeyStep == LineageInv /\ KeyNamesOneTask /\ [Next]_vars => KeyNamesOneTask'
<1> SUFFICES ASSUME LineageInv, KeyNamesOneTask, [Next]_vars
             PROVE  KeyNamesOneTask'
  OBVIOUS
<1>0. TypeOK
  BY DEF LineageInv
<1>1. ASSUME tasks' = tasks PROVE KeyNamesOneTask'
  BY <1>1 DEF KeyNamesOneTask, exists
<1>2. ASSUME NEW s \in Sessions, Commit(s) PROVE KeyNamesOneTask'
  <2> DEFINE q == req[s]
  <2>1. q \in Request /\ q # NULL
    BY <1>0, <1>2 DEF Commit, TypeOK
  <2>2. tasks' = [t \in TaskIds |-> IF t = q.child THEN q.insert ELSE tasks[t]]
    BY <1>2 DEF Commit
  <2>3. ~key_taken(q)
    BY <1>2 DEF Commit, key_free
  <2>4. ASSUME NEW t \in TaskIds, NEW u \in TaskIds,
               tasks'[t] # NULL, tasks'[u] # NULL,
               tasks'[t].idempotency_key # NULL,
               tasks'[t].idempotency_key = tasks'[u].idempotency_key
        PROVE  t = u
    <3>1. CASE t = q.child /\ u # q.child
      BY <2>2, <2>3, <2>4, <3>1 DEF key_taken, exists
    <3>2. CASE u = q.child /\ t # q.child
      BY <2>2, <2>3, <2>4, <3>2 DEF key_taken, exists
    <3>3. CASE t # q.child /\ u # q.child
      BY <2>2, <2>4, <3>3 DEF KeyNamesOneTask, exists
    <3> QED  BY <3>1, <3>2, <3>3
  <2> QED  BY <2>4 DEF KeyNamesOneTask, exists
<1> QED  BY <1>0, <1>1, <1>2, Steps
         DEF Begin, Proceed, FlushUpdate, Flush, IntegrityError, ScheduleCallback,
             Crash, Tick, vars

\* An idempotency key never names two tasks, however many requests with it have
\* passed check_idempotency before the first of them commits.
THEOREM KeysAreUnique == Spec => []KeyNamesOneTask
<1>1. Init => KeyNamesOneTask
  BY DEF Init, KeyNamesOneTask, exists
<1> QED  BY <1>1, LineageInit, LineageStep, KeyStep, PTL DEF Spec

-----------------------------------------------------------------------------
(* The log grows, and its numbers are positive and unique.                 *)

Numbered ==
    \A t \in TaskIds : \A e \in events[t] :
        /\ e.sequence > 0
        /\ \A f \in events[t] : e.sequence = f.sequence => e = f

StoreInv == LineageInv /\ Numbered

LEMMA CommitNumbered ==
    ASSUME StoreInv, NEW s \in Sessions, Commit(s)
    PROVE  /\ Numbered'
           /\ \A t \in TaskIds : exists(t) => exists(t)' /\ events[t] \subseteq events'[t]
<1> DEFINE q == req[s]
<1>1. q \in Request /\ q # NULL
  BY DEF Commit, StoreInv, LineageInv, TypeOK
<1>2. q.child # NULL => ~exists(q.child)
  BY <1>1 DEF StoreInv, LineageInv, InsertsSound
<1>3. tasks' = [t \in TaskIds |-> IF t = q.child THEN q.insert ELSE tasks[t]]
  BY DEF Commit
<1>4. events' = [t \in TaskIds |->
                   IF t = q.child THEN {created_event}
                   ELSE IF t = q.task THEN events[t] \cup {q.event}
                   ELSE events[t]]
  BY DEF Commit
<1>5. \A t \in TaskIds : exists(t) => exists(t)' /\ events[t] \subseteq events'[t]
  BY <1>2, <1>3, <1>4, NullAssumption DEF exists
<1>6. /\ q.event.sequence \in Nat /\ q.event.sequence > 0
      /\ q.task # NULL => \A e \in events[q.task] : e.sequence # q.event.sequence
  BY <1>1 DEF Commit, Request, TaskEvent, sequence_taken
<1>7. Numbered'
  <2> SUFFICES ASSUME NEW t \in TaskIds, NEW e \in events'[t], NEW f \in events'[t]
               PROVE  e.sequence > 0 /\ (e.sequence = f.sequence => e = f)
    BY DEF Numbered
  <2>1. CASE t = q.child
    BY <1>4, <2>1 DEF created_event, Event
  <2>2. CASE t # q.child /\ t = q.task
    BY <1>4, <1>6, <2>2, NullAssumption DEF StoreInv, Numbered
  <2>3. CASE t # q.child /\ t # q.task
    BY <1>4, <2>3 DEF StoreInv, Numbered
  <2> QED  BY <2>1, <2>2, <2>3
<1> QED  BY <1>5, <1>7

LEMMA StoreGrows ==
    ASSUME StoreInv, [Next]_vars
    PROVE  /\ StoreInv'
           /\ \A t \in TaskIds : exists(t) => exists(t)' /\ events[t] \subseteq events'[t]
<1> DEFINE Goal == /\ Numbered'
                   /\ \A t \in TaskIds : exists(t) => /\ exists(t)'
                                                      /\ events[t] \subseteq events'[t]
<1>1. ASSUME UNCHANGED <<tasks, events>> PROVE Goal
  BY <1>1 DEF StoreInv, Numbered, exists
<1>2. ASSUME NEW s \in Sessions, Commit(s) PROVE Goal
  BY <1>2, CommitNumbered
<1>3. TypeOK
  BY DEF StoreInv, LineageInv
<1>4. \/ \E s \in Sessions : Commit(s)
      \/ UNCHANGED <<tasks, events>>
  BY <1>3, Steps
     DEF Begin, Proceed, FlushUpdate, Flush, IntegrityError, ScheduleCallback,
         Crash, Tick, vars
<1>5. Goal
  BY <1>1, <1>2, <1>4
<1> QED  BY <1>5, LineageStep DEF StoreInv

-----------------------------------------------------------------------------
(* What a request writes, column by column, when a handler takes it up.    *)

\* The update assigns the result the event holds, unless both are None.
Assigns(result, event) ==
    \/ /\ event.event_type = "completed" /\ event.result \in {NULL, "result"}
       /\ result = event.result \/ (event.result = NULL /\ result = Keep)
    \/ event.event_type = "failed" /\ event.result = "error" /\ result = "error"
    \/ /\ event.event_type \notin {"completed", "failed"}
       /\ event.result = NULL /\ result = Keep

\* Only executors announce outcomes, with the status of that name, and only the
\* announcement of an outcome comes with a result.
TellsOutcome(q) ==
    /\ q.event.event_type \in {"completed", "failed"} =>
          q.sidecar /\ q.update.status = q.event.event_type
    /\ q.update.status \in {"completed", "failed"} => q.sidecar
    /\ Assigns(q.update.result, q.event)
    /\ q.sidecar => q.event.event_type \in ExecutorEvents
    /\ (q.sidecar /\ q.update.status # Keep) =>
          q.update.status \in ExecutorStatuses \/ q.update.status = q.event.event_type

\* Times are set and never unset ...
SetsTimes(q) ==
    /\ q.update.completed_at \in {TRUE, Keep}
    /\ is_terminal(q.update.status) => q.update.completed_at = TRUE
    /\ q.update.started_at \in {TRUE, Keep}

\* ... and a task that begins to run has started.
Starts(q) ==
    q.update.status = "running" => \/ q.update.started_at = TRUE
                                   \/ row[q.task].started_at
                                   \/ row[q.task].status = "paused"

\* A successor comes with the status that announces it, and names its parent.
Supersedes(q) ==
    /\ q.child # NULL => q.insert \in Task /\ q.insert.parent_task_id = q.task
    /\ q.child = NULL => q.insert = NULL
    /\ q.child # NULL <=> \/ q.task = NULL
                          \/ /\ ~q.sidecar
                             /\ q.update.status \in {"retasked", "redirected"}

\* Metadata is written where there was none, by a progress report or, as an empty
\* dictionary, with the result.
StoresProgress(q) ==
    /\ q.update.metadata # Keep =>
          /\ q.sidecar
          /\ row[q.task].metadata = NULL
          /\ q.update.metadata \in Progress \/ q.event.event_type = "completed"
    /\ q.event.event_type = "progress" =>
          /\ q.sidecar
          /\ row[q.task].metadata = NULL => q.update.metadata \in Progress

\* An outcome whose update leaves the result alone holds none, as the row did.
KeepsBlank(q) ==
    (q.event.event_type \in {"completed", "failed"} /\ q.update.result = Keep) =>
        q.event.result = NULL /\ row[q.task].result = NULL

\* Context is injected into tasks at work, with a higher number than the latest.
NumbersContext(q) ==
    q.event.event_type = "context_injected" =>
          /\ q.seen = context_events(q.task)
          /\ ~q.sidecar => /\ q.event.context > context_seq[q.task]
                           /\ row[q.task].status \in {"running", "paused"}

\* A "status" event comes with a status, context without one; and principals post
\* nothing of what is an executor's to post, except context.
OfItsKind(q) ==
    /\ q.event.event_type = "status" => q.update.status # Keep
    /\ q.event.event_type = "context_injected" => q.update.status = Keep
    /\ ~q.sidecar => /\ q.event.event_type \in {"created", "status", "pause_requested",
                                                "resume_requested", "context_injected"}
                     /\ q.update.metadata = Keep

\* A request to create a task writes nothing else.
OnlyInserts(q) ==
    q.task = NULL => /\ q.update = Unchanged /\ q.event = created_event
                     /\ ~q.sidecar /\ q.metadata \in DispatchMetadata

\* What holds of a request as long as it is in progress, whatever happens to the
\* tables: what it writes ...
Means(q) == /\ TellsOutcome(q) /\ SetsTimes(q) /\ Supersedes(q) /\ OnlyInserts(q)
            /\ OfItsKind(q) /\ q.event.context \in 0..MaxContext

\* ... and what it was written for when the handler took it up.
Described(q) == /\ Means(q) /\ Starts(q) /\ StoresProgress(q) /\ KeepsBlank(q)
                /\ NumbersContext(q)

LEMMA TransitionFields ==
    ASSUME NEW st
    PROVE  /\ transition_to(st).status = st
           /\ transition_to(st).started_at = Keep
           /\ transition_to(st).completed_at = IF is_terminal(st) THEN TRUE ELSE Keep
           /\ transition_to(st).result = Keep
           /\ transition_to(st).metadata = Keep
BY DEF transition_to, Unchanged

\* A request of a principal that creates no task.
LEMMA LifecycleDescribed ==
    ASSUME NEW t \in TaskIds, NEW st \in {"cancelled", "paused", "running"},
           NEW k \in {"status", "pause_requested", "resume_requested"}, NEW u,
           u.status = st, u.started_at = Keep, u.result = Keep, u.metadata = Keep,
           u.completed_at = IF is_terminal(st) THEN TRUE ELSE Keep,
           st = "running" => row[t].status = "paused"
    PROVE  Described(Lifecycle(t, u, k, st))
<1> DEFINE q == Lifecycle(t, u, k, st)
<1>1. /\ ~q.sidecar /\ q.task = t /\ q.update = u /\ q.child = NULL /\ q.insert = NULL
      /\ q.event.event_type = k /\ q.event.context = 0 /\ q.event.result = NULL
  BY DEF Lifecycle, Event
<1>2. t # NULL /\ Keep \notin TaskStatus /\ 0 \in 0..MaxContext
  BY NullAssumption, StoreAssumption
<1> HIDE DEF q
<1>3. TellsOutcome(q) /\ OfItsKind(q)
  BY <1>1, <1>2 DEF TellsOutcome, Assigns, OfItsKind, TaskStatus
<1>4. SetsTimes(q) /\ Starts(q)
  BY <1>1, <1>2 DEF SetsTimes, Starts
<1>5. Supersedes(q)
  BY <1>1, <1>2 DEF Supersedes
<1>6. /\ StoresProgress(q) /\ KeepsBlank(q) /\ NumbersContext(q) /\ OnlyInserts(q)
      /\ q.event.context \in 0..MaxContext
  BY <1>1, <1>2 DEF StoresProgress, KeepsBlank, NumbersContext, OnlyInserts
<1>7. Described(q)
  BY <1>3, <1>4, <1>5, <1>6 DEF Described, Means
<1> QED  BY <1>7 DEF q

\* One that creates a successor.
LEMMA SupersedeDescribed ==
    ASSUME TypeOK, NEW t \in TaskIds, exists(t), NEW st \in {"retasked", "redirected"},
           NEW new \in TaskIds, NEW i \in Inputs, NEW k \in Keys \cup {NULL}, NEW m
    PROVE  Described([Lifecycle(t, transition_to(st), "status", st)
                        EXCEPT !.child = new, !.insert = successor(t, i, k),
                               !.metadata = m])
<1> DEFINE q == [Lifecycle(t, transition_to(st), "status", st)
                   EXCEPT !.child = new, !.insert = successor(t, i, k), !.metadata = m]
           u == transition_to(st)
<1>1. /\ ~q.sidecar /\ q.task = t /\ q.update = u /\ q.child = new
      /\ q.event.event_type = "status" /\ q.event.context = 0
      /\ q.event.result = NULL
      /\ q.insert = successor(t, i, k)
  BY DEF Lifecycle, Event
<1>2. t # NULL /\ new # NULL /\ Keep \notin TaskStatus /\ 0 \in 0..MaxContext
  BY NullAssumption, StoreAssumption
<1>3. /\ u.status = st /\ u.started_at = Keep /\ u.result = Keep /\ u.metadata = Keep
      /\ u.completed_at = TRUE
  BY TransitionFields DEF is_terminal, TERMINAL_STATES
<1>4. successor(t, i, k) \in Task /\ successor(t, i, k).parent_task_id = t
  BY SuccessorType DEF successor
<1> HIDE DEF q, u
<1>5. TellsOutcome(q) /\ OfItsKind(q)
  BY <1>1, <1>2, <1>3 DEF TellsOutcome, Assigns, OfItsKind, TaskStatus
<1>6. SetsTimes(q) /\ Starts(q)
  BY <1>1, <1>2, <1>3 DEF SetsTimes, Starts
<1>7. Supersedes(q)
  BY <1>1, <1>2, <1>3, <1>4 DEF Supersedes
<1>8. /\ StoresProgress(q) /\ KeepsBlank(q) /\ NumbersContext(q) /\ OnlyInserts(q)
      /\ q.event.context \in 0..MaxContext
  BY <1>1, <1>2, <1>3 DEF StoresProgress, KeepsBlank, NumbersContext, OnlyInserts
<1>9. Described(q)
  BY <1>5, <1>6, <1>7, <1>8 DEF Described, Means
<1> QED  BY <1>9 DEF q

\* One that an executor posts.
LEMMA PostDescribed ==
    ASSUME NEW s \in Sessions, NEW t \in TaskIds, NEW e, NEW u, PostEvent(s, t, e, u),
           e.context \in 0..MaxContext,
           e.event_type \in {"completed", "failed"} => u.status = e.event_type,
           e.event_type = "status" => u.status # Keep,
           e.event_type = "context_injected" => u.status = Keep,
           Assigns(u.result, e),
           (e.event_type \in {"completed", "failed"} /\ u.result = Keep) =>
              e.result = NULL /\ row[t].result = NULL,
           \/ u.status \in {Keep, e.event_type}
           \/ u.status \in ExecutorStatuses,
           u.completed_at = IF is_terminal(u.status) THEN TRUE ELSE Keep,
           u.started_at \in {TRUE, Keep},
           u.status = "running" => u.started_at = TRUE \/ row[t].started_at,
           u.metadata # Keep => /\ row[t].metadata = NULL
                                /\ u.metadata \in Progress \/ e.event_type = "completed",
           e.event_type = "progress" =>
              (row[t].metadata = NULL => u.metadata \in Progress)
    PROVE  \E q : Begin(s, q) /\ Described(q)
<1> DEFINE q == [Lifecycle(t, u, e.event_type, e.status)
                   EXCEPT !.sidecar = TRUE,
                          !.event = e,
                          !.seen = IF e.event_type = "context_injected"
                                   THEN context_events(t) ELSE {}]
<1>1. Begin(s, q) /\ e.event_type \in ExecutorEvents
  BY DEF PostEvent
<1>2. /\ q.sidecar /\ q.task = t /\ q.update = u /\ q.event = e /\ q.child = NULL
      /\ e.event_type = "context_injected" => q.seen = context_events(t)
      /\ q.insert = NULL
  BY DEF Lifecycle
<1>3. t # NULL
  BY NullAssumption
<1> HIDE DEF q
<1>4. TellsOutcome(q) /\ OfItsKind(q)
  BY <1>1, <1>2 DEF TellsOutcome, Assigns, OfItsKind
<1>5. SetsTimes(q) /\ Starts(q)
  BY <1>2 DEF SetsTimes, Starts
<1>6. Supersedes(q)
  BY <1>2, <1>3 DEF Supersedes
<1>7. /\ StoresProgress(q) /\ KeepsBlank(q) /\ NumbersContext(q) /\ OnlyInserts(q)
      /\ q.event.context \in 0..MaxContext
  BY <1>2, <1>3 DEF StoresProgress, KeepsBlank, NumbersContext, OnlyInserts
<1> QED  BY <1>1, <1>4, <1>5, <1>6, <1>7 DEF Described, Means

LEMMA DispatchDescribed ==
    ASSUME TypeOK, NEW s \in Sessions, Dispatch(s)
    PROVE  \E q : Begin(s, q) /\ Described(q)
<1>1. PICK caller, executor \in Agents, input \in Inputs,
           key \in Keys \cup {NULL}, callback_url \in CallbackUrls,
           metadata \in DispatchMetadata, new \in TaskIds :
        create_task(s, caller, executor, input, key, callback_url, metadata, new)
  BY DEF Dispatch
<1> DEFINE ins == [principal_agent_id |-> caller,
                   executor_agent_id  |-> executor,
                   input              |-> input,
                   idempotency_key    |-> key,
                   callback_url       |-> callback_url,
                   parent_task_id     |-> NULL,
                   root_task_id       |-> NULL,
                   lineage_depth      |-> 0]
           q == [phase |-> "loaded", sidecar |-> FALSE, task |-> NULL,
                 update |-> Unchanged, event |-> created_event, child |-> new,
                 insert |-> ins, metadata |-> metadata, seen |-> {}]
<1>2. Begin(s, q)
  BY <1>1 DEF create_task
<1>3. /\ q.task = NULL /\ q.child = new /\ ~q.sidecar /\ q.update = Unchanged
      /\ q.event = created_event /\ q.metadata = metadata /\ q.insert = ins
  OBVIOUS
<1>4. ins \in Task /\ ins.parent_task_id = NULL
  BY StoreAssumption DEF Task
<1>5. /\ created_event.event_type = "created" /\ created_event.context = 0
      /\ created_event.result = NULL
      /\ Unchanged.status = Keep /\ Unchanged.result = Keep
      /\ Unchanged.metadata = Keep /\ Unchanged.started_at = Keep
      /\ Unchanged.completed_at = Keep
  BY DEF created_event, Event, Unchanged
<1>6. /\ new # NULL /\ 0 \in 0..MaxContext
      /\ Keep \notin {"running", "retasked", "redirected", "completed", "failed"}
      /\ ~is_terminal(Keep)
  BY NullAssumption, StoreAssumption DEF TaskStatus, is_terminal, TERMINAL_STATES
<1> HIDE DEF q, ins
<1>7. TellsOutcome(q) /\ OfItsKind(q) /\ SetsTimes(q) /\ Starts(q)
  BY <1>3, <1>5, <1>6 DEF TellsOutcome, Assigns, OfItsKind, SetsTimes, Starts
<1>8. Supersedes(q)
  BY <1>3, <1>4, <1>5, <1>6 DEF Supersedes
<1>9. /\ StoresProgress(q) /\ KeepsBlank(q) /\ NumbersContext(q) /\ OnlyInserts(q)
      /\ q.event.context \in 0..MaxContext
  BY <1>3, <1>5, <1>6 DEF StoresProgress, KeepsBlank, NumbersContext, OnlyInserts
<1> QED  BY <1>2, <1>7, <1>8, <1>9 DEF Described, Means

LEMMA PrincipalDescribed ==
    ASSUME TypeOK, NEW s \in Sessions, NEW t \in TaskIds, Principal(s, t)
    PROVE  \E q : Begin(s, q) /\ Described(q)
<1> DEFINE Goal == \E q : Begin(s, q) /\ Described(q)
<1>1. PICK caller \in Agents :
        \/ cancel_task(s, t, caller)
        \/ pause_task(s, t, caller)
        \/ resume_task(s, t, caller)
        \/ \E sequence \in 1..MaxContext : inject_context(s, t, caller, sequence)
        \/ \E input \in Inputs, key \in Keys \cup {NULL}, new \in TaskIds :
              \/ retask_task(s, t, caller, input, key, new)
              \/ \E inherit_progress \in BOOLEAN :
                    redirect_task(s, t, caller, input, key, inherit_progress, new)
  BY DEF Principal
<1>2. Described(Lifecycle(t, transition_to("cancelled"), "status", "cancelled"))
  BY TransitionFields, LifecycleDescribed
<1>3. CASE cancel_task(s, t, caller)
  BY <1>2, <1>3 DEF cancel_task
<1>4. CASE pause_task(s, t, caller)
  <2> DEFINE u == [transition_to("paused") EXCEPT !.paused_at = now]
  <2>1. /\ u.status = "paused" /\ u.started_at = Keep /\ u.result = Keep
        /\ u.metadata = Keep
        /\ u.completed_at = IF is_terminal("paused") THEN TRUE ELSE Keep
    BY DEF transition_to, Unchanged
  <2>2. Begin(s, Lifecycle(t, u, "pause_requested", "paused"))
    BY <1>4 DEF pause_task
  <2> HIDE DEF u
  <2> QED  BY <2>1, <2>2, LifecycleDescribed
<1>5. CASE resume_task(s, t, caller)
  <2> DEFINE u == [transition_to("running") EXCEPT
                     !.paused_at = IF row[t].paused_at = NULL THEN Keep ELSE NULL]
  <2>1. /\ u.status = "running" /\ u.started_at = Keep /\ u.result = Keep
        /\ u.metadata = Keep
        /\ u.completed_at = IF is_terminal("running") THEN TRUE ELSE Keep
    BY DEF transition_to, Unchanged
  <2>2. \/ Begin(s, Lifecycle(t, transition_to("cancelled"), "status", "cancelled"))
        \/ /\ Begin(s, Lifecycle(t, u, "resume_requested", "running"))
           /\ row[t].status = "paused"
    BY <1>5 DEF resume_task, resume_outcome
  <2> HIDE DEF u
  <2> QED  BY <1>2, <2>1, <2>2, LifecycleDescribed
<1>6. ASSUME NEW sequence \in 1..MaxContext, inject_context(s, t, caller, sequence)
      PROVE  Goal
  <2> DEFINE q == [Lifecycle(t, Unchanged, "context_injected", NULL)
                     EXCEPT !.event = Event(0, "context_injected", NULL, sequence),
                            !.seen = context_events(t)]
  <2>1. Begin(s, q) /\ sequence > context_seq[t] /\ row[t].status \in {"running", "paused"}
    <3>1. /\ Begin(s, q) /\ ~(sequence <= context_seq[t])
          /\ row[t].status \in {"running", "paused"}
      BY <1>6 DEF inject_context, inject_outcome
    <3>2. context_seq[t] \in Nat /\ sequence \in Int
      BY DEF TypeOK
    <3> QED  BY <3>1, <3>2
  <2>2. /\ ~q.sidecar /\ q.task = t /\ q.update = Unchanged /\ q.child = NULL
        /\ q.event.event_type = "context_injected" /\ q.event.context = sequence
        /\ q.event.result = NULL
        /\ q.seen = context_events(t) /\ q.insert = NULL
    BY DEF Lifecycle, Event
  <2>3. /\ Unchanged.status = Keep /\ Unchanged.result = Keep
        /\ Unchanged.metadata = Keep /\ Unchanged.started_at = Keep
        /\ Unchanged.completed_at = Keep
    BY DEF Unchanged
  <2>4. /\ t # NULL /\ sequence \in 0..MaxContext
        /\ Keep \notin {"running", "retasked", "redirected", "completed", "failed"}
      /\ ~is_terminal(Keep)
    BY NullAssumption, StoreAssumption DEF TaskStatus, is_terminal, TERMINAL_STATES
  <2> HIDE DEF q
  <2>5. TellsOutcome(q) /\ OfItsKind(q) /\ SetsTimes(q) /\ Starts(q)
    BY <2>2, <2>3, <2>4 DEF TellsOutcome, Assigns, OfItsKind, SetsTimes, Starts
  <2>6. Supersedes(q)
    BY <2>2, <2>3, <2>4 DEF Supersedes
  <2>7. /\ StoresProgress(q) /\ KeepsBlank(q) /\ NumbersContext(q) /\ OnlyInserts(q)
        /\ q.event.context \in 0..MaxContext
    BY <2>1, <2>2, <2>3, <2>4 DEF StoresProgress, KeepsBlank, NumbersContext, OnlyInserts
  <2> QED  BY <2>1, <2>5, <2>6, <2>7 DEF Described, Means
<1>7. ASSUME NEW input \in Inputs, NEW key \in Keys \cup {NULL}, NEW new \in TaskIds,
             retask_task(s, t, caller, input, key, new)
      PROVE  Goal
  <2> DEFINE q == [Lifecycle(t, transition_to("retasked"), "status", "retasked")
                     EXCEPT !.child = new, !.insert = successor(t, input, key),
                            !.metadata = "no_progress"]
  <2>1. Begin(s, q) /\ exists(t)
    BY <1>7 DEF retask_task
  <2>2. Described(q)
    BY <2>1, SupersedeDescribed
  <2> QED  BY <2>1, <2>2
<1>8. ASSUME NEW input \in Inputs, NEW key \in Keys \cup {NULL}, NEW new \in TaskIds,
             NEW inherit_progress \in BOOLEAN,
             redirect_task(s, t, caller, input, key, inherit_progress, new)
      PROVE  Goal
  BY <1>8, SupersedeDescribed DEF redirect_task
<1> QED  BY <1>1, <1>3, <1>4, <1>5, <1>6, <1>7, <1>8

LEMMA SidecarDescribed ==
    ASSUME TypeOK, NEW s \in Sessions, NEW t \in TaskIds,
           process_sidecar_event(s, t)
    PROVE  \E q : Begin(s, q) /\ Described(q)
<1> DEFINE Goal == \E q : Begin(s, q) /\ Described(q)
<1>0. /\ Keep \notin TaskStatus /\ Keep # NULL /\ ~is_terminal(Keep)
      /\ Keep \notin {"completed", "failed", "running"} /\ 0 \in 0..MaxContext
  BY NullAssumption, StoreAssumption DEF TaskStatus, is_terminal, TERMINAL_STATES
<1>1. PICK sequence \in 1..MaxSequence :
        \/ \E new_status \in ExecutorStatuses :
              sidecar_status(s, t, sequence, new_status)
        \/ \E result \in {NULL, "result"}, quality \in BOOLEAN :
              sidecar_completed(s, t, sequence, result, quality)
        \/ sidecar_failed(s, t, sequence)
        \/ \E progress \in Progress : sidecar_progress(s, t, sequence, progress)
        \/ \E event_type \in ExecutorEvents, context \in 0..MaxContext :
              sidecar_record(s, t, sequence, event_type, context)
  BY DEF process_sidecar_event
<1>2. ASSUME NEW st \in ExecutorStatuses, sidecar_status(s, t, sequence, st) PROVE Goal
  <2> DEFINE u == [transition_to(st) EXCEPT
                     !.started_at = IF st = "running" /\ ~row[t].started_at
                                    THEN TRUE ELSE Keep]
             e == Event(sequence, "status", st, 0)
  <2>1. /\ u.status = st /\ u.result = Keep /\ u.metadata = Keep
        /\ u.started_at = IF st = "running" /\ ~row[t].started_at THEN TRUE ELSE Keep
        /\ u.completed_at = IF is_terminal(st) THEN TRUE ELSE Keep
    BY DEF transition_to, Unchanged
  <2>2. e.event_type = "status" /\ e.context = 0 /\ e.result = NULL
    BY DEF Event
  <2>3. PostEvent(s, t, e, u)
    BY <1>2 DEF sidecar_status
  <2> HIDE DEF u, e
  <2>4. Assigns(u.result, e)
    BY <2>1, <2>2 DEF Assigns
  <2>5. /\ u.status = "running" => u.started_at = TRUE \/ row[t].started_at
        /\ u.status # Keep
    BY <1>0, <2>1, StoreAssumption
  <2> QED  BY <1>0, <2>1, <2>2, <2>3, <2>4, <2>5, PostDescribed
<1>3. ASSUME NEW result \in {NULL, "result"}, NEW quality \in BOOLEAN,
             sidecar_completed(s, t, sequence, result, quality)
      PROVE  Goal
  <2> DEFINE u == [transition_to("completed") EXCEPT
                     !.result = IF result = NULL /\ row[t].result = NULL
                                THEN Keep ELSE result,
                     !.metadata = IF quality /\ row[t].metadata = NULL
                                  THEN "no_progress" ELSE Keep]
             e == [Event(sequence, "completed", "completed", 0)
                   EXCEPT !.result = result]
  <2>1. /\ u.status = "completed" /\ u.started_at = Keep
        /\ u.result = IF result = NULL /\ row[t].result = NULL THEN Keep ELSE result
        /\ u.metadata = IF quality /\ row[t].metadata = NULL
                        THEN "no_progress" ELSE Keep
        /\ u.completed_at = IF is_terminal(u.status) THEN TRUE ELSE Keep
    BY DEF transition_to, Unchanged
  <2>2. e.event_type = "completed" /\ e.context = 0 /\ e.result = result
    BY DEF Event
  <2>3. PostEvent(s, t, e, u)
    BY <1>3 DEF sidecar_completed
  <2> HIDE DEF u, e
  <2>4. Assigns(u.result, e)
    BY <2>1, <2>2 DEF Assigns
  <2>5. u.result = Keep => e.result = NULL /\ row[t].result = NULL
    BY <2>1, <2>2, NullAssumption
  <2> QED  BY <1>0, <2>1, <2>2, <2>3, <2>4, <2>5, PostDescribed
<1>4. CASE sidecar_failed(s, t, sequence)
  <2> DEFINE u == [transition_to("failed") EXCEPT !.result = "error"]
             e == [Event(sequence, "failed", "failed", 0) EXCEPT !.result = "error"]
  <2>1. /\ u.status = "failed" /\ u.result = "error" /\ u.started_at = Keep
        /\ u.metadata = Keep
        /\ u.completed_at = IF is_terminal(u.status) THEN TRUE ELSE Keep
    BY DEF transition_to, Unchanged
  <2>2. e.event_type = "failed" /\ e.context = 0 /\ e.result = "error"
    BY DEF Event
  <2>3. PostEvent(s, t, e, u)
    BY <1>4 DEF sidecar_failed
  <2> HIDE DEF u, e
  <2>4. Assigns(u.result, e)
    BY <2>1, <2>2 DEF Assigns
  <2>5. u.result # Keep
    BY <2>1, NullAssumption
  <2> QED  BY <1>0, <2>1, <2>2, <2>3, <2>4, <2>5, PostDescribed
<1>5. ASSUME NEW progress \in Progress, sidecar_progress(s, t, sequence, progress)
      PROVE  Goal
  <2> DEFINE u == [Unchanged EXCEPT !.metadata = IF row[t].metadata = NULL
                                                 THEN progress ELSE Keep]
             e == Event(sequence, "progress", NULL, 0)
  <2>1. /\ u.status = Keep /\ u.result = Keep /\ u.started_at = Keep
        /\ u.completed_at = Keep
        /\ u.metadata = IF row[t].metadata = NULL THEN progress ELSE Keep
    BY DEF Unchanged
  <2>2. e.event_type = "progress" /\ e.context = 0 /\ e.result = NULL
    BY DEF Event
  <2>3. PostEvent(s, t, e, u)
    BY <1>5 DEF sidecar_progress
  <2> HIDE DEF u, e
  <2>4. Assigns(u.result, e)
    BY <2>1, <2>2 DEF Assigns
  <2> QED  BY <1>0, <2>1, <2>2, <2>3, <2>4, PostDescribed
<1>6. ASSUME NEW event_type \in ExecutorEvents, NEW context \in 0..MaxContext,
             sidecar_record(s, t, sequence, event_type, context)
      PROVE  Goal
  <2> DEFINE u == Unchanged
             e == Event(sequence, event_type, NULL, context)
  <2>1. /\ u.status = Keep /\ u.result = Keep /\ u.started_at = Keep
        /\ u.completed_at = Keep /\ u.metadata = Keep
    BY DEF Unchanged
  <2>2. e.event_type \in {"log", "heartbeat", "escalation", "context_injected"}
        /\ e.context = context /\ e.result = NULL
    BY <1>6 DEF Event, sidecar_record
  <2>3. PostEvent(s, t, e, u)
    BY <1>6 DEF sidecar_record
  <2> HIDE DEF u, e
  <2>4. Assigns(u.result, e)
    BY <2>1, <2>2 DEF Assigns
  <2> QED  BY <1>0, <2>1, <2>2, <2>3, <2>4, PostDescribed
<1> QED  BY <1>1, <1>2, <1>3, <1>4, <1>5, <1>6

\* A step of TaskStore: a request is taken up, or goes on, or neither.
LEMMA DescribedSteps ==
    ASSUME TypeOK, [Next]_vars
    PROVE  \/ \E s \in Sessions : \E q : Begin(s, q) /\ Admitted(q) /\ Described(q)
           \/ \E s \in Sessions : Proceed(s)
           \/ Crash
           \/ Tick
           \/ UNCHANGED vars
<1>1. ASSUME NEW s \in Sessions, NEW p, Begin(s, p), NEW q, Begin(s, q)
      PROVE  p = q
  <2>1. [req EXCEPT ![s] = p][s] = [req EXCEPT ![s] = q][s]
    BY <1>1 DEF Begin
  <2> QED  BY <2>1 DEF TypeOK
<1>2. ASSUME NEW s \in Sessions, Dispatch(s)
      PROVE  \E q : Begin(s, q) /\ Admitted(q) /\ Described(q)
  BY <1>1, <1>2, DispatchAdmitted, DispatchDescribed
<1>3. ASSUME NEW s \in Sessions, NEW t \in TaskIds, Principal(s, t)
      PROVE  \E q : Begin(s, q) /\ Admitted(q) /\ Described(q)
  BY <1>1, <1>3, PrincipalAdmitted, PrincipalDescribed
<1>4. ASSUME NEW s \in Sessions, NEW t \in TaskIds, process_sidecar_event(s, t)
      PROVE  \E q : Begin(s, q) /\ Admitted(q) /\ Described(q)
  BY <1>1, <1>4, SidecarAdmitted, SidecarDescribed
<1> QED  BY <1>2, <1>3, <1>4 DEF Next

-----------------------------------------------------------------------------
(* The requests in progress, and what a commit makes of the tables.        *)

RequestsMean ==
    \A s \in Sessions : req[s] # NULL =>
        /\ Means(req[s])
        /\ req[s].task # NULL => exists(req[s].task) /\ Announces(req[s])

MeansInv == StoreInv /\ RequestsMean

\* The request is the same but for its phase and the number of its event.
SameRequest(p, q) ==
    /\ p.sidecar = q.sidecar /\ p.task = q.task /\ p.update = q.update
    /\ p.child = q.child /\ p.insert = q.insert /\ p.metadata = q.metadata
    /\ p.seen = q.seen
    /\ p.event.event_type = q.event.event_type
    /\ p.event.status = q.event.status
    /\ p.event.context = q.event.context
    /\ p.event.result = q.event.result
    /\ q.task = NULL => p.event = q.event

LEMMA SameMeans ==
    ASSUME NEW p, NEW q, SameRequest(p, q), Means(q)
    PROVE  Means(p)
<1>1. TellsOutcome(p) /\ SetsTimes(p)
  BY DEF Means, SameRequest, TellsOutcome, Assigns, SetsTimes
<1>2. /\ Supersedes(p) /\ OnlyInserts(p) /\ OfItsKind(p)
      /\ p.event.context \in 0..MaxContext
  BY DEF Means, SameRequest, Supersedes, OnlyInserts, OfItsKind
<1> QED  BY <1>1, <1>2 DEF Means

\* What becomes of the requests in a step that takes none up.
LEMMA RequestsGoOn ==
    ASSUME MeansInv, \/ \E s \in Sessions : Proceed(s)
                     \/ Crash
                     \/ Tick
                     \/ UNCHANGED vars,
           NEW r \in Sessions, req'[r] # NULL
    PROVE  req[r] # NULL /\ SameRequest(req'[r], req[r])
<1>1. TypeOK /\ req \in [Sessions -> Request \cup {NULL}]
  BY DEF MeansInv, StoreInv, LineageInv, TypeOK
<1>2. ASSUME UNCHANGED req PROVE req[r] # NULL /\ SameRequest(req'[r], req[r])
  BY <1>2 DEF SameRequest
<1>3. ASSUME NEW s \in Sessions, req' = [req EXCEPT ![s] = NULL]
      PROVE  req[r] # NULL /\ SameRequest(req'[r], req[r])
  BY <1>1, <1>3 DEF SameRequest
<1>4. ASSUME NEW s \in Sessions, Flush(s)
      PROVE  req[r] # NULL /\ SameRequest(req'[r], req[r])
  <2>1. PICK n \in Nat, q \in Request :
          /\ req' = [req EXCEPT ![s] = q]
          /\ q = [req[s] EXCEPT !.phase = "flushed",
                                !.event = [req[s].event EXCEPT !.sequence = n]]
    BY <1>1, <1>4, FlushStep
  <2>2. req[s] # NULL /\ req[s] \in Request /\ req[s].event.sequence = 0
    BY <1>1, <1>4 DEF Flush
  <2>3. req[s].task # NULL
    <3>1. created_event.sequence = 1
      BY DEF created_event, Event
    <3>2. req[s].task = NULL => req[s].event = created_event
      BY <2>2 DEF MeansInv, RequestsMean, Means, OnlyInserts
    <3>3. req[s].task = NULL => req[s].event.sequence = 1
      BY <3>1, <3>2
    <3> QED  BY <2>2, <3>3
  <2>4. SameRequest(q, req[s])
    BY <2>1, <2>2, <2>3 DEF SameRequest, Request, TaskEvent
  <2>5. CASE r = s
    BY <1>1, <2>1, <2>2, <2>4, <2>5
  <2>6. CASE r # s
    BY <1>1, <2>1, <2>6 DEF SameRequest
  <2> QED  BY <2>5, <2>6
<1>8. ASSUME NEW s \in Sessions, FlushUpdate(s)
      PROVE  req[r] # NULL /\ SameRequest(req'[r], req[r])
  <2>1. PICK q \in Request : /\ req' = [req EXCEPT ![s] = q]
                             /\ q = [req[s] EXCEPT !.phase = "updated"]
    BY <1>1, <1>8, UpdateStep
  <2>2. req[s] # NULL /\ req[s] \in Request
    BY <1>1, <1>8 DEF FlushUpdate
  <2>3. SameRequest(q, req[s])
    BY <2>1, <2>2 DEF SameRequest, Request
  <2>4. CASE r = s
    BY <1>1, <2>1, <2>2, <2>3, <2>4
  <2>5. CASE r # s
    BY <1>1, <2>1, <2>5 DEF SameRequest
  <2> QED  BY <2>4, <2>5
<1>5. ASSUME NEW s \in Sessions, Commit(s)
      PROVE  req[r] # NULL /\ SameRequest(req'[r], req[r])
  <2>1. req' = [req EXCEPT ![s] = IF req[s].sidecar
                                  THEN [req[s] EXCEPT !.phase = "committed"] ELSE NULL]
    BY <1>5 DEF Commit
  <2>2. req[s] # NULL /\ req[s] \in Request
    BY <1>1, <1>5 DEF Commit
  <2>3. CASE r = s
    <3>1. req'[r] = [req[s] EXCEPT !.phase = "committed"]
      BY <1>1, <2>1, <2>3
    <3> QED  BY <2>2, <2>3, <3>1 DEF SameRequest, Request
  <2>4. CASE r # s
    BY <1>1, <2>1, <2>4 DEF SameRequest
  <2> QED  BY <2>3, <2>4
<1>6. CASE Crash
  BY <1>6 DEF Crash
<1>7. CASE Tick \/ UNCHANGED vars
  BY <1>2, <1>7 DEF Tick, vars
<1> QED  BY <1>3, <1>4, <1>5, <1>6, <1>7, <1>8
         DEF Proceed, IntegrityError, ScheduleCallback

LEMMA MeansStep == MeansInv /\ [Next]_vars => MeansInv'
<1> SUFFICES ASSUME MeansInv, [Next]_vars PROVE MeansInv'
  OBVIOUS
<1>1. StoreInv' /\ \A t \in TaskIds : exists(t) => exists(t)'
  BY StoreGrows DEF MeansInv
<1>2. TypeOK /\ req \in [Sessions -> Request \cup {NULL}] /\ TypeOK'
  BY <1>1 DEF MeansInv, StoreInv, LineageInv, TypeOK
<1> SUFFICES ASSUME NEW r \in Sessions, req'[r] # NULL
             PROVE  /\ Means(req'[r])
                    /\ req'[r].task # NULL => exists(req[r].task)' /\ Announces(req[r])'
  BY <1>1 DEF MeansInv, RequestsMean, Means, TellsOutcome, SetsTimes, Supersedes,
              OnlyInserts, OfItsKind
<1>3. ASSUME req[r] # NULL, SameRequest(req'[r], req[r])
      PROVE  /\ Means(req'[r])
             /\ req'[r].task # NULL => exists(req[r].task)' /\ Announces(req[r])'
  <2>1. Means(req[r]) /\ req[r] \in Request
    BY <1>2, <1>3 DEF MeansInv, RequestsMean
  <2>2. Means(req'[r])
    BY <1>3, <2>1, SameMeans
  <2>3. req[r].task # NULL =>
          req[r].task \in TaskIds /\ exists(req[r].task) /\ Announces(req[r])
    BY <1>3, <2>1 DEF MeansInv, RequestsMean, Request
  <2> QED  BY <1>1, <1>3, <2>2, <2>3 DEF SameRequest, Announces, exists
<1>4. ASSUME NEW s \in Sessions, NEW q, Begin(s, q), Admitted(q), Described(q)
      PROVE  /\ Means(req'[r])
             /\ req'[r].task # NULL => exists(req[r].task)' /\ Announces(req[r])'
  <2>1. req' = [req EXCEPT ![s] = q] /\ tasks' = tasks
    BY <1>4 DEF Begin
  <2>2. CASE r = s
    <3>1. req'[r] = q
      BY <1>2, <2>1, <2>2
    <3> QED  BY <1>4, <2>1, <3>1 DEF Described, Admitted, Announces, exists
  <2>3. CASE r # s
    <3>1. req'[r] = req[r]
      BY <1>2, <2>1, <2>3
    <3> QED  BY <1>3, <3>1 DEF SameRequest
  <2> QED  BY <2>2, <2>3
<1> QED  BY <1>2, <1>3, <1>4, DescribedSteps, RequestsGoOn

LEMMA MeansInit == Init => MeansInv
<1> SUFFICES ASSUME Init PROVE MeansInv
  OBVIOUS
<1>1. Numbered /\ RequestsMean
  BY DEF Init, Numbered, RequestsMean
<1> QED  BY <1>1, LineageInit DEF MeansInv, StoreInv

\* What a commit makes of each task, and of the sessions.
LEMMA CommitCases ==
    ASSUME MeansInv, NEW s \in Sessions, Commit(s)
    PROVE  LET q == req[s] IN
           /\ q \in Request /\ q # NULL /\ Means(q) /\ q.phase # "committed"
           /\ q.task # NULL => /\ q.task \in TaskIds /\ exists(q.task) /\ Announces(q)
                               /\ q.task # q.child
                               /\ tasks'[q.task] = tasks[q.task]
                               /\ row'[q.task] = Apply(row[q.task], q.update)
                               /\ events'[q.task] = events[q.task] \cup {q.event}
                               /\ q.event \notin events[q.task]
           /\ q.child # NULL => /\ q.child \in TaskIds /\ ~exists(q.child)
                                /\ tasks'[q.child] = q.insert /\ q.insert # NULL
                                /\ row'[q.child] = Accepted(q.metadata)
                                /\ events'[q.child] = {created_event}
           /\ \A t \in TaskIds : (t # q.task /\ t # q.child) =>
                 tasks'[t] = tasks[t] /\ row'[t] = row[t] /\ events'[t] = events[t]
           /\ req' = [req EXCEPT ![s] = IF q.sidecar
                                        THEN [q EXCEPT !.phase = "committed"] ELSE NULL]
<1> DEFINE q == req[s]
<1>1. q \in Request /\ q # NULL /\ q.phase # "committed" /\ Means(q)
  BY DEF Commit, MeansInv, StoreInv, LineageInv, TypeOK, RequestsMean
<1>2. q.task # NULL => q.task \in TaskIds /\ exists(q.task) /\ Announces(q)
  BY <1>1 DEF MeansInv, RequestsMean, Request
<1>3. q.child # NULL => q.child \in TaskIds /\ ~exists(q.child) /\ q.insert \in Task
  BY <1>1 DEF MeansInv, StoreInv, LineageInv, InsertsSound, Means, Supersedes, Request
<1>4. q.task # NULL => q.task # q.child
  BY <1>2, <1>3
<1>5. /\ tasks' = [t \in TaskIds |-> IF t = q.child THEN q.insert ELSE tasks[t]]
      /\ row' = [t \in TaskIds |->
                   IF t = q.child THEN Accepted(q.metadata)
                   ELSE IF t = q.task THEN Apply(row[t], q.update) ELSE row[t]]
      /\ events' = [t \in TaskIds |->
                      IF t = q.child THEN {created_event}
                      ELSE IF t = q.task THEN events[t] \cup {q.event}
                      ELSE events[t]]
      /\ req' = [req EXCEPT ![s] = IF q.sidecar
                                   THEN [q EXCEPT !.phase = "committed"] ELSE NULL]
      /\ ~sequence_taken(q)
  BY DEF Commit
<1>6. q.task # NULL => q.event \notin events[q.task]
  BY <1>5 DEF sequence_taken
<1>7. q.task # NULL => /\ tasks'[q.task] = tasks[q.task]
                       /\ row'[q.task] = Apply(row[q.task], q.update)
                       /\ events'[q.task] = events[q.task] \cup {q.event}
  BY <1>2, <1>4, <1>5
<1>8. q.child # NULL => /\ tasks'[q.child] = q.insert
                        /\ row'[q.child] = Accepted(q.metadata)
                        /\ events'[q.child] = {created_event}
  BY <1>3, <1>5
<1>9. q.child # NULL => q.insert # NULL
  BY <1>3, RowAssumption
<1> QED  BY <1>1, <1>2, <1>3, <1>4, <1>5, <1>6, <1>7, <1>8, <1>9

-----------------------------------------------------------------------------
(* The log says what the row says: its status, and of an outcome what kind *)
(* it is.                                                                  *)

LogSays ==
    \A t \in TaskIds :
        /\ exists(t) => \E e \in events[t] : e.status = row[t].status
        /\ \A e \in events[t] :
              e.event_type \in {"completed", "failed"} => e.status = e.event_type

SaysInv == MeansInv /\ LogSays

\* Only commits write the tables.
LEMMA OnlyCommits ==
    ASSUME TypeOK, [Next]_vars
    PROVE  \/ \E s \in Sessions : Commit(s)
           \/ UNCHANGED <<tasks, row, events, context_seq>>
BY Steps DEF Begin, Proceed, FlushUpdate, Flush, IntegrityError, ScheduleCallback,
             Crash, Tick, vars

LEMMA SaysStep == SaysInv /\ [Next]_vars => SaysInv'
<1> SUFFICES ASSUME SaysInv, [Next]_vars PROVE LogSays'
  BY MeansStep DEF SaysInv
<1>1. CASE UNCHANGED <<tasks, row, events, context_seq>>
  BY <1>1 DEF SaysInv, LogSays, exists
<1>2. ASSUME NEW s \in Sessions, Commit(s), NEW t \in TaskIds
      PROVE  /\ exists(t)' => \E e \in events'[t] : e.status = row'[t].status
             /\ \A e \in events'[t] :
                   e.event_type \in {"completed", "failed"} => e.status = e.event_type
  <2> DEFINE q == req[s]
  <2>1. /\ q \in Request /\ q # NULL /\ Means(q)
        /\ q.task # NULL => /\ Announces(q) /\ exists(q.task)
                            /\ row'[q.task] = Apply(row[q.task], q.update)
                            /\ events'[q.task] = events[q.task] \cup {q.event}
        /\ q.child # NULL => /\ row'[q.child] = Accepted(q.metadata)
                             /\ events'[q.child] = {created_event}
        /\ (t # q.task /\ t # q.child) =>
              tasks'[t] = tasks[t] /\ row'[t] = row[t] /\ events'[t] = events[t]
    BY <1>2, CommitCases DEF SaysInv
  <2>2. t # NULL
    BY NullAssumption
  <2>3. CASE t = q.child
    <3>1. events'[t] = {created_event} /\ row'[t] = Accepted(q.metadata)
      BY <2>1, <2>2, <2>3
    <3> QED  BY <3>1 DEF created_event, Event, Accepted
  <2>4. CASE t = q.task
    <3>0. /\ Announces(q) /\ exists(t)
          /\ row'[t] = Apply(row[t], q.update)
          /\ events'[t] = events[t] \cup {q.event}
      BY <2>1, <2>2, <2>4
    <3>1. /\ Announces(q) /\ exists(t)
          /\ row'[t].status = Written(row[t].status, q.update.status)
          /\ events'[t] = events[t] \cup {q.event}
      BY <3>0 DEF Apply
    <3>2. /\ \E e \in events[t] : e.status = row[t].status
          /\ \A e \in events[t] :
                e.event_type \in {"completed", "failed"} => e.status = e.event_type
      BY <3>1 DEF SaysInv, LogSays
    <3>3. q.event.event_type \in {"completed", "failed"} =>
             q.event.status = q.event.event_type
      <4>1. q.event.event_type \in {"completed", "failed"} =>
               q.update.status = q.event.event_type
        BY <2>1 DEF Means, TellsOutcome
      <4>2. Keep \notin {"completed", "failed"}
        BY NullAssumption DEF TaskStatus
      <4> QED  BY <3>1, <4>1, <4>2 DEF Announces
    <3>4. \E e \in events'[t] : e.status = row'[t].status
      BY <3>1, <3>2, NullAssumption DEF Announces, Written
    <3> QED  BY <3>1, <3>2, <3>3, <3>4
  <2>5. CASE t # q.task /\ t # q.child
    BY <2>1, <2>5 DEF SaysInv, LogSays, exists
  <2> QED  BY <2>3, <2>4, <2>5
<1>3. TypeOK
  BY DEF SaysInv, MeansInv, StoreInv, LineageInv
<1> QED  BY <1>1, <1>2, <1>3, OnlyCommits DEF LogSays

LEMMA SaysInit == Init => SaysInv
BY MeansInit DEF Init, SaysInv, LogSays, exists
=============================================================================
