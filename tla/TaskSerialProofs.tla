-------------------------- MODULE TaskSerialProofs --------------------------
(***************************************************************************)
(* TaskStore when the server handles one request at a time: what the       *)
(* handlers check still holds when they write.                             *)
(***************************************************************************)
EXTENDS MCTaskContract, TaskLogProofs

OneAtATime == \A r, s \in Sessions : r = s

\* What was checked when the request was taken up holds of the tables as they are.
Current(q) ==
    q.task # NULL =>
        /\ Valid(q) /\ StoresProgress(q) /\ NumbersContext(q)
        /\ \A e \in events[q.task] :
              e.sequence < q.event.sequence \/ q.event.sequence = 0

RequestsCurrent ==
    \A s \in Sessions :
        (req[s] # NULL /\ req[s].phase # "committed") => Current(req[s])

\* The tables say nothing yet of an id that is not drawn.
Unborn(t) == ~exists(t) => row[t].status = "accepted" /\ events[t] = {}

CurrentInv == MeansInv /\ RequestsCurrent /\ \A t \in TaskIds : Unborn(t)

LEMMA BeginCurrent ==
    ASSUME OneAtATime, CurrentInv,
           NEW s \in Sessions, NEW q, Begin(s, q), Admitted(q), Described(q)
    PROVE  RequestsCurrent'
<1>1. /\ req' = [req EXCEPT ![s] = q]
      /\ UNCHANGED <<tasks, row, events, context_seq>>
  BY DEF Begin
<1>2. req'[s] = q
  BY <1>1 DEF CurrentInv, MeansInv, StoreInv, LineageInv, TypeOK
<1>3. Current(q)
  <2> SUFFICES ASSUME q.task # NULL PROVE Current(q)
    BY DEF Current
  <2>1. Valid(q) /\ NumberOK(q)
    BY DEF Admitted
  <2>2. StoresProgress(q) /\ NumbersContext(q)
    BY DEF Described
  <2>3. \A e \in events[q.task] : e.sequence < q.event.sequence \/ q.event.sequence = 0
    BY <2>1 DEF NumberOK
  <2> QED  BY <2>1, <2>2, <2>3 DEF Current
<1>4. row' = row /\ events' = events /\ context_seq' = context_seq
  BY <1>1
<1> SUFFICES ASSUME NEW r \in Sessions PROVE Current(req[r])'
  BY DEF RequestsCurrent
<1>5. req'[r] = q
  BY <1>2 DEF OneAtATime
<1>6. req[r]' = q
  BY <1>5
<1> QED  BY <1>3, <1>4, <1>6 DEF Current, Valid, StoresProgress, NumbersContext,
                                context_events

\* Nothing is read before and written after another request's commit.
LEMMA FlushCurrent ==
    ASSUME CurrentInv, NEW s \in Sessions, Flush(s)
    PROVE  Current(req[s])'
<1>1. /\ TypeOK /\ req \in [Sessions -> Request \cup {NULL}]
      /\ req[s] # NULL /\ req[s].phase # "committed"
      /\ UNCHANGED <<tasks, row, events, context_seq>>
  BY DEF CurrentInv, MeansInv, StoreInv, LineageInv, TypeOK, Flush
<1>2. Current(req[s])
  BY <1>1 DEF CurrentInv, RequestsCurrent
<1>3. PICK n \in 1..(MaxSequence + Cardinality(Sessions)) :
        /\ \A e \in events[req[s].task] : e.sequence < n
        /\ req' = [req EXCEPT ![s] =
                      [req[s] EXCEPT !.phase = "flushed",
                                     !.event = [req[s].event EXCEPT !.sequence = n]]]
  BY DEF Flush
<1>4. req[s] \in Request
  BY <1>1
<1>5. req[s]' = [req[s] EXCEPT !.phase = "flushed",
                               !.event = [req[s].event EXCEPT !.sequence = n]]
  BY <1>1, <1>3
<1>6. /\ req'[s].sidecar = req[s].sidecar /\ req'[s].task = req[s].task
      /\ req'[s].update = req[s].update /\ req'[s].seen = req[s].seen
      /\ req'[s].event.event_type = req[s].event.event_type
      /\ req'[s].event.context = req[s].event.context
      /\ req'[s].event.sequence = n
  BY <1>4, <1>5 DEF Request, TaskEvent
<1>7. row' = row /\ events' = events /\ context_seq' = context_seq
  BY <1>1
<1> QED  BY <1>2, <1>3, <1>6, <1>7 DEF Current, Valid, StoresProgress, NumbersContext,
                                      context_events

LEMMA UpdateCurrent ==
    ASSUME CurrentInv, NEW s \in Sessions, FlushUpdate(s)
    PROVE  Current(req[s])'
<1>1. /\ TypeOK /\ req \in [Sessions -> Request \cup {NULL}]
      /\ req[s] # NULL /\ req[s].phase # "committed"
      /\ UNCHANGED <<tasks, row, events, context_seq>>
  BY DEF CurrentInv, MeansInv, StoreInv, LineageInv, TypeOK, FlushUpdate
<1>2. Current(req[s]) /\ req[s] \in Request
  BY <1>1 DEF CurrentInv, RequestsCurrent
<1>3. req[s]' = [req[s] EXCEPT !.phase = "updated"]
  BY <1>1 DEF FlushUpdate
<1>4. /\ req'[s].sidecar = req[s].sidecar /\ req'[s].task = req[s].task
      /\ req'[s].update = req[s].update /\ req'[s].seen = req[s].seen
      /\ req'[s].event = req[s].event
  BY <1>2, <1>3 DEF Request
<1>5. row' = row /\ events' = events /\ context_seq' = context_seq
  BY <1>1
<1> QED  BY <1>2, <1>4, <1>5 DEF Current, Valid, StoresProgress, NumbersContext,
                                context_events

LEMMA CommitUnborn ==
    ASSUME CurrentInv, NEW s \in Sessions, Commit(s), NEW t \in TaskIds
    PROVE  Unborn(t)'
<1> DEFINE q == req[s]
<1>0. t # NULL
  BY NullAssumption
<1>1. /\ q.task # NULL => exists(q.task) /\ tasks'[q.task] = tasks[q.task]
      /\ q.child # NULL => tasks'[q.child] = q.insert /\ q.insert # NULL
      /\ (t # q.task /\ t # q.child) =>
            tasks'[t] = tasks[t] /\ row'[t] = row[t] /\ events'[t] = events[t]
  BY CommitCases DEF CurrentInv
<1> QED  BY <1>0, <1>1 DEF CurrentInv, Unborn, exists

LEMMA CurrentStep ==
    ASSUME OneAtATime, CurrentInv, [Next]_vars
    PROVE  CurrentInv'
<1>1. TypeOK /\ MeansInv /\ MeansInv' /\ req \in [Sessions -> Request \cup {NULL}]
  BY MeansStep DEF CurrentInv, MeansInv, StoreInv, LineageInv, TypeOK
<1>2. \A t \in TaskIds : Unborn(t)'
  <2>1. CASE UNCHANGED <<tasks, row, events, context_seq>>
    BY <2>1 DEF CurrentInv, Unborn, exists
  <2> QED  BY <1>1, <2>1, OnlyCommits, CommitUnborn
<1>3. RequestsCurrent'
  <2>1. ASSUME NEW s \in Sessions, req'[s] = NULL PROVE RequestsCurrent'
    BY <2>1 DEF OneAtATime, RequestsCurrent
  <2>2. ASSUME NEW s \in Sessions, Flush(s) PROVE RequestsCurrent'
    BY <2>2, FlushCurrent DEF OneAtATime, RequestsCurrent
  <2>7. ASSUME NEW s \in Sessions, FlushUpdate(s) PROVE RequestsCurrent'
    BY <2>7, UpdateCurrent DEF OneAtATime, RequestsCurrent
  <2>3. ASSUME NEW s \in Sessions, Commit(s) PROVE RequestsCurrent'
    <3>1. req' = [req EXCEPT ![s] = IF req[s].sidecar
                                    THEN [req[s] EXCEPT !.phase = "committed"] ELSE NULL]
      BY <2>3 DEF Commit
    <3>2. req[s] \in Request
      BY <1>1, <2>3 DEF Commit
    <3>3. req'[s] = NULL \/ req'[s].phase = "committed"
      BY <1>1, <3>1, <3>2 DEF Request
    <3> QED  BY <3>3 DEF OneAtATime, RequestsCurrent
  <2>4. ASSUME NEW s \in Sessions, IntegrityError(s) \/ ScheduleCallback(s)
        PROVE  RequestsCurrent'
    <3>1. req' = [req EXCEPT ![s] = NULL]
      BY <2>4 DEF IntegrityError, ScheduleCallback
    <3> QED  BY <1>1, <2>1, <3>1
  <2>5. CASE Crash
    BY <2>5 DEF Crash, RequestsCurrent
  <2>6. CASE Tick \/ UNCHANGED vars
    <3>1. UNCHANGED <<tasks, row, events, context_seq, req>>
      BY <2>6 DEF Tick, vars
    <3> QED  BY <3>1 DEF CurrentInv, RequestsCurrent, Current, Valid, StoresProgress,
                         NumbersContext, context_events
  <2> QED  BY <1>1, <2>2, <2>3, <2>4, <2>5, <2>6, <2>7, DescribedSteps, BeginCurrent DEF Proceed
<1> QED  BY <1>1, <1>2, <1>3 DEF CurrentInv

LEMMA CurrentInit == Init => CurrentInv
<1> SUFFICES ASSUME Init PROVE RequestsCurrent /\ \A t \in TaskIds : Unborn(t)
  BY MeansInit DEF CurrentInv
<1> QED  BY DEF Init, RequestsCurrent, Unborn, exists, Accepted

\* What a commit writes, for requests handled one at a time.
LEMMA CommitCurrent ==
    ASSUME CurrentInv, NEW s \in Sessions, Commit(s)
    PROVE  LET q == req[s] IN
           q.task # NULL =>
              /\ Current(q)
              /\ \A e \in events[q.task] : e.sequence < q.event.sequence
<1>1. req[s] # NULL /\ req[s].phase # "committed" /\ req[s].event.sequence # 0
  BY DEF Commit
<1> QED  BY <1>1 DEF CurrentInv, RequestsCurrent, Current

-----------------------------------------------------------------------------
(* Transitions and successors.                                             *)

LEMMA CommitValid ==
    ASSUME CurrentInv, NEW s \in Sessions, Commit(s), NEW t \in TaskIds,
           row'[t].status # row[t].status
    PROVE  validate_transition(row[t].status, row'[t].status)
<1> DEFINE q == req[s]
<1>0. t # NULL
  BY NullAssumption
<1>1. /\ q.task # NULL => row'[q.task] = Apply(row[q.task], q.update)
      /\ q.child # NULL => ~exists(q.child) /\ row'[q.child] = Accepted(q.metadata)
      /\ (t # q.task /\ t # q.child) => row'[t] = row[t]
  BY CommitCases DEF CurrentInv
<1>2. CASE t = q.child
  <2>1. row'[t] = Accepted(q.metadata) /\ row[t].status = "accepted"
    BY <1>0, <1>1, <1>2 DEF CurrentInv, Unborn
  <2> QED  BY <2>1 DEF Accepted
<1>3. CASE t = q.task
  <2>1. row'[t] = Apply(row[t], q.update) /\ Valid(q)
    BY <1>0, <1>1, <1>3, CommitCurrent DEF Current
  <2>2. row'[t].status = Written(row[t].status, q.update.status)
    BY <2>1 DEF Apply
  <2> QED  BY <1>3, <2>1, <2>2 DEF Valid, Written
<1> QED  BY <1>1, <1>2, <1>3

\* Of requests handled one at a time, whoever sends them and in whatever order,
\* none takes a task along a transition that is not in the table.
THEOREM TransitionsAreValid ==
    ASSUME OneAtATime
    PROVE  Spec => OnlyValidTransitions
<1> DEFINE A == \A t \in TaskIds : row'[t].status # row[t].status =>
                    validate_transition(row[t].status, row'[t].status)
<1>1. CurrentInv /\ [Next]_vars => [A]_vars
  <2> SUFFICES ASSUME CurrentInv, [Next]_vars PROVE A
    OBVIOUS
  <2>1. CASE UNCHANGED <<tasks, row, events, context_seq>>
    BY <2>1
  <2>2. TypeOK
    BY DEF CurrentInv, MeansInv, StoreInv, LineageInv
  <2> QED  BY <2>1, <2>2, OnlyCommits, CommitValid
<1>2. CurrentInv /\ [Next]_vars => CurrentInv'
  BY CurrentStep
<1> QED  BY <1>1, <1>2, CurrentInit, PTL DEF Spec, OnlyValidTransitions

Succeeded(t) ==
    /\ IsFiniteSet(children(t)) /\ Cardinality(children(t)) <= 1
    /\ children(t) # {} <=> row[t].status \in SUPERSEDED

SuccessorInv == CurrentInv /\ \A t \in TaskIds : Succeeded(t)

LEMMA CommitSucceeded ==
    ASSUME ExecutorStatuses \cap SUPERSEDED = {},
           SuccessorInv, NEW s \in Sessions, Commit(s), NEW t \in TaskIds
    PROVE  Succeeded(t)'
<1> DEFINE q == req[s]
<1>0. Succeeded(t) /\ t # NULL /\ MeansInv
  BY NullAssumption DEF SuccessorInv, CurrentInv
<1>1. /\ q \in Request /\ q # NULL /\ Means(q)
      /\ q.task # NULL => row'[q.task] = Apply(row[q.task], q.update) /\ Announces(q)
      /\ q.child # NULL => ~exists(q.child) /\ row'[q.child] = Accepted(q.metadata)
      /\ (t # q.task /\ t # q.child) => row'[t] = row[t]
      /\ q.task # NULL => exists(q.task) /\ q.task # q.child
  BY <1>0, CommitCases
<1>2. q.child # NULL <=> \/ q.task = NULL
                         \/ ~q.sidecar /\ q.update.status \in SUPERSEDED
  BY <1>1 DEF Means, Supersedes, SUPERSEDED
<1>3. q.sidecar => q.update.status \notin SUPERSEDED
  <2>1. q.sidecar => q.event.event_type \notin SUPERSEDED
    BY <1>1, StoreAssumption DEF Means, TellsOutcome, SUPERSEDED, _VALID_EVENT_TYPES
  <2>2. Keep \notin SUPERSEDED
    BY NullAssumption DEF SUPERSEDED, TaskStatus
  <2> QED  BY <1>1, <2>1, <2>2 DEF Means, TellsOutcome
<1>4. children(t)' = IF q.child # NULL /\ t = q.task
                     THEN children(t) \cup {q.child} ELSE children(t)
  BY <1>0, CommitChildren
<1>5. CASE t = q.child
  <2>1. row'[t] = Accepted(q.metadata) /\ ~exists(t) /\ t # q.task
    BY <1>0, <1>1, <1>5
  <2>2. row'[t].status \notin SUPERSEDED
    BY <2>1 DEF Accepted, SUPERSEDED
  <2>3. children(t) = {} /\ children(t)' = {}
    BY <1>0, <1>4, <2>1, ChildlessUnborn DEF MeansInv
  <2> QED  BY <1>0, <2>2, <2>3 DEF Succeeded
<1>6. CASE t = q.task
  <2>1. /\ row'[t] = Apply(row[t], q.update) /\ Announces(q)
        /\ Valid(q) /\ row[t].status \in TaskStatus
    BY <1>0, <1>1, <1>6, CommitCurrent
       DEF SuccessorInv, CurrentInv, MeansInv, StoreInv, LineageInv, TypeOK, Row, Current
  <2>2. row'[t].status = Written(row[t].status, q.update.status)
    BY <2>1 DEF Apply
  \* A superseded task is left alone.
  <2>3. q.update.status # Keep => row[t].status \notin SUPERSEDED
    BY <1>6, <2>1 DEF Valid, validate_transition, VALID_TRANSITIONS, SUPERSEDED, TaskStatus
  <2>4. Keep \notin SUPERSEDED
    BY NullAssumption DEF SUPERSEDED, TaskStatus
  <2>5. CASE q.child # NULL
    <3>1. q.update.status \in SUPERSEDED /\ q.update.status # Keep
      BY <1>0, <1>2, <1>6, <2>4, <2>5
    <3>2. children(t) = {} /\ row'[t].status \in SUPERSEDED
      BY <1>0, <2>2, <2>3, <3>1 DEF Succeeded, Written
    <3>3. children(t)' = {q.child}
      BY <1>4, <1>6, <2>5, <3>2
    <3>4. IsFiniteSet({q.child}) /\ Cardinality({q.child}) = 1
      BY FS_Singleton
    <3> QED  BY <3>2, <3>3, <3>4 DEF Succeeded
  <2>6. CASE q.child = NULL
    <3>1. q.update.status \notin SUPERSEDED
      BY <1>2, <1>3, <2>6, <1>0, <1>6
    <3>2. row'[t].status \in SUPERSEDED <=> row[t].status \in SUPERSEDED
      BY <2>2, <2>3, <3>1 DEF Written
    <3> QED  BY <1>0, <1>4, <2>6, <3>2 DEF Succeeded
  <2> QED  BY <2>5, <2>6
<1>7. CASE t # q.child /\ t # q.task
  BY <1>0, <1>1, <1>4, <1>7 DEF Succeeded
<1> QED  BY <1>5, <1>6, <1>7

\* Of requests handled one at a time, one at most supersedes a task, and a
\* superseded task stays superseded; unless its executor posts "retasked" or
\* "redirected".
THEOREM SupersededOnce ==
    ASSUME OneAtATime, ExecutorStatuses \cap SUPERSEDED = {}
    PROVE  Spec => []OneSuccessor
<1>1. Init => SuccessorInv
  <2> SUFFICES ASSUME Init, NEW t \in TaskIds PROVE Succeeded(t)
    BY CurrentInit DEF SuccessorInv
  <2>1. children(t) = {} /\ row[t].status \notin SUPERSEDED
    BY DEF Init, children, exists, Accepted, SUPERSEDED
  <2> QED  BY <2>1, FS_EmptySet DEF Succeeded
<1>2. SuccessorInv /\ [Next]_vars => SuccessorInv'
  <2> SUFFICES ASSUME SuccessorInv, [Next]_vars PROVE \A t \in TaskIds : Succeeded(t)'
    BY CurrentStep DEF SuccessorInv
  <2>1. CASE UNCHANGED <<tasks, row, events, context_seq>>
    <3>1. \A t \in TaskIds : children(t)' = children(t)
      BY <2>1 DEF children, exists
    <3> QED  BY <2>1, <3>1 DEF SuccessorInv, Succeeded
  <2>2. TypeOK
    BY DEF SuccessorInv, CurrentInv, MeansInv, StoreInv, LineageInv
  <2> QED  BY <2>1, <2>2, OnlyCommits, CommitSucceeded
<1>3. SuccessorInv => OneSuccessor
  BY DEF SuccessorInv, Succeeded, OneSuccessor, SUPERSEDED
<1> QED  BY <1>1, <1>2, <1>3, PTL DEF Spec

-----------------------------------------------------------------------------
(* Context.                                                                *)

\* The latest number is the highest, besides growing along the log.
ContextGrows(t) ==
    /\ \A e \in context_events(t) : e.context <= context_seq[t]
    /\ \A e, f \in context_events(t) : e.sequence < f.sequence => e.context < f.context

ContextInv == CurrentInv /\ \A t \in TaskIds : ContextGrows(t)

LEMMA CommitContext ==
    ASSUME "context_injected" \notin ExecutorEvents,
           ContextInv, NEW s \in Sessions, Commit(s), NEW t \in TaskIds
    PROVE  ContextGrows(t)'
<1> DEFINE q == req[s]
<1>0. /\ ContextGrows(t) /\ t # NULL /\ MeansInv
      /\ context_seq \in [TaskIds -> Nat] /\ events \in [TaskIds -> SUBSET TaskEvent]
  BY NullAssumption
     DEF ContextInv, CurrentInv, MeansInv, StoreInv, LineageInv, TypeOK
<1>m. MeansInv
  BY <1>0
<1>1. /\ q \in Request /\ q # NULL /\ Means(q)
      /\ q.task # NULL => /\ q.task \in TaskIds
                          /\ events'[q.task] = events[q.task] \cup {q.event}
      /\ q.child # NULL => events'[q.child] = {created_event} /\ ~exists(q.child)
      /\ (t # q.task /\ t # q.child) => events'[t] = events[t]
      /\ q.task # NULL => exists(q.task) /\ q.task # q.child
  BY <1>m, CommitCases
<1>2. created_event.event_type = "created"
  BY DEF created_event, Event
<1>3. q.task = NULL => q.event.event_type # "context_injected"
  BY <1>1, <1>2 DEF Means, OnlyInserts
<1>4. CASE t = q.child
  <2>1. events'[t] = {created_event}
    BY <1>0, <1>1, <1>4
  <2>2. context_events(t)' = {}
    BY <1>2, <2>1 DEF context_events
  <2> QED  BY <2>2 DEF ContextGrows
<1>5. CASE t # q.child /\ q.event.event_type # "context_injected"
  <2>1. context_seq' = context_seq
    BY <1>5 DEF Commit
  <2>2. context_events(t)' = context_events(t)
    BY <1>0, <1>1, <1>5 DEF context_events
  <2> QED  BY <1>0, <2>1, <2>2 DEF ContextGrows
<1>6. CASE t # q.child /\ q.event.event_type = "context_injected" /\ t # q.task
  <2>1. q.task # NULL /\ \E c : context_seq' = [context_seq EXCEPT ![q.task] = c]
    BY <1>3, <1>6 DEF Commit
  <2>2. context_seq'[t] = context_seq[t] /\ context_events(t)' = context_events(t)
    BY <1>0, <1>1, <1>6, <2>1 DEF context_events
  <2> QED  BY <1>0, <2>2 DEF ContextGrows
<1>7. CASE t # q.child /\ q.event.event_type = "context_injected" /\ t = q.task
  <2>1. ~q.sidecar
    BY <1>1, <1>7 DEF Means, TellsOutcome
  <2>2. /\ q.seen = context_events(t) /\ q.event.context > context_seq[t]
        /\ \A e \in events[t] : e.sequence < q.event.sequence
    BY <1>0, <1>7, <2>1, CommitCurrent DEF ContextInv, Current, NumbersContext
  <2>3. latest_context(q) = {q.event.context}
    BY <1>7, <2>2 DEF latest_context
  <2>4. context_seq' = [context_seq EXCEPT ![t] = q.event.context]
    BY <1>7, <2>3 DEF Commit
  <2>5. context_seq'[t] = q.event.context
    BY <1>0, <2>4
  <2>6. context_events(t)' = context_events(t) \cup {q.event}
    BY <1>0, <1>1, <1>7 DEF context_events
  <2>7. /\ q.event.context \in Nat /\ q.event.sequence \in Nat /\ context_seq[t] \in Nat
        /\ \A e \in context_events(t) : e.context \in Nat /\ e.sequence \in Nat
    BY <1>0, <1>1 DEF Request, TaskEvent, context_events
  <2>8. \A e \in context_events(t) :
           e.context < q.event.context /\ e.sequence < q.event.sequence
    BY <1>0, <2>2, <2>7 DEF ContextGrows, context_events
  <2>9. \A e \in context_events(t)' : e.context <= context_seq'[t]
    BY <2>5, <2>6, <2>7, <2>8
  <2>10. \A e, f \in context_events(t)' : e.sequence < f.sequence => e.context < f.context
    <3> HIDE DEF q
    <3> QED  BY <1>0, <2>6, <2>7, <2>8 DEF ContextGrows
  <2> QED  BY <2>9, <2>10 DEF ContextGrows
<1> QED  BY <1>4, <1>5, <1>6, <1>7

\* Of requests handled one at a time, context reaches the log in the order of the
\* numbers its sender gave it; unless the executor posts such events too.
THEOREM ContextIsInOrder ==
    ASSUME OneAtATime, "context_injected" \notin ExecutorEvents
    PROVE  Spec => []ContextInOrder
<1>1. Init => ContextInv
  BY CurrentInit DEF Init, ContextInv, ContextGrows, context_events
<1>2. ContextInv /\ [Next]_vars => ContextInv'
  <2> SUFFICES ASSUME ContextInv, [Next]_vars PROVE \A t \in TaskIds : ContextGrows(t)'
    BY CurrentStep DEF ContextInv
  <2>1. CASE UNCHANGED <<tasks, row, events, context_seq>>
    BY <2>1 DEF ContextInv, ContextGrows, context_events
  <2>2. TypeOK
    BY DEF ContextInv, CurrentInv, MeansInv, StoreInv, LineageInv
  <2> QED  BY <2>1, <2>2, OnlyCommits, CommitContext
<1>3. ContextInv => ContextInOrder
  BY DEF ContextInv, ContextGrows, ContextInOrder
<1> QED  BY <1>1, <1>2, <1>3, PTL DEF Spec

-----------------------------------------------------------------------------
(* Callbacks.                                                              *)

\* The events CallbacksCounted counts, of a log.
Due(log) == {e \in log : /\ e.event_type \in _VALID_EVENT_TYPES \ {"status"}
                         /\ \E f \in log : /\ is_terminal(f.status)
                                           /\ f.sequence <= e.sequence}

LEMMA DueAppend ==
    ASSUME NEW log \in SUBSET TaskEvent, NEW n \in TaskEvent,
           \A e \in log : e.sequence < n.sequence
    PROVE  /\ n \notin log
           /\ Due(log \cup {n}) =
                 IF /\ n.event_type \in _VALID_EVENT_TYPES \ {"status"}
                    /\ \E f \in log \cup {n} : is_terminal(f.status)
                 THEN Due(log) \cup {n} ELSE Due(log)
<1> DEFINE V == _VALID_EVENT_TYPES \ {"status"}
<1>0. n.sequence \in Nat /\ \A e \in log : e.sequence \in Nat /\ e.sequence < n.sequence
  BY DEF TaskEvent
<1>1. n \notin log
  BY <1>0
<1> HIDE DEF V
\* The new event comes after the others, and cannot make one of them due.
<1>2. \A e \in log : (\E f \in log \cup {n} : is_terminal(f.status) /\ f.sequence <= e.sequence)
                 <=> (\E f \in log : is_terminal(f.status) /\ f.sequence <= e.sequence)
  BY <1>0
<1>3. (\E f \in log \cup {n} : is_terminal(f.status) /\ f.sequence <= n.sequence)
         <=> \E f \in log \cup {n} : is_terminal(f.status)
  BY <1>0
<1>4. \A e : e \in Due(log \cup {n}) <=>
                \/ e \in Due(log)
                \/ /\ e = n /\ n.event_type \in V
                   /\ \E f \in log \cup {n} : is_terminal(f.status)
  BY <1>1, <1>2, <1>3 DEF Due, V
<1> QED  BY <1>1, <1>4 DEF V

\* An executor's event is committed, and will find the task ended.
Pending(t) ==
    \E s \in Sessions : /\ req[s] # NULL /\ req[s].phase = "committed"
                        /\ req[s].task = t /\ is_terminal(row[t].status)

\* The task has ended if and only if its log says so.
EndLogged(t) ==
    exists(t) => (is_terminal(row[t].status) <=> \E f \in events[t] : is_terminal(f.status))

Counted(t) ==
    (crashes = 0 /\ exists(t) /\ tasks[t].callback_url) =>
        /\ IsFiniteSet(Due(events[t]))
        /\ Cardinality(Due(events[t])) = IF Pending(t) THEN callbacks[t] + 1 ELSE callbacks[t]

CountInv ==
    /\ CurrentInv
    /\ \A t \in TaskIds : /\ EndLogged(t) /\ Counted(t)
                          /\ ~exists(t) => callbacks[t] = 0

LEMMA CommitEndLogged ==
    ASSUME CountInv, NEW s \in Sessions, Commit(s), NEW t \in TaskIds
    PROVE  EndLogged(t)'
<1> DEFINE q == req[s]
<1>0. /\ EndLogged(t) /\ t # NULL /\ MeansInv /\ row[t].status \in TaskStatus
      /\ ~is_terminal(NULL)
  BY NullAssumption DEF CountInv, CurrentInv, MeansInv, StoreInv, LineageInv, TypeOK, Row,
                        is_terminal, TERMINAL_STATES, TaskStatus
<1>1. /\ q.task # NULL => /\ exists(q.task) /\ Announces(q)
                          /\ row'[q.task] = Apply(row[q.task], q.update)
                          /\ events'[q.task] = events[q.task] \cup {q.event}
      /\ q.child # NULL => /\ row'[q.child] = Accepted(q.metadata)
                           /\ events'[q.child] = {created_event}
      /\ (t # q.task /\ t # q.child) =>
            tasks'[t] = tasks[t] /\ row'[t] = row[t] /\ events'[t] = events[t]
  BY <1>0, CommitCases
<1>2. CASE t = q.child
  <2>1. row'[t] = Accepted(q.metadata) /\ events'[t] = {created_event}
    BY <1>0, <1>1, <1>2
  <2>2. row'[t].status = "accepted" /\ created_event.status = "accepted"
    BY <2>1 DEF Accepted, created_event, Event
  <2> QED  BY <2>1, <2>2 DEF EndLogged, is_terminal, TERMINAL_STATES
<1>3. CASE t = q.task
  <2>1. /\ exists(t) /\ Announces(q) /\ row'[t] = Apply(row[t], q.update)
        /\ events'[t] = events[t] \cup {q.event} /\ Valid(q)
    BY <1>0, <1>1, <1>3, CommitCurrent DEF CountInv, Current
  <2>2. row'[t].status = Written(row[t].status, q.update.status)
    BY <2>1 DEF Apply
  <2>3. CASE q.update.status = Keep
    <3>1. q.event.status = NULL
      BY <2>1, <2>3, NullAssumption DEF Announces
    <3> QED  BY <1>0, <2>1, <2>2, <2>3, <3>1 DEF EndLogged, Written
  <2>4. CASE q.update.status # Keep
    <3>1. q.update.status \in TaskStatus /\ q.event.status = q.update.status
      BY <2>1, <2>4 DEF Announces
    \* What has ended stays so.
    <3>2. is_terminal(row[t].status) => is_terminal(q.update.status)
      BY <1>0, <1>3, <2>1, <2>4, <3>1
         DEF Valid, validate_transition, VALID_TRANSITIONS, is_terminal, TERMINAL_STATES,
             TaskStatus
    <3>3. row'[t].status = q.update.status
      BY <2>2, <2>4 DEF Written
    <3> QED  BY <1>0, <2>1, <3>1, <3>2, <3>3 DEF EndLogged
  <2> QED  BY <2>3, <2>4
<1>4. CASE t # q.task /\ t # q.child
  BY <1>0, <1>1, <1>4 DEF EndLogged, exists
<1> QED  BY <1>2, <1>3, <1>4

LEMMA CommitCounted ==
    ASSUME OneAtATime, ExecutorStatuses \cap TERMINAL_STATES = {},
           CountInv, NEW s \in Sessions, Commit(s), NEW t \in TaskIds
    PROVE  Counted(t)'
<1> DEFINE q == req[s]
<1>0. /\ t # NULL /\ MeansInv /\ row[t].status \in TaskStatus /\ ~is_terminal(Keep)
      /\ req \in [Sessions -> Request \cup {NULL}]
      /\ events \in [TaskIds -> SUBSET TaskEvent] /\ callbacks' = callbacks /\ crashes' = crashes
  BY NullAssumption DEF CountInv, CurrentInv, MeansInv, StoreInv, LineageInv, TypeOK, Row,
                        is_terminal, TERMINAL_STATES, TaskStatus, Commit
<1>m. MeansInv
  BY DEF CountInv, CurrentInv
<1>1. /\ q \in Request /\ q # NULL /\ Means(q) /\ q.phase # "committed"
      /\ q.task # NULL => /\ exists(q.task) /\ Announces(q) /\ q.task # q.child
                          /\ tasks'[q.task] = tasks[q.task]
                          /\ row'[q.task] = Apply(row[q.task], q.update)
                          /\ events'[q.task] = events[q.task] \cup {q.event}
      /\ q.child # NULL => ~exists(q.child) /\ events'[q.child] = {created_event}
      /\ (t # q.task /\ t # q.child) =>
            tasks'[t] = tasks[t] /\ row'[t] = row[t] /\ events'[t] = events[t]
      /\ req' = [req EXCEPT ![s] = IF q.sidecar
                                   THEN [q EXCEPT !.phase = "committed"] ELSE NULL]
  BY <1>m, CommitCases
<1>2. ~Pending(t)
  BY <1>1 DEF OneAtATime, Pending
<1>3. Pending(t)' <=> q.sidecar /\ t = q.task /\ is_terminal(row'[t].status)
  <2>1. CASE q.sidecar
    <3>1. req'[s] = [q EXCEPT !.phase = "committed"]
      BY <1>0, <1>1, <2>1
    <3>2. req'[s].phase = "committed" /\ req'[s].task = q.task /\ req'[s] # NULL
      BY <1>1, <3>1, RowAssumption DEF Request
    <3> QED  BY <2>1, <3>2 DEF OneAtATime, Pending
  <2>2. CASE ~q.sidecar
    <3>1. req'[s] = NULL
      BY <1>0, <1>1, <2>2
    <3> QED  BY <2>2, <3>1 DEF OneAtATime, Pending
  <2> QED  BY <2>1, <2>2
<1>4. CASE t = q.child
  <2>1. events'[t] = {created_event} /\ callbacks[t] = 0 /\ ~Pending(t)'
    BY <1>0, <1>1, <1>3, <1>4 DEF CountInv
  <2>2. created_event.event_type = "created"
    BY DEF created_event, Event
  <2>3. Due(events'[t]) = {}
    BY <2>1, <2>2 DEF Due, _VALID_EVENT_TYPES
  <2>4. IsFiniteSet({}) /\ Cardinality({}) = 0 /\ callbacks'[t] = 0
    BY <1>0, <2>1, FS_EmptySet
  <2> QED  BY <2>1, <2>3, <2>4 DEF Counted
<1>5. CASE t # q.child /\ t # q.task
  <2>1. Counted(t) /\ tasks'[t] = tasks[t] /\ events'[t] = events[t] /\ ~Pending(t)'
    BY <1>1, <1>3, <1>5 DEF CountInv
  <2> QED  BY <1>0, <1>2, <2>1 DEF Counted, exists
<1>6. CASE t = q.task
  <2>1. /\ exists(t) /\ tasks'[t] = tasks[t] /\ Announces(q)
        /\ row'[t] = Apply(row[t], q.update)
        /\ events'[t] = events[t] \cup {q.event}
        /\ \A e \in events[t] : e.sequence < q.event.sequence
        /\ NumbersContext(q)
    BY <1>0, <1>1, <1>6, CommitCurrent DEF CountInv, Current
  <2>2. row'[t].status = Written(row[t].status, q.update.status)
    BY <2>1 DEF Apply
  <2>3. exists(t)' /\ EndLogged(t)'
    BY <2>1, CommitEndLogged DEF exists
  <2>4. is_terminal(row'[t].status) <=> \E f \in events[t] \cup {q.event} : is_terminal(f.status)
    BY <2>1, <2>3 DEF EndLogged
  <2>5. /\ q.event \notin events[t]
        /\ Due(events'[t]) = IF /\ q.event.event_type \in _VALID_EVENT_TYPES \ {"status"}
                                /\ is_terminal(row'[t].status)
                             THEN Due(events[t]) \cup {q.event} ELSE Due(events[t])
    <3>1. q.event \in TaskEvent /\ events[t] \in SUBSET TaskEvent
      BY <1>0, <1>1 DEF Request
    <3>2. \A e \in events[t] : e.sequence < q.event.sequence
      BY <2>1
    <3> DEFINE L == events[t]
               n == q.event
    <3> HIDE DEF L, n
    <3>3. /\ n \notin L
          /\ Due(L \cup {n}) = IF /\ n.event_type \in _VALID_EVENT_TYPES \ {"status"}
                                 /\ \E f \in L \cup {n} : is_terminal(f.status)
                              THEN Due(L) \cup {n} ELSE Due(L)
      <4>1. n \in TaskEvent /\ L \in SUBSET TaskEvent /\ \A e \in L : e.sequence < n.sequence
        BY <3>1, <3>2 DEF L, n
      <4> QED  BY <4>1, DueAppend
    <3>4. events'[t] = L \cup {n}
      BY <2>1 DEF L, n
    <3> QED  BY <2>4, <3>3, <3>4 DEF L, n
  \* An event is due when it is committed if and only if it will schedule a callback.
  <2>6. (/\ q.event.event_type \in _VALID_EVENT_TYPES \ {"status"}
         /\ is_terminal(row'[t].status)) <=> Pending(t)'
    <3>1. CASE q.sidecar
      <4>1. q.event.event_type \in _VALID_EVENT_TYPES
        BY <1>1, <3>1, StoreAssumption DEF Means, TellsOutcome
      <4>2. q.event.event_type = "status" => q.update.status \in ExecutorStatuses
        <5>1. q.event.event_type = "status" => q.update.status \in TaskStatus
          BY <1>1, <2>1 DEF Means, OfItsKind, Announces
        <5>2. "status" \notin TaskStatus /\ Keep \notin TaskStatus
          BY NullAssumption DEF TaskStatus
        <5> QED  BY <1>1, <3>1, <5>1, <5>2 DEF Means, TellsOutcome
      <4>3. q.event.event_type = "status" => ~is_terminal(row'[t].status)
        <5>1. q.event.event_type = "status" => q.update.status # Keep
          BY <1>1 DEF Means, OfItsKind
        <5> QED  BY <2>2, <4>2, <5>1 DEF Written, is_terminal
      <4> QED  BY <1>3, <1>6, <3>1, <4>1, <4>3
    <3>2. CASE ~q.sidecar
      <4>1. q.event.event_type \in _VALID_EVENT_TYPES \ {"status"} =>
               q.event.event_type = "context_injected"
        BY <1>1, <3>2 DEF Means, OfItsKind, _VALID_EVENT_TYPES
      <4>2. q.event.event_type = "context_injected" =>
               q.update.status = Keep /\ row[t].status \in {"running", "paused"}
        BY <1>1, <1>6, <2>1, <3>2 DEF Means, OfItsKind, NumbersContext
      <4>3. q.event.event_type = "context_injected" => ~is_terminal(row'[t].status)
        BY <2>2, <4>2 DEF Written, is_terminal, TERMINAL_STATES
      <4> QED  BY <1>3, <3>2, <4>1, <4>3
    <3> QED  BY <3>1, <3>2
  <2> SUFFICES ASSUME crashes = 0, tasks[t].callback_url
               PROVE  /\ IsFiniteSet(Due(events'[t]))
                      /\ Cardinality(Due(events'[t])) =
                            IF Pending(t)' THEN callbacks[t] + 1 ELSE callbacks[t]
    BY <1>0, <2>1 DEF Counted
  <2>7. IsFiniteSet(Due(events[t])) /\ Cardinality(Due(events[t])) = callbacks[t]
    BY <1>2, <2>1 DEF CountInv, Counted
  <2>8. CASE Pending(t)'
    <3>1. Due(events'[t]) = Due(events[t]) \cup {q.event} /\ q.event \notin Due(events[t])
      BY <2>5, <2>6, <2>8 DEF Due
    <3> DEFINE D == Due(events[t])
    <3> HIDE DEF D
    <3>2. /\ IsFiniteSet(D \cup {q.event})
          /\ Cardinality(D \cup {q.event}) = Cardinality(D) + 1
      BY <2>7, <3>1, FS_AddElement DEF D
    <3> QED  BY <2>7, <2>8, <3>1, <3>2 DEF D
  <2>9. CASE ~Pending(t)'
    BY <2>5, <2>6, <2>7, <2>9
  <2> QED  BY <2>8, <2>9
<1> QED  BY <1>4, <1>5, <1>6

LEMMA CountStep ==
    ASSUME OneAtATime, ExecutorStatuses \cap TERMINAL_STATES = {}, CountInv, [Next]_vars
    PROVE  CountInv'
<1>0. /\ CurrentInv /\ CurrentInv' /\ MeansInv /\ TypeOK
      /\ req \in [Sessions -> Request \cup {NULL}] /\ crashes \in Nat
      /\ callbacks \in [TaskIds -> Nat]
  BY CurrentStep DEF CountInv, CurrentInv, MeansInv, StoreInv, LineageInv, TypeOK
<1> SUFFICES ASSUME NEW t \in TaskIds
             PROVE  EndLogged(t)' /\ Counted(t)' /\ (~exists(t)' => callbacks'[t] = 0)
  BY <1>0 DEF CountInv
<1> DEFINE Goal == EndLogged(t)' /\ Counted(t)' /\ (~exists(t)' => callbacks'[t] = 0)
           Quiet == tasks' = tasks /\ row' = row /\ events' = events
<1>1. EndLogged(t) /\ Counted(t) /\ (~exists(t) => callbacks[t] = 0)
  BY DEF CountInv
<1>2. ASSUME Quiet, callbacks' = callbacks, crashes' = crashes, Pending(t)' <=> Pending(t)
      PROVE  Goal
  BY <1>1, <1>2 DEF EndLogged, Counted, exists
<1>3. ASSUME NEW s \in Sessions, NEW q, Begin(s, q), Admitted(q) PROVE Goal
  <2>1. /\ Quiet /\ callbacks' = callbacks /\ crashes' = crashes
        /\ req[s] = NULL /\ req' = [req EXCEPT ![s] = q] /\ q.phase = "loaded"
    BY <1>3 DEF Begin, Admitted
  <2>2. req'[s] = q
    BY <1>0, <2>1
  <2>3. ~Pending(t) /\ ~Pending(t)'
    BY <2>1, <2>2 DEF OneAtATime, Pending
  <2> QED  BY <1>2, <2>1, <2>3
<1>4. ASSUME NEW s \in Sessions, Flush(s) PROVE Goal
  <2>1. PICK n \in Nat, q \in Request :
          /\ req' = [req EXCEPT ![s] = q]
          /\ q = [req[s] EXCEPT !.phase = "flushed",
                                !.event = [req[s].event EXCEPT !.sequence = n]]
    BY <1>0, <1>4, FlushStep
  <2>2. /\ Quiet /\ callbacks' = callbacks /\ crashes' = crashes
        /\ req[s] # NULL /\ req[s] \in Request /\ req[s].phase # "committed"
    BY <1>0, <1>4 DEF Flush
  <2>3. req'[s] = q /\ q.phase = "flushed"
    BY <1>0, <2>1, <2>2 DEF Request
  <2>4. ~Pending(t) /\ ~Pending(t)'
    BY <2>2, <2>3 DEF OneAtATime, Pending
  <2> QED  BY <1>2, <2>2, <2>4
<1>5. ASSUME NEW s \in Sessions, Commit(s) PROVE Goal
  <2>1. callbacks' = callbacks
    BY <1>5 DEF Commit
  <2>2. exists(t) => exists(t)'
    BY <1>5, CommitNumbered DEF CountInv, CurrentInv, MeansInv
  <2> QED  BY <1>1, <1>5, <2>1, <2>2, CommitEndLogged, CommitCounted
<1>6. ASSUME NEW s \in Sessions, IntegrityError(s) PROVE Goal
  <2>1. /\ Quiet /\ callbacks' = callbacks /\ crashes' = crashes
        /\ req[s].phase # "committed" /\ req' = [req EXCEPT ![s] = NULL]
    BY <1>6 DEF IntegrityError
  <2>2. req'[s] = NULL
    BY <1>0, <2>1
  <2>3. ~Pending(t) /\ ~Pending(t)'
    BY <2>1, <2>2 DEF OneAtATime, Pending
  <2> QED  BY <1>2, <2>1, <2>3
<1>7. ASSUME NEW s \in Sessions, ScheduleCallback(s) PROVE Goal
  <2>1. /\ Quiet /\ crashes' = crashes /\ req[s] # NULL /\ req[s].phase = "committed"
        /\ req' = [req EXCEPT ![s] = NULL]
    BY <1>7 DEF ScheduleCallback
  <2>2. PICK u : u = req[s].task
    OBVIOUS
  <2>3. callbacks' = IF is_terminal(row[u].status) /\ tasks[u].callback_url
                     THEN [callbacks EXCEPT ![u] = callbacks[u] + 1] ELSE callbacks
    BY <1>7, <2>2 DEF ScheduleCallback
  <2>4. req'[s] = NULL /\ ~Pending(t)'
    BY <1>0, <2>1 DEF OneAtATime, Pending
  <2>5. Pending(t) <=> t = u /\ is_terminal(row[t].status)
    BY <2>1, <2>2 DEF OneAtATime, Pending
  <2>6. u # NULL => exists(u)
    BY <2>1, <2>2 DEF CountInv, CurrentInv, MeansInv, RequestsMean
  <2>7. t # NULL /\ callbacks[t] \in Nat
    BY <1>0, NullAssumption
  <2>8. /\ (Pending(t) /\ tasks[t].callback_url) => callbacks'[t] = callbacks[t] + 1
        /\ ~Pending(t) => callbacks'[t] = callbacks[t]
    BY <1>0, <2>3, <2>5
  <2>9. ~exists(t)' => callbacks'[t] = 0
    BY <1>1, <2>1, <2>5, <2>6, <2>7, <2>8 DEF exists
  <2> QED  BY <1>1, <2>1, <2>4, <2>8, <2>9 DEF EndLogged, Counted, exists
<1>11. ASSUME NEW s \in Sessions, FlushUpdate(s) PROVE Goal
  <2>1. PICK q \in Request : /\ req' = [req EXCEPT ![s] = q]
                             /\ q = [req[s] EXCEPT !.phase = "updated"]
    BY <1>0, <1>11, UpdateStep
  <2>2. /\ Quiet /\ callbacks' = callbacks /\ crashes' = crashes
        /\ req[s] # NULL /\ req[s] \in Request /\ req[s].phase = "loaded"
    BY <1>0, <1>11 DEF FlushUpdate
  <2>3. req'[s] = q /\ q.phase = "updated"
    BY <1>0, <2>1, <2>2 DEF Request
  <2>4. ~Pending(t) /\ ~Pending(t)'
    BY <2>2, <2>3 DEF OneAtATime, Pending
  <2> QED  BY <1>2, <2>2, <2>4
<1>8. ASSUME Crash PROVE Goal
  <2>1. Quiet /\ callbacks' = callbacks /\ crashes' = crashes + 1
    BY <1>8 DEF Crash
  <2> QED  BY <1>0, <1>1, <2>1 DEF EndLogged, Counted, exists
<1>9. ASSUME Tick \/ UNCHANGED vars PROVE Goal
  <2>1. Quiet /\ callbacks' = callbacks /\ crashes' = crashes /\ req' = req
    BY <1>9 DEF Tick, vars
  <2>2. Pending(t)' <=> Pending(t)
    BY <2>1 DEF Pending
  <2> QED  BY <1>2, <2>1, <2>2
<1> HIDE DEF Goal
<1>10. Goal
  BY <1>0, <1>3, <1>4, <1>5, <1>6, <1>7, <1>8, <1>9, <1>11, Steps DEF Proceed
<1> QED  BY <1>10 DEF Goal

\* Of requests handled one at a time, the event that ends a task with a callback_url
\* schedules one callback, and each event its executor posts afterwards one more,
\* unless the server crashed or a "status" event ends tasks.
THEOREM CallbacksAreCounted ==
    ASSUME OneAtATime, ExecutorStatuses \cap TERMINAL_STATES = {}
    PROVE  Spec => []CallbacksCounted
<1>1. Init => CountInv
  BY CurrentInit DEF Init, CountInv, EndLogged, Counted, exists
<1>2. CountInv /\ [Next]_vars => CountInv'
  BY CountStep
<1>3. CountInv => CallbacksCounted
  BY DEF CountInv, Counted, Pending, Due, CallbacksCounted
<1> QED  BY <1>1, <1>2, <1>3, PTL DEF Spec

LEMMA OutcomesDue ==
    ASSUME SaysInv, NEW t \in TaskIds
    PROVE  {e \in events[t] : e.event_type \in {"completed", "failed"}}
              \subseteq Due(events[t])
<1> SUFFICES ASSUME NEW e \in events[t], e.event_type \in {"completed", "failed"}
             PROVE  e \in Due(events[t])
  OBVIOUS
<1>1. is_terminal(e.status)
  BY DEF SaysInv, LogSays, is_terminal, TERMINAL_STATES
<1>2. e.sequence <= e.sequence
  BY DEF SaysInv, MeansInv, StoreInv, LineageInv, TypeOK, TaskEvent
<1> QED  BY <1>1, <1>2 DEF Due, _VALID_EVENT_TYPES

\* Of requests handled one at a time, each outcome an executor posted for a task
\* with a callback_url has scheduled a callback, unless the server crashed.
THEOREM OutcomesAreCalledBack ==
    ASSUME OneAtATime, ExecutorStatuses \cap TERMINAL_STATES = {}
    PROVE  Spec => []OutcomesCalledBack
<1>1. Init => CountInv /\ SaysInv
  BY CurrentInit, SaysInit DEF Init, CountInv, EndLogged, Counted, exists
<1>2. CountInv /\ SaysInv /\ [Next]_vars => CountInv' /\ SaysInv'
  BY CountStep, SaysStep
<1>3. CountInv /\ SaysInv => OutcomesCalledBack
  <2> SUFFICES ASSUME CountInv, SaysInv, NEW t \in TaskIds,
                      crashes = 0, exists(t), tasks[t].callback_url,
                      \A s \in Sessions : req[s] = NULL
               PROVE  callbacks[t] >= Cardinality({e \in events[t] :
                          e.event_type \in {"completed", "failed"}})
    BY DEF OutcomesCalledBack
  <2> DEFINE D == Due(events[t])
             O == {e \in events[t] : e.event_type \in {"completed", "failed"}}
  <2>1. IsFiniteSet(D) /\ Cardinality(D) = callbacks[t]
    BY DEF CountInv, Counted, Pending
  <2>2. O \subseteq D
    BY OutcomesDue
  <2> HIDE DEF D, O
  <2>3. IsFiniteSet(O) /\ Cardinality(O) <= Cardinality(D)
    BY <2>1, <2>2, FS_Subset
  <2>4. Cardinality(O) \in Nat /\ Cardinality(D) \in Nat
    BY <2>1, <2>3, FS_CardinalityType
  <2>5. callbacks[t] >= Cardinality(O)
    BY <2>1, <2>3, <2>4
  <2> QED  BY <2>5 DEF O
<1> QED  BY <1>1, <1>2, <1>3, PTL DEF Spec

-----------------------------------------------------------------------------
(* The contract.  An event that is numbered above all others is appended   *)
(* to the history that MCTaskContract reads off the log.                   *)

Rank(S, e) == Cardinality({f \in S : f.sequence <= e.sequence})

Nth(S, i) == CHOOSE e \in S : Rank(S, e) = i

Statuses(S) == [i \in 1..Cardinality(S) |-> Nth(S, i).status]

Stated(log) == {e \in log : e.status # NULL}

\* Every rank is that of one event.
Ranked(S) ==
    /\ IsFiniteSet(S)
    /\ \A e \in S : Rank(S, e) \in 1..Cardinality(S)
    /\ \A i \in 1..Cardinality(S) : \E e \in S : Rank(S, e) = i
    /\ \A e, f \in S : Rank(S, e) = Rank(S, f) => e = f

LEMMA LoggedIsStatuses == \A t \in TaskIds : logged(t) = Statuses(Stated(events[t]))
BY DEF logged, Statuses, Nth, Rank, Stated

LEMMA NthOf ==
    ASSUME NEW S, Ranked(S), NEW e \in S, NEW i, Rank(S, e) = i
    PROVE  Nth(S, i) = e
<1>1. Nth(S, i) \in S /\ Rank(S, Nth(S, i)) = i
  BY DEF Nth
<1> QED  BY <1>1 DEF Ranked

LEMMA RankedEmpty == Ranked({})
<1>1. IsFiniteSet({}) /\ Cardinality({}) = 0
  BY FS_EmptySet
<1> QED  BY <1>1 DEF Ranked

LEMMA RankAppend ==
    ASSUME NEW S \in SUBSET TaskEvent, NEW n \in TaskEvent, Ranked(S),
           \A e \in S : e.sequence < n.sequence
    PROVE  LET T == S \cup {n}
               k == Cardinality(S)
           IN  /\ k \in Nat /\ Cardinality(T) = k + 1 /\ Ranked(T)
               /\ Rank(T, n) = k + 1
               /\ \A e \in S : Rank(T, e) = Rank(S, e)
<1> DEFINE T == S \cup {n}
           k == Cardinality(S)
<1>0. n.sequence \in Nat /\ \A e \in S : e.sequence \in Nat /\ e.sequence < n.sequence
  BY DEF TaskEvent
<1>1. n \notin S /\ IsFiniteSet(S)
  BY <1>0 DEF Ranked
<1>2. IsFiniteSet(T) /\ Cardinality(T) = k + 1 /\ k \in Nat
  BY <1>1, FS_AddElement, FS_CardinalityType
<1>3. Rank(T, n) = k + 1
  <2>1. {f \in T : f.sequence <= n.sequence} = T
    BY <1>0
  <2> QED  BY <1>2, <2>1 DEF Rank
<1>4. ASSUME NEW e \in S PROVE Rank(T, e) = Rank(S, e)
  <2>1. {f \in T : f.sequence <= e.sequence} = {f \in S : f.sequence <= e.sequence}
    BY <1>0
  <2> QED  BY <2>1 DEF Rank
<1>5. Ranked(T)
  <2> HIDE DEF T, k
  <2>0. \A e \in T : e = n \/ e \in S
    BY DEF T
  <2>1. \A e \in S : Rank(T, e) \in 1..k
    BY <1>4 DEF Ranked, k
  <2>2. \A e \in T : Rank(T, e) \in 1..Cardinality(T)
    BY <1>2, <1>3, <2>0, <2>1
  <2>3. \A i \in 1..Cardinality(T) : \E e \in T : Rank(T, e) = i
    <3> SUFFICES ASSUME NEW i \in 1..(k + 1) PROVE \E e \in T : Rank(T, e) = i
      BY <1>2
    <3>1. CASE i = k + 1
      BY <1>3, <3>1 DEF T
    <3>2. CASE i # k + 1
      <4>1. i \in 1..k
        BY <1>2, <3>2
      <4>2. PICK e \in S : Rank(S, e) = i
        BY <4>1 DEF Ranked, k
      <4> QED  BY <1>4, <4>2 DEF T
    <3> QED  BY <3>1, <3>2
  <2>4. \A e, f \in T : Rank(T, e) = Rank(T, f) => e = f
    <3>1. \A e \in S : Rank(T, e) # k + 1
      BY <1>2, <2>1
    <3>2. \A e, f \in S : Rank(T, e) = Rank(T, f) => e = f
      BY <1>4 DEF Ranked
    <3> QED  BY <1>3, <2>0, <3>1, <3>2
  <2> QED  BY <1>2, <2>2, <2>3, <2>4 DEF Ranked
<1> QED  BY <1>2, <1>3, <1>4, <1>5

\* The new event's status comes last in the history, and the others stay in place.
LEMMA StatusAppend ==
    ASSUME NEW S \in SUBSET TaskEvent, NEW n \in TaskEvent, Ranked(S),
           \A e \in S : e.sequence < n.sequence
    PROVE  /\ Statuses(S \cup {n}) = Append(Statuses(S), n.status)
           /\ Nth(S \cup {n}, Cardinality(S \cup {n})) = n
<1> DEFINE T == S \cup {n}
           k == Cardinality(S)
<1>1. /\ k \in Nat /\ Cardinality(T) = k + 1 /\ Ranked(T)
      /\ Rank(T, n) = k + 1
      /\ \A e \in S : Rank(T, e) = Rank(S, e)
  BY RankAppend
<1>2. n \in T /\ S \subseteq T
  OBVIOUS
<1> HIDE DEF T, k
<1>3. Nth(T, k + 1) = n
  BY <1>1, <1>2, NthOf
<1>4. ASSUME NEW i \in 1..k PROVE Nth(T, i) = Nth(S, i)
  <2>1. PICK e \in S : Rank(S, e) = i
    BY DEF Ranked, k
  <2>2. Nth(S, i) = e
    BY <2>1, NthOf
  <2>3. Nth(T, i) = e
    BY <1>1, <1>2, <2>1, NthOf
  <2> QED  BY <2>2, <2>3
<1>5. \A i \in 1..k : Nth(S, i).status \in TaskStatus \cup {NULL}
  <2> SUFFICES ASSUME NEW i \in 1..k PROVE Nth(S, i).status \in TaskStatus \cup {NULL}
    OBVIOUS
  <2>1. PICK e \in S : Rank(S, e) = i
    BY DEF Ranked, k
  <2> QED  BY <2>1, NthOf DEF TaskEvent
<1>6. Statuses(S) = [i \in 1..k |-> Nth(S, i).status]
  BY DEF Statuses, k
<1>7. Statuses(S) \in Seq(TaskStatus \cup {NULL}) /\ Len(Statuses(S)) = k
  BY <1>1, <1>5, <1>6
<1>8. Statuses(T) = [i \in 1..(k + 1) |-> Nth(T, i).status]
  BY <1>1 DEF Statuses
<1>9. Append(Statuses(S), n.status) =
        [i \in 1..(k + 1) |-> IF i = k + 1 THEN n.status ELSE Statuses(S)[i]]
  BY <1>1, <1>7
<1>10. \A i \in 1..(k + 1) : Nth(T, i).status =
          IF i = k + 1 THEN n.status ELSE Statuses(S)[i]
  <2> SUFFICES ASSUME NEW i \in 1..(k + 1)
               PROVE  Nth(T, i).status = IF i = k + 1 THEN n.status ELSE Statuses(S)[i]
    OBVIOUS
  <2>1. CASE i = k + 1
    BY <1>3, <2>1
  <2>2. CASE i # k + 1
    <3>1. i \in 1..k
      BY <1>1, <2>2
    <3> QED  BY <1>4, <1>6, <2>2, <3>1
  <2> QED  BY <2>1, <2>2
<1>11. Statuses(T) = Append(Statuses(S), n.status)
  BY <1>8, <1>9, <1>10
<1> QED  BY <1>1, <1>3, <1>11 DEF T

\* A task's history ends with its status.
Recorded(t) ==
    LET S == Stated(events[t]) IN
    /\ Ranked(S)
    /\ exists(t) => /\ Cardinality(S) > 0
                    /\ Nth(S, Cardinality(S)).status = row[t].status

RecordInv == CurrentInv /\ \A t \in TaskIds : Recorded(t)

LEMMA StatusesEmpty == Statuses({}) = << >>
<1>1. Cardinality({}) = 0
  BY FS_EmptySet
<1> QED  BY <1>1 DEF Statuses

LEMMA Created ==
    /\ Stated({created_event}) = {} \cup {created_event}
    /\ Ranked({} \cup {created_event})
    /\ Cardinality({} \cup {created_event}) = 1
    /\ Nth({} \cup {created_event}, 1).status = "accepted"
    /\ Statuses({} \cup {created_event}) = <<"accepted">>
<1>1. created_event.status = "accepted" /\ "accepted" # NULL
  BY NullAssumption DEF created_event, Event, TaskStatus
<1>2. created_event \in TaskEvent
  BY CreatedType
<1>3. Cardinality({}) = 0
  BY FS_EmptySet
<1>4. {} \in SUBSET TaskEvent /\ \A e \in {} : e.sequence < created_event.sequence
  OBVIOUS
<1> HIDE DEF created_event
<1>5. /\ Ranked({} \cup {created_event})
      /\ Cardinality({} \cup {created_event}) = Cardinality({}) + 1
  BY <1>2, <1>4, RankedEmpty, RankAppend
<1>6. /\ Statuses({} \cup {created_event}) = Append(Statuses({}), created_event.status)
      /\ Nth({} \cup {created_event}, Cardinality({} \cup {created_event})) = created_event
  BY <1>2, <1>4, RankedEmpty, StatusAppend
<1>7. Append(<< >>, "accepted") = <<"accepted">>
  OBVIOUS
<1>8. Stated({created_event}) = {} \cup {created_event}
  BY <1>1 DEF Stated
<1>9. Cardinality({} \cup {created_event}) = 1
  BY <1>3, <1>5
<1>10. Nth({} \cup {created_event}, 1).status = "accepted"
  BY <1>1, <1>6, <1>9
<1>11. Statuses({} \cup {created_event}) = <<"accepted">>
  BY <1>1, <1>6, <1>7, StatusesEmpty
<1> QED  BY <1>5, <1>8, <1>9, <1>10, <1>11

\* What a commit makes of a task's history.
LEMMA CommitHistory ==
    ASSUME RecordInv, NEW s \in Sessions, Commit(s), NEW t \in TaskIds
    PROVE  LET q == req[s] IN
           /\ Recorded(t)'
           /\ t = q.child => logged(t) = << >> /\ logged(t)' = <<"accepted">>
           /\ (t = q.task /\ q.update.status # Keep) =>
                 logged(t)' = Append(logged(t), q.update.status)
           /\ (t = q.task /\ q.update.status = Keep) => logged(t)' = logged(t)
           /\ (t # q.child /\ t # q.task) => logged(t)' = logged(t)
<1> DEFINE q == req[s]
           S == Stated(events[t])
<1>0. /\ Recorded(t) /\ t # NULL /\ MeansInv /\ Unborn(t) /\ events[t] \in SUBSET TaskEvent
      /\ logged(t) = Statuses(S) /\ logged(t)' = Statuses(Stated(events'[t]))
  <2>1. logged(t)' = Statuses(Stated(events'[t]))
    BY DEF logged, Statuses, Nth, Rank, Stated
  <2>2. logged(t) = Statuses(S)
    BY LoggedIsStatuses
  <2>3. Recorded(t) /\ MeansInv /\ Unborn(t)
    BY DEF RecordInv, CurrentInv
  <2>4. t # NULL /\ events[t] \in SUBSET TaskEvent
    BY <2>3, NullAssumption DEF MeansInv, StoreInv, LineageInv, TypeOK
  <2> QED  BY <2>1, <2>2, <2>3, <2>4
<1>1. /\ q \in Request /\ q # NULL
      /\ q.task # NULL => /\ exists(q.task) /\ Announces(q) /\ q.task # q.child
                          /\ tasks'[q.task] = tasks[q.task]
                          /\ row'[q.task] = Apply(row[q.task], q.update)
                          /\ events'[q.task] = events[q.task] \cup {q.event}
      /\ q.child # NULL => /\ ~exists(q.child) /\ row'[q.child] = Accepted(q.metadata)
                           /\ events'[q.child] = {created_event}
      /\ (t # q.task /\ t # q.child) =>
            tasks'[t] = tasks[t] /\ row'[t] = row[t] /\ events'[t] = events[t]
  BY <1>0, CommitCases
<1>2. CASE t = q.child
  <2>1. /\ ~exists(t) /\ row'[t] = Accepted(q.metadata) /\ events'[t] = {created_event}
        /\ t # q.task
    BY <1>0, <1>1, <1>2
  <2>2. S = {} /\ row'[t].status = "accepted"
    BY <1>0, <2>1 DEF Unborn, Stated, Accepted
  <2>3. Recorded(t)'
    BY <2>1, <2>2, Created DEF Recorded
  <2>4. logged(t) = << >> /\ logged(t)' = <<"accepted">>
    BY <1>0, <2>1, <2>2, Created, StatusesEmpty
  <2> QED  BY <1>2, <2>1, <2>3, <2>4
<1>3. CASE t = q.task
  <2>1. /\ exists(t) /\ Announces(q) /\ tasks'[t] = tasks[t] /\ t # q.child
        /\ row'[t] = Apply(row[t], q.update) /\ events'[t] = events[t] \cup {q.event}
        /\ \A e \in events[t] : e.sequence < q.event.sequence
    BY <1>0, <1>1, <1>3, CommitCurrent DEF RecordInv
  <2>2. row'[t].status = Written(row[t].status, q.update.status)
    BY <2>1 DEF Apply
  <2>3. CASE q.update.status = Keep
    <3>1. q.event.status = NULL /\ row'[t].status = row[t].status
      BY <2>1, <2>2, <2>3, NullAssumption DEF Announces, Written
    <3>2. Stated(events'[t]) = S
      BY <2>1, <3>1 DEF Stated
    <3> QED  BY <1>0, <1>3, <2>1, <2>3, <3>1, <3>2 DEF Recorded, exists
  <2>4. CASE q.update.status # Keep
    <3>1. /\ q.event.status = q.update.status /\ q.update.status \in TaskStatus
          /\ row'[t].status = q.update.status
      BY <2>1, <2>2, <2>4 DEF Announces, Written
    <3>2. Stated(events'[t]) = S \cup {q.event}
      BY <2>1, <3>1, NullAssumption DEF Stated
    <3>3. /\ S \in SUBSET TaskEvent /\ q.event \in TaskEvent /\ Ranked(S)
          /\ \A e \in S : e.sequence < q.event.sequence
      BY <1>0, <1>1, <2>1 DEF Stated, Recorded, Request
    <3> DEFINE n == q.event
               T == S \cup {n}
    <3> HIDE DEF S, n
    <3>4. Cardinality(T) = Cardinality(S) + 1 /\ Cardinality(S) \in Nat /\ Ranked(T)
      BY <3>3, RankAppend DEF n
    <3>5. Statuses(T) = Append(Statuses(S), n.status) /\ Nth(T, Cardinality(T)) = n
      BY <3>3, StatusAppend DEF n
    <3>6. Recorded(t)'
      BY <3>1, <3>2, <3>4, <3>5 DEF Recorded, n
    <3> QED  BY <1>0, <1>3, <2>1, <2>4, <3>1, <3>2, <3>5, <3>6 DEF n
  <2> QED  BY <2>3, <2>4
<1>4. CASE t # q.child /\ t # q.task
  <2>1. tasks'[t] = tasks[t] /\ row'[t] = row[t] /\ events'[t] = events[t]
    BY <1>1, <1>4
  <2> QED  BY <1>0, <1>4, <2>1 DEF Recorded, exists
<1> QED  BY <1>2, <1>3, <1>4

\* The mapping's three variables.
History == [t \in TaskIds |-> logged(t)]
Parents == [t \in TaskIds |-> IF exists(t) THEN tasks[t].parent_task_id ELSE NULL]
Depths  == [t \in TaskIds |-> IF exists(t) THEN tasks[t].lineage_depth ELSE 0]

LEMMA ContractTable ==
    ASSUME NEW from \in TaskStatus, NEW to
    PROVE  Contract!validate_transition(from, to) <=> validate_transition(from, to)
<1>1. Contract!TaskStatus = TaskStatus
  BY DEF Contract!TaskStatus, TaskStatus
<1>2. Contract!VALID_TRANSITIONS = VALID_TRANSITIONS
  BY <1>1 DEF Contract!VALID_TRANSITIONS, VALID_TRANSITIONS
<1> QED  BY <1>2 DEF Contract!validate_transition, validate_transition

\* In the mapping, an existing task has a history, and its status is the table's.
LEMMA ContractStatus ==
    ASSUME RecordInv, NEW t \in TaskIds, exists(t)
    PROVE  History[t] # << >> /\ History[t][Len(History[t])] = row[t].status
<1> DEFINE S == Stated(events[t])
<1>1. Ranked(S) /\ Cardinality(S) > 0 /\ Nth(S, Cardinality(S)).status = row[t].status
  BY DEF RecordInv, Recorded
<1>2. Cardinality(S) \in Nat
  BY <1>1, FS_CardinalityType DEF Ranked
<1>3. History[t] = Statuses(S)
  BY LoggedIsStatuses DEF History
<1> HIDE DEF S
<1>4. PICK k \in Nat \ {0} : k = Cardinality(S)
  BY <1>1, <1>2
<1>5. Statuses(S) = [i \in 1..k |-> Nth(S, i).status]
  BY <1>4 DEF Statuses
<1>6. Len(Statuses(S)) = k
  BY <1>5
<1>7. Statuses(S)[k] = row[t].status
  BY <1>1, <1>4, <1>5
<1>8. Statuses(S) # << >>
  BY <1>4, <1>6
<1> QED  BY <1>3, <1>6, <1>7, <1>8

\* What a commit makes of the three variables.
LEMMA CommitMapped ==
    ASSUME RecordInv, NEW s \in Sessions, Commit(s)
    PROVE  LET q == req[s]
               h == IF q.task = NULL \/ q.update.status = Keep THEN History
                    ELSE [History EXCEPT ![q.task] = Append(History[q.task], q.update.status)]
           IN  /\ History' = IF q.child = NULL THEN h ELSE [h EXCEPT ![q.child] = <<"accepted">>]
               /\ q.child # NULL => History[q.child] = << >>
               /\ Parents' = IF q.child = NULL THEN Parents
                             ELSE [Parents EXCEPT ![q.child] = q.insert.parent_task_id]
               /\ Depths' = IF q.child = NULL THEN Depths
                            ELSE [Depths EXCEPT ![q.child] = q.insert.lineage_depth]
<1> DEFINE q == req[s]
           h == IF q.task = NULL \/ q.update.status = Keep THEN History
                ELSE [History EXCEPT ![q.task] = Append(History[q.task], q.update.status)]
<1>0. MeansInv /\ NULL \notin TaskIds
  BY NullAssumption DEF RecordInv, CurrentInv
<1>1. /\ q.task # NULL => /\ q.task \in TaskIds /\ q.task # q.child
                          /\ tasks'[q.task] = tasks[q.task]
      /\ q.child # NULL => /\ q.child \in TaskIds /\ tasks'[q.child] = q.insert
                           /\ q.insert # NULL
      /\ \A t \in TaskIds : (t # q.task /\ t # q.child) => tasks'[t] = tasks[t]
  BY <1>0, CommitCases
<1>2. \A t \in TaskIds :
        /\ t = q.child => logged(t) = << >> /\ logged(t)' = <<"accepted">>
        /\ (t = q.task /\ q.update.status # Keep) =>
              logged(t)' = Append(logged(t), q.update.status)
        /\ (t = q.task /\ q.update.status = Keep) => logged(t)' = logged(t)
        /\ (t # q.child /\ t # q.task) => logged(t)' = logged(t)
  BY CommitHistory
<1>3. \A t \in TaskIds : History[t] = logged(t) /\ History'[t] = logged(t)'
  BY DEF History
<1>4. DOMAIN History = TaskIds /\ DOMAIN History' = TaskIds
  BY DEF History
<1>5. \A t \in TaskIds : t # q.child => tasks'[t] = tasks[t]
  BY <1>0, <1>1
<1>6. History = [t \in TaskIds |-> History[t]] /\ History' = [t \in TaskIds |-> History'[t]]
  BY DEF History
<1>7. h = [t \in TaskIds |-> IF t = q.task /\ q.update.status # Keep
                             THEN Append(History[t], q.update.status) ELSE History[t]]
  <2>1. CASE q.task = NULL
    BY <1>0, <1>6, <2>1
  <2>2. CASE q.task # NULL
    BY <1>1, <1>6, <2>2
  <2> QED  BY <2>1, <2>2
<1>8. History' = IF q.child = NULL THEN h ELSE [h EXCEPT ![q.child] = <<"accepted">>]
  <2> HIDE DEF h, q
  <2>1. CASE q.child = NULL
    BY <1>0, <1>2, <1>3, <1>6, <1>7, <2>1
  <2>2. CASE q.child # NULL
    <3>1. \A t \in TaskIds : History'[t] = IF t = q.child THEN <<"accepted">> ELSE h[t]
      BY <1>2, <1>3, <1>7
    <3>2. [h EXCEPT ![q.child] = <<"accepted">>] =
            [t \in TaskIds |-> IF t = q.child THEN <<"accepted">> ELSE h[t]]
      BY <1>1, <1>7, <2>2
    <3> QED  BY <1>6, <2>2, <3>1, <3>2
  <2> QED  BY <2>1, <2>2
<1>9. q.child # NULL => History[q.child] = << >>
  BY <1>1, <1>2, <1>3
<1>10. Parents' = IF q.child = NULL THEN Parents
                  ELSE [Parents EXCEPT ![q.child] = q.insert.parent_task_id]
  <2>1. CASE q.child = NULL
    BY <1>0, <1>5, <2>1 DEF Parents, exists
  <2>2. CASE q.child # NULL
    BY <1>1, <1>5, <2>2 DEF Parents, exists
  <2> QED  BY <2>1, <2>2
<1>11. Depths' = IF q.child = NULL THEN Depths
                 ELSE [Depths EXCEPT ![q.child] = q.insert.lineage_depth]
  <2>1. CASE q.child = NULL
    BY <1>0, <1>5, <2>1 DEF Depths, exists
  <2>2. CASE q.child # NULL
    BY <1>1, <1>5, <2>2 DEF Depths, exists
  <2> QED  BY <2>1, <2>2
<1> QED  BY <1>8, <1>9, <1>10, <1>11

\* A commit is a step of the contract, or none.
LEMMA CommitContract ==
    ASSUME ExecutorStatuses \cap SUPERSEDED = {},
           RecordInv, NEW s \in Sessions, Commit(s)
    PROVE  Contract!Next \/ UNCHANGED <<History, Parents, Depths>>
<1> DEFINE q == req[s]
           st == q.update.status
<1>0. /\ MeansInv /\ StoreInv /\ TypeOK /\ NULL \notin TaskIds /\ Keep \notin SUPERSEDED
      /\ tasks \in [TaskIds -> Task \cup {NULL}]
  BY NullAssumption
     DEF RecordInv, CurrentInv, MeansInv, StoreInv, LineageInv, TypeOK, SUPERSEDED, TaskStatus
<1>1. /\ q \in Request /\ q # NULL /\ Means(q)
      /\ q.task # NULL => q.task \in TaskIds /\ exists(q.task) /\ Announces(q)
      /\ q.child # NULL => q.child \in TaskIds /\ ~exists(q.child)
  BY <1>0, CommitCases
<1>2. /\ q.child # NULL => q.insert \in Task /\ q.insert.parent_task_id = q.task
      /\ q.child # NULL <=> \/ q.task = NULL
                            \/ ~q.sidecar /\ st \in SUPERSEDED
  BY <1>1 DEF Means, Supersedes, SUPERSEDED
<1>3. q.sidecar => st \notin SUPERSEDED
  <2>1. q.sidecar => q.event.event_type \notin SUPERSEDED
    BY <1>1, StoreAssumption DEF Means, TellsOutcome, SUPERSEDED, _VALID_EVENT_TYPES
  <2> QED  BY <1>0, <1>1, <2>1 DEF Means, TellsOutcome
<1>4. q.child # NULL => continues(q.insert)
  BY <1>1 DEF RecordInv, CurrentInv, MeansInv, StoreInv, LineageInv, InsertsSound, InsertOK
<1> DEFINE h == IF q.task = NULL \/ st = Keep THEN History
                ELSE [History EXCEPT ![q.task] = Append(History[q.task], st)]
<1>5. /\ History' = IF q.child = NULL THEN h ELSE [h EXCEPT ![q.child] = <<"accepted">>]
      /\ q.child # NULL => History[q.child] = << >>
      /\ Parents' = IF q.child = NULL THEN Parents
                    ELSE [Parents EXCEPT ![q.child] = q.insert.parent_task_id]
      /\ Depths' = IF q.child = NULL THEN Depths
                   ELSE [Depths EXCEPT ![q.child] = q.insert.lineage_depth]
  BY CommitMapped
<1>6. Contract!SUPERSEDED = SUPERSEDED /\ Contract!TaskStatus = TaskStatus
  BY DEF Contract!SUPERSEDED, SUPERSEDED, Contract!TaskStatus, TaskStatus
<1>7. CASE q.task = NULL
  <2>1. q.child # NULL /\ q.child \in TaskIds /\ q.insert.parent_task_id = NULL
    BY <1>1, <1>2, <1>7
  <2>2. q.insert.lineage_depth = 0
    BY <1>4, <2>1 DEF continues
  <2>3. Parents[q.child] = NULL /\ Depths[q.child] = 0
    BY <1>1, <2>1 DEF Parents, Depths
  <2>4. Parents' = Parents /\ Depths' = Depths
    BY <1>5, <2>1, <2>2, <2>3 DEF Parents, Depths
  <2>5. History' = [History EXCEPT ![q.child] = <<"accepted">>] /\ History[q.child] = << >>
    BY <1>5, <1>7, <2>1
  <2>6. Contract!Dispatch(q.child)
    BY <2>4, <2>5 DEF Contract!Dispatch, History, Parents, Depths
  <2> QED  BY <2>1, <2>6 DEF Contract!Next
<1>8. ASSUME q.task # NULL, st # Keep
      PROVE  /\ q.task \in TaskIds /\ st \in TaskStatus
             /\ History[q.task] # << >>
             /\ Contract!validate_transition(Contract!status(q.task), st)
  <2>1. q.task \in TaskIds /\ exists(q.task) /\ st \in TaskStatus
    BY <1>1, <1>8 DEF Announces
  <2>2. row[q.task].status \in TaskStatus
    BY <1>0, <2>1 DEF TypeOK, Row
  <2>3. validate_transition(row[q.task].status, st)
    BY <1>8, CommitCurrent DEF RecordInv, Current, Valid
  <2>4. History[q.task] # << >> /\ History[q.task][Len(History[q.task])] = row[q.task].status
    BY <2>1, ContractStatus
  <2>5. Contract!status(q.task) = row[q.task].status
    BY <2>4 DEF Contract!status, History
  <2> QED  BY <2>1, <2>2, <2>3, <2>4, <2>5, ContractTable
<1>9. CASE q.task # NULL /\ q.child # NULL
  <2>1. /\ st \in SUPERSEDED /\ st # Keep /\ q.child \in TaskIds /\ q.task \in TaskIds
        /\ q.insert.parent_task_id = q.task /\ exists(q.task)
    BY <1>0, <1>1, <1>2, <1>9
  <2>2. /\ q.insert.lineage_depth = tasks[q.task].lineage_depth + 1
        /\ q.insert.lineage_depth <= fleet_lineage_max_depth
    BY <1>4, <1>9, <2>1 DEF continues
  <2>3. tasks[q.task].lineage_depth \in Nat
    BY <1>0, <2>1 DEF exists, Task
  <2>4. Depths[q.task] = tasks[q.task].lineage_depth
    BY <2>1 DEF Depths
  <2>5. Depths[q.task] < fleet_lineage_max_depth
    BY <2>2, <2>3, <2>4, StoreAssumption
  <2>6. /\ History' = [History EXCEPT ![q.task] = Append(History[q.task], st),
                                      ![q.child] = <<"accepted">>]
        /\ Parents' = [Parents EXCEPT ![q.child] = q.task]
        /\ Depths' = [Depths EXCEPT ![q.child] = Depths[q.task] + 1]
    BY <1>5, <1>9, <2>1, <2>2, <2>4
  <2>7. PICK t \in TaskIds, new_status \in Contract!TaskStatus, child \in TaskIds :
          t = q.task /\ new_status = st /\ child = q.child
    BY <1>6, <1>8, <1>9, <2>1
  <2>8. Contract!validate_transition(Contract!status(t), new_status)
    BY <1>8, <1>9, <2>1, <2>7 DEF Contract!validate_transition, Contract!status, History
  <2>9. Contract!Supersede(t, new_status, child)
    BY <1>5, <1>6, <1>8, <1>9, <2>1, <2>5, <2>6, <2>7, <2>8
       DEF Contract!Supersede, History, Parents, Depths
  <2> QED  BY <2>9 DEF Contract!Next
<1>10. CASE q.task # NULL /\ q.child = NULL /\ st # Keep
  <2>1. st \notin SUPERSEDED
    BY <1>2, <1>3, <1>10
  <2>2. /\ History' = [History EXCEPT ![q.task] = Append(History[q.task], st)]
        /\ Parents' = Parents /\ Depths' = Depths
    BY <1>5, <1>10
  <2>3. Contract!Move(q.task, st)
    BY <1>6, <1>8, <1>10, <2>1, <2>2 DEF Contract!Move, History, Parents, Depths
  <2> QED  BY <1>6, <1>8, <1>10, <2>3 DEF Contract!Next
<1>11. CASE q.task # NULL /\ q.child = NULL /\ st = Keep
  BY <1>5, <1>11
<1> QED  BY <1>7, <1>9, <1>10, <1>11

\* Serving one request at a time, the task tables implement the contract: what the
\* handlers write between load and commit is one step of it or none.  (The
\* executors post neither "retasked" nor "redirected".)
THEOREM StoreImplementsContract ==
    ASSUME OneAtATime, ExecutorStatuses \cap SUPERSEDED = {}
    PROVE  Spec => ImplementsContract
<1>1. Init => RecordInv /\ Contract!Init
  <2> SUFFICES ASSUME Init PROVE RecordInv /\ Contract!Init
    OBVIOUS
  <2>1. \A t \in TaskIds : ~exists(t) /\ Stated(events[t]) = {}
    BY DEF Init, exists, Stated
  <2>2. RecordInv
    BY <2>1, RankedEmpty, CurrentInit DEF RecordInv, Recorded
  <2>3. \A t \in TaskIds : logged(t) = << >>
    BY <2>1, LoggedIsStatuses, StatusesEmpty
  <2>4. Contract!Init
    BY <2>1, <2>3 DEF Contract!Init
  <2> QED  BY <2>2, <2>4
<1>2. RecordInv /\ [Next]_vars => RecordInv' /\ [Contract!Next]_(Contract!cvars)
  <2> SUFFICES ASSUME RecordInv, [Next]_vars
               PROVE  /\ \A t \in TaskIds : Recorded(t)'
                      /\ Contract!Next \/ UNCHANGED <<History, Parents, Depths>>
    BY CurrentStep DEF RecordInv, Contract!cvars, History, Parents, Depths
  <2>1. CASE UNCHANGED <<tasks, row, events, context_seq>>
    <3>1. \A t \in TaskIds : logged(t)' = logged(t)
      BY <2>1 DEF logged
    <3>2. UNCHANGED <<History, Parents, Depths>>
      BY <2>1, <3>1 DEF History, Parents, Depths, exists
    <3>3. \A t \in TaskIds : Recorded(t)'
      BY <2>1 DEF RecordInv, Recorded, exists
    <3> QED  BY <3>2, <3>3
  <2>2. TypeOK
    BY DEF RecordInv, CurrentInv, MeansInv, StoreInv, LineageInv
  <2> QED  BY <2>1, <2>2, OnlyCommits, CommitHistory, CommitContract
<1> QED  BY <1>1, <1>2, PTL DEF Spec, ImplementsContract, Contract!Spec

-----------------------------------------------------------------------------
(* The history read off the log is a run of the state machine.             *)

IsRun(h) ==
    /\ h \in Seq(TaskStatus) /\ Len(h) > 0 /\ h[1] = "accepted"
    /\ \A i \in 1..(Len(h) - 1) : validate_transition(h[i], h[i + 1])

\* Only the last status is terminal, or the last but one of a task that was retasked.
EndsOnce(h) ==
    \A i \in 1..(Len(h) - 1) :
        is_terminal(h[i]) => i = Len(h) - 1 /\ h[Len(h)] = "retasked"

HistoriesRun ==
    \A t \in TaskIds :
        exists(t) => /\ IsRun(logged(t)) /\ EndsOnce(logged(t))
                     /\ logged(t)[Len(logged(t))] = row[t].status

RunInv == RecordInv /\ \A t \in TaskIds : exists(t) => IsRun(logged(t))

LEMMA RunBegins == IsRun(<<"accepted">>)
BY DEF IsRun, TaskStatus

LEMMA RunGoesOn ==
    ASSUME NEW h, IsRun(h), NEW st \in TaskStatus, validate_transition(h[Len(h)], st)
    PROVE  IsRun(Append(h, st))
<1>1. PICK n \in Nat \ {0} : n = Len(h)
  BY DEF IsRun
<1>2. h \in Seq(TaskStatus) /\ h[1] = "accepted"
      /\ \A i \in 1..(n - 1) : validate_transition(h[i], h[i + 1])
  BY <1>1 DEF IsRun
<1> DEFINE g == Append(h, st)
<1>3. /\ g \in Seq(TaskStatus) /\ Len(g) = n + 1 /\ g[n + 1] = st
      /\ \A i \in 1..n : g[i] = h[i]
  BY <1>1, <1>2
<1> HIDE DEF g
<1>4. ASSUME NEW i \in 1..n PROVE validate_transition(g[i], g[i + 1])
  <2>1. CASE i = n
    BY <1>1, <1>3, <2>1
  <2>2. CASE i # n
    <3>1. i \in 1..(n - 1) /\ i + 1 \in 1..n
      BY <2>2
    <3> QED  BY <1>2, <1>3, <3>1
  <2> QED  BY <2>1, <2>2
<1>5. g[1] = "accepted"
  BY <1>2, <1>3
<1>6. IsRun(g)
  BY <1>3, <1>4, <1>5 DEF IsRun
<1> QED  BY <1>6 DEF g

\* The table leads from a terminal status to "retasked" only, and from there nowhere.
LEMMA RunEnds ==
    ASSUME NEW h, IsRun(h)
    PROVE  EndsOnce(h)
<1> SUFFICES ASSUME NEW i \in 1..(Len(h) - 1), is_terminal(h[i])
             PROVE  i = Len(h) - 1 /\ h[Len(h)] = "retasked"
  BY DEF EndsOnce
<1>1. PICK n \in Nat \ {0} : n = Len(h)
  BY DEF IsRun
<1>2. \A j \in 1..(n - 1) : validate_transition(h[j], h[j + 1])
  BY <1>1 DEF IsRun
<1>3. i \in 1..(n - 1) /\ \A j \in 1..n : h[j] \in TaskStatus
  BY <1>1 DEF IsRun
<1>4. i + 1 \in 1..n /\ h[i] \in TaskStatus /\ h[i + 1] \in TaskStatus
  BY <1>3
<1>5. h[i + 1] = "retasked"
  BY <1>2, <1>3, <1>4 DEF validate_transition, VALID_TRANSITIONS, TaskStatus, is_terminal,
                          TERMINAL_STATES
<1>6. CASE i + 1 = n
  BY <1>1, <1>5, <1>6
<1>7. CASE i + 1 # n
  <2>1. i + 1 \in 1..(n - 1)
    BY <1>3, <1>7
  <2>2. validate_transition("retasked", h[i + 1 + 1])
    BY <1>2, <1>5, <2>1
  <2>3. FALSE
    BY <2>2 DEF validate_transition, VALID_TRANSITIONS, TaskStatus
  <2> QED  BY <2>3
<1> QED  BY <1>6, <1>7

LEMMA RecordStep ==
    ASSUME OneAtATime, RecordInv, [Next]_vars
    PROVE  RecordInv'
<1>1. CASE UNCHANGED <<tasks, row, events, context_seq>>
  BY <1>1, CurrentStep DEF RecordInv, Recorded, exists
<1>2. TypeOK
  BY DEF RecordInv, CurrentInv, MeansInv, StoreInv, LineageInv
<1> QED  BY <1>1, <1>2, OnlyCommits, CommitHistory, CurrentStep DEF RecordInv

LEMMA CommitRun ==
    ASSUME RunInv, NEW s \in Sessions, Commit(s), NEW t \in TaskIds, exists(t)'
    PROVE  IsRun(logged(t)')
<1> DEFINE q == req[s]
           st == q.update.status
<1>0. RecordInv /\ MeansInv /\ TypeOK /\ t # NULL
  BY NullAssumption DEF RunInv, RecordInv, CurrentInv, MeansInv, StoreInv, LineageInv
<1>1. /\ t = q.child => logged(t)' = <<"accepted">>
      /\ (t = q.task /\ st # Keep) => logged(t)' = Append(logged(t), st)
      /\ (t = q.task /\ st = Keep) => logged(t)' = logged(t)
      /\ (t # q.child /\ t # q.task) => logged(t)' = logged(t)
  BY <1>0, CommitHistory
<1>2. /\ q.task # NULL => q.task \in TaskIds /\ exists(q.task) /\ Announces(q)
      /\ (t # q.task /\ t # q.child) => tasks'[t] = tasks[t]
  BY <1>0, CommitCases
<1>3. CASE t = q.child
  BY <1>1, <1>3, RunBegins
<1>4. CASE t # q.child /\ (t # q.task \/ st = Keep)
  <2>1. exists(t)
    BY <1>0, <1>2, <1>4 DEF exists
  <2> QED  BY <1>1, <1>4, <2>1 DEF RunInv
<1>5. CASE t # q.child /\ t = q.task /\ st # Keep
  <2>1. exists(t) /\ st \in TaskStatus /\ logged(t)' = Append(logged(t), st)
    BY <1>0, <1>1, <1>2, <1>5 DEF Announces
  <2>2. validate_transition(row[t].status, st)
    BY <1>0, <1>5, CommitCurrent DEF RecordInv, Current, Valid
  <2>3. logged(t)[Len(logged(t))] = row[t].status
    BY <1>0, <2>1, ContractStatus DEF History
  <2> QED  BY <2>1, <2>2, <2>3, RunGoesOn DEF RunInv
<1> QED  BY <1>3, <1>4, <1>5

\* Of requests handled one at a time, the statuses in a task's log are, in the order
\* of their numbers, a run of the state machine from "accepted" to the status the
\* table has: a reader of the log alone (the event stream, get_task_events) can
\* replay the task, and sees it end once, or end and be retasked.
THEOREM HistoriesAreRuns ==
    ASSUME OneAtATime
    PROVE  Spec => []HistoriesRun
<1>1. Init => RunInv
  <2> SUFFICES ASSUME Init PROVE RunInv
    OBVIOUS
  <2>1. \A t \in TaskIds : ~exists(t) /\ Stated(events[t]) = {}
    BY DEF Init, exists, Stated
  <2> QED  BY <2>1, RankedEmpty, CurrentInit DEF RunInv, RecordInv, Recorded
<1>2. RunInv /\ [Next]_vars => RunInv'
  <2> SUFFICES ASSUME RunInv, [Next]_vars, NEW t \in TaskIds, exists(t)'
               PROVE  IsRun(logged(t)')
    BY RecordStep DEF RunInv
  <2>1. CASE UNCHANGED <<tasks, row, events, context_seq>>
    <3>1. logged(t)' = logged(t) /\ exists(t)
      BY <2>1 DEF logged, exists
    <3> QED  BY <3>1 DEF RunInv
  <2>2. TypeOK
    BY DEF RunInv, RecordInv, CurrentInv, MeansInv, StoreInv, LineageInv
  <2> QED  BY <2>1, <2>2, OnlyCommits, CommitRun
<1>3. RunInv => HistoriesRun
  <2> SUFFICES ASSUME RunInv, NEW t \in TaskIds, exists(t)
               PROVE  /\ IsRun(logged(t)) /\ EndsOnce(logged(t))
                      /\ logged(t)[Len(logged(t))] = row[t].status
    BY DEF HistoriesRun
  <2>1. IsRun(logged(t)) /\ RecordInv
    BY DEF RunInv
  <2>2. EndsOnce(logged(t))
    BY <2>1, RunEnds
  <2>3. logged(t)[Len(logged(t))] = row[t].status
    BY <2>1, ContractStatus DEF History
  <2> QED  BY <2>1, <2>2, <2>3
<1> QED  BY <1>1, <1>2, <1>3, PTL DEF Spec
=============================================================================
