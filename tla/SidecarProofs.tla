---------------------------- MODULE SidecarProofs ----------------------------
(***************************************************************************)
(* Sidecar: the poller's slots, the log the server keeps of a task and     *)
(* what acknowledgements can do to it, for every value of the constants.   *)
(***************************************************************************)
EXTENDS Sidecar, TLAPS, FiniteSetTheorems, SequenceTheorems

Event == [sequence : Nat, kind : Kinds, by : {"server", "executor", "ack"}]

\* The parts of the type invariant, by the component that writes them.
ServerTyped ==
    /\ status \in [Tasks -> TaskStatus]
    /\ log \in [Tasks -> Seq(Event)]
    /\ recent \in [Tasks -> BOOLEAN]
    /\ \A t \in Tasks : log[t] # <<>>

JobsTyped ==
    /\ polled \in SUBSET Tasks
    /\ _in_flight \in SUBSET Tasks
    /\ job \in [Tasks -> Job]
    /\ runs \in [Tasks -> Nat]

SignalsTyped ==
    /\ signal_state \in [Tasks -> SignalEntry \cup {NULL}]
    /\ _processed_signals \in SUBSET Signal
    /\ signals \in SUBSET Signal
    /\ ack \in Ack \cup {NULL}

\* A task is in flight exactly while its coroutine lives and it is registered.
Registered ==
    \A t \in Tasks : /\ t \in _in_flight <=> job[t].pc # "none"
                     /\ t \in _in_flight <=> signal_state[t] # NULL

\* Typing needs Registered: a coroutine reads the flags of its own entry.
TypeInv == /\ ServerTyped /\ JobsTyped /\ SignalsTyped /\ Registered
           /\ faults \in Nat /\ crashes \in Nat

LEMMA TypeInvIsTypeOK == TypeInv => TypeOK
BY DEF TypeInv, TypeOK, ServerTyped, JobsTyped, SignalsTyped, Event

LEMMA TypeInit == Init => TypeInv
<1> SUFFICES ASSUME Init PROVE TypeInv
  OBVIOUS
<1>1. ServerTyped
  <2> DEFINE e == [sequence |-> 1, kind |-> "created", by |-> "server"]
  <2>1. e \in Event
    BY DEF Event, Kinds
  <2>2. <<e>> \in Seq(Event) /\ <<e>> # <<>>
    BY <2>1
  <2> QED  BY <2>2 DEF Init, ServerTyped, TaskStatus
<1>2. JobsTyped
  BY DEF Init, JobsTyped, NoJob, Job, Kinds, TaskStatus
<1>3. SignalsTyped
  BY DEF Init, SignalsTyped
<1>4. Registered
  BY DEF Init, Registered, NoJob
<1> QED  BY <1>1, <1>2, <1>3, <1>4 DEF TypeInv, Init

-----------------------------------------------------------------------------
(* The server: a request leaves the log alone or appends one event to it.  *)

LEMMA LastEvent ==
    ASSUME ServerTyped, NEW t \in Tasks
    PROVE  /\ Len(log[t]) \in Nat \ {0}
           /\ log[t][Len(log[t])] \in Event
           /\ last_sequence(t) \in Nat
<1>1. log[t] \in Seq(Event) /\ log[t] # <<>>
  BY DEF ServerTyped
<1>2. Len(log[t]) \in Nat \ {0}
  BY <1>1, EmptySeq
<1>3. log[t][Len(log[t])] \in Event
  BY <1>1, <1>2
<1> QED  BY <1>2, <1>3 DEF last_sequence, Event

LEMMA RecordTyped ==
    ASSUME ServerTyped, NEW t \in Tasks, NEW sequence \in Nat, NEW kind \in Kinds,
           NEW by \in {"server", "executor", "ack"}, NEW new_status \in TaskStatus,
           record(t, sequence, kind, by, new_status)
    PROVE  ServerTyped'
<1> DEFINE e == [sequence |-> sequence, kind |-> kind, by |-> by]
<1>1. e \in Event
  BY DEF Event
<1>2. log[t] \in Seq(Event)
  BY DEF ServerTyped
<1>3. Append(log[t], e) \in Seq(Event) /\ Append(log[t], e) # <<>>
  BY <1>1, <1>2, AppendProperties
<1>4. log' = [log EXCEPT ![t] = Append(log[t], e)]
  BY DEF record
<1> HIDE DEF e
<1>5. log' \in [Tasks -> Seq(Event)] /\ \A u \in Tasks : log'[u] # <<>>
  BY <1>3, <1>4 DEF ServerTyped
<1>6. status' \in [Tasks -> TaskStatus]
  BY DEF record, ServerTyped
<1>7. recent' \in [Tasks -> BOOLEAN]
  <2> PICK b \in BOOLEAN : b = (recent[t] \/ is_terminal(new_status))
    OBVIOUS
  <2>1. recent' = [recent EXCEPT ![t] = b]
    BY DEF record
  <2> QED  BY <2>1 DEF ServerTyped
<1> QED  BY <1>5, <1>6, <1>7 DEF ServerTyped

LEMMA ProcessTyped ==
    ASSUME ServerTyped, NEW t \in Tasks, NEW sequence \in Nat, NEW kind \in Kinds,
           NEW by \in {"server", "executor", "ack"},
           \/ process_sidecar_event(t, sequence, kind, by)
           \/ UNCHANGED server
    PROVE  ServerTyped'
<1>1. CASE UNCHANGED server
  BY <1>1 DEF server, ServerTyped
<1>2. CASE record(t, sequence, kind, by, IF kind \in TaskStatus THEN kind ELSE status[t])
  <2>1. (IF kind \in TaskStatus THEN kind ELSE status[t]) \in TaskStatus
    BY DEF ServerTyped
  <2> QED  BY <1>2, <2>1, RecordTyped
<1> QED  BY <1>1, <1>2 DEF process_sidecar_event

-----------------------------------------------------------------------------
(* The coroutines: a step of one that lives leaves it alive.               *)

\* A step that moves the coroutine of t, alive, and registers nothing.
Moves(t, j) ==
    /\ j \in Job /\ j.pc # "none"
    /\ job' = [job EXCEPT ![t] = j]

\* Where a living coroutine may be.
Job_pcs == {"post", "spawn", "stdin", "check", "waiting", "read", "exit", "killed", "end"}

LEMMA GotoMoves ==
    ASSUME JobsTyped, NEW t \in Tasks,
           NEW pc \in Job_pcs, Goto(t, pc)
    PROVE  Moves(t, [job[t] EXCEPT !.pc = pc])
<1>1. job[t] \in Job
  BY DEF JobsTyped
<1>2. [job[t] EXCEPT !.pc = pc] \in Job
  BY <1>1 DEF Job, Job_pcs
<1>3. [job[t] EXCEPT !.pc = pc].pc = pc /\ pc # "none"
  BY <1>1 DEF Job, Job_pcs
<1> QED  BY <1>2, <1>3 DEF Goto, Moves

LEMMA YieldMoves ==
    ASSUME JobsTyped, NEW t \in Tasks, NEW kind \in Kinds,
           NEW then \in {"spawn", "check", "context", "end"}, Yield(t, kind, then)
    PROVE  Moves(t, [job[t] EXCEPT !.pc = "post", !.sequence = job[t].sequence + 1,
                                   !.kind = kind, !.attempt = 0, !.then = then])
<1> DEFINE j == [job[t] EXCEPT !.pc = "post", !.sequence = job[t].sequence + 1,
                               !.kind = kind, !.attempt = 0, !.then = then]
<1>1. job[t] \in Job
  BY DEF JobsTyped
<1>2. PICK n \in Nat : n = job[t].sequence + 1
  BY <1>1 DEF Job
<1>3. j \in Job
  BY <1>1, <1>2 DEF Job
<1>4. j.pc = "post"
  BY <1>1 DEF Job
<1>5. job' = [job EXCEPT ![t] = j]
  BY DEF Yield
<1> QED  BY <1>3, <1>4, <1>5 DEF Moves

\* The next context of those popped is posted.
NextContext(t) ==
    [job[t] EXCEPT !.pc = "post", !.sequence = job[t].sequence + 1,
                   !.attempt = 0, !.contexts = job[t].contexts - 1]

LEMMA ResumeMoves ==
    ASSUME JobsTyped, NEW t \in Tasks, Resume(t)
    PROVE  \/ /\ job[t].then = "context" /\ job[t].contexts > 0
              /\ Moves(t, NextContext(t))
           \/ /\ job[t].then = "context"
              /\ Moves(t, [job[t] EXCEPT !.pc = "read"])
           \/ /\ job[t].then # "context"
              /\ Moves(t, [job[t] EXCEPT !.pc = job[t].then])
<1>1. job[t] \in Job
  BY DEF JobsTyped
<1>2. CASE job[t].then = "context" /\ job[t].contexts > 0
  <2>1. job[t].contexts - 1 \in Nat
    BY <1>1, <1>2 DEF Job
  <2>a. PICK n, c \in Nat : n = job[t].sequence + 1 /\ c = job[t].contexts - 1
    BY <1>1, <2>1 DEF Job
  <2>b. NextContext(t) \in Job
    BY <1>1, <2>a DEF Job, NextContext
  <2>c. NextContext(t).pc = "post"
    BY <1>1 DEF Job, NextContext
  <2>2. NextContext(t) \in Job /\ NextContext(t).pc = "post"
    BY <2>b, <2>c
  <2>3. job' = [job EXCEPT ![t] = NextContext(t)]
    BY <1>2 DEF Resume, NextContext
  <2> QED  BY <1>2, <2>2, <2>3 DEF Moves
<1>3. CASE job[t].then = "context" /\ ~(job[t].contexts > 0)
  BY <1>3, GotoMoves DEF Resume, Job_pcs
<1>4. CASE job[t].then # "context"
  <2>1. job[t].then \in {"spawn", "check", "end"}
    BY <1>1, <1>4 DEF Job
  <2>2. Goto(t, job[t].then)
    BY <1>4 DEF Resume
  <2> QED  BY <1>4, <2>1, <2>2, GotoMoves DEF Job_pcs
<1> QED  BY <1>2, <1>3, <1>4

\* The contexts popped are posted, one after another.
FirstContext(t) ==
    [job[t] EXCEPT !.pc = "post", !.sequence = job[t].sequence + 1,
                   !.kind = "context_injected", !.attempt = 0, !.then = "context",
                   !.contexts = signal_state[t].queue - 1]

LEMMA ProceedMoves ==
    ASSUME JobsTyped, SignalsTyped, NEW t \in Tasks, signal_state[t] # NULL, Proceed(t)
    PROVE  /\ \/ Moves(t, [job[t] EXCEPT !.pc = "read"])
              \/ Moves(t, FirstContext(t))
           /\ [signal_state[t] EXCEPT !.queue = 0] \in SignalEntry
           /\ signal_state' = [signal_state EXCEPT ![t] = [signal_state[t] EXCEPT !.queue = 0]]
<1>1. job[t] \in Job /\ signal_state[t] \in SignalEntry
  BY DEF JobsTyped, SignalsTyped
<1>2. [signal_state[t] EXCEPT !.queue = 0] \in SignalEntry
  BY <1>1 DEF SignalEntry
<1>3. signal_state' = [signal_state EXCEPT ![t] = [signal_state[t] EXCEPT !.queue = 0]]
  BY DEF Proceed
<1>4. CASE signal_state[t].queue = 0
  BY <1>2, <1>3, <1>4, GotoMoves DEF Proceed, Job_pcs
<1>5. CASE signal_state[t].queue # 0
  <2>1. signal_state[t].queue - 1 \in Nat
    BY <1>1, <1>5 DEF SignalEntry
  <2>a. PICK n, c \in Nat : n = job[t].sequence + 1 /\ c = signal_state[t].queue - 1
    BY <1>1, <2>1 DEF Job
  <2>b. "context_injected" \in Kinds
    BY DEF Kinds
  <2>c. FirstContext(t) \in Job
    BY <1>1, <2>a, <2>b DEF Job, FirstContext
  <2>d. FirstContext(t).pc = "post"
    BY <1>1 DEF Job, FirstContext
  <2>2. FirstContext(t) \in Job /\ FirstContext(t).pc = "post"
    BY <2>c, <2>d
  <2>3. job' = [job EXCEPT ![t] = FirstContext(t)]
    BY <1>5 DEF Proceed, FirstContext
  <2> QED  BY <1>2, <1>3, <2>2, <2>3 DEF Moves
<1> QED  BY <1>4, <1>5

LEMMA MovesTyped ==
    ASSUME JobsTyped, NEW t \in Tasks, NEW j, Moves(t, j),
           UNCHANGED <<polled, _in_flight, runs>>
    PROVE  JobsTyped'
BY DEF JobsTyped, Moves

LEMMA MovesRegistered ==
    ASSUME JobsTyped, SignalsTyped, Registered, NEW t \in Tasks, job[t].pc # "none",
           NEW j, Moves(t, j),
           UNCHANGED _in_flight,
           \/ UNCHANGED signal_state
           \/ \E e \in SignalEntry : signal_state' = [signal_state EXCEPT ![t] = e]
    PROVE  Registered'
<1> SUFFICES ASSUME NEW u \in Tasks
             PROVE  /\ u \in _in_flight' <=> job'[u].pc # "none"
                    /\ u \in _in_flight' <=> signal_state'[u] # NULL
  BY DEF Registered
<1>1. job'[u].pc # "none" <=> job[u].pc # "none"
  BY DEF Moves, JobsTyped
<1>2. signal_state'[u] # NULL <=> signal_state[u] # NULL
  BY NullAssumption DEF SignalsTyped, Registered
<1> QED  BY <1>1, <1>2 DEF Registered

\* The POST of an event that got no answer below 500 is tried again.
LEMMA AttemptMoves ==
    ASSUME JobsTyped, NEW t \in Tasks, job[t].pc # "none",
           job' = [job EXCEPT ![t].attempt = @ + 1]
    PROVE  Moves(t, [job[t] EXCEPT !.attempt = job[t].attempt + 1])
<1>1. job[t] \in Job
  BY DEF JobsTyped
<1>2. PICK n \in Nat : n = job[t].attempt + 1
  BY <1>1 DEF Job
<1>3. [job[t] EXCEPT !.attempt = n] \in Job
  BY <1>1 DEF Job
<1>4. [job[t] EXCEPT !.attempt = n].pc # "none"
  BY <1>1 DEF Job
<1>5. job' = [job EXCEPT ![t] = [job[t] EXCEPT !.attempt = n]]
  BY <1>2
<1> QED  BY <1>2, <1>3, <1>4, <1>5 DEF Moves

\* What a step of the coroutine of t does to it, whatever the server does.
CoroutineStep(t) ==
    /\ job[t].pc # "none"
    /\ \E j \in Job : Moves(t, j)
    /\ \/ UNCHANGED signal_state
       \/ \E e \in SignalEntry : signal_state' = [signal_state EXCEPT ![t] = e]
    /\ UNCHANGED <<polled, _in_flight, runs, _processed_signals, signals, ack, crashes>>

Coroutine(t) == \/ _post_event(t) \/ _post_event_retry(t) \/ _post_event_raises(t)
                \/ spawn(t) \/ check(t) \/ wait_if_paused(t)
                \/ Handler(t) \/ timeout(t)

LEMMA LineKinds ==
    /\ \A kind \in Openings \cup Lines : kind \in Kinds
    /\ "failed" \in Kinds /\ "cancelled" \in Kinds
BY SidecarAssumption DEF Kinds, TaskStatus

\* What a coroutine does when its handler has done something, or nothing for too
\* long.
HandlerMove(t) ==
    \/ \E kind \in Openings \cup Lines :
          /\ job[t].sequence # 1 => kind \in Lines
          /\ job[t].pc = "read"
          /\ Yield(t, kind, "check")
    \/ Goto(t, "check") /\ (job[t].pc = "read" \/ job[t].pc = "stdin")
    \/ \E pc \in {"exit", "killed", "end"} : Goto(t, pc)
    \/ Yield(t, "failed", "end")

LEMMA HandlerMoves ==
    ASSUME NEW t \in Tasks, Handler(t) \/ timeout(t)
    PROVE  HandlerMove(t) /\ UNCHANGED <<server, signal_state>>
<1>1. CASE feed_stdin(t)
  BY <1>1 DEF feed_stdin, HandlerMove, signalling
<1>2. CASE readline(t)
  <2>1. CASE job[t].sequence < MaxSequence /\
             \E kind \in IF job[t].sequence = 1 THEN Openings ELSE Lines :
                Yield(t, kind, "check")
    BY <1>2, <2>1 DEF readline, HandlerMove, signalling
  <2>2. CASE Goto(t, "check") \/ Goto(t, "exit")
    BY <1>2, <2>2 DEF readline, HandlerMove, signalling
  <2> QED  BY <1>2, <2>1, <2>2 DEF readline
<1>3. CASE process_exit(t)
  BY <1>3 DEF process_exit, HandlerMove, signalling
<1>4. CASE kill_done(t)
  BY <1>4 DEF kill_done, HandlerMove, signalling
<1>5. CASE timeout(t)
  BY <1>5 DEF timeout, HandlerMove, signalling
<1> QED  BY <1>1, <1>2, <1>3, <1>4, <1>5 DEF Handler

LEMMA CoroutineSteps ==
    ASSUME TypeInv, NEW t \in Tasks, Coroutine(t)
    PROVE  CoroutineStep(t)
<1> USE DEF TypeInv
<1>1. \A j : Moves(t, j) => \E i \in Job : Moves(t, i)
  BY DEF Moves
<1>2. CASE _post_event(t)
  BY <1>1, <1>2, ResumeMoves DEF _post_event, CoroutineStep, signalling, counters
<1>3. CASE _post_event_retry(t)
  <2>1. CASE job[t].attempt < _MAX_RETRIES
    BY <1>1, <1>3, <2>1, AttemptMoves DEF _post_event_retry, CoroutineStep, signalling
  <2>2. CASE ~(job[t].attempt < _MAX_RETRIES)
    BY <1>1, <1>3, <2>2, ResumeMoves DEF _post_event_retry, CoroutineStep, signalling
  <2> QED  BY <2>1, <2>2
<1>4. CASE _post_event_raises(t)
  BY <1>1, <1>4, GotoMoves DEF _post_event_raises, CoroutineStep, Job_pcs, signalling
<1>5. CASE spawn(t)
  BY <1>1, <1>5, GotoMoves, YieldMoves, LineKinds
  DEF spawn, CoroutineStep, Job_pcs, signalling, counters
<1>6. CASE check(t)
  <2>1. signal_state[t] # NULL /\ job[t].pc # "none"
    BY <1>6 DEF check, Registered
  <2>2. UNCHANGED <<polled, _in_flight, runs, _processed_signals, signals, ack, crashes>>
    BY <1>6 DEF check, counters
  <2>3. CASE Goto(t, "end") /\ UNCHANGED signal_state
    BY <1>1, <2>1, <2>2, <2>3, GotoMoves DEF CoroutineStep, Job_pcs
  <2>4. CASE Yield(t, "cancelled", "end") /\ UNCHANGED signal_state
    BY <1>1, <2>1, <2>2, <2>4, YieldMoves, LineKinds DEF CoroutineStep
  <2>5. CASE Goto(t, "waiting") /\ UNCHANGED signal_state
    BY <1>1, <2>1, <2>2, <2>5, GotoMoves DEF CoroutineStep, Job_pcs
  <2>6. CASE Proceed(t)
    BY <1>1, <2>1, <2>2, <2>6, ProceedMoves DEF CoroutineStep
  <2> QED  BY <1>6, <2>3, <2>4, <2>5, <2>6 DEF check
<1>7. CASE wait_if_paused(t)
  <2>1. signal_state[t] # NULL /\ job[t].pc # "none"
    BY <1>7 DEF wait_if_paused, Registered
  <2> QED  BY <1>1, <1>7, <2>1, ProceedMoves DEF wait_if_paused, CoroutineStep, counters
<1>8. CASE Handler(t) \/ timeout(t)
  <2>1. /\ job[t].pc # "none"
        /\ UNCHANGED <<polled, _in_flight, runs, signal_state, _processed_signals,
                       signals, ack, crashes>>
    BY <1>8 DEF Handler, feed_stdin, readline, process_exit, kill_done, timeout,
                signalling, counters
  <2>2. HandlerMove(t)
    BY <1>8, HandlerMoves
  <2>3. ASSUME NEW kind \in Openings \cup Lines, Yield(t, kind, "check")
        PROVE  CoroutineStep(t)
    BY <1>1, <2>1, <2>3, YieldMoves, LineKinds DEF CoroutineStep
  <2>4. ASSUME NEW pc \in {"check", "exit", "killed", "end"}, Goto(t, pc)
        PROVE  CoroutineStep(t)
    BY <1>1, <2>1, <2>4, GotoMoves DEF CoroutineStep, Job_pcs
  <2>5. CASE Yield(t, "failed", "end")
    BY <1>1, <2>1, <2>5, YieldMoves, LineKinds DEF CoroutineStep
  <2> QED  BY <2>2, <2>3, <2>4, <2>5 DEF HandlerMove
<1> QED  BY <1>2, <1>3, <1>4, <1>5, <1>6, <1>7, <1>8 DEF Coroutine

\* What a coroutine posts: nothing, or the event it holds.
LEMMA CoroutinePosts ==
    ASSUME NEW t \in Tasks, Coroutine(t)
    PROVE  /\ faults' = faults \/ (faults' = faults + 1 /\ faults < MaxFaults)
           /\ \/ UNCHANGED server
              \/ /\ job[t].pc = "post"
                 /\ process_sidecar_event(t, job[t].sequence, job[t].kind, "executor")
BY DEF Coroutine, _post_event, _post_event_retry, _post_event_raises, spawn, check,
       wait_if_paused, Handler, feed_stdin, readline, process_exit, kill_done, timeout,
       counters

LEMMA CoroutineTyped ==
    ASSUME TypeInv, NEW t \in Tasks, Coroutine(t)
    PROVE  TypeInv'
<1> USE DEF TypeInv
<1>1. CoroutineStep(t)
  BY CoroutineSteps
<1>2. PICK j \in Job : Moves(t, j)
  BY <1>1 DEF CoroutineStep
<1>3. JobsTyped'
  BY <1>1, <1>2, MovesTyped DEF CoroutineStep
<1>4. Registered'
  BY <1>1, <1>2, MovesRegistered DEF CoroutineStep
<1>5. SignalsTyped'
  BY <1>1 DEF CoroutineStep, SignalsTyped
<1>6. ServerTyped'
  <2>1. job[t].sequence \in Nat /\ job[t].kind \in Kinds
    BY DEF JobsTyped, Job
  <2> QED  BY <2>1, CoroutinePosts, ProcessTyped
<1>7. faults' \in Nat /\ crashes' \in Nat
  BY <1>1, CoroutinePosts DEF CoroutineStep
<1> QED  BY <1>3, <1>4, <1>5, <1>6, <1>7

-----------------------------------------------------------------------------
(* The other steps.                                                        *)

\* A principal's operations: status before, kind of the event, status after.
Operations ==
    {<<"accepted", "cancelled", "cancelled">>,
     <<"running", "cancelled", "cancelled">>,
     <<"paused", "cancelled", "cancelled">>,
     <<"running", "redirected", "redirected">>,
     <<"paused", "redirected", "redirected">>,
     <<"running", "pause_requested", "paused">>,
     <<"paused", "resume_requested", "running">>,
     <<"completed", "retasked", "retasked">>,
     <<"failed", "retasked", "retasked">>,
     <<"running", "context_injected", "running">>,
     <<"paused", "context_injected", "paused">>}

LEMMA PrincipalEffect ==
    ASSUME NEW t \in Tasks, Principal(t)
    PROVE  /\ UNCHANGED <<poller, signalling, counters>>
           /\ \E kind \in Kinds, new_status \in TaskStatus \cup {status[t]} :
                 /\ record(t, last_sequence(t) + 1, kind, "server", new_status)
                 /\ last_sequence(t) < MaxSequence
                 /\ <<status[t], kind, new_status>> \in Operations
<1> USE DEF operation, Operations, Kinds, TaskStatus
<1>1. CASE cancel_task(t)
  BY <1>1 DEF cancel_task
<1>2. CASE redirect_task(t)
  BY <1>2 DEF redirect_task
<1>3. CASE pause_task(t)
  BY <1>3 DEF pause_task
<1>4. CASE resume_task(t)
  BY <1>4 DEF resume_task
<1>5. CASE retask_task(t)
  BY <1>5 DEF retask_task
<1>6. CASE inject_context(t)
  BY <1>6 DEF inject_context
<1> QED  BY <1>1, <1>2, <1>3, <1>4, <1>5, <1>6 DEF Principal

\* A signal of a response is that of an event of its task, which is active or has
\* ended as the signal says.
LEMMA PendingSignal ==
    ASSUME ServerTyped, NEW s \in get_pending_signals
    PROVE  \E t \in Tasks : \E i \in 1..Len(log[t]) :
              /\ s = [task |-> t, signal_type |-> s.signal_type,
                      timestamp |-> log[t][i].sequence]
              /\ \/ /\ status[t] \in {"running", "paused"}
                    /\ s.signal_type = log[t][i].kind
                    /\ s.signal_type \in signal_event_types
                 \/ /\ status[t] = "cancelled"
                    /\ log[t][i].kind = "cancelled"
                    /\ s.signal_type = "cancel_requested"
                 \/ /\ status[t] = "redirected"
                    /\ log[t][i].kind = "redirected"
                    /\ s.signal_type = "redirect_requested"
<1> DEFINE active == {t \in Tasks : status[t] \in {"running", "paused"}}
           events(t, kinds) == {e \in {log[t][i] : i \in 1..Len(log[t])} : e.kind \in kinds}
           ended(st, signal_type) ==
             UNION {{[task |-> t, signal_type |-> signal_type, timestamp |-> e.sequence] :
                       e \in events(t, {st})} :
                    t \in {u \in Tasks : status[u] = st /\ recent[u]}}
           current == UNION {{[task |-> t, signal_type |-> e.kind,
                               timestamp |-> e.sequence] :
                                e \in events(t, signal_event_types)} : t \in active}
<1>1. \/ s \in current
      \/ s \in ended("cancelled", "cancel_requested")
      \/ s \in ended("redirected", "redirect_requested")
  BY Zenon DEF get_pending_signals
<1>2. CASE s \in current
  <2>1. PICK t \in active : s \in {[task |-> t, signal_type |-> e.kind,
                                    timestamp |-> e.sequence] :
                                     e \in events(t, signal_event_types)}
    BY <1>2
  <2>2. PICK e \in events(t, signal_event_types) :
            s = [task |-> t, signal_type |-> e.kind, timestamp |-> e.sequence]
    BY <2>1
  <2> QED  BY <2>1, <2>2
<1>3. ASSUME NEW st, NEW signal_type, s \in ended(st, signal_type)
      PROVE  \E t \in Tasks : \E i \in 1..Len(log[t]) :
                /\ s = [task |-> t, signal_type |-> signal_type,
                        timestamp |-> log[t][i].sequence]
                /\ status[t] = st /\ log[t][i].kind = st
  <2>1. PICK t \in {u \in Tasks : status[u] = st /\ recent[u]} :
            s \in {[task |-> t, signal_type |-> signal_type,
                    timestamp |-> e.sequence] : e \in events(t, {st})}
    BY <1>3
  <2>2. PICK e \in events(t, {st}) :
            s = [task |-> t, signal_type |-> signal_type, timestamp |-> e.sequence]
    BY <2>1
  <2> QED  BY <2>1, <2>2
<1> HIDE DEF ended, current
<1>4. CASE s \in ended("cancelled", "cancel_requested")
  BY <1>3, <1>4
<1>5. CASE s \in ended("redirected", "redirect_requested")
  BY <1>3, <1>5
<1> QED  BY <1>1, <1>2, <1>4, <1>5

LEMMA PendingTyped ==
    ASSUME ServerTyped, \A s \in get_pending_signals : s.signal_type \in SignalType
    PROVE  get_pending_signals \subseteq Signal
<1> SUFFICES ASSUME NEW s \in get_pending_signals
             PROVE  s \in Signal
  OBVIOUS
<1>1. PICK t \in Tasks : \E i \in 1..Len(log[t]) :
              s = [task |-> t, signal_type |-> s.signal_type,
                   timestamp |-> log[t][i].sequence]
  BY PendingSignal
<1>2. PICK i \in 1..Len(log[t]) :
              s = [task |-> t, signal_type |-> s.signal_type,
                   timestamp |-> log[t][i].sequence]
  BY <1>1
<1>3. log[t] \in Seq(Event)
  BY DEF ServerTyped
<1>4. log[t][i] \in Event
  BY <1>3
<1>5. log[t][i].sequence \in Nat
  BY <1>4 DEF Event
<1> QED  BY <1>2, <1>5 DEF Signal

LEMMA HandledTyped ==
    ASSUME NEW entry \in SignalEntry, NEW signal_type \in SignalType
    PROVE  handled(entry, signal_type) \in SignalEntry
<1>1. CASE signal_type = "pause_requested"
  BY <1>1 DEF handled, SignalEntry
<1>2. CASE signal_type = "resume_requested"
  BY <1>2 DEF handled, SignalEntry
<1>3. CASE signal_type = "cancel_requested"
  BY <1>3 DEF handled, SignalEntry
<1>4. CASE signal_type = "redirect_requested"
  BY <1>4 DEF handled, SignalEntry
<1>5. CASE signal_type = "context_injection"
  <2>1. PICK n \in Nat : n = entry.queue + 1
    BY DEF SignalEntry
  <2>2. handled(entry, signal_type) = [entry EXCEPT !.queue = n]
    BY <1>5, <2>1 DEF handled
  <2> QED  BY <2>2 DEF SignalEntry
<1> QED  BY <1>1, <1>2, <1>3, <1>4, <1>5 DEF SignalType

LEMMA AcknowledgesTyped ==
    ASSUME NEW entry, NEW signal_type
    PROVE  acknowledges(entry, signal_type) \in TaskStatus \cup {NULL}
BY DEF acknowledges, TaskStatus

\* The acknowledgement in progress and its stream.
LEMMA AckParts ==
    ASSUME SignalsTyped, ack # NULL
    PROVE  /\ ack \in Ack
           /\ ack.signal \in Signal /\ ack.signal.task \in Tasks
           /\ ack.sequence \in {1, 2} /\ ack.kind \in Kinds
           /\ ack_event.sequence \in {1, 2} /\ ack_event.kind \in Kinds
<1>1. ack \in Ack
  BY DEF SignalsTyped
<1>2. ack.signal \in Signal /\ ack.sequence \in {1, 2} /\ ack.kind \in Kinds
  BY <1>1 DEF Ack
<1>3. ack.signal.task \in Tasks
  BY <1>2 DEF Signal
<1>4. ack_event.sequence \in {1, 2} /\ ack_event.kind \in Kinds
  BY <1>2 DEF ack_event, Kinds, TaskStatus
<1> QED  BY <1>1, <1>2, <1>3, <1>4

PostsAck == _post_ack \/ _post_ack_retry \/ _post_ack_raises

LEMMA PostsAckEffect ==
    ASSUME SignalsTyped, PostsAck
    PROVE  /\ ack # NULL
           /\ PostAck \/ UNCHANGED server
           /\ \/ ack' \in Ack /\ ack'.signal = ack.signal /\ UNCHANGED _processed_signals
              \/ mark_signal_processed
           /\ faults' = faults \/ (faults' = faults + 1 /\ faults < MaxFaults)
           /\ UNCHANGED <<poller, signal_state, signals, crashes>>
<1>1. ack # NULL
  BY DEF PostsAck, _post_ack, _post_ack_retry, _post_ack_raises
<1>2. ack \in Ack
  BY <1>1, AckParts
<1>3. AckGoesOn => \/ /\ ack' \in Ack /\ ack'.signal = ack.signal
                      /\ UNCHANGED _processed_signals
                   \/ mark_signal_processed
  <2>a. PICK two \in 1..2 : two = 2
    OBVIOUS
  <2>1. [ack EXCEPT !.sequence = two, !.attempt = 0] \in Ack
    BY <1>2 DEF Ack
  <2>2. [ack EXCEPT !.sequence = two, !.attempt = 0].signal = ack.signal
    BY <1>2 DEF Ack
  <2> QED  BY <2>a, <2>1, <2>2 DEF AckGoesOn
<1>4. ack' = [ack EXCEPT !.attempt = @ + 1] => ack' \in Ack /\ ack'.signal = ack.signal
  <2>1. PICK n \in Nat : n = ack.attempt + 1
    BY <1>2 DEF Ack
  <2> QED  BY <1>2, <2>1 DEF Ack
<1> QED  BY <1>1, <1>3, <1>4
         DEF PostsAck, _post_ack, _post_ack_retry, _post_ack_raises, counters

LEMMA Steps ==
    ASSUME Next
    PROVE  \/ poll \/ run \/ poll_signals \/ PostsAck \/ Restart
           \/ \E s \in signals : _handle_signal(s)
           \/ \E t \in Tasks : \/ Principal(t) \/ Minute(t)
                               \/ Coroutine(t) \/ _dispatch_ends(t)
BY DEF Next, Execute, SignalLoop, Coroutine, PostsAck

LEMMA NewEntry == NoJob \in Job /\ NoJob.pc = "none" /\ register_task \in SignalEntry
BY DEF NoJob, Job, Kinds, TaskStatus, register_task, SignalEntry

LEMMA RunTyped ==
    ASSUME TypeInv, run
    PROVE  TypeInv'
<1> USE DEF TypeInv
<1> DEFINE first == [NoJob EXCEPT !.pc = "post", !.sequence = 1, !.then = "spawn"]
<1>1. PICK S \in SUBSET (polled \ _in_flight) :
          /\ _in_flight' = _in_flight \cup S
          /\ signal_state' = [t \in Tasks |-> IF t \in S THEN register_task
                                              ELSE signal_state[t]]
          /\ job' = [t \in Tasks |-> IF t \in S THEN first ELSE job[t]]
          /\ runs' = [t \in Tasks |-> IF t \in S THEN runs[t] + 1 ELSE runs[t]]
  BY DEF run
<1>2. first \in Job
  BY NewEntry DEF Job
<1>3. first.pc = "post"
  BY NewEntry DEF Job
<1> HIDE DEF first
<1>4. JobsTyped'
  <2>1. \A t \in Tasks : runs[t] + 1 \in Nat
    BY DEF JobsTyped
  <2>2. runs' \in [Tasks -> Nat]
    BY <1>1, <2>1 DEF JobsTyped
  <2>3. job' \in [Tasks -> Job]
    BY <1>1, <1>2 DEF JobsTyped
  <2>4. polled' \in SUBSET Tasks /\ _in_flight' \in SUBSET Tasks
    BY <1>1 DEF JobsTyped, run
  <2> QED  BY <2>2, <2>3, <2>4 DEF JobsTyped
<1>5. SignalsTyped'
  BY <1>1, NewEntry DEF SignalsTyped, run
<1>6. Registered'
  BY <1>1, <1>3, NewEntry, NullAssumption DEF Registered, JobsTyped
<1>7. ServerTyped'
  BY DEF run, server, ServerTyped
<1> QED  BY <1>4, <1>5, <1>6, <1>7 DEF run, counters

LEMMA HandleTyped ==
    ASSUME TypeInv, NEW s \in signals, _handle_signal(s)
    PROVE  TypeInv'
<1> USE DEF TypeInv
<1> DEFINE entry == signal_state[s.task]
<1>1. s \in Signal /\ s.task \in Tasks /\ s.signal_type \in SignalType
  BY DEF SignalsTyped, Signal
<1>2. ServerTyped' /\ JobsTyped' /\ faults' \in Nat /\ crashes' \in Nat
  BY DEF _handle_signal, server, poller, counters, ServerTyped, JobsTyped
<1>3. signals' \in SUBSET Signal /\ _processed_signals' \in SUBSET Signal
  BY <1>1 DEF _handle_signal, SignalsTyped
<1>4. UNCHANGED <<job, _in_flight>>
  BY DEF _handle_signal, poller
<1>5. CASE s \in _processed_signals \/ entry = NULL
  <2>1. UNCHANGED <<signal_state, ack>>
    BY <1>5 DEF _handle_signal
  <2> QED  BY <1>2, <1>3, <1>4, <2>1 DEF SignalsTyped, Registered
<1>6. CASE ~(s \in _processed_signals \/ entry = NULL)
  <2>1. entry \in SignalEntry
    BY <1>1, <1>6 DEF SignalsTyped
  <2>2. signal_state' = [signal_state EXCEPT ![s.task] = handled(entry, s.signal_type)]
    BY <1>6 DEF _handle_signal
  <2>3. handled(entry, s.signal_type) \in SignalEntry
    BY <1>1, <2>1, HandledTyped
  <2>4. ack' \in Ack \cup {NULL}
    <3>1. CASE acknowledges(entry, s.signal_type) = NULL
      BY <1>6, <3>1 DEF _handle_signal, SignalsTyped
    <3>2. CASE acknowledges(entry, s.signal_type) # NULL
      <4>1. acknowledges(entry, s.signal_type) \in Kinds
        BY <3>2, AcknowledgesTyped DEF Kinds
      <4>2. ack' = [signal |-> s, sequence |-> 1, attempt |-> 0,
                    kind |-> acknowledges(entry, s.signal_type)]
        BY <1>6, <3>2 DEF _handle_signal
      <4>3. 1 \in 1..2 /\ 0 \in Nat
        OBVIOUS
      <4> QED  BY <1>1, <4>1, <4>2, <4>3 DEF Ack
    <3> QED  BY <3>1, <3>2
  <2>5. SignalsTyped'
    BY <1>3, <2>2, <2>3, <2>4 DEF SignalsTyped
  <2>6. Registered'
    BY <1>1, <1>4, <1>6, <2>2, <2>3, NullAssumption DEF Registered, SignalsTyped
  <2> QED  BY <1>2, <2>5, <2>6
<1> QED  BY <1>5, <1>6

LEMMA TypeStep ==
    ASSUME TypeInv, Next
    PROVE  TypeInv'
<1> USE DEF TypeInv
<1>1. CASE poll
  BY <1>1 DEF poll, get_pending_tasks, server, signalling, counters, ServerTyped,
              JobsTyped, SignalsTyped, Registered
<1>2. CASE run
  BY <1>2, RunTyped
<1>3. CASE poll_signals
  <2>1. signals' \in SUBSET Signal
    BY <1>3, PendingTyped DEF poll_signals
  <2> QED  BY <1>3, <2>1 DEF poll_signals, server, poller, counters, ServerTyped,
                             JobsTyped, SignalsTyped, Registered
<1>4. CASE PostsAck
  <2>1. /\ ack # NULL
        /\ PostAck \/ UNCHANGED server
        /\ \/ ack' \in Ack /\ UNCHANGED _processed_signals
           \/ mark_signal_processed
        /\ faults' = faults \/ faults' = faults + 1
        /\ UNCHANGED <<poller, signal_state, signals, crashes>>
    BY <1>4, PostsAckEffect
  <2>2. ServerTyped'
    <3>1. ack.signal.task \in Tasks /\ ack_event.sequence \in Nat /\ ack_event.kind \in Kinds
      BY <2>1, AckParts
    <3> QED  BY <2>1, <3>1, ProcessTyped DEF PostAck
  <2>3. SignalsTyped'
    BY <2>1, AckParts DEF SignalsTyped, mark_signal_processed
  <2> QED  BY <2>1, <2>2, <2>3 DEF poller, JobsTyped, Registered
<1>5. CASE Restart
  BY <1>5, NewEntry DEF Restart, server, ServerTyped, JobsTyped, SignalsTyped, Registered
<1>6. ASSUME NEW s \in signals, _handle_signal(s) PROVE TypeInv'
  BY <1>6, HandleTyped
<1>7. ASSUME NEW t \in Tasks, Principal(t) PROVE TypeInv'
  <2>1. PICK kind \in Kinds, new_status \in TaskStatus \cup {status[t]} :
            record(t, last_sequence(t) + 1, kind, "server", new_status)
    BY <1>7, PrincipalEffect
  <2>2. last_sequence(t) + 1 \in Nat /\ new_status \in TaskStatus
    BY LastEvent DEF ServerTyped
  <2>3. ServerTyped'
    BY <2>1, <2>2, RecordTyped
  <2>4. UNCHANGED <<poller, signalling, counters>>
    BY <1>7, PrincipalEffect
  <2> QED  BY <2>3, <2>4 DEF poller, signalling, counters, JobsTyped, SignalsTyped,
                             Registered
<1>8. ASSUME NEW t \in Tasks, Minute(t) PROVE TypeInv'
  BY <1>8 DEF Minute, poller, signalling, counters, ServerTyped, JobsTyped,
              SignalsTyped, Registered
<1>9. ASSUME NEW t \in Tasks, Coroutine(t) PROVE TypeInv'
  BY <1>9, CoroutineTyped
<1>10. ASSUME NEW t \in Tasks, _dispatch_ends(t) PROVE TypeInv'
  BY <1>10, NewEntry DEF _dispatch_ends, server, counters, ServerTyped, JobsTyped,
                         SignalsTyped, Registered
<1> QED  BY Steps, <1>1, <1>2, <1>3, <1>4, <1>5, <1>6, <1>7, <1>8, <1>9, <1>10

LEMMA TypeInvariance == Spec => []TypeInv
<1>1. TypeInv /\ UNCHANGED vars => TypeInv'
  BY DEF TypeInv, vars, server, poller, signalling, counters, ServerTyped, JobsTyped,
         SignalsTyped, Registered
<1> QED  BY TypeInit, TypeStep, <1>1, PTL DEF Spec

\* The variables of the sidecar and of the server's tables keep their types: no
\* coroutine reads the flags of a task that has been unregistered, no signal of
\* an unknown type is kept, no log is ever empty.
THEOREM SidecarTypes == Spec => []TypeOK
BY TypeInvariance, TypeInvIsTypeOK, PTL

-----------------------------------------------------------------------------
(* The slots.                                                              *)

SlotsBounded == Cardinality(_in_flight) <= max_concurrent

LEMMA InFlightFinite ==
    ASSUME TypeInv
    PROVE  /\ IsFiniteSet(_in_flight)
           /\ \A S \in SUBSET _in_flight :
                 /\ IsFiniteSet(S)
                 /\ Cardinality(S) \in Nat
                 /\ Cardinality(S) <= Cardinality(_in_flight)
<1>1. IsFiniteSet(_in_flight)
  BY SidecarAssumption, FS_Subset DEF TypeInv, JobsTyped
<1> QED  BY <1>1, FS_Subset, FS_CardinalityType

LEMMA SlotsStep ==
    ASSUME TypeInv, SlotsBounded, [Next]_vars
    PROVE  SlotsBounded'
<1>1. CASE UNCHANGED _in_flight
  BY <1>1 DEF SlotsBounded
<1>2. CASE run
  BY <1>2 DEF run, startable, SlotsBounded
<1>3. CASE _in_flight' \in SUBSET _in_flight
  <2>1. /\ Cardinality(_in_flight') \in Nat /\ Cardinality(_in_flight) \in Nat
        /\ Cardinality(_in_flight') <= Cardinality(_in_flight)
    BY <1>3, InFlightFinite
  <2> QED  BY <2>1, SidecarAssumption DEF SlotsBounded
<1>4. CASE Next
  <2>1. CASE poll
    BY <1>1, <2>1 DEF poll
  <2>2. CASE poll_signals
    BY <1>1, <2>2 DEF poll_signals, poller
  <2>3. CASE PostsAck
    BY <1>1, <2>3 DEF PostsAck, _post_ack, _post_ack_retry, _post_ack_raises, poller
  <2>4. CASE Restart
    BY <1>3, <2>4 DEF Restart
  <2>5. CASE \E s \in signals : _handle_signal(s)
    BY <1>1, <2>5 DEF _handle_signal, poller
  <2>6. ASSUME NEW t \in Tasks, Principal(t) \/ Minute(t) \/ Coroutine(t)
        PROVE  UNCHANGED _in_flight
    BY <2>6, PrincipalEffect, CoroutineSteps DEF Minute, poller, CoroutineStep
  <2>7. ASSUME NEW t \in Tasks, _dispatch_ends(t)
        PROVE  _in_flight' \in SUBSET _in_flight
    BY <2>7 DEF _dispatch_ends
  <2> QED  BY <1>1, <1>2, <1>3, <1>4, Steps, <2>1, <2>2, <2>3, <2>4, <2>5, <2>6, <2>7
<1>5. CASE UNCHANGED vars
  BY <1>1, <1>5 DEF vars, poller
<1> QED  BY <1>4, <1>5

\* Whichever way executions end (an outcome, a rejected or a failed POST, a signal,
\* the deadline, a crash), a slot of the poller is held by a task exactly while its
\* coroutine lives and its signal state is registered, and never more slots than
\* max_concurrent are held.
THEOREM Slots == Spec => []SlotsAccounted
<1>1. Init => SlotsBounded
  BY FS_EmptySet, SidecarAssumption DEF Init, SlotsBounded
<1>2. TypeInv /\ SlotsBounded => SlotsAccounted
  BY DEF TypeInv, Registered, SlotsBounded, SlotsAccounted
<1> QED  BY <1>1, <1>2, SlotsStep, TypeInvariance, PTL DEF Spec

-----------------------------------------------------------------------------
(* The log of a task.                                                      *)

\* The event is appended to the log of t and st becomes its status.
Appends(t, e, st) ==
    /\ log' = [log EXCEPT ![t] = Append(@, e)]
    /\ status' = [status EXCEPT ![t] = st]
    /\ e.sequence > last_sequence(t)

ByPrincipal(t, e, st) ==
    /\ e.by = "server"
    /\ <<status[t], e.kind, st>> \in Operations
    /\ UNCHANGED <<poller, signalling, counters>>

\* The new status of a task whose executor posts an event of the kind.
Posted(t, kind, st) ==
    /\ kind \in TaskStatus => validate_transition(status[t], kind)
    /\ st = IF kind \in TaskStatus THEN kind ELSE status[t]

ByExecutor(t, e, st) ==
    /\ e.by = "executor"
    /\ Posted(t, e.kind, st)
    /\ job[t].pc = "post"
    /\ e.sequence = job[t].sequence
    /\ e.kind = job[t].kind
    /\ Coroutine(t)

ByAck(t, e, st) ==
    /\ e.by = "ack"
    /\ ack # NULL
    /\ t = ack.signal.task
    /\ e.sequence \in {1, 2}
    /\ PostsAck

LEMMA ProcessAppends ==
    ASSUME ServerTyped, NEW t \in Tasks, NEW sequence \in Nat, NEW kind \in Kinds,
           NEW by \in {"server", "executor", "ack"},
           process_sidecar_event(t, sequence, kind, by)
    PROVE  \/ UNCHANGED <<status, log>>
           \/ \E e \in Event, st \in TaskStatus :
                 /\ Appends(t, e, st)
                 /\ Posted(t, kind, st)
                 /\ e.sequence = sequence /\ e.kind = kind /\ e.by = by
<1>1. CASE accepts(t, sequence, kind)
  <2> DEFINE st == IF kind \in TaskStatus THEN kind ELSE status[t]
             e == [sequence |-> sequence, kind |-> kind, by |-> by]
  <2>1. record(t, sequence, kind, by, st)
    BY <1>1 DEF process_sidecar_event
  <2>2. st \in TaskStatus
    BY DEF ServerTyped
  <2>3. e \in Event /\ e.sequence = sequence /\ e.kind = kind /\ e.by = by
    BY DEF Event
  <2>4. Posted(t, kind, st)
    BY <1>1 DEF accepts, Posted
  <2>5. Appends(t, e, st)
    BY <1>1, <2>1 DEF record, accepts, Appends
  <2> QED  BY <2>2, <2>3, <2>4, <2>5
<1>2. CASE ~accepts(t, sequence, kind)
  BY <1>2 DEF process_sidecar_event, server
<1> QED  BY <1>1, <1>2

LEMMA PrincipalAppends ==
    ASSUME TypeInv, NEW t \in Tasks, Principal(t)
    PROVE  \E e \in Event, st \in TaskStatus : Appends(t, e, st) /\ ByPrincipal(t, e, st)
<1> USE DEF TypeInv
<1>1. PICK kind \in Kinds, st \in TaskStatus \cup {status[t]} :
          /\ record(t, last_sequence(t) + 1, kind, "server", st)
          /\ <<status[t], kind, st>> \in Operations
  BY PrincipalEffect
<1> DEFINE e == [sequence |-> last_sequence(t) + 1, kind |-> kind, by |-> "server"]
<1>2. last_sequence(t) \in Nat /\ st \in TaskStatus
  BY LastEvent DEF ServerTyped
<1>3. e \in Event /\ e.sequence = last_sequence(t) + 1 /\ e.kind = kind /\ e.by = "server"
  BY <1>2 DEF Event
<1>4. Appends(t, e, st)
  BY <1>1, <1>2 DEF record, Appends
<1>5. ByPrincipal(t, e, st)
  BY <1>1, PrincipalEffect DEF ByPrincipal
<1> QED  BY <1>2, <1>3, <1>4, <1>5

\* A step leaves statuses and logs alone, or one event is appended to one log: by
\* an operation of the principal, by the task's executor, or by an acknowledgement.
LEMMA LogEffect ==
    ASSUME TypeInv, Next
    PROVE  \/ UNCHANGED <<status, log>>
           \/ \E t \in Tasks, e \in Event, st \in TaskStatus :
                 /\ Appends(t, e, st)
                 /\ ByPrincipal(t, e, st) \/ ByExecutor(t, e, st) \/ ByAck(t, e, st)
<1> USE DEF TypeInv
<1>1. CASE poll \/ run \/ poll_signals \/ Restart \/ \E s \in signals : _handle_signal(s)
  BY <1>1 DEF poll, run, poll_signals, Restart, _handle_signal, server
<1>2. CASE PostsAck
  <2>1. ack # NULL /\ (PostAck \/ UNCHANGED server)
    BY <1>2, PostsAckEffect
  <2>2. ack.signal.task \in Tasks /\ ack_event.sequence \in {1, 2} /\ ack_event.kind \in Kinds
    BY <2>1, AckParts
  <2>3. CASE UNCHANGED server
    BY <2>3 DEF server
  <2>4. CASE PostAck
    BY <1>2, <2>1, <2>2, <2>4, ProcessAppends DEF PostAck, ByAck
  <2> QED  BY <2>1, <2>3, <2>4
<1>3. ASSUME NEW t \in Tasks, Principal(t) \/ Minute(t) \/ _dispatch_ends(t)
      PROVE  \/ UNCHANGED <<status, log>>
             \/ \E e \in Event, st \in TaskStatus :
                   Appends(t, e, st) /\ ByPrincipal(t, e, st)
  BY <1>3, PrincipalAppends DEF Minute, _dispatch_ends, server
<1>4. ASSUME NEW t \in Tasks, Coroutine(t)
      PROVE  \/ UNCHANGED <<status, log>>
             \/ \E e \in Event, st \in TaskStatus :
                   Appends(t, e, st) /\ ByExecutor(t, e, st)
  <2>1. job[t].sequence \in Nat /\ job[t].kind \in Kinds
    BY DEF JobsTyped, Job
  <2>2. CASE UNCHANGED server
    BY <2>2 DEF server
  <2>3. CASE /\ job[t].pc = "post"
             /\ process_sidecar_event(t, job[t].sequence, job[t].kind, "executor")
    BY <1>4, <2>1, <2>3, ProcessAppends DEF ByExecutor
  <2> QED  BY <1>4, <2>2, <2>3, CoroutinePosts
<1> QED  BY Steps, <1>1, <1>2, <1>3, <1>4

LEMMA AppendedLog ==
    ASSUME ServerTyped, NEW t \in Tasks, NEW e \in Event, NEW st, Appends(t, e, st)
    PROVE  /\ \A u \in Tasks \ {t} : log'[u] = log[u]
           /\ Len(log'[t]) = Len(log[t]) + 1
           /\ \A i \in 1..Len(log[t]) : log'[t][i] = log[t][i]
           /\ log'[t][Len(log[t]) + 1] = e
           /\ last_sequence(t)' = e.sequence
           /\ \A u \in Tasks \ {t} : status'[u] = status[u]
           /\ status'[t] = st
<1>1. log[t] \in Seq(Event) /\ log'[t] = Append(log[t], e)
  BY DEF ServerTyped, Appends
<1>2. /\ Len(log'[t]) = Len(log[t]) + 1
      /\ \A i \in 1..Len(log[t]) : log'[t][i] = log[t][i]
      /\ log'[t][Len(log[t]) + 1] = e
  BY <1>1, AppendProperties
<1>3. last_sequence(t)' = e.sequence
  BY <1>2 DEF last_sequence
<1> QED  BY <1>2, <1>3 DEF ServerTyped, Appends

\* Events are numbered from 1, and the first number is that of "created".
Numbered ==
    \A t \in Tasks : \A i \in 1..Len(log[t]) :
        /\ log[t][i].sequence >= 1
        /\ log[t][i].kind # "created" => log[t][i].sequence >= 2

\* A task some signal of a response is about has a second event.
SignalsLate ==
    /\ \A s \in signals : last_sequence(s.task) >= 2
    /\ ack # NULL => last_sequence(ack.signal.task) >= 2

AckInv == TypeInv /\ RecordedOnce /\ Numbered /\ SignalsLate /\ AcksRefused

LEMMA AckInit == Init => AckInv
<1> SUFFICES ASSUME Init PROVE AckInv
  OBVIOUS
<1> DEFINE e == [sequence |-> 1, kind |-> "created", by |-> "server"]
<1>1. \A t \in Tasks : Len(log[t]) = 1 /\ log[t][1] = e
  BY DEF Init
<1>2. e.sequence = 1 /\ e.kind = "created" /\ e.by = "server"
  OBVIOUS
<1> HIDE DEF e
<1> QED  BY <1>1, <1>2, TypeInit
         DEF AckInv, RecordedOnce, Numbered, SignalsLate, AcksRefused, Init

\* No number exceeds that of the last event.
LEMMA LastIsGreatest ==
    ASSUME ServerTyped, RecordedOnce, NEW t \in Tasks, NEW i \in 1..Len(log[t])
    PROVE  log[t][i].sequence \in Nat /\ log[t][i].sequence <= last_sequence(t)
<1>1. Len(log[t]) \in Nat \ {0} /\ last_sequence(t) \in Nat
  BY LastEvent
<1>2. log[t] \in Seq(Event)
  BY DEF ServerTyped
<1>3. log[t][i] \in Event
  BY <1>2
<1>4. log[t][i].sequence \in Nat
  BY <1>3 DEF Event
<1>5. CASE i = Len(log[t])
  BY <1>1, <1>4, <1>5 DEF last_sequence
<1>6. CASE i < Len(log[t])
  BY <1>1, <1>4, <1>6 DEF RecordedOnce, last_sequence
<1> QED  BY <1>1, <1>4, <1>5, <1>6

LEMMA AppendKeepsOrder ==
    ASSUME ServerTyped, RecordedOnce, NEW t \in Tasks, NEW e \in Event, NEW st,
           Appends(t, e, st)
    PROVE  RecordedOnce'
<1> SUFFICES ASSUME NEW u \in Tasks, NEW i \in 1..Len(log'[u]), NEW j \in 1..Len(log'[u]),
                    i < j
             PROVE  log'[u][i].sequence < log'[u][j].sequence
  BY DEF RecordedOnce
<1>1. CASE u # t
  BY <1>1, AppendedLog DEF RecordedOnce
<1>2. CASE u = t
  <2>1. Len(log[t]) \in Nat /\ last_sequence(t) \in Nat
    BY LastEvent
  <2>2. i \in 1..Len(log[t]) /\ j \in 1..(Len(log[t]) + 1)
    BY <1>2, <2>1, AppendedLog
  <2>3. CASE j \in 1..Len(log[t])
    <3>1. log'[t][j] = log[t][j] /\ log'[t][i] = log[t][i]
      BY <2>2, <2>3, AppendedLog
    <3>2. log[t][i].sequence < log[t][j].sequence
      BY <2>2, <2>3 DEF RecordedOnce
    <3> QED  BY <1>2, <3>1, <3>2
  <2>4. CASE j = Len(log[t]) + 1
    <3>1. log'[t][j] = e /\ log'[t][i] = log[t][i]
      BY <2>2, <2>4, AppendedLog
    <3>2. log[t][i].sequence \in Nat /\ log[t][i].sequence <= last_sequence(t)
      BY <2>2, LastIsGreatest
    <3>3. e.sequence \in Nat /\ e.sequence > last_sequence(t)
      BY DEF Event, Appends
    <3> QED  BY <1>2, <2>1, <3>1, <3>2, <3>3
  <2> QED  BY <2>1, <2>2, <2>3, <2>4
<1> QED  BY <1>1, <1>2

LEMMA AppendKeepsNumbers ==
    ASSUME ServerTyped, Numbered, NEW t \in Tasks, NEW e \in Event, NEW st,
           Appends(t, e, st)
    PROVE  Numbered' /\ e.sequence >= 2 /\ \A u \in Tasks : last_sequence(u)' >= last_sequence(u)
<1>1. Len(log[t]) \in Nat \ {0} /\ last_sequence(t) \in Nat /\ e.sequence \in Nat
  BY LastEvent DEF Event
<1>2. last_sequence(t) >= 1
  BY <1>1 DEF Numbered, last_sequence
<1>3. e.sequence >= 2 /\ e.sequence > last_sequence(t)
  BY <1>1, <1>2 DEF Appends
<1>4. Numbered'
  <2> SUFFICES ASSUME NEW u \in Tasks, NEW i \in 1..Len(log'[u])
               PROVE  /\ log'[u][i].sequence >= 1
                      /\ log'[u][i].kind # "created" => log'[u][i].sequence >= 2
    BY DEF Numbered
  <2>1. CASE u # t
    BY <2>1, AppendedLog DEF Numbered
  <2>2. CASE u = t /\ i = Len(log[t]) + 1
    BY <2>2, <1>1, <1>3, AppendedLog
  <2>3. CASE u = t /\ i # Len(log[t]) + 1
    <3>1. i \in 1..Len(log[t])
      BY <2>3, <1>1, AppendedLog
    <3> QED  BY <2>3, <3>1, AppendedLog DEF Numbered
  <2> QED  BY <2>1, <2>2, <2>3
<1>5. \A u \in Tasks : last_sequence(u)' >= last_sequence(u)
  <2> TAKE u \in Tasks
  <2>1. CASE u = t
    BY <2>1, <1>1, <1>3, AppendedLog
  <2>2. CASE u # t
    <3>1. log'[u] = log[u]
      BY <2>2, AppendedLog
    <3>2. last_sequence(u)' = last_sequence(u)
      BY <3>1 DEF last_sequence
    <3> QED  BY <3>2, LastEvent
  <2> QED  BY <2>1, <2>2
<1> QED  BY <1>3, <1>4, <1>5

\* Signals are only ever taken from a response, which is made from the log.
LEMMA SignalsFrom ==
    ASSUME TypeInv, Next
    PROVE  /\ \A s \in signals' : s \in signals \/ (poll_signals /\ s \in get_pending_signals)
           /\ ack' # NULL => \/ ack # NULL /\ ack'.signal = ack.signal
                             \/ \E s \in signals : ack'.signal = s
<1> USE DEF TypeInv
<1>1. CASE UNCHANGED <<signals, ack>>
  BY <1>1
<1>2. CASE poll
  BY <1>1, <1>2 DEF poll, signalling
<1>3. CASE run
  BY <1>1, <1>3 DEF run
<1>4. CASE poll_signals
  BY <1>4 DEF poll_signals
<1>5. CASE PostsAck
  BY <1>5, PostsAckEffect DEF mark_signal_processed
<1>6. CASE Restart
  BY <1>6 DEF Restart
<1>7. CASE \E s \in signals : _handle_signal(s)
  BY <1>7 DEF _handle_signal
<1>8. ASSUME NEW t \in Tasks, Principal(t) \/ Minute(t) \/ Coroutine(t) \/ _dispatch_ends(t)
      PROVE  UNCHANGED <<signals, ack>>
  BY <1>8, PrincipalEffect, CoroutineSteps
  DEF Minute, _dispatch_ends, signalling, CoroutineStep
<1> QED  BY Steps, <1>1, <1>2, <1>3, <1>4, <1>5, <1>6, <1>7, <1>8

LEMMA LastEventNext ==
    ASSUME ServerTyped', NEW t \in Tasks
    PROVE  last_sequence(t)' \in Nat
<1>1. log'[t] \in Seq(Event) /\ log'[t] # <<>>
  BY DEF ServerTyped
<1>2. Len(log'[t]) \in Nat \ {0}
  BY <1>1, EmptySeq
<1>3. log'[t][Len(log'[t])] \in Event
  BY <1>1, <1>2
<1> QED  BY <1>3 DEF last_sequence, Event

LEMMA PendingLate ==
    ASSUME ServerTyped, RecordedOnce, Numbered, NEW s \in get_pending_signals
    PROVE  s.task \in Tasks /\ last_sequence(s.task) >= 2
<1>1. PICK t \in Tasks : \E i \in 1..Len(log[t]) :
          /\ s.task = t
          /\ log[t][i].kind \in signal_event_types \cup {"cancelled", "redirected"}
  BY PendingSignal
<1>2. PICK i \in 1..Len(log[t]) :
          log[t][i].kind \in signal_event_types \cup {"cancelled", "redirected"}
  BY <1>1
<1>3. log[t][i].kind # "created"
  BY <1>2 DEF signal_event_types
<1>4. log[t][i].sequence >= 2
  BY <1>3 DEF Numbered
<1> QED  BY <1>1, <1>4, LastIsGreatest, LastEvent

\* An acknowledgement is refused: the numbers of its stream are 1 and 2.
LEMMA NoAck ==
    ASSUME AckInv, NEW t, NEW e \in Event, NEW st, Appends(t, e, st)
    PROVE  ~ByAck(t, e, st)
<1> SUFFICES ASSUME ByAck(t, e, st) PROVE FALSE
  OBVIOUS
<1>1. t \in Tasks
  BY AckParts DEF ByAck, AckInv, TypeInv
<1>2. last_sequence(t) \in Nat
  BY <1>1, LastEvent DEF AckInv, TypeInv
<1> QED  BY <1>2 DEF ByAck, AckInv, SignalsLate, Appends

LEMMA AckStep ==
    ASSUME AckInv, [Next]_vars
    PROVE  AckInv'
<1> USE DEF AckInv
<1>0. ServerTyped
  BY DEF TypeInv
<1>1. CASE UNCHANGED vars
  BY <1>1 DEF vars, server, poller, signalling, counters, TypeInv, ServerTyped, JobsTyped,
              SignalsTyped, Registered, RecordedOnce, Numbered, SignalsLate,
              AcksRefused, last_sequence
<1>2. CASE Next
  <2>1. TypeInv'
    BY <1>2, TypeStep
  <2>2. /\ RecordedOnce' /\ Numbered' /\ AcksRefused'
        /\ \A u \in Tasks : last_sequence(u)' >= last_sequence(u)
    <3>1. CASE UNCHANGED <<status, log>>
      <4>1. \A u \in Tasks : last_sequence(u)' = last_sequence(u) /\ last_sequence(u) \in Nat
        BY <1>0, <3>1, LastEvent DEF last_sequence
      <4> QED  BY <3>1, <4>1 DEF RecordedOnce, Numbered, AcksRefused
    <3>2. ASSUME NEW t \in Tasks, NEW e \in Event, NEW st \in TaskStatus,
                 Appends(t, e, st),
                 ByPrincipal(t, e, st) \/ ByExecutor(t, e, st) \/ ByAck(t, e, st)
          PROVE  /\ RecordedOnce' /\ Numbered' /\ AcksRefused'
                 /\ \A u \in Tasks : last_sequence(u)' >= last_sequence(u)
      <4>1. e.by # "ack"
        BY <3>2, NoAck DEF ByPrincipal, ByExecutor
      <4>2. AcksRefused'
        <5> SUFFICES ASSUME NEW u \in Tasks, NEW i \in 1..Len(log'[u])
                     PROVE  log'[u][i].by # "ack"
          BY DEF AcksRefused
        <5>1. Len(log[t]) \in Nat
          BY <1>0, LastEvent
        <5>2. CASE u # t
          BY <1>0, <3>2, <5>2, AppendedLog DEF AcksRefused
        <5>3. CASE u = t /\ i = Len(log[t]) + 1
          BY <1>0, <3>2, <4>1, <5>3, AppendedLog
        <5>4. CASE u = t /\ i # Len(log[t]) + 1
          <6>1. i \in 1..Len(log[t])
            BY <1>0, <3>2, <5>1, <5>4, AppendedLog
          <6> QED  BY <1>0, <3>2, <5>4, <6>1, AppendedLog DEF AcksRefused
        <5> QED  BY <5>2, <5>3, <5>4
      <4> QED  BY <1>0, <3>2, <4>2, AppendKeepsOrder, AppendKeepsNumbers
    <3> QED  BY <1>2, <3>1, <3>2, LogEffect
  <2>3. SignalsLate'
    <3>0. \A u \in Tasks : last_sequence(u) \in Nat /\ last_sequence(u)' \in Nat
      BY <1>0, <2>1, LastEvent, LastEventNext DEF TypeInv
    <3>1. \A s \in signals : s.task \in Tasks /\ last_sequence(s.task) >= 2
      BY DEF SignalsLate, TypeInv, SignalsTyped, Signal
    <3>2. ack # NULL => ack.signal.task \in Tasks /\ last_sequence(ack.signal.task) >= 2
      BY AckParts DEF SignalsLate, TypeInv
    <3>3. ASSUME poll_signals, NEW s \in get_pending_signals
          PROVE  s.task \in Tasks /\ last_sequence(s.task) >= 2
      BY <1>0, <3>3, PendingLate
    <3>4. \A s \in signals' : last_sequence(s.task)' >= 2
      BY <1>2, <2>2, <3>0, <3>1, <3>3, SignalsFrom
    <3>5. ASSUME NEW u, ack' # NULL, u = ack'.signal.task
          PROVE  last_sequence(u)' >= 2
      BY <1>2, <2>2, <3>0, <3>1, <3>2, <3>5, SignalsFrom
    <3> QED  BY <3>4, <3>5 DEF SignalsLate, last_sequence
  <2> QED  BY <2>1, <2>2, <2>3
<1> QED  BY <1>1, <1>2

LEMMA AckInvariance == Spec => []AckInv
BY AckInit, AckStep, PTL DEF Spec

\* The numbers of a task's events increase along its log, however POSTs that the
\* server has carried out are repeated, executions overlap in time with the
\* principal's operations, or the sidecar dies and numbers from 1 again.
THEOREM SidecarRecordedOnce == Spec => []RecordedOnce
BY AckInvariance, PTL DEF AckInv

\* No acknowledgement of a signal is ever recorded: the two numbers of its stream
\* are taken, by "created" and by the event the signal is made from.
THEOREM SidecarAcksRefused == Spec => []AcksRefused
BY AckInvariance, PTL DEF AckInv

LEMMA PostsAckQuietly ==
    ASSUME AckInv, ack # NULL, PostsAck
    PROVE  status' = status
<1>1. ack.signal.task \in Tasks /\ ack.sequence \in 1..2
  BY AckParts DEF AckInv, TypeInv, SignalsTyped, Ack
<1>2. last_sequence(ack.signal.task) >= 2 /\ last_sequence(ack.signal.task) \in Nat
  BY <1>1, LastEvent DEF AckInv, SignalsLate, TypeInv
<1>3. ~accepts(ack.signal.task, ack_event.sequence, ack_event.kind)
  BY <1>1, <1>2 DEF accepts, ack_event
<1>4. PostAck => UNCHANGED server
  BY <1>3 DEF PostAck, process_sidecar_event
<1> QED  BY <1>4 DEF PostsAck, _post_ack, _post_ack_retry, _post_ack_raises, server

\* An acknowledgement that arrives late, when the task has been resumed, cancelled
\* or completed since the signal was handled, undoes nothing, however often it is
\* posted.
THEOREM SidecarAcksUndoNothing == Spec => AcksUndoNothing
<1>1. ASSUME AckInv, [Next]_vars, ack # NULL, ack' # ack PROVE status' = status
  <2>1. Next
    BY <1>1 DEF vars, signalling
  <2>2. CASE PostsAck
    BY <1>1, <2>2, PostsAckQuietly
  <2>3. CASE Restart
    BY <2>3 DEF Restart, server
  <2>4. ASSUME NEW t \in Tasks, Coroutine(t) PROVE FALSE
    BY <1>1, <2>4, CoroutineSteps DEF CoroutineStep, AckInv
  <2>5. ASSUME NEW t \in Tasks, Principal(t) \/ Minute(t) \/ _dispatch_ends(t)
        PROVE  FALSE
    BY <1>1, <2>5 DEF Principal, cancel_task, redirect_task, pause_task, resume_task,
                      retask_task, inject_context, operation, Minute, _dispatch_ends,
                      signalling
  <2>6. ASSUME poll \/ run \/ poll_signals \/ \E s \in signals : _handle_signal(s)
        PROVE  FALSE
    BY <1>1, <2>6 DEF poll, run, poll_signals, _handle_signal, signalling
  <2> QED  BY <2>1, <2>2, <2>3, <2>4, <2>5, <2>6, Steps
<1>2. AckInv /\ [Next]_vars => [ack # NULL /\ ack' # ack => status' = status]_vars
  BY <1>1
<1> QED  BY <1>2, AckInvariance, PTL DEF Spec, AcksUndoNothing

-----------------------------------------------------------------------------
(* The outcomes of executions.                                             *)

Outcome(t, i) == /\ log[t][i].by = "executor"
                 /\ log[t][i].kind \in {"completed", "failed"}

\* A task some outcome was recorded of has ended in a way only retask leaves, and
\* no second outcome was.
OutcomeInv ==
    \A t \in Tasks : \A i \in 1..Len(log[t]) :
        Outcome(t, i) => /\ status[t] \in {"completed", "failed", "retasked"}
                         /\ \A j \in 1..Len(log[t]) : Outcome(t, j) => i = j

\* An outcome is taken in an active state only; after one, the status moves no
\* further than "retasked".
LEMMA OutcomeMoves ==
    ASSUME TypeInv, NEW t \in Tasks, NEW e \in Event, NEW st \in TaskStatus,
           ByPrincipal(t, e, st) \/ ByExecutor(t, e, st),
           status[t] \in {"completed", "failed", "retasked"}
    PROVE  /\ st \in {"completed", "failed", "retasked"}
           /\ e.by = "executor" => e.kind \notin {"completed", "failed"}
<1>1. CASE ByPrincipal(t, e, st)
  BY <1>1 DEF ByPrincipal, Operations
<1>2. CASE ByExecutor(t, e, st)
  BY <1>2 DEF ByExecutor, Posted, validate_transition, VALID_TRANSITIONS, TaskStatus
<1> QED  BY <1>1, <1>2

LEMMA OutcomeStep ==
    ASSUME AckInv, OutcomeInv, [Next]_vars
    PROVE  OutcomeInv'
<1> USE DEF AckInv
<1>0. TypeInv /\ ServerTyped
  BY DEF TypeInv
<1>1. CASE UNCHANGED <<status, log>>
  BY <1>1 DEF OutcomeInv, Outcome
<1>2. ASSUME NEW t \in Tasks, NEW e \in Event, NEW st \in TaskStatus, Appends(t, e, st),
             ByPrincipal(t, e, st) \/ ByExecutor(t, e, st)
      PROVE  OutcomeInv'
  <2>0. PICK n \in Nat : n = Len(log[t])
    BY <1>0, LastEvent
  <2>1. /\ Len(log'[t]) = n + 1 /\ log'[t][n + 1] = e /\ status'[t] = st
        /\ \A i \in 1..n : log'[t][i] = log[t][i]
    BY <1>0, <1>2, <2>0, AppendedLog
  <2> SUFFICES ASSUME NEW u \in Tasks, NEW i \in 1..Len(log'[u]), Outcome(u, i)'
               PROVE  /\ status'[u] \in {"completed", "failed", "retasked"}
                      /\ \A j \in 1..Len(log'[u]) : Outcome(u, j)' => i = j
    BY DEF OutcomeInv
  <2>2. CASE u # t
    <3>1. log'[u] = log[u] /\ status'[u] = status[u]
      BY <1>0, <1>2, <2>2, AppendedLog
    <3> QED  BY <3>1 DEF OutcomeInv, Outcome
  <2>3. CASE u = t
    <3>1. \A j \in 1..n : Outcome(t, j)' <=> Outcome(t, j)
      BY <2>1 DEF Outcome
    <3>2. CASE \E k \in 1..n : Outcome(t, k)
      <4>1. PICK k \in 1..n : Outcome(t, k)
        BY <3>2
      <4>2. /\ status[t] \in {"completed", "failed", "retasked"}
            /\ \A j \in 1..n : Outcome(t, j) => k = j
        BY <2>0, <4>1 DEF OutcomeInv
      <4>3. /\ st \in {"completed", "failed", "retasked"}
            /\ e.by = "executor" => e.kind \notin {"completed", "failed"}
        BY <1>0, <1>2, <4>2, OutcomeMoves
      <4>4. ~Outcome(t, n + 1)'
        BY <2>1, <4>3 DEF Outcome
      <4>5. \A j \in 1..(n + 1) : Outcome(t, j)' => j = k
        BY <3>1, <4>2, <4>4
      <4> QED  BY <2>1, <2>3, <4>3, <4>5
    <3>3. CASE ~ \E k \in 1..n : Outcome(t, k)
      <4>1. \A j \in 1..(n + 1) : Outcome(t, j)' => j = n + 1
        BY <3>1, <3>3
      <4>2. i = n + 1
        BY <2>1, <2>3, <4>1
      <4>3. e.by = "executor" /\ e.kind \in {"completed", "failed"}
        BY <2>1, <2>3, <4>2 DEF Outcome
      <4>4. st = e.kind
        BY <1>2, <4>3 DEF ByPrincipal, ByExecutor, Posted, TaskStatus
      <4> QED  BY <2>1, <2>3, <4>1, <4>2, <4>3, <4>4
    <3> QED  BY <3>2, <3>3
  <2> QED  BY <2>2, <2>3
<1>3. CASE UNCHANGED vars
  BY <1>1, <1>3 DEF vars, server
<1> QED  BY <1>0, <1>1, <1>2, <1>3, LogEffect, NoAck

\* Of a task that is executed several times, by an overtaken response or after a
\* crash, at most one outcome is recorded: the log takes no outcome after one.
THEOREM SidecarOneOutcome == Spec => []OneOutcome
<1>1. Init => OutcomeInv
  <2> SUFFICES ASSUME Init, NEW t \in Tasks, NEW i \in 1..Len(log[t]) PROVE ~Outcome(t, i)
    BY DEF OutcomeInv
  <2>1. log[t] = <<[sequence |-> 1, kind |-> "created", by |-> "server"]>>
    BY DEF Init
  <2>2. i = 1
    BY <2>1
  <2> QED  BY <2>1, <2>2 DEF Outcome
<1>2. OutcomeInv => OneOutcome
  <2> SUFFICES ASSUME OutcomeInv, NEW t \in Tasks
               PROVE  Cardinality({i \in 1..Len(log[t]) :
                                     /\ log[t][i].by = "executor"
                                     /\ log[t][i].kind \in {"completed", "failed"}}) <= 1
    BY DEF OneOutcome
  <2> DEFINE S == {i \in 1..Len(log[t]) : /\ log[t][i].by = "executor"
                                          /\ log[t][i].kind \in {"completed", "failed"}}
  <2>1. CASE S = {}
    BY <2>1, FS_EmptySet
  <2>2. ASSUME NEW i \in S PROVE Cardinality(S) <= 1
    <3>1. S = {i}
      BY DEF OutcomeInv, Outcome
    <3> HIDE DEF S
    <3>2. Cardinality(S) = 1
      BY <3>1, FS_Singleton
    <3> QED  BY <3>2
  <2> QED  BY <2>1, <2>2
<1> QED  BY <1>1, <1>2, OutcomeStep, AckInvariance, PTL DEF Spec

-----------------------------------------------------------------------------
(* The first execution of a task, up to the event that starts it.          *)

\* What a job holds while its task, in its first execution, is still accepted and
\* no POST has failed: last is the number of the task's last event.
JobEarly(j, last) ==
    /\ j.sequence >= 1 /\ last <= j.sequence
    /\ (j.pc = "post" /\ j.sequence > 1) => last < j.sequence
    /\ j.then = "check" => j.sequence > 1
    /\ j.pc \in {"spawn", "stdin"} => j.then = "spawn"
    /\ (j.pc \in {"check", "waiting", "read"} /\ j.then = "check") => j.kind # "running"

Early(t) ==
    /\ job[t].pc # "none" => runs[t] >= 1
    /\ (faults = 0 /\ runs[t] <= 1 /\ status[t] = "accepted") =>
          /\ runs[t] = 0 => last_sequence(t) = 1
          /\ job[t].pc # "none" => JobEarly(job[t], last_sequence(t))

EarlyInv == \A t \in Tasks : Early(t)

LEMMA EarlyPost ==
    ASSUME NEW j \in Job, NEW i \in Job, NEW last \in Nat, last <= j.sequence, j.sequence >= 1,
           i.pc = "post", i.sequence = j.sequence + 1
    PROVE  JobEarly(i, last)
<1>1. j.sequence \in Nat /\ i.sequence \in Nat
  BY DEF Job
<1>2. i.sequence > 1 /\ last < i.sequence
  BY <1>1
<1> QED  BY <1>1, <1>2 DEF JobEarly

LEMMA EarlyGoto ==
    ASSUME NEW j \in Job, NEW pc, NEW last \in Nat, JobEarly(j, last),
           \/ pc \in {"exit", "killed", "end"}
           \/ j.pc \in {"check", "waiting", "read"} /\ pc \in {"check", "waiting", "read"}
           \/ j.pc = "spawn" /\ pc = "stdin"
           \/ j.pc = "stdin" /\ pc = "check"
    PROVE  JobEarly([j EXCEPT !.pc = pc], last)
<1> DEFINE i == [j EXCEPT !.pc = pc]
<1>1. i.pc = pc /\ i.sequence = j.sequence /\ i.then = j.then /\ i.kind = j.kind
  BY DEF Job
<1> HIDE DEF i
<1> QED  BY <1>1 DEF JobEarly

\* The initial "running" has the number of "created"; a handler's has a number
\* above the last one, and is accepted.
LEMMA EarlyAnswered ==
    ASSUME AckInv, NEW t \in Tasks, status[t] = "accepted", job[t].pc = "post",
           JobEarly(job[t], last_sequence(t)), status'[t] = "accepted",
           process_sidecar_event(t, job[t].sequence, job[t].kind, "executor")
    PROVE  /\ last_sequence(t)' \in Nat
           /\ last_sequence(t)' <= job[t].sequence
           /\ job[t].then = "check" => job[t].kind # "running"
<1> USE DEF AckInv
<1>0. ServerTyped /\ job[t].sequence \in Nat /\ job[t].kind \in Kinds
  BY DEF TypeInv, JobsTyped, Job
<1>1. last_sequence(t) \in Nat
  BY <1>0, LastEvent
<1>2. CASE ~accepts(t, job[t].sequence, job[t].kind)
  <2>1. last_sequence(t)' = last_sequence(t)
    BY <1>2 DEF process_sidecar_event, server, last_sequence
  <2>2. ASSUME job[t].then = "check", job[t].kind = "running" PROVE FALSE
    <3>1. job[t].sequence > last_sequence(t)
      BY <1>0, <1>1, <2>2 DEF JobEarly
    <3>2. validate_transition(status[t], "running")
      BY DEF validate_transition, VALID_TRANSITIONS, TaskStatus
    <3> QED  BY <1>2, <2>2, <3>1, <3>2 DEF accepts
  <2> QED  BY <1>0, <1>1, <2>1, <2>2 DEF JobEarly
<1>3. CASE accepts(t, job[t].sequence, job[t].kind)
  <2> DEFINE st == IF job[t].kind \in TaskStatus THEN job[t].kind ELSE status[t]
             e == [sequence |-> job[t].sequence, kind |-> job[t].kind, by |-> "executor"]
  <2>1. record(t, job[t].sequence, job[t].kind, "executor", st)
    BY <1>3 DEF process_sidecar_event
  <2>2. e \in Event /\ Appends(t, e, st)
    BY <1>0, <1>3, <2>1 DEF record, Appends, accepts, Event
  <2>3. last_sequence(t)' = e.sequence /\ status'[t] = st
    BY <1>0, <2>2, AppendedLog
  <2>4. job[t].kind # "running"
    BY <2>3 DEF TaskStatus
  <2> QED  BY <1>0, <2>3, <2>4
<1> QED  BY <1>2, <1>3

LEMMA EarlyCoroutine ==
    ASSUME AckInv, NEW t \in Tasks, Early(t), Coroutine(t), runs[t] <= 1,
           faults' = 0, status[t] = "accepted", status'[t] = "accepted"
    PROVE  JobEarly(job'[t], last_sequence(t)')
<1> USE DEF AckInv
<1>0. /\ TypeInv /\ JobsTyped /\ SignalsTyped /\ ServerTyped /\ Registered
      /\ job[t] \in Job /\ job[t].sequence \in Nat
      /\ last_sequence(t) \in Nat /\ faults \in Nat
  BY LastEvent DEF TypeInv, JobsTyped, Job
<1>1. job[t].pc # "none"
  BY <1>0, CoroutineSteps DEF CoroutineStep
<1>2. faults = 0
  BY <1>0, CoroutinePosts
<1>3. JobEarly(job[t], last_sequence(t))
  BY <1>1, <1>2 DEF Early
<1>4. \A j : Moves(t, j) => job'[t] = j /\ j \in Job
  BY <1>0 DEF Moves, JobsTyped
<1>5. job[t].sequence >= 1 /\ last_sequence(t) <= job[t].sequence
  BY <1>3 DEF JobEarly
<1>6. ASSUME NEW last \in Nat, last <= job[t].sequence, NEW kind \in Kinds,
             NEW then \in {"spawn", "check", "context", "end"}, Yield(t, kind, then)
      PROVE  JobEarly(job'[t], last)
  <2> DEFINE i == [job[t] EXCEPT !.pc = "post", !.sequence = job[t].sequence + 1,
                                 !.kind = kind, !.attempt = 0, !.then = then]
  <2>1. job'[t] = i /\ i \in Job
    BY <1>0, <1>4, <1>6, YieldMoves
  <2>2. i.pc = "post" /\ i.sequence = job[t].sequence + 1
    BY <1>0 DEF Job
  <2> HIDE DEF i
  <2> QED  BY <1>0, <1>5, <1>6, <2>1, <2>2, EarlyPost
<1>7. ASSUME UNCHANGED server, Proceed(t), signal_state[t] # NULL,
             job[t].pc \in {"check", "waiting"}
      PROVE  JobEarly(job'[t], last_sequence(t))
  <2>1. CASE Moves(t, [job[t] EXCEPT !.pc = "read"])
    BY <1>0, <1>3, <1>4, <1>7, <2>1, EarlyGoto
  <2>2. CASE Moves(t, FirstContext(t))
    <3>1. FirstContext(t).pc = "post" /\ FirstContext(t).sequence = job[t].sequence + 1
      BY <1>0 DEF Job, FirstContext
    <3> QED  BY <1>0, <1>4, <1>5, <2>2, <3>1, EarlyPost
  <2> QED  BY <1>0, <1>7, <2>1, <2>2, ProceedMoves
<1>8. UNCHANGED server => last_sequence(t)' = last_sequence(t)
  BY DEF server, last_sequence
<1>8a. ASSUME NEW pc \in Job_pcs, Goto(t, pc), UNCHANGED server,
              \/ pc \in {"exit", "killed", "end"}
              \/ job[t].pc \in {"check", "waiting", "read"} /\ pc \in {"check", "waiting", "read"}
              \/ job[t].pc = "spawn" /\ pc = "stdin"
              \/ job[t].pc = "stdin" /\ pc = "check"
       PROVE  JobEarly(job'[t], last_sequence(t)')
  <2>1. Moves(t, [job[t] EXCEPT !.pc = pc])
    BY <1>0, <1>8a, GotoMoves
  <2>2. job'[t] = [job[t] EXCEPT !.pc = pc]
    BY <1>4, <2>1
  <2>3. JobEarly([job[t] EXCEPT !.pc = pc], last_sequence(t))
    BY <1>0, <1>3, <1>8a, EarlyGoto
  <2> QED  BY <1>8, <1>8a, <2>2, <2>3
<1>9. CASE _post_event(t)
  <2>1. /\ last_sequence(t)' \in Nat
        /\ last_sequence(t)' <= job[t].sequence
        /\ job[t].then = "check" => job[t].kind # "running"
    BY <1>3, <1>9, EarlyAnswered DEF _post_event
  <2>2. CASE job[t].then = "context" /\ Moves(t, NextContext(t))
    <3>1. NextContext(t).pc = "post" /\ NextContext(t).sequence = job[t].sequence + 1
      BY <1>0 DEF Job, NextContext
    <3> QED  BY <1>0, <1>4, <1>5, <2>1, <2>2, <3>1, EarlyPost
  <2>3. CASE job[t].then = "context" /\ Moves(t, [job[t] EXCEPT !.pc = "read"])
    <3> DEFINE i == [job[t] EXCEPT !.pc = "read"]
    <3>1. job'[t] = i
      BY <1>4, <2>3
    <3>2. i.pc = "read" /\ i.sequence = job[t].sequence /\ i.then = "context"
      BY <1>0, <2>3 DEF Job
    <3> HIDE DEF i
    <3> QED  BY <1>0, <1>5, <2>1, <3>1, <3>2 DEF JobEarly
  <2>4. CASE job[t].then # "context" /\ Moves(t, [job[t] EXCEPT !.pc = job[t].then])
    <3> DEFINE i == [job[t] EXCEPT !.pc = job[t].then]
    <3>1. job'[t] = i
      BY <1>4, <2>4
    <3>2. /\ i.pc = job[t].then /\ i.sequence = job[t].sequence
          /\ i.then = job[t].then /\ i.kind = job[t].kind
          /\ job[t].then \in {"spawn", "check", "end"}
      BY <1>0, <2>4 DEF Job
    <3>3. i.then = "check" => i.sequence > 1
      BY <1>3, <3>2 DEF JobEarly
    <3> HIDE DEF i
    <3> QED  BY <1>0, <1>5, <2>1, <3>1, <3>2, <3>3 DEF JobEarly
  <2> QED  BY <1>0, <1>9, <2>2, <2>3, <2>4, ResumeMoves DEF _post_event
<1>10. CASE _post_event_retry(t) \/ _post_event_raises(t)
  BY <1>0, <1>2, <1>10 DEF _post_event_retry, _post_event_raises
<1>11. CASE spawn(t)
  <2>1. UNCHANGED server /\ job[t].pc = "spawn"
    BY <1>11 DEF spawn
  <2>2. CASE Yield(t, "failed", "end")
    BY <1>0, <1>5, <1>6, <1>8, <2>1, <2>2, LineKinds
  <2>3. CASE Goto(t, "stdin")
    BY <1>8a, <2>1, <2>3 DEF Job_pcs
  <2> QED  BY <1>11, <2>2, <2>3 DEF spawn
<1>12. CASE check(t)
  <2>1. signal_state[t] # NULL /\ UNCHANGED server /\ job[t].pc = "check"
    BY <1>0, <1>12 DEF check, Registered
  <2>2. CASE Goto(t, "end") \/ Goto(t, "waiting")
    BY <1>8a, <2>1, <2>2 DEF Job_pcs
  <2>3. CASE Yield(t, "cancelled", "end")
    BY <1>0, <1>5, <1>6, <1>8, <2>1, <2>3, LineKinds
  <2>4. CASE Proceed(t)
    BY <1>7, <1>8, <2>1, <2>4
  <2> QED  BY <1>12, <2>2, <2>3, <2>4 DEF check
<1>13. CASE wait_if_paused(t)
  <2>1. signal_state[t] # NULL /\ UNCHANGED server /\ job[t].pc = "waiting" /\ Proceed(t)
    BY <1>0, <1>13 DEF wait_if_paused, Registered
  <2> QED  BY <1>7, <1>8, <2>1
<1>14. CASE Handler(t) \/ timeout(t)
  <2>1. HandlerMove(t) /\ UNCHANGED server
    BY <1>14, HandlerMoves
  <2>2. ASSUME NEW kind \in Openings \cup Lines, Yield(t, kind, "check")
        PROVE  JobEarly(job'[t], last_sequence(t)')
    BY <1>0, <1>5, <1>6, <1>8, <2>1, <2>2, LineKinds
  <2>3. CASE Goto(t, "check") /\ (job[t].pc = "read" \/ job[t].pc = "stdin")
    BY <1>8a, <2>1, <2>3 DEF Job_pcs
  <2>4. ASSUME NEW pc \in {"exit", "killed", "end"}, Goto(t, pc)
        PROVE  JobEarly(job'[t], last_sequence(t)')
    BY <1>8a, <2>1, <2>4 DEF Job_pcs
  <2>5. CASE Yield(t, "failed", "end")
    BY <1>0, <1>5, <1>6, <1>8, <2>1, <2>5, LineKinds
  <2> QED  BY <2>1, <2>2, <2>3, <2>4, <2>5 DEF HandlerMove
<1> QED  BY <1>9, <1>10, <1>11, <1>12, <1>13, <1>14 DEF Coroutine

\* The coroutine a task is started with.
Started == [NoJob EXCEPT !.pc = "post", !.sequence = 1, !.then = "spawn"]

LEMMA StartedFields ==
    /\ Started \in Job /\ Started.pc = "post" /\ Started.sequence = 1
    /\ Started.then = "spawn" /\ Started.kind = "running"
BY DEF Started, NoJob, Job, Kinds, TaskStatus

\* What a step means to the coroutine of one task.
LEMMA JobEffect ==
    ASSUME TypeInv, Next, NEW u \in Tasks
    PROVE  \/ Coroutine(u)
           \/ job'[u] = job[u] /\ runs'[u] = runs[u]
           \/ job'[u] = NoJob /\ runs'[u] = runs[u]
           \/ /\ run /\ u \in _in_flight' \ _in_flight
              /\ job[u].pc = "none"
              /\ job'[u] = Started /\ runs'[u] = runs[u] + 1
<1> USE DEF TypeInv
<1>1. CASE poll \/ poll_signals \/ \E s \in signals : _handle_signal(s)
  BY <1>1 DEF poll, poll_signals, _handle_signal, poller
<1>2. CASE run
  BY <1>2 DEF run, Started, Registered, JobsTyped
<1>3. CASE PostsAck
  BY <1>3, PostsAckEffect DEF poller
<1>4. CASE Restart
  BY <1>4 DEF Restart
<1>5. ASSUME NEW t \in Tasks, Principal(t) \/ Minute(t)
      PROVE  UNCHANGED <<job, runs>>
  BY <1>5, PrincipalEffect DEF Minute, poller
<1>6. ASSUME NEW t \in Tasks, _dispatch_ends(t)
      PROVE  runs'[u] = runs[u] /\ (job'[u] = job[u] \/ job'[u] = NoJob)
  BY <1>6 DEF _dispatch_ends, JobsTyped
<1>7. ASSUME NEW t \in Tasks, t # u, Coroutine(t)
      PROVE  job'[u] = job[u] /\ runs'[u] = runs[u]
  BY <1>7, CoroutineSteps DEF CoroutineStep, Moves, JobsTyped
<1> QED  BY Steps, <1>1, <1>2, <1>3, <1>4, <1>5, <1>6, <1>7

LEMMA FaultsGrow ==
    ASSUME TypeInv, Next
    PROVE  faults' \in Nat /\ faults' >= faults
<1> USE DEF TypeInv
<1>1. faults' = faults \/ faults' = faults + 1
  <2>1. CASE poll \/ run \/ poll_signals \/ Restart \/ \E s \in signals : _handle_signal(s)
    BY <2>1 DEF poll, run, poll_signals, Restart, _handle_signal, counters
  <2>2. CASE PostsAck
    BY <2>2, PostsAckEffect
  <2>3. ASSUME NEW t \in Tasks,
               Principal(t) \/ Minute(t) \/ Coroutine(t) \/ _dispatch_ends(t)
        PROVE  faults' = faults \/ faults' = faults + 1
    BY <2>3, PrincipalEffect, CoroutinePosts DEF Minute, _dispatch_ends, counters
  <2> QED  BY Steps, <2>1, <2>2, <2>3
<1> QED  BY <1>1

\* A task that is accepted after a step was so before it, and only its own
\* executor has written to its log.
LEMMA StillAccepted ==
    ASSUME AckInv, Next, NEW u \in Tasks, status'[u] = "accepted"
    PROVE  /\ status[u] = "accepted"
           /\ Coroutine(u) \/ log'[u] = log[u]
<1>1. TypeInv /\ ServerTyped
  BY DEF AckInv, TypeInv
<1>2. ASSUME NEW t \in Tasks, NEW e \in Event, NEW st \in TaskStatus, Appends(t, e, st),
             ByPrincipal(t, e, st) \/ ByExecutor(t, e, st)
      PROVE  /\ status[u] = "accepted"
             /\ Coroutine(u) \/ log'[u] = log[u]
  <2>1. CASE t # u
    BY <1>1, <1>2, <2>1, AppendedLog
  <2>2. CASE t = u
    <3>1. st = "accepted"
      BY <1>1, <1>2, <2>2, AppendedLog
    <3>2. CASE ByPrincipal(t, e, st)
      BY <3>1, <3>2 DEF ByPrincipal, Operations
    <3>3. CASE ByExecutor(t, e, st)
      <4>1. status[t] \in TaskStatus
        BY <1>1 DEF ServerTyped
      <4> QED  BY <2>2, <3>1, <3>3, <4>1
               DEF ByExecutor, Posted, validate_transition, VALID_TRANSITIONS, TaskStatus
    <3> QED  BY <1>2, <3>2, <3>3
  <2> QED  BY <2>1, <2>2
<1> QED  BY <1>1, <1>2, LogEffect, NoAck

LEMMA EarlyStep ==
    ASSUME AckInv, EarlyInv, [Next]_vars
    PROVE  EarlyInv'
<1>0. TypeInv /\ ServerTyped /\ JobsTyped /\ faults \in Nat
  BY DEF AckInv, TypeInv
<1>1. CASE UNCHANGED vars
  BY <1>1 DEF vars, server, poller, counters, EarlyInv, Early, last_sequence
<1>2. CASE Next
  <2> SUFFICES ASSUME NEW u \in Tasks PROVE Early(u)'
    BY DEF EarlyInv
  <2>0. Early(u) /\ runs[u] \in Nat /\ job[u] \in Job /\ faults' \in Nat /\ faults' >= faults
    BY <1>0, <1>2, FaultsGrow DEF EarlyInv, JobsTyped
  <2>1. CASE Coroutine(u)
    <3>1. runs'[u] = runs[u] /\ job[u].pc # "none"
      BY <1>0, <2>1, CoroutineSteps DEF CoroutineStep
    <3>2. runs[u] >= 1
      BY <2>0, <3>1 DEF Early
    <3>3. ASSUME faults' = 0, runs'[u] <= 1, status'[u] = "accepted"
          PROVE  JobEarly(job'[u], last_sequence(u)')
      BY <1>2, <2>0, <2>1, <3>1, <3>3, StillAccepted, EarlyCoroutine
    <3> QED  BY <2>0, <3>1, <3>2, <3>3 DEF Early
  <2>2. CASE ~Coroutine(u) /\ runs'[u] = runs[u] /\ job'[u] \in {job[u], NoJob}
    <3>1. status'[u] = "accepted" => /\ status[u] = "accepted"
                                     /\ last_sequence(u)' = last_sequence(u)
      BY <1>2, <2>2, StillAccepted DEF last_sequence
    <3>2. faults' = 0 => faults = 0
      BY <1>0, <2>0
    <3> QED  BY <2>0, <2>2, <3>1, <3>2, NewEntry DEF Early
  <2>3. CASE run /\ job'[u] = Started /\ runs'[u] = runs[u] + 1
    <3>1. UNCHANGED <<log, status, faults>>
      BY <2>3 DEF run, server, counters
    <3>2. last_sequence(u)' = last_sequence(u)
      BY <3>1 DEF last_sequence
    <3>3. (faults' = 0 /\ runs'[u] <= 1 /\ status'[u] = "accepted") => last_sequence(u) = 1
      BY <2>0, <2>3, <3>1 DEF Early
    <3>4. last_sequence(u) = 1 => JobEarly(Started, last_sequence(u))
      BY StartedFields DEF JobEarly
    <3> QED  BY <2>0, <2>3, <3>2, <3>3, <3>4, StartedFields DEF Early
  <2> QED  BY <1>0, <1>2, <2>1, <2>2, <2>3, JobEffect
<1> QED  BY <1>1, <1>2

\* A handler that says "running" first has its task running once it has been
\* answered: the number of its event is free, although that of the streamer's own
\* "running" never is.
THEOREM SidecarSaysRunning == Spec => []HandlerSaysRunning
<1>1. Init => EarlyInv
  BY DEF Init, EarlyInv, Early, last_sequence, NoJob
<1>2. AckInv /\ EarlyInv => HandlerSaysRunning
  BY DEF EarlyInv, Early, JobEarly, HandlerSaysRunning
<1> QED  BY <1>1, <1>2, EarlyStep, AckInvariance, PTL DEF Spec

-----------------------------------------------------------------------------
(* Pauses and resumptions reach the executor in order.                     *)

PauseKinds == {"pause_requested", "resume_requested"}

\* The signals that the pauses and resumptions of t give.
PauseSignals(t) ==
    {[task |-> t, signal_type |-> log[t][i].kind, timestamp |-> log[t][i].sequence] :
       i \in {k \in 1..Len(log[t]) : log[t][k].kind \in PauseKinds}}

\* The signals that were handled, the one that is being acknowledged included.
Handled == _processed_signals \cup (IF ack = NULL THEN {} ELSE {ack.signal})

\* The last of the signals is a pause.
EndsPaused(S) == \E x \in S : /\ x.signal_type = "pause_requested"
                              /\ \A y \in S : y.timestamp <= x.timestamp

Ended(t) == status[t] \in {"cancelled", "redirected"}

\* An executor's only status of an active task is "running", with number 1 or 2.
JobSays(j) ==
    /\ j.kind \notin {"paused", "pause_requested", "resume_requested"}
    /\ j.kind = "running" => j.sequence <= 2
    /\ j.then = "context" => j.kind = "context_injected"

\* Before its first execution a task may have been cancelled, and no more.
Untouched(t) ==
    runs[t] = 0 => /\ job[t].pc = "none"
                   /\ status[t] \in {"accepted", "cancelled"}
                   /\ PauseSignals(t) = {}

\* The server's status is what the last pause or resumption says.
StatusFromLog(t) ==
    status[t] \in {"running", "paused"} =>
        (status[t] = "paused" <=> EndsPaused(PauseSignals(t)))

\* A signal of a pause or a resumption is that of an event, and a signal of an end
\* is that of a task that has ended so.
SignalsTrue ==
    /\ \A s \in signals \cup Handled :
          s.signal_type \in PauseKinds => s \in PauseSignals(s.task)
    /\ \A s \in signals :
          s.signal_type \in {"cancel_requested", "redirect_requested"} => Ended(s.task)

\* Behind a signal wait all the earlier ones of its task that were not handled.
InOrder(t) ==
    \A s, x \in PauseSignals(t) :
        (s \in signals /\ x.timestamp < s.timestamp) => x \in signals \cup Handled

\* Those handled are the earliest.
HandledFirst(t) ==
    \A x, y \in PauseSignals(t) :
        (x.timestamp < y.timestamp /\ y \in Handled) => x \in Handled

\* The pause event is clear exactly if the last one handled was a pause.
FlagFromHandled(t) ==
    ~Ended(t) => (~signal_state[t].running <=>
                     EndsPaused(PauseSignals(t) \cap Handled))

\* In its first execution.
Live(t) == t \in _in_flight /\ runs[t] = 1

PauseInv ==
    /\ SignalsTrue
    /\ \A t \in Tasks :
          /\ JobSays(job[t]) /\ Untouched(t) /\ StatusFromLog(t)
          /\ Live(t) => InOrder(t) /\ HandledFirst(t) /\ FlagFromHandled(t)

LEMMA JobSaysStarted == JobSays(NoJob) /\ JobSays(Started)
BY StartedFields DEF JobSays, NoJob

LEMMA JobSaysGoto ==
    ASSUME NEW j \in Job, NEW pc, JobSays(j)
    PROVE  JobSays([j EXCEPT !.pc = pc])
BY DEF JobSays, Job

LEMMA JobSaysCoroutine ==
    ASSUME "running" \notin Lines, TypeInv, NEW t \in Tasks, JobSays(job[t]), Coroutine(t)
    PROVE  JobSays(job'[t])
<1>0. /\ JobsTyped /\ SignalsTyped /\ Registered
      /\ job[t] \in Job /\ job[t].sequence \in Nat
  BY DEF TypeInv, JobsTyped, Job
<1>1. \A j : Moves(t, j) => job'[t] = j /\ j \in Job
  BY <1>0 DEF Moves, JobsTyped
<1>2. ASSUME NEW pc \in Job_pcs, Goto(t, pc)
      PROVE  JobSays(job'[t])
  <2>1. Moves(t, [job[t] EXCEPT !.pc = pc])
    BY <1>0, <1>2, GotoMoves
  <2>2. job'[t] = [job[t] EXCEPT !.pc = pc]
    BY <1>1, <2>1
  <2>3. JobSays([job[t] EXCEPT !.pc = pc])
    BY <1>0, JobSaysGoto
  <2> QED  BY <2>2, <2>3
<1>3. ASSUME NEW kind \in Kinds, kind \notin {"paused", "pause_requested", "resume_requested"},
             kind = "running" => job[t].sequence = 1,
             NEW then \in {"spawn", "check", "end"}, Yield(t, kind, then)
      PROVE  JobSays(job'[t])
  <2> DEFINE i == [job[t] EXCEPT !.pc = "post", !.sequence = job[t].sequence + 1,
                                 !.kind = kind, !.attempt = 0, !.then = then]
  <2>0. Moves(t, i)
    BY <1>0, <1>3, YieldMoves
  <2>1. job'[t] = i
    BY <1>1, <2>0
  <2>2. i.kind = kind /\ i.sequence = job[t].sequence + 1 /\ i.then = then
    BY <1>0 DEF Job
  <2> HIDE DEF i
  <2>3. i.kind = "running" => i.sequence <= 2
    BY <1>3, <2>2
  <2> QED  BY <1>3, <2>1, <2>2, <2>3 DEF JobSays
<1>4. ASSUME Resume(t) PROVE JobSays(job'[t])
  <2>1. CASE job[t].then = "context" /\ Moves(t, NextContext(t))
    <3>1. NextContext(t).kind = job[t].kind /\ NextContext(t).then = job[t].then
      BY <1>0 DEF Job, NextContext
    <3> QED  BY <1>1, <2>1, <3>1 DEF JobSays
  <2>2. CASE Moves(t, [job[t] EXCEPT !.pc = "read"])
    BY <1>0, <1>1, <2>2, JobSaysGoto
  <2>3. CASE Moves(t, [job[t] EXCEPT !.pc = job[t].then])
    BY <1>0, <1>1, <2>3, JobSaysGoto
  <2> QED  BY <1>0, <1>4, <2>1, <2>2, <2>3, ResumeMoves
<1>5. ASSUME Proceed(t), signal_state[t] # NULL PROVE JobSays(job'[t])
  <2>1. CASE Moves(t, [job[t] EXCEPT !.pc = "read"])
    BY <1>0, <1>1, <2>1, JobSaysGoto
  <2>2. CASE Moves(t, FirstContext(t))
    <3>1. FirstContext(t).kind = "context_injected"
      BY <1>0 DEF Job, FirstContext
    <3> QED  BY <1>1, <2>2, <3>1 DEF JobSays
  <2> QED  BY <1>0, <1>5, <2>1, <2>2, ProceedMoves
<1>6. CASE _post_event(t)
  BY <1>4, <1>6 DEF _post_event
<1>7. CASE _post_event_retry(t)
  <2>1. CASE job[t].attempt < _MAX_RETRIES
    <3> DEFINE i == [job[t] EXCEPT !.attempt = job[t].attempt + 1]
    <3>1. job'[t] = i
      BY <1>0, <1>1, <1>7, <2>1, AttemptMoves DEF _post_event_retry
    <3>2. i.kind = job[t].kind /\ i.sequence = job[t].sequence /\ i.then = job[t].then
      BY <1>0 DEF Job
    <3> HIDE DEF i
    <3> QED  BY <3>1, <3>2 DEF JobSays
  <2>2. CASE ~(job[t].attempt < _MAX_RETRIES)
    BY <1>4, <1>7, <2>2 DEF _post_event_retry
  <2> QED  BY <2>1, <2>2
<1>8. CASE _post_event_raises(t)
  BY <1>2, <1>8 DEF _post_event_raises, Job_pcs
<1>9. CASE spawn(t)
  BY <1>2, <1>3, <1>9, LineKinds DEF spawn, Job_pcs
<1>10. CASE check(t)
  <2>1. signal_state[t] # NULL
    BY <1>0, <1>10 DEF check, Registered
  <2>2. CASE Goto(t, "end") \/ Goto(t, "waiting")
    BY <1>2, <2>2 DEF Job_pcs
  <2>3. CASE Yield(t, "cancelled", "end")
    BY <1>3, <2>3, LineKinds
  <2>4. CASE Proceed(t)
    BY <1>5, <2>1, <2>4
  <2> QED  BY <1>10, <2>2, <2>3, <2>4 DEF check
<1>11. CASE wait_if_paused(t)
  BY <1>0, <1>5, <1>11 DEF wait_if_paused, Registered
<1>12. CASE Handler(t) \/ timeout(t)
  <2>1. HandlerMove(t)
    BY <1>12, HandlerMoves
  <2>2. ASSUME NEW kind \in Openings \cup Lines, job[t].sequence # 1 => kind \in Lines,
               Yield(t, kind, "check")
        PROVE  JobSays(job'[t])
    <3>1. /\ kind \in {"running", "completed", "failed", "progress", "log"}
          /\ kind = "running" => job[t].sequence = 1
      BY <2>2, SidecarAssumption
    <3> QED  BY <1>3, <2>2, <3>1, LineKinds
  <2>3. ASSUME NEW pc \in {"check", "exit", "killed", "end"}, Goto(t, pc)
        PROVE  JobSays(job'[t])
    BY <1>2, <2>3 DEF Job_pcs
  <2>4. CASE Yield(t, "failed", "end")
    BY <1>3, <2>4, LineKinds
  <2> QED  BY <2>1, <2>2, <2>3, <2>4 DEF HandlerMove
<1> QED  BY <1>6, <1>7, <1>8, <1>9, <1>10, <1>11, <1>12 DEF Coroutine

\* A coroutine leaves the pause event of its task alone.
LEMMA CoroutineFlags ==
    ASSUME TypeInv, NEW t \in Tasks, Coroutine(t)
    PROVE  signal_state'[t].running = signal_state[t].running
<1>1. CASE UNCHANGED signal_state
  BY <1>1
<1>2. ASSUME Proceed(t), signal_state[t] # NULL
      PROVE  signal_state'[t].running = signal_state[t].running
  <2>1. signal_state[t] \in SignalEntry
    BY <1>2 DEF TypeInv, SignalsTyped
  <2>2. signal_state'[t] = [signal_state[t] EXCEPT !.queue = 0]
    BY <1>2, ProceedMoves DEF TypeInv, SignalsTyped
  <2> QED  BY <2>1, <2>2 DEF SignalEntry
<1>3. CASE check(t)
  BY <1>1, <1>2, <1>3 DEF check, TypeInv, Registered
<1>4. CASE wait_if_paused(t)
  BY <1>2, <1>4 DEF wait_if_paused, TypeInv, Registered
<1> QED  BY <1>1, <1>3, <1>4 DEF Coroutine, _post_event, _post_event_retry,
           _post_event_raises, spawn, Handler, feed_stdin, readline, process_exit,
           kill_done, timeout, signalling

LEMMA PauseSignalFacts ==
    ASSUME ServerTyped, RecordedOnce, NEW t \in Tasks, NEW x \in PauseSignals(t)
    PROVE  /\ x.task = t /\ x.signal_type \in PauseKinds
           /\ x.timestamp \in Nat /\ x.timestamp <= last_sequence(t)
           /\ \A y \in PauseSignals(t) : x.timestamp = y.timestamp => x = y
<1> DEFINE I == {k \in 1..Len(log[t]) : log[t][k].kind \in PauseKinds}
           sig(i) == [task |-> t, signal_type |-> log[t][i].kind,
                      timestamp |-> log[t][i].sequence]
<1>1. PICK i \in I : x = sig(i)
  BY DEF PauseSignals
<1>2. ASSUME NEW j \in I, NEW y, y = sig(j), x.timestamp = y.timestamp PROVE x = y
  <2>1. log[t][i].sequence = log[t][j].sequence
    BY <1>1, <1>2
  <2>2. i \in Nat /\ j \in Nat
    OBVIOUS
  <2>3. i = j
    BY <2>1, <2>2, LastIsGreatest DEF RecordedOnce
  <2> QED  BY <1>1, <1>2, <2>3
<1>3. \A y \in PauseSignals(t) : x.timestamp = y.timestamp => x = y
  BY <1>2 DEF PauseSignals
<1>4. /\ x.task = t /\ x.signal_type \in PauseKinds
      /\ x.timestamp \in Nat /\ x.timestamp <= last_sequence(t)
  BY <1>1, LastIsGreatest
<1> QED  BY <1>3, <1>4

NewSignal(t, e) == [task |-> t, signal_type |-> e.kind, timestamp |-> e.sequence]

LEMMA AppendPause ==
    ASSUME ServerTyped, NEW t \in Tasks, NEW e \in Event, NEW st, Appends(t, e, st)
    PROVE  /\ e.kind \notin PauseKinds => PauseSignals(t)' = PauseSignals(t)
           /\ e.kind \in PauseKinds =>
                 PauseSignals(t)' = PauseSignals(t) \cup {NewSignal(t, e)}
           /\ \A u \in Tasks \ {t} : PauseSignals(u)' = PauseSignals(u)
<1>0. PICK n \in Nat : n = Len(log[t])
  BY LastEvent
<1>1. /\ Len(log'[t]) = n + 1 /\ log'[t][n + 1] = e
      /\ \A i \in 1..n : log'[t][i] = log[t][i]
      /\ \A u \in Tasks \ {t} : log'[u] = log[u]
  BY <1>0, AppendedLog
<1> DEFINE sig(i) == [task |-> t, signal_type |-> log[t][i].kind,
                      timestamp |-> log[t][i].sequence]
           sig2(i) == [task |-> t, signal_type |-> log'[t][i].kind,
                       timestamp |-> log'[t][i].sequence]
           I == {k \in 1..n : log[t][k].kind \in PauseKinds}
           J == {k \in 1..(n + 1) : log'[t][k].kind \in PauseKinds}
<1>2. PauseSignals(t) = {sig(i) : i \in I} /\ PauseSignals(t)' = {sig2(i) : i \in J}
  BY <1>0, <1>1 DEF PauseSignals
<1>3. \A i \in I : sig2(i) = sig(i)
  BY <1>1
<1>4. sig2(n + 1) = NewSignal(t, e)
  BY <1>1 DEF NewSignal
<1>5. J = IF e.kind \in PauseKinds THEN I \cup {n + 1} ELSE I
  <2>1. \A k : k \in 1..(n + 1) <=> k \in 1..n \/ k = n + 1
    BY <1>0
  <2>2. \A k \in 1..n : log'[t][k].kind \in PauseKinds <=> log[t][k].kind \in PauseKinds
    BY <1>1
  <2> QED  BY <1>1, <2>1, <2>2
<1>6. \A u \in Tasks \ {t} : PauseSignals(u)' = PauseSignals(u)
  BY <1>1 DEF PauseSignals
<1> HIDE DEF sig, sig2, I, J
<1> QED  BY <1>2, <1>3, <1>4, <1>5, <1>6

\* A step adds to the pauses and resumptions of a task by an operation of the
\* principal only, and a later one than those there are.
LEMMA PauseSignalsGrow ==
    ASSUME AckInv, Next, NEW u \in Tasks, JobSays(job[u])
    PROVE  \/ PauseSignals(u)' = PauseSignals(u)
           \/ \E e \in Event, st \in TaskStatus :
                 /\ Appends(u, e, st) /\ ByPrincipal(u, e, st)
                 /\ e.kind \in PauseKinds
                 /\ PauseSignals(u)' = PauseSignals(u) \cup {NewSignal(u, e)}
                 /\ \A x \in PauseSignals(u) : x.timestamp < e.sequence
                 /\ NewSignal(u, e) \notin PauseSignals(u)
<1>0. TypeInv /\ ServerTyped /\ RecordedOnce
  BY DEF AckInv, TypeInv
<1>1. CASE UNCHANGED <<status, log>>
  BY <1>1 DEF PauseSignals
<1>2. ASSUME NEW t \in Tasks, NEW e \in Event, NEW st \in TaskStatus, Appends(t, e, st),
             t # u \/ e.kind \notin PauseKinds
      PROVE  PauseSignals(u)' = PauseSignals(u)
  BY <1>0, <1>2, AppendPause
<1>3. ASSUME NEW e \in Event, NEW st \in TaskStatus, Appends(u, e, st), ByExecutor(u, e, st)
      PROVE  e.kind \notin PauseKinds
  BY <1>3 DEF ByExecutor, JobSays, PauseKinds
<1>4. ASSUME NEW e \in Event, NEW st \in TaskStatus, Appends(u, e, st),
             e.kind \in PauseKinds
      PROVE  /\ PauseSignals(u)' = PauseSignals(u) \cup {NewSignal(u, e)}
             /\ \A x \in PauseSignals(u) : x.timestamp < e.sequence
             /\ NewSignal(u, e) \notin PauseSignals(u)
  <2>1. last_sequence(u) \in Nat /\ e.sequence \in Nat /\ e.sequence > last_sequence(u)
    BY <1>0, <1>4, LastEvent DEF Event, Appends
  <2>2. \A x \in PauseSignals(u) : x.timestamp < e.sequence
    BY <1>0, <2>1, PauseSignalFacts
  <2>3. NewSignal(u, e) \notin PauseSignals(u)
    BY <2>1, <2>2 DEF NewSignal
  <2> QED  BY <1>0, <1>4, <2>2, <2>3, AppendPause
<1> QED  BY <1>0, <1>1, <1>2, <1>3, <1>4, LogEffect, NoAck

\* A task that has been cancelled or redirected stays so.
LEMMA EndedStays ==
    ASSUME AckInv, Next, NEW u \in Tasks
    PROVE  Ended(u) => Ended(u)'
<1>0. TypeInv /\ ServerTyped
  BY DEF AckInv, TypeInv
<1>1. CASE UNCHANGED <<status, log>>
  BY <1>1 DEF Ended
<1>2. ASSUME NEW t \in Tasks, NEW e \in Event, NEW st \in TaskStatus, Appends(t, e, st),
             ByPrincipal(t, e, st) \/ ByExecutor(t, e, st)
      PROVE  Ended(u) => Ended(u)'
  <2>1. CASE t # u
    BY <1>0, <1>2, <2>1, AppendedLog DEF Ended
  <2>2. CASE t = u /\ Ended(u)
    <3>1. CASE ByPrincipal(t, e, st)
      BY <2>2, <3>1 DEF ByPrincipal, Operations, Ended
    <3>2. CASE ByExecutor(t, e, st)
      <4>1. st = status[t]
        BY <2>2, <3>2
        DEF ByExecutor, Posted, validate_transition, VALID_TRANSITIONS, TaskStatus, Ended
      <4> QED  BY <1>0, <1>2, <2>2, <4>1, AppendedLog DEF Ended
    <3> QED  BY <1>2, <3>1, <3>2
  <2> QED  BY <2>1, <2>2
<1> QED  BY <1>0, <1>1, <1>2, LogEffect, NoAck

LEMMA EndsPausedLast ==
    ASSUME NEW S, NEW x, x.timestamp \in Nat,
           \A y \in S : y.timestamp \in Nat /\ y.timestamp < x.timestamp
    PROVE  EndsPaused(S \cup {x}) <=> x.signal_type = "pause_requested"
<1>1. ASSUME x.signal_type = "pause_requested" PROVE EndsPaused(S \cup {x})
  <2>1. \A y \in S \cup {x} : y.timestamp <= x.timestamp
    OBVIOUS
  <2> QED  BY <1>1, <2>1 DEF EndsPaused
<1>2. ASSUME EndsPaused(S \cup {x}) PROVE x.signal_type = "pause_requested"
  <2>1. PICK z \in S \cup {x} : /\ z.signal_type = "pause_requested"
                                /\ x.timestamp <= z.timestamp
    BY <1>2 DEF EndsPaused
  <2> QED  BY <2>1
<1> QED  BY <1>1, <1>2

\* What a status in the first events of a log means: no pause came before it.
LEMMA EarlyStatus ==
    ASSUME AckInv, NEW u \in Tasks, NEW e \in Event, NEW st, Appends(u, e, st),
           e.sequence <= 2
    PROVE  PauseSignals(u) = {}
<1>1. ServerTyped /\ last_sequence(u) \in Nat /\ e.sequence \in Nat
  BY LastEvent DEF AckInv, TypeInv, Event
<1>2. last_sequence(u) <= 1
  BY <1>1 DEF Appends
<1>3. ASSUME NEW i \in 1..Len(log[u]), log[u][i].kind \in PauseKinds PROVE FALSE
  <2>1. log[u][i].sequence >= 2
    BY <1>3 DEF AckInv, Numbered, PauseKinds
  <2>2. log[u][i].sequence \in Nat /\ log[u][i].sequence <= last_sequence(u)
    BY <1>1, LastIsGreatest DEF AckInv
  <2> QED  BY <1>1, <1>2, <2>1, <2>2
<1> QED  BY <1>3 DEF PauseSignals

LEMMA StatusFromLogStep ==
    ASSUME AckInv, Next, NEW u \in Tasks, JobSays(job[u]), StatusFromLog(u)
    PROVE  StatusFromLog(u)'
<1>0. TypeInv /\ ServerTyped /\ RecordedOnce
  BY DEF AckInv, TypeInv
<1>1. CASE UNCHANGED <<status, log>>
  BY <1>1 DEF StatusFromLog, PauseSignals
<1>2. ASSUME NEW t \in Tasks, NEW e \in Event, NEW st \in TaskStatus, Appends(t, e, st),
             ByPrincipal(t, e, st) \/ ByExecutor(t, e, st)
      PROVE  StatusFromLog(u)'
  <2>1. CASE t # u
    <3>1. PauseSignals(u)' = PauseSignals(u) /\ status'[u] = status[u]
      BY <1>0, <1>2, <2>1, AppendPause, AppendedLog
    <3> QED  BY <3>1 DEF StatusFromLog
  <2>2. CASE t = u /\ st \notin {"running", "paused"}
    BY <1>0, <1>2, <2>2, AppendedLog DEF StatusFromLog
  <2>3. CASE t = u /\ e.kind \notin PauseKinds /\ st = status[u]
    <3>1. PauseSignals(u)' = PauseSignals(u) /\ status'[u] = status[u]
      BY <1>0, <1>2, <2>3, AppendPause, AppendedLog
    <3> QED  BY <3>1 DEF StatusFromLog
  <2>4. CASE t = u /\ e.kind \in PauseKinds /\ ByPrincipal(t, e, st)
    <3>1. /\ last_sequence(u) \in Nat /\ e.sequence \in Nat
          /\ e.sequence > last_sequence(u)
      BY <1>0, <1>2, <2>4, LastEvent DEF Event, Appends
    <3>2. \A x \in PauseSignals(u) : x.timestamp \in Nat /\ x.timestamp < e.sequence
      BY <1>0, <3>1, PauseSignalFacts
    <3>3. PauseSignals(u)' = PauseSignals(u) \cup {NewSignal(u, e)} /\ status'[u] = st
      BY <1>0, <1>2, <2>4, AppendPause, AppendedLog
    <3>a. /\ NewSignal(u, e).timestamp = e.sequence
          /\ NewSignal(u, e).signal_type = e.kind
      BY DEF NewSignal
    <3>4. EndsPaused(PauseSignals(u) \cup {NewSignal(u, e)}) <=> e.kind = "pause_requested"
      BY <3>1, <3>2, <3>a, EndsPausedLast
    <3>5. st = "paused" <=> e.kind = "pause_requested"
      BY <2>4 DEF ByPrincipal, Operations, PauseKinds
    <3>6. EndsPaused(PauseSignals(u))' <=> e.kind = "pause_requested"
      BY <3>3, <3>4 DEF EndsPaused
    <3> QED  BY <3>3, <3>5, <3>6 DEF StatusFromLog
  <2>5. CASE t = u /\ ByExecutor(t, e, st) /\ st = "running" /\ e.kind = "running"
    <3>1. e.sequence <= 2
      BY <2>5 DEF ByExecutor, JobSays
    <3>2. PauseSignals(u) = {} /\ PauseSignals(u)' = PauseSignals(u)
      BY <1>0, <1>2, <2>5, <3>1, EarlyStatus, AppendPause DEF PauseKinds
    <3>3. status'[u] = "running"
      BY <1>0, <1>2, <2>5, AppendedLog
    <3> QED  BY <3>2, <3>3 DEF StatusFromLog, EndsPaused
  <2>6. CASE t = u /\ ByPrincipal(t, e, st) /\ e.kind \notin PauseKinds
    BY <2>2, <2>3, <2>6 DEF ByPrincipal, Operations, PauseKinds
  <2>7. CASE t = u /\ ByExecutor(t, e, st)
    <3>1. e.kind \notin PauseKinds /\ e.kind # "paused"
      BY <2>7 DEF ByExecutor, JobSays, PauseKinds
    <3>2. st = e.kind \/ st = status[u]
      BY <2>7 DEF ByExecutor, Posted
    <3> QED  BY <2>2, <2>3, <2>5, <2>7, <3>1, <3>2
  <2> QED  BY <1>2, <2>1, <2>4, <2>6, <2>7
<1> QED  BY <1>0, <1>1, <1>2, LogEffect, NoAck

LEMMA UntouchedStep ==
    ASSUME AckInv, Next, NEW u \in Tasks, JobSays(job[u]), Untouched(u)
    PROVE  Untouched(u)'
<1>0. TypeInv /\ ServerTyped /\ RecordedOnce /\ runs[u] \in Nat
  BY DEF AckInv, TypeInv, JobsTyped
<1> SUFFICES ASSUME runs'[u] = 0
             PROVE  /\ job'[u].pc = "none"
                    /\ status'[u] \in {"accepted", "cancelled"}
                    /\ PauseSignals(u)' = {}
  BY DEF Untouched
<1>1. ~Coroutine(u) /\ runs[u] = 0 /\ (job'[u] = job[u] \/ job'[u] = NoJob)
  <2>1. Coroutine(u) => job[u].pc # "none" /\ runs'[u] = runs[u]
    BY <1>0, CoroutineSteps DEF CoroutineStep
  <2> QED  BY <1>0, <2>1, JobEffect DEF Untouched
<1>2. job'[u].pc = "none"
  BY <1>1, NewEntry DEF Untouched
<1>3. status[u] \in {"accepted", "cancelled"} /\ PauseSignals(u) = {}
  BY <1>1 DEF Untouched
<1>4. CASE UNCHANGED <<status, log>>
  BY <1>2, <1>3, <1>4 DEF PauseSignals
<1>5. ASSUME NEW t \in Tasks, NEW e \in Event, NEW st \in TaskStatus, Appends(t, e, st),
             ByPrincipal(t, e, st) \/ ByExecutor(t, e, st)
      PROVE  status'[u] \in {"accepted", "cancelled"} /\ PauseSignals(u)' = {}
  <2>1. CASE t # u
    BY <1>0, <1>3, <1>5, <2>1, AppendPause, AppendedLog
  <2>2. CASE t = u
    <3>1. ByPrincipal(u, e, st)
      BY <1>1, <1>5, <2>2 DEF ByExecutor
    <3>2. e.kind \notin PauseKinds /\ st \in {"accepted", "cancelled"}
      BY <1>3, <3>1 DEF ByPrincipal, Operations, PauseKinds
    <3> QED  BY <1>0, <1>3, <1>5, <2>2, <3>2, AppendPause, AppendedLog
  <2> QED  BY <2>1, <2>2
<1> QED  BY <1>0, <1>2, <1>4, <1>5, LogEffect, NoAck

LEMMA HandleEffect ==
    ASSUME SignalsTyped, NEW s \in signals, _handle_signal(s)
    PROVE  Handled' = Handled \cup {s} /\ signals' = signals \ {s}
<1>1. ack = NULL /\ signals' = signals \ {s}
  BY DEF _handle_signal
<1>2. CASE _processed_signals' = _processed_signals \cup {s} /\ UNCHANGED ack
  BY <1>1, <1>2 DEF Handled
<1>3. ASSUME NEW kind, kind # NULL,
             kind = acknowledges(signal_state[s.task], s.signal_type),
             ack' = [signal |-> s, sequence |-> 1, attempt |-> 0, kind |-> kind],
             UNCHANGED _processed_signals
      PROVE  Handled' = Handled \cup {s}
  <2>1. s \in Signal /\ kind \in Kinds /\ 1 \in 1..2 /\ 0 \in Nat
    BY <1>3, AcknowledgesTyped DEF SignalsTyped, Kinds
  <2>2. ack' \in Ack
    BY <1>3, <2>1 DEF Ack
  <2>3. ack' # NULL /\ ack'.signal = s
    BY <1>3, <2>2, NullAssumption
  <2> QED  BY <1>1, <1>3, <2>3 DEF Handled
<1> QED  BY <1>1, <1>2, <1>3 DEF _handle_signal

\* What a step means to the signals of a response and to those handled.
LEMMA SignalEffect ==
    ASSUME TypeInv, Next
    PROVE  \/ Handled' = Handled /\ signals' = signals /\ ~Restart
           \/ poll_signals /\ Handled' = Handled
           \/ \E s \in signals : /\ _handle_signal(s)
                                 /\ Handled' = Handled \cup {s}
                                 /\ signals' = signals \ {s}
           \/ \E t \in Tasks : /\ _dispatch_ends(t) /\ signals' = signals
                               /\ Handled' \subseteq Handled
                               /\ \A x \in Handled : x.task # t => x \in Handled'
           \/ Restart /\ Handled' = {} /\ signals' = {}
<1>0. /\ TypeInv' /\ SignalsTyped /\ SignalsTyped'
  BY TypeStep DEF TypeInv
<1>1. CASE UNCHANGED <<_processed_signals, signals, ack>> /\ ~Restart
  BY <1>1 DEF Handled
<1>2. CASE Restart
  BY <1>2 DEF Restart, Handled
<1>3. CASE poll
  BY <1>1, <1>2, <1>3 DEF poll, signalling
<1>4. CASE run
  BY <1>1, <1>2, <1>4 DEF run
<1>5. CASE poll_signals
  BY <1>5 DEF poll_signals, Handled
<1>6. CASE PostsAck
  <2>1. ack # NULL /\ signals' = signals
    BY <1>0, <1>6, PostsAckEffect
  <2>2. CASE ack' \in Ack /\ ack'.signal = ack.signal /\ UNCHANGED _processed_signals
    <3>1. ack' # NULL
      BY <2>2, NullAssumption
    <3>2. Handled' = Handled
      BY <2>1, <2>2, <3>1 DEF Handled
    <3> QED  BY <1>2, <2>1, <3>2
  <2>3. CASE mark_signal_processed
    <3>1. Handled' = Handled
      BY <2>1, <2>3 DEF mark_signal_processed, Handled
    <3> QED  BY <1>2, <2>1, <3>1
  <2> QED  BY <1>0, <1>6, <2>2, <2>3, PostsAckEffect
<1>7. ASSUME NEW s \in signals, _handle_signal(s)
      PROVE  Handled' = Handled \cup {s} /\ signals' = signals \ {s}
  BY <1>0, <1>7, HandleEffect
<1>8. ASSUME NEW t \in Tasks, _dispatch_ends(t)
      PROVE  /\ signals' = signals /\ Handled' \subseteq Handled
             /\ \A x \in Handled : x.task # t => x \in Handled'
  BY <1>8 DEF _dispatch_ends, Handled
<1>9. ASSUME NEW t \in Tasks, Principal(t) \/ Minute(t) \/ Coroutine(t)
      PROVE  UNCHANGED <<_processed_signals, signals, ack>>
  BY <1>9, PrincipalEffect, CoroutineSteps DEF Minute, signalling, CoroutineStep, TypeInv
<1> QED  BY Steps, <1>1, <1>2, <1>3, <1>4, <1>5, <1>6, <1>7, <1>8, <1>9

LEMMA HandledAreSignals ==
    ASSUME SignalsTyped
    PROVE  Handled \subseteq Signal /\ \A s \in signals \cup Handled : s.task \in Tasks
<1>1. Handled \subseteq Signal
  BY AckParts DEF Handled, SignalsTyped
<1> QED  BY <1>1 DEF SignalsTyped, Signal

LEMMA PendingTrue ==
    ASSUME ServerTyped, NEW s \in get_pending_signals
    PROVE  /\ s.task \in Tasks
           /\ s.signal_type \in PauseKinds =>
                 s \in PauseSignals(s.task) /\ status[s.task] \in {"running", "paused"}
           /\ s.signal_type \in {"cancel_requested", "redirect_requested"} => Ended(s.task)
<1>1. PICK t \in Tasks : \E i \in 1..Len(log[t]) :
              /\ s = [task |-> t, signal_type |-> s.signal_type,
                      timestamp |-> log[t][i].sequence]
              /\ \/ /\ status[t] \in {"running", "paused"}
                    /\ s.signal_type = log[t][i].kind
                    /\ s.signal_type \in signal_event_types
                 \/ status[t] = "cancelled" /\ s.signal_type = "cancel_requested"
                 \/ status[t] = "redirected" /\ s.signal_type = "redirect_requested"
  BY PendingSignal
<1>2. PICK i \in 1..Len(log[t]) :
              /\ s = [task |-> t, signal_type |-> s.signal_type,
                      timestamp |-> log[t][i].sequence]
              /\ \/ /\ status[t] \in {"running", "paused"}
                    /\ s.signal_type = log[t][i].kind
                    /\ s.signal_type \in signal_event_types
                 \/ status[t] = "cancelled" /\ s.signal_type = "cancel_requested"
                 \/ status[t] = "redirected" /\ s.signal_type = "redirect_requested"
  BY <1>1
<1>3. s.task = t
  BY <1>2
<1>4. s.signal_type \in PauseKinds =>
         s \in PauseSignals(t) /\ status[t] \in {"running", "paused"}
  BY <1>2 DEF PauseSignals, PauseKinds
<1>5. s.signal_type \in {"cancel_requested", "redirect_requested"} => Ended(t)
  BY <1>2 DEF Ended, signal_event_types
<1> QED  BY <1>3, <1>4, <1>5

\* The response has every pause and resumption of an active task.
LEMMA PendingComplete ==
    ASSUME ServerTyped, NEW t \in Tasks, status[t] \in {"running", "paused"}
    PROVE  PauseSignals(t) \subseteq get_pending_signals
<1> SUFFICES ASSUME NEW i \in 1..Len(log[t]), log[t][i].kind \in PauseKinds
             PROVE  [task |-> t, signal_type |-> log[t][i].kind,
                     timestamp |-> log[t][i].sequence] \in get_pending_signals
  BY DEF PauseSignals
<1> DEFINE x == [task |-> t, signal_type |-> log[t][i].kind,
                 timestamp |-> log[t][i].sequence]
           active == {u \in Tasks : status[u] \in {"running", "paused"}}
           events(u, kinds) == {e \in {log[u][k] : k \in 1..Len(log[u])} : e.kind \in kinds}
           current == UNION {{[task |-> u, signal_type |-> e.kind,
                               timestamp |-> e.sequence] :
                                e \in events(u, signal_event_types)} : u \in active}
<1>1. t \in active /\ log[t][i] \in events(t, signal_event_types)
  BY DEF PauseKinds, signal_event_types
<1>2. x \in {[task |-> t, signal_type |-> e.kind, timestamp |-> e.sequence] :
               e \in events(t, signal_event_types)}
  BY <1>1
<1>3. x \in current
  BY <1>1, <1>2
<1>4. current \subseteq get_pending_signals
  BY <1>1, Zenon DEF get_pending_signals
<1> HIDE DEF current
<1> QED  BY <1>3, <1>4

LEMMA SignalsTrueStep ==
    ASSUME AckInv, Next, SignalsTrue, \A u \in Tasks : JobSays(job[u])
    PROVE  SignalsTrue'
<1>0. TypeInv /\ ServerTyped /\ SignalsTyped
  BY DEF AckInv, TypeInv
<1>1. \A u \in Tasks : PauseSignals(u) \subseteq PauseSignals(u)' /\ (Ended(u) => Ended(u)')
  BY PauseSignalsGrow, EndedStays
<1>2. CASE poll_signals /\ Handled' = Handled
  <2>1. UNCHANGED <<log, status>> /\ signals' \subseteq get_pending_signals
    BY <1>2 DEF poll_signals, server
  <2>2. \A u : PauseSignals(u)' = PauseSignals(u) /\ (Ended(u)' <=> Ended(u))
    BY <2>1 DEF PauseSignals, Ended
  <2> QED  BY <1>0, <1>2, <2>1, <2>2, PendingTrue DEF SignalsTrue
<1>3. CASE signals' \subseteq signals /\ signals' \cup Handled' \subseteq signals \cup Handled
  <2>1. \A s \in signals \cup Handled : s.task \in Tasks
    BY <1>0, HandledAreSignals
  <2> QED  BY <1>1, <1>3, <2>1 DEF SignalsTrue
<1> QED  BY <1>0, <1>2, <1>3, SignalEffect

\* What is handled for a task stays so when others' signals move, and a new pause
\* or resumption is behind all there were.
LEMMA LiveFrame ==
    ASSUME AckInv, Next, NEW u \in Tasks, JobSays(job[u]), SignalsTrue,
           InOrder(u), HandledFirst(u), FlagFromHandled(u),
           signals' = signals, \A x : x.task = u => (x \in Handled' <=> x \in Handled),
           signal_state'[u].running = signal_state[u].running
    PROVE  InOrder(u)' /\ HandledFirst(u)' /\ FlagFromHandled(u)'
<1>0. TypeInv /\ ServerTyped /\ RecordedOnce
  BY DEF AckInv, TypeInv
<1>1. \A x \in PauseSignals(u) : x.task = u /\ x.signal_type \in PauseKinds
                                 /\ x.timestamp \in Nat
  BY <1>0, PauseSignalFacts
<1>2. Ended(u) => Ended(u)'
  BY EndedStays
<1>3. CASE PauseSignals(u)' = PauseSignals(u)
  <2>1. PauseSignals(u)' \cap Handled' = PauseSignals(u) \cap Handled
    BY <1>1, <1>3
  <2>2. EndsPaused(PauseSignals(u) \cap Handled)' <=> EndsPaused(PauseSignals(u) \cap Handled)
    BY <2>1 DEF EndsPaused
  <2>3. FlagFromHandled(u)'
    BY <1>2, <2>2 DEF FlagFromHandled
  <2> QED  BY <1>1, <1>3, <2>3 DEF InOrder, HandledFirst
<1>4. ASSUME NEW new, new.task = u, new.signal_type \in PauseKinds, new.timestamp \in Nat,
             new \notin PauseSignals(u),
             PauseSignals(u)' = PauseSignals(u) \cup {new},
             \A x \in PauseSignals(u) : x.timestamp < new.timestamp
      PROVE  InOrder(u)' /\ HandledFirst(u)' /\ FlagFromHandled(u)'
  <2>1. new \notin signals /\ new \notin Handled /\ new \notin Handled'
    BY <1>4 DEF SignalsTrue
  <2>2. PauseSignals(u)' \cap Handled' = PauseSignals(u) \cap Handled
    BY <1>1, <1>4, <2>1
  <2>3. EndsPaused(PauseSignals(u) \cap Handled)' <=> EndsPaused(PauseSignals(u) \cap Handled)
    BY <2>2 DEF EndsPaused
  <2>4. FlagFromHandled(u)'
    BY <1>2, <2>3 DEF FlagFromHandled
  <2>5. InOrder(u)'
    <3> SUFFICES ASSUME NEW s \in PauseSignals(u)', NEW x \in PauseSignals(u)',
                        s \in signals, x.timestamp < s.timestamp
                 PROVE  x \in signals \cup Handled'
      BY DEF InOrder
    <3>1. s \in PauseSignals(u)
      BY <1>4, <2>1
    <3>2. x \in PauseSignals(u)
      BY <1>1, <1>4, <3>1
    <3> QED  BY <1>1, <3>1, <3>2 DEF InOrder
  <2>6. HandledFirst(u)'
    <3> SUFFICES ASSUME NEW x \in PauseSignals(u)', NEW y \in PauseSignals(u)',
                        x.timestamp < y.timestamp, y \in Handled'
                 PROVE  x \in Handled'
      BY DEF HandledFirst
    <3>1. y \in PauseSignals(u)
      BY <1>4, <2>1
    <3>2. x \in PauseSignals(u)
      BY <1>1, <1>4, <3>1
    <3> QED  BY <1>1, <3>1, <3>2 DEF HandledFirst
  <2> QED  BY <2>4, <2>5, <2>6
<1>5. ASSUME NEW e \in Event
      PROVE  /\ NewSignal(u, e).task = u /\ NewSignal(u, e).signal_type = e.kind
             /\ NewSignal(u, e).timestamp = e.sequence /\ e.sequence \in Nat
  BY DEF NewSignal, Event
<1> QED  BY <1>3, <1>4, <1>5, PauseSignalsGrow

\* A new response has all the signals of an active task.
LEMMA LivePoll ==
    ASSUME AckInv, NEW u \in Tasks, poll_signals, Handled' = Handled,
           HandledFirst(u), FlagFromHandled(u)
    PROVE  InOrder(u)' /\ HandledFirst(u)' /\ FlagFromHandled(u)'
<1>0. ServerTyped /\ RecordedOnce
  BY DEF AckInv, TypeInv
<1>1. /\ UNCHANGED <<log, status, signal_state>>
      /\ signals' = get_pending_signals \/ signals' = {}
  BY DEF poll_signals, server
<1>2. PauseSignals(u)' = PauseSignals(u) /\ (Ended(u)' <=> Ended(u))
  BY <1>1 DEF PauseSignals, Ended
<1>3. EndsPaused(PauseSignals(u) \cap Handled)' <=> EndsPaused(PauseSignals(u) \cap Handled)
  BY <1>2 DEF EndsPaused
<1>4. FlagFromHandled(u)' /\ HandledFirst(u)'
  BY <1>1, <1>2, <1>3 DEF FlagFromHandled, HandledFirst
<1>5. ASSUME NEW s \in PauseSignals(u), s \in signals'
      PROVE  PauseSignals(u) \subseteq signals'
  <2>1. signals' = get_pending_signals /\ s \in get_pending_signals
    BY <1>1, <1>5
  <2>2. s.task = u /\ s.signal_type \in PauseKinds
    BY <1>0, PauseSignalFacts
  <2>3. status[u] \in {"running", "paused"}
    BY <1>0, <2>1, <2>2, PendingTrue
  <2> QED  BY <1>0, <2>1, <2>3, PendingComplete
<1>6. InOrder(u)'
  BY <1>2, <1>5 DEF InOrder
<1> QED  BY <1>4, <1>6

\* The signal taken next is the earliest of its task that was not handled.
LEMMA LiveHandle ==
    ASSUME AckInv, NEW u \in Tasks, u \in _in_flight, NEW s \in signals, _handle_signal(s),
           Handled' = Handled \cup {s}, signals' = signals \ {s}, SignalsTrue,
           InOrder(u), HandledFirst(u), FlagFromHandled(u)
    PROVE  InOrder(u)' /\ HandledFirst(u)' /\ FlagFromHandled(u)'
<1>0. TypeInv /\ ServerTyped /\ SignalsTyped /\ RecordedOnce /\ Registered
  BY DEF AckInv, TypeInv
<1>1. /\ UNCHANGED <<log, status>> /\ ack = NULL
      /\ \A r \in signals : r.task = s.task => s.timestamp <= r.timestamp
      /\ s \in Signal /\ s.task \in Tasks /\ s.signal_type \in SignalType
  BY <1>0 DEF _handle_signal, server, SignalsTyped, Signal
<1>2. PauseSignals(u)' = PauseSignals(u) /\ (Ended(u)' <=> Ended(u))
  BY <1>1 DEF PauseSignals, Ended
<1>3. \A x \in PauseSignals(u) : /\ x.task = u /\ x.signal_type \in PauseKinds
                                 /\ x.timestamp \in Nat
                                 /\ \A y \in PauseSignals(u) :
                                       x.timestamp = y.timestamp => x = y
  BY <1>0, PauseSignalFacts
<1>4. Handled = _processed_signals
  BY <1>1 DEF Handled
<1>5. InOrder(u)'
  BY <1>2 DEF InOrder
<1>6. CASE s \notin PauseSignals(u)
  <2>1. PauseSignals(u) \cap Handled' = PauseSignals(u) \cap Handled
    BY <1>6
  <2>2. HandledFirst(u)'
    BY <1>2, <1>6 DEF HandledFirst
  <2>3. EndsPaused(PauseSignals(u) \cap Handled)' <=> EndsPaused(PauseSignals(u) \cap Handled)
    BY <1>2, <2>1 DEF EndsPaused
  <2>4. ~Ended(u) => signal_state'[u].running = signal_state[u].running
    <3>1. CASE s.task # u \/ UNCHANGED signal_state
      BY <1>0, <1>1, <3>1 DEF _handle_signal, SignalsTyped
    <3>2. CASE s.task = u /\ ~Ended(u)
      <4>1. s.signal_type \notin PauseKinds
        BY <1>6, <3>2 DEF SignalsTrue
      <4>2. s.signal_type = "context_injection"
        BY <1>1, <3>2, <4>1 DEF SignalsTrue, SignalType, PauseKinds
      <4>3. signal_state[u] \in SignalEntry
        BY <1>0 DEF SignalsTyped, Registered
      <4>4. \/ UNCHANGED signal_state
            \/ signal_state'[u] = handled(signal_state[u], s.signal_type)
        BY <1>0, <1>1, <3>2 DEF _handle_signal, SignalsTyped
      <4>5. handled(signal_state[u], s.signal_type).running = signal_state[u].running
        BY <4>2, <4>3 DEF handled, SignalEntry
      <4> QED  BY <4>4, <4>5
    <3> QED  BY <3>1, <3>2
  <2> QED  BY <1>2, <1>5, <2>2, <2>3, <2>4 DEF FlagFromHandled
<1>7. CASE s \in PauseSignals(u) /\ s \in Handled
  <2>1. Handled' = Handled /\ UNCHANGED signal_state
    BY <1>4, <1>7 DEF _handle_signal
  <2>2. EndsPaused(PauseSignals(u) \cap Handled)' <=> EndsPaused(PauseSignals(u) \cap Handled)
    BY <1>2, <2>1 DEF EndsPaused
  <2> QED  BY <1>2, <1>5, <2>1, <2>2 DEF HandledFirst, FlagFromHandled
<1>8. CASE s \in PauseSignals(u) /\ s \notin Handled
  <2>1. ASSUME NEW x \in PauseSignals(u), x.timestamp < s.timestamp PROVE x \in Handled
    <3>1. x \notin signals
      BY <1>1, <1>3, <1>8, <2>1
    <3> QED  BY <1>8, <2>1, <3>1 DEF InOrder
  <2>2. HandledFirst(u)'
    <3> SUFFICES ASSUME NEW x \in PauseSignals(u), NEW y \in PauseSignals(u),
                        x.timestamp < y.timestamp, y \in Handled'
                 PROVE  x \in Handled'
      BY <1>2 DEF HandledFirst
    <3>1. CASE y = s
      BY <2>1, <3>1
    <3>2. CASE y \in Handled
      BY <3>2 DEF HandledFirst
    <3> QED  BY <3>1, <3>2
  <2>3. \A y \in PauseSignals(u) \cap Handled : y.timestamp \in Nat /\ y.timestamp < s.timestamp
    <3> SUFFICES ASSUME NEW y \in PauseSignals(u), y \in Handled,
                        ~(y.timestamp < s.timestamp)
                 PROVE  FALSE
      BY <1>3
    <3>1. y.timestamp # s.timestamp
      BY <1>3, <1>8
    <3>2. s.timestamp < y.timestamp
      BY <1>3, <1>8, <3>1
    <3> QED  BY <1>8, <3>2 DEF HandledFirst
  <2>4. (PauseSignals(u) \cap Handled)' = (PauseSignals(u) \cap Handled) \cup {s}
    BY <1>2, <1>8
  <2>5. EndsPaused(PauseSignals(u) \cap Handled)' <=> s.signal_type = "pause_requested"
    <3>1. EndsPaused((PauseSignals(u) \cap Handled) \cup {s}) <=>
             s.signal_type = "pause_requested"
      BY <1>3, <1>8, <2>3, EndsPausedLast
    <3> QED  BY <2>4, <3>1 DEF EndsPaused
  <2>6. signal_state'[u].running <=> s.signal_type # "pause_requested"
    <3>1. s.task = u /\ s.signal_type \in PauseKinds
      BY <1>3, <1>8
    <3>2. signal_state[u] \in SignalEntry /\ signal_state[u] # NULL
      BY <1>0 DEF SignalsTyped, Registered
    <3>3. signal_state'[u] = handled(signal_state[u], s.signal_type)
      BY <1>0, <1>4, <1>8, <3>1, <3>2 DEF _handle_signal, SignalsTyped
    <3>4. CASE s.signal_type = "pause_requested"
      BY <3>2, <3>3, <3>4 DEF handled, SignalEntry
    <3>5. CASE s.signal_type = "resume_requested"
      BY <3>2, <3>3, <3>5 DEF handled, SignalEntry
    <3> QED  BY <3>1, <3>4, <3>5 DEF PauseKinds
  <2> QED  BY <1>5, <2>2, <2>5, <2>6 DEF FlagFromHandled
<1> QED  BY <1>6, <1>7, <1>8

LEMMA FlagFrame ==
    ASSUME TypeInv, Next, NEW u \in Tasks, u \in _in_flight, u \in _in_flight',
           ~ \E s \in signals : _handle_signal(s)
    PROVE  signal_state'[u].running = signal_state[u].running
<1>0. SignalsTyped
  BY DEF TypeInv
<1>1. CASE poll \/ poll_signals
  BY <1>1 DEF poll, poll_signals, signalling
<1>7. CASE PostsAck
  BY <1>0, <1>7, PostsAckEffect
<1>2. CASE run
  BY <1>2 DEF run
<1>3. CASE Restart
  BY <1>3 DEF Restart
<1>4. ASSUME NEW t \in Tasks, Principal(t) \/ Minute(t)
      PROVE  UNCHANGED signal_state
  BY <1>4, PrincipalEffect DEF Minute, signalling
<1>5. ASSUME NEW t \in Tasks, _dispatch_ends(t)
      PROVE  signal_state'[u] = signal_state[u]
  BY <1>0, <1>5 DEF _dispatch_ends, SignalsTyped
<1>6. ASSUME NEW t \in Tasks, t # u, Coroutine(t)
      PROVE  signal_state'[u] = signal_state[u]
  BY <1>0, <1>6, CoroutineSteps DEF CoroutineStep, SignalsTyped
<1> QED  BY Steps, <1>1, <1>2, <1>3, <1>4, <1>5, <1>6, <1>7, CoroutineFlags

LEMMA LiveStep ==
    ASSUME AckInv, PauseInv, Next, NEW u \in Tasks, Live(u)'
    PROVE  InOrder(u)' /\ HandledFirst(u)' /\ FlagFromHandled(u)'
<1>0. /\ TypeInv /\ TypeInv' /\ Registered /\ Registered' /\ SignalsTyped
      /\ ServerTyped /\ RecordedOnce /\ runs[u] \in Nat
  BY TypeStep DEF AckInv, TypeInv, JobsTyped
<1>1. u \in _in_flight' /\ job'[u].pc # "none" /\ runs'[u] = 1
  BY <1>0 DEF Live, Registered
<1>2. CASE run /\ u \in _in_flight' \ _in_flight /\ runs'[u] = runs[u] + 1
  <2>1. PauseSignals(u) = {}
    BY <1>0, <1>1, <1>2 DEF PauseInv, Untouched
  <2>2. PauseSignals(u)' = {}
    BY <1>2, <2>1 DEF run, server, PauseSignals
  <2>3. signal_state'[u].running
    BY <1>2 DEF run, register_task
  <2>4. ~EndsPaused(PauseSignals(u) \cap Handled)'
    BY <2>2 DEF EndsPaused
  <2> QED  BY <2>2, <2>3, <2>4 DEF InOrder, HandledFirst, FlagFromHandled
<1>3. CASE u \in _in_flight /\ runs[u] = 1
  <2>1. /\ JobSays(job[u]) /\ SignalsTrue
        /\ InOrder(u) /\ HandledFirst(u) /\ FlagFromHandled(u)
    BY <1>3 DEF PauseInv, Live
  <2>2. CASE poll_signals /\ Handled' = Handled
    BY <2>1, <2>2, LivePoll
  <2>3. CASE \E s \in signals : /\ _handle_signal(s)
                                /\ Handled' = Handled \cup {s}
                                /\ signals' = signals \ {s}
    BY <1>3, <2>1, <2>3, LiveHandle
  <2>4. CASE ~ \E s \in signals : _handle_signal(s)
    <3>1. signal_state'[u].running = signal_state[u].running
      BY <1>0, <1>1, <1>3, <2>4, FlagFrame
    <3>2. CASE Handled' = Handled /\ signals' = signals
      BY <2>1, <3>1, <3>2, LiveFrame
    <3>3. ASSUME NEW t \in Tasks, _dispatch_ends(t), signals' = signals,
                 Handled' \subseteq Handled,
                 \A x \in Handled : x.task # t => x \in Handled'
          PROVE  \A x : x.task = u => (x \in Handled' <=> x \in Handled)
      <4>1. t # u
        BY <1>1, <3>3 DEF _dispatch_ends
      <4> QED  BY <3>3, <4>1
    <3>4. ~Restart
      BY <1>1 DEF Restart
    <3> QED  BY <1>0, <2>1, <2>2, <2>4, <3>1, <3>2, <3>3, <3>4, LiveFrame, SignalEffect
  <2>5. CASE \E s \in signals : _handle_signal(s)
    BY <1>0, <2>3, <2>5, HandleEffect
  <2> QED  BY <2>4, <2>5
<1>4. CASE job'[u] = job[u] \/ Coroutine(u)
  <2>1. runs'[u] = runs[u] /\ job[u].pc # "none"
    BY <1>0, <1>1, <1>4, JobEffect, CoroutineSteps, StartedFields DEF CoroutineStep
  <2> QED  BY <1>0, <1>1, <1>3, <2>1 DEF Registered
<1> QED  BY <1>0, <1>1, <1>2, <1>4, JobEffect, NewEntry

LEMMA PauseStep ==
    ASSUME "running" \notin Lines, AckInv, PauseInv, [Next]_vars
    PROVE  PauseInv'
<1>1. CASE UNCHANGED vars
  <2>1. /\ UNCHANGED <<status, log, job, runs, _in_flight, signal_state, signals>>
        /\ Handled' = Handled
    BY <1>1 DEF vars, server, poller, signalling, Handled
  <2>2. \A t : PauseSignals(t)' = PauseSignals(t) /\ (Ended(t)' <=> Ended(t))
    BY <2>1 DEF PauseSignals, Ended
  <2>3. SignalsTrue'
    BY <2>1, <2>2 DEF PauseInv, SignalsTrue
  <2>4. ASSUME NEW t \in Tasks
        PROVE  /\ JobSays(job[t])' /\ Untouched(t)' /\ StatusFromLog(t)'
               /\ Live(t)' => InOrder(t)' /\ HandledFirst(t)' /\ FlagFromHandled(t)'
    <3>1. JobSays(job[t])' /\ Untouched(t)'
      BY <2>1, <2>2 DEF PauseInv, JobSays, Untouched
    <3>2. StatusFromLog(t)'
      BY <2>1, <2>2 DEF PauseInv, StatusFromLog, EndsPaused
    <3>3. Live(t)' => InOrder(t)' /\ HandledFirst(t)'
      BY <2>1, <2>2 DEF PauseInv, Live, InOrder, HandledFirst
    <3>4. Live(t)' => FlagFromHandled(t)'
      BY <2>1, <2>2 DEF PauseInv, Live, FlagFromHandled, EndsPaused
    <3> QED  BY <3>1, <3>2, <3>3, <3>4
  <2> QED  BY <2>3, <2>4 DEF PauseInv
<1>2. CASE Next
  <2>1. SignalsTrue'
    BY <1>2, SignalsTrueStep DEF PauseInv
  <2>2. ASSUME NEW u \in Tasks
        PROVE  JobSays(job[u])' /\ Untouched(u)' /\ StatusFromLog(u)'
    <3>1. JobSays(job'[u])
      BY <1>2, JobEffect, JobSaysCoroutine, JobSaysStarted DEF PauseInv, AckInv
    <3>2. Untouched(u)' /\ StatusFromLog(u)'
      BY <1>2, UntouchedStep, StatusFromLogStep DEF PauseInv
    <3> QED  BY <3>1, <3>2 DEF JobSays
  <2> QED  BY <1>2, <2>1, <2>2, LiveStep DEF PauseInv
<1> QED  BY <1>1, <1>2

\* Once every signal of an active task in its first execution has been handled, its
\* executor is held at the pause event exactly if the server says "paused".  The
\* handler is assumed to say "running" in its first line only: a later one resumes
\* the task on the server and not in the sidecar.
THEOREM SidecarPauseAgrees ==
    ASSUME "running" \notin Lines
    PROVE  Spec => []PauseAgrees
<1>1. Init => PauseInv
  <2> SUFFICES ASSUME Init PROVE PauseInv
    OBVIOUS
  <2>1. signals = {} /\ Handled = {} /\ _in_flight = {}
    BY DEF Init, Handled
  <2>2. ASSUME NEW t \in Tasks
        PROVE  /\ status[t] = "accepted" /\ job[t] = NoJob
               /\ PauseSignals(t) = {}
    <3>1. log[t] = <<[sequence |-> 1, kind |-> "created", by |-> "server"]>>
      BY DEF Init
    <3>2. \A i \in 1..Len(log[t]) : log[t][i].kind \notin PauseKinds
      BY <3>1 DEF PauseKinds
    <3> QED  BY <3>2 DEF Init, PauseSignals
  <2> QED  BY <2>1, <2>2, JobSaysStarted, NewEntry
           DEF PauseInv, SignalsTrue, Untouched, StatusFromLog, Live
<1>2. AckInv /\ PauseInv => PauseAgrees
  <2> SUFFICES ASSUME AckInv, PauseInv, NEW t \in _in_flight, runs[t] = 1,
                      status[t] \in {"running", "paused"}, ack = NULL,
                      \A s \in get_pending_signals : s.task = t => s \in _processed_signals
               PROVE  signal_state[t].running <=> status[t] = "running"
    BY DEF PauseAgrees
  <2>1. t \in Tasks /\ ServerTyped /\ RecordedOnce /\ SignalsTyped /\ Registered
    BY DEF AckInv, TypeInv, JobsTyped
  <2>2. PauseSignals(t) \subseteq Handled
    BY <2>1, PendingComplete, PauseSignalFacts DEF Handled
  <2>3. PauseSignals(t) \cap Handled = PauseSignals(t)
    BY <2>2
  <2>4. status[t] = "paused" <=> EndsPaused(PauseSignals(t))
    BY <2>1 DEF PauseInv, StatusFromLog
  <2>5. ~signal_state[t].running <=> EndsPaused(PauseSignals(t))
    BY <2>1, <2>3 DEF PauseInv, Live, FlagFromHandled, Ended
  <2>6. signal_state[t].running \in BOOLEAN
    BY <2>1 DEF SignalsTyped, Registered, SignalEntry
  <2> QED  BY <2>4, <2>5, <2>6
<1> QED  BY <1>1, <1>2, PauseStep, AckInvariance, PTL DEF Spec
=============================================================================
