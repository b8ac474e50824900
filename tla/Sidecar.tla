------------------------------ MODULE Sidecar ------------------------------
(***************************************************************************)
(* The fleet_agent sidecar of one agent and its conversation with the      *)
(* server.  On the sidecar's event loop run                                *)
(*   - TaskPoller.run, which fetches the accepted tasks and starts a       *)
(*     coroutine _dispatch for each, up to max_concurrent,                 *)
(*   - the _dispatch coroutines: LocalExecutor.execute reads the lines of  *)
(*     a handler process and EventStreamer.stream posts them, numbered     *)
(*     from 1 after an initial "status: running",                          *)
(*   - SignalPoller.run, which fetches the signals of the agent's tasks,   *)
(*     sets the flags of SignalState and posts acknowledgements through    *)
(*     the same streamer, each a stream of its own.                        *)
(* A step is what a coroutine does between two awaits; a response is used   *)
(* in a later step than the one in which the server made it.               *)
(* The server is reduced to a task's status and event log, each request    *)
(* being one step: module TaskStore is about requests that overlap there.  *)
(***************************************************************************)
EXTENDS Integers, Sequences, FiniteSets, TaskStateMachine

CONSTANTS
    Tasks,           \* tasks assigned to the agent
    max_concurrent,  \* fleet_max_concurrent_tasks
    _MAX_RETRIES,    \* of the streamer
    Openings,        \* what a handler may write first
    Lines,           \* what it may write then
    func_case_takes_else,  \* SQLAlchemy accepts func.case(..., else_=0)
    MaxSequence,     \* bound on the events of a task and of a stream
    MaxRuns,         \* bound on the executions of a task
    MaxFaults,       \* bound on failed POSTs
    MaxCrashes,      \* bound on sidecar crashes
    NULL

\* What an event says.  A status stands for a "status" event with it, or for the
\* event types "completed" and "failed", which set the same status.
Kinds == TaskStatus \cup {"created", "progress", "log", "pause_requested",
                          "resume_requested", "context_injected"}

ASSUME SidecarAssumption ==
    /\ IsFiniteSet(Tasks)
    /\ max_concurrent \in Nat
    /\ _MAX_RETRIES \in Nat
    /\ Openings \cup Lines \subseteq
          {"running", "completed", "failed", "progress", "log"}
    /\ func_case_takes_else \in BOOLEAN
    /\ MaxSequence \in Nat
    /\ MaxRuns \in Nat
    /\ MaxFaults \in Nat
    /\ MaxCrashes \in Nat

VARIABLES
    status,         \* the tasks' status on the server
    log,            \* their task_events, in the order of the sequence numbers
    recent,         \* completed_at is less than 60 seconds old
    polled,         \* ids in a response TaskPoller.run has yet to go through
    _in_flight,     \* TaskPoller._in_flight
    job,            \* the coroutine _dispatch of each task
    signal_state,   \* SignalState's entries of each registered task
    _processed_signals,
    signals,        \* signals SignalPoller.run has yet to go through
    ack,            \* the acknowledgement it is posting, or NULL
    runs,           \* executions of each task so far
    faults,         \* failed POSTs so far
    crashes         \* sidecar crashes so far

server == <<status, log, recent>>
poller == <<polled, _in_flight, job, runs>>
signalling == <<signal_state, _processed_signals, signals, ack>>
counters == <<faults, crashes>>
vars == <<server, poller, signalling, counters>>

\* Signal.signal_type: the server's "context_injected" is not one of them.
SignalType == {"pause_requested", "resume_requested", "cancel_requested",
               "redirect_requested", "context_injection"}

Signal == [task : Tasks, signal_type : SignalType, timestamp : Nat]

\* pc "post": in _post_event, the generator goes on at then; "check" and "read":
\* in _read_events before and at readline; "waiting": in wait_if_paused.  "stdin":
\* until the handler has taken its input; "exit": until it has exited and closed
\* stderr; "killed": the same after it was killed.
\* contexts: those popped and not yet yielded.
Job == [pc       : {"none", "post", "spawn", "stdin", "check", "waiting", "read",
                    "exit", "killed", "end"},
        sequence : Nat,
        kind     : Kinds,
        attempt  : Nat,
        then     : {"spawn", "check", "context", "end"},
        contexts : Nat]

\* running: the pause event is set; queue: the context payloads queued.
SignalEntry == [running : BOOLEAN, cancelled : BOOLEAN, redirect : BOOLEAN,
                queue : Nat]

Ack == [signal : Signal, sequence : 1..2, kind : Kinds, attempt : Nat]

NoJob == [pc |-> "none", sequence |-> 0, kind |-> "running", attempt |-> 0,
          then |-> "end", contexts |-> 0]

TypeOK ==
    /\ status \in [Tasks -> TaskStatus]
    /\ log \in [Tasks -> Seq([sequence : Nat, kind : Kinds,
                              by : {"server", "executor", "ack"}])]
    /\ recent \in [Tasks -> BOOLEAN]
    /\ polled \in SUBSET Tasks
    /\ _in_flight \in SUBSET Tasks
    /\ job \in [Tasks -> Job]
    /\ signal_state \in [Tasks -> SignalEntry \cup {NULL}]
    /\ _processed_signals \in SUBSET Signal
    /\ signals \in SUBSET Signal
    /\ ack \in Ack \cup {NULL}
    /\ runs \in [Tasks -> Nat]
    /\ faults \in Nat
    /\ crashes \in Nat

\* None is told apart from what it stands in for.
ASSUME NullAssumption ==
    /\ NULL \notin SignalEntry
    /\ NULL \notin Ack
    /\ NULL \notin TaskStatus

Init ==
    /\ status = [t \in Tasks |-> "accepted"]
    /\ log = [t \in Tasks |-> <<[sequence |-> 1, kind |-> "created",
                                 by |-> "server"]>>]
    /\ recent = [t \in Tasks |-> FALSE]
    /\ polled = {}
    /\ _in_flight = {}
    /\ job = [t \in Tasks |-> NoJob]
    /\ signal_state = [t \in Tasks |-> NULL]
    /\ _processed_signals = {}
    /\ signals = {}
    /\ ack = NULL
    /\ runs = [t \in Tasks |-> 0]
    /\ faults = 0
    /\ crashes = 0

-----------------------------------------------------------------------------
(* The server.                                                             *)

last_sequence(t) == log[t][Len(log[t])].sequence

\* The event is recorded; a status in it becomes the task's.
record(t, sequence, kind, by, new_status) ==
    /\ log' = [log EXCEPT ![t] = Append(@, [sequence |-> sequence, kind |-> kind,
                                            by |-> by])]
    /\ status' = [status EXCEPT ![t] = new_status]
    /\ recent' = [recent EXCEPT ![t] = (@ \/ is_terminal(new_status))]

\* Mutant: the number of the last event is accepted again.
accepts_repeated(t, sequence, kind) ==
    /\ sequence >= last_sequence(t)
    /\ kind \in TaskStatus => validate_transition(status[t], kind)

\* Mutant: the outcome of an execution is taken in any state.
accepts_outcomes(t, sequence, kind) ==
    /\ sequence > last_sequence(t)
    /\ kind \in TaskStatus \ {"completed", "failed"} =>
          validate_transition(status[t], kind)

\* process_sidecar_event does not reject the event.
accepts(t, sequence, kind) ==
    /\ sequence > last_sequence(t)
    /\ kind \in TaskStatus => validate_transition(status[t], kind)

process_sidecar_event(t, sequence, kind, by) ==
    IF accepts(t, sequence, kind)
    THEN record(t, sequence, kind, by,
                IF kind \in TaskStatus THEN kind ELSE status[t])
    ELSE UNCHANGED server

\* A principal's operation, whole: its event gets the next number.
operation(t, from, kind, new_status) ==
    /\ last_sequence(t) < MaxSequence
    /\ status[t] \in from
    /\ record(t, last_sequence(t) + 1, kind, "server", new_status)
    /\ UNCHANGED <<poller, signalling, counters>>

cancel_task(t) == operation(t, {"accepted", "running", "paused"},
                            "cancelled", "cancelled")
redirect_task(t) == operation(t, {"running", "paused"}, "redirected", "redirected")
pause_task(t) == operation(t, {"running"}, "pause_requested", "paused")
resume_task(t) == operation(t, {"paused"}, "resume_requested", "running")
retask_task(t) == operation(t, {"completed", "failed"}, "retasked", "retasked")
inject_context(t) == operation(t, {"running", "paused"}, "context_injected",
                               status[t])

\* A minute has passed since the task ended.
Minute(t) ==
    /\ recent[t]
    /\ recent' = [recent EXCEPT ![t] = FALSE]
    /\ UNCHANGED <<status, log, poller, signalling, counters>>

\* The accepted tasks, if the ordering by func.case(..., else_=0) can be built.
\* If not, building it is a TypeError and the answer a 500, so none are returned.
get_pending_tasks ==
    IF func_case_takes_else THEN {t \in Tasks : status[t] = "accepted"} ELSE {}

\* The event types it returns are the server's own.
signal_event_types == {"pause_requested", "resume_requested", "context_injected"}

\* Of active tasks every signal there ever was; then the tasks cancelled or
\* redirected in the last minute, unless there is no active task.
get_pending_signals ==
    LET active == {t \in Tasks : status[t] \in {"running", "paused"}}
        events(t, kinds) == {e \in {log[t][i] : i \in 1..Len(log[t])} : e.kind \in kinds}
        ended(st, signal_type) ==
            UNION {{[task |-> t, signal_type |-> signal_type, timestamp |-> e.sequence] :
                      e \in events(t, {st})} :
                   t \in {u \in Tasks : status[u] = st /\ recent[u]}}
    IN  IF active = {} THEN {}
        ELSE (UNION {{[task |-> t, signal_type |-> e.kind, timestamp |-> e.sequence] :
                        e \in events(t, signal_event_types)} : t \in active})
             \cup ended("cancelled", "cancel_requested")
             \cup ended("redirected", "redirect_requested")

-----------------------------------------------------------------------------
(* TaskPoller.run.                                                         *)

\* The response to GET /agents/{id}/tasks/pending.  A failed poll gives none.
poll ==
    /\ polled = {}
    /\ polled' = {t \in get_pending_tasks : runs[t] < MaxRuns}
    /\ UNCHANGED <<server, _in_flight, job, runs, signalling, counters>>

\* Mutant: the limit is looked at before the loop only.
startable_all(S) ==
    S = IF Cardinality(_in_flight) < max_concurrent THEN polled \ _in_flight ELSE {}

\* The tasks the loop starts: as many as there are and the limit leaves room for,
\* in the order of the response, which any priorities may give.
startable(S) ==
    /\ Cardinality(_in_flight \cup S) <= max_concurrent
    /\ S # polled \ _in_flight => Cardinality(_in_flight \cup S) = max_concurrent

register_task == [running |-> TRUE, cancelled |-> FALSE, redirect |-> FALSE,
                  queue |-> 0]

\* The loop over a response has no await.
run ==
    /\ polled # {}
    /\ \E S \in SUBSET (polled \ _in_flight) :
          /\ startable(S)
          /\ _in_flight' = _in_flight \cup S
          /\ signal_state' = [t \in Tasks |-> IF t \in S THEN register_task
                                              ELSE signal_state[t]]
          /\ job' = [t \in Tasks |->
                       IF t \in S THEN [NoJob EXCEPT !.pc = "post", !.sequence = 1,
                                                     !.then = "spawn"]
                       ELSE job[t]]
          /\ runs' = [t \in Tasks |-> IF t \in S THEN runs[t] + 1 ELSE runs[t]]
    /\ polled' = {}
    /\ UNCHANGED <<server, _processed_signals, signals, ack, counters>>

-----------------------------------------------------------------------------
(* EventStreamer._post_event, LocalExecutor.execute, TaskPoller._dispatch. *)

Goto(t, pc) == job' = [job EXCEPT ![t].pc = pc]

\* Mutant: the number is used and then incremented.
Yield_postincrement(t, kind, then) ==
    job' = [job EXCEPT ![t] = [@ EXCEPT !.pc = "post",
                                        !.sequence = IF @ = 1 THEN 1 ELSE @ + 1,
                                        !.kind = kind, !.attempt = 0,
                                        !.then = then]]

\* The generator yields an event, which stream numbers and posts.
Yield(t, kind, then) ==
    job' = [job EXCEPT ![t] = [job[t] EXCEPT !.pc = "post",
                                             !.sequence = job[t].sequence + 1,
                                             !.kind = kind, !.attempt = 0,
                                             !.then = then]]

\* After the POST the generator goes on; remaining contexts come first.
Resume(t) ==
    IF job[t].then = "context" /\ job[t].contexts > 0
    THEN job' = [job EXCEPT ![t] = [job[t] EXCEPT !.pc = "post",
                                                  !.sequence = job[t].sequence + 1,
                                                  !.attempt = 0,
                                                  !.contexts = job[t].contexts - 1]]
    ELSE Goto(t, IF job[t].then = "context" THEN "read" ELSE job[t].then)

\* An answer below 500, acceptance or rejection, ends the POST.
_post_event(t) ==
    /\ job[t].pc = "post"
    /\ process_sidecar_event(t, job[t].sequence, job[t].kind, "executor")
    /\ Resume(t)
    /\ UNCHANGED <<polled, _in_flight, runs, signalling, counters>>

\* A 5xx answer, after which the server may have recorded the event or not, or
\* ConnectError: another attempt, or the event is dropped.
_post_event_retry(t) ==
    /\ job[t].pc = "post"
    /\ faults < MaxFaults
    /\ faults' = faults + 1
    /\ \/ process_sidecar_event(t, job[t].sequence, job[t].kind, "executor")
       \/ UNCHANGED server
    /\ IF job[t].attempt < _MAX_RETRIES
       THEN job' = [job EXCEPT ![t].attempt = @ + 1]
       ELSE Resume(t)
    /\ UNCHANGED <<polled, _in_flight, runs, signalling, crashes>>

\* Any other exception of the HTTP client, such as ReadTimeout, leaves stream;
\* _dispatch logs it.
_post_event_raises(t) ==
    /\ job[t].pc = "post"
    /\ faults < MaxFaults
    /\ faults' = faults + 1
    /\ \/ process_sidecar_event(t, job[t].sequence, job[t].kind, "executor")
       \/ UNCHANGED server
    /\ Goto(t, "end")
    /\ UNCHANGED <<polled, _in_flight, runs, signalling, crashes>>

\* create_subprocess_exec; FileNotFoundError yields "failed" and is raised.
spawn(t) ==
    /\ job[t].pc = "spawn"
    /\ Goto(t, "stdin") \/ Yield(t, "failed", "end")
    /\ UNCHANGED <<server, polled, _in_flight, runs, signalling, counters>>

\* drain and wait_closed return when the handler has taken its input, or raise if
\* it has closed the pipe, which leaves execute and stream.  No timeout applies.
feed_stdin(t) ==
    /\ job[t].pc = "stdin"
    /\ Goto(t, "check") \/ Goto(t, "end")
    /\ UNCHANGED <<server, polled, _in_flight, runs, signalling, counters>>

\* Past wait_if_paused: pop_context, then readline.
Proceed(t) ==
    LET n == signal_state[t].queue IN
    /\ IF n = 0 THEN Goto(t, "read")
       ELSE job' = [job EXCEPT ![t] = [job[t] EXCEPT !.pc = "post",
                                                     !.sequence = job[t].sequence + 1,
                                                     !.kind = "context_injected",
                                                     !.attempt = 0,
                                                     !.then = "context",
                                                     !.contexts = n - 1]]
    /\ signal_state' = [signal_state EXCEPT ![t].queue = 0]

\* _read_events before it reads a line.  A redirect ends the execution without an
\* event, a cancellation with a "cancelled" one.
check(t) ==
    /\ job[t].pc = "check"
    /\ LET s == signal_state[t] IN
       \/ /\ s.redirect
          /\ Goto(t, "end") /\ UNCHANGED signal_state
       \/ /\ ~s.redirect /\ s.cancelled
          /\ Yield(t, "cancelled", "end") /\ UNCHANGED signal_state
       \/ /\ ~s.redirect /\ ~s.cancelled /\ ~s.running
          /\ Goto(t, "waiting") /\ UNCHANGED signal_state
       \/ /\ ~s.redirect /\ ~s.cancelled /\ s.running
          /\ Proceed(t)
    /\ UNCHANGED <<server, polled, _in_flight, runs, _processed_signals, signals,
                   ack, counters>>

\* wait_if_paused returns once the pause event is set.
wait_if_paused(t) ==
    /\ job[t].pc = "waiting"
    /\ signal_state[t].running
    /\ Proceed(t)
    /\ UNCHANGED <<server, polled, _in_flight, runs, _processed_signals, signals,
                   ack, counters>>

\* The handler writes an event, or a line that is none; or it closes its output.
\* Bound: MaxSequence.
readline(t) ==
    /\ job[t].pc = "read"
    /\ \/ /\ job[t].sequence < MaxSequence
          /\ \E kind \in IF job[t].sequence = 1 THEN Openings ELSE Lines :
                Yield(t, kind, "check")
       \/ job[t].sequence < MaxSequence /\ Goto(t, "check")
       \/ Goto(t, "exit")
    /\ UNCHANGED <<server, polled, _in_flight, runs, signalling, counters>>

\* process.wait and stderr.read return: the handler has exited, with 0 or not.  The
\* timeout, which is over the reading of its output, does not apply.
process_exit(t) ==
    /\ job[t].pc = "exit"
    /\ Goto(t, "end") \/ Yield(t, "failed", "end")
    /\ UNCHANGED <<server, polled, _in_flight, runs, signalling, counters>>

\* Mutant: the time a task is paused does not count.
timeout_unpaused(t) ==
    /\ job[t].pc = "read"
    /\ Goto(t, "killed")
    /\ UNCHANGED <<server, polled, _in_flight, runs, signalling, counters>>

\* asyncio.timeout cancels the coroutine where it waits.  In _read_events that is
\* TimeoutError, and the handler is killed; while an event of the handler is being
\* posted, the CancelledError leaves stream and _dispatch instead.
timeout(t) ==
    /\ \/ job[t].pc \in {"waiting", "read"} /\ Goto(t, "killed")
       \/ /\ job[t].pc = "post" /\ job[t].then \in {"check", "context"}
          /\ Goto(t, "end")
    /\ UNCHANGED <<server, polled, _in_flight, runs, signalling, counters>>

\* The killed process is gone and nobody holds its stderr: "failed" is yielded.
kill_done(t) ==
    /\ job[t].pc = "killed"
    /\ Yield(t, "failed", "end")
    /\ UNCHANGED <<server, polled, _in_flight, runs, signalling, counters>>

\* _dispatch's finally: unregister_task and the end of the coroutine.
_dispatch_ends(t) ==
    /\ job[t].pc = "end"
    /\ job' = [job EXCEPT ![t] = NoJob]
    /\ signal_state' = [signal_state EXCEPT ![t] = NULL]
    /\ _processed_signals' = {s \in _processed_signals : s.task # t}
    /\ _in_flight' = _in_flight \ {t}
    /\ UNCHANGED <<server, polled, runs, signals, ack, counters>>

-----------------------------------------------------------------------------
(* SignalPoller.run.                                                       *)

\* The response is validated whole: a signal of another type is an exception, and
\* no signal of the response is gone through.
poll_signals ==
    /\ signals = {} /\ ack = NULL
    /\ signals' = IF \A s \in get_pending_signals : s.signal_type \in SignalType
                  THEN get_pending_signals ELSE {}
    /\ UNCHANGED <<server, poller, signal_state, _processed_signals, ack, counters>>

\* Mutant: a resume clears the event, too.
handled_resume_lost(entry, signal_type) ==
    CASE signal_type = "pause_requested"    -> [entry EXCEPT !.running = FALSE]
      [] signal_type = "resume_requested"   -> [entry EXCEPT !.running = FALSE]
      [] signal_type = "cancel_requested"   -> [entry EXCEPT !.cancelled = TRUE,
                                                             !.running = TRUE]
      [] signal_type = "redirect_requested" -> [entry EXCEPT !.redirect = TRUE,
                                                             !.cancelled = TRUE,
                                                             !.running = TRUE]
      [] OTHER                              -> entry

\* What the _handle_... methods do to a registered task's state.
handled(entry, signal_type) ==
    CASE signal_type = "pause_requested"    -> [entry EXCEPT !.running = FALSE]
      [] signal_type = "resume_requested"   -> [entry EXCEPT !.running = TRUE]
      [] signal_type = "cancel_requested"   -> [entry EXCEPT !.cancelled = TRUE,
                                                             !.running = TRUE]
      [] signal_type = "redirect_requested" -> [entry EXCEPT !.redirect = TRUE,
                                                             !.cancelled = TRUE,
                                                             !.running = TRUE]
      [] signal_type = "context_injection"  -> [entry EXCEPT !.queue = @ + 1]
      [] OTHER                              -> entry

\* The status they acknowledge, or NULL: a repeated pause or resume has none.
acknowledges(entry, signal_type) ==
    CASE signal_type = "pause_requested" /\ entry.running   -> "paused"
      [] signal_type = "resume_requested" /\ ~entry.running -> "running"
      [] signal_type = "cancel_requested"                   -> "cancelled"
      [] signal_type = "redirect_requested"                 -> "redirected"
      [] OTHER                                              -> NULL

\* The next signal of the response: skipped, ignored, or handled.  Only with an
\* acknowledgement is there an await before it is marked as processed.
_handle_signal(s) ==
    /\ ack = NULL
    /\ s \in signals
    /\ \A r \in signals : r.task = s.task => s.timestamp <= r.timestamp
    /\ signals' = signals \ {s}
    /\ LET entry == signal_state[s.task] IN
       IF s \in _processed_signals \/ entry = NULL
       THEN /\ _processed_signals' = _processed_signals \cup {s}
            /\ UNCHANGED <<signal_state, ack>>
       ELSE /\ signal_state' = [signal_state EXCEPT ![s.task] =
                                   handled(entry, s.signal_type)]
            /\ IF acknowledges(entry, s.signal_type) = NULL
               THEN /\ _processed_signals' = _processed_signals \cup {s}
                    /\ UNCHANGED ack
               ELSE /\ ack' = [signal |-> s, sequence |-> 1, attempt |-> 0,
                               kind |-> acknowledges(entry, s.signal_type)]
                    /\ UNCHANGED _processed_signals
    /\ UNCHANGED <<server, poller, counters>>

mark_signal_processed ==
    /\ ack' = NULL
    /\ _processed_signals' = _processed_signals \cup {ack.signal}

\* Mutant: the acknowledgement is numbered after the task's last event.
ack_event_follows == [sequence |-> last_sequence(ack.signal.task) + ack.sequence,
                      kind |-> ack.kind]

\* The event of the stream that is being posted: the initial "running", then the
\* acknowledgement.
ack_event == [sequence |-> ack.sequence,
              kind |-> IF ack.sequence = 1 THEN "running" ELSE ack.kind]

PostAck == process_sidecar_event(ack.signal.task, ack_event.sequence,
                                 ack_event.kind, "ack")

\* Mutant: one event too many is streamed.
AckGoesOn_again ==
    IF ack.sequence <= 2
    THEN /\ ack' = [ack EXCEPT !.sequence = @ + 1, !.attempt = 0]
         /\ UNCHANGED _processed_signals
    ELSE mark_signal_processed

\* After the POST: the next event of the stream, or the end of it.
AckGoesOn ==
    IF ack.sequence = 1
    THEN /\ ack' = [ack EXCEPT !.sequence = 2, !.attempt = 0]
         /\ UNCHANGED _processed_signals
    ELSE mark_signal_processed

_post_ack ==
    /\ ack # NULL
    /\ PostAck
    /\ AckGoesOn
    /\ UNCHANGED <<poller, signal_state, signals, counters>>

_post_ack_retry ==
    /\ ack # NULL
    /\ faults < MaxFaults
    /\ faults' = faults + 1
    /\ PostAck \/ UNCHANGED server
    /\ IF ack.attempt < _MAX_RETRIES
       THEN /\ ack' = [ack EXCEPT !.attempt = @ + 1]
            /\ UNCHANGED _processed_signals
       ELSE AckGoesOn
    /\ UNCHANGED <<poller, signal_state, signals, crashes>>

\* An exception ends the stream; _post_ack logs it.
_post_ack_raises ==
    /\ ack # NULL
    /\ faults < MaxFaults
    /\ faults' = faults + 1
    /\ PostAck \/ UNCHANGED server
    /\ mark_signal_processed
    /\ UNCHANGED <<poller, signal_state, signals, crashes>>

-----------------------------------------------------------------------------
\* The sidecar process dies and is started again: nothing of it is stored.
Restart ==
    /\ crashes < MaxCrashes
    /\ crashes' = crashes + 1
    /\ polled' = {}
    /\ _in_flight' = {}
    /\ job' = [t \in Tasks |-> NoJob]
    /\ signal_state' = [t \in Tasks |-> NULL]
    /\ _processed_signals' = {}
    /\ signals' = {}
    /\ ack' = NULL
    /\ UNCHANGED <<server, runs, faults>>

Principal(t) == \/ cancel_task(t) \/ redirect_task(t) \/ pause_task(t)
                \/ resume_task(t) \/ retask_task(t) \/ inject_context(t)

\* A step of the coroutine that does not depend on the handler or the clock.
Execute(t) == \/ _post_event(t) \/ _post_event_retry(t) \/ _post_event_raises(t)
              \/ spawn(t) \/ check(t) \/ wait_if_paused(t) \/ _dispatch_ends(t)

\* A step that waits for the handler process.
Handler(t) == feed_stdin(t) \/ readline(t) \/ process_exit(t) \/ kill_done(t)

SignalLoop == \/ poll_signals
              \/ \E s \in signals : _handle_signal(s)
              \/ _post_ack \/ _post_ack_retry \/ _post_ack_raises

Next ==
    \/ poll \/ run
    \/ \E t \in Tasks : \/ Principal(t) \/ Minute(t)
                        \/ Execute(t) \/ Handler(t) \/ timeout(t)
    \/ SignalLoop
    \/ Restart

Spec == Init /\ [][Next]_vars

\* The event loop runs what is ready, HTTP requests end, polls are repeated.  The
\* deadline of an execution passes whatever its handler writes meanwhile.  Of the
\* handler nothing is assumed.
FairSpec ==
    /\ Spec
    /\ WF_vars(poll) /\ WF_vars(run) /\ WF_vars(SignalLoop)
    /\ \A t \in Tasks : WF_vars(Execute(t)) /\ SF_vars(timeout(t))

-----------------------------------------------------------------------------
(* Properties.                                                             *)

\* A task is in flight exactly while its coroutine lives and its signal state is
\* registered, and at most max_concurrent tasks are: no slot is lost or taken
\* twice whichever way executions end.
SlotsAccounted ==
    /\ Cardinality(_in_flight) <= max_concurrent
    /\ \A t \in Tasks : /\ t \in _in_flight <=> job[t].pc # "none"
                        /\ t \in _in_flight <=> signal_state[t] # NULL

\* An event is recorded once, and in the order it was streamed, although POSTs
\* the server has already carried out are repeated.
RecordedOnce ==
    \A t \in Tasks : \A i, j \in 1..Len(log[t]) :
        i < j => log[t][i].sequence < log[t][j].sequence

\* However often a task is executed, one outcome of it is recorded: a second
\* execution, started from a response older than the end of the first or after a
\* restart, posts into a log that takes no further outcome.
OneOutcome ==
    \A t \in Tasks :
        Cardinality({i \in 1..Len(log[t]) :
                        /\ log[t][i].by = "executor"
                        /\ log[t][i].kind \in {"completed", "failed"}}) <= 1

\* A handler whose first event says "running" has the task running, or further,
\* once that event has been answered, although the streamer's own initial event
\* has a number that is taken and is always rejected.
HandlerSaysRunning ==
    \A t \in Tasks :
        /\ faults = 0 /\ runs[t] = 1
        /\ job[t].pc = "check" /\ job[t].kind = "running" /\ job[t].then = "check"
        => status[t] # "accepted"

\* The numbers 1 and 2 of an acknowledgement's stream are taken when it is posted:
\* whatever is signalled has an event of its own.  What TaskStore assumes of an
\* executor, one POST of a task at a time, is kept for this reason only.
AcksRefused == \A t \in Tasks : \A i \in 1..Len(log[t]) : log[t][i].by # "ack"

\* A late acknowledgement undoes nothing: when that of a pause is posted, the task
\* may have been resumed, cancelled or completed in the meantime, and posting it
\* leaves every task's status as it is, also when the POST is repeated.
AcksUndoNothing == [][ack # NULL /\ ack' # ack => status' = status]_vars

\* When every signal of an active task has been handled, its executor is stopped
\* at the pause event exactly if the server says "paused": signals are applied in
\* order and once, although each response repeats all of them.  For the first
\* execution of a task.
PauseAgrees ==
    \A t \in _in_flight :
        /\ runs[t] = 1 /\ status[t] \in {"running", "paused"}
        /\ ack = NULL
        /\ \A s \in get_pending_signals : s.task = t => s \in _processed_signals
        => (signal_state[t].running <=> status[t] = "running")

AwaitsHandler(t) == job[t].pc \in {"stdin", "exit", "killed"}

\* Every execution ends, paused or not, and frees its slot, if the handler takes
\* its input and, once it has closed its output or was killed, goes away: these are
\* the awaits the timeout does not cover.  What it writes, and whether it stops
\* writing, does not matter.
ExecutionsEnd ==
    \A t \in Tasks : []<>(~AwaitsHandler(t)) =>
                         (t \in _in_flight ~> t \notin _in_flight)
=============================================================================
