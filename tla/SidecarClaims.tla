--------------------------- MODULE SidecarClaims ---------------------------
(***************************************************************************)
(* What the repository's documents and comments say of the sidecar and the *)
(* code does not keep: naming one of these in a configuration of this      *)
(* module gives a counterexample.  The runs named Claim... do so for the   *)
(* most consequential ones.                                                *)
(***************************************************************************)
EXTENDS Sidecar

\* While its handler is being read, a task is "running" on the server: stream has
\* posted that first (streamer.py).  The POST has number 1, which the task's
\* "created" event has, and is rejected.
ExecutingIsRunning ==
    \A t \in Tasks : (faults = 0 /\ job[t].pc \in {"check", "read"}) =>
                         status[t] # "accepted"

\* What a handler has reported as completed is completed on the server, when no
\* POST has failed.  Operations of the principal take the numbers of the events
\* that follow, although context injections are said to be numbered apart
\* (context.py).
CompletionRecorded ==
    \A t \in Tasks :
        (faults = 0 /\ job[t].pc \in {"check", "read"} /\ job[t].kind = "completed")
        => status[t] # "running"

\* The sidecar is told of a task that has just been cancelled, so that it can stop
\* executing it (crud.py).  It is not, unless some task is active.
CancelAnnounced ==
    \A t \in _in_flight :
        (status[t] = "cancelled" /\ recent[t]) =>
            \E s \in get_pending_signals :
                s.task = t /\ s.signal_type = "cancel_requested"

\* The executor holds the state of a paused task (RFC 1, status definitions).  Its
\* handler may end before the pause is noticed, and its timeout goes on while it
\* is paused; the "failed" or "completed" event is then rejected.
PausedStateHeld ==
    \A t \in Tasks : (faults = 0 /\ status[t] = "paused") => t \in _in_flight

\* The sidecar polls for context injections and signals and applies them (RFC 1,
\* 7.2): every signal the server returns is of a type the sidecar knows.  The
\* server says "context_injected", which stays in every response while its task is
\* active and makes the sidecar drop the whole response, pauses included.
SignalsUnderstood == \A s \in get_pending_signals : s.signal_type \in SignalType

\* The deduplication set holds signals of registered tasks only, so it does not
\* grow with the sidecar's lifetime (signal_state.py).  Signals of a task that is no
\* longer registered are added, too, and nothing removes them.
DedupPruned == \A s \in _processed_signals : signal_state[s.task] # NULL

\* Tasks in flight are tracked so that none is dispatched twice (poller.py): one
\* that was executed is started again only if it is still "accepted".  A response
\* the server made before the first execution can be used after it.
NotStartedAgain ==
    [][\A t \in _in_flight' \ _in_flight :
          runs[t] > 0 => status[t] = "accepted"]_vars

\* When the timeout passes, the "failed" event is yielded (executor.py).  It is
\* not if an event of the handler is being posted at that moment.
TimeoutYieldsFailed ==
    [][\A t \in Tasks : timeout(t) => job'[t].pc = "killed"]_vars

\* When the timeout passes, the execution is over (executor.py).  The timeout is on
\* the reading of the handler's output: one that does not take its input, or
\* closes its output and does not exit, is waited for without end.
ExecutionsTimedOut == \A t \in Tasks : t \in _in_flight ~> t \notin _in_flight

\* The sidecar reports that it has paused the executor (RFC 1, 7.5).  The report is
\* a stream of its own, numbered from 1, and the server rejects it.
AcksRecorded ==
    \A s \in _processed_signals :
        /\ faults = 0 /\ runs[s.task] = 1 /\ s.task \in _in_flight
        /\ s.signal_type = "pause_requested"
        => \E i \in 1..Len(log[s.task]) :
              log[s.task][i].by = "ack" /\ log[s.task][i].kind = "paused"

\* The accepted tasks of an agent are returned to its sidecar (crud.py,
\* get_pending_tasks), so an accepted task is started or cancelled.  Not if
\* func.case takes no else_.
AcceptedStarted ==
    \A t \in Tasks : status[t] = "accepted" ~>
                         (status[t] # "accepted" \/ t \in _in_flight)

\* A running task whose sidecar is gone fails (RFC 1, 7.6).  Nothing looks for it,
\* and the restarted sidecar polls for accepted tasks only.
OrphansEnd ==
    \A t \in Tasks : (status[t] = "running" /\ t \notin _in_flight)
                         ~> (status[t] # "running" \/ t \in _in_flight)
=============================================================================
