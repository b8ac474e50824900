-------------------------- MODULE CallbackDelivery --------------------------
(***************************************************************************)
(* The delivery of callbacks (tasks/callbacks.py), beside the sessions of  *)
(* TaskStore that schedule them.  Each schedule_callback starts an asyncio *)
(* task of its own, deliver_callback, which posts the task as it was when  *)
(* the handler read it again, up to MAX_ATTEMPTS times.  A post may fail   *)
(* before or after the receiver has taken it; a crash of the server loses  *)
(* the deliveries that are not over.                                       *)
(***************************************************************************)
EXTENDS TaskStore, Sequences

CONSTANT MaxFailures  \* bound on posts that fail

ASSUME DeliveryAssumption == MaxFailures \in Nat

RETRY_DELAYS == <<1, 2, 4>>

\* Mutant: the first attempt is counted as a retry.
MAX_ATTEMPTS_retries == Len(RETRY_DELAYS)

MAX_ATTEMPTS == Len(RETRY_DELAYS) + 1

VARIABLES
    deliveries,  \* of each task, in the order they were scheduled
    inbox,       \* the payloads the receiver has taken
    failures     \* failed posts so far

dvars == <<deliveries, inbox, failures>>

Payload == [status : TaskStatus, result : {NULL, "result", "error"}]

\* over: deliver_callback has returned, or the process it ran in is gone.
Delivery == [payload : Payload, attempts : 0..MAX_ATTEMPTS, over : BOOLEAN]

DeliveryTypeOK ==
    /\ deliveries \in [TaskIds -> Seq(Delivery)]
    /\ inbox \in [TaskIds -> SUBSET Payload]
    /\ failures \in 0..MaxFailures

DeliveryInit ==
    /\ Init
    /\ deliveries = [t \in TaskIds |-> << >>]
    /\ inbox = [t \in TaskIds |-> {}]
    /\ failures = 0

\* Mutant: the result is left out.
build_callback_payload_bare(t) == [status |-> row[t].status, result |-> NULL]

build_callback_payload(t) == [status |-> row[t].status, result |-> row[t].result]

\* A step A of TaskStore.  schedule_callback starts a delivery; a crash ends
\* them.
Scheduling(A) ==
    /\ A
    /\ deliveries' =
         [t \in TaskIds |->
            IF crashes' # crashes
            THEN [i \in DOMAIN deliveries[t] |-> [deliveries[t][i] EXCEPT !.over = TRUE]]
            ELSE IF callbacks'[t] # callbacks[t]
            THEN Append(deliveries[t], [payload |-> build_callback_payload(t),
                                        attempts |-> 0, over |-> FALSE])
            ELSE deliveries[t]]
    /\ UNCHANGED <<inbox, failures>>

\* A post of the i-th delivery.  taken: the receiver has it; answered: it said
\* so with 2xx within the timeout.  A receiver may have taken a post that is
\* then repeated.
deliver_callback(t, i) ==
    /\ i \in DOMAIN deliveries[t]
    /\ ~deliveries[t][i].over
    /\ \E taken, answered \in BOOLEAN :
          /\ answered => taken
          /\ ~answered => failures < MaxFailures
          /\ failures' = IF answered THEN failures ELSE failures + 1
          /\ inbox' = IF taken
                      THEN [inbox EXCEPT ![t] = @ \cup {deliveries[t][i].payload}]
                      ELSE inbox
          /\ LET attempts == deliveries[t][i].attempts + 1 IN
             deliveries' = [deliveries EXCEPT ![t][i] =
                              [@ EXCEPT !.attempts = attempts,
                                        !.over = answered \/ attempts = MAX_ATTEMPTS]]
    /\ UNCHANGED vars

Deliver == \E t \in TaskIds : \E i \in DOMAIN deliveries[t] : deliver_callback(t, i)

DeliveryNext == Scheduling(Next) \/ Deliver

\* The event loop runs handlers and deliveries on.
DeliverySpec ==
    /\ DeliveryInit /\ [][DeliveryNext]_<<vars, dvars>>
    /\ \A s \in Sessions : WF_<<vars, dvars>>(Scheduling(Proceed(s)))
    /\ WF_<<vars, dvars>>(Deliver)

-----------------------------------------------------------------------------
\* What the receiver is told is true: a terminal status the log has, and for a
\* completed or failed task the result of an event that says so, however often
\* posts are repeated and whatever other requests do between the commit of the
\* outcome and the reading of the task for the callback.
ReportsTrue ==
    \A t \in TaskIds : \A p \in inbox[t] :
        /\ is_terminal(p.status)
        /\ \E e \in events[t] : e.status = p.status
        /\ p.status \in {"completed", "failed"} =>
              \E e \in events[t] : e.event_type = p.status /\ e.result = p.result

outcomes(t) == {e \in events[t] : e.event_type \in {"completed", "failed"}}

Reopened(t) == \E e \in outcomes(t), f \in events[t] :
                  /\ e.sequence < f.sequence
                  /\ f.status \in TaskStatus /\ ~is_terminal(f.status)

\* The receiver learns that a task is over: once the executor's outcome is
\* committed, a callback is scheduled and one of its attempts arrives, unless a
\* post and its three retries all fail.  Not if the server crashes, which is not
\* made up for, nor if an overlapping request has put the task back into a state
\* that is not terminal before it was read for the callback.
ReceiverTold ==
    \A t \in TaskIds :
        (exists(t) /\ tasks[t].callback_url /\ outcomes(t) # {})
        ~> \/ inbox[t] # {}
           \/ failures > Len(RETRY_DELAYS)
           \/ crashes > 0
           \/ Reopened(t)

\* A pause that has outlived its time to live ends if somebody keeps asking to
\* resume the task, whichever requests come in between: resume_task is the only
\* one that looks at the clock.  (~room: the bound MaxSequence is reached.)
ExpiredPauseEnds ==
    \A t \in TaskIds :
        LET Expired == /\ row[t].status = "paused"
                       /\ row[t].paused_at # NULL
                       /\ now - row[t].paused_at > fleet_pause_ttl_seconds
                       /\ room(t)
        IN  SF_<<vars, dvars>>(\E s \in Sessions, caller \in Agents :
                                  Scheduling(resume_task(s, t, caller)))
            => (Expired ~> ~Expired)
=============================================================================
