---------------------------- MODULE EventStream ----------------------------
(***************************************************************************)
(* The event stream of a task (tasks/sse.py) and a client that reads it,   *)
(* beside the sessions of TaskStore that write the log.  The generator     *)
(* _event_stream fetches the events after the last one it sent, sends them *)
(* one by one, and reads the task's status when a fetch found nothing or   *)
(* the replay is over; the log and the status change in between.  A        *)
(* connection may break and what is under way on it is lost; the client    *)
(* connects again with the id of the last event it received.               *)
(***************************************************************************)
EXTENDS TaskStore, Sequences

CONSTANTS
    MaxDrops,   \* bound on broken connections
    MaxUnread   \* the server waits when the client has this much to read

\* An executor's "status" event has the status under data["status"]; the
\* events of cancel, retask and redirect have it under data["to_status"],
\* which the stream does not look at.  Executors do not post those three.
ASSUME StreamAssumption ==
    /\ ExecutorStatuses \cap {"cancelled", "retasked", "redirected"} = {}
    /\ MaxDrops \in Nat
    /\ MaxUnread \in Nat \ {0}
    /\ NULL \notin TaskEvent

VARIABLES
    stream,  \* the generator: its place, last_sent_sequence, the events fetched
    client,  \* the task it watches, its Last-Event-Id, the numbers it received
    unread,  \* sent to the client and not yet read
    drops,   \* broken connections so far
    late     \* events that became visible after one with a higher number

svars == <<stream, client, unread, drops, late>>

\* What format_sse_event puts on the wire; event NULL: the heartbeat.
Message == [id : Nat, event : TaskEvent \cup {NULL}]

StreamTypeOK ==
    /\ stream \in [place : {"closed", "fetch", "send", "status"}, polling : BOOLEAN,
                   last : Nat, batch : SUBSET TaskEvent]
    /\ client \in [task : TaskIds \cup {NULL}, last : Nat, got : Seq(Nat)]
    /\ unread \in Seq(Message)
    /\ Len(unread) <= MaxUnread
    /\ drops \in 0..MaxDrops
    /\ late \in [TaskIds -> SUBSET TaskEvent]

Closed == [place |-> "closed", polling |-> FALSE, last |-> 0, batch |-> {}]

StreamInit ==
    /\ Init
    /\ stream = Closed
    /\ client = [task |-> NULL, last |-> 0, got |-> << >>]
    /\ unread = << >>
    /\ drops = 0
    /\ late = [t \in TaskIds |-> {}]

\* Mutant: the status is looked at before the replay.
stream_task_events_status_first(t) ==
    /\ stream.place = "closed"
    /\ unread = << >>
    /\ exists(t)
    /\ client.task \in {NULL, t}
    /\ client' = [client EXCEPT !.task = t]
    /\ stream' = [Closed EXCEPT !.place = "status", !.last = client.last]
    /\ UNCHANGED <<vars, unread, drops, late>>

\* GET .../stream: with Last-Event-Id, or from the start.
stream_task_events(t) ==
    /\ stream.place = "closed"
    /\ unread = << >>
    /\ exists(t)
    /\ client.task \in {NULL, t}
    /\ client' = [client EXCEPT !.task = t]
    /\ stream' = [Closed EXCEPT !.place = "fetch", !.last = client.last]
    /\ UNCHANGED <<vars, unread, drops, late>>

\* _fetch_events_after: sequence > after_sequence.
fetched(last) == {e \in events[client.task] : e.sequence > last}

\* A fetch that finds nothing is followed by a look at the status, in the replay
\* and when polling.
_fetch_events_after ==
    /\ stream.place = "fetch"
    /\ stream' = [stream EXCEPT
                    !.batch = fetched(stream.last),
                    !.place = IF fetched(stream.last) = {} THEN "status" ELSE "send"]
    /\ UNCHANGED <<vars, client, unread, drops, late>>

\* Mutant: every status event ends the stream.
ends_stream_at_status(e) == e.event_type \in {"completed", "failed", "status"}

\* The event signals a terminal state: its type, or data["status"].
ends_stream(e) == \/ e.event_type \in {"completed", "failed"}
                  \/ e.event_type = "status" /\ e.status \in {"completed", "failed"}

\* yield of the next event of the batch, in ascending order.  After the last one
\* the replay looks at the status, the polling loop sleeps and fetches again.
send ==
    /\ stream.place = "send"
    /\ Len(unread) < MaxUnread
    /\ \E e \in stream.batch :
          /\ \A f \in stream.batch : e.sequence <= f.sequence
          /\ unread' = Append(unread, [id |-> e.sequence, event |-> e])
          /\ stream' = IF ends_stream(e) THEN Closed
                       ELSE [stream EXCEPT
                               !.last = e.sequence,
                               !.batch = @ \ {e},
                               !.place = IF stream.batch # {e} THEN "send"
                                         ELSE IF stream.polling THEN "fetch"
                                         ELSE "status"]
    /\ UNCHANGED <<vars, client, drops, late>>

\* Mutant: the keepalive takes the next number.
keepalive_next(last) == [id |-> last + 1, event |-> NULL]

\* The keepalive repeats the number of the last event.
keepalive(last) == [id |-> last, event |-> NULL]

\* Mutant: the status is not looked at.
ends_at_status_never(status) == FALSE

ends_at_status(status) == is_terminal(status)

\* _get_task_status and what follows: the end, or the next round of the polling
\* loop, after a keepalive if nothing was sent for heartbeat_interval.
_get_task_status ==
    /\ stream.place = "status"
    /\ \/ /\ ends_at_status(row[client.task].status)
          /\ stream' = Closed
          /\ UNCHANGED unread
       \/ /\ ~ends_at_status(row[client.task].status)
          /\ stream' = [stream EXCEPT !.place = "fetch", !.polling = TRUE]
          /\ \/ UNCHANGED unread
             \/ /\ stream.polling
                /\ Len(unread) < MaxUnread
                /\ unread' = Append(unread, keepalive(stream.last))
    /\ UNCHANGED <<vars, client, drops, late>>

\* The client reads a message; its id is the new Last-Event-Id.
receive ==
    /\ unread # << >>
    /\ LET m == Head(unread) IN
       client' = [client EXCEPT
                    !.last = m.id,
                    !.got = IF m.event = NULL THEN @ ELSE Append(@, m.id)]
    /\ unread' = Tail(unread)
    /\ UNCHANGED <<vars, stream, drops, late>>

\* The connection breaks.
drop ==
    /\ drops < MaxDrops
    /\ stream.place # "closed" \/ unread # << >>
    /\ drops' = drops + 1
    /\ stream' = Closed
    /\ unread' = << >>
    /\ UNCHANGED <<vars, client, late>>

\* A step of TaskStore.  A crash of the server breaks the connection too.
StoreStep ==
    /\ Next
    /\ late' = [t \in TaskIds |-> late[t] \cup
                  {e \in events'[t] \ events[t] :
                      \E f \in events[t] : f.sequence > e.sequence}]
    /\ IF crashes' = crashes THEN UNCHANGED <<stream, unread>>
       ELSE stream' = Closed /\ unread' = << >>
    /\ UNCHANGED <<client, drops>>

StreamNext ==
    \/ StoreStep
    \/ \E t \in TaskIds : stream_task_events(t)
    \/ _fetch_events_after
    \/ send
    \/ _get_task_status
    \/ receive
    \/ drop

\* The generator runs on, the client reads what it is sent and connects again.
StreamSpec ==
    /\ StreamInit /\ [][StreamNext]_<<vars, svars>>
    /\ WF_<<vars, svars>>(_fetch_events_after \/ send \/ _get_task_status)
    /\ WF_<<vars, svars>>(receive)
    /\ WF_<<vars, svars>>(\E t \in TaskIds : stream_task_events(t))

-----------------------------------------------------------------------------
\* The client's view is the log: what it has received is, in ascending order and
\* each once, every event up to its Last-Event-Id, over broken connections,
\* reconnections and keepalives.  Only an event that became visible after one
\* with a higher number may be missing.
ViewIsLog ==
    LET got == {client.got[i] : i \in DOMAIN client.got}
        numbers(E) == {e.sequence : e \in E}
    IN  client.task # NULL =>
        /\ \A i, j \in DOMAIN client.got : i < j => client.got[i] < client.got[j]
        /\ got \subseteq numbers(events[client.task])
        /\ \A e \in events[client.task] \ late[client.task] :
              e.sequence <= client.last => e.sequence \in got

\* The server ends a connection only when the log says that the task has reached
\* a terminal state.
ClosedWhenTerminal ==
    [][(/\ stream.place # "closed" /\ stream'.place = "closed"
        /\ drops' = drops /\ crashes' = crashes)
       => \E e \in events[client.task] : is_terminal(e.status)]_<<vars, svars>>

Over == client.task # NULL /\ is_terminal(row[client.task].status)

\* A connection to a task that has come to its end is ended, also if the event
\* that said so was sent before the status was read, or is missing.
StreamsEnd == (Over /\ stream.place # "closed") ~> (stream.place = "closed" \/ ~Over)

\* A client that connects again whenever it is disconnected receives an event
\* with the task's terminal status, although the stream may end without having
\* sent it.
OutcomeSeen ==
    Over ~> \/ ~Over
            \/ \E e \in events[client.task] :
                  /\ is_terminal(e.status)
                  /\ \/ e \in late[client.task]
                     \/ \E i \in DOMAIN client.got : client.got[i] = e.sequence
=============================================================================
