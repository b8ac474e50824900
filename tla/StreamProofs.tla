---------------------------- MODULE StreamProofs ----------------------------
(***************************************************************************)
(* EventStream: a client's view of a task is its log, for any number of    *)
(* sessions, broken connections and crashes, and however much the server   *)
(* sends ahead.                                                            *)
(***************************************************************************)
EXTENDS EventStream, TaskLogProofs, SequenceTheorems

-----------------------------------------------------------------------------
(* Types.                                                                  *)

LEMMA StreamTypeInit == StreamInit => StreamTypeOK
BY StreamAssumption
   DEF StreamInit, StreamTypeOK, Closed

\* A message is sent.
LEMMA SentType ==
    ASSUME unread \in Seq(Message), NEW m \in Message, Len(unread) < MaxUnread,
           unread' = Append(unread, m)
    PROVE  /\ unread' \in Seq(Message)
           /\ Len(unread') = Len(unread) + 1
           /\ Len(unread') <= MaxUnread
           /\ \A i \in 1..Len(unread) : unread'[i] = unread[i]
           /\ unread'[Len(unread) + 1] = m
BY AppendProperties, StreamAssumption

LEMMA StreamTypeStep ==
    ASSUME StreamTypeOK, StoreInv, StoreInv', [StreamNext]_<<vars, svars>>,
           client.task = NULL => stream.place = "closed"
    PROVE  StreamTypeOK'
<1> USE StreamAssumption
<1>0. TypeOK /\ TypeOK'
  BY DEF StoreInv, LineageInv
<1>1. Closed \in [place : {"closed", "fetch", "send", "status"}, polling : BOOLEAN,
                  last : Nat, batch : SUBSET TaskEvent]
  BY DEF Closed
<1>2. CASE StoreStep
  <2>1. late' \in [TaskIds -> SUBSET TaskEvent]
    BY <1>0, <1>2 DEF StoreStep, StreamTypeOK, TypeOK
  <2>2. \/ UNCHANGED <<stream, unread>>
        \/ stream' = Closed /\ unread' = << >>
    BY <1>2 DEF StoreStep
  <2>3. client' = client /\ drops' = drops
    BY <1>2 DEF StoreStep
  <2>4. << >> \in Seq(Message) /\ Len(<< >>) <= MaxUnread
    OBVIOUS
  <2>5. unread' \in Seq(Message) /\ Len(unread') <= MaxUnread
    BY <2>2, <2>4 DEF StreamTypeOK
  <2>6. stream' \in [place : {"closed", "fetch", "send", "status"}, polling : BOOLEAN,
                     last : Nat, batch : SUBSET TaskEvent]
    BY <1>1, <2>2 DEF StreamTypeOK
  <2> QED  BY <2>1, <2>3, <2>5, <2>6 DEF StreamTypeOK
<1>3. ASSUME NEW t \in TaskIds, stream_task_events(t) PROVE StreamTypeOK'
  BY <1>3 DEF stream_task_events, StreamTypeOK, Closed
<1>4. CASE _fetch_events_after
  <2>1. client.task \in TaskIds
    BY <1>4 DEF _fetch_events_after, StreamTypeOK
  <2>2. fetched(stream.last) \subseteq TaskEvent
    BY <1>0, <2>1 DEF fetched, TypeOK
  <2> QED  BY <1>4, <2>2 DEF _fetch_events_after, StreamTypeOK
<1>5. CASE send
  <2>1. PICK e \in stream.batch :
          /\ unread' = Append(unread, [id |-> e.sequence, event |-> e])
          /\ stream' = IF ends_stream(e) THEN Closed
                       ELSE [stream EXCEPT
                               !.last = e.sequence,
                               !.batch = @ \ {e},
                               !.place = IF stream.batch # {e} THEN "send"
                                         ELSE IF stream.polling THEN "fetch"
                                         ELSE "status"]
    BY <1>5 DEF send
  <2>2. e \in TaskEvent /\ e.sequence \in Nat
    BY DEF StreamTypeOK, TaskEvent
  <2>3. [id |-> e.sequence, event |-> e] \in Message
    BY <2>2 DEF Message
  <2>4. unread' \in Seq(Message) /\ Len(unread') <= MaxUnread
    BY <1>5, <2>1, <2>3, SentType DEF send, StreamTypeOK
  <2>5. stream' \in [place : {"closed", "fetch", "send", "status"}, polling : BOOLEAN,
                     last : Nat, batch : SUBSET TaskEvent]
    BY <1>1, <2>1, <2>2 DEF StreamTypeOK
  <2> QED  BY <1>5, <2>4, <2>5 DEF send, StreamTypeOK
<1>6. CASE _get_task_status
  <2>1. keepalive(stream.last) \in Message
    BY DEF keepalive, Message, StreamTypeOK
  <2>2. unread' \in Seq(Message) /\ Len(unread') <= MaxUnread
    <3>1. \/ unread' = unread
          \/ Len(unread) < MaxUnread /\ unread' = Append(unread, keepalive(stream.last))
      BY <1>6 DEF _get_task_status
    <3> QED  BY <2>1, <3>1, SentType DEF StreamTypeOK
  <2>3. \/ stream' = Closed
        \/ stream' = [stream EXCEPT !.place = "fetch", !.polling = TRUE]
    BY <1>6 DEF _get_task_status
  <2>4. stream' \in [place : {"closed", "fetch", "send", "status"}, polling : BOOLEAN,
                     last : Nat, batch : SUBSET TaskEvent]
    BY <1>1, <2>3 DEF StreamTypeOK
  <2> QED  BY <1>6, <2>2, <2>4 DEF _get_task_status, StreamTypeOK
<1>7. CASE receive
  <2> DEFINE m == Head(unread)
  <2>1. /\ m \in Message
        /\ Tail(unread) \in Seq(Message)
        /\ Len(Tail(unread)) <= MaxUnread
    BY <1>7, HeadTailProperties DEF receive, StreamTypeOK
  <2>2. m.id \in Nat
    BY <2>1 DEF Message
  <2>3. client' = [client EXCEPT !.last = m.id,
                                 !.got = IF m.event = NULL THEN client.got
                                         ELSE Append(client.got, m.id)]
    BY <1>7 DEF receive
  <2>4. Append(client.got, m.id) \in Seq(Nat)
    BY <2>2, AppendProperties DEF StreamTypeOK
  <2> HIDE DEF m
  <2>5. client' \in [task : TaskIds \cup {NULL}, last : Nat, got : Seq(Nat)]
    BY <2>2, <2>3, <2>4 DEF StreamTypeOK
  <2> QED  BY <1>7, <2>1, <2>5 DEF receive, StreamTypeOK
<1>8. CASE drop
  BY <1>1, <1>8 DEF drop, StreamTypeOK
<1>9. CASE UNCHANGED <<vars, svars>>
  BY <1>9 DEF svars, StreamTypeOK
<1> QED  BY <1>2, <1>3, <1>4, <1>5, <1>6, <1>7, <1>8, <1>9 DEF StreamNext

-----------------------------------------------------------------------------
(* The view.  ViewIsLog says nothing of what is under way, so it is not    *)
(* inductive.  What holds for the client up to its Last-Event-Id holds for *)
(* each message up to its number, and for the generator up to              *)
(* last_sent_sequence, when the messages before are counted as received.   *)

Received(n) == \E i \in DOMAIN client.got : client.got[i] = n

\* n is the number of one of the first k messages, which is not a keepalive.
UnderWay(n, k) == \E i \in 1..Len(unread) : /\ i <= k
                                            /\ unread[i].event # NULL
                                            /\ unread[i].id = n

Known(n, k) == Received(n) \/ UnderWay(n, k)

\* No event up to number n is missing after the first k messages, but late ones.
Covered(n, k) ==
    \A e \in events[client.task] \ late[client.task] :
        e.sequence <= n => Known(e.sequence, k)

logged(n) == \E e \in events[client.task] : e.sequence = n

ClientView ==
    /\ \A i, j \in DOMAIN client.got : i < j => client.got[i] < client.got[j]
    /\ \A i \in DOMAIN client.got : client.got[i] <= client.last /\ logged(client.got[i])
    /\ client.last = 0 \/ Received(client.last)
    /\ Covered(client.last, 0)

WireView ==
    \A k \in 1..Len(unread) :
        /\ Covered(unread[k].id, k)
        /\ unread[k].id = 0 \/ Known(unread[k].id, k)
        /\ client.last <= unread[k].id
        /\ \A j \in 1..Len(unread) : j < k => unread[j].id <= unread[k].id
        /\ unread[k].event # NULL =>
              /\ logged(unread[k].id)
              /\ client.last < unread[k].id
              /\ \A j \in 1..Len(unread) : j < k => unread[j].id < unread[k].id

ServerView ==
    stream.place # "closed" =>
        /\ client.last <= stream.last
        /\ \A k \in 1..Len(unread) : unread[k].id <= stream.last
        /\ stream.last = 0 \/ Known(stream.last, Len(unread))
        /\ Covered(stream.last, Len(unread))
        /\ stream.batch \subseteq events[client.task]
        /\ \A b \in stream.batch :
              /\ stream.last < b.sequence
              /\ \A e \in events[client.task] \ late[client.task] :
                    (stream.last < e.sequence /\ e.sequence <= b.sequence)
                    => \E c \in stream.batch : c.sequence = e.sequence

\* A client that has not connected has received nothing.
NotYet == /\ stream.place = "closed"
          /\ client.last = 0
          /\ client.got = << >>
          /\ unread = << >>

Views == IF client.task = NULL THEN NotYet
         ELSE exists(client.task) /\ ClientView /\ WireView /\ ServerView

StreamInv == StoreInv /\ StreamTypeOK /\ Views

\* What the definitions above range over.
LEMMA StreamTypes ==
    ASSUME StoreInv, StreamTypeOK, client.task # NULL
    PROVE  /\ client.task \in TaskIds
           /\ client.last \in Nat /\ stream.last \in Nat
           /\ Len(unread) \in Nat /\ Len(client.got) \in Nat
           /\ DOMAIN client.got = 1..Len(client.got)
           /\ \A i \in DOMAIN client.got : client.got[i] \in Nat
           /\ \A k \in 1..Len(unread) : unread[k] \in Message /\ unread[k].id \in Nat
           /\ \A e \in events[client.task] : e \in TaskEvent /\ e.sequence \in Nat
                                             /\ e.sequence > 0 /\ e # NULL
           /\ \A e, f \in events[client.task] : e.sequence = f.sequence => e = f
<1>1. client.task \in TaskIds /\ client.last \in Nat /\ stream.last \in Nat
  BY DEF StreamTypeOK
<1>2. client.got \in Seq(Nat) /\ unread \in Seq(Message)
  BY DEF StreamTypeOK
<1>3. /\ Len(unread) \in Nat /\ Len(client.got) \in Nat
      /\ DOMAIN client.got = 1..Len(client.got)
      /\ \A i \in DOMAIN client.got : client.got[i] \in Nat
      /\ \A k \in 1..Len(unread) : unread[k] \in Message
  BY <1>2
<1>4. \A k \in 1..Len(unread) : unread[k].id \in Nat
  BY <1>3 DEF Message
<1>5. \A e \in events[client.task] : e \in TaskEvent
  BY <1>1 DEF StoreInv, LineageInv, TypeOK
<1>6. \A e \in events[client.task] : e.sequence \in Nat /\ e # NULL
  BY <1>5, StreamAssumption DEF TaskEvent
<1>7. /\ \A e \in events[client.task] : e.sequence > 0
      /\ \A e, f \in events[client.task] : e.sequence = f.sequence => e = f
  BY <1>1 DEF StoreInv, Numbered
<1> QED  BY <1>1, <1>3, <1>4, <1>5, <1>6, <1>7

\* The log may grow under a view: an event that is not late has a higher number
\* than all before it.
LEMMA LogGrows ==
    ASSUME StreamInv, StoreInv', StreamTypeOK', StoreStep, client.task # NULL
    PROVE  /\ client' = client /\ exists(client.task)'
           /\ events[client.task] \subseteq events'[client.task]
           /\ late[client.task] \subseteq late'[client.task]
           /\ \A e \in events'[client.task] \ late'[client.task] :
                 \/ e \in events[client.task] \ late[client.task]
                 \/ \A f \in events[client.task] : f.sequence <= e.sequence
           /\ \A e \in events'[client.task] : e.sequence \in Nat /\ e.sequence > 0
<1>1. client' = client
  BY DEF StoreStep
<1>2. client.task \in TaskIds
  BY DEF StreamInv, StreamTypeOK
<1>3. exists(client.task)' /\ events[client.task] \subseteq events'[client.task]
  <2>1. exists(client.task)
    BY DEF StreamInv, Views
  <2>2. Next
    BY DEF StoreStep
  <2> QED  BY <1>1, <1>2, <2>1, <2>2, StoreGrows DEF StreamInv, exists
<1>4. late'[client.task] = late[client.task] \cup
         {e \in events'[client.task] \ events[client.task] :
             \E f \in events[client.task] : f.sequence > e.sequence}
  BY <1>2 DEF StoreStep
<1>5. \A e \in events'[client.task] : e.sequence \in Nat /\ e.sequence > 0
  BY <1>1, <1>2, StreamTypes DEF StreamInv, StoreInv, Numbered, LineageInv, TypeOK,
                                 TaskEvent
<1>6. \A f \in events[client.task] : f.sequence \in Nat
  BY StreamTypes DEF StreamInv
<1> QED  BY <1>1, <1>3, <1>4, <1>5, <1>6

\* A step of the store keeps the views.
LEMMA StoreStepKeeps ==
    ASSUME StreamInv, StoreInv', StreamTypeOK', StoreStep
    PROVE  Views'
<1>1. CASE client.task = NULL
  BY <1>1 DEF StreamInv, Views, NotYet, StoreStep, Closed
<1>2. CASE client.task # NULL
  <2> DEFINE T == client.task
  <2>1. /\ client' = client /\ exists(T)'
        /\ events[T] \subseteq events'[T]
        /\ late[T] \subseteq late'[T]
        /\ \A e \in events'[T] \ late'[T] :
              \/ e \in events[T] \ late[T]
              \/ \A f \in events[T] : f.sequence <= e.sequence
        /\ \A e \in events'[T] : e.sequence \in Nat /\ e.sequence > 0
    BY <1>2, LogGrows
  <2>2. ClientView /\ WireView /\ ServerView
    BY <1>2 DEF StreamInv, Views
  <2>3. /\ \A f \in events[T] : f.sequence \in Nat
        /\ client.last \in Nat /\ stream.last \in Nat
        /\ Len(unread) \in Nat
        /\ \A k \in 1..Len(unread) : unread[k].id \in Nat
    BY <1>2, StreamTypes DEF StreamInv
  \* A number that is known, and so logged, covers what it covered before.
  <2>4. ASSUME NEW n \in Nat, NEW k \in Nat, Covered(n, k),
               n = 0 \/ Known(n, k), Known(n, k) => logged(n),
               NEW e \in events'[T] \ late'[T], e.sequence <= n
        PROVE  Known(e.sequence, k)
    <3>1. CASE e \in events[T] \ late[T]
      BY <2>4, <3>1 DEF Covered
    <3>2. CASE \A f \in events[T] : f.sequence <= e.sequence
      <4>1. n # 0
        BY <2>1, <2>4
      <4>2. PICK f \in events[T] : f.sequence = n
        BY <2>4, <4>1 DEF logged
      <4>3. e.sequence = n
        BY <2>1, <2>3, <2>4, <3>2, <4>2
      <4> QED  BY <2>4, <4>1, <4>3
    <3> QED  BY <2>1, <3>1, <3>2
  <2>5. \A n \in Nat, k \in Nat : Known(n, k) => logged(n)
    BY <2>2 DEF Known, Received, UnderWay, ClientView, WireView
  <2>6. ClientView'
    <3>1. Covered(client.last, 0)'
      <4>1. \A e \in events'[T] \ late'[T] :
               e.sequence <= client.last => Known(e.sequence, 0)
        BY <2>2, <2>3, <2>4, <2>5 DEF ClientView, Known
      <4>2. \A n : Known(n, 0) => Received(n)
        BY <2>3 DEF Known, UnderWay
      <4> QED  BY <2>1, <4>1, <4>2 DEF Covered, Known, Received
    <3> QED  BY <2>1, <2>2, <3>1 DEF ClientView, Received, logged
  <2>7. CASE UNCHANGED <<stream, unread>>
    <3>2. \A n, k : Known(n, k) => Known(n, k)'
      BY <2>1, <2>7 DEF Known, Received, UnderWay
    <3>4. WireView'
      <4> SUFFICES ASSUME NEW k \in 1..Len(unread)
                   PROVE  /\ Covered(unread[k].id, k)'
                          /\ unread[k].id = 0 \/ Known(unread[k].id, k)'
                          /\ client.last <= unread[k].id
                          /\ \A j \in 1..Len(unread) : j < k => unread[j].id <= unread[k].id
                          /\ unread[k].event # NULL =>
                                /\ logged(unread[k].id)'
                                /\ client.last < unread[k].id
                                /\ \A j \in 1..Len(unread) :
                                      j < k => unread[j].id < unread[k].id
        BY <2>1, <2>7 DEF WireView
      <4>1. /\ Covered(unread[k].id, k)
            /\ unread[k].id = 0 \/ Known(unread[k].id, k)
            /\ client.last <= unread[k].id
            /\ \A j \in 1..Len(unread) : j < k => unread[j].id <= unread[k].id
            /\ unread[k].event # NULL =>
                  /\ logged(unread[k].id)
                  /\ client.last < unread[k].id
                  /\ \A j \in 1..Len(unread) : j < k => unread[j].id < unread[k].id
        BY <2>2 DEF WireView
      <4>2. unread[k].id \in Nat /\ k \in Nat
        BY <2>3
      <4>3. Covered(unread[k].id, k)'
        <5> DEFINE n == unread[k].id
        <5>1. Covered(n, k) /\ (n = 0 \/ Known(n, k)) /\ n \in Nat
          BY <4>1, <4>2
        <5>2. \A e \in events'[T] \ late'[T] : e.sequence <= n => Known(e.sequence, k)
          BY <2>4, <2>5, <4>2, <5>1
        <5> QED  BY <2>1, <2>7, <3>2, <5>2 DEF Covered
      <4>4. unread[k].id = 0 \/ Known(unread[k].id, k)'
        BY <2>1, <2>7, <4>1 DEF Known, Received, UnderWay
      <4>5. unread[k].event # NULL => logged(unread[k].id)'
        BY <2>1, <2>7, <4>1 DEF logged
      <4> QED  BY <4>1, <4>3, <4>4, <4>5
    <3>5. ServerView'
      <4> SUFFICES ASSUME stream.place # "closed"
                   PROVE  /\ client.last <= stream.last
                          /\ \A k \in 1..Len(unread) : unread[k].id <= stream.last
                          /\ stream.last = 0 \/ Known(stream.last, Len(unread))'
                          /\ Covered(stream.last, Len(unread))'
                          /\ stream.batch \subseteq events'[T]
                          /\ \A b \in stream.batch :
                               /\ stream.last < b.sequence
                               /\ \A e \in events'[T] \ late'[T] :
                                    (stream.last < e.sequence /\ e.sequence <= b.sequence)
                                    => \E c \in stream.batch : c.sequence = e.sequence
        BY <2>1, <2>7 DEF ServerView
      <4>1. /\ stream.last = 0 \/ Known(stream.last, Len(unread))
            /\ Covered(stream.last, Len(unread))
        BY <2>2 DEF ServerView
      <4>2. Covered(stream.last, Len(unread))'
        <5>1. \A e \in events'[T] \ late'[T] :
                 e.sequence <= stream.last => Known(e.sequence, Len(unread))
          BY <2>3, <2>4, <2>5, <4>1
        <5> QED  BY <2>1, <2>7, <5>1 DEF Covered, Known, Received, UnderWay
      <4>3. stream.last = 0 \/ Known(stream.last, Len(unread))'
        BY <2>1, <2>7, <4>1 DEF Known, Received, UnderWay
      <4>4. ASSUME NEW b \in stream.batch, NEW e \in events'[T] \ late'[T],
                   stream.last < e.sequence, e.sequence <= b.sequence
            PROVE  \E c \in stream.batch : c.sequence = e.sequence
        <5>1. b \in events[T]
          BY <2>2 DEF ServerView
        <5>2. CASE e \in events[T] \ late[T]
          BY <2>2, <4>4, <5>2 DEF ServerView
        <5>3. CASE \A f \in events[T] : f.sequence <= e.sequence
          BY <2>1, <2>3, <4>4, <5>1, <5>3
        <5> QED  BY <2>1, <5>2, <5>3
      <4> QED  BY <2>1, <2>2, <4>2, <4>3, <4>4 DEF ServerView
    <3> QED  BY <1>2, <2>1, <2>6, <3>4, <3>5 DEF Views
  <2>8. CASE stream' = Closed /\ unread' = << >>
    <3>1. WireView'
      BY <2>8 DEF WireView
    <3>2. ServerView'
      BY <2>8 DEF ServerView, Closed
    <3> QED  BY <1>2, <2>1, <2>6, <3>1, <3>2 DEF Views
  <2> QED  BY <2>7, <2>8 DEF StoreStep
<1> QED  BY <1>1, <1>2

\* A connection begins or ends, a fetch: nothing is sent or received.
LEMMA ConnectKeeps ==
    ASSUME StreamInv, NEW t \in TaskIds, stream_task_events(t)
    PROVE  Views'
<1>1. /\ unread' = << >> /\ client' = [client EXCEPT !.task = t]
      /\ client.task \in {NULL, t} /\ exists(t)
      /\ stream' = [Closed EXCEPT !.place = "fetch", !.last = client.last]
      /\ UNCHANGED <<vars, late>>
  BY DEF stream_task_events
<1>2. /\ client'.task = t /\ client'.last = client.last /\ client'.got = client.got
      /\ stream'.last = client.last /\ stream'.batch = {} /\ client.last \in Nat
  BY <1>1 DEF StreamInv, StreamTypeOK, Closed
<1>3. UNCHANGED <<events, late, tasks>>
  BY <1>1 DEF vars
<1>4. t # NULL
  BY NullAssumption
<1>5. \A e \in events[t] : e.sequence \in Nat /\ e.sequence > 0
  BY DEF StreamInv, StoreInv, LineageInv, TypeOK, TaskEvent, Numbered
<1>6. Len(unread') = 0
  BY <1>1
<1>7. ClientView'
  <2>1. CASE client.task = NULL
    <3>1. client.last = 0 /\ client.got = << >>
      BY <2>1 DEF StreamInv, Views, NotYet
    <3>2. DOMAIN client'.got = {}
      BY <1>2, <3>1
    <3> QED  BY <1>2, <1>3, <1>5, <3>1, <3>2 DEF ClientView, Covered, Known
  <2>2. CASE client.task = t
    <3>1. ClientView
      BY <1>4, <2>2 DEF StreamInv, Views
    <3>2. \A n : Known(n, 0) => Received(n)
      BY DEF Known, UnderWay
    <3> QED  BY <1>2, <1>3, <2>2, <3>1, <3>2
             DEF ClientView, Covered, Known, Received, logged
  <2> QED  BY <1>1, <2>1, <2>2
<1>8. WireView'
  BY <1>6 DEF WireView
<1>9. ServerView'
  <2>1. Covered(client.last, 0)' /\ (client.last = 0 \/ Received(client.last)')
    BY <1>2, <1>7 DEF ClientView, Received, Covered, Known, UnderWay
  <2>2. Covered(stream.last, Len(unread))'
    BY <1>2, <1>6, <1>7 DEF ClientView, Covered, Known, UnderWay
  <2> QED  BY <1>2, <1>6, <2>1, <2>2 DEF ServerView, Known
<1> QED  BY <1>1, <1>2, <1>3, <1>4, <1>7, <1>8, <1>9 DEF Views, exists

\* The client and the messages are left alone.
LEMMA QuietViews ==
    ASSUME StreamInv, client.task # NULL, UNCHANGED <<tasks, events, late, client, unread>>
    PROVE  /\ exists(client.task)' /\ ClientView' /\ WireView'
           /\ \A n, k : Known(n, k) <=> Known(n, k)'
           /\ \A n, k : Covered(n, k) <=> Covered(n, k)'
<1>1. exists(client.task) /\ ClientView /\ WireView
  BY DEF StreamInv, Views
<1> QED  BY <1>1 DEF exists, ClientView, WireView, Covered, Known, Received, UnderWay,
                     logged

LEMMA EndKeeps ==
    ASSUME StreamInv, UNCHANGED <<tasks, events, late, client>>, stream' = Closed,
           unread' = unread \/ unread' = << >>
    PROVE  Views'
<1>1. CASE client.task = NULL
  BY <1>1 DEF StreamInv, Views, NotYet, Closed
<1>2. CASE client.task # NULL
  <2>1. ServerView'
    BY DEF ServerView, Closed
  <2>2. CASE unread' = unread
    BY <1>2, <2>1, <2>2, QuietViews DEF Views
  <2>3. CASE unread' = << >>
    <3>1. WireView'
      BY <2>3 DEF WireView
    <3>2. exists(client.task) /\ ClientView
      BY <1>2 DEF StreamInv, Views
    <3>3. \A n : Known(n, 0) <=> Received(n)
      BY DEF Known, UnderWay
    <3>4. ClientView'
      BY <3>2, <3>3 DEF ClientView, Covered, Known, Received, logged
    <3> QED  BY <1>2, <2>1, <3>1, <3>2, <3>4 DEF Views, exists
  <2> QED  BY <2>2, <2>3
<1> QED  BY <1>1, <1>2

LEMMA FetchKeeps ==
    ASSUME StreamInv, _fetch_events_after
    PROVE  Views'
<1> DEFINE T == client.task
<1>1. T # NULL
  BY DEF StreamInv, Views, NotYet, _fetch_events_after
<1>2. /\ UNCHANGED <<tasks, events, late, client, unread>>
      /\ stream.place # "closed"
      /\ stream'.batch = {e \in events[T] : e.sequence > stream.last}
      /\ stream'.last = stream.last
  BY DEF _fetch_events_after, fetched, vars, StreamInv, StreamTypeOK
<1>3. exists(T)' /\ ClientView' /\ WireView'
  BY <1>1, <1>2, QuietViews
<1>4. ServerView
  BY <1>1 DEF StreamInv, Views
<1>5. \A e \in events[T] : e.sequence \in Nat
  BY <1>1, StreamTypes DEF StreamInv
<1>6. /\ stream.last = 0 \/ Known(stream.last, Len(unread))'
      /\ Covered(stream.last, Len(unread))'
  BY <1>2, <1>4 DEF ServerView, Covered, Known, Received, UnderWay
<1>7. stream.last \in Nat
  BY DEF StreamInv, StreamTypeOK
<1>8. ServerView'
  BY <1>2, <1>4, <1>5, <1>6, <1>7 DEF ServerView
<1> QED  BY <1>1, <1>2, <1>3, <1>8 DEF Views

\* The generator sends a message: a keepalive with its last number, or the next
\* event after it.
LEMMA SentViews ==
    ASSUME StreamInv, client.task # NULL, stream.place # "closed",
           UNCHANGED <<tasks, events, late, client>>,
           NEW m \in Message, Len(unread) < MaxUnread, unread' = Append(unread, m),
           \/ m.event = NULL /\ m.id = stream.last
           \/ /\ m.event # NULL /\ logged(m.id) /\ stream.last < m.id
              /\ \A e \in events[client.task] \ late[client.task] :
                    e.sequence <= m.id => e.sequence <= stream.last \/ e.sequence = m.id
    PROVE  /\ exists(client.task)' /\ ClientView' /\ WireView'
           /\ Covered(m.id, Len(unread))'
           /\ m.id = 0 \/ Known(m.id, Len(unread))'
           /\ client.last <= m.id
           /\ \A k \in 1..Len(unread') : unread'[k].id <= m.id
<1>0. PICK L \in Nat : L = Len(unread)
  BY StreamTypes DEF StreamInv
<1>1. /\ exists(client.task) /\ ClientView /\ WireView /\ ServerView
  BY DEF StreamInv, Views
<1>2. /\ client.last \in Nat /\ stream.last \in Nat /\ L \in Nat
      /\ \A k \in 1..L : unread[k].id \in Nat
      /\ \A e \in events[client.task] : e.sequence \in Nat
  BY <1>0, StreamTypes DEF StreamInv
<1>3. /\ Len(unread') = L + 1
      /\ \A i \in 1..L : unread'[i] = unread[i]
      /\ unread'[L + 1] = m
  BY <1>0, SentType DEF StreamInv, StreamTypeOK
<1>4. m.id \in Nat
  BY DEF Message
<1>5. /\ client.last <= stream.last
      /\ \A k \in 1..L : unread[k].id <= stream.last
      /\ stream.last = 0 \/ Known(stream.last, L)
      /\ Covered(stream.last, L)
  BY <1>0, <1>1 DEF ServerView
<1>6. /\ stream.last <= m.id /\ client.last <= m.id
      /\ \A k \in 1..L : unread[k].id <= m.id
      /\ m.event # NULL => /\ client.last < m.id
                           /\ \A k \in 1..L : unread[k].id < m.id
  <2>1. stream.last <= m.id /\ (m.event # NULL => stream.last < m.id)
    BY <1>2, <1>4
  <2>2. client.last <= m.id /\ (m.event # NULL => client.last < m.id)
    BY <1>2, <1>4, <1>5, <2>1
  <2>3. ASSUME NEW k \in 1..L
        PROVE  unread[k].id <= m.id /\ (m.event # NULL => unread[k].id < m.id)
    BY <1>2, <1>4, <1>5, <2>1
  <2> QED  BY <2>1, <2>2, <2>3
<1>7. \A n : \A k \in 0..L : Known(n, k) <=> Known(n, k)'
  <2> SUFFICES ASSUME NEW n, NEW k \in 0..L PROVE UnderWay(n, k) <=> UnderWay(n, k)'
    BY DEF Known, Received
  <2> QED  BY <1>0, <1>2, <1>3 DEF UnderWay
<1>8. \A n : Known(n, L) => Known(n, L + 1)'
  <2> SUFFICES ASSUME NEW n, UnderWay(n, L) PROVE UnderWay(n, L + 1)'
    BY DEF Known, Received
  <2> QED  BY <1>0, <1>2, <1>3 DEF UnderWay
<1>9. m.event # NULL => Known(m.id, L + 1)'
  <2>1. L + 1 \in 1..Len(unread')
    BY <1>2, <1>3
  <2> QED  BY <1>2, <1>3, <2>1 DEF Known, UnderWay
<1>10. \A n : \A k \in 0..L : Covered(n, k) => Covered(n, k)'
  BY <1>7 DEF Covered
<1>11. Covered(m.id, L + 1)'
  <2> SUFFICES ASSUME NEW e \in events[client.task] \ late[client.task],
                      e.sequence <= m.id
               PROVE  Known(e.sequence, L + 1)'
    BY DEF Covered
  <2>1. e.sequence <= stream.last \/ (m.event # NULL /\ e.sequence = m.id)
    OBVIOUS
  <2>2. CASE e.sequence <= stream.last
    BY <1>5, <1>8, <2>2 DEF Covered
  <2> QED  BY <1>9, <2>1, <2>2
<1>12. m.id = 0 \/ Known(m.id, L + 1)'
  BY <1>5, <1>8, <1>9
<1>13. ClientView'
  <2>1. Covered(client.last, 0)'
    BY <1>1, <1>2, <1>10 DEF ClientView
  <2> QED  BY <1>1, <2>1 DEF ClientView, Received, logged
<1>14. WireView'
  <2> SUFFICES ASSUME NEW k \in 1..Len(unread')
               PROVE  /\ Covered(unread[k].id, k)'
                      /\ unread'[k].id = 0 \/ Known(unread[k].id, k)'
                      /\ client.last <= unread'[k].id
                      /\ \A j \in 1..Len(unread') : j < k => unread'[j].id <= unread'[k].id
                      /\ unread'[k].event # NULL =>
                            /\ logged(unread[k].id)'
                            /\ client.last < unread'[k].id
                            /\ \A j \in 1..Len(unread') :
                                  j < k => unread'[j].id < unread'[k].id
    BY DEF WireView
  <2>1. CASE k \in 1..L
    <3>1. \A j \in 1..Len(unread') : j < k => j \in 1..L /\ unread'[j] = unread[j]
      BY <1>2, <1>3, <2>1
    <3>2. unread'[k] = unread[k] /\ k \in 0..L
      BY <1>2, <1>3, <2>1
    <3>3. /\ Covered(unread[k].id, k)
          /\ unread[k].id = 0 \/ Known(unread[k].id, k)
          /\ client.last <= unread[k].id
          /\ \A j \in 1..L : j < k => unread[j].id <= unread[k].id
          /\ unread[k].event # NULL =>
                /\ logged(unread[k].id)
                /\ client.last < unread[k].id
                /\ \A j \in 1..L : j < k => unread[j].id < unread[k].id
      BY <1>0, <1>1, <2>1 DEF WireView
    <3>4. Covered(unread[k].id, k)' /\ (unread'[k].id = 0 \/ Known(unread[k].id, k)')
      BY <1>3, <1>7, <1>10, <2>1, <3>2, <3>3 DEF Covered, Known, Received, UnderWay
    <3>5. unread'[k].event # NULL => logged(unread[k].id)'
      BY <3>2, <3>3 DEF logged
    <3> QED  BY <3>1, <3>2, <3>3, <3>4, <3>5
  <2>2. CASE k = L + 1
    <3>1. \A j \in 1..Len(unread') : j < k => j \in 1..L /\ unread'[j] = unread[j]
      BY <1>2, <1>3, <2>2
    <3>2. unread'[k] = m
      BY <1>3, <2>2
    <3>3. Covered(unread[k].id, k)' /\ (unread'[k].id = 0 \/ Known(unread[k].id, k)')
      BY <1>11, <1>12, <2>2, <3>2 DEF Covered, Known, Received, UnderWay
    <3>4. m.event # NULL => logged(unread[k].id)'
      BY <3>2 DEF logged
    <3> QED  BY <1>6, <3>1, <3>2, <3>3, <3>4
  <2> QED  BY <1>2, <1>3, <2>1, <2>2
<1>15. \A k \in 1..Len(unread') : unread'[k].id <= m.id
  BY <1>2, <1>3, <1>4, <1>6
<1>16. Covered(m.id, Len(unread))' /\ (m.id = 0 \/ Known(m.id, Len(unread))')
  BY <1>3, <1>11, <1>12 DEF Covered, Known, Received, UnderWay
<1> QED  BY <1>1, <1>6, <1>13, <1>14, <1>15, <1>16 DEF exists

LEMMA SendKeeps ==
    ASSUME StreamInv, send
    PROVE  Views'
<1> DEFINE T == client.task
<1>1. T # NULL /\ stream.place # "closed"
  BY DEF StreamInv, Views, NotYet, send
<1>2. PICK e \in stream.batch :
        /\ \A f \in stream.batch : e.sequence <= f.sequence
        /\ unread' = Append(unread, [id |-> e.sequence, event |-> e])
        /\ stream' = IF ends_stream(e) THEN Closed
                     ELSE [stream EXCEPT
                             !.last = e.sequence,
                             !.batch = @ \ {e},
                             !.place = IF stream.batch # {e} THEN "send"
                                       ELSE IF stream.polling THEN "fetch"
                                       ELSE "status"]
  BY DEF send
<1>3. UNCHANGED <<tasks, events, late, client>> /\ Len(unread) < MaxUnread
  BY DEF send, vars
<1>4. ServerView
  BY <1>1 DEF StreamInv, Views
<1>5. /\ \A f \in events[T] : f.sequence \in Nat /\ f \in TaskEvent /\ f # NULL
      /\ \A f, g \in events[T] : f.sequence = g.sequence => f = g
      /\ stream.last \in Nat
  BY <1>1, StreamTypes DEF StreamInv
<1>6. /\ stream.batch \subseteq events[T] /\ e \in events[T]
      /\ \A b \in stream.batch :
            /\ stream.last < b.sequence
            /\ \A f \in events[T] \ late[T] :
                  (stream.last < f.sequence /\ f.sequence <= b.sequence)
                  => \E c \in stream.batch : c.sequence = f.sequence
  BY <1>1, <1>4 DEF ServerView
<1>7. PICK m \in Message : m.id = e.sequence /\ m.event = e /\ unread' = Append(unread, m)
  BY <1>2, <1>5, <1>6 DEF Message
<1>8. /\ m.event # NULL /\ logged(m.id) /\ stream.last < m.id
      /\ \A f \in events[T] \ late[T] :
            f.sequence <= m.id => f.sequence <= stream.last \/ f.sequence = m.id
  <2>1. ASSUME NEW f \in events[T] \ late[T], f.sequence <= e.sequence,
               stream.last < f.sequence
        PROVE  f.sequence = e.sequence
    <3>1. PICK c \in stream.batch : c.sequence = f.sequence
      BY <1>6, <2>1
    <3> QED  BY <1>2, <1>5, <1>6, <2>1, <3>1
  <2> QED  BY <1>5, <1>6, <1>7, <2>1 DEF logged
<1>9. /\ exists(T)' /\ ClientView' /\ WireView'
      /\ Covered(m.id, Len(unread))'
      /\ m.id = 0 \/ Known(m.id, Len(unread))'
      /\ client.last <= m.id
      /\ \A k \in 1..Len(unread') : unread'[k].id <= m.id
  BY <1>1, <1>3, <1>7, <1>8, SentViews
<1>10. ServerView'
  <2>1. CASE ends_stream(e)
    BY <1>2, <2>1 DEF ServerView, Closed
  <2>2. CASE ~ends_stream(e)
    <3>1. stream'.last = m.id /\ stream'.batch = stream.batch \ {e}
      BY <1>2, <1>7, <2>2 DEF StreamInv, StreamTypeOK
    <3>2. \A b \in stream'.batch : b \in events[T] /\ m.id < b.sequence
      BY <1>2, <1>5, <1>6, <1>7, <3>1
    <3>3. ASSUME NEW b \in stream'.batch, NEW f \in events[T] \ late[T],
                 m.id < f.sequence, f.sequence <= b.sequence
          PROVE  \E c \in stream'.batch : c.sequence = f.sequence
      <4>1. b \in stream.batch /\ stream.last < f.sequence
        BY <1>5, <1>6, <1>7, <1>8, <3>1, <3>3
      <4>2. PICK c \in stream.batch : c.sequence = f.sequence
        BY <1>6, <3>3, <4>1
      <4>3. c # e
        BY <1>5, <1>7, <3>3, <4>2
      <4> QED  BY <3>1, <4>2, <4>3
    <3>4. /\ Covered(stream.last, Len(unread))'
          /\ stream'.last = 0 \/ Known(stream.last, Len(unread))'
      BY <1>9, <3>1 DEF Covered, Known, Received, UnderWay
    <3> QED  BY <1>3, <1>9, <3>1, <3>2, <3>3, <3>4 DEF ServerView
  <2> QED  BY <2>1, <2>2
<1> QED  BY <1>1, <1>3, <1>9, <1>10 DEF Views, exists

LEMMA StatusKeeps ==
    ASSUME StreamInv, _get_task_status
    PROVE  Views'
<1> DEFINE T == client.task
<1>1. T # NULL /\ stream.place # "closed"
  BY DEF StreamInv, Views, NotYet, _get_task_status
<1>2. UNCHANGED <<tasks, events, late, client>>
  BY DEF _get_task_status, vars
<1>3. CASE stream' = Closed /\ unread' = unread
  BY <1>2, <1>3, EndKeeps
<1>4. ServerView
  BY <1>1 DEF StreamInv, Views
<1>5. CASE /\ stream' = [stream EXCEPT !.place = "fetch", !.polling = TRUE]
           /\ unread' = unread
  <2>1. stream'.last = stream.last /\ stream'.batch = stream.batch
    BY <1>5 DEF StreamInv, StreamTypeOK
  <2>2. exists(T)' /\ ClientView' /\ WireView'
    BY <1>1, <1>2, <1>5, QuietViews
  <2>3. /\ stream.last = 0 \/ Known(stream.last, Len(unread))'
        /\ Covered(stream.last, Len(unread))'
    BY <1>1, <1>2, <1>4, <1>5, <2>1 DEF ServerView, Covered, Known, Received, UnderWay
  <2>4. ServerView'
    BY <1>1, <1>2, <1>4, <1>5, <2>1, <2>3 DEF ServerView
  <2> QED  BY <1>1, <1>2, <2>2, <2>4 DEF Views, exists
<1>6. CASE /\ stream' = [stream EXCEPT !.place = "fetch", !.polling = TRUE]
           /\ Len(unread) < MaxUnread
           /\ unread' = Append(unread, keepalive(stream.last))
  <2>1. stream'.last = stream.last /\ stream'.batch = stream.batch /\ stream.last \in Nat
    BY <1>6 DEF StreamInv, StreamTypeOK
  <2>2. PICK m \in Message : /\ m.id = stream.last /\ m.event = NULL
                             /\ unread' = Append(unread, m)
    BY <1>6, <2>1 DEF keepalive, Message
  <2>3. /\ exists(T)' /\ ClientView' /\ WireView'
        /\ Covered(m.id, Len(unread))'
        /\ m.id = 0 \/ Known(m.id, Len(unread))'
        /\ client.last <= m.id
        /\ \A k \in 1..Len(unread') : unread'[k].id <= m.id
    BY <1>1, <1>2, <1>6, <2>2, SentViews
  <2>4. /\ Covered(stream.last, Len(unread))'
        /\ stream'.last = 0 \/ Known(stream.last, Len(unread))'
    BY <2>1, <2>2, <2>3 DEF Covered, Known, Received, UnderWay
  <2>5. ServerView'
    BY <1>1, <1>2, <1>4, <2>1, <2>2, <2>3, <2>4 DEF ServerView
  <2> QED  BY <1>1, <1>2, <2>3, <2>5 DEF Views, exists
<1> QED  BY <1>3, <1>5, <1>6 DEF _get_task_status

\* The client reads a message: what was under way has been received.
LEMMA ReceiveKeeps ==
    ASSUME StreamInv, receive
    PROVE  Views'
<1>1. client.task # NULL
  BY DEF StreamInv, Views, NotYet, receive
<1>2. /\ ClientView /\ WireView /\ ServerView /\ exists(client.task)
  BY <1>1 DEF StreamInv, Views
<1>3. unread \in Seq(Message) /\ unread # << >> /\ client.got \in Seq(Nat)
  BY DEF StreamInv, StreamTypeOK, receive
<1>4. /\ client.last \in Nat /\ stream.last \in Nat
      /\ Len(client.got) \in Nat /\ DOMAIN client.got = 1..Len(client.got)
      /\ \A i \in DOMAIN client.got : client.got[i] \in Nat
      /\ \A k \in 1..Len(unread) : unread[k].id \in Nat
  BY <1>1, StreamTypes DEF StreamInv
<1>5. PICK L \in Nat : L + 1 = Len(unread)
  BY <1>3, EmptySeq
<1>6. /\ Len(unread') = L
      /\ \A k \in 1..L : unread'[k] = unread[k + 1]
  BY <1>3, <1>5, HeadTailProperties DEF receive
<1>7. PICK m \in Message : m = unread[1] /\ m = Head(unread)
  BY <1>3, HeadTailProperties
<1>8. /\ client'.last = m.id /\ client'.task = client.task
      /\ client'.got = IF m.event = NULL THEN client.got ELSE Append(client.got, m.id)
      /\ m.id \in Nat
  BY <1>7 DEF receive, StreamInv, StreamTypeOK, Message
<1>9. UNCHANGED <<tasks, events, late, stream>>
  BY DEF receive, vars
<1>10. /\ client.last <= m.id
       /\ m.event # NULL => client.last < m.id /\ logged(m.id)
       /\ Covered(m.id, 1) /\ (m.id = 0 \/ Known(m.id, 1))
  BY <1>2, <1>5, <1>7 DEF WireView
<1>11. \A n : Received(n)' <=> Received(n) \/ (m.event # NULL /\ n = m.id)
  <2>1. CASE m.event = NULL
    BY <1>8, <2>1 DEF Received
  <2>2. CASE m.event # NULL
    <3>1. /\ DOMAIN client'.got = 1..(Len(client.got) + 1)
          /\ \A i \in 1..Len(client.got) : client'.got[i] = client.got[i]
          /\ client'.got[Len(client.got) + 1] = m.id
      BY <1>3, <1>8, <2>2, AppendProperties
    <3> DEFINE k == Len(client.got)
    <3>2. k \in Nat /\ DOMAIN client.got = 1..k
      BY <1>4
    <3> HIDE DEF k
    <3>3. 1..(k + 1) = (1..k) \cup {k + 1}
      BY <3>2
    <3>4. /\ DOMAIN client'.got = DOMAIN client.got \cup {k + 1}
          /\ \A i \in DOMAIN client.got : client'.got[i] = client.got[i]
          /\ client'.got[k + 1] = m.id
      BY <3>1, <3>2, <3>3 DEF k
    <3> QED  BY <2>2, <3>4 DEF Received
  <2> QED  BY <2>1, <2>2
<1>12. \A n : \A k \in 0..L : Known(n, k)' <=> Known(n, k + 1)
  <2> SUFFICES ASSUME NEW n, NEW k \in 0..L
               PROVE  UnderWay(n, k)' \/ (m.event # NULL /\ n = m.id)
                      <=> UnderWay(n, k + 1)
    BY <1>11 DEF Known
  <2>1. ASSUME UnderWay(n, k + 1)
        PROVE  UnderWay(n, k)' \/ (m.event # NULL /\ n = m.id)
    <3>1. PICK i \in 1..Len(unread) :
            i <= k + 1 /\ unread[i].event # NULL /\ unread[i].id = n
      BY <2>1 DEF UnderWay
    <3>2. CASE i = 1
      BY <1>7, <3>1, <3>2
    <3>3. CASE i # 1
      <4>1. i - 1 \in 1..L /\ i - 1 <= k /\ unread'[i - 1] = unread[i]
        BY <1>5, <1>6, <3>1, <3>3
      <4> QED  BY <1>6, <3>1, <4>1 DEF UnderWay
    <3> QED  BY <3>2, <3>3
  <2>2. ASSUME UnderWay(n, k)' PROVE UnderWay(n, k + 1)
    <3>1. PICK i \in 1..L : i <= k /\ unread'[i].event # NULL /\ unread'[i].id = n
      BY <1>6, <2>2 DEF UnderWay
    <3>2. i + 1 \in 1..Len(unread) /\ i + 1 <= k + 1 /\ unread[i + 1] = unread'[i]
      BY <1>5, <1>6, <3>1
    <3> QED  BY <3>1, <3>2 DEF UnderWay
  <2>3. m.event # NULL /\ n = m.id => UnderWay(n, k + 1)
    BY <1>5, <1>7 DEF UnderWay
  <2> QED  BY <2>1, <2>2, <2>3
<1>13. \A n : \A k \in 0..L : Covered(n, k + 1) => Covered(n, k)'
  BY <1>8, <1>9, <1>12 DEF Covered
<1>14. ClientView'
  <2>1. Covered(m.id, 0)' /\ (m.id = 0 \/ Known(m.id, 0)')
    BY <1>10, <1>12, <1>13
  <2>2. \A n : Known(n, 0)' => Received(n)'
    BY DEF Known, UnderWay
  <2>3. \A i \in DOMAIN client.got :
           client.got[i] < m.id \/ (m.event = NULL /\ client.got[i] <= m.id)
    BY <1>2, <1>4, <1>8, <1>10 DEF ClientView
  <2>4. /\ \A i, j \in DOMAIN client'.got : i < j => client'.got[i] < client'.got[j]
        /\ \A i \in DOMAIN client'.got : client'.got[i] <= m.id /\ logged(client.got[i])'
    <3>1. CASE m.event = NULL
      <4>1. client'.got = client.got
        BY <1>8, <3>1
      <4>2. \A i \in DOMAIN client.got : client.got[i] <= m.id
        BY <1>4, <1>8, <2>3
      <4>3. \A n : logged(n) => logged(n)'
        BY <1>8, <1>9 DEF logged
      <4>4. /\ \A i, j \in DOMAIN client.got : i < j => client.got[i] < client.got[j]
            /\ \A i \in DOMAIN client.got : logged(client.got[i])
        BY <1>2 DEF ClientView
      <4>5. \A i \in DOMAIN client.got : logged(client.got[i])'
        BY <4>1, <4>3, <4>4 DEF logged
      <4> QED  BY <4>1, <4>2, <4>4, <4>5
    <3>2. CASE m.event # NULL
      <4>1. /\ DOMAIN client'.got = 1..(Len(client.got) + 1)
            /\ \A i \in 1..Len(client.got) : client'.got[i] = client.got[i]
            /\ client'.got[Len(client.got) + 1] = m.id
        BY <1>3, <1>8, <3>2, AppendProperties
      <4>2. \A i \in 1..Len(client.got) : client.got[i] < m.id
        BY <1>4, <2>3, <3>2
      <4>3. \A i, j \in 1..Len(client.got) : i < j => client.got[i] < client.got[j]
        BY <1>2, <1>4 DEF ClientView
      <4>4. \A i \in DOMAIN client'.got : logged(client.got[i])'
        BY <1>2, <1>4, <1>8, <1>9, <1>10, <3>2, <4>1 DEF ClientView, logged
      <4> QED  BY <1>4, <1>8, <4>1, <4>2, <4>3, <4>4
    <3> QED  BY <3>1, <3>2
  <2> QED  BY <1>8, <2>1, <2>2, <2>4 DEF ClientView, Covered, Known, Received, UnderWay
<1>15. WireView'
  <2> SUFFICES ASSUME NEW k \in 1..L
               PROVE  /\ Covered(unread[k].id, k)'
                      /\ unread'[k].id = 0 \/ Known(unread[k].id, k)'
                      /\ m.id <= unread'[k].id
                      /\ \A j \in 1..L : j < k => unread'[j].id <= unread'[k].id
                      /\ unread'[k].event # NULL =>
                            /\ logged(unread[k].id)'
                            /\ m.id < unread'[k].id
                            /\ \A j \in 1..L : j < k => unread'[j].id < unread'[k].id
    BY <1>6, <1>8 DEF WireView
  <2>1. PICK p \in 1..Len(unread) : p = k + 1 /\ unread'[k] = unread[p] /\ 1 < p
    BY <1>5, <1>6
  <2>2. /\ Covered(unread[p].id, p)
        /\ unread[p].id = 0 \/ Known(unread[p].id, p)
        /\ \A j \in 1..Len(unread) : j < p => unread[j].id <= unread[p].id
        /\ unread[p].event # NULL =>
              /\ logged(unread[p].id)
              /\ \A j \in 1..Len(unread) : j < p => unread[j].id < unread[p].id
    BY <1>2 DEF WireView
  <2>3. \A j \in 1..L : j < k => /\ j + 1 \in 1..Len(unread) /\ j + 1 < p
                                 /\ unread'[j] = unread[j + 1]
    BY <1>5, <1>6, <2>1
  <2>4. 1 \in 1..Len(unread)
    BY <1>5
  <2>5. PICK n \in Nat : n = unread[p].id /\ n = unread'[k].id
    BY <1>4, <2>1
  <2>6. Covered(n, k)' /\ (n = 0 \/ Known(n, k)')
    BY <1>12, <1>13, <2>1, <2>2, <2>5
  <2>7. Covered(unread[k].id, k)' /\ (unread'[k].id = 0 \/ Known(unread[k].id, k)')
    BY <2>5, <2>6 DEF Covered, Known, Received, UnderWay
  <2>8. unread'[k].event # NULL => logged(unread[k].id)'
    BY <1>8, <1>9, <2>1, <2>2 DEF logged
  <2> QED  BY <1>7, <2>1, <2>2, <2>3, <2>4, <2>7, <2>8
<1>16. ServerView'
  <2> SUFFICES ASSUME stream.place # "closed"
               PROVE  /\ m.id <= stream.last
                      /\ \A k \in 1..L : unread'[k].id <= stream.last
                      /\ stream.last = 0 \/ Known(stream.last, Len(unread))'
                      /\ Covered(stream.last, Len(unread))'
    BY <1>2, <1>6, <1>8, <1>9 DEF ServerView
  <2>1. /\ \A k \in 1..Len(unread) : unread[k].id <= stream.last
        /\ stream.last = 0 \/ Known(stream.last, L + 1)
        /\ Covered(stream.last, L + 1)
    BY <1>2, <1>5 DEF ServerView
  <2>2. PICK n \in Nat : n = stream.last
    BY <1>4
  <2>3. Covered(n, L)' /\ (n = 0 \/ Known(n, L)')
    BY <1>12, <1>13, <2>1, <2>2
  <2>4. /\ Covered(stream.last, Len(unread))'
        /\ stream.last = 0 \/ Known(stream.last, Len(unread))'
    BY <1>6, <1>9, <2>2, <2>3 DEF Covered, Known, Received, UnderWay
  <2>5. m.id <= stream.last /\ \A k \in 1..L : unread'[k].id <= stream.last
    BY <1>5, <1>6, <1>7, <2>1
  <2> QED  BY <2>4, <2>5
<1> QED  BY <1>1, <1>2, <1>8, <1>9, <1>14, <1>15, <1>16 DEF Views, exists

LEMMA DropKeeps ==
    ASSUME StreamInv, drop
    PROVE  Views'
BY EndKeeps DEF drop, vars

-----------------------------------------------------------------------------
LEMMA StreamInvInit == StreamInit => StreamInv
<1> SUFFICES ASSUME StreamInit PROVE StreamInv
  OBVIOUS
<1>1. LineageInv
  BY LineageInit DEF StreamInit
<1>2. Numbered
  BY DEF StreamInit, Init, Numbered
<1>3. Views
  BY DEF StreamInit, Views, NotYet, Closed
<1> QED  BY <1>1, <1>2, <1>3, StreamTypeInit DEF StreamInv, StoreInv

LEMMA StreamInvStep == StreamInv /\ [StreamNext]_<<vars, svars>> => StreamInv'
<1> SUFFICES ASSUME StreamInv, [StreamNext]_<<vars, svars>> PROVE StreamInv'
  OBVIOUS
<1>1. [Next]_vars
  BY DEF StreamNext, StoreStep, stream_task_events, _fetch_events_after, send,
         _get_task_status, receive, drop
<1>2. StoreInv'
  BY <1>1, StoreGrows DEF StreamInv
<1>3. StreamTypeOK'
  BY <1>2, StreamTypeStep DEF StreamInv, Views, NotYet
<1> SUFFICES Views'
  BY <1>2, <1>3 DEF StreamInv
<1>4. CASE StoreStep
  BY <1>2, <1>3, <1>4, StoreStepKeeps DEF StreamInv
<1>5. CASE UNCHANGED <<vars, svars>>
  <2>1. UNCHANGED <<tasks, events, late, client, unread, stream>>
    BY <1>5 DEF vars, svars
  <2>2. CASE client.task = NULL
    BY <2>1, <2>2 DEF StreamInv, Views, NotYet
  <2>3. CASE client.task # NULL
    <3>1. exists(client.task)' /\ ClientView' /\ WireView'
      BY <2>1, <2>3, QuietViews
    <3>2. ServerView'
      BY <2>1, <2>3 DEF StreamInv, Views, ServerView, Covered, Known, Received, UnderWay
    <3> QED  BY <2>1, <2>3, <3>1, <3>2 DEF Views, exists
  <2> QED  BY <2>2, <2>3
<1>6. ASSUME NEW t \in TaskIds, stream_task_events(t) PROVE Views'
  BY <1>6, ConnectKeeps
<1>7. CASE _fetch_events_after \/ send \/ _get_task_status \/ receive \/ drop
  BY <1>7, FetchKeeps, SendKeeps, StatusKeeps, ReceiveKeeps, DropKeeps
<1> QED  BY <1>4, <1>5, <1>6, <1>7 DEF StreamNext

LEMMA StreamInvView == StreamInv => ViewIsLog
<1> SUFFICES ASSUME StreamInv, client.task # NULL PROVE ViewIsLog
  BY DEF ViewIsLog
<1>1. ClientView
  BY DEF StreamInv, Views
<1>2. \A n : Known(n, 0) => Received(n)
  BY DEF Known, UnderWay
<1> QED  BY <1>1, <1>2 DEF ViewIsLog, ClientView, Covered, Received, logged

\* The generator, the client and what is under way between them have their types.
THEOREM StreamTypeCorrect == StreamSpec => []StreamTypeOK
<1>1. StreamInv => StreamTypeOK
  BY DEF StreamInv
<1> QED  BY <1>1, StreamInvInit, StreamInvStep, PTL DEF StreamSpec

\* What a client of _event_stream has received is the log up to its
\* Last-Event-Id, in order, each event once, but for events that became visible
\* late: for any number of sessions, broken connections, crashes and keepalives,
\* and however much the server sends ahead of the client.
THEOREM ViewIsTheLog == StreamSpec => []ViewIsLog
BY StreamInvInit, StreamInvStep, StreamInvView, PTL DEF StreamSpec

-----------------------------------------------------------------------------
(* The server ends a connection because of an event that it has sent, or   *)
(* of the row's status: the log says either.                               *)

LEMMA CloseStep ==
    ASSUME StreamInv, SaysInv, [StreamNext]_<<vars, svars>>,
           stream.place # "closed", stream'.place = "closed",
           drops' = drops, crashes' = crashes
    PROVE  \E e \in events[client.task] : is_terminal(e.status)
<1>0. /\ client.task # NULL /\ client.task \in TaskIds /\ exists(client.task)
      /\ ServerView
  BY DEF StreamInv, Views, NotYet, StreamTypeOK
<1>1. StreamTypeOK
  BY DEF StreamInv
<1>2. CASE send
  <2>1. PICK e \in stream.batch :
          stream' = IF ends_stream(e) THEN Closed
                    ELSE [stream EXCEPT
                            !.last = e.sequence,
                            !.batch = @ \ {e},
                            !.place = IF stream.batch # {e} THEN "send"
                                      ELSE IF stream.polling THEN "fetch"
                                      ELSE "status"]
    BY <1>2 DEF send
  <2>2. ends_stream(e)
    BY <1>1, <2>1 DEF StreamTypeOK
  <2>3. e \in events[client.task]
    BY <1>0 DEF ServerView
  <2>4. e.status \in {"completed", "failed"}
    BY <1>0, <2>2, <2>3 DEF SaysInv, LogSays, ends_stream
  <2> QED  BY <2>3, <2>4 DEF is_terminal, TERMINAL_STATES
<1>3. CASE _get_task_status
  <2>1. is_terminal(row[client.task].status)
    BY <1>1, <1>3 DEF _get_task_status, ends_at_status, StreamTypeOK
  <2>2. \E e \in events[client.task] : e.status = row[client.task].status
    BY <1>0 DEF SaysInv, LogSays
  <2> QED  BY <2>1, <2>2
<1>4. CASE _fetch_events_after
  BY <1>1, <1>4 DEF _fetch_events_after, StreamTypeOK
<1>5. CASE StoreStep \/ receive \/ UNCHANGED <<vars, svars>>
  BY <1>5 DEF StoreStep, receive, svars
<1>6. ASSUME NEW t \in TaskIds, stream_task_events(t) PROVE FALSE
  BY <1>6 DEF stream_task_events
<1>7. CASE drop
  BY <1>1, <1>7 DEF drop, StreamTypeOK
<1> QED  BY <1>2, <1>3, <1>4, <1>5, <1>6, <1>7 DEF StreamNext

LEMMA StreamSaysStep ==
    SaysInv /\ [StreamNext]_<<vars, svars>> => SaysInv'
<1> SUFFICES ASSUME SaysInv, [StreamNext]_<<vars, svars>> PROVE SaysInv'
  OBVIOUS
<1>1. [Next]_vars
  BY DEF StreamNext, StoreStep, stream_task_events, _fetch_events_after, send,
         _get_task_status, receive, drop
<1> QED  BY <1>1, SaysStep

\* A connection that neither broke nor went down with the server is ended by
\* _event_stream only when the log of the task says that it is over, whichever
\* requests wrote it.
THEOREM EndedWhenOver == StreamSpec => ClosedWhenTerminal
<1>1. StreamInit => SaysInv
  BY SaysInit DEF StreamInit
<1>2. StreamInv /\ SaysInv /\ [StreamNext]_<<vars, svars>> =>
        [(/\ stream.place # "closed" /\ stream'.place = "closed"
          /\ drops' = drops /\ crashes' = crashes)
         => \E e \in events[client.task] : is_terminal(e.status)]_<<vars, svars>>
  BY CloseStep
<1> QED  BY <1>1, <1>2, StreamInvInit, StreamInvStep, StreamSaysStep, PTL
         DEF StreamSpec, ClosedWhenTerminal

-----------------------------------------------------------------------------
(* What may be late: nothing that only executors post.                     *)

\* The types of events that principals' handlers do not record.
REPORTED == _VALID_EVENT_TYPES \ {"status", "context_injected"}

\* No report is late, and a client has every one up to its Last-Event-Id.
ReportsReceived ==
    /\ \A t \in TaskIds : \A e \in late[t] : e.event_type \notin REPORTED
    /\ client.task # NULL =>
          \A e \in events[client.task] :
              (e.event_type \in REPORTED /\ e.sequence <= client.last)
              => \E i \in DOMAIN client.got : client.got[i] = e.sequence

ReportsInv ==
    /\ StreamInv /\ MeansInv /\ LogInv
    /\ \A t \in TaskIds : \A e \in late[t] : e.event_type \notin REPORTED

\* An executor's event is ahead of the log when it is committed: its number was when
\* it was posted, and the server gives out no higher one before it is taken.
LEMMA CommitAhead ==
    ASSUME MeansInv, LogInv, NEW s \in Sessions, Commit(s), NEW t \in TaskIds,
           NEW e \in events'[t] \ events[t], e.event_type \in REPORTED
    PROVE  \A f \in events[t] : ~(f.sequence > e.sequence)
<1> DEFINE q == req[s]
<1>0. t # NULL
  BY NullAssumption
<1>1. /\ q \in Request /\ q # NULL /\ Means(q) /\ q.phase # "committed"
      /\ q.task # NULL => events'[q.task] = events[q.task] \cup {q.event}
      /\ q.child # NULL => events'[q.child] = {created_event}
      /\ (t # q.task /\ t # q.child) => events'[t] = events[t]
  BY CommitCases
<1>2. created_event.event_type = "created" /\ "created" \notin REPORTED
  BY DEF created_event, Event, REPORTED, _VALID_EVENT_TYPES
<1>3. t = q.task /\ e = q.event
  BY <1>0, <1>1, <1>2
<1>4. q.sidecar
  <2>1. ~q.sidecar => q.event.event_type \in {"created", "status", "pause_requested",
                                              "resume_requested", "context_injected"}
    BY <1>1 DEF Means, OfItsKind
  <2> QED  BY <1>3, <2>1 DEF REPORTED, _VALID_EVENT_TYPES
<1>5. Posting(s, t)
  BY <1>0, <1>1, <1>3, <1>4 DEF Posting, LogInv, Formed, RequestOK, Request
<1>6. ~number_taken(t, q.event.sequence)
  BY <1>0, <1>3 DEF Commit, sequence_taken, number_taken
<1>7. \A f \in events[t] : f.sequence < q.event.sequence
  BY <1>5, <1>6 DEF LogInv, NumberInv, PostAhead
<1>8. q.event.sequence \in Nat /\ \A f \in events[t] : f.sequence \in Nat
  BY <1>1, NumberTypes DEF LogInv, LineageInv
<1> QED  BY <1>3, <1>7, <1>8

\* Whatever requests overlap and however often connections break, a client whose
\* executor posts one event at a time misses none of its reports and outcomes: only
\* what principals' requests record can become visible after a higher number.
THEOREM NoReportIsMissed ==
    ASSUME ExecutorPostsSerially
    PROVE  StreamSpec => []ReportsReceived
<1>1. StreamInit => ReportsInv
  BY StreamInvInit, MeansInit, LogInit DEF StreamInit, ReportsInv
<1>2. ReportsInv /\ [StreamNext]_<<vars, svars>> => ReportsInv'
  <2> SUFFICES ASSUME ReportsInv, [StreamNext]_<<vars, svars>> PROVE ReportsInv'
    OBVIOUS
  <2>1. [Next]_vars
    BY DEF StreamNext, StoreStep, stream_task_events, _fetch_events_after, send,
           _get_task_status, receive, drop
  <2>2. StreamInv' /\ MeansInv' /\ LogInv'
    BY <2>1, StreamInvStep, MeansStep, LogStep DEF ReportsInv
  <2>3. CASE late' = late
    BY <2>2, <2>3 DEF ReportsInv
  <2>4. ASSUME StoreStep, NEW t \in TaskIds, NEW e \in late'[t]
        PROVE  e.event_type \notin REPORTED
    <3>1. \/ e \in late[t]
          \/ e \in events'[t] \ events[t] /\ \E f \in events[t] : f.sequence > e.sequence
      BY <2>4 DEF StoreStep
    <3>2. TypeOK
      BY DEF ReportsInv, LogInv, LineageInv
    <3> QED  BY <2>1, <3>1, <3>2, OnlyCommits, CommitAhead DEF ReportsInv
  <2>5. StoreStep \/ late' = late
    BY DEF StreamNext, stream_task_events, _fetch_events_after, send,
           _get_task_status, receive, drop, svars
  <2> QED  BY <2>2, <2>3, <2>4, <2>5 DEF ReportsInv
<1>3. ReportsInv => ReportsReceived
  <2> SUFFICES ASSUME ReportsInv PROVE ReportsReceived
    OBVIOUS
  <2>1. ASSUME client.task # NULL, NEW e \in events[client.task],
               e.event_type \in REPORTED, e.sequence <= client.last
        PROVE  \E i \in DOMAIN client.got : client.got[i] = e.sequence
    <3>1. client.task \in TaskIds
      BY <2>1 DEF ReportsInv, StreamInv, StreamTypeOK
    <3>2. e \notin late[client.task]
      BY <2>1, <3>1 DEF ReportsInv
    <3>3. ClientView
      BY <2>1 DEF ReportsInv, StreamInv, Views
    <3>4. Known(e.sequence, 0)
      BY <2>1, <3>2, <3>3 DEF ClientView, Covered
    <3> QED  BY <3>4 DEF Known, UnderWay, Received
  <2> QED  BY <2>1 DEF ReportsReceived, ReportsInv
<1> QED  BY <1>1, <1>2, <1>3, PTL DEF StreamSpec

\* The stream and its client leave the store to itself: what is proved of TaskStore
\* holds beside them.
LEMMA StreamKeepsStore == StreamSpec => Spec
<1>1. StreamInit => Init
  BY DEF StreamInit
<1>2. [StreamNext]_<<vars, svars>> => [Next]_vars
  BY DEF StreamNext, StoreStep, stream_task_events, _fetch_events_after, send,
         _get_task_status, receive, drop
<1> QED  BY <1>1, <1>2, PTL DEF StreamSpec, Spec
=============================================================================
