--------------------------- MODULE DeliveryProofs ---------------------------
(***************************************************************************)
(* CallbackDelivery: what the receiver of callbacks is told is true, for   *)
(* any number of sessions, failed posts and crashes, if the executor posts *)
(* one event at a time and says that a task is over with "completed" and   *)
(* "failed" events only.                                                   *)
(***************************************************************************)
EXTENDS CallbackDelivery, TaskLogProofs, SequenceTheorems

-----------------------------------------------------------------------------
(* What the tables say.  The payload of a callback copies the row, so the  *)
(* row has to be true: its status is logged, and its result is that of the *)
(* event that says so.                                                     *)

\* "completed" and "failed" are not posted as the status of a "status" event.
OutcomesPosted == ExecutorStatuses \cap {"completed", "failed"} = {}

\* A status of an outcome is announced by the event of that name.
OutcomesLogged ==
    \A t \in TaskIds : \A e \in events[t] :
        e.status \in {"completed", "failed"} => e.event_type = e.status

TableInv == DetailInv /\ OutcomesLogged

LEMMA CommitOutcomes ==
    ASSUME OutcomesPosted, TableInv, NEW s \in Sessions, Commit(s), NEW t \in TaskIds,
           NEW e \in events'[t], e.status \in {"completed", "failed"}
    PROVE  e.event_type = e.status
<1> DEFINE q == req[s]
<1>1. q # NULL /\ RequestsMean
  BY DEF Commit, TableInv, DetailInv, SaysInv, MeansInv
<1>2. events'[t] = IF t = q.child THEN {created_event}
                   ELSE IF t = q.task THEN events[t] \cup {q.event} ELSE events[t]
  BY DEF Commit
<1>3. CASE e \in events[t]
  BY <1>3 DEF TableInv, OutcomesLogged
<1>4. CASE e = created_event
  BY <1>4 DEF created_event, Event
<1>5. CASE t = q.task /\ e = q.event
  <2>1. Means(q) /\ Announces(q)
    BY <1>1, <1>5, NullAssumption DEF RequestsMean
  <2>2. q.update.status = e.status /\ q.update.status # Keep
    BY <1>5, <2>1, NullAssumption DEF Announces, TaskStatus
  <2> QED  BY <1>5, <2>1, <2>2 DEF Means, TellsOutcome, OutcomesPosted
<1> QED  BY <1>2, <1>3, <1>4, <1>5

LEMMA TableStep ==
    ASSUME OutcomesPosted, ExecutorPostsSerially, TableInv, [Next]_vars
    PROVE  TableInv'
<1>1. TypeOK
  BY DEF TableInv, DetailInv, SaysInv, MeansInv, StoreInv, LineageInv
<1>2. DetailInv'
  BY ResultStep, TimesStep, SaysStep DEF TableInv, DetailInv
<1>3. CASE UNCHANGED <<tasks, row, events, context_seq>>
  BY <1>2, <1>3 DEF TableInv, OutcomesLogged
<1>4. ASSUME NEW s \in Sessions, Commit(s) PROVE OutcomesLogged'
  BY <1>4, CommitOutcomes DEF OutcomesLogged
<1> QED  BY <1>1, <1>2, <1>3, <1>4, OnlyCommits DEF TableInv

LEMMA TableInit == Init => TableInv
<1> SUFFICES ASSUME Init PROVE TableInv
  OBVIOUS
<1>1. DetailInv
  BY ResultInit, TimesInit, SaysInit DEF DetailInv
<1>2. OutcomesLogged
  BY DEF Init, OutcomesLogged
<1> QED  BY <1>1, <1>2 DEF TableInv

LEMMA RowIsTrue ==
    ASSUME TableInv, NEW t \in TaskIds, exists(t)
    PROVE  /\ \E e \in events[t] : e.status = row[t].status
           /\ row[t].status \in {"completed", "failed"} =>
                 \E e \in events[t] : /\ e.event_type = row[t].status
                                      /\ e.result = row[t].result
<1> DEFINE shown == task_to_detail_response(t)
<1>1. /\ shown.status = row[t].status
      /\ row[t].status \in {"completed", "failed"} => shown.result = row[t].result
  BY DEF task_to_detail_response
<1>2. PICK e \in events[t] :
        /\ shown.status = e.status
        /\ e.event_type \in {"completed", "failed"} => shown.result = e.result
  BY DetailTold DEF TableInv, DetailTellsOutcome
<1>3. e.status \in {"completed", "failed"} => e.event_type = e.status
  BY DEF TableInv, OutcomesLogged
<1> HIDE DEF shown
<1> QED  BY <1>1, <1>2, <1>3

-----------------------------------------------------------------------------
(* Types: a delivery that is not over has an attempt left.                 *)

AttemptsLeft ==
    \A t \in TaskIds : \A i \in DOMAIN deliveries[t] :
        ~deliveries[t][i].over => deliveries[t][i].attempts < MAX_ATTEMPTS

DeliveryTypeInv == TypeOK /\ DeliveryTypeOK /\ AttemptsLeft

LEMMA Attempts == MAX_ATTEMPTS = 4
BY DEF MAX_ATTEMPTS, RETRY_DELAYS

\* The deliveries after a step of the store.
LEMMA SchedulingEffect ==
    ASSUME DeliveryTypeOK, Scheduling(Next), NEW t \in TaskIds
    PROVE  \/ /\ deliveries'[t] = deliveries[t]
           \/ /\ DOMAIN deliveries'[t] = DOMAIN deliveries[t]
              /\ deliveries'[t] = [i \in DOMAIN deliveries[t] |->
                                     [deliveries[t][i] EXCEPT !.over = TRUE]]
           \/ /\ callbacks'[t] # callbacks[t]
              /\ deliveries'[t] = Append(deliveries[t],
                                         [payload |-> build_callback_payload(t),
                                          attempts |-> 0, over |-> FALSE])
BY DEF Scheduling

LEMMA DeliveryTypeStep ==
    ASSUME DeliveryTypeInv, [DeliveryNext]_<<vars, dvars>>
    PROVE  DeliveryTypeInv'
<1>1. [Next]_vars
  BY DEF DeliveryNext, Scheduling, Deliver, deliver_callback
<1>2. TypeOK'
  BY <1>1, TypeStep DEF DeliveryTypeInv
<1>3. CASE Scheduling(Next)
  <2>1. ASSUME NEW t \in TaskIds
        PROVE  /\ deliveries'[t] \in Seq(Delivery)
               /\ \A i \in DOMAIN deliveries'[t] :
                     ~deliveries'[t][i].over => deliveries'[t][i].attempts < MAX_ATTEMPTS
    <3>1. /\ deliveries[t] \in Seq(Delivery)
          /\ \A i \in DOMAIN deliveries[t] :
                ~deliveries[t][i].over => deliveries[t][i].attempts < MAX_ATTEMPTS
      BY DEF DeliveryTypeInv, DeliveryTypeOK, AttemptsLeft
    <3>2. CASE deliveries'[t] = deliveries[t]
      BY <3>1, <3>2
    <3>3. CASE deliveries'[t] = [i \in DOMAIN deliveries[t] |->
                                   [deliveries[t][i] EXCEPT !.over = TRUE]]
      <4>1. \A i \in DOMAIN deliveries[t] : deliveries[t][i] \in Delivery
        BY <3>1
      <4>2. \A i \in DOMAIN deliveries[t] :
               /\ [deliveries[t][i] EXCEPT !.over = TRUE] \in Delivery
               /\ [deliveries[t][i] EXCEPT !.over = TRUE].over
        BY <4>1 DEF Delivery
      <4>3. DOMAIN deliveries[t] = 1..Len(deliveries[t]) /\ Len(deliveries[t]) \in Nat
        BY <3>1
      <4>4. deliveries'[t] \in [1..Len(deliveries[t]) -> Delivery]
        BY <3>3, <4>2, <4>3
      <4>5. deliveries'[t] \in Seq(Delivery)
        BY <4>3, <4>4, SeqDef
      <4> QED  BY <3>3, <4>2, <4>5
    <3>4. CASE deliveries'[t] = Append(deliveries[t],
                                       [payload |-> build_callback_payload(t),
                                        attempts |-> 0, over |-> FALSE])
      <4> DEFINE d == [payload |-> build_callback_payload(t),
                       attempts |-> 0, over |-> FALSE]
      <4>1. build_callback_payload(t) \in Payload
        BY DEF build_callback_payload, Payload, DeliveryTypeInv, TypeOK, Row
      <4>2. d \in Delivery /\ d.attempts < MAX_ATTEMPTS
        BY <4>1, Attempts DEF Delivery
      <4> HIDE DEF d
      <4>3. deliveries'[t] = Append(deliveries[t], d)
        BY <3>4 DEF d
      <4> QED  BY <3>1, <4>2, <4>3, AppendProperties
    <3> QED  BY <1>3, <3>2, <3>3, <3>4, SchedulingEffect DEF DeliveryTypeInv
  <2>2. deliveries' \in [TaskIds -> Seq(Delivery)]
    BY <1>3, <2>1 DEF Scheduling
  <2> QED  BY <1>2, <1>3, <2>1, <2>2
           DEF DeliveryTypeInv, DeliveryTypeOK, AttemptsLeft, Scheduling
<1>4. ASSUME NEW t \in TaskIds, NEW i \in DOMAIN deliveries[t], deliver_callback(t, i)
      PROVE  DeliveryTypeInv'
  <2>1. PICK taken, answered \in BOOLEAN :
          /\ ~answered => failures < MaxFailures
          /\ failures' = IF answered THEN failures ELSE failures + 1
          /\ inbox' = IF taken
                      THEN [inbox EXCEPT ![t] = @ \cup {deliveries[t][i].payload}]
                      ELSE inbox
          /\ deliveries' = [deliveries EXCEPT ![t][i] =
                [@ EXCEPT !.attempts = deliveries[t][i].attempts + 1,
                          !.over = answered \/ deliveries[t][i].attempts + 1 = MAX_ATTEMPTS]]
    BY <1>4 DEF deliver_callback
  <2>2. /\ deliveries \in [TaskIds -> Seq(Delivery)]
        /\ inbox \in [TaskIds -> SUBSET Payload]
        /\ failures \in 0..MaxFailures
        /\ AttemptsLeft
    BY DEF DeliveryTypeInv, DeliveryTypeOK
  <2>3. deliveries[t] \in Seq(Delivery) /\ deliveries[t][i] \in Delivery
    BY <2>2
  <2>4. deliveries[t][i].attempts < MAX_ATTEMPTS
    BY <1>4, <2>2 DEF AttemptsLeft, deliver_callback
  <2>5. failures' \in 0..MaxFailures
    BY <2>1, <2>2, DeliveryAssumption
  <2>6. inbox' \in [TaskIds -> SUBSET Payload]
    BY <2>1, <2>2, <2>3 DEF Delivery
  <2> DEFINE d == [deliveries[t][i] EXCEPT
                     !.attempts = deliveries[t][i].attempts + 1,
                     !.over = answered \/ deliveries[t][i].attempts + 1 = MAX_ATTEMPTS]
  <2>7. d \in Delivery /\ (~d.over => d.attempts < MAX_ATTEMPTS)
    <3> DEFINE n == deliveries[t][i].attempts + 1
               over == answered \/ n = MAX_ATTEMPTS
    <3>1. n \in 0..MAX_ATTEMPTS /\ (n # MAX_ATTEMPTS => n < MAX_ATTEMPTS)
      BY <2>3, <2>4, Attempts DEF Delivery
    <3>2. over \in BOOLEAN
      OBVIOUS
    <3>3. ~over => n < MAX_ATTEMPTS
      BY <3>1
    <3> HIDE DEF n, over
    <3>4. d = [deliveries[t][i] EXCEPT !.attempts = n, !.over = over]
      BY DEF n, over
    <3> HIDE DEF d
    <3> QED  BY <2>3, <3>1, <3>2, <3>3, <3>4 DEF Delivery
  <2>8. deliveries' = [deliveries EXCEPT ![t] = [deliveries[t] EXCEPT ![i] = d]]
    BY <2>1
  <2> HIDE DEF d
  <2>9. [deliveries[t] EXCEPT ![i] = d] \in Seq(Delivery)
    BY <2>3, <2>7, ExceptSeq
  <2>10. deliveries' \in [TaskIds -> Seq(Delivery)]
    BY <2>2, <2>8, <2>9
  <2>11. AttemptsLeft'
    <3> SUFFICES ASSUME NEW u \in TaskIds, NEW j \in DOMAIN deliveries'[u],
                        ~deliveries'[u][j].over
                 PROVE  deliveries'[u][j].attempts < MAX_ATTEMPTS
      BY DEF AttemptsLeft
    <3>1. CASE u # t
      BY <2>2, <2>8, <3>1 DEF AttemptsLeft
    <3>2. CASE u = t
      <4>1. deliveries'[u] = [deliveries[t] EXCEPT ![i] = d]
        BY <2>2, <2>8, <3>2
      <4> QED  BY <2>2, <2>3, <2>7, <4>1 DEF AttemptsLeft
    <3> QED  BY <3>1, <3>2
  <2> QED  BY <1>2, <2>5, <2>6, <2>10, <2>11 DEF DeliveryTypeInv, DeliveryTypeOK
<1>5. CASE UNCHANGED <<vars, dvars>>
  BY <1>2, <1>5 DEF DeliveryTypeInv, DeliveryTypeOK, AttemptsLeft, dvars
<1> QED  BY <1>3, <1>4, <1>5 DEF DeliveryNext, Deliver

LEMMA DeliveryTypeInit == DeliveryInit => DeliveryTypeInv
<1> SUFFICES ASSUME DeliveryInit PROVE DeliveryTypeInv
  OBVIOUS
<1>1. TypeOK
  BY TypeInit DEF DeliveryInit
<1>2. << >> \in Seq(Delivery) /\ DOMAIN << >> = {}
  OBVIOUS
<1> QED  BY <1>1, <1>2, DeliveryAssumption
         DEF DeliveryInit, DeliveryTypeInv, DeliveryTypeOK, AttemptsLeft

\* Deliveries, what was taken and the counted failures have their types; in
\* particular deliver_callback makes at most MAX_ATTEMPTS attempts.
THEOREM DeliveryTypeCorrect == DeliverySpec => []DeliveryTypeOK
<1>1. DeliveryTypeInv => DeliveryTypeOK
  BY DEF DeliveryTypeInv
<1> QED  BY <1>1, DeliveryTypeInit, DeliveryTypeStep, PTL DEF DeliverySpec

-----------------------------------------------------------------------------
(* Payloads: what is true when it is read stays true.                      *)

Report(t, p) ==
    /\ exists(t)
    /\ is_terminal(p.status)
    /\ \E e \in events[t] : e.status = p.status
    /\ p.status \in {"completed", "failed"} =>
          \E e \in events[t] : e.event_type = p.status /\ e.result = p.result

PayloadsTrue ==
    \A t \in TaskIds :
        /\ \A i \in DOMAIN deliveries[t] : Report(t, deliveries[t][i].payload)
        /\ \A p \in inbox[t] : Report(t, p)

ReportInv == TableInv /\ DeliveryTypeInv /\ PayloadsTrue

LEMMA ReportKept ==
    ASSUME StoreInv, [Next]_vars, NEW t \in TaskIds, NEW p, Report(t, p)
    PROVE  Report(t, p)'
<1>1. exists(t)' /\ events[t] \subseteq events'[t]
  BY StoreGrows DEF Report
<1> QED  BY <1>1 DEF Report

\* schedule_callback is called for a task that is over.
LEMMA ScheduledIsOver ==
    ASSUME TableInv, Next, NEW t \in TaskIds, callbacks'[t] # callbacks[t]
    PROVE  Report(t, build_callback_payload(t)) /\ UNCHANGED <<tasks, row, events>>
<1>1. TypeOK
  BY DEF TableInv, DetailInv, SaysInv, MeansInv, StoreInv, LineageInv
<1>2. PICK s \in Sessions : ScheduleCallback(s)
  BY <1>1, Steps DEF Begin, Proceed, FlushUpdate, Flush, Commit, IntegrityError, Crash, Tick, vars
<1>3. /\ req[s].task = t /\ req[s] # NULL /\ req[s].phase = "committed"
      /\ is_terminal(row[t].status) /\ UNCHANGED <<tasks, row, events>>
  BY <1>1, <1>2 DEF ScheduleCallback, TypeOK
<1>4. exists(t)
  BY <1>3, NullAssumption DEF TableInv, DetailInv, SaysInv, MeansInv, RequestsMean
<1> QED  BY <1>3, <1>4, RowIsTrue DEF Report, build_callback_payload

LEMMA ReportStep ==
    ASSUME OutcomesPosted, ExecutorPostsSerially, ReportInv, [DeliveryNext]_<<vars, dvars>>
    PROVE  ReportInv'
<1>1. [Next]_vars
  BY DEF DeliveryNext, Scheduling, Deliver, deliver_callback
<1>2. TableInv' /\ DeliveryTypeInv'
  BY <1>1, TableStep, DeliveryTypeStep DEF ReportInv
<1>3. \A t \in TaskIds : /\ \A i \in DOMAIN deliveries[t] :
                                Report(t, deliveries[t][i].payload)
                         /\ \A p \in inbox[t] : Report(t, p)
  BY DEF ReportInv, PayloadsTrue
<1>4. ASSUME NEW t \in TaskIds, NEW p, Report(t, p) PROVE Report(t, p)'
  BY <1>1, <1>4, ReportKept DEF ReportInv, TableInv, DetailInv, SaysInv, MeansInv
<1> SUFFICES PayloadsTrue'
  BY <1>2 DEF ReportInv
<1> SUFFICES ASSUME NEW t \in TaskIds
             PROVE  /\ \A i \in DOMAIN deliveries'[t] : Report(t, deliveries[t][i].payload)'
                    /\ \A p \in inbox'[t] : Report(t, p)'
  BY DEF PayloadsTrue
<1>5. deliveries[t] \in Seq(Delivery) /\ deliveries \in [TaskIds -> Seq(Delivery)]
      /\ inbox \in [TaskIds -> SUBSET Payload]
  BY DEF ReportInv, DeliveryTypeInv, DeliveryTypeOK
\* The payloads after the step are among those before it, or new and true.
<1>6. SUFFICES /\ \A i \in DOMAIN deliveries'[t] :
                     \E p : p = deliveries'[t][i].payload /\ Report(t, p)'
               /\ \A p \in inbox'[t] : Report(t, p)'
  BY DEF Report
<1>7. CASE Scheduling(Next)
  <2>1. inbox' = inbox /\ Next
    BY <1>7 DEF Scheduling
  <2>2. CASE deliveries'[t] = deliveries[t]
    BY <1>3, <1>4, <2>1, <2>2
  <2>3. CASE deliveries'[t] = [i \in DOMAIN deliveries[t] |->
                                 [deliveries[t][i] EXCEPT !.over = TRUE]]
    <3>1. \A i \in DOMAIN deliveries[t] : deliveries[t][i] \in Delivery
      BY <1>5
    <3>2. \A i \in DOMAIN deliveries[t] :
             [deliveries[t][i] EXCEPT !.over = TRUE].payload = deliveries[t][i].payload
      BY <3>1 DEF Delivery
    <3>3. \A i \in DOMAIN deliveries'[t] : /\ i \in DOMAIN deliveries[t]
                                           /\ deliveries'[t][i].payload
                                                = deliveries[t][i].payload
      BY <2>3, <3>2
    <3> QED  BY <1>3, <1>4, <2>1, <3>3
  <2>4. CASE /\ callbacks'[t] # callbacks[t]
             /\ deliveries'[t] = Append(deliveries[t],
                                        [payload |-> build_callback_payload(t),
                                         attempts |-> 0, over |-> FALSE])
    <3> DEFINE d == [payload |-> build_callback_payload(t),
                     attempts |-> 0, over |-> FALSE]
    <3>1. Report(t, d.payload)
      BY <2>1, <2>4, ScheduledIsOver DEF ReportInv
    <3>2. PICK p : p = d.payload /\ Report(t, p)'
      BY <1>4, <3>1
    <3>3. d \in Delivery
      <4>1. build_callback_payload(t) \in Payload
        BY DEF build_callback_payload, Payload, ReportInv, DeliveryTypeInv, TypeOK, Row
      <4> QED  BY <4>1, Attempts DEF Delivery
    <3> HIDE DEF d
    <3>4. deliveries'[t] = Append(deliveries[t], d)
      BY <2>4 DEF d
    <3>5. \A i \in DOMAIN deliveries'[t] :
             \/ deliveries'[t][i] = d
             \/ i \in DOMAIN deliveries[t] /\ deliveries'[t][i] = deliveries[t][i]
      BY <1>5, <3>3, <3>4, AppendProperties
    <3> QED  BY <1>3, <1>4, <2>1, <3>2, <3>5
  <2> QED  BY <1>7, <2>2, <2>3, <2>4, SchedulingEffect DEF ReportInv, DeliveryTypeInv
<1>8. ASSUME NEW u \in TaskIds, NEW k \in DOMAIN deliveries[u], deliver_callback(u, k)
      PROVE  /\ \A i \in DOMAIN deliveries'[t] :
                   \E p : p = deliveries'[t][i].payload /\ Report(t, p)'
             /\ \A p \in inbox'[t] : Report(t, p)'
  <2>1. PICK n, over :
          deliveries' = [deliveries EXCEPT ![u] = [deliveries[u] EXCEPT ![k] =
                           [deliveries[u][k] EXCEPT !.attempts = n, !.over = over]]]
    BY <1>8 DEF deliver_callback
  <2>2. deliveries[u] \in Seq(Delivery) /\ deliveries[u][k] \in Delivery
    BY <1>5
  <2>3. \A i \in DOMAIN deliveries'[t] :
           /\ i \in DOMAIN deliveries[t]
           /\ deliveries'[t][i].payload = deliveries[t][i].payload
    BY <1>5, <2>1, <2>2 DEF Delivery
  <2>4. \A p \in inbox'[t] : \/ p \in inbox[t]
                             \/ t = u /\ p = deliveries[u][k].payload
    BY <1>5, <1>8 DEF deliver_callback
  <2> QED  BY <1>3, <1>4, <2>3, <2>4
<1>9. CASE UNCHANGED <<vars, dvars>>
  BY <1>3, <1>4, <1>9 DEF dvars
<1> QED  BY <1>7, <1>8, <1>9 DEF DeliveryNext, Deliver

LEMMA ReportInit == DeliveryInit => ReportInv
<1> SUFFICES ASSUME DeliveryInit PROVE ReportInv
  OBVIOUS
<1>1. TableInv
  BY TableInit DEF DeliveryInit
<1>2. PayloadsTrue
  BY DEF DeliveryInit, PayloadsTrue
<1> QED  BY <1>1, <1>2, DeliveryTypeInit DEF ReportInv

\* Everything the receiver of callbacks is told is true: build_callback_payload
\* reads a status that the log has and the result of an event that says so, which
\* may be none, whatever overlapping requests have done since the outcome was
\* committed, and what was true when it was read stays true until the last retry.
\* If an executor posts one event at a time, and outcomes as events of their own.
THEOREM ReportsAreTrue ==
    ASSUME OutcomesPosted, ExecutorPostsSerially
    PROVE  DeliverySpec => []ReportsTrue
<1>1. ReportInv => ReportsTrue
  BY DEF ReportInv, PayloadsTrue, Report, ReportsTrue
<1>2. ReportInv /\ [DeliveryNext]_<<vars, dvars>> => ReportInv'
  BY ReportStep
<1> QED  BY <1>1, <1>2, ReportInit, PTL DEF DeliverySpec

-----------------------------------------------------------------------------
(* The number of posts: each delivery has its callback, each callback its  *)
(* event.                                                                  *)

\* There are no more deliveries than events that may cause one, none without a
\* callback_url, and the receiver has what one of them has posted.
PostsPaid ==
    \A t \in TaskIds :
        /\ Len(deliveries[t]) <= Cardinality(postable(t))
        /\ deliveries[t] # << >> => exists(t) /\ tasks[t].callback_url
        /\ \A p \in inbox[t] : \E i \in DOMAIN deliveries[t] :
              deliveries[t][i].payload = p /\ deliveries[t][i].attempts \in 1..MAX_ATTEMPTS

Posted(t) ==
    \A p \in inbox[t] : \E i \in DOMAIN deliveries[t] :
        deliveries[t][i].payload = p /\ deliveries[t][i].attempts > 0

PostsInv ==
    /\ PaidInv /\ DeliveryTypeInv
    /\ \A t \in TaskIds : Len(deliveries[t]) = callbacks[t] /\ Posted(t)

\* A step of the store schedules one callback of a task or none, and none as it
\* crashes.
LEMMA OneCallback ==
    ASSUME TypeOK, [Next]_vars, NEW t \in TaskIds
    PROVE  /\ callbacks'[t] \in {callbacks[t], callbacks[t] + 1}
           /\ crashes' # crashes => callbacks'[t] = callbacks[t]
<1>1. callbacks \in [TaskIds -> Nat]
  BY DEF TypeOK
<1>2. ASSUME NEW s \in Sessions, ScheduleCallback(s)
      PROVE  crashes' = crashes /\ callbacks'[t] \in {callbacks[t], callbacks[t] + 1}
  <2>1. \/ callbacks' = callbacks
        \/ callbacks' = [callbacks EXCEPT ![req[s].task] = callbacks[req[s].task] + 1]
    BY <1>2 DEF ScheduleCallback
  <2> QED  BY <1>1, <1>2, <2>1 DEF ScheduleCallback
<1>3. \/ \E s \in Sessions : ScheduleCallback(s)
      \/ UNCHANGED callbacks
  BY Steps DEF Begin, Proceed, FlushUpdate, Flush, Commit, IntegrityError, Crash, Tick, vars
<1> QED  BY <1>2, <1>3

LEMMA SchedulingPosts ==
    ASSUME PostsInv, Scheduling(Next), NEW t \in TaskIds
    PROVE  Len(deliveries'[t]) = callbacks'[t] /\ Posted(t)'
<1>1. /\ deliveries[t] \in Seq(Delivery) /\ Len(deliveries[t]) = callbacks[t] /\ Posted(t)
      /\ inbox'[t] = inbox[t]
  BY DEF PostsInv, DeliveryTypeInv, DeliveryTypeOK, Scheduling
<1>2. /\ callbacks'[t] \in {callbacks[t], callbacks[t] + 1}
      /\ crashes' # crashes => callbacks'[t] = callbacks[t]
  BY OneCallback DEF PostsInv, DeliveryTypeInv, Scheduling
<1>3. CASE crashes' # crashes
  <2>1. deliveries'[t] = [i \in DOMAIN deliveries[t] |->
                            [deliveries[t][i] EXCEPT !.over = TRUE]]
    BY <1>3 DEF Scheduling
  <2>2. /\ DOMAIN deliveries[t] = 1..Len(deliveries[t]) /\ Len(deliveries[t]) \in Nat
        /\ \A i \in DOMAIN deliveries[t] : deliveries[t][i] \in Delivery
    BY <1>1
  <2>3. DOMAIN deliveries'[t] = 1..Len(deliveries[t])
    BY <2>1, <2>2
  <2>4. deliveries'[t] \in Seq(Delivery) /\ Len(deliveries'[t]) = Len(deliveries[t])
    <3>1. \A i \in DOMAIN deliveries[t] : [deliveries[t][i] EXCEPT !.over = TRUE] \in Delivery
      BY <2>2 DEF Delivery
    <3>2. deliveries'[t] \in [1..Len(deliveries[t]) -> Delivery]
      BY <2>1, <2>2, <3>1
    <3>3. deliveries'[t] \in Seq(Delivery)
      BY <2>2, <3>2, SeqDef
    <3> QED  BY <2>2, <2>3, <3>3, LenProperties
  <2>5. \A i \in DOMAIN deliveries[t] :
           /\ deliveries'[t][i].payload = deliveries[t][i].payload
           /\ deliveries'[t][i].attempts = deliveries[t][i].attempts
    BY <2>1, <2>2 DEF Delivery
  <2>6. Posted(t)'
    BY <1>1, <2>2, <2>3, <2>5 DEF Posted
  <2> QED  BY <1>1, <1>2, <1>3, <2>4, <2>6
<1>4. CASE crashes' = crashes /\ callbacks'[t] # callbacks[t]
  <2> DEFINE d == [payload |-> build_callback_payload(t), attempts |-> 0, over |-> FALSE]
  <2>1. deliveries'[t] = Append(deliveries[t], d)
    BY <1>4 DEF Scheduling
  <2>2. d \in Delivery
    <3>1. build_callback_payload(t) \in Payload
      BY DEF build_callback_payload, Payload, PostsInv, DeliveryTypeInv, TypeOK, Row
    <3> QED  BY <3>1, Attempts DEF Delivery
  <2> HIDE DEF d
  <2>3. /\ Len(deliveries'[t]) = Len(deliveries[t]) + 1
        /\ DOMAIN deliveries[t] \subseteq DOMAIN deliveries'[t]
        /\ \A i \in DOMAIN deliveries[t] : deliveries'[t][i] = deliveries[t][i]
    BY <1>1, <2>1, <2>2, AppendProperties
  <2>4. Posted(t)'
    BY <1>1, <2>3 DEF Posted
  <2> QED  BY <1>1, <1>2, <1>4, <2>3, <2>4
<1>5. CASE crashes' = crashes /\ callbacks'[t] = callbacks[t]
  <2>1. deliveries'[t] = deliveries[t]
    BY <1>5 DEF Scheduling
  <2> QED  BY <1>1, <1>5, <2>1 DEF Posted
<1> QED  BY <1>3, <1>4, <1>5

LEMMA DeliverPosts ==
    ASSUME PostsInv, NEW t \in TaskIds, NEW i \in DOMAIN deliveries[t], deliver_callback(t, i),
           NEW u \in TaskIds
    PROVE  Len(deliveries'[u]) = callbacks'[u] /\ Posted(u)'
<1>1. /\ deliveries \in [TaskIds -> Seq(Delivery)] /\ inbox \in [TaskIds -> SUBSET Payload]
      /\ Len(deliveries[u]) = callbacks[u] /\ Posted(u) /\ callbacks' = callbacks
  BY DEF PostsInv, DeliveryTypeInv, DeliveryTypeOK, deliver_callback, vars
<1>2. PICK taken, answered \in BOOLEAN :
        /\ inbox' = IF taken THEN [inbox EXCEPT ![t] = @ \cup {deliveries[t][i].payload}]
                    ELSE inbox
        /\ deliveries' = [deliveries EXCEPT ![t][i] =
              [@ EXCEPT !.attempts = deliveries[t][i].attempts + 1,
                        !.over = answered \/ deliveries[t][i].attempts + 1 = MAX_ATTEMPTS]]
  BY DEF deliver_callback
<1> DEFINE d == [deliveries[t][i] EXCEPT
                   !.attempts = deliveries[t][i].attempts + 1,
                   !.over = answered \/ deliveries[t][i].attempts + 1 = MAX_ATTEMPTS]
<1>3. deliveries' = [deliveries EXCEPT ![t] = [deliveries[t] EXCEPT ![i] = d]]
  BY <1>2
<1>4. CASE u # t
  <2>1. deliveries'[u] = deliveries[u] /\ inbox'[u] = inbox[u]
    BY <1>1, <1>2, <1>3, <1>4
  <2> QED  BY <1>1, <2>1 DEF Posted
<1>5. CASE u = t
  <2>1. deliveries[t] \in Seq(Delivery) /\ deliveries[t][i] \in Delivery
    BY <1>1
  <2>2. d.payload = deliveries[t][i].payload /\ d.attempts > 0
    <3>1. deliveries[t][i].attempts \in Nat
      BY <2>1, Attempts DEF Delivery
    <3> QED  BY <2>1, <3>1 DEF Delivery
  <2> HIDE DEF d
  <2>3. deliveries'[t] = [deliveries[t] EXCEPT ![i] = d]
    BY <1>1, <1>3
  <2>4. /\ DOMAIN deliveries'[t] = DOMAIN deliveries[t] /\ deliveries'[t][i] = d
        /\ \A j \in DOMAIN deliveries[t] : j # i => deliveries'[t][j] = deliveries[t][j]
    BY <2>1, <2>3
  <2>5. Len(deliveries'[t]) = Len(deliveries[t])
    <3>1. DeliveryTypeInv'
      BY DeliveryTypeStep DEF PostsInv, DeliveryNext, Deliver
    <3>2. deliveries'[t] \in Seq(Delivery)
      BY <3>1 DEF DeliveryTypeInv, DeliveryTypeOK
    <3> QED  BY <2>1, <2>4, <3>2, LenProperties
  <2>6. Posted(t)'
    <3> SUFFICES ASSUME NEW p \in inbox'[t]
                 PROVE  \E j \in DOMAIN deliveries'[t] :
                           deliveries'[t][j].payload = p /\ deliveries'[t][j].attempts > 0
      BY DEF Posted
    <3>1. p \in inbox[t] \/ p = deliveries[t][i].payload
      BY <1>1, <1>2
    <3>2. CASE p = deliveries[t][i].payload
      BY <2>2, <2>4, <3>2
    <3>3. CASE p \in inbox[t]
      <4>1. PICK j \in DOMAIN deliveries[t] :
              deliveries[t][j].payload = p /\ deliveries[t][j].attempts > 0
        BY <1>1, <1>5, <3>3 DEF Posted
      <4> QED  BY <2>2, <2>4, <4>1
    <3> QED  BY <3>1, <3>2, <3>3
  <2> QED  BY <1>1, <1>5, <2>5, <2>6
<1> QED  BY <1>4, <1>5

\* Whatever overlaps, fails or crashes, no recorded event is posted by more than one
\* delivery, and by that one at most MAX_ATTEMPTS times; nothing is posted for a task
\* without callback_url; and the receiver has nothing but what was posted.
THEOREM PostsArePaid == DeliverySpec => []PostsPaid
<1>1. DeliveryInit => PostsInv
  <2> SUFFICES ASSUME DeliveryInit PROVE PostsInv
    OBVIOUS
  <2>1. Init /\ PaidInv
    BY PaidInit DEF DeliveryInit
  <2> QED  BY <2>1, DeliveryTypeInit DEF DeliveryInit, Init, PostsInv, Posted
<1>2. PostsInv /\ [DeliveryNext]_<<vars, dvars>> => PostsInv'
  <2> SUFFICES ASSUME PostsInv, [DeliveryNext]_<<vars, dvars>> PROVE PostsInv'
    OBVIOUS
  <2>1. [Next]_vars
    BY DEF DeliveryNext, Scheduling, Deliver, deliver_callback
  <2>2. PaidInv' /\ DeliveryTypeInv'
    BY <2>1, PaidStep, DeliveryTypeStep DEF PostsInv
  <2>3. CASE UNCHANGED <<vars, dvars>>
    BY <2>2, <2>3 DEF PostsInv, Posted, vars, dvars
  <2>4. CASE Scheduling(Next)
    BY <2>2, <2>4, SchedulingPosts DEF PostsInv
  <2>5. CASE Deliver
    BY <2>2, <2>5, DeliverPosts DEF PostsInv, Deliver
  <2> QED  BY <2>3, <2>4, <2>5 DEF DeliveryNext
<1>3. PostsInv => PostsPaid
  <2> SUFFICES ASSUME PostsInv, NEW t \in TaskIds
               PROVE  /\ Len(deliveries[t]) <= Cardinality(postable(t))
                      /\ deliveries[t] # << >> => exists(t) /\ tasks[t].callback_url
                      /\ \A p \in inbox[t] : \E i \in DOMAIN deliveries[t] :
                            /\ deliveries[t][i].payload = p
                            /\ deliveries[t][i].attempts \in 1..MAX_ATTEMPTS
    BY DEF PostsPaid
  <2>1. /\ deliveries[t] \in Seq(Delivery) /\ Len(deliveries[t]) = callbacks[t] /\ Posted(t)
        /\ Paid(t)
    BY DEF PostsInv, PaidInv, DeliveryTypeInv, DeliveryTypeOK
  <2>2. CallbacksPaid
    BY PaidEnough DEF PostsInv
  <2>3. Len(deliveries[t]) <= Cardinality(postable(t))
    BY <2>1, <2>2 DEF CallbacksPaid
  <2>4. deliveries[t] # << >> => callbacks[t] > 0
    BY <2>1
  <2>5. \A i \in DOMAIN deliveries[t] : deliveries[t][i].attempts \in 0..MAX_ATTEMPTS
    <3>1. \A i \in DOMAIN deliveries[t] : deliveries[t][i] \in Delivery
      BY <2>1
    <3> QED  BY <3>1 DEF Delivery
  <2>6. \A i \in DOMAIN deliveries[t] :
           deliveries[t][i].attempts > 0 => deliveries[t][i].attempts \in 1..MAX_ATTEMPTS
    BY <2>5, Attempts
  <2> QED  BY <2>1, <2>2, <2>3, <2>4, <2>6 DEF CallbacksPaid, Posted
<1> QED  BY <1>1, <1>2, <1>3, PTL DEF DeliverySpec

\* Deliveries leave the store to itself: what is proved of TaskStore holds beside
\* them.
LEMMA DeliveryKeepsStore == DeliverySpec => Spec
<1>1. DeliveryInit => Init
  BY DEF DeliveryInit
<1>2. [DeliveryNext]_<<vars, dvars>> => [Next]_vars
  BY DEF DeliveryNext, Scheduling, Deliver, deliver_callback
<1> QED  BY <1>1, <1>2, PTL DEF DeliverySpec, Spec
=============================================================================
