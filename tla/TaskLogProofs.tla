--------------------------- MODULE TaskLogProofs ---------------------------
(***************************************************************************)
(* TaskStore and TaskResponses: the event log and what GET shows tell the  *)
(* status, the result and the lineage of every task, although requests     *)
(* overlap; what the log and the callbacks keep without any assumption on  *)
(* the executors; and that the sessions never deadlock.                    *)
(***************************************************************************)
EXTENDS TaskResponses, TaskStoreProofs, WellFoundedInduction

-----------------------------------------------------------------------------
(* The requests in progress.                                               *)

\* A request writes an existing task, announces what it writes, and has a
\* number if and only if it came with one or has been flushed.
RequestOK(q) ==
    /\ q.sidecar => /\ q.task # NULL
                    /\ q.event.sequence > 0
                    /\ q.phase \notin {"updated", "flushed"}
    /\ q.task = NULL => q.event.sequence # 0 /\ q.phase = "loaded"
    /\ q.task # NULL => exists(q.task) /\ Announces(q)
    /\ (q.task # NULL /\ ~q.sidecar /\ q.phase # "flushed") => q.event.sequence = 0
    /\ (~q.sidecar => q.phase # "committed")

Formed == \A s \in Sessions : req[s] # NULL => RequestOK(req[s])

LEMMA AdmittedOK ==
    ASSUME NEW q, Admitted(q)
    PROVE  RequestOK(q)
BY DEF Admitted, RequestOK, NumberOK

\* What a commit does to the tables.
LEMMA CommitEffect ==
    ASSUME LineageInv, Formed, NEW s \in Sessions, Commit(s)
    PROVE  /\ \A t \in TaskIds : exists(t) => exists(t)'
           /\ \A t \in TaskIds : (exists(t) /\ t # req[s].task) =>
                 events'[t] = events[t] /\ row'[t] = row[t]
           /\ req[s].task # NULL =>
                 /\ events'[req[s].task] = events[req[s].task] \cup {req[s].event}
                 /\ row'[req[s].task].status =
                       Written(row[req[s].task].status, req[s].update.status)
           /\ \A t \in TaskIds : (~exists(t) /\ exists(t)') =>
                 /\ t = req[s].child
                 /\ events'[t] = {created_event}
                 /\ row'[t].status = "accepted"
           /\ \A t \in TaskIds : t = req[s].child \/ t = req[s].task \/ row'[t] = row[t]
           /\ \A u \in Sessions \ {s} : req'[u] = req[u]
           /\ \/ req'[s] = NULL
              \/ req[s].sidecar /\ req'[s] = [req[s] EXCEPT !.phase = "committed"]
<1> DEFINE q == req[s]
<1>1. q \in Request /\ q # NULL /\ RequestOK(q)
  BY DEF Commit, LineageInv, TypeOK, Formed
<1>2. tasks' = [t \in TaskIds |-> IF t = q.child THEN q.insert ELSE tasks[t]]
  BY DEF Commit
<1>3. row' = [t \in TaskIds |->
                IF t = q.child THEN Accepted(q.metadata)
                ELSE IF t = q.task THEN Apply(row[t], q.update) ELSE row[t]]
  BY DEF Commit
<1>4. events' = [t \in TaskIds |->
                   IF t = q.child THEN {created_event}
                   ELSE IF t = q.task THEN events[t] \cup {q.event}
                   ELSE events[t]]
  BY DEF Commit
<1>5. NULL \notin TaskIds
  BY NullAssumption
<1>6. q.child # NULL => ~exists(q.child)
  BY <1>1 DEF LineageInv, InsertsSound
<1>7. q.task # NULL => q.task \in TaskIds /\ exists(q.task)
  BY <1>1 DEF RequestOK, Request
<1>8. \A t \in TaskIds : exists(t) => exists(t)'
  BY <1>2, <1>5, <1>6 DEF exists
<1>9. \A t \in TaskIds : (exists(t) /\ t # q.task) =>
          events'[t] = events[t] /\ row'[t] = row[t]
  BY <1>3, <1>4, <1>5, <1>6
<1>10. q.task # NULL =>
          /\ events'[q.task] = events[q.task] \cup {q.event}
          /\ row'[q.task].status = Written(row[q.task].status, q.update.status)
  <2> SUFFICES ASSUME q.task # NULL
               PROVE  /\ events'[q.task] = events[q.task] \cup {q.event}
                      /\ row'[q.task].status =
                            Written(row[q.task].status, q.update.status)
    OBVIOUS
  <2>1. q.task \in TaskIds /\ q.task # q.child
    BY <1>5, <1>6, <1>7
  <2>2. row'[q.task] = Apply(row[q.task], q.update)
    BY <1>3, <2>1
  <2> QED  BY <1>4, <2>1, <2>2 DEF Apply
<1>11. \A t \in TaskIds : (~exists(t) /\ exists(t)') =>
          /\ t = q.child
          /\ events'[t] = {created_event}
          /\ row'[t].status = "accepted"
  BY <1>2, <1>3, <1>4 DEF exists, Accepted
<1>12. \A t \in TaskIds : t = q.child \/ t = q.task \/ row'[t] = row[t]
  BY <1>3
<1>13. req' = [req EXCEPT ![s] = IF q.sidecar
                                 THEN [q EXCEPT !.phase = "committed"] ELSE NULL]
  BY DEF Commit
<1>14. /\ \A u \in Sessions \ {s} : req'[u] = req[u]
       /\ \/ req'[s] = NULL
          \/ q.sidecar /\ req'[s] = [q EXCEPT !.phase = "committed"]
  BY <1>13 DEF LineageInv, TypeOK
<1> QED  BY <1>8, <1>9, <1>10, <1>11, <1>12, <1>14

\* What a flush does: the request is numbered, and otherwise as it was.
LEMMA FlushEffect ==
    ASSUME TypeOK, Formed, NEW s \in Sessions, Flush(s)
    PROVE  \E n \in Nat :
              /\ n > 0
              /\ req[s] # NULL /\ ~req[s].sidecar /\ req[s].task \in TaskIds
              /\ req'[s].phase = "flushed" /\ ~req'[s].sidecar
              /\ req'[s].task = req[s].task /\ req'[s].update = req[s].update
              /\ req'[s].event.sequence = n
              /\ req'[s].event.status = req[s].event.status
              /\ \A e \in events[req[s].task] : e.sequence < n
              /\ n # 1 => \E e \in events[req[s].task] : e.sequence = n - 1
              /\ \A u \in Sessions \ {s} : req'[u] = req[u]
<1>1. PICK n \in Nat, q \in Request :
              /\ req' = [req EXCEPT ![s] = q]
              /\ n > 0
              /\ q = [req[s] EXCEPT !.phase = "flushed",
                                    !.event = [req[s].event EXCEPT !.sequence = n]]
              /\ \A e \in events[req[s].task] : e.sequence < n
              /\ n # 1 => \E e \in events[req[s].task] : e.sequence = n - 1
  BY FlushStep
<1>2. /\ req[s] \in Request /\ req[s] # NULL /\ RequestOK(req[s])
      /\ req[s].event.sequence = 0
  BY DEF Flush, TypeOK, Formed
<1>3. ~req[s].sidecar /\ req[s].task \in TaskIds
  BY <1>2 DEF RequestOK, Request
<1>4. req[s].event \in TaskEvent
  BY <1>2 DEF Request
<1>5. /\ q.phase = "flushed" /\ q.sidecar = req[s].sidecar
      /\ q.task = req[s].task /\ q.update = req[s].update
      /\ q.event = [req[s].event EXCEPT !.sequence = n]
  BY <1>1, <1>2 DEF Request
<1>6. q.event.sequence = n /\ q.event.status = req[s].event.status
  BY <1>4, <1>5 DEF TaskEvent
<1>7. req'[s] = q /\ \A u \in Sessions \ {s} : req'[u] = req[u]
  BY <1>1 DEF TypeOK
<1> QED  BY <1>1, <1>2, <1>3, <1>5, <1>6, <1>7

\* What sending the UPDATE does: the phase of a request without a number changes.
LEMMA UpdateEffect ==
    ASSUME TypeOK, Formed, NEW s \in Sessions, FlushUpdate(s)
    PROVE  /\ req[s] # NULL /\ ~req[s].sidecar
           /\ req[s].event.sequence = 0 /\ req[s].phase = "loaded"
           /\ req'[s] = [req[s] EXCEPT !.phase = "updated"]
           /\ req'[s].phase = "updated" /\ ~req'[s].sidecar
           /\ req'[s].task = req[s].task /\ req'[s].update = req[s].update
           /\ req'[s].event = req[s].event
           /\ \A u \in Sessions \ {s} : req'[u] = req[u]
<1>1. PICK q \in Request : /\ req' = [req EXCEPT ![s] = q]
                           /\ q = [req[s] EXCEPT !.phase = "updated"]
  BY UpdateStep
<1>2. /\ req[s] \in Request /\ req[s] # NULL /\ RequestOK(req[s])
      /\ req[s].event.sequence = 0 /\ req[s].phase = "loaded"
  BY DEF FlushUpdate, TypeOK, Formed
<1>3. ~req[s].sidecar
  BY <1>2 DEF RequestOK
<1>4. /\ q.phase = "updated" /\ q.sidecar = req[s].sidecar
      /\ q.task = req[s].task /\ q.update = req[s].update /\ q.event = req[s].event
  BY <1>1, <1>2 DEF Request
<1>5. req'[s] = q /\ \A u \in Sessions \ {s} : req'[u] = req[u]
  BY <1>1 DEF TypeOK
<1> QED  BY <1>1, <1>2, <1>3, <1>4, <1>5

-----------------------------------------------------------------------------
(* The log.  A handler of a principal numbers its event under the lock of  *)
(* the task's row, so no event with a status can come between; a sidecar   *)
(* event has its number from before, and either stays ahead of the log or  *)
(* finds its number taken, since the numbers given out by the server leave *)
(* no gap.                                                                 *)

\* In progress, of a task, with a number that Flush gave.
Flushed(s, t) == req[s] # NULL /\ req[s].phase = "flushed" /\ req[s].task = t

\* In progress, of a task, posted by its executor and not committed.
Posting(s, t) == /\ req[s] # NULL /\ req[s].sidecar
                 /\ req[s].phase = "loaded" /\ req[s].task = t

number_taken(t, n) == \E e \in events[t] : e.sequence = n

\* The number of a flushed request follows one in the log.
NumbersFollow ==
    \A s \in Sessions, t \in TaskIds : Flushed(s, t) =>
        /\ req[s].event.sequence > 0
        /\ req[s].event.sequence = 1 \/ number_taken(t, req[s].event.sequence - 1)

\* That of one that writes a status exceeds every status event's.
StatusAhead ==
    \A s \in Sessions, t \in TaskIds :
        (Flushed(s, t) /\ req[s].event.status # NULL) =>
            \A e \in events[t] : e.status # NULL => e.sequence < req[s].event.sequence

\* A posted number is ahead of the log, or taken.
PostAhead ==
    \A s \in Sessions, t \in TaskIds : Posting(s, t) =>
        \/ \A e \in events[t] : e.sequence < req[s].event.sequence
        \/ number_taken(t, req[s].event.sequence)

\* ... and no flushed request goes beyond it before it is taken.
NotOvertaken ==
    \A r, s \in Sessions, t \in TaskIds : (Posting(s, t) /\ Flushed(r, t)) =>
        \/ req[r].event.sequence <= req[s].event.sequence
        \/ number_taken(t, req[s].event.sequence)

\* One event of a task is posted at a time.
PostsSerial ==
    \A r, s \in Sessions :
        (/\ req[r] # NULL /\ req[r].sidecar
         /\ req[s] # NULL /\ req[s].sidecar
         /\ req[r].task = req[s].task) => r = s

NumberInv == /\ NumbersFollow /\ StatusAhead /\ PostAhead /\ NotOvertaken
             /\ PostsSerial

LogInv == LineageInv /\ Formed /\ NumberInv /\ LogTellsStatus

LEMMA NumberTypes ==
    ASSUME TypeOK
    PROVE  /\ \A s \in Sessions : req[s] # NULL =>
                 req[s] \in Request /\ req[s].event \in TaskEvent
                 /\ req[s].event.sequence \in Nat
           /\ \A t \in TaskIds : \A e \in events[t] : e.sequence \in Nat
BY DEF TypeOK, Request, TaskEvent

LEMMA BeginLog ==
    ASSUME LogInv, ExecutorPostsSerially, NEW s \in Sessions, NEW q,
           Begin(s, q), Admitted(q)
    PROVE  Formed' /\ NumberInv' /\ LogTellsStatus'
<1>1. /\ tasks' = tasks /\ row' = row /\ events' = events
      /\ req'[s] = q /\ \A u \in Sessions \ {s} : req'[u] = req[u]
  BY DEF Begin, LogInv, LineageInv, TypeOK
<1>2. /\ q.phase = "loaded" /\ RequestOK(q)
      /\ q.task # NULL => NumberOK(q)
      /\ q \in Request /\ q.event.sequence \in Nat
  BY AdmittedOK DEF Admitted, Request, TaskEvent
<1>3. Formed'
  BY <1>1, <1>2 DEF LogInv, Formed, RequestOK, Announces, exists
<1>4. NumbersFollow' /\ StatusAhead'
  BY <1>1, <1>2 DEF LogInv, NumberInv, NumbersFollow, StatusAhead, Flushed, number_taken
<1>5. PostAhead'
  <2> SUFFICES ASSUME NEW u \in Sessions, NEW t \in TaskIds, Posting(u, t)'
               PROVE  \/ \A e \in events'[t] : e.sequence < req'[u].event.sequence
                      \/ number_taken(t, req[u].event.sequence)'
    BY DEF PostAhead
  <2>1. CASE u = s
    BY <1>1, <1>2, <2>1 DEF Posting, NumberOK, RequestOK
  <2>2. CASE u # s
    BY <1>1, <2>2 DEF LogInv, NumberInv, PostAhead, Posting, number_taken
  <2> QED  BY <2>1, <2>2
<1>6. NotOvertaken'
  <2> SUFFICES ASSUME NEW r \in Sessions, NEW u \in Sessions, NEW t \in TaskIds,
                      Posting(u, t)', Flushed(r, t)'
               PROVE  \/ req'[r].event.sequence <= req'[u].event.sequence
                      \/ number_taken(t, req[u].event.sequence)'
    BY DEF NotOvertaken
  <2>1. r # s /\ req'[r] = req[r] /\ Flushed(r, t)
    BY <1>1, <1>2 DEF Flushed
  <2>2. CASE u = s
    <3>1. /\ q.task = t /\ q.event.sequence > 0
          /\ \A e \in events[t] : e.sequence < q.event.sequence
      BY <1>1, <1>2, <2>2 DEF Posting, NumberOK, RequestOK
    <3>2. /\ req[r].event.sequence \in Nat
          /\ \A e \in events[t] : e.sequence \in Nat
      BY <2>1, NumberTypes DEF LogInv, LineageInv, Flushed
    <3>3. req[r].event.sequence = 1 \/ number_taken(t, req[r].event.sequence - 1)
      BY <2>1 DEF LogInv, NumberInv, NumbersFollow
    <3>4. req[r].event.sequence <= q.event.sequence
      BY <1>2, <3>1, <3>2, <3>3 DEF number_taken
    <3> QED  BY <1>1, <2>1, <2>2, <3>4
  <2>3. CASE u # s
    BY <1>1, <2>1, <2>3 DEF LogInv, NumberInv, NotOvertaken, Posting, number_taken
  <2> QED  BY <2>2, <2>3
<1>7. PostsSerial'
  <2>1. q.sidecar => \A r \in Sessions :
                        (req[r] # NULL /\ req[r].sidecar) => req[r].task # q.task
    BY <1>2 DEF NumberOK, RequestOK
  <2> QED  BY <1>1, <2>1 DEF LogInv, NumberInv, PostsSerial
<1>8. LogTellsStatus'
  BY <1>1 DEF LogInv, LogTellsStatus, exists
<1> QED  BY <1>3, <1>4, <1>5, <1>6, <1>7, <1>8 DEF NumberInv

LEMMA FlushLog ==
    ASSUME LogInv, NEW s \in Sessions, Flush(s)
    PROVE  Formed' /\ NumberInv' /\ LogTellsStatus'
<1>1. PICK n \in Nat :
              /\ n > 0
              /\ req[s] # NULL /\ ~req[s].sidecar /\ req[s].task \in TaskIds
              /\ req'[s].phase = "flushed" /\ ~req'[s].sidecar
              /\ req'[s].task = req[s].task /\ req'[s].update = req[s].update
              /\ req'[s].event.sequence = n
              /\ req'[s].event.status = req[s].event.status
              /\ \A e \in events[req[s].task] : e.sequence < n
              /\ n # 1 => \E e \in events[req[s].task] : e.sequence = n - 1
              /\ \A u \in Sessions \ {s} : req'[u] = req[u]
  BY FlushEffect DEF LogInv, LineageInv
<1>2. tasks' = tasks /\ row' = row /\ events' = events
  BY DEF Flush
<1>3. Formed'
  <2>1. RequestOK(req[s])
    BY <1>1 DEF LogInv, Formed
  <2>2. RequestOK(req[s])'
    BY <1>1, <1>2, <2>1, NullAssumption DEF RequestOK, Announces, exists
  <2>3. \A u \in Sessions \ {s} : req'[u] # NULL => RequestOK(req[u])'
    BY <1>1, <1>2 DEF LogInv, Formed, RequestOK, Announces, exists
  <2> QED  BY <2>2, <2>3 DEF Formed
<1>4. NumbersFollow'
  BY <1>1, <1>2 DEF LogInv, NumberInv, NumbersFollow, Flushed, number_taken
<1>5. StatusAhead'
  BY <1>1, <1>2 DEF LogInv, NumberInv, StatusAhead, Flushed
<1>6. \A u \in Sessions, t \in TaskIds :
          Posting(u, t)' => u # s /\ req'[u] = req[u] /\ Posting(u, t)
  BY <1>1 DEF Posting
<1>7. PostAhead'
  BY <1>2, <1>6 DEF LogInv, NumberInv, PostAhead, number_taken
<1>8. NotOvertaken'
  <2> SUFFICES ASSUME NEW r \in Sessions, NEW u \in Sessions, NEW t \in TaskIds,
                      Posting(u, t)', Flushed(r, t)'
               PROVE  \/ req'[r].event.sequence <= req'[u].event.sequence
                      \/ number_taken(t, req[u].event.sequence)'
    BY DEF NotOvertaken
  <2>1. req'[u] = req[u] /\ Posting(u, t)
    BY <1>6
  <2>2. CASE r = s
    <3>1. /\ req[u].event.sequence \in Nat /\ req[u].event.sequence > 0
          /\ \A e \in events[t] : e.sequence \in Nat
      BY <2>1, NumberTypes DEF LogInv, LineageInv, Posting, Formed, RequestOK
    <3>2. \/ \A e \in events[t] : e.sequence < req[u].event.sequence
          \/ number_taken(t, req[u].event.sequence)
      BY <2>1 DEF LogInv, NumberInv, PostAhead
    <3>3. req[s].task = t
      BY <1>1, <2>2 DEF Flushed
    <3>4. n <= req[u].event.sequence \/ number_taken(t, req[u].event.sequence)
      BY <1>1, <3>1, <3>2, <3>3 DEF number_taken
    <3> QED  BY <1>1, <1>2, <2>1, <2>2, <3>4 DEF number_taken
  <2>3. CASE r # s
    BY <1>1, <1>2, <2>1, <2>3 DEF LogInv, NumberInv, NotOvertaken, Flushed, number_taken
  <2> QED  BY <2>2, <2>3
<1>9. PostsSerial'
  BY <1>1 DEF LogInv, NumberInv, PostsSerial
<1>10. LogTellsStatus'
  BY <1>2 DEF LogInv, LogTellsStatus, exists
<1> QED  BY <1>3, <1>4, <1>5, <1>7, <1>8, <1>9, <1>10 DEF NumberInv

LEMMA UpdateLog ==
    ASSUME LogInv, NEW s \in Sessions, FlushUpdate(s)
    PROVE  Formed' /\ NumberInv' /\ LogTellsStatus'
<1>1. /\ req[s] # NULL /\ ~req[s].sidecar
      /\ req[s].event.sequence = 0 /\ req[s].phase = "loaded"
      /\ req'[s].phase = "updated" /\ ~req'[s].sidecar
      /\ req'[s].task = req[s].task /\ req'[s].update = req[s].update
      /\ req'[s].event = req[s].event
      /\ \A u \in Sessions \ {s} : req'[u] = req[u]
  BY UpdateEffect DEF LogInv, LineageInv
<1>2. tasks' = tasks /\ row' = row /\ events' = events
  BY DEF FlushUpdate
<1>3. Formed'
  <2>1. RequestOK(req[s])
    BY <1>1 DEF LogInv, Formed
  <2>2. RequestOK(req[s])'
    BY <1>1, <1>2, <2>1 DEF RequestOK, Announces, exists
  <2>3. \A u \in Sessions \ {s} : req'[u] # NULL => RequestOK(req[u])'
    BY <1>1, <1>2 DEF LogInv, Formed, RequestOK, Announces, exists
  <2> QED  BY <2>2, <2>3 DEF Formed
<1>4. \A u \in Sessions, t \in TaskIds :
          /\ Flushed(u, t)' => req'[u] = req[u] /\ Flushed(u, t)
          /\ Posting(u, t)' => req'[u] = req[u] /\ Posting(u, t)
  BY <1>1 DEF Flushed, Posting
<1>5. NumbersFollow' /\ StatusAhead' /\ PostAhead' /\ NotOvertaken'
  BY <1>2, <1>4 DEF LogInv, NumberInv, NumbersFollow, StatusAhead, PostAhead,
                    NotOvertaken, number_taken
<1>6. PostsSerial'
  BY <1>1 DEF LogInv, NumberInv, PostsSerial
<1>7. LogTellsStatus'
  BY <1>2 DEF LogInv, LogTellsStatus, exists
<1> QED  BY <1>3, <1>5, <1>6, <1>7 DEF NumberInv

LEMMA CommitLog ==
    ASSUME LogInv, NEW s \in Sessions, Commit(s)
    PROVE  Formed' /\ NumberInv' /\ LogTellsStatus'
<1> DEFINE q == req[s]
<1>1. /\ \A t \in TaskIds : exists(t) => exists(t)'
      /\ \A t \in TaskIds : (exists(t) /\ t # q.task) =>
            events'[t] = events[t] /\ row'[t] = row[t]
      /\ q.task # NULL =>
            /\ events'[q.task] = events[q.task] \cup {q.event}
            /\ row'[q.task].status = Written(row[q.task].status, q.update.status)
      /\ \A t \in TaskIds : (~exists(t) /\ exists(t)') =>
            /\ t = q.child
            /\ events'[t] = {created_event}
            /\ row'[t].status = "accepted"
      /\ \A u \in Sessions \ {s} : req'[u] = req[u]
      /\ \/ req'[s] = NULL
         \/ q.sidecar /\ req'[s] = [q EXCEPT !.phase = "committed"]
  BY CommitEffect DEF LogInv
<1>2. /\ q \in Request /\ q # NULL /\ RequestOK(q)
      /\ q.phase # "committed" /\ q.event.sequence # 0
      /\ row_free(s) /\ ~sequence_taken(q)
  BY DEF Commit, LogInv, LineageInv, TypeOK, Formed
<1>3. /\ q.event.sequence \in Nat /\ q.event \in TaskEvent
      /\ \A u \in Sessions : req[u] # NULL => req[u].event.sequence \in Nat
      /\ \A t \in TaskIds : \A e \in events[t] : e.sequence \in Nat
  BY <1>2, NumberTypes DEF LogInv, LineageInv
<1>4. req'[s] # NULL => /\ q.sidecar /\ req'[s].sidecar
                        /\ req'[s].phase = "committed"
                        /\ req'[s].task = q.task /\ req'[s].update = q.update
                        /\ req'[s].event = q.event
  BY <1>1, <1>2 DEF Request
\* The tasks of requests in progress exist, so their logs only grow.
<1>5. \A u \in Sessions : (req[u] # NULL /\ req[u].task # NULL) =>
          req[u].task \in TaskIds /\ exists(req[u].task)
  BY DEF LogInv, LineageInv, TypeOK, Formed, RequestOK, Request
<1>6. \A t \in TaskIds : exists(t) => events[t] \subseteq events'[t]
  <2> SUFFICES ASSUME NEW t \in TaskIds, exists(t) PROVE events[t] \subseteq events'[t]
    OBVIOUS
  <2>1. t # NULL
    BY NullAssumption
  <2>2. CASE t = q.task
    BY <1>1, <2>1, <2>2
  <2>3. CASE t # q.task
    BY <1>1, <2>3
  <2> QED  BY <2>2, <2>3
<1>7. Formed'
  <2>1. \A u \in Sessions \ {s} : req'[u] # NULL => RequestOK(req[u])'
    <3> SUFFICES ASSUME NEW u \in Sessions \ {s}, req'[u] # NULL
                 PROVE  RequestOK(req[u])'
      OBVIOUS
    <3>1. req'[u] = req[u] /\ RequestOK(req[u])
      BY <1>1 DEF LogInv, Formed
    <3>2. req[u].task # NULL => exists(req[u].task)'
      BY <1>1, <1>5, <3>1 DEF exists
    <3> QED  BY <3>1, <3>2 DEF RequestOK, Announces, exists
  <2>2. req'[s] # NULL => RequestOK(req[s])'
    <3>1. q.sidecar => exists(q.task) /\ q.task \in TaskIds
      BY <1>2, <1>5 DEF RequestOK
    <3>2. q.sidecar => tasks'[q.task] # NULL
      BY <1>1, <3>1 DEF exists
    <3> QED  BY <1>2, <1>4, <3>2 DEF RequestOK, Announces, exists
  <2> QED  BY <2>1, <2>2 DEF Formed
<1>8. \A u \in Sessions, t \in TaskIds :
          /\ Flushed(u, t)' => u # s /\ req'[u] = req[u] /\ Flushed(u, t) /\ exists(t)
          /\ Posting(u, t)' => u # s /\ req'[u] = req[u] /\ Posting(u, t) /\ exists(t)
  <2> SUFFICES ASSUME NEW u \in Sessions, NEW t \in TaskIds
               PROVE  /\ Flushed(u, t)' => u # s /\ req'[u] = req[u]
                                             /\ Flushed(u, t) /\ exists(t)
                      /\ Posting(u, t)' => u # s /\ req'[u] = req[u]
                                             /\ Posting(u, t) /\ exists(t)
    OBVIOUS
  <2>1. CASE u = s
    BY <1>4, <2>1 DEF Flushed, Posting
  <2>2. CASE u # s
    <3>1. req'[u] = req[u]
      BY <1>1, <2>2
    <3>2. t # NULL
      BY NullAssumption
    <3>3. (req[u] # NULL /\ req[u].task = t) => exists(t)
      BY <1>5, <3>2
    <3> QED  BY <2>2, <3>1, <3>3 DEF Flushed, Posting
  <2> QED  BY <2>1, <2>2
<1>9. \A t \in TaskIds, n \in Int : (exists(t) /\ number_taken(t, n)) => number_taken(t, n)'
  BY <1>6 DEF number_taken
<1>10. NumbersFollow'
  <2> SUFFICES ASSUME NEW u \in Sessions, NEW t \in TaskIds, Flushed(u, t)'
               PROVE  /\ req'[u].event.sequence > 0
                      /\ req'[u].event.sequence = 1
                            \/ number_taken(t, req[u].event.sequence - 1)'
    BY DEF NumbersFollow
  <2>1. req'[u] = req[u] /\ Flushed(u, t) /\ exists(t)
    BY <1>8
  <2>2. /\ req[u].event.sequence > 0
        /\ req[u].event.sequence = 1 \/ number_taken(t, req[u].event.sequence - 1)
    BY <2>1 DEF LogInv, NumberInv, NumbersFollow
  <2> QED  BY <1>6, <2>1, <2>2 DEF number_taken
<1>11. StatusAhead'
  <2> SUFFICES ASSUME NEW u \in Sessions, NEW t \in TaskIds, Flushed(u, t)',
                      req'[u].event.status # NULL, NEW e \in events'[t],
                      e.status # NULL
               PROVE  e.sequence < req'[u].event.sequence
    BY DEF StatusAhead
  <2>1. u # s /\ req'[u] = req[u] /\ Flushed(u, t) /\ exists(t)
    BY <1>8
  <2>2. CASE e \in events[t]
    BY <2>1, <2>2 DEF LogInv, NumberInv, StatusAhead
  <2>3. CASE e \notin events[t]
    <3>0. q.task = t
      BY <1>1, <2>1, <2>3
    <3>a. t # NULL
      BY NullAssumption
    <3>b. events'[t] = events[t] \cup {q.event}
      BY <1>1, <3>0, <3>a
    <3>1. q.task = t /\ e = q.event
      BY <2>3, <3>0, <3>b
    <3>2. q.update.status # Keep
      BY <1>2, <2>1, <3>1, NullAssumption DEF RequestOK, Announces, Flushed
    <3>3. q.update # Unchanged
      BY <3>2 DEF Unchanged
    <3>4. ~locked(s, t)
      BY <1>2, <3>1, <3>3 DEF row_free
    <3>5. Announces(req[u])
      BY <2>1, NullAssumption DEF LogInv, Formed, RequestOK, Flushed
    <3>c. req[u].event.status # NULL
      BY <2>1
    <3>d. req[u].update.status # Keep
      BY <3>5, <3>c, NullAssumption DEF Announces
    <3>6. req[u].update # Unchanged
      BY <3>d DEF Unchanged
    <3> QED  BY <2>1, <3>4, <3>6 DEF locked, Flushed
  <2> QED  BY <2>2, <2>3
\* The event committed with a posted one in progress was numbered by Flush.
<1>12. \A u \in Sessions, t \in TaskIds : (u # s /\ Posting(u, t) /\ q.task = t) =>
          \/ q.event.sequence <= req[u].event.sequence
          \/ number_taken(t, req[u].event.sequence)
  <2> SUFFICES ASSUME NEW u \in Sessions, NEW t \in TaskIds, u # s, Posting(u, t),
                      q.task = t
               PROVE  \/ q.event.sequence <= req[u].event.sequence
                      \/ number_taken(t, req[u].event.sequence)
    OBVIOUS
  <2>1. ~q.sidecar
    BY <1>2 DEF LogInv, NumberInv, PostsSerial, Posting
  <2>2. q.phase = "flushed"
    BY <1>2, <2>1, NullAssumption DEF RequestOK, Request
  <2> QED  BY <1>2, <2>2 DEF LogInv, NumberInv, NotOvertaken, Flushed
<1>13. PostAhead'
  <2> SUFFICES ASSUME NEW u \in Sessions, NEW t \in TaskIds, Posting(u, t)'
               PROVE  \/ \A e \in events'[t] : e.sequence < req'[u].event.sequence
                      \/ \E e \in events'[t] : e.sequence = req'[u].event.sequence
    BY DEF PostAhead, number_taken
  <2>1. u # s /\ req'[u] = req[u] /\ Posting(u, t) /\ exists(t)
    BY <1>8
  <2>2. \/ \A e \in events[t] : e.sequence < req[u].event.sequence
        \/ \E e \in events[t] : e.sequence = req[u].event.sequence
    BY <2>1 DEF LogInv, NumberInv, PostAhead, number_taken
  <2>3. CASE q.task = t
    <3>1. events'[t] = events[t] \cup {q.event}
      BY <1>1, <2>3, NullAssumption
    <3>2. \/ q.event.sequence <= req[u].event.sequence
          \/ \E e \in events[t] : e.sequence = req[u].event.sequence
      BY <1>12, <2>1, <2>3 DEF number_taken
    <3>3. req[u].event.sequence \in Nat
      BY <1>3, <2>1 DEF Posting
    <3> QED  BY <1>3, <2>1, <2>2, <3>1, <3>2, <3>3
  <2>4. CASE q.task # t
    BY <1>1, <2>1, <2>2, <2>4
  <2> QED  BY <2>3, <2>4
<1>14. NotOvertaken'
  <2> SUFFICES ASSUME NEW r \in Sessions, NEW u \in Sessions, NEW t \in TaskIds,
                      Posting(u, t)', Flushed(r, t)'
               PROVE  \/ req'[r].event.sequence <= req'[u].event.sequence
                      \/ \E e \in events'[t] : e.sequence = req'[u].event.sequence
    BY DEF NotOvertaken, number_taken
  <2>1. /\ req'[u] = req[u] /\ Posting(u, t) /\ exists(t)
        /\ req'[r] = req[r] /\ Flushed(r, t)
    BY <1>8
  <2>2. \/ req[r].event.sequence <= req[u].event.sequence
        \/ \E e \in events[t] : e.sequence = req[u].event.sequence
    BY <2>1 DEF LogInv, NumberInv, NotOvertaken, number_taken
  <2> QED  BY <1>6, <2>1, <2>2
<1>15. PostsSerial'
  BY <1>1, <1>2, <1>4 DEF LogInv, NumberInv, PostsSerial
<1>16. LogTellsStatus'
  <2> SUFFICES ASSUME NEW t \in TaskIds, exists(t)'
               PROVE  \E e \in events'[t] :
                        /\ e.status = row'[t].status
                        /\ \A f \in events'[t] :
                              f.status # NULL => f.sequence <= e.sequence
    BY DEF LogTellsStatus
  <2>1. CASE ~exists(t)
    <3>1. events'[t] = {created_event} /\ row'[t].status = "accepted"
      BY <1>1, <2>1
    <3> QED  BY <3>1 DEF created_event, Event
  <2>2. CASE exists(t) /\ t # q.task
    <3>1. events'[t] = events[t] /\ row'[t] = row[t]
      BY <1>1, <2>2
    <3>2. \E e \in events[t] :
             /\ e.status = row[t].status
             /\ \A f \in events[t] : f.status # NULL => f.sequence <= e.sequence
      BY <2>2 DEF LogInv, LogTellsStatus
    <3> QED  BY <3>1, <3>2
  <2>3. CASE exists(t) /\ t = q.task /\ q.event.status = NULL
    <3>1. q.update.status = Keep
      BY <1>2, <2>3, NullAssumption DEF RequestOK, Announces
    <3>2. /\ row'[t].status = row[t].status
          /\ events'[t] = events[t] \cup {q.event}
      BY <1>1, <2>3, <3>1, NullAssumption DEF Written
    <3> QED  BY <2>3, <3>2 DEF LogInv, LogTellsStatus
  <2>4. CASE exists(t) /\ t = q.task /\ q.event.status # NULL
    <3>1. q.update.status # Keep /\ q.event.status = q.update.status
      BY <1>2, <2>4, NullAssumption DEF RequestOK, Announces
    <3>2. /\ row'[t].status = q.event.status
          /\ events'[t] = events[t] \cup {q.event}
      BY <1>1, <2>4, <3>1, NullAssumption DEF Written
    <3>3. \A f \in events[t] : f.status # NULL => f.sequence <= q.event.sequence
      <4>1. CASE q.sidecar
        <5>1. Posting(s, t)
          BY <1>2, <2>4, <4>1 DEF Posting, RequestOK, Request
        <5>2. ~number_taken(t, q.event.sequence)
          BY <1>2, <2>4, NullAssumption DEF sequence_taken, number_taken
        <5>3. \A e \in events[t] : e.sequence < q.event.sequence
          BY <5>1, <5>2 DEF LogInv, NumberInv, PostAhead
        <5> QED  BY <1>3, <5>3
      <4>2. CASE ~q.sidecar
        <5>1. Flushed(s, t)
          BY <1>2, <2>4, <4>2, NullAssumption DEF Flushed, RequestOK, Request
        <5>2. \A e \in events[t] : e.status # NULL => e.sequence < q.event.sequence
          BY <2>4, <5>1 DEF LogInv, NumberInv, StatusAhead
        <5> QED  BY <1>3, <5>2
      <4> QED  BY <4>1, <4>2
    <3> QED  BY <1>3, <3>2, <3>3
  <2> QED  BY <2>1, <2>2, <2>3, <2>4
<1> QED  BY <1>7, <1>10, <1>11, <1>13, <1>14, <1>15, <1>16 DEF NumberInv

\* A step that leaves the tables alone and only drops requests.
LEMMA QuietLog ==
    ASSUME LogInv, tasks' = tasks, row' = row, events' = events,
           \A u \in Sessions : req'[u] = NULL \/ req'[u] = req[u]
    PROVE  Formed' /\ NumberInv' /\ LogTellsStatus'
<1>1. Formed'
  BY DEF LogInv, Formed, RequestOK, Announces, exists
<1>2. NumbersFollow' /\ StatusAhead' /\ PostAhead'
  BY DEF LogInv, NumberInv, NumbersFollow, StatusAhead, PostAhead, Flushed, Posting,
         number_taken
<1>3. NotOvertaken' /\ PostsSerial'
  BY DEF LogInv, NumberInv, NotOvertaken, PostsSerial, Flushed, Posting, number_taken
<1>4. LogTellsStatus'
  BY DEF LogInv, LogTellsStatus, exists
<1> QED  BY <1>1, <1>2, <1>3, <1>4 DEF NumberInv

LEMMA LogStep ==
    ASSUME ExecutorPostsSerially
    PROVE  LogInv /\ [Next]_vars => LogInv'
<1> SUFFICES ASSUME LogInv, [Next]_vars
             PROVE  Formed' /\ NumberInv' /\ LogTellsStatus'
  BY LineageStep DEF LogInv
<1> DEFINE Goal == Formed' /\ NumberInv' /\ LogTellsStatus'
<1>0. TypeOK
  BY DEF LogInv, LineageInv
<1>1. ASSUME NEW s \in Sessions, NEW q, Begin(s, q), Admitted(q) PROVE Goal
  BY <1>1, BeginLog
<1>2. ASSUME NEW s \in Sessions, Flush(s) PROVE Goal
  BY <1>2, FlushLog
<1>3. ASSUME NEW s \in Sessions, Commit(s) PROVE Goal
  BY <1>3, CommitLog
<1>4. ASSUME NEW s \in Sessions, IntegrityError(s) \/ ScheduleCallback(s) PROVE Goal
  <2>1. /\ tasks' = tasks /\ row' = row /\ events' = events
        /\ req' = [req EXCEPT ![s] = NULL]
    BY <1>4 DEF IntegrityError, ScheduleCallback
  <2>2. \A u \in Sessions : req'[u] = NULL \/ req'[u] = req[u]
    BY <1>0, <2>1 DEF TypeOK
  <2> QED  BY <2>1, <2>2, QuietLog
<1>5. CASE Crash
  BY <1>5, QuietLog DEF Crash
<1>6. CASE Tick \/ UNCHANGED vars
  BY <1>6, QuietLog DEF Tick, vars
<1> QED  BY <1>0, <1>1, <1>2, <1>3, <1>4, <1>5, <1>6, UpdateLog, Steps DEF Proceed

LEMMA LogInit == Init => LogInv
<1> SUFFICES ASSUME Init PROVE LogInv
  OBVIOUS
<1>1. \A s \in Sessions : req[s] = NULL
  BY DEF Init
<1>2. \A t \in TaskIds : ~exists(t)
  BY DEF Init, exists
<1> QED  BY <1>1, <1>2, LineageInit
         DEF LogInv, Formed, NumberInv, NumbersFollow, StatusAhead, PostAhead,
             NotOvertaken, PostsSerial, Flushed, Posting, LogTellsStatus

\* Whatever requests interleave, the status event with the highest number tells
\* a task's status, provided its executor posts one event at a time.
THEOREM LogIsTruthful ==
    ASSUME ExecutorPostsSerially
    PROVE  Spec => []LogTellsStatus
<1>1. LogInv /\ [Next]_vars => LogInv'
  BY LogStep
<1>2. LogInv => LogTellsStatus
  BY DEF LogInv
<1> QED  BY <1>1, <1>2, LogInit, PTL DEF Spec

-----------------------------------------------------------------------------
(* The times.  started_at and completed_at are set and never unset, so     *)
(* what a request has seen of them still holds when it commits.            *)

RAN == {"running", "paused", "redirected", "completed"}

\* Who makes a task one that has run sets started_at, or somebody has.
RequestsTimed ==
    \A s \in Sessions :
        (req[s] # NULL /\ req[s].task # NULL /\ req[s].update.status \in RAN) =>
            req[s].update.started_at = TRUE \/ row[req[s].task].started_at = TRUE

TimesInv == MeansInv /\ TimesSet /\ RequestsTimed

\* A task gets there from a status of a running task only.
LEMMA RanBefore ==
    ASSUME NEW a \in TaskStatus, NEW b \in RAN \ {"running"}, validate_transition(a, b)
    PROVE  a \in {"running", "paused"}
BY DEF RAN, TaskStatus, validate_transition, VALID_TRANSITIONS

LEMMA BeginTimes ==
    ASSUME TimesInv, NEW s \in Sessions, NEW q, Begin(s, q), Admitted(q), Described(q)
    PROVE  RequestsTimed'
<1>1. req' = [req EXCEPT ![s] = q] /\ row' = row
  BY DEF Begin
<1>2. TypeOK
  BY DEF TimesInv, MeansInv, StoreInv, LineageInv
<1> SUFFICES ASSUME NEW r \in Sessions, req'[r] # NULL, req'[r].task # NULL,
                    req'[r].update.status \in RAN
             PROVE  req'[r].update.started_at = TRUE \/ row[req'[r].task].started_at = TRUE
  BY <1>1 DEF RequestsTimed
<1>3. CASE r = s
  <2>1. req'[r] = q
    BY <1>1, <1>2, <1>3 DEF TypeOK
  <2>2. /\ q \in Request /\ q.task \in TaskIds
        /\ validate_transition(row[q.task].status, q.update.status)
    <3>1. q.update.status # Keep
      BY <2>1, NullAssumption DEF RAN, TaskStatus
    <3> QED  BY <2>1, <3>1 DEF Admitted, Valid, Request
  <2>3. row[q.task] \in Row /\ row[q.task].status \in TaskStatus
        /\ row[q.task].started_at \in BOOLEAN
    BY <1>2, <2>2 DEF TypeOK, Row
  <2>4. row[q.task].status \in {"running", "paused"} => row[q.task].started_at = TRUE
    BY <2>2, <2>3 DEF TimesInv, TimesSet
  <2>5. CASE q.update.status = "running"
    <3>1. \/ q.update.started_at = TRUE
          \/ row[q.task].started_at
          \/ row[q.task].status = "paused"
      BY <2>5 DEF Described, Starts
    <3> QED  BY <2>1, <2>3, <2>4, <3>1
  <2>6. CASE q.update.status # "running"
    BY <2>1, <2>2, <2>3, <2>4, <2>6, RanBefore
  <2> QED  BY <2>5, <2>6
<1>4. CASE r # s
  <2>1. req'[r] = req[r]
    BY <1>1, <1>2, <1>4 DEF TypeOK
  <2> QED  BY <2>1 DEF TimesInv, RequestsTimed
<1> QED  BY <1>3, <1>4

LEMMA CommitTimes ==
    ASSUME TimesInv, NEW s \in Sessions, Commit(s)
    PROVE  /\ TimesSet'
           /\ \A t \in TaskIds : (exists(t) /\ row[t].started_at = TRUE) =>
                                     row'[t].started_at = TRUE
<1> DEFINE q == req[s]
<1>1. /\ q \in Request /\ q # NULL /\ Means(q)
      /\ q.task # NULL => /\ q.task \in TaskIds /\ q.task # q.child
                          /\ row'[q.task] = Apply(row[q.task], q.update)
      /\ q.child # NULL => row'[q.child] = Accepted(q.metadata) /\ ~exists(q.child)
      /\ \A t \in TaskIds : (t # q.task /\ t # q.child) => row'[t] = row[t]
  BY CommitCases DEF TimesInv
<1>2. /\ q.update.completed_at \in {TRUE, Keep} /\ q.update.started_at \in {TRUE, Keep}
      /\ is_terminal(q.update.status) => q.update.completed_at = TRUE
  BY <1>1 DEF Means, SetsTimes
<1>3. Keep \notin BOOLEAN
  BY NullAssumption
<1>4. ASSUME NEW t \in TaskIds, t = q.task
      PROVE  /\ is_terminal(row'[t].status) => row'[t].completed_at
             /\ row'[t].status \in RAN => row'[t].started_at
             /\ row[t].started_at = TRUE => row'[t].started_at = TRUE
  <2>0. q.task # NULL
    BY <1>4, NullAssumption
  <2>1. row'[t] = Apply(row[t], q.update)
    BY <1>1, <1>4, <2>0
  <2>2. /\ row'[t].status = Written(row[t].status, q.update.status)
        /\ row'[t].completed_at = Written(row[t].completed_at, q.update.completed_at)
        /\ row'[t].started_at = Written(row[t].started_at, q.update.started_at)
    BY <2>1 DEF Apply
  <2>3. /\ is_terminal(row[t].status) => row[t].completed_at
        /\ row[t].status \in RAN => row[t].started_at
    BY DEF TimesInv, TimesSet, RAN
  <2>4. q.update.status \in RAN =>
          q.update.started_at = TRUE \/ row[t].started_at = TRUE
    BY <1>1, <1>4, <2>0 DEF TimesInv, RequestsTimed
  <2>5. row[t].started_at = TRUE => row'[t].started_at = TRUE
    BY <1>2, <1>3, <2>2 DEF Written
  <2>6. is_terminal(row'[t].status) => row'[t].completed_at
    BY <1>2, <1>3, <2>2, <2>3 DEF Written
  <2>7. row'[t].status \in RAN => row'[t].started_at
    BY <1>2, <1>3, <2>2, <2>3, <2>4 DEF Written
  <2> QED  BY <2>5, <2>6, <2>7
<1>5. ASSUME NEW t \in TaskIds
      PROVE  /\ is_terminal(row'[t].status) => row'[t].completed_at
             /\ row'[t].status \in RAN => row'[t].started_at
  <2>1. CASE t = q.task
    BY <1>4, <2>1
  <2>2. CASE t = q.child
    <3>0. row'[t] = Accepted(q.metadata)
      BY <1>1, <2>2, NullAssumption
    <3>1. row'[t].status = "accepted"
      BY <3>0 DEF Accepted
    <3> QED  BY <3>1 DEF is_terminal, TERMINAL_STATES, RAN
  <2>3. CASE t # q.task /\ t # q.child
    BY <1>1, <2>3 DEF TimesInv, TimesSet, RAN
  <2> QED  BY <2>1, <2>2, <2>3
<1>6. ASSUME NEW t \in TaskIds, exists(t), row[t].started_at = TRUE
      PROVE  row'[t].started_at = TRUE
  <2>1. t # q.child
    BY <1>1, <1>6, NullAssumption
  <2> QED  BY <1>1, <1>4, <1>6, <2>1
<1> QED  BY <1>5, <1>6 DEF TimesSet, RAN

LEMMA TimesStep == TimesInv /\ [Next]_vars => TimesInv'
<1> SUFFICES ASSUME TimesInv, [Next]_vars PROVE TimesSet' /\ RequestsTimed'
  BY MeansStep DEF TimesInv
<1>0. TypeOK
  BY DEF TimesInv, MeansInv, StoreInv, LineageInv
<1>1. /\ TimesSet'
      /\ \A t \in TaskIds : (exists(t) /\ row[t].started_at = TRUE) =>
                                row'[t].started_at = TRUE
  <2>1. CASE UNCHANGED <<tasks, row, events, context_seq>>
    BY <2>1 DEF TimesInv, TimesSet
  <2> QED  BY <1>0, <2>1, OnlyCommits, CommitTimes
<1>2. ASSUME NEW r \in Sessions, req[r] # NULL, SameRequest(req'[r], req[r]),
             req'[r].task # NULL, req'[r].update.status \in RAN
      PROVE  req'[r].update.started_at = TRUE \/ row'[req'[r].task].started_at = TRUE
  <2>1. /\ req'[r].task = req[r].task /\ req'[r].update = req[r].update
        /\ req[r].task \in TaskIds /\ exists(req[r].task)
    BY <1>0, <1>2 DEF SameRequest, TimesInv, MeansInv, RequestsMean, TypeOK, Request
  <2> QED  BY <1>1, <1>2, <2>1 DEF TimesInv, RequestsTimed
<1>3. ASSUME NEW s \in Sessions, NEW q, Begin(s, q), Admitted(q), Described(q)
      PROVE  RequestsTimed'
  BY <1>3, BeginTimes
<1>4. ASSUME \/ \E s \in Sessions : Proceed(s)
             \/ Crash
             \/ Tick
             \/ UNCHANGED vars
      PROVE  RequestsTimed'
  BY <1>2, <1>4, RequestsGoOn DEF TimesInv, RequestsTimed
<1> QED  BY <1>0, <1>1, <1>3, <1>4, DescribedSteps

LEMMA TimesInit == Init => TimesInv
BY MeansInit DEF Init, TimesInv, TimesSet, RequestsTimed, Accepted, is_terminal,
                 TERMINAL_STATES

\* Whichever handlers race, a task that is over has completed_at, and one that
\* has run has started_at.
THEOREM TimesAreSet == Spec => []TimesSet
<1>1. Init => TimesInv
  BY TimesInit
<1>2. TimesInv => TimesSet
  BY DEF TimesInv
<1> QED  BY <1>1, <1>2, TimesStep, PTL DEF Spec

-----------------------------------------------------------------------------
(* The results.  Outcomes are posted, so the last one committed has the    *)
(* highest number of all.                                                  *)

outcome_events(t) == {e \in events[t] : e.event_type \in {"completed", "failed"}}

ResultTold(t) ==
    IF outcome_events(t) = {} THEN row[t].result = NULL
    ELSE \E e \in outcome_events(t) :
            /\ \A f \in outcome_events(t) : f.sequence <= e.sequence
            /\ row[t].result = e.result

\* A posted outcome without a result whose UPDATE leaves the column alone, because
\* the loaded row had none, still finds none: only executors write results, and
\* a task's posts one event at a time.
BlankKept(q) == (q.sidecar /\ q.phase # "committed") => KeepsBlank(q)

ResultInv == /\ LogInv /\ MeansInv /\ LogTellsResult
             /\ \A s \in Sessions : req[s] # NULL => BlankKept(req[s])

LEMMA ResultsTold == LogTellsResult <=> \A t \in TaskIds : ResultTold(t)
BY DEF LogTellsResult, ResultTold, outcome_events

LEMMA CommitResult ==
    ASSUME ResultInv, NEW s \in Sessions, Commit(s), NEW t \in TaskIds
    PROVE  ResultTold(t)'
<1> DEFINE q == req[s]
<1>0. ResultTold(t) /\ t # NULL
  BY ResultsTold, NullAssumption DEF ResultInv
<1>1. /\ q \in Request /\ q # NULL /\ Means(q) /\ q.phase # "committed"
      /\ q.task # NULL => /\ q.task # q.child
                          /\ row'[q.task] = Apply(row[q.task], q.update)
                          /\ events'[q.task] = events[q.task] \cup {q.event}
      /\ q.child # NULL => /\ row'[q.child] = Accepted(q.metadata)
                           /\ events'[q.child] = {created_event}
      /\ (t # q.task /\ t # q.child) => row'[t] = row[t] /\ events'[t] = events[t]
  BY CommitCases DEF ResultInv
<1>2. CASE t = q.child
  <2>1. row'[t] = Accepted(q.metadata) /\ events'[t] = {created_event}
    BY <1>0, <1>1, <1>2
  <2>2. row'[t].result = NULL
    BY <2>1 DEF Accepted
  <2>3. created_event.event_type = "created"
    BY DEF created_event, Event
  <2> QED  BY <2>1, <2>2, <2>3 DEF ResultTold, outcome_events
<1>3. CASE t = q.task /\ q.event.event_type \notin {"completed", "failed"}
  <2>1. row'[t] = Apply(row[t], q.update) /\ events'[t] = events[t] \cup {q.event}
    BY <1>0, <1>1, <1>3
  <2>2. q.update.result = Keep
    BY <1>1, <1>3 DEF Means, TellsOutcome, Assigns
  <2>3. row'[t].result = row[t].result
    BY <2>1, <2>2 DEF Apply, Written
  <2>4. outcome_events(t)' = outcome_events(t)
    BY <1>3, <2>1 DEF outcome_events
  <2> QED  BY <1>0, <2>3, <2>4 DEF ResultTold
<1>4. CASE t = q.task /\ q.event.event_type \in {"completed", "failed"}
  <2>1. row'[t] = Apply(row[t], q.update) /\ events'[t] = events[t] \cup {q.event}
    BY <1>0, <1>1, <1>4
  <2>2. /\ q.sidecar /\ KeepsBlank(q)
        /\ q.update.result = q.event.result \/ q.update.result = Keep
    BY <1>1, <1>4 DEF Means, TellsOutcome, Assigns, ResultInv, BlankKept
  <2>3. row'[t].result = q.event.result
    <3>1. row'[t].result = Written(row[t].result, q.update.result)
      BY <2>1 DEF Apply
    <3>2. q.update.result = Keep => row[t].result = NULL /\ q.event.result = NULL
      BY <1>4, <2>2 DEF KeepsBlank
    <3> QED  BY <2>2, <3>1, <3>2 DEF Written
  <2>4. RequestOK(q) /\ q.event.sequence # 0 /\ ~sequence_taken(q)
    BY <1>1 DEF Commit, ResultInv, LogInv, Formed
  <2>5. Posting(s, t)
    BY <1>1, <1>4, <2>2, <2>4 DEF Posting, RequestOK, Request
  <2>6. \A e \in events[t] : e.sequence < q.event.sequence
    <3>1. ~number_taken(t, q.event.sequence)
      BY <1>0, <1>4, <2>4 DEF sequence_taken, number_taken
    <3> QED  BY <2>5, <3>1 DEF ResultInv, LogInv, NumberInv, PostAhead
  <2>7. /\ q.event.sequence \in Nat
        /\ \A e \in events[t] : e.sequence \in Nat
    BY <1>1, NumberTypes DEF ResultInv, LogInv, LineageInv
  <2>8. q.event \in outcome_events(t)' /\ outcome_events(t)' \subseteq events[t] \cup {q.event}
    BY <1>4, <2>1 DEF outcome_events
  <2>9. \A f \in outcome_events(t)' : f.sequence <= q.event.sequence
    BY <2>6, <2>7, <2>8
  <2> QED  BY <2>3, <2>8, <2>9 DEF ResultTold
<1>5. CASE t # q.task /\ t # q.child
  BY <1>0, <1>1, <1>5 DEF ResultTold, outcome_events
<1> QED  BY <1>2, <1>3, <1>4, <1>5

\* Only executors write results.
LEMMA CommitBlank ==
    ASSUME MeansInv, NEW s \in Sessions, Commit(s), ~req[s].sidecar,
           NEW t \in TaskIds, exists(t)
    PROVE  row'[t].result = row[t].result
<1> DEFINE q == req[s]
<1>1. /\ Means(q)
      /\ q.task # NULL => row'[q.task] = Apply(row[q.task], q.update)
      /\ q.child # NULL => ~exists(q.child)
      /\ (t # q.task /\ t # q.child) => row'[t] = row[t]
  BY CommitCases
<1>2. q.update.result = Keep
  BY <1>1 DEF Means, OfItsKind, TellsOutcome, Assigns
<1>3. t # NULL /\ t # q.child
  BY <1>1, NullAssumption
<1> QED  BY <1>1, <1>2, <1>3 DEF Apply, Written

LEMMA BlanksStep ==
    ASSUME ExecutorPostsSerially, ResultInv, [Next]_vars, NEW r \in Sessions,
           req'[r] # NULL
    PROVE  BlankKept(req[r])'
<1>0. /\ MeansInv /\ TypeOK /\ req \in [Sessions -> Request \cup {NULL}] /\ PostsSerial
  BY DEF ResultInv, LogInv, NumberInv, MeansInv, StoreInv, LineageInv, TypeOK
<1>1. ASSUME row' = row, BlankKept(req'[r]) PROVE BlankKept(req[r])'
  BY <1>1 DEF BlankKept, KeepsBlank
<1>2. ASSUME NEW s \in Sessions, NEW q, Begin(s, q), Described(q)
      PROVE  BlankKept(req[r])'
  <2>1. req' = [req EXCEPT ![s] = q] /\ row' = row
    BY <1>2 DEF Begin
  <2>2. CASE r = s
    <3>1. req'[r] = q /\ KeepsBlank(q)
      BY <1>0, <1>2, <2>1, <2>2 DEF Described
    <3> QED  BY <1>1, <2>1, <3>1 DEF BlankKept
  <2>3. CASE r # s
    <3>1. req'[r] = req[r]
      BY <1>0, <2>1, <2>3
    <3> QED  BY <1>1, <2>1, <3>1 DEF ResultInv
  <2> QED  BY <2>2, <2>3
<1>3. ASSUME NEW s \in Sessions, Commit(s) PROVE BlankKept(req[r])'
  <2> DEFINE q == req[s]
             p == req[r]
  <2>1. /\ q \in Request /\ q # NULL
        /\ q.child # NULL => ~exists(q.child)
        /\ \A t \in TaskIds : (t # q.task /\ t # q.child) => row'[t] = row[t]
        /\ req' = [req EXCEPT ![s] = IF q.sidecar
                                     THEN [q EXCEPT !.phase = "committed"] ELSE NULL]
    <3>1. q # NULL /\ req' = [req EXCEPT ![s] = IF q.sidecar
                                     THEN [q EXCEPT !.phase = "committed"] ELSE NULL]
      BY <1>3 DEF Commit
    <3>2. q \in Request /\ MeansInv
      BY <1>0, <3>1
    <3>3. /\ q.child # NULL => ~exists(q.child)
          /\ \A t \in TaskIds : (t # q.task /\ t # q.child) => row'[t] = row[t]
      BY <1>3, <3>2, CommitCases
    <3> QED  BY <3>1, <3>2, <3>3
  <2>2. CASE r = s
    <3>1. req'[r].phase = "committed"
      BY <1>0, <2>1, <2>2 DEF Request
    <3> QED  BY <3>1 DEF BlankKept
  <2>3. CASE r # s
    <3>1. req'[r] = p /\ p # NULL /\ p \in Request /\ BlankKept(p)
      BY <1>0, <2>1, <2>3 DEF ResultInv
    <3> SUFFICES ASSUME p.sidecar, p.phase # "committed" PROVE BlankKept(req[r])'
      BY <3>1 DEF BlankKept
    <3>2. p.task # NULL /\ p.task \in TaskIds /\ exists(p.task)
      BY <1>0, <3>1 DEF MeansInv, RequestsMean, Means, OnlyInserts, Request
    <3>3. row'[p.task].result = row[p.task].result
      <4>1. CASE p.task = q.task
        <5>1. ~q.sidecar
          BY <1>0, <2>1, <2>3, <3>1, <4>1 DEF PostsSerial
        <5> QED  BY <1>0, <1>3, <3>2, <5>1, CommitBlank
      <4>2. CASE p.task # q.task
        BY <2>1, <3>2, <4>2
      <4> QED  BY <4>1, <4>2
    <3> QED  BY <3>1, <3>3 DEF BlankKept, KeepsBlank
  <2> QED  BY <2>2, <2>3
<1>4. ASSUME NEW s \in Sessions, FlushUpdate(s) \/ Flush(s) PROVE BlankKept(req[r])'
  <2>0. Formed
    BY DEF ResultInv, LogInv
  <2>1. /\ \A u \in Sessions \ {s} : req'[u] = req[u]
        /\ ~req'[s].sidecar
    BY <1>0, <1>4, <2>0, UpdateEffect, FlushEffect
  <2>2. row' = row
    BY <1>4 DEF FlushUpdate, Flush
  <2>3. BlankKept(req'[r])
    BY <2>1 DEF ResultInv, BlankKept
  <2> QED  BY <1>1, <2>2, <2>3
<1>5. ASSUME row' = row, req'[r] = req[r] PROVE BlankKept(req[r])'
  BY <1>1, <1>5 DEF ResultInv
<1>6. ASSUME NEW s \in Sessions, IntegrityError(s) \/ ScheduleCallback(s)
      PROVE  BlankKept(req[r])'
  <2>1. row' = row /\ req' = [req EXCEPT ![s] = NULL]
    BY <1>6 DEF IntegrityError, ScheduleCallback
  <2> QED  BY <1>0, <1>5, <2>1
<1>7. CASE Crash \/ Tick \/ UNCHANGED vars
  <2>1. row' = row /\ req'[r] = req[r]
    BY <1>7 DEF Crash, Tick, vars
  <2> QED  BY <1>5, <2>1
<1> QED  BY <1>0, <1>2, <1>3, <1>4, <1>6, <1>7, DescribedSteps DEF Proceed

LEMMA ResultInit == Init => ResultInv
<1>1. Init => LogTellsResult
  BY DEF Init, LogTellsResult, Accepted
<1>2. Init => \A s \in Sessions : req[s] = NULL
  BY DEF Init
<1> QED  BY <1>1, <1>2, LogInit, MeansInit DEF ResultInv

LEMMA ResultStep ==
    ASSUME ExecutorPostsSerially
    PROVE  ResultInv /\ [Next]_vars => ResultInv'
<1> SUFFICES ASSUME ResultInv, [Next]_vars PROVE ResultInv'
  OBVIOUS
<1>1. TypeOK
  BY DEF ResultInv, MeansInv, StoreInv, LineageInv
<1>2. ASSUME UNCHANGED <<tasks, row, events, context_seq>> PROVE LogTellsResult'
  BY <1>2 DEF ResultInv, LogTellsResult
<1>3. ASSUME NEW s \in Sessions, Commit(s) PROVE LogTellsResult'
  <2>1. \A t \in TaskIds : ResultTold(t)'
    BY <1>3, CommitResult
  <2> QED  BY <2>1 DEF LogTellsResult, ResultTold, outcome_events
<1>4. LogTellsResult'
  BY <1>1, <1>2, <1>3, OnlyCommits
<1>5. \A r \in Sessions : req'[r] # NULL => BlankKept(req[r])'
  BY BlanksStep
<1>6. LogInv' /\ MeansInv'
  BY LogStep, MeansStep DEF ResultInv
<1> QED  BY <1>4, <1>5, <1>6 DEF ResultInv

\* The last outcome in the log is the one whose result the row has, none if it came
\* without one, provided the executor posts one event at a time.
THEOREM LogHasTheResult ==
    ASSUME ExecutorPostsSerially
    PROVE  Spec => []LogTellsResult
<1>1. Init => ResultInv
  BY ResultInit
<1>2. ResultInv /\ [Next]_vars => ResultInv'
  BY ResultStep
<1>3. ResultInv => LogTellsResult
  BY DEF ResultInv
<1> QED  BY <1>1, <1>2, <1>3, PTL DEF Spec

-----------------------------------------------------------------------------
(* What GET shows of a task.                                               *)

DetailInv == ResultInv /\ TimesInv /\ SaysInv

LEMMA DetailTold == DetailInv => DetailTellsOutcome
<1> SUFFICES ASSUME DetailInv, NEW t \in TaskIds, exists(t)
             PROVE  LET shown == task_to_detail_response(t) IN
                    /\ \E e \in events[t] :
                          /\ \A f \in events[t] : f.status # NULL => f.sequence <= e.sequence
                          /\ shown.status = e.status
                          /\ e.event_type \in {"completed", "failed"} =>
                                shown.result = e.result
                    /\ shown.status = "completed" => shown.duration
  BY DEF DetailTellsOutcome
<1> DEFINE shown == task_to_detail_response(t)
<1>1. /\ shown.status = row[t].status
      /\ shown.result = IF row[t].status \in {"completed", "failed"}
                        THEN row[t].result ELSE NULL
      /\ shown.duration = (/\ row[t].status \in {"completed", "failed"}
                           /\ row[t].started_at /\ row[t].completed_at)
  BY DEF task_to_detail_response, _compute_duration
<1>2. row[t].status = "completed" => row[t].started_at /\ row[t].completed_at
  BY DEF DetailInv, TimesInv, TimesSet, is_terminal, TERMINAL_STATES
<1>3. PICK e \in events[t] :
        /\ e.status = row[t].status
        /\ \A f \in events[t] : f.status # NULL => f.sequence <= e.sequence
  BY DEF DetailInv, ResultInv, LogInv, LogTellsStatus
\* If it is an outcome, it is the last one, since outcomes carry a status.
<1>4. ASSUME e.event_type \in {"completed", "failed"}
      PROVE  shown.result = e.result
  <2>1. \A f \in outcome_events(t) : f \in events[t] /\ f.status = f.event_type
    BY DEF DetailInv, SaysInv, LogSays, outcome_events
  <2>2. \A f \in outcome_events(t) : f.status # NULL
    BY <2>1, NullAssumption DEF outcome_events, TaskStatus
  <2>3. e \in outcome_events(t) /\ row[t].status \in {"completed", "failed"}
    BY <1>3, <1>4, <2>1 DEF outcome_events
  <2>4. ResultTold(t)
    BY ResultsTold DEF DetailInv, ResultInv
  <2>5. PICK o \in outcome_events(t) :
          /\ \A f \in outcome_events(t) : f.sequence <= o.sequence
          /\ row[t].result = o.result
    BY <2>3, <2>4 DEF ResultTold
  <2>6. e.sequence <= o.sequence /\ o.sequence <= e.sequence
    BY <1>3, <2>1, <2>2, <2>3, <2>5
  <2>7. e.sequence \in Nat /\ o.sequence \in Nat /\ o \in events[t]
    BY <2>1, <2>5 DEF DetailInv, TimesInv, MeansInv, StoreInv, LineageInv, TypeOK,
                      TaskEvent
  <2>8. e = o
    BY <2>6, <2>7 DEF DetailInv, TimesInv, MeansInv, StoreInv, Numbered
  <2> QED  BY <1>1, <2>3, <2>5, <2>8
<1> QED  BY <1>1, <1>2, <1>3, <1>4

\* What GET answers about a task is what its log says last: the status, and, if that
\* is a recorded outcome, the result that came with it or none; a completed task
\* has a duration.  Whichever requests overlap, with any status the executors may
\* post, provided a task's executor posts one event at a time.
THEOREM DetailIsTrue ==
    ASSUME ExecutorPostsSerially
    PROVE  Spec => []DetailTellsOutcome
<1>1. Init => DetailInv
  BY ResultInit, TimesInit, SaysInit DEF DetailInv
<1>2. DetailInv /\ [Next]_vars => DetailInv'
  BY ResultStep, TimesStep, SaysStep DEF DetailInv
<1> QED  BY <1>1, <1>2, DetailTold, PTL DEF Spec

-----------------------------------------------------------------------------
(* Successors and the events that announce them are committed together.    *)

SUPERSEDED == {"retasked", "redirected"}

announced(t) == {e \in events[t] : e.status \in SUPERSEDED}

Balanced(t) ==
    /\ IsFiniteSet(children(t)) /\ IsFiniteSet(announced(t))
    /\ Cardinality(children(t)) = Cardinality(announced(t))

BalanceInv == MeansInv /\ \A t \in TaskIds : Balanced(t)

\* Nobody is the parent of a task before it is there itself.
LEMMA ChildlessUnborn ==
    ASSUME StoreInv, NEW t \in TaskIds, ~exists(t)
    PROVE  children(t) = {}
<1>1. t # NULL
  BY NullAssumption
<1> QED  BY <1>1 DEF StoreInv, LineageInv, LineageSound, continues, children

\* A commit gives the request's task the child it creates, and no other task one.
LEMMA CommitChildren ==
    ASSUME MeansInv, NEW s \in Sessions, Commit(s), NEW t \in TaskIds
    PROVE  children(t)' = IF req[s].child # NULL /\ t = req[s].task
                          THEN children(t) \cup {req[s].child} ELSE children(t)
<1> DEFINE q == req[s]
<1>0. t # NULL /\ NULL \notin TaskIds
  BY NullAssumption
<1>1. /\ q \in Request /\ q # NULL /\ Means(q)
      /\ q.task # NULL => tasks'[q.task] = tasks[q.task]
      /\ q.child # NULL => /\ q.child \in TaskIds /\ ~exists(q.child)
                           /\ tasks'[q.child] = q.insert /\ q.insert # NULL
      /\ \A u \in TaskIds : (u # q.task /\ u # q.child) => tasks'[u] = tasks[u]
  BY CommitCases
<1>2. q.child # NULL => q.insert.parent_task_id = q.task
  BY <1>1 DEF Means, Supersedes
<1>3. \A u \in TaskIds : u # q.child => tasks'[u] = tasks[u]
  <2> SUFFICES ASSUME NEW u \in TaskIds, u # q.child PROVE tasks'[u] = tasks[u]
    OBVIOUS
  <2>1. CASE u = q.task
    <3>1. q.task # NULL
      BY <1>0, <2>1
    <3> QED  BY <1>1, <2>1, <3>1
  <2>2. CASE u # q.task
    BY <1>1, <2>2
  <2> QED  BY <2>1, <2>2
<1>4. CASE q.child = NULL
  BY <1>0, <1>3, <1>4 DEF children, exists
<1>5. CASE q.child # NULL
  <2>1. \A c \in TaskIds : (exists(c)' /\ tasks'[c].parent_task_id = t)
          <=> \/ exists(c) /\ tasks[c].parent_task_id = t
              \/ c = q.child /\ t = q.task
    BY <1>1, <1>2, <1>3, <1>5 DEF exists
  <2> QED  BY <1>1, <1>5, <2>1 DEF children
<1> QED  BY <1>4, <1>5

LEMMA CommitBalance ==
    ASSUME ExecutorStatuses \cap SUPERSEDED = {},
           BalanceInv, NEW s \in Sessions, Commit(s), NEW t \in TaskIds
    PROVE  Balanced(t)'
<1> DEFINE q == req[s]
<1>0. Balanced(t) /\ t # NULL /\ NULL \notin TaskIds
  BY NullAssumption DEF BalanceInv
<1>m. MeansInv
  BY DEF BalanceInv
<1>1. /\ q \in Request /\ q # NULL /\ Means(q)
      /\ q.task # NULL => /\ q.task \in TaskIds /\ exists(q.task) /\ Announces(q)
                          /\ q.task # q.child
                          /\ tasks'[q.task] = tasks[q.task]
                          /\ events'[q.task] = events[q.task] \cup {q.event}
                          /\ q.event \notin events[q.task]
      /\ q.child # NULL => /\ q.child \in TaskIds /\ ~exists(q.child)
                           /\ tasks'[q.child] = q.insert /\ q.insert # NULL
                           /\ events'[q.child] = {created_event}
      /\ \A u \in TaskIds : (u # q.task /\ u # q.child) =>
            tasks'[u] = tasks[u] /\ events'[u] = events[u]
  BY <1>m, CommitCases
<1>2. q.child # NULL <=> \/ q.task = NULL
                         \/ ~q.sidecar /\ q.update.status \in SUPERSEDED
  BY <1>1 DEF Means, Supersedes, SUPERSEDED
<1>3. children(t)' = IF q.child # NULL /\ t = q.task
                     THEN children(t) \cup {q.child} ELSE children(t)
  BY CommitChildren DEF BalanceInv
\* It is announced exactly if there is one.
<1>4. q.task # NULL => (q.event.status \in SUPERSEDED <=> q.child # NULL)
  <2> SUFFICES ASSUME q.task # NULL
               PROVE  q.event.status \in SUPERSEDED <=> q.child # NULL
    OBVIOUS
  <2>1. q.event.status \in SUPERSEDED <=> q.update.status \in SUPERSEDED
    BY <1>1, NullAssumption DEF Announces, SUPERSEDED, TaskStatus
  <2>2. q.sidecar => q.update.status \notin SUPERSEDED
    <3>1. q.sidecar => q.event.event_type \notin SUPERSEDED
      BY <1>1, StoreAssumption DEF Means, TellsOutcome, SUPERSEDED, _VALID_EVENT_TYPES
    <3>2. Keep \notin SUPERSEDED
      BY NullAssumption DEF SUPERSEDED, TaskStatus
    <3> QED  BY <1>1, <3>1, <3>2 DEF Means, TellsOutcome
  <2> QED  BY <1>2, <2>1, <2>2
<1>5. CASE t = q.child
  <2>1. events'[t] = {created_event} /\ ~exists(t) /\ t # q.task
    BY <1>0, <1>1, <1>5
  <2>2. children(t)' = {}
    BY <1>3, <2>1, ChildlessUnborn DEF BalanceInv, MeansInv
  <2>3. created_event.status = "accepted"
    BY DEF created_event, Event
  <2>4. announced(t)' = {}
    BY <2>1, <2>3 DEF announced, SUPERSEDED
  <2> QED  BY <2>2, <2>4, FS_EmptySet DEF Balanced
<1>6. CASE t = q.task /\ q.child # NULL
  <2>1. events'[t] = events[t] \cup {q.event} /\ q.event \notin events[t]
    BY <1>0, <1>1, <1>6
  <2>2. announced(t)' = announced(t) \cup {q.event} /\ q.event \notin announced(t)
    BY <1>0, <1>4, <1>6, <2>1 DEF announced
  <2>3. children(t)' = children(t) \cup {q.child} /\ q.child \notin children(t)
    BY <1>1, <1>3, <1>6 DEF children
  <2>4. /\ IsFiniteSet(children(t)')
        /\ Cardinality(children(t)') = Cardinality(children(t)) + 1
    BY <1>0, <2>3, FS_AddElement DEF Balanced
  <2>5. /\ IsFiniteSet(announced(t)')
        /\ Cardinality(announced(t)') = Cardinality(announced(t)) + 1
    BY <1>0, <2>2, FS_AddElement DEF Balanced
  <2> QED  BY <1>0, <2>4, <2>5 DEF Balanced
<1>7. CASE t # q.child /\ ~(t = q.task /\ q.child # NULL)
  <2>1. children(t)' = children(t)
    BY <1>3, <1>7
  <2>2. announced(t)' = announced(t)
    <3>1. CASE t = q.task
      <4>1. events'[t] = events[t] \cup {q.event} /\ q.event.status \notin SUPERSEDED
        BY <1>0, <1>1, <1>4, <1>7, <3>1
      <4> QED  BY <4>1 DEF announced
    <3>2. CASE t # q.task
      BY <1>1, <1>7, <3>2 DEF announced
    <3> QED  BY <3>1, <3>2
  <2> QED  BY <1>0, <2>1, <2>2 DEF Balanced
<1> QED  BY <1>5, <1>6, <1>7

\* Whatever crashes, is rolled back or overlaps, a task has as many successors as
\* its log announces, unless its executor posts "retasked" or "redirected".
THEOREM SuccessorsAreAnnounced ==
    ASSUME ExecutorStatuses \cap SUPERSEDED = {}
    PROVE  Spec => []SuccessorsAnnounced
<1>1. Init => BalanceInv
  <2> SUFFICES ASSUME Init, NEW t \in TaskIds PROVE Balanced(t)
    BY MeansInit DEF BalanceInv
  <2>1. children(t) = {} /\ announced(t) = {}
    BY DEF Init, children, exists, announced
  <2> QED  BY <2>1, FS_EmptySet DEF Balanced
<1>2. BalanceInv /\ [Next]_vars => BalanceInv'
  <2> SUFFICES ASSUME BalanceInv, [Next]_vars PROVE \A t \in TaskIds : Balanced(t)'
    BY MeansStep DEF BalanceInv
  <2>1. TypeOK
    BY DEF BalanceInv, MeansInv, StoreInv, LineageInv
  <2>2. CASE UNCHANGED <<tasks, row, events, context_seq>>
    <3>1. \A t \in TaskIds : children(t)' = children(t) /\ announced(t)' = announced(t)
      BY <2>2 DEF children, exists, announced
    <3> QED  BY <3>1 DEF BalanceInv, Balanced
  <2> QED  BY <2>1, <2>2, OnlyCommits, CommitBalance
<1>3. BalanceInv => SuccessorsAnnounced
  BY DEF BalanceInv, Balanced, SuccessorsAnnounced, announced, SUPERSEDED
<1> QED  BY <1>1, <1>2, <1>3, PTL DEF Spec

-----------------------------------------------------------------------------
(* The links.                                                              *)

LinkInv == MeansInv /\ \A t \in TaskIds : context_seq[t] \in 0..MaxContext

LEMMA LinkStep == LinkInv /\ [Next]_vars => LinkInv'
<1> SUFFICES ASSUME LinkInv, [Next]_vars
             PROVE  \A t \in TaskIds : context_seq'[t] \in 0..MaxContext
  BY MeansStep DEF LinkInv
<1>1. TypeOK
  BY DEF LinkInv, MeansInv, StoreInv, LineageInv
<1>2. CASE UNCHANGED <<tasks, row, events, context_seq>>
  BY <1>2 DEF LinkInv
<1>3. ASSUME NEW s \in Sessions, Commit(s)
      PROVE  \A t \in TaskIds : context_seq'[t] \in 0..MaxContext
  <2> DEFINE q == req[s]
  <2>1. /\ q \in Request /\ q.event.context \in 0..MaxContext
        /\ q.task # NULL => q.task \in TaskIds
        /\ q.event.event_type = "context_injected" => q.task # NULL
    <3>1. q \in Request /\ Means(q) /\ (q.task # NULL => q.task \in TaskIds)
      BY <1>3, CommitCases DEF LinkInv
    <3>2. created_event.event_type = "created"
      BY DEF created_event, Event
    <3>3. q.task = NULL => q.event = created_event
      BY <3>1 DEF Means, OnlyInserts
    <3> QED  BY <3>1, <3>2, <3>3 DEF Means
  <2>2. CASE q.event.event_type = "context_injected"
    <3>1. PICK c \in latest_context(q) : context_seq' = [context_seq EXCEPT ![q.task] = c]
      BY <1>3, <2>2 DEF Commit
    <3>2. c \in 0..MaxContext
      BY <2>1, <2>2 DEF latest_context, LinkInv
    <3> QED  BY <1>1, <2>1, <2>2, <3>1, <3>2 DEF LinkInv, TypeOK
  <2>3. CASE q.event.event_type # "context_injected"
    BY <1>3, <2>3 DEF Commit, LinkInv
  <2> QED  BY <2>2, <2>3
<1> QED  BY <1>1, <1>2, <1>3, OnlyCommits

\* The table of links and the checks of the handlers agree in every state.
LEMMA LinksAgree == LinkInv => LinksHonoured
<1> SUFFICES ASSUME LinkInv, NEW t \in TaskIds, exists(t)
             PROVE  LET links == task_to_detail_response(t).links
                        caller == tasks[t].principal_agent_id
                        input == tasks[t].input
                    IN  /\ "cancel" \in links
                              <=> cancel_outcome(t, caller) \notin StateErrors
                        /\ "pause" \in links
                              <=> pause_outcome(t, caller) \notin StateErrors
                        /\ "resume" \in links
                              <=> resume_outcome(t, caller) \notin StateErrors
                        /\ "redirect" \in links
                              <=> redirect_outcome(t, caller, input, NULL) \notin StateErrors
                        /\ "retask" \in links
                              <=> retask_outcome(t, caller, input, NULL) \notin StateErrors
                        /\ "context" \in links
                              <=> inject_outcome(t, caller, MaxContext + 1) = "ok"
  BY DEF LinksHonoured
<1> DEFINE links == task_to_detail_response(t).links
           caller == tasks[t].principal_agent_id
           input == tasks[t].input
           st == row[t].status
<1>1. st \in TaskStatus
  BY DEF LinkInv, MeansInv, StoreInv, LineageInv, TypeOK, Row
<1>2. authorized(t, caller) /\ check_idempotency(NULL, input) = "new"
  BY DEF authorized, check_idempotency
<1>3. links = {"self", "workflow", "stream"} \cup _STATUS_ACTION_LINKS(st)
  BY DEF task_to_detail_response, build_task_links
<1>4. /\ "cancel" \in links <=> st \in {"accepted", "running", "paused"}
      /\ "pause" \in links <=> st = "running"
      /\ "resume" \in links <=> st = "paused"
      /\ "redirect" \in links <=> st \in {"running", "paused"}
      /\ "retask" \in links <=> st \in {"completed", "failed"}
      /\ "context" \in links <=> st \in {"running", "paused"}
  <2> HIDE DEF st, links
  <2> QED  BY <1>1, <1>3 DEF _STATUS_ACTION_LINKS, TaskStatus
<1>5. cancel_outcome(t, caller) \notin StateErrors <=> st \in {"accepted", "running", "paused"}
  <2>1. validate_transition(st, "cancelled") <=> st \in {"accepted", "running", "paused"}
    <3> HIDE DEF st
    <3> QED  BY <1>1 DEF validate_transition, VALID_TRANSITIONS, TaskStatus
  <2> QED  BY <1>2, <2>1 DEF cancel_outcome, StateErrors
<1>6. pause_outcome(t, caller) \notin StateErrors <=> st = "running"
  BY <1>2 DEF pause_outcome, StateErrors
<1>7. resume_outcome(t, caller) \notin StateErrors <=> st = "paused"
  BY <1>2 DEF resume_outcome, StateErrors
<1>8. redirect_outcome(t, caller, input, NULL) \notin StateErrors
         <=> st \in {"running", "paused"}
  BY <1>2 DEF redirect_outcome, StateErrors
<1>9. retask_outcome(t, caller, input, NULL) \notin StateErrors
         <=> st \in {"completed", "failed"}
  BY <1>2 DEF retask_outcome, StateErrors
<1>10. inject_outcome(t, caller, MaxContext + 1) = "ok" <=> st \in {"running", "paused"}
  <2>1. ~(MaxContext + 1 <= context_seq[t])
    BY StoreAssumption DEF LinkInv
  <2> QED  BY <1>2, <2>1 DEF inject_outcome
<1> QED  BY <1>4, <1>5, <1>6, <1>7, <1>8, <1>9, <1>10

\* What a response offers is what the handlers do not refuse for the task's status,
\* for every task at every time.  (They may refuse it for its depth or because its
\* pause has expired.)
THEOREM LinksAreHonoured == Spec => []LinksHonoured
<1>1. Init => LinkInv
  BY MeansInit, StoreAssumption DEF Init, LinkInv
<1> QED  BY <1>1, LinkStep, LinksAgree, PTL DEF Spec

-----------------------------------------------------------------------------
(* Progress.  What an executor has checked of the metadata and of its own  *)
(* events stays true until it commits: nobody else writes either.          *)

Reported(t) == {e \in events[t] : e.event_type \in {"progress", "completed"}}

PostOK(q) == (q.sidecar /\ q.phase # "committed") =>
                /\ StoresProgress(q) /\ q.event.sequence > 0
                /\ \A e \in Reported(q.task) : e.sequence < q.event.sequence

\* Progress is stored, or there was none yet, or an outcome made the dictionary.
Stored(t) ==
    (exists(t) /\ tasks[t].parent_task_id = NULL /\ DispatchMetadata = {NULL}) =>
        \/ row[t].metadata \in Progress
        \/ /\ row[t].metadata = NULL
           /\ \A e \in events[t] : e.event_type # "progress"
        \/ \E f \in events[t] :
              /\ f.event_type = "completed"
              /\ \A e \in events[t] : e.event_type = "progress" => f.sequence < e.sequence

ProgressInv == /\ MeansInv /\ PostsSerial
               /\ \A s \in Sessions : req[s] # NULL => PostOK(req[s])
               /\ \A t \in TaskIds : Stored(t)

\* Requests of principals leave metadata and reports alone.
LEMMA CommitReports ==
    ASSUME MeansInv, NEW s \in Sessions, Commit(s), ~req[s].sidecar,
           NEW t \in TaskIds, exists(t)
    PROVE  row'[t].metadata = row[t].metadata /\ Reported(t)' = Reported(t)
<1> DEFINE q == req[s]
<1>0. t # NULL
  BY NullAssumption
<1>1. /\ q \in Request /\ q # NULL /\ Means(q)
      /\ q.task # NULL => /\ row'[q.task] = Apply(row[q.task], q.update)
                          /\ events'[q.task] = events[q.task] \cup {q.event}
      /\ q.child # NULL => ~exists(q.child)
      /\ (t # q.task /\ t # q.child) => row'[t] = row[t] /\ events'[t] = events[t]
  BY CommitCases
<1>2. q.update.metadata = Keep /\ q.event.event_type \notin {"progress", "completed"}
  BY <1>1 DEF Means, OfItsKind
<1>3. t # q.child
  BY <1>0, <1>1
<1>4. CASE t = q.task
  <2>1. row'[t] = Apply(row[t], q.update) /\ events'[t] = events[t] \cup {q.event}
    BY <1>0, <1>1, <1>4
  <2>2. row'[t].metadata = row[t].metadata
    BY <1>2, <2>1 DEF Apply, Written
  <2>3. Reported(t)' = Reported(t)
    BY <1>2, <2>1 DEF Reported
  <2> QED  BY <2>2, <2>3
<1>5. CASE t # q.task
  BY <1>1, <1>3, <1>5 DEF Reported
<1> QED  BY <1>4, <1>5

\* A commit does not disturb what an executor has checked for another.
LEMMA CommitPosts ==
    ASSUME ProgressInv, NEW s \in Sessions, Commit(s), NEW r \in Sessions,
           req'[r] # NULL
    PROVE  PostOK(req[r])'
<1> DEFINE q == req[s]
           p == req[r]
<1>0. MeansInv /\ req \in [Sessions -> Request \cup {NULL}]
  BY DEF ProgressInv, MeansInv, StoreInv, LineageInv, TypeOK
<1>m. MeansInv
  BY <1>0
<1>1. /\ q \in Request /\ q # NULL
      /\ q.child # NULL => ~exists(q.child)
      /\ \A t \in TaskIds : (t # q.task /\ t # q.child) =>
            row'[t] = row[t] /\ events'[t] = events[t]
      /\ req' = [req EXCEPT ![s] = IF q.sidecar
                                   THEN [q EXCEPT !.phase = "committed"] ELSE NULL]
  BY <1>m, CommitCases
<1>2. CASE r = s
  <2>1. req'[r].phase = "committed"
    BY <1>0, <1>1, <1>2 DEF Request
  <2> QED  BY <2>1 DEF PostOK
<1>3. CASE r # s
  <2>1. req'[r] = p /\ p # NULL /\ p \in Request
    BY <1>0, <1>1, <1>3
  <2> SUFFICES ASSUME p.sidecar, p.phase # "committed" PROVE PostOK(req[r])'
    BY <2>1 DEF PostOK
  <2>2. PostOK(p) /\ p.task # NULL /\ p.task \in TaskIds /\ exists(p.task)
    <3>1. PostOK(p) /\ Means(p)
      BY <2>1 DEF ProgressInv, MeansInv, RequestsMean
    <3>2. p.task # NULL
      BY <3>1 DEF Means, OnlyInserts
    <3>3. p.task \in TaskIds /\ exists(p.task)
      BY <2>1, <3>2 DEF ProgressInv, MeansInv, RequestsMean, Request
    <3> QED  BY <3>1, <3>2, <3>3
  <2>3. row'[p.task].metadata = row[p.task].metadata
        /\ \A t \in TaskIds : t = p.task => Reported(t)' = Reported(t)
    <3>1. CASE p.task = q.task
      <4>1. ~q.sidecar
        BY <1>1, <1>3, <2>1, <3>1 DEF ProgressInv, PostsSerial
      <4> QED  BY <1>0, <2>2, <4>1, CommitReports
    <3>2. CASE p.task # q.task
      <4>1. p.task # q.child
        BY <1>1, <2>2
      <4> QED  BY <1>1, <2>2, <3>2, <4>1 DEF Reported
    <3> QED  BY <3>1, <3>2
  <2>4. PICK t \in TaskIds : t = p.task
    BY <2>2
  <2>5. /\ StoresProgress(p) /\ p.event.sequence > 0
        /\ \A e \in Reported(t) : e.sequence < p.event.sequence
    BY <2>2, <2>4 DEF PostOK
  <2>6. Reported(t)' = Reported(t) /\ row'[t].metadata = row[t].metadata
    BY <2>3, <2>4
  <2>7. StoresProgress(req[r])'
    BY <2>1, <2>4, <2>5, <2>6 DEF StoresProgress
  <2>8. req'[r].event.sequence > 0
        /\ \A e \in Reported(t)' : e.sequence < req'[r].event.sequence
    BY <2>1, <2>5, <2>6
  <2>9. req'[r].task = t
    BY <2>1, <2>4
  <2> QED  BY <2>7, <2>8, <2>9 DEF PostOK, Reported
<1> QED  BY <1>2, <1>3

LEMMA CommitStored ==
    ASSUME ProgressInv, NEW s \in Sessions, Commit(s), NEW t \in TaskIds
    PROVE  Stored(t)'
<1> DEFINE q == req[s]
<1>0. MeansInv /\ t # NULL /\ Stored(t) /\ events \in [TaskIds -> SUBSET TaskEvent]
  BY NullAssumption DEF ProgressInv, MeansInv, StoreInv, LineageInv, TypeOK
<1>1. /\ q \in Request /\ q # NULL /\ Means(q) /\ q.phase # "committed"
      /\ q.task # NULL => /\ exists(q.task) /\ q.task # q.child
                          /\ tasks'[q.task] = tasks[q.task]
                          /\ row'[q.task] = Apply(row[q.task], q.update)
                          /\ events'[q.task] = events[q.task] \cup {q.event}
      /\ q.child # NULL => /\ tasks'[q.child] = q.insert
                           /\ row'[q.child] = Accepted(q.metadata)
                           /\ events'[q.child] = {created_event}
      /\ (t # q.task /\ t # q.child) =>
            tasks'[t] = tasks[t] /\ row'[t] = row[t] /\ events'[t] = events[t]
  BY <1>0, CommitCases
<1> SUFFICES ASSUME tasks'[t] # NULL, tasks'[t].parent_task_id = NULL,
                    DispatchMetadata = {NULL}
             PROVE  Stored(t)'
  BY DEF Stored, exists
<1>2. CASE t = q.child
  <2>1. /\ tasks'[t] = q.insert /\ row'[t] = Accepted(q.metadata)
        /\ events'[t] = {created_event}
    BY <1>0, <1>1, <1>2
  <2>2. q.task = NULL
    BY <1>0, <1>1, <1>2, <2>1 DEF Means, Supersedes
  <2>3. q.metadata = NULL
    BY <1>1, <2>2 DEF Means, OnlyInserts
  <2>4. row'[t].metadata = NULL
    BY <2>1, <2>3 DEF Accepted
  <2>5. created_event.event_type # "progress"
    BY DEF created_event, Event
  <2> QED  BY <2>1, <2>4, <2>5 DEF Stored
<1>3. CASE t = q.task /\ ~q.sidecar
  <2>1. tasks'[t] = tasks[t] /\ exists(t)
    BY <1>0, <1>1, <1>3
  <2>2. row'[t].metadata = row[t].metadata /\ Reported(t)' = Reported(t)
    BY <1>0, <1>3, <2>1, CommitReports
  <2>3. /\ \A e \in events'[t] : e.event_type \in {"progress", "completed"} => e \in events[t]
        /\ \A e \in events[t] : e.event_type \in {"progress", "completed"} => e \in events'[t]
    BY <2>2 DEF Reported
  <2> QED  BY <1>0, <2>1, <2>2, <2>3 DEF Stored, exists
<1>4. CASE t = q.task /\ q.sidecar
  <2>1. /\ tasks'[t] = tasks[t] /\ exists(t)
        /\ row'[t] = Apply(row[t], q.update) /\ events'[t] = events[t] \cup {q.event}
    BY <1>0, <1>1, <1>4
  <2>2. row'[t].metadata = Written(row[t].metadata, q.update.metadata)
    BY <2>1 DEF Apply
  <2>3. StoresProgress(q) /\ \A e \in Reported(t) : e.sequence < q.event.sequence
    BY <1>1, <1>4 DEF ProgressInv, PostOK
  <2>4. /\ q.update.metadata # Keep => /\ row[t].metadata = NULL
                                       /\ \/ q.update.metadata \in Progress
                                          \/ q.event.event_type = "completed"
        /\ q.event.event_type = "progress" =>
              (row[t].metadata = NULL => q.update.metadata \in Progress)
    BY <1>4, <2>3 DEF StoresProgress
  <2>5. NULL \notin Progress /\ Keep \notin Progress
    BY NullAssumption
  <2>6. CASE row[t].metadata \in Progress
    <3>1. row'[t].metadata \in Progress
      BY <2>2, <2>4, <2>5, <2>6 DEF Written
    <3> QED  BY <3>1 DEF Stored
  <2>7. CASE /\ row[t].metadata = NULL
             /\ \A e \in events[t] : e.event_type # "progress"
    <3>1. CASE q.update.metadata \in Progress
      <4>1. row'[t].metadata \in Progress
        BY <2>2, <2>5, <3>1 DEF Written
      <4> QED  BY <4>1 DEF Stored
    <3>2. CASE q.update.metadata = Keep
      <4>1. row'[t].metadata = NULL /\ q.event.event_type # "progress"
        BY <2>2, <2>4, <2>5, <2>7, <3>2 DEF Written
      <4> QED  BY <2>1, <2>7, <4>1 DEF Stored
    <3>3. CASE q.update.metadata \notin Progress /\ q.update.metadata # Keep
      <4>1. q.event.event_type = "completed"
        BY <2>4, <3>3
      <4>2. \A e \in events'[t] : e.event_type # "progress"
        BY <2>1, <2>7, <4>1
      <4>3. q.event \in events'[t]
        BY <2>1
      <4> QED  BY <4>1, <4>2, <4>3 DEF Stored
    <3> QED  BY <3>1, <3>2, <3>3
  <2>8. CASE \E f \in events[t] :
               /\ f.event_type = "completed"
               /\ \A e \in events[t] : e.event_type = "progress" => f.sequence < e.sequence
    <3>1. PICK f \in events[t] :
            /\ f.event_type = "completed"
            /\ \A e \in events[t] : e.event_type = "progress" => f.sequence < e.sequence
      BY <2>8
    <3>2. f.sequence < q.event.sequence
      BY <2>3, <3>1 DEF Reported
    <3>3. f \in events'[t] /\ \A e \in events'[t] :
             e.event_type = "progress" => f.sequence < e.sequence
      BY <2>1, <3>1, <3>2
    <3> QED  BY <3>1, <3>3 DEF Stored
  <2>9. \/ row[t].metadata \in Progress
        \/ /\ row[t].metadata = NULL
           /\ \A e \in events[t] : e.event_type # "progress"
        \/ \E f \in events[t] :
              /\ f.event_type = "completed"
              /\ \A e \in events[t] : e.event_type = "progress" => f.sequence < e.sequence
    BY <1>0, <2>1 DEF Stored, exists
  <2> QED  BY <2>6, <2>7, <2>8, <2>9
<1>5. CASE t # q.task /\ t # q.child
  <2>1. tasks'[t] = tasks[t] /\ row'[t] = row[t] /\ events'[t] = events[t]
    BY <1>1, <1>5
  <2> QED  BY <1>0, <2>1 DEF Stored, exists
<1> QED  BY <1>2, <1>3, <1>4, <1>5

LEMMA ProgressStep ==
    ASSUME ExecutorPostsSerially, ProgressInv, [Next]_vars
    PROVE  ProgressInv'
<1>0. /\ MeansInv /\ MeansInv' /\ TypeOK
      /\ req \in [Sessions -> Request \cup {NULL}]
  BY MeansStep DEF ProgressInv, MeansInv, StoreInv, LineageInv, TypeOK
<1> DEFINE Quiet == UNCHANGED <<tasks, row, events, context_seq>>
<1>1. \A t \in TaskIds : Stored(t)'
  <2>1. CASE Quiet
    BY <2>1 DEF ProgressInv, Stored, exists
  <2> QED  BY <1>0, <2>1, OnlyCommits, CommitStored
<1> DEFINE Goal == /\ PostsSerial'
                   /\ \A r \in Sessions : req'[r] # NULL => PostOK(req[r])'
<1>2. ASSUME NEW s \in Sessions, NEW q, Begin(s, q), Admitted(q), Described(q)
      PROVE  Goal
  <2>1. req' = [req EXCEPT ![s] = q] /\ Quiet
    BY <1>2 DEF Begin
  <2>2. req'[s] = q /\ \A r \in Sessions \ {s} : req'[r] = req[r]
    BY <1>0, <2>1
  <2>3. q.sidecar =>
          /\ q.task # NULL /\ q.event.sequence > 0
          /\ \A e \in events[q.task] : e.sequence < q.event.sequence
          /\ \A r \in Sessions : (req[r] # NULL /\ req[r].sidecar) => req[r].task # q.task
    BY <1>2 DEF Admitted, NumberOK
  <2>4. PostsSerial'
    BY <2>2, <2>3 DEF ProgressInv, PostsSerial
  <2>5. PostOK(q)
    BY <1>2, <2>3 DEF PostOK, Reported, Described
  <2>6. \A r \in Sessions : req'[r] # NULL => PostOK(req'[r])
    BY <2>2, <2>5 DEF ProgressInv
  <2>7. row' = row /\ events' = events
    BY <2>1
  <2> QED  BY <2>4, <2>6, <2>7 DEF PostOK, StoresProgress, Reported
<1>3. ASSUME NEW s \in Sessions, Commit(s) PROVE Goal
  <2>1. \A r \in Sessions : req'[r] # NULL =>
           req[r] # NULL /\ SameRequest(req'[r], req[r])
    BY <1>0, <1>3, RequestsGoOn DEF Proceed
  <2>2. PostsSerial'
    BY <2>1 DEF ProgressInv, PostsSerial, SameRequest
  <2> QED  BY <1>3, <2>2, CommitPosts
<1>4. ASSUME NEW s \in Sessions, Flush(s) PROVE Goal
  <2>1. PICK n \in Nat, q \in Request :
          /\ req' = [req EXCEPT ![s] = q]
          /\ q = [req[s] EXCEPT !.phase = "flushed",
                                !.event = [req[s].event EXCEPT !.sequence = n]]
    BY <1>0, <1>4, FlushStep
  <2>2. req[s] # NULL /\ req[s] \in Request /\ req[s].phase # "committed"
        /\ req[s].event.sequence = 0 /\ Quiet
    BY <1>0, <1>4 DEF Flush
  \* An executor's event has a number and is not flushed.
  <2>3. ~req[s].sidecar
    BY <2>2 DEF ProgressInv, PostOK
  <2>4. ~q.sidecar
    BY <2>1, <2>2, <2>3 DEF Request
  <2>5. req'[s] = q /\ \A r \in Sessions \ {s} : req'[r] = req[r]
    BY <1>0, <2>1
  <2>6. \A r \in Sessions : req'[r] # NULL /\ req'[r].sidecar => req'[r] = req[r]
    BY <2>4, <2>5
  <2>7. PostsSerial'
    BY <2>6 DEF ProgressInv, PostsSerial
  <2>8. row' = row /\ events' = events
    BY <2>2
  <2>9. \A r \in Sessions : req'[r] # NULL => PostOK(req'[r])
    BY <2>4, <2>5 DEF ProgressInv, PostOK
  <2> QED  BY <2>7, <2>8, <2>9 DEF PostOK, StoresProgress, Reported
<1>9. ASSUME NEW s \in Sessions, FlushUpdate(s) PROVE Goal
  <2>1. PICK q \in Request : /\ req' = [req EXCEPT ![s] = q]
                             /\ q = [req[s] EXCEPT !.phase = "updated"]
    BY <1>0, <1>9, UpdateStep
  <2>2. req[s] # NULL /\ req[s] \in Request /\ req[s].phase # "committed"
        /\ req[s].event.sequence = 0 /\ Quiet
    BY <1>0, <1>9 DEF FlushUpdate
  <2>3. ~q.sidecar
    BY <2>1, <2>2 DEF ProgressInv, PostOK, Request
  <2>4. req'[s] = q /\ \A r \in Sessions \ {s} : req'[r] = req[r]
    BY <1>0, <2>1
  <2>5. PostsSerial'
    BY <2>3, <2>4 DEF ProgressInv, PostsSerial
  <2>6. \A r \in Sessions : req'[r] # NULL => PostOK(req'[r])
    BY <2>3, <2>4 DEF ProgressInv, PostOK
  <2>7. row' = row /\ events' = events
    BY <2>2
  <2> QED  BY <2>5, <2>6, <2>7 DEF PostOK, StoresProgress, Reported
<1>5. ASSUME Quiet, \A r \in Sessions : req'[r] = NULL \/ req'[r] = req[r] PROVE Goal
  <2>1. PostsSerial'
    BY <1>5 DEF ProgressInv, PostsSerial
  <2>2. \A r \in Sessions : req'[r] # NULL => PostOK(req'[r])
    BY <1>5 DEF ProgressInv
  <2>3. row' = row /\ events' = events
    BY <1>5
  <2> QED  BY <2>1, <2>2, <2>3 DEF PostOK, StoresProgress, Reported
<1>6. ASSUME NEW s \in Sessions, IntegrityError(s) \/ ScheduleCallback(s) PROVE Goal
  <2>1. Quiet /\ req' = [req EXCEPT ![s] = NULL]
    BY <1>6 DEF IntegrityError, ScheduleCallback
  <2>2. \A r \in Sessions : req'[r] = NULL \/ req'[r] = req[r]
    BY <1>0, <2>1
  <2> HIDE DEF Goal, Quiet
  <2> QED  BY <1>5, <2>1, <2>2
<1>7. ASSUME Crash \/ Tick \/ UNCHANGED vars PROVE Goal
  <2>1. Quiet /\ \A r \in Sessions : req'[r] = NULL \/ req'[r] = req[r]
    BY <1>7 DEF Crash, Tick, vars
  <2> HIDE DEF Goal, Quiet
  <2> QED  BY <1>5, <2>1
<1> HIDE DEF Goal
<1>8. Goal
  BY <1>0, <1>2, <1>3, <1>4, <1>6, <1>7, <1>9, DescribedSteps DEF Proceed
<1> QED  BY <1>0, <1>1, <1>8 DEF Goal, ProgressInv

\* The first report of progress is stored whatever requests overlap, provided a
\* task's executor posts one event at a time.
THEOREM ProgressIsStored ==
    ASSUME ExecutorPostsSerially
    PROVE  Spec => []FirstProgressStored
<1>1. Init => ProgressInv
  BY MeansInit DEF Init, ProgressInv, PostsSerial, Stored, exists
<1>2. ProgressInv /\ [Next]_vars => ProgressInv'
  BY ProgressStep
<1>3. ProgressInv => FirstProgressStored
  <2> SUFFICES ASSUME ProgressInv, NEW t \in TaskIds,
                      exists(t), tasks[t].parent_task_id = NULL, DispatchMetadata = {NULL},
                      NEW e \in events[t], e.event_type = "progress",
                      \A f \in events[t] : f.event_type = "completed" =>
                                              e.sequence < f.sequence
               PROVE  row[t].metadata \in Progress
    BY DEF FirstProgressStored
  <2>1. \A f \in events[t] : f.sequence \in Nat
    BY DEF ProgressInv, MeansInv, StoreInv, LineageInv, TypeOK, TaskEvent
  <2>2. ~\E f \in events[t] :
          f.event_type = "completed" /\ f.sequence < e.sequence
    BY <2>1
  <2> QED  BY <2>2 DEF ProgressInv, Stored
<1> QED  BY <1>1, <1>2, <1>3, PTL DEF Spec

-----------------------------------------------------------------------------
(* The chain of a task: build_lineage_chain is a recursive function, and   *)
(* what it returns follows from LineageSound, by the least number at which *)
(* it would not.                                                           *)

LEMMA LeastNumber ==
    ASSUME NEW T \in SUBSET Nat, T # {}
    PROVE  \E x \in T : \A y \in T : x <= y
<1> DEFINE R == OpToRel(<, Nat)
<1>1. IsWellFoundedOn(R, Nat)
  BY NatLessThanWellFounded
<1>2. \A x, y \in Nat : <<y, x>> \in R <=> y < x
  BY DEF OpToRel
<1> HIDE DEF R
<1>3. PICK x \in T : \A y \in T : ~ (<<y, x>> \in R)
  BY <1>1, WFMin
<1>4. ASSUME NEW y \in T
      PROVE  x <= y
  <2>1. x \in Nat /\ y \in Nat
    OBVIOUS
  <2>2. ~ (y < x)
    BY <1>2, <1>3, <2>1
  <2> QED  BY <2>1, <2>2
<1> QED  BY <1>4

\* The body of the loop: the parent is put in front.
with_parent(c) ==
    LET p == tasks[Head(c)].parent_task_id IN IF p = NULL THEN c ELSE <<p>> \o c

\* up is the walk of the first k steps from t.
IsWalk(up, t, k) ==
    up = [n \in 0..k |-> IF n = 0 THEN <<t>> ELSE with_parent(up[n - 1])]

LEMMA WalkExists ==
    ASSUME NEW t, NEW d \in Nat
    PROVE  \E up : IsWalk(up, t, d)
<1> DEFINE Bad == {k \in Nat : ~ \E up : IsWalk(up, t, k)}
<1> SUFFICES ASSUME Bad # {} PROVE FALSE
  OBVIOUS
<1>1. PICK k \in Bad : \A j \in Bad : k <= j
  BY LeastNumber
<1>2. CASE k = 0
  <2> DEFINE up == [n \in 0..0 |-> <<t>>]
  <2>1. IsWalk(up, t, 0)
    BY DEF IsWalk
  <2> QED  BY <1>2, <2>1
<1>3. CASE k # 0
  <2>1. k - 1 \in Nat /\ k \in Nat
    BY <1>3
  <2>2. PICK up : IsWalk(up, t, k - 1)
    BY <1>1, <2>1
  <2> DEFINE next == [n \in 0..k |-> IF n = k THEN with_parent(up[k - 1]) ELSE up[n]]
             F == [n \in 0..k |-> IF n = 0 THEN <<t>> ELSE with_parent(next[n - 1])]
  <2>3. ASSUME NEW n \in 0..k
        PROVE  next[n] = F[n]
    <3>1. CASE n = k
      <4>1. next[n - 1] = up[k - 1]
        BY <2>1, <3>1
      <4> QED  BY <1>3, <2>1, <3>1, <4>1
    <3>2. CASE n # k
      <4>1. n \in 0..(k - 1)
        BY <2>1, <3>2
      <4>2. up[n] = IF n = 0 THEN <<t>> ELSE with_parent(up[n - 1])
        BY <2>2, <4>1 DEF IsWalk
      <4>3. n # 0 => next[n - 1] = up[n - 1]
        BY <2>1, <4>1
      <4> QED  BY <3>2, <4>2, <4>3
    <3> QED  BY <3>1, <3>2
  <2>4. next = F
    BY <2>3
  <2>5. IsWalk(next, t, k)
    BY <2>4 DEF IsWalk
  <2> QED  BY <2>5
<1> QED  BY <1>2, <1>3

root(t) == IF tasks[t].root_task_id = NULL THEN t ELSE tasks[t].root_task_id

\* The last n + 1 tasks of the chain that ends with t.
Chain(c, t, n) ==
    /\ c \in Seq(TaskIds)
    /\ Len(c) = n + 1
    /\ exists(c[1])
    /\ root(c[1]) = root(t)
    /\ tasks[c[1]].lineage_depth = tasks[t].lineage_depth - n
    /\ c[n + 1] = t
    /\ \A i \in 2..(n + 1) : tasks[c[i]].parent_task_id = c[i - 1]

LEMMA ChainGrows ==
    ASSUME TypeOK, LineageSound, NEW t \in TaskIds, exists(t), NEW c, NEW n \in Nat,
           Chain(c, t, n), n < tasks[t].lineage_depth
    PROVE  Chain(with_parent(c), t, n + 1)
<1> DEFINE p == tasks[c[1]].parent_task_id
           e == <<p>> \o c
<1>0. /\ c \in Seq(TaskIds) /\ Len(c) = n + 1 /\ c[1] \in TaskIds /\ Head(c) = c[1]
  BY DEF Chain
<1>1. tasks[c[1]] \in Task /\ tasks[t] \in Task
  BY <1>0 DEF TypeOK, Chain, exists
<1>2. continues(tasks[c[1]])
  BY <1>0 DEF LineageSound, Chain
<1>3. tasks[c[1]].lineage_depth # 0
  BY <1>1 DEF Chain, Task
<1>4. p # NULL
  BY <1>2, <1>3 DEF continues
<1>5. p \in TaskIds
  BY <1>1, <1>4 DEF Task
<1>6. with_parent(c) = e
  BY <1>0, <1>4 DEF with_parent
<1>7. /\ exists(p)
      /\ tasks[c[1]].lineage_depth = tasks[p].lineage_depth + 1
      /\ tasks[c[1]].root_task_id = root(p)
  BY <1>2, <1>4 DEF continues, root
<1>8. tasks[p] \in Task
  BY <1>5, <1>7 DEF TypeOK, exists
<1>9. root(p) # NULL
  BY <1>5, <1>8, NullAssumption DEF root
<1>10. root(p) = root(t)
  BY <1>7, <1>9 DEF Chain, root
<1>11. tasks[p].lineage_depth = tasks[t].lineage_depth - (n + 1)
  <2>1. /\ tasks[p].lineage_depth \in Nat /\ tasks[t].lineage_depth \in Nat
        /\ tasks[c[1]].lineage_depth = tasks[t].lineage_depth - n
    BY <1>1, <1>8 DEF Chain, Task
  <2> QED  BY <1>7, <2>1
<1>12. /\ e \in Seq(TaskIds) /\ Len(e) = n + 2 /\ e[1] = p
       /\ \A i \in 2..(n + 2) : e[i] = c[i - 1]
  BY <1>0, <1>5
<1> HIDE DEF e
<1>13. e[(n + 1) + 1] = t
  BY <1>12 DEF Chain
<1>14. ASSUME NEW i \in 2..((n + 1) + 1)
       PROVE  tasks[e[i]].parent_task_id = e[i - 1]
  <2>1. CASE i = 2
    BY <1>12, <2>1
  <2>2. CASE i # 2
    <3>1. i - 1 \in 2..(n + 1) /\ i \in 2..(n + 2)
      BY <2>2
    <3>2. e[i] = c[i - 1] /\ e[i - 1] = c[i - 2]
      BY <1>12, <3>1
    <3>3. tasks[c[i - 1]].parent_task_id = c[(i - 1) - 1]
      BY <3>1 DEF Chain
    <3> QED  BY <3>2, <3>3
  <2> QED  BY <2>1, <2>2
<1>15. Len(e) = (n + 1) + 1
  BY <1>12
<1> QED
  <2> HIDE DEF p
  <2> QED  BY <1>6, <1>7, <1>10, <1>11, <1>12, <1>13, <1>14, <1>15 DEF Chain

LEMMA WalkIsChain ==
    ASSUME TypeOK, LineageSound, NEW t \in TaskIds, exists(t), NEW up,
           IsWalk(up, t, tasks[t].lineage_depth)
    PROVE  \A n \in 0..tasks[t].lineage_depth : Chain(up[n], t, n)
<1> DEFINE d == tasks[t].lineage_depth
           Bad == {n \in 0..d : ~ Chain(up[n], t, n)}
<1>0. d \in Nat
  BY DEF TypeOK, exists, Task
<1> HIDE DEF d
<1> SUFFICES ASSUME Bad # {} PROVE FALSE
  BY DEF d
<1>1. PICK n \in Bad : \A m \in Bad : n <= m
  <2>1. Bad \in SUBSET Nat
    OBVIOUS
  <2> HIDE DEF Bad
  <2> QED  BY <2>1, LeastNumber
<1>2. n \in 0..d /\ ~ Chain(up[n], t, n)
  BY <1>1
<1>3. CASE n = 0
  <2>1. up[0] = <<t>>
    BY <1>0, <1>2, <1>3 DEF IsWalk, d
  <2>2. Chain(<<t>>, t, 0)
    BY <1>0 DEF Chain, d
  <2> QED  BY <1>2, <1>3, <2>1, <2>2
<1>4. CASE n # 0
  <2>1. n - 1 \in 0..d /\ n - 1 \in Nat /\ n - 1 < d /\ n = (n - 1) + 1
    BY <1>0, <1>2, <1>4
  <2>2. Chain(up[n - 1], t, n - 1)
    BY <1>1, <2>1
  <2>3. up[n] = with_parent(up[n - 1])
    BY <1>2, <1>4 DEF IsWalk, d
  <2>4. Chain(with_parent(up[n - 1]), t, (n - 1) + 1)
    BY <2>1, <2>2, ChainGrows DEF d
  <2> QED  BY <1>2, <2>1, <2>3, <2>4
<1> QED  BY <1>3, <1>4

LEMMA ChainIsWalk ==
    ASSUME TypeOK, NEW t \in TaskIds, exists(t)
    PROVE  \E up : /\ IsWalk(up, t, tasks[t].lineage_depth)
                   /\ build_lineage_chain(t) = up[tasks[t].lineage_depth]
<1> DEFINE d == tasks[t].lineage_depth
           up == CHOOSE f : IsWalk(f, t, d)
<1>1. d \in Nat
  BY DEF TypeOK, exists, Task
<1>2. IsWalk(up, t, d)
  BY <1>1, WalkExists
<1>3. build_lineage_chain(t) = up[d]
  BY DEF build_lineage_chain, IsWalk, with_parent
<1> QED  BY <1>2, <1>3

\* The lineage that GET shows of a task is all of its chain, from the root on, for
\* every limit on the depth and whichever requests overlap.
THEOREM ChainsAreWhole == Spec => []ChainFromRoot
<1>1. ASSUME LineageInv PROVE ChainFromRoot
  <2> SUFFICES ASSUME NEW t \in TaskIds, exists(t)
               PROVE  LET chain == build_lineage_chain(t) IN
                      /\ Len(chain) = tasks[t].lineage_depth + 1
                      /\ chain[1] = root(t)
                      /\ chain[Len(chain)] = t
                      /\ \A i \in 2..Len(chain) :
                            tasks[chain[i]].parent_task_id = chain[i - 1]
    BY DEF ChainFromRoot, root
  <2> DEFINE d == tasks[t].lineage_depth
             chain == build_lineage_chain(t)
  <2>1. d \in Nat
    BY <1>1 DEF LineageInv, TypeOK, exists, Task
  <2>2. Chain(chain, t, d)
    <3>1. TypeOK /\ LineageSound
      BY <1>1 DEF LineageInv
    <3>2. PICK up : IsWalk(up, t, d) /\ chain = up[d]
      BY <3>1, ChainIsWalk
    <3>3. \A n \in 0..d : Chain(up[n], t, n)
      BY <3>1, <3>2, WalkIsChain
    <3>4. d \in 0..d
      BY <2>1
    <3> QED  BY <3>2, <3>3, <3>4
  <2> HIDE DEF chain
  <2>3. tasks[chain[1]].lineage_depth = 0 /\ chain[1] \in TaskIds /\ exists(chain[1])
    BY <2>1, <2>2 DEF Chain
  <2>4. continues(tasks[chain[1]]) /\ tasks[chain[1]] \in Task
    BY <1>1, <2>3 DEF LineageInv, LineageSound, TypeOK, exists
  <2>5. tasks[chain[1]].root_task_id = NULL
    <3>1. tasks[chain[1]].parent_task_id = NULL
      <4> SUFFICES ASSUME tasks[chain[1]].parent_task_id # NULL PROVE FALSE
        OBVIOUS
      <4> DEFINE p == tasks[chain[1]].parent_task_id
      <4>1. exists(p) /\ p \in TaskIds /\ 0 = tasks[p].lineage_depth + 1
        BY <2>3, <2>4 DEF continues, Task
      <4>2. tasks[p].lineage_depth \in Nat
        BY <1>1, <4>1 DEF LineageInv, TypeOK, exists, Task
      <4> QED  BY <4>1, <4>2
    <3> QED  BY <2>4, <3>1 DEF continues
  <2>6. chain[1] = root(t)
    BY <2>2, <2>5 DEF Chain, root
  <2> QED  BY <2>2, <2>6 DEF Chain, chain
<1> QED  BY <1>1, LineageInit, LineageStep, PTL DEF Spec

-----------------------------------------------------------------------------
(* The statuses of the log.  A handler checks the transition on the copy of *)
(* the task it has loaded, and others may have committed before it writes:  *)
(* two neighbours in the log need not be a valid transition (see            *)
(* TaskClaims).  But what it has checked against is in the log, and earlier.*)

\* A status that the log had, with a lower number, allows the one of the event.
Allowed(t, status, sequence) ==
    \E f \in events[t] : /\ f.sequence < sequence
                         /\ f.status # NULL
                         /\ validate_transition(f.status, status)

\* Every status an event announces, but the first, was a valid successor of one that
\* was announced before it.
StatusesAllowed ==
    \A t \in TaskIds : \A e \in events[t] :
        (e.status # NULL /\ e # created_event) => Allowed(t, e.status, e.sequence)

\* So is what the requests in progress are about to announce.
WillBeAllowed(q) ==
    (q.task # NULL /\ q.event.status # NULL) =>
        /\ q.event.sequence # 0 => Allowed(q.task, q.event.status, q.event.sequence)
        /\ \E f \in events[q.task] :
              f.status # NULL /\ validate_transition(f.status, q.event.status)

AllowedInv ==
    /\ SaysInv
    /\ StatusesAllowed
    /\ \A s \in Sessions : req[s] # NULL => WillBeAllowed(req[s])

LEMMA AllowedStep == AllowedInv /\ [Next]_vars => AllowedInv'
<1> SUFFICES ASSUME AllowedInv, [Next]_vars
             PROVE  /\ StatusesAllowed'
                    /\ \A r \in Sessions : req'[r] # NULL => WillBeAllowed(req[r])'
  BY SaysStep DEF AllowedInv
<1>1. /\ SaysInv /\ MeansInv /\ StoreInv /\ TypeOK
      /\ req \in [Sessions -> Request \cup {NULL}]
  BY DEF AllowedInv, SaysInv, MeansInv, StoreInv, LineageInv, TypeOK
<1>2. \A t \in TaskIds : exists(t) => events[t] \subseteq events'[t]
  BY <1>1, StoreGrows
<1>3. \A r \in Sessions : req[r] # NULL =>
         /\ req[r] \in Request /\ WillBeAllowed(req[r])
         /\ req[r].task # NULL => req[r].task \in TaskIds /\ exists(req[r].task)
  BY <1>1 DEF AllowedInv, MeansInv, RequestsMean, Request
\* The log only grows: a request that stays as it is stays justified.
<1>4. ASSUME NEW r \in Sessions, req[r] # NULL, req'[r].task = req[r].task,
             req'[r].event = req[r].event
      PROVE  WillBeAllowed(req[r])'
  <2>1. WillBeAllowed(req[r]) /\ (req[r].task # NULL =>
           events[req[r].task] \subseteq events'[req[r].task])
    BY <1>2, <1>3, <1>4
  <2> QED  BY <1>4, <2>1 DEF WillBeAllowed, Allowed
<1>5. ASSUME UNCHANGED events PROVE StatusesAllowed'
  BY <1>5 DEF AllowedInv, StatusesAllowed, Allowed
<1>6. ASSUME NEW s \in Sessions, NEW q, Begin(s, q), Admitted(q)
      PROVE  /\ StatusesAllowed'
             /\ \A r \in Sessions : req'[r] # NULL => WillBeAllowed(req[r])'
  <2>1. UNCHANGED events /\ req' = [req EXCEPT ![s] = q]
    BY <1>6 DEF Begin
  <2>2. WillBeAllowed(q)
    <3> SUFFICES ASSUME q.task # NULL, q.event.status # NULL
                 PROVE  /\ q.event.sequence # 0 =>
                              Allowed(q.task, q.event.status, q.event.sequence)
                        /\ \E f \in events[q.task] :
                              /\ f.status # NULL
                              /\ validate_transition(f.status, q.event.status)
      BY DEF WillBeAllowed
    <3>1. /\ q \in Request /\ q.task \in TaskIds /\ exists(q.task) /\ Announces(q)
          /\ Valid(q) /\ NumberOK(q)
      BY <1>6 DEF Admitted, Request
    <3>2. validate_transition(row[q.task].status, q.event.status)
      BY <3>1, NullAssumption DEF Announces, Valid
    <3>3. PICK f \in events[q.task] : f.status = row[q.task].status
      BY <1>1, <3>1 DEF SaysInv, LogSays
    <3>4. q.event.sequence # 0 => f.sequence < q.event.sequence
      BY <3>1 DEF NumberOK
    <3>5. f.status # NULL
      BY <1>1, <3>1, <3>3, NullAssumption DEF TypeOK, Row
    <3> QED  BY <3>2, <3>3, <3>4, <3>5 DEF Allowed
  <2>3. WillBeAllowed(req[s])'
    <3>1. req'[s] = q
      BY <1>1, <2>1
    <3> QED  BY <2>1, <2>2, <3>1 DEF WillBeAllowed, Allowed
  <2>4. \A r \in Sessions \ {s} : req'[r] = req[r]
    BY <1>1, <2>1
  <2> QED  BY <1>4, <1>5, <2>1, <2>3, <2>4
<1>7. ASSUME NEW s \in Sessions, Flush(s)
      PROVE  /\ StatusesAllowed'
             /\ \A r \in Sessions : req'[r] # NULL => WillBeAllowed(req[r])'
  <2>1. PICK n \in Nat, q \in Request :
          /\ req' = [req EXCEPT ![s] = q]
          /\ q = [req[s] EXCEPT !.phase = "flushed",
                                !.event = [req[s].event EXCEPT !.sequence = n]]
          /\ \A e \in events[req[s].task] : e.sequence < n
    BY <1>1, <1>7, FlushStep
  <2>2. req[s] # NULL /\ req[s] \in Request /\ UNCHANGED events
    BY <1>1, <1>7 DEF Flush
  <2>3. /\ q.task = req[s].task /\ q.event.sequence = n
        /\ q.event.status = req[s].event.status
    BY <2>1, <2>2 DEF Request, TaskEvent
  <2>4. req'[s] = q /\ \A r \in Sessions \ {s} : req'[r] = req[r]
    BY <1>1, <2>1
  <2>5. WillBeAllowed(req[s])
    BY <1>3, <2>2
  <2>6. WillBeAllowed(req[s])'
    BY <2>1, <2>2, <2>3, <2>4, <2>5 DEF WillBeAllowed, Allowed
  <2> QED  BY <1>4, <1>5, <2>2, <2>4, <2>6
<1>8. ASSUME NEW s \in Sessions, Commit(s)
      PROVE  /\ StatusesAllowed'
             /\ \A r \in Sessions : req'[r] # NULL => WillBeAllowed(req[r])'
  <2> DEFINE q == req[s]
  <2>1. /\ q \in Request /\ q # NULL
        /\ q.task # NULL => /\ q.task \in TaskIds
                            /\ events'[q.task] = events[q.task] \cup {q.event}
        /\ q.child # NULL => events'[q.child] = {created_event}
        /\ \A t \in TaskIds : (t # q.task /\ t # q.child) => events'[t] = events[t]
        /\ req' = [req EXCEPT ![s] = IF q.sidecar
                                     THEN [q EXCEPT !.phase = "committed"] ELSE NULL]
    BY <1>1, <1>8, CommitCases
  <2>2. q.event.sequence # 0 /\ WillBeAllowed(q)
    BY <1>3, <1>8, <2>1 DEF Commit
  <2>3. \A r \in Sessions : req'[r] # NULL =>
           req[r] # NULL /\ req'[r].task = req[r].task /\ req'[r].event = req[r].event
    <3>1. \A r \in Sessions \ {s} : req'[r] = req[r]
      BY <1>1, <2>1
    <3>2. /\ [q EXCEPT !.phase = "committed"].task = q.task
          /\ [q EXCEPT !.phase = "committed"].event = q.event
      BY <2>1 DEF Request
    <3> QED  BY <1>1, <2>1, <3>1, <3>2
  <2>4. ASSUME NEW t \in TaskIds, NEW e \in events'[t], e.status # NULL,
               e # created_event
        PROVE  Allowed(t, e.status, e.sequence)'
    <3>0. t # NULL
      BY NullAssumption
    <3>1. CASE t = q.child
      BY <2>1, <2>4, <3>0, <3>1
    <3>2. CASE t # q.child
      <4>1. events[t] \subseteq events'[t] /\ e \in events[t] \cup {q.event}
        BY <2>1, <3>0, <3>2
      <4>2. Allowed(t, e.status, e.sequence)
        <5>1. CASE e \in events[t]
          BY <2>4, <5>1 DEF AllowedInv, StatusesAllowed
        <5>2. CASE e \notin events[t]
          <6>1. e = q.event /\ t = q.task
            BY <2>1, <2>4, <3>2, <4>1, <5>2
          <6> QED  BY <2>2, <2>4, <3>0, <6>1 DEF WillBeAllowed
        <5> QED  BY <5>1, <5>2
      <4> QED  BY <4>1, <4>2 DEF Allowed
    <3> QED  BY <3>1, <3>2
  <2>5. created_event' = created_event
    BY DEF created_event, Event
  <2>6. StatusesAllowed'
    BY <2>4, <2>5 DEF StatusesAllowed
  <2> QED  BY <1>4, <2>3, <2>6
<1>9. ASSUME UNCHANGED events, \A r \in Sessions : req'[r] = NULL \/ req'[r] = req[r]
      PROVE  /\ StatusesAllowed'
             /\ \A r \in Sessions : req'[r] # NULL => WillBeAllowed(req[r])'
  BY <1>4, <1>5, <1>9
<1>10. ASSUME NEW s \in Sessions, IntegrityError(s) \/ ScheduleCallback(s)
       PROVE  /\ StatusesAllowed'
              /\ \A r \in Sessions : req'[r] # NULL => WillBeAllowed(req[r])'
  <2>1. UNCHANGED events /\ req' = [req EXCEPT ![s] = NULL]
    BY <1>10 DEF IntegrityError, ScheduleCallback
  <2> QED  BY <1>1, <1>9, <2>1
<1>13. ASSUME NEW s \in Sessions, FlushUpdate(s)
       PROVE  /\ StatusesAllowed'
              /\ \A r \in Sessions : req'[r] # NULL => WillBeAllowed(req[r])'
  <2>1. PICK q \in Request : /\ req' = [req EXCEPT ![s] = q]
                             /\ q = [req[s] EXCEPT !.phase = "updated"]
    BY <1>1, <1>13, UpdateStep
  <2>2. req[s] # NULL /\ req[s] \in Request /\ UNCHANGED events
    BY <1>1, <1>13 DEF FlushUpdate
  <2>3. q.task = req[s].task /\ q.event = req[s].event
    BY <2>1, <2>2 DEF Request
  <2>4. req'[s] = q /\ \A r \in Sessions \ {s} : req'[r] = req[r]
    BY <1>1, <2>1
  <2> QED  BY <1>4, <1>5, <2>2, <2>3, <2>4
<1>11. CASE Crash
  BY <1>9, <1>11 DEF Crash
<1>12. CASE Tick \/ UNCHANGED vars
  BY <1>9, <1>12 DEF Tick, vars
<1> QED  BY <1>1, <1>6, <1>7, <1>8, <1>10, <1>11, <1>12, <1>13, Steps DEF Proceed

\* However requests overlap, and although two neighbours in the log may then be no
\* valid transition, no status comes out of nowhere: each that the log announces,
\* after "accepted", is a valid successor of one that it had announced before.
THEOREM NoStatusFromNowhere == Spec => []StatusesAllowed
<1>1. Init => AllowedInv
  BY SaysInit DEF Init, AllowedInv, StatusesAllowed
<1>2. AllowedInv => StatusesAllowed
  BY DEF AllowedInv
<1> QED  BY <1>1, <1>2, AllowedStep, PTL DEF Spec

-----------------------------------------------------------------------------
(* The number of callbacks.  CallbacksCounted says how many there are when *)
(* requests do not overlap and nothing crashes; what remains otherwise.    *)

\* The events of the kinds that executors may post.
postable(t) == {e \in events[t] : e.event_type \in _VALID_EVENT_TYPES}

\* The sessions that have recorded an event and may still schedule a callback.
owing(t) == {s \in Sessions : /\ req[s] # NULL /\ req[s].task = t
                              /\ req[s].phase = "committed"}

\* There are no more callbacks than events that may cause one, and none without a
\* callback_url.
CallbacksPaid ==
    \A t \in TaskIds :
        /\ callbacks[t] <= Cardinality(postable(t))
        /\ callbacks[t] > 0 => exists(t) /\ tasks[t].callback_url

Paid(t) ==
    /\ IsFiniteSet(postable(t))
    /\ callbacks[t] + Cardinality(owing(t)) <= Cardinality(postable(t))
    /\ callbacks[t] > 0 => exists(t) /\ tasks[t].callback_url

PaidInv == MeansInv /\ \A t \in TaskIds : Paid(t)

LEMMA OwingCounted ==
    ASSUME NEW t
    PROVE  IsFiniteSet(owing(t)) /\ Cardinality(owing(t)) \in Nat
<1> DEFINE W == owing(t)
<1>1. W \subseteq Sessions /\ IsFiniteSet(Sessions)
  BY StoreAssumption DEF owing
<1> HIDE DEF W
<1>2. IsFiniteSet(W)
  BY <1>1, FS_Subset
<1> QED  BY <1>2, FS_CardinalityType DEF W

\* The event that is recorded pays for the session that now owes a callback.
LEMMA CommitPaid ==
    ASSUME PaidInv, NEW s \in Sessions, Commit(s), NEW t \in TaskIds
    PROVE  Paid(t)'
<1> DEFINE q == req[s]
           P == postable(t)
           Q == postable(t)'
           V == owing(t)
           W == owing(t)'
<1>0. t # NULL /\ Paid(t) /\ MeansInv /\ req \in [Sessions -> Request \cup {NULL}]
      /\ callbacks[t] \in Nat /\ callbacks' = callbacks
  BY NullAssumption DEF PaidInv, MeansInv, StoreInv, LineageInv, TypeOK, Commit
<1>m. MeansInv
  BY DEF PaidInv
<1>1. /\ q \in Request /\ q # NULL /\ Means(q) /\ q.phase # "committed"
      /\ q.task # NULL => /\ q.task \in TaskIds /\ exists(q.task) /\ q.task # q.child
                          /\ tasks'[q.task] = tasks[q.task]
                          /\ events'[q.task] = events[q.task] \cup {q.event}
                          /\ q.event \notin events[q.task]
      /\ q.child # NULL => ~exists(q.child) /\ events'[q.child] = {created_event}
      /\ (t # q.task /\ t # q.child) => tasks'[t] = tasks[t] /\ events'[t] = events[t]
      /\ req' = [req EXCEPT ![s] = IF q.sidecar
                                   THEN [q EXCEPT !.phase = "committed"] ELSE NULL]
  BY <1>m, CommitCases
<1>2. /\ \A r \in Sessions \ {s} : req'[r] = req[r]
      /\ q.sidecar => req'[s].phase = "committed" /\ req'[s].task = q.task /\ req'[s] # NULL
      /\ ~q.sidecar => req'[s] = NULL
  <2>1. q.sidecar => [q EXCEPT !.phase = "committed"] \in Request
    BY <1>1 DEF Request
  <2>2. q.sidecar => [q EXCEPT !.phase = "committed"] # NULL
    BY <2>1, RowAssumption
  <2> QED  BY <1>0, <1>1, <2>2 DEF Request
<1>3. q.sidecar => q.task # NULL /\ q.event.event_type \in _VALID_EVENT_TYPES
  BY <1>1, StoreAssumption DEF Means, TellsOutcome, OnlyInserts
<1>4. IsFiniteSet(V) /\ Cardinality(V) \in Nat /\ s \notin V
  BY <1>1, OwingCounted DEF owing
<1>5. IsFiniteSet(P) /\ Cardinality(P) \in Nat /\ callbacks[t] + Cardinality(V) <= Cardinality(P)
  BY <1>0, FS_CardinalityType DEF Paid
<1>6. (t = q.task /\ q.sidecar) => W = V \cup {s}
  BY <1>2 DEF owing
<1>7. ~(t = q.task /\ q.sidecar) => W = V
  BY <1>1, <1>2, <1>4 DEF owing
<1>8. ~exists(t) => V = {}
  BY <1>0, NullAssumption DEF owing, MeansInv, RequestsMean
<1> SUFFICES /\ IsFiniteSet(Q)
             /\ callbacks[t] + Cardinality(W) <= Cardinality(Q)
             /\ callbacks[t] > 0 => exists(t)' /\ tasks'[t].callback_url
  BY <1>0 DEF Paid
<1>9. callbacks[t] > 0 => exists(t) /\ tasks[t].callback_url
  BY <1>0 DEF Paid
<1>10. CASE t = q.task
  <2>1. /\ events'[t] = events[t] \cup {q.event} /\ q.event \notin events[t]
        /\ tasks'[t] = tasks[t]
    BY <1>0, <1>1, <1>10
  <2>2. Q = P \/ (Q = P \cup {q.event} /\ q.event \notin P)
    BY <2>1 DEF postable
  <2>3. q.sidecar => Q = P \cup {q.event} /\ q.event \notin P
    BY <1>3, <2>1 DEF postable
  <2>4. callbacks[t] > 0 => exists(t)' /\ tasks'[t].callback_url
    BY <1>9, <2>1 DEF exists
  <2> HIDE DEF P, Q, V, W, q
  <2>5. (Q = P \cup {q.event} /\ q.event \notin P) =>
           IsFiniteSet(Q) /\ Cardinality(Q) = Cardinality(P) + 1
    BY <1>5, FS_AddElement
  <2>6. W = V \cup {s} => Cardinality(W) = Cardinality(V) + 1
    BY <1>4, FS_AddElement
  <2> QED  BY <1>0, <1>4, <1>5, <1>6, <1>7, <1>10, <2>2, <2>3, <2>4, <2>5, <2>6
<1>11. CASE t = q.child
  <2>1. ~exists(t) /\ events'[t] = {created_event} /\ t # q.task
    BY <1>0, <1>1, <1>11
  <2>2. created_event.event_type = "created"
    BY DEF created_event, Event
  <2>3. Q = {} /\ W = {}
    BY <1>7, <1>8, <2>1, <2>2 DEF postable, _VALID_EVENT_TYPES
  <2>4. callbacks[t] = 0
    <3>1. ~(callbacks[t] > 0)
      BY <1>9, <2>1
    <3>2. callbacks[t] \in Nat
      BY <1>0
    <3> QED  BY <3>1, <3>2
  <2> QED  BY <2>3, <2>4, FS_EmptySet
<1>12. CASE t # q.task /\ t # q.child
  <2>1. Q = P /\ W = V /\ tasks'[t] = tasks[t]
    BY <1>1, <1>7, <1>12 DEF postable
  <2> QED  BY <1>5, <1>9, <2>1 DEF exists
<1> QED  BY <1>10, <1>11, <1>12

\* A step that only ends requests.
LEMMA QuietPaid ==
    ASSUME PaidInv, UNCHANGED <<tasks, events, callbacks>>, NEW t \in TaskIds,
           owing(t)' \subseteq owing(t)
    PROVE  Paid(t)'
<1> DEFINE P == postable(t)
           V == owing(t)
           W == owing(t)'
<1>1. IsFiniteSet(V) /\ Cardinality(V) \in Nat /\ W \subseteq V
  BY OwingCounted
<1>2. /\ IsFiniteSet(P) /\ callbacks[t] + Cardinality(V) <= Cardinality(P)
      /\ callbacks[t] > 0 => exists(t) /\ tasks[t].callback_url
      /\ callbacks[t] \in Nat
  BY DEF PaidInv, Paid, MeansInv, StoreInv, LineageInv, TypeOK
<1>3. postable(t)' = P
  BY DEF postable
<1> HIDE DEF P, V, W
<1>4. Cardinality(W) \in Nat /\ Cardinality(W) <= Cardinality(V)
  BY <1>1, FS_Subset, FS_CardinalityType
<1>5. Cardinality(P) \in Nat
  BY <1>2, FS_CardinalityType
<1>6. callbacks[t] + Cardinality(W) <= Cardinality(P)
  BY <1>1, <1>2, <1>4, <1>5
<1> QED  BY <1>2, <1>3, <1>6 DEF Paid, exists, W

\* The callback is one that the session owed.
LEMMA SchedulePaid ==
    ASSUME PaidInv, NEW s \in Sessions, ScheduleCallback(s), NEW t \in TaskIds
    PROVE  Paid(t)'
<1>1. /\ req[s] # NULL /\ req[s].phase = "committed"
      /\ req' = [req EXCEPT ![s] = NULL] /\ UNCHANGED <<tasks, events>>
      /\ \/ callbacks' = callbacks
         \/ /\ tasks[req[s].task].callback_url
            /\ callbacks' = [callbacks EXCEPT ![req[s].task] = @ + 1]
  BY DEF ScheduleCallback
<1>2. req \in [Sessions -> Request \cup {NULL}] /\ callbacks \in [TaskIds -> Nat]
  BY DEF PaidInv, MeansInv, StoreInv, LineageInv, TypeOK
<1>3. owing(t)' = owing(t) \ {s} /\ (req[s].task = t => s \in owing(t))
  BY <1>1, <1>2 DEF owing
<1>4. CASE callbacks'[t] = callbacks[t]
  <2> DEFINE P == postable(t)
             V == owing(t)
             W == owing(t)'
  <2>1. IsFiniteSet(V) /\ Cardinality(V) \in Nat /\ W \subseteq V
    BY <1>3, OwingCounted
  <2>2. /\ IsFiniteSet(P) /\ callbacks[t] + Cardinality(V) <= Cardinality(P)
        /\ callbacks[t] > 0 => exists(t) /\ tasks[t].callback_url
        /\ callbacks[t] \in Nat
    BY <1>2 DEF PaidInv, Paid
  <2>3. postable(t)' = P
    BY <1>1 DEF postable
  <2> HIDE DEF P, V, W
  <2>4. Cardinality(W) \in Nat /\ Cardinality(W) <= Cardinality(V)
    BY <2>1, FS_Subset, FS_CardinalityType
  <2>5. Cardinality(P) \in Nat
    BY <2>2, FS_CardinalityType
  <2>6. callbacks'[t] + Cardinality(W) <= Cardinality(P)
    BY <1>4, <2>1, <2>2, <2>4, <2>5
  <2> QED  BY <1>1, <1>4, <2>2, <2>3, <2>6 DEF Paid, exists, W
<1>5. CASE callbacks'[t] # callbacks[t]
  <2>1. /\ req[s].task = t /\ callbacks'[t] = callbacks[t] + 1
        /\ tasks[t].callback_url
    BY <1>1, <1>2, <1>5
  <2>2. exists(t)
    BY <1>1, <2>1, NullAssumption DEF PaidInv, MeansInv, RequestsMean
  <2> DEFINE P == postable(t)
             V == owing(t)
             W == owing(t)'
  <2>3. IsFiniteSet(V) /\ Cardinality(V) \in Nat /\ W = V \ {s} /\ s \in V
    BY <1>3, <2>1, OwingCounted
  <2>4. /\ IsFiniteSet(P) /\ callbacks[t] + Cardinality(V) <= Cardinality(P)
        /\ callbacks[t] \in Nat
    BY <1>2 DEF PaidInv, Paid
  <2>5. postable(t)' = P
    BY <1>1 DEF postable
  <2> HIDE DEF P, V, W
  <2>6. Cardinality(W) = Cardinality(V) - 1
    BY <2>3, FS_RemoveElement
  <2>7. Cardinality(P) \in Nat
    BY <2>4, FS_CardinalityType
  <2>8. callbacks'[t] + Cardinality(W) <= Cardinality(P)
    BY <2>1, <2>3, <2>4, <2>6, <2>7
  <2> QED  BY <1>1, <2>1, <2>2, <2>4, <2>5, <2>8 DEF Paid, exists, W
<1> QED  BY <1>4, <1>5

LEMMA PaidStep == PaidInv /\ [Next]_vars => PaidInv'
<1> SUFFICES ASSUME PaidInv, [Next]_vars, NEW t \in TaskIds PROVE Paid(t)'
  BY MeansStep DEF PaidInv
<1>1. TypeOK /\ req \in [Sessions -> Request \cup {NULL}]
  BY DEF PaidInv, MeansInv, StoreInv, LineageInv, TypeOK
<1>2. ASSUME NEW s \in Sessions, NEW q, Begin(s, q), Admitted(q) PROVE Paid(t)'
  <2>1. /\ UNCHANGED <<tasks, events, callbacks>> /\ req' = [req EXCEPT ![s] = q]
        /\ q.phase = "loaded"
    BY <1>2 DEF Begin, Admitted
  <2>2. owing(t)' \subseteq owing(t)
    BY <1>1, <2>1 DEF owing
  <2> QED  BY <2>1, <2>2, QuietPaid
<1>3. ASSUME NEW s \in Sessions, Flush(s) PROVE Paid(t)'
  <2>1. PICK q \in Request, n \in Nat :
          /\ req' = [req EXCEPT ![s] = q]
          /\ q = [req[s] EXCEPT !.phase = "flushed",
                                !.event = [req[s].event EXCEPT !.sequence = n]]
    BY <1>1, <1>3, FlushStep
  <2>2. req[s] \in Request /\ UNCHANGED <<tasks, events, callbacks>>
    BY <1>1, <1>3 DEF Flush
  <2>3. q.phase = "flushed"
    BY <2>1, <2>2 DEF Request
  <2>4. owing(t)' \subseteq owing(t)
    BY <1>1, <2>1, <2>3 DEF owing
  <2> QED  BY <2>2, <2>4, QuietPaid
<1>6. ASSUME NEW s \in Sessions, FlushUpdate(s) PROVE Paid(t)'
  <2>1. PICK q \in Request : /\ req' = [req EXCEPT ![s] = q]
                             /\ q = [req[s] EXCEPT !.phase = "updated"]
    BY <1>1, <1>6, UpdateStep
  <2>2. req[s] \in Request /\ UNCHANGED <<tasks, events, callbacks>>
    BY <1>1, <1>6 DEF FlushUpdate
  <2>3. q.phase = "updated"
    BY <2>1, <2>2 DEF Request
  <2>4. owing(t)' \subseteq owing(t)
    BY <1>1, <2>1, <2>3 DEF owing
  <2> QED  BY <2>2, <2>4, QuietPaid
<1>4. ASSUME NEW s \in Sessions, IntegrityError(s) PROVE Paid(t)'
  <2>1. UNCHANGED <<tasks, events, callbacks>> /\ req' = [req EXCEPT ![s] = NULL]
    BY <1>4 DEF IntegrityError
  <2>2. owing(t)' \subseteq owing(t)
    BY <1>1, <2>1 DEF owing
  <2> QED  BY <2>1, <2>2, QuietPaid
<1>5. CASE Crash \/ Tick \/ UNCHANGED vars
  <2>1. UNCHANGED <<tasks, events, callbacks>> /\ owing(t)' \subseteq owing(t)
    BY <1>5 DEF Crash, Tick, vars, owing
  <2> QED  BY <2>1, QuietPaid
<1> QED  BY <1>1, <1>2, <1>3, <1>4, <1>5, <1>6, CommitPaid, SchedulePaid, Steps DEF Proceed

LEMMA PaidInit == Init => PaidInv
<1> SUFFICES ASSUME Init, NEW t \in TaskIds PROVE Paid(t)
  BY MeansInit DEF PaidInv
<1>1. postable(t) = {} /\ owing(t) = {} /\ callbacks[t] = 0
  BY DEF Init, postable, owing
<1> QED  BY <1>1, FS_EmptySet DEF Paid

LEMMA PaidEnough == PaidInv => CallbacksPaid
<1> SUFFICES ASSUME PaidInv, NEW t \in TaskIds
             PROVE  /\ callbacks[t] <= Cardinality(postable(t))
                    /\ callbacks[t] > 0 => exists(t) /\ tasks[t].callback_url
  BY DEF CallbacksPaid
<1>1. Paid(t) /\ callbacks[t] \in Nat
  BY DEF PaidInv, MeansInv, StoreInv, LineageInv, TypeOK
<1>2. Cardinality(owing(t)) \in Nat /\ Cardinality(postable(t)) \in Nat
  BY <1>1, OwingCounted, FS_CardinalityType DEF Paid
<1>3. callbacks[t] + Cardinality(owing(t)) <= Cardinality(postable(t))
  BY <1>1 DEF Paid
<1>4. callbacks[t] <= Cardinality(postable(t))
  BY <1>1, <1>2, <1>3
<1> QED  BY <1>1, <1>4 DEF Paid

\* Whatever overlaps or crashes, a task without callback_url is never called back,
\* and no recorded event is called back twice: there are at most as many callbacks
\* as events of the kinds executors post.
THEOREM CallbacksArePaid == Spec => []CallbacksPaid
BY PaidInit, PaidStep, PaidEnough, PTL DEF Spec

-----------------------------------------------------------------------------
(* The locks.  A session gets the row of the task with its UPDATE and the   *)
(* key of the successor with its INSERT, in this order, and may hold the    *)
(* row while it waits for the key.  Whoever has a key has all it needs, so  *)
(* nobody who holds a key waits for a row.                                  *)

\* What two sessions that hold locks cannot share: the row they have updated, the
\* key they have inserted.
Clash(p, q) ==
    \/ p.update # Unchanged /\ q.update # Unchanged /\ p.task = q.task
    \/ /\ p.phase = "flushed" /\ q.phase = "flushed"
       /\ p.insert # NULL /\ q.insert # NULL
       /\ p.insert.idempotency_key # NULL
       /\ p.insert.idempotency_key = q.insert.idempotency_key

HoldsLocks(s) == req[s] # NULL /\ req[s].phase \in {"updated", "flushed"}

LocksExclusive ==
    \A r, s \in Sessions :
        (r # s /\ HoldsLocks(r) /\ HoldsLocks(s)) => ~Clash(req[r], req[s])

\* A session that has sent its UPDATE had one to send, and its event has no number
\* yet; nor has that of one which is to supersede a task and has sent nothing.
Phased(q) ==
    /\ q.phase = "updated" => q.update # Unchanged /\ q.event.sequence = 0
    /\ (q.phase = "loaded" /\ q.task # NULL /\ q.child # NULL) => q.event.sequence = 0

AllPhased == \A s \in Sessions : req[s] # NULL => Phased(req[s])

\* The requests that will still write the task.
writers(t) == {s \in Sessions : /\ req[s] # NULL /\ req[s].task = t
                                /\ req[s].phase # "committed"}

\* However many writers a task has, each finds a number within the bound of Flush.
NumbersLast ==
    \A t \in TaskIds :
        /\ \A e \in events[t] :
              e.sequence + Cardinality(writers(t)) <= MaxSequence + Cardinality(Sessions)
        /\ \A s \in writers(t) :
              /\ req[s].phase # "flushed" => req[s].event.sequence <= MaxSequence
              /\ req[s].phase = "flushed" =>
                    \E e \in events[t] : e.sequence = req[s].event.sequence - 1

\* Requests are taken up below the bound on the numbers.
BelowBound(q) ==
    q.task # NULL => /\ room(q.task)
                     /\ q.event.sequence <= MaxSequence

LEMMA PrincipalBelow ==
    ASSUME NEW s \in Sessions, NEW t \in TaskIds, Principal(s, t)
    PROVE  \E q : Begin(s, q) /\ BelowBound(q)
<1> DEFINE Goal == \E q : Begin(s, q) /\ BelowBound(q)
<1>0. 0 <= MaxSequence
  BY StoreAssumption
<1>1. PICK caller \in Agents :
        \/ cancel_task(s, t, caller)
        \/ pause_task(s, t, caller)
        \/ resume_task(s, t, caller)
        \/ \E sequence \in 1..MaxContext : inject_context(s, t, caller, sequence)
        \/ \E input \in Inputs, key \in Keys \cup {NULL}, new \in TaskIds :
              \/ retask_task(s, t, caller, input, key, new)
              \/ \E inherit_progress \in BOOLEAN :
                    redirect_task(s, t, caller, input, key, inherit_progress, new)
  BY DEF Principal
<1>2. ASSUME NEW u, NEW k, NEW st, room(t), Begin(s, Lifecycle(t, u, k, st))
      PROVE  Goal
  <2>1. Lifecycle(t, u, k, st).task = t /\ Lifecycle(t, u, k, st).event.sequence = 0
    BY DEF Lifecycle, Event
  <2> QED  BY <1>0, <1>2, <2>1 DEF BelowBound
<1>3. CASE cancel_task(s, t, caller) \/ pause_task(s, t, caller)
  BY <1>2, <1>3 DEF cancel_task, pause_task
<1>4. CASE resume_task(s, t, caller)
  BY <1>2, <1>4 DEF resume_task
<1>5. ASSUME NEW sequence \in 1..MaxContext, inject_context(s, t, caller, sequence)
      PROVE  Goal
  <2> DEFINE q == [Lifecycle(t, Unchanged, "context_injected", NULL)
                     EXCEPT !.event = Event(0, "context_injected", NULL, sequence),
                            !.seen = context_events(t)]
  <2>1. q.task = t /\ q.event.sequence = 0
    BY DEF Lifecycle, Event
  <2>2. room(t) /\ Begin(s, q)
    BY <1>5 DEF inject_context
  <2> QED  BY <1>0, <2>1, <2>2 DEF BelowBound
<1>6. ASSUME NEW u, NEW st, NEW new, NEW i, NEW m, room(t),
             Begin(s, [Lifecycle(t, u, "status", st)
                         EXCEPT !.child = new, !.insert = i, !.metadata = m])
      PROVE  Goal
  <2> DEFINE q == [Lifecycle(t, u, "status", st)
                     EXCEPT !.child = new, !.insert = i, !.metadata = m]
  <2>1. q.task = t /\ q.event.sequence = 0
    BY DEF Lifecycle, Event
  <2> QED  BY <1>0, <1>6, <2>1 DEF BelowBound
<1>7. ASSUME NEW input \in Inputs, NEW key \in Keys \cup {NULL}, NEW new \in TaskIds,
             retask_task(s, t, caller, input, key, new)
      PROVE  Goal
  BY <1>6, <1>7 DEF retask_task
<1>8. ASSUME NEW input \in Inputs, NEW key \in Keys \cup {NULL}, NEW new \in TaskIds,
             NEW inherit_progress \in BOOLEAN,
             redirect_task(s, t, caller, input, key, inherit_progress, new)
      PROVE  Goal
  BY <1>6, <1>8 DEF redirect_task
<1> QED  BY <1>1, <1>3, <1>4, <1>5, <1>7, <1>8

LEMMA SidecarBelow ==
    ASSUME TypeOK, NEW s \in Sessions, NEW t \in TaskIds, process_sidecar_event(s, t)
    PROVE  \E q : Begin(s, q) /\ BelowBound(q)
<1>1. PICK sequence \in 1..MaxSequence :
        \/ \E new_status \in ExecutorStatuses :
              sidecar_status(s, t, sequence, new_status)
        \/ \E result \in {NULL, "result"}, quality \in BOOLEAN :
              sidecar_completed(s, t, sequence, result, quality)
        \/ sidecar_failed(s, t, sequence)
        \/ \E progress \in Progress : sidecar_progress(s, t, sequence, progress)
        \/ \E event_type \in ExecutorEvents, context \in 0..MaxContext :
              sidecar_record(s, t, sequence, event_type, context)
  BY DEF process_sidecar_event
<1>2. PICK e, u : PostEvent(s, t, e, u) /\ e.sequence = sequence
  <2>1. \A k, st, c, v :
           /\ Event(sequence, k, st, c).sequence = sequence
           /\ [Event(sequence, k, st, c) EXCEPT !.result = v].sequence = sequence
    BY DEF Event
  <2> DEFINE Goal == \E e, u : PostEvent(s, t, e, u) /\ e.sequence = sequence
  <2>2. ASSUME NEW new_status \in ExecutorStatuses,
               sidecar_status(s, t, sequence, new_status)
        PROVE  Goal
    BY <2>1, <2>2 DEF sidecar_status
  <2>3. ASSUME NEW result \in {NULL, "result"}, NEW quality \in BOOLEAN,
               sidecar_completed(s, t, sequence, result, quality)
        PROVE  Goal
    <3> DEFINE done == [Event(sequence, "completed", "completed", 0)
                          EXCEPT !.result = result]
    <3>1. done.sequence = sequence
      BY <2>1
    <3>2. PICK u : PostEvent(s, t, done, u)
      BY <2>3 DEF sidecar_completed
    <3> HIDE DEF done
    <3> QED  BY <3>1, <3>2
  <2>4. ASSUME sidecar_failed(s, t, sequence)
        PROVE  Goal
    <3> DEFINE done == [Event(sequence, "failed", "failed", 0)
                          EXCEPT !.result = "error"]
    <3>1. done.sequence = sequence
      BY <2>1
    <3>2. PICK u : PostEvent(s, t, done, u)
      BY <2>4 DEF sidecar_failed
    <3> HIDE DEF done
    <3> QED  BY <3>1, <3>2
  <2>5. ASSUME NEW progress \in Progress, sidecar_progress(s, t, sequence, progress)
        PROVE  Goal
    BY <2>1, <2>5 DEF sidecar_progress
  <2>6. ASSUME NEW event_type \in ExecutorEvents, NEW context \in 0..MaxContext,
               sidecar_record(s, t, sequence, event_type, context)
        PROVE  Goal
    BY <2>1, <2>6 DEF sidecar_record
  <2> HIDE DEF Goal
  <2>7. Goal
    BY <1>1, <2>2, <2>3, <2>4, <2>5, <2>6
  <2> QED  BY <2>7 DEF Goal
<1> DEFINE q == [Lifecycle(t, u, e.event_type, e.status)
                   EXCEPT !.sidecar = TRUE, !.event = e,
                          !.seen = IF e.event_type = "context_injected"
                                   THEN context_events(t) ELSE {}]
<1>3. Begin(s, q) /\ \A f \in events[t] : f.sequence < e.sequence
  BY <1>2 DEF PostEvent
<1>4. q.task = t /\ q.event = e
  BY DEF Lifecycle
<1>5. \A f \in events[t] : f.sequence \in Nat
  BY DEF TypeOK, TaskEvent
<1>6. room(t) /\ e.sequence <= MaxSequence
  BY <1>2, <1>3, <1>5, StoreAssumption DEF room
<1> QED  BY <1>3, <1>4, <1>6 DEF BelowBound

LEMMA DispatchBelow ==
    ASSUME NEW s \in Sessions, Dispatch(s)
    PROVE  \E q : Begin(s, q) /\ BelowBound(q)
<1>1. PICK caller, executor \in Agents, input \in Inputs,
           key \in Keys \cup {NULL}, callback_url \in CallbackUrls,
           metadata \in DispatchMetadata, new \in TaskIds :
        create_task(s, caller, executor, input, key, callback_url, metadata, new)
  BY DEF Dispatch
<1> QED  BY <1>1 DEF create_task, BelowBound

LEMMA BoundedSteps ==
    ASSUME TypeOK, [Next]_vars
    PROVE  \/ \E s \in Sessions : \E q : /\ Begin(s, q) /\ Admitted(q)
                                         /\ Described(q) /\ BelowBound(q)
           \/ \E s \in Sessions : Proceed(s)
           \/ Crash
           \/ Tick
           \/ UNCHANGED vars
<1>1. ASSUME NEW s \in Sessions, NEW q, Begin(s, q), Admitted(q),
             NEW r \in Sessions, NEW p, Begin(r, p)
      PROVE  r = s /\ p = q
  <2>1. req \in [Sessions -> Request \cup {NULL}] /\ q # NULL
    BY <1>1, RowAssumption DEF TypeOK, Admitted
  <2>2. /\ req' = [req EXCEPT ![s] = q] /\ req[s] = NULL
        /\ req' = [req EXCEPT ![r] = p] /\ req[r] = NULL
    BY <1>1 DEF Begin
  <2> QED  BY <2>1, <2>2
<1>2. ASSUME NEW s \in Sessions,
             Dispatch(s) \/ \E t \in TaskIds : Principal(s, t) \/ process_sidecar_event(s, t)
      PROVE  /\ \E q : Begin(s, q) /\ BelowBound(q)
             /\ \E q : Begin(s, q) /\ Admitted(q) /\ Described(q)
  <2>1. \E p : Begin(s, p) /\ BelowBound(p)
    BY <1>2, DispatchBelow, PrincipalBelow, SidecarBelow
  <2>2. PICK p : Begin(s, p) /\ Admitted(p)
    BY <1>2, DispatchAdmitted, PrincipalAdmitted, SidecarAdmitted
  <2>3. PICK q : Begin(s, q) /\ Described(q)
    BY <1>2, DispatchDescribed, PrincipalDescribed, SidecarDescribed
  <2>4. p = q
    BY <1>1, <2>2, <2>3
  <2> QED  BY <2>1, <2>2, <2>3, <2>4
<1>3. ASSUME NEW s \in Sessions,
             Dispatch(s) \/ \E t \in TaskIds : Principal(s, t) \/ process_sidecar_event(s, t)
      PROVE  \E q : Begin(s, q) /\ Admitted(q) /\ Described(q) /\ BelowBound(q)
  BY <1>1, <1>2, <1>3
<1> QED  BY <1>3 DEF Next

\* Who takes a lock has looked whether somebody has it.
LEMMA TakesLocks ==
    ASSUME LocksExclusive, req \in [Sessions -> Request \cup {NULL}],
           NEW s \in Sessions, NEW q, req' = [req EXCEPT ![s] = q],
           \A r \in Sessions \ {s} :
              HoldsLocks(r) => ~Clash(req[r], q) /\ ~Clash(q, req[r])
    PROVE  LocksExclusive'
<1>1. ASSUME NEW r \in Sessions, NEW u \in Sessions, r # u, HoldsLocks(r)', HoldsLocks(u)'
      PROVE  ~Clash(req'[r], req'[u])
  <2>1. \A v \in Sessions \ {s} : req'[v] = req[v] /\ (HoldsLocks(v)' => HoldsLocks(v))
    BY DEF HoldsLocks
  <2>2. req'[s] = q
    OBVIOUS
  <2>3. CASE r = s
    BY <1>1, <2>1, <2>2, <2>3
  <2>4. CASE u = s
    BY <1>1, <2>1, <2>2, <2>4
  <2>5. CASE r # s /\ u # s
    BY <1>1, <2>1, <2>5 DEF LocksExclusive
  <2> QED  BY <2>3, <2>4, <2>5
<1>2. \A r, u \in Sessions :
        (r # u /\ HoldsLocks(r)' /\ HoldsLocks(u)') => ~Clash(req'[r], req'[u])
  BY <1>1
<1> QED  BY <1>2 DEF LocksExclusive, Clash

LEMMA UpdateLocks ==
    ASSUME MeansInv, LocksExclusive, NEW s \in Sessions, FlushUpdate(s)
    PROVE  LocksExclusive'
<1>1. TypeOK /\ req \in [Sessions -> Request \cup {NULL}]
  BY DEF MeansInv, StoreInv, LineageInv, TypeOK
<1>2. PICK q \in Request : /\ req' = [req EXCEPT ![s] = q]
                           /\ q = [req[s] EXCEPT !.phase = "updated"]
  BY <1>1, UpdateStep
<1>3. req[s] # NULL /\ req[s] \in Request /\ row_free(s)
  BY <1>1 DEF FlushUpdate
<1>4. q.update = req[s].update /\ q.task = req[s].task /\ q.phase = "updated"
  BY <1>2, <1>3 DEF Request
<1>5. ASSUME NEW r \in Sessions \ {s}, HoldsLocks(r)
      PROVE  ~Clash(req[r], q) /\ ~Clash(q, req[r])
  <2>1. req[s].update # Unchanged =>
           ~(req[r].update # Unchanged /\ req[r].task = req[s].task)
    BY <1>3, <1>5 DEF row_free, locked, HoldsLocks
  <2> QED  BY <1>4, <2>1 DEF Clash
<1> QED  BY <1>1, <1>2, <1>5, TakesLocks

LEMMA FlushLocks ==
    ASSUME MeansInv, LocksExclusive, NEW s \in Sessions, Flush(s)
    PROVE  LocksExclusive'
<1>1. TypeOK /\ req \in [Sessions -> Request \cup {NULL}]
  BY DEF MeansInv, StoreInv, LineageInv, TypeOK
<1>2. PICK n \in Nat, q \in Request :
        /\ req' = [req EXCEPT ![s] = q]
        /\ q = [req[s] EXCEPT !.phase = "flushed",
                              !.event = [req[s].event EXCEPT !.sequence = n]]
  BY <1>1, FlushStep
<1>3. /\ req[s] # NULL /\ req[s] \in Request /\ key_free(s)
      /\ req[s].update # Unchanged => req[s].phase = "updated"
  BY <1>1 DEF Flush
<1>4. q.update = req[s].update /\ q.insert = req[s].insert /\ q.task = req[s].task
  BY <1>2, <1>3 DEF Request
<1>5. ASSUME NEW r \in Sessions \ {s}, HoldsLocks(r)
      PROVE  ~Clash(req[r], q) /\ ~Clash(q, req[r])
  \* It has had the row since its UPDATE.
  <2>1. req[s].update # Unchanged =>
           ~(req[r].update # Unchanged /\ req[r].task = req[s].task)
    <3> SUFFICES ASSUME req[s].update # Unchanged
                 PROVE  ~(req[r].update # Unchanged /\ req[r].task = req[s].task)
      OBVIOUS
    <3>1. HoldsLocks(s)
      BY <1>3 DEF HoldsLocks
    <3> QED  BY <1>5, <3>1 DEF LocksExclusive, Clash
  <2>2. (req[s].insert # NULL /\ req[s].insert.idempotency_key # NULL) =>
          ~(/\ req[r].phase = "flushed" /\ req[r].insert # NULL
            /\ req[r].insert.idempotency_key = req[s].insert.idempotency_key)
    BY <1>3, <1>5 DEF key_free, key_locked, HoldsLocks
  <2> QED  BY <1>4, <2>1, <2>2 DEF Clash
<1> QED  BY <1>1, <1>2, <1>5, TakesLocks

\* The other steps give no locks.
LEMMA LocksStep == MeansInv /\ LocksExclusive /\ [Next]_vars => LocksExclusive'
<1> SUFFICES ASSUME MeansInv, LocksExclusive, [Next]_vars PROVE LocksExclusive'
  OBVIOUS
<1>1. TypeOK /\ req \in [Sessions -> Request \cup {NULL}]
  BY DEF MeansInv, StoreInv, LineageInv, TypeOK
<1>2. ASSUME \A r \in Sessions : HoldsLocks(r)' => HoldsLocks(r) /\ req'[r] = req[r]
      PROVE  LocksExclusive'
  <2>1. \A r, s \in Sessions :
          (r # s /\ HoldsLocks(r)' /\ HoldsLocks(s)') => ~Clash(req'[r], req'[s])
    BY <1>2 DEF LocksExclusive
  <2> QED  BY <2>1 DEF LocksExclusive, Clash
<1>3. ASSUME NEW s \in Sessions, NEW q, Begin(s, q), Admitted(q)
      PROVE  LocksExclusive'
  <2>1. req' = [req EXCEPT ![s] = q] /\ q.phase = "loaded"
    BY <1>3 DEF Begin, Admitted
  <2> QED  BY <1>1, <1>2, <2>1 DEF HoldsLocks
<1>4. ASSUME NEW s \in Sessions, Commit(s)
      PROVE  LocksExclusive'
  <2>1. req' = [req EXCEPT ![s] = IF req[s].sidecar
                                  THEN [req[s] EXCEPT !.phase = "committed"] ELSE NULL]
        /\ req[s] \in Request
    BY <1>1, <1>4 DEF Commit
  <2>2. [req[s] EXCEPT !.phase = "committed"].phase = "committed"
    BY <2>1 DEF Request
  <2>3. ~HoldsLocks(s)' /\ \A r \in Sessions \ {s} : req'[r] = req[r]
    BY <1>1, <2>1, <2>2 DEF HoldsLocks
  <2> QED  BY <1>2, <2>3 DEF HoldsLocks
<1>5. ASSUME NEW s \in Sessions, IntegrityError(s) \/ ScheduleCallback(s)
      PROVE  LocksExclusive'
  <2>1. req' = [req EXCEPT ![s] = NULL]
    BY <1>5 DEF IntegrityError, ScheduleCallback
  <2> QED  BY <1>1, <1>2, <2>1 DEF HoldsLocks
<1>6. CASE Crash
  BY <1>2, <1>6 DEF Crash, HoldsLocks
<1>7. CASE Tick \/ UNCHANGED vars
  BY <1>2, <1>7 DEF Tick, vars, HoldsLocks
<1> QED  BY <1>1, <1>3, <1>4, <1>5, <1>6, <1>7, UpdateLocks, FlushLocks, Steps
         DEF Proceed

LEMMA PhasedStep == MeansInv /\ AllPhased /\ [Next]_vars => AllPhased'
<1> SUFFICES ASSUME MeansInv, AllPhased, [Next]_vars, NEW r \in Sessions, req'[r] # NULL
             PROVE  Phased(req'[r])
  BY DEF AllPhased, Phased, Unchanged
<1>1. TypeOK /\ req \in [Sessions -> Request \cup {NULL}]
  BY DEF MeansInv, StoreInv, LineageInv, TypeOK
<1>2. ASSUME NEW s \in Sessions, NEW q, req' = [req EXCEPT ![s] = q],
             q # NULL => Phased(q)
      PROVE  Phased(req'[r])
  BY <1>1, <1>2 DEF AllPhased
<1>3. ASSUME NEW s \in Sessions, NEW q, Begin(s, q), Admitted(q) PROVE Phased(req'[r])
  <2>1. req' = [req EXCEPT ![s] = q]
    BY <1>3 DEF Begin
  <2>2. Phased(q)
    BY <1>3 DEF Admitted, InsertOK, NumberOK, Phased
  <2> QED  BY <1>2, <2>1, <2>2
<1>4. ASSUME NEW s \in Sessions, FlushUpdate(s) PROVE Phased(req'[r])
  <2>1. PICK q \in Request : /\ req' = [req EXCEPT ![s] = q]
                             /\ q = [req[s] EXCEPT !.phase = "updated"]
    BY <1>1, <1>4, UpdateStep
  <2>2. /\ req[s] \in Request
        /\ req[s].update # Unchanged /\ req[s].event.sequence = 0
    BY <1>1, <1>4 DEF FlushUpdate
  <2>3. q.phase = "updated" /\ q.update = req[s].update /\ q.event = req[s].event
    BY <2>1, <2>2 DEF Request
  <2>4. Phased(q)
    BY <2>2, <2>3 DEF Phased
  <2> QED  BY <1>2, <2>1, <2>4
<1>5. ASSUME NEW s \in Sessions, Flush(s) PROVE Phased(req'[r])
  <2>1. PICK n \in Nat, q \in Request :
          /\ req' = [req EXCEPT ![s] = q]
          /\ q = [req[s] EXCEPT !.phase = "flushed",
                                !.event = [req[s].event EXCEPT !.sequence = n]]
    BY <1>1, <1>5, FlushStep
  <2>2. req[s] \in Request
    BY <1>1, <1>5 DEF Flush
  <2>3. q.phase = "flushed"
    BY <2>1, <2>2 DEF Request
  <2>4. Phased(q)
    BY <2>3 DEF Phased
  <2> QED  BY <1>2, <2>1, <2>4
<1>6. ASSUME NEW s \in Sessions, Commit(s) PROVE Phased(req'[r])
  <2>1. req' = [req EXCEPT ![s] = IF req[s].sidecar
                                  THEN [req[s] EXCEPT !.phase = "committed"] ELSE NULL]
        /\ req[s] \in Request
    BY <1>1, <1>6 DEF Commit
  <2>2. [req[s] EXCEPT !.phase = "committed"].phase = "committed"
    BY <2>1 DEF Request
  <2>3. Phased([req[s] EXCEPT !.phase = "committed"])
    BY <2>2 DEF Phased
  <2> QED  BY <1>2, <2>1, <2>3
<1>7. ASSUME NEW s \in Sessions, IntegrityError(s) \/ ScheduleCallback(s)
      PROVE  Phased(req'[r])
  <2>1. req' = [req EXCEPT ![s] = NULL]
    BY <1>7 DEF IntegrityError, ScheduleCallback
  <2> QED  BY <1>2, <2>1
<1>8. CASE Crash \/ Tick \/ UNCHANGED vars
  <2>1. req'[r] = req[r]
    BY <1>8 DEF Crash, Tick, vars
  <2> QED  BY <2>1 DEF AllPhased
<1> QED  BY <1>1, <1>3, <1>4, <1>5, <1>6, <1>7, <1>8, Steps DEF Proceed

LEMMA WritersCounted ==
    ASSUME NEW t
    PROVE  /\ IsFiniteSet(writers(t))
           /\ Cardinality(writers(t)) \in Nat
           /\ Cardinality(Sessions) \in Nat
           /\ Cardinality(writers(t)) <= Cardinality(Sessions)
<1> DEFINE W == writers(t)
<1>1. W \subseteq Sessions /\ IsFiniteSet(Sessions)
  BY StoreAssumption DEF writers
<1> HIDE DEF W
<1>2. IsFiniteSet(W) /\ Cardinality(W) <= Cardinality(Sessions)
  BY <1>1, FS_Subset
<1>3. Cardinality(W) \in Nat /\ Cardinality(Sessions) \in Nat
  BY <1>1, <1>2, FS_CardinalityType
<1> QED  BY <1>2, <1>3 DEF W

\* The numbers of logs and requests, as the steps below use them.
LEMMA NumberFacts ==
    ASSUME SaysInv
    PROVE  /\ TypeOK /\ req \in [Sessions -> Request \cup {NULL}]
           /\ \A t \in TaskIds : \A e \in events[t] : e.sequence \in Nat /\ e.sequence > 0
           /\ \A s \in Sessions : req[s] # NULL => /\ req[s] \in Request
                                                  /\ req[s].event.sequence \in Nat
           /\ \A t \in TaskIds : exists(t) => events[t] # {}
           /\ \A t \in TaskIds : writers(t) # {} => exists(t)
           /\ MaxSequence \in Nat
<1>1. TypeOK /\ Numbered /\ RequestsMean /\ LogSays
  BY DEF SaysInv, MeansInv, StoreInv, LineageInv
<1>2. \A t \in TaskIds : \A e \in events[t] : e.sequence \in Nat /\ e.sequence > 0
  BY <1>1 DEF Numbered, TypeOK, TaskEvent
<1>3. \A s \in Sessions : req[s] # NULL => req[s] \in Request /\ req[s].event.sequence \in Nat
  BY <1>1 DEF TypeOK, Request, TaskEvent
<1>4. \A t \in TaskIds : exists(t) => events[t] # {}
  BY <1>1 DEF LogSays
<1>5. \A t \in TaskIds : writers(t) # {} => exists(t)
  BY <1>1, NullAssumption DEF writers, RequestsMean
<1> QED  BY <1>1, <1>2, <1>3, <1>4, <1>5, StoreAssumption DEF TypeOK

LEMMA BeginNumbers ==
    ASSUME SaysInv, NumbersLast, NEW s \in Sessions, NEW q, Begin(s, q), Admitted(q),
           BelowBound(q)
    PROVE  NumbersLast'
<1>1. /\ events' = events /\ q.phase = "loaded" /\ q \in Request
      /\ req' = [req EXCEPT ![s] = q] /\ req[s] = NULL
  BY DEF Begin, Admitted
<1>2. /\ req \in [Sessions -> Request \cup {NULL}] /\ MaxSequence \in Nat
      /\ \A t \in TaskIds : \A e \in events[t] : e.sequence \in Nat /\ e.sequence > 0
      /\ \A r \in Sessions : req[r] # NULL => req[r].event.sequence \in Nat
  BY NumberFacts
<1>3. /\ req'[s] = q /\ \A r \in Sessions \ {s} : req'[r] = req[r]
  BY <1>1, <1>2
<1>4. ASSUME NEW t \in TaskIds
      PROVE  /\ \A e \in events'[t] :
                   e.sequence + Cardinality(writers(t)')
                      <= MaxSequence + Cardinality(Sessions)
             /\ \A r \in writers(t)' :
                   /\ req'[r].phase # "flushed" => req'[r].event.sequence <= MaxSequence
                   /\ req'[r].phase = "flushed" =>
                         \E e \in events'[t] : e.sequence = req'[r].event.sequence - 1
  <2>0. t # NULL
    BY NullAssumption
  <2>1. \A r \in Sessions \ {s} : r \in writers(t)' <=> r \in writers(t)
    BY <1>3 DEF writers
  <2>2. \A r \in writers(t)' \ {s} : r \in writers(t) /\ req'[r] = req[r]
    BY <1>3, <2>1 DEF writers
  <2>3. \A r \in writers(t) :
          /\ req[r].phase # "flushed" => req[r].event.sequence <= MaxSequence
          /\ req[r].phase = "flushed" =>
                \E e \in events[t] : e.sequence = req[r].event.sequence - 1
    BY DEF NumbersLast
  <2>4. \A e \in events[t] :
          e.sequence + Cardinality(writers(t)) <= MaxSequence + Cardinality(Sessions)
    BY DEF NumbersLast
  <2>5. CASE q.task = t
    <3>1. \A e \in events[t] : e.sequence < MaxSequence
      BY <2>0, <2>5 DEF BelowBound, room
    <3>2. q.event.sequence <= MaxSequence
      BY <2>0, <2>5 DEF BelowBound
    <3> DEFINE W == writers(t)'
    <3>3. W \subseteq Sessions /\ IsFiniteSet(Sessions)
      BY StoreAssumption DEF writers
    <3>4. \A r \in W : /\ req'[r].phase # "flushed" => req'[r].event.sequence <= MaxSequence
                       /\ req'[r].phase = "flushed" =>
                             \E e \in events'[t] : e.sequence = req'[r].event.sequence - 1
      BY <1>1, <1>3, <2>2, <2>3, <3>2
    <3> HIDE DEF W
    <3>5. /\ Cardinality(W) <= Cardinality(Sessions)
          /\ Cardinality(W) \in Nat /\ Cardinality(Sessions) \in Nat
      BY <3>3, FS_Subset, FS_CardinalityType
    <3>6. \A e \in events'[t] :
             e.sequence + Cardinality(W) <= MaxSequence + Cardinality(Sessions)
      BY <1>1, <1>2, <3>1, <3>5
    <3> QED  BY <3>4, <3>6 DEF W
  <2>6. CASE q.task # t
    <3>1. s \notin writers(t)' /\ s \notin writers(t)
      BY <1>1, <1>3, <2>6 DEF writers
    <3>2. writers(t)' = writers(t)
      BY <2>1, <3>1 DEF writers
    <3> QED  BY <1>1, <2>2, <2>3, <2>4, <3>1, <3>2
  <2> QED  BY <2>5, <2>6
<1> QED  BY <1>4 DEF NumbersLast

LEMMA FlushNumbers ==
    ASSUME SaysInv, NumbersLast, NEW s \in Sessions, Flush(s)
    PROVE  NumbersLast'
<1>1. /\ TypeOK /\ req \in [Sessions -> Request \cup {NULL}] /\ events' = events
      /\ \A t \in TaskIds : \A e \in events[t] : e.sequence \in Nat /\ e.sequence > 0
      /\ \A t \in TaskIds : exists(t) => events[t] # {}
      /\ \A t \in TaskIds : writers(t) # {} => exists(t)
  BY NumberFacts DEF Flush
<1>2. PICK n \in Nat, q \in Request :
        /\ req' = [req EXCEPT ![s] = q]
        /\ q = [req[s] EXCEPT !.phase = "flushed",
                              !.event = [req[s].event EXCEPT !.sequence = n]]
        /\ \A e \in events[req[s].task] : e.sequence < n
        /\ n # 1 => \E e \in events[req[s].task] : e.sequence = n - 1
  BY <1>1, FlushStep
<1>3. req[s] # NULL /\ req[s] \in Request /\ req[s].phase # "committed"
  BY <1>1 DEF Flush
<1>4. q.task = req[s].task /\ q.phase = "flushed" /\ q.event.sequence = n
  BY <1>2, <1>3 DEF Request, TaskEvent
<1>5. q # NULL
  BY RowAssumption
<1>6. req'[s] = q /\ \A r \in Sessions \ {s} : req'[r] = req[r]
  BY <1>1, <1>2
<1>7. ASSUME NEW t \in TaskIds
      PROVE  /\ writers(t)' = writers(t)
             /\ \A r \in writers(t)' :
                   /\ req'[r].phase # "flushed" => req'[r].event.sequence <= MaxSequence
                   /\ req'[r].phase = "flushed" =>
                         \E e \in events'[t] : e.sequence = req'[r].event.sequence - 1
  <2>1. writers(t)' = writers(t)
    BY <1>3, <1>4, <1>5, <1>6 DEF writers
  <2>2. s \in writers(t) => \E e \in events[t] : e.sequence = n - 1
    <3> SUFFICES ASSUME s \in writers(t) PROVE \E e \in events[t] : e.sequence = n - 1
      OBVIOUS
    <3>1. req[s].task = t /\ events[t] # {}
      BY <1>1 DEF writers
    <3>2. PICK e \in events[t] : e.sequence < n /\ e.sequence \in Nat /\ e.sequence > 0
      BY <1>1, <1>2, <3>1
    <3> QED  BY <1>2, <3>1, <3>2
  <2>3. \A r \in writers(t) :
          /\ req[r].phase # "flushed" => req[r].event.sequence <= MaxSequence
          /\ req[r].phase = "flushed" =>
                \E e \in events[t] : e.sequence = req[r].event.sequence - 1
    BY DEF NumbersLast
  <2>4. \A r \in writers(t) : r \in Sessions
    BY DEF writers
  <2> QED  BY <1>1, <1>4, <1>6, <2>1, <2>2, <2>3, <2>4
<1>8. \A t \in TaskIds : \A e \in events'[t] :
        e.sequence + Cardinality(writers(t)') <= MaxSequence + Cardinality(Sessions)
  BY <1>1, <1>7 DEF NumbersLast
<1> QED  BY <1>7, <1>8 DEF NumbersLast

LEMMA UpdateNumbers ==
    ASSUME SaysInv, NumbersLast, NEW s \in Sessions, FlushUpdate(s)
    PROVE  NumbersLast'
<1>1. TypeOK /\ req \in [Sessions -> Request \cup {NULL}] /\ events' = events
  BY NumberFacts DEF FlushUpdate
<1>2. PICK q \in Request : /\ req' = [req EXCEPT ![s] = q]
                           /\ q = [req[s] EXCEPT !.phase = "updated"]
  BY <1>1, UpdateStep
<1>3. req[s] # NULL /\ req[s] \in Request /\ req[s].phase = "loaded"
  BY <1>1 DEF FlushUpdate
<1>4. /\ q.task = req[s].task /\ q.phase = "updated" /\ q.event = req[s].event
      /\ q # NULL
  BY <1>2, <1>3, RowAssumption DEF Request
<1>5. req'[s] = q /\ \A r \in Sessions \ {s} : req'[r] = req[r]
  BY <1>1, <1>2
<1>6. ASSUME NEW t \in TaskIds
      PROVE  /\ writers(t)' = writers(t)
             /\ \A r \in writers(t) :
                   /\ req'[r].event = req[r].event
                   /\ req'[r].phase = "flushed" <=> req[r].phase = "flushed"
  BY <1>3, <1>4, <1>5 DEF writers
<1>7. \A t \in TaskIds : writers(t)' = writers(t)
  BY <1>6
<1> QED  BY <1>1, <1>6, <1>7 DEF NumbersLast

\* Requests that end without a commit leave more numbers to the others.
LEMMA QuietNumbers ==
    ASSUME SaysInv, NumbersLast, events' = events,
           \A r \in Sessions : req'[r] = NULL \/ req'[r] = req[r]
    PROVE  NumbersLast'
<1>1. /\ \A t \in TaskIds : \A e \in events[t] : e.sequence \in Nat
      /\ MaxSequence \in Nat
  BY NumberFacts
<1>2. ASSUME NEW t \in TaskIds
      PROVE  /\ \A e \in events'[t] :
                   e.sequence + Cardinality(writers(t)')
                      <= MaxSequence + Cardinality(Sessions)
             /\ \A r \in writers(t)' :
                   /\ req'[r].phase # "flushed" => req'[r].event.sequence <= MaxSequence
                   /\ req'[r].phase = "flushed" =>
                         \E e \in events'[t] : e.sequence = req'[r].event.sequence - 1
  <2> DEFINE V == writers(t)
             W == writers(t)'
  <2>1. W \subseteq V /\ \A r \in W : req'[r] = req[r]
    BY DEF writers
  <2>2. /\ IsFiniteSet(V) /\ Cardinality(V) \in Nat /\ Cardinality(Sessions) \in Nat
    BY WritersCounted
  <2>3. /\ \A e \in events[t] :
              e.sequence + Cardinality(V) <= MaxSequence + Cardinality(Sessions)
        /\ \A r \in V :
              /\ req[r].phase # "flushed" => req[r].event.sequence <= MaxSequence
              /\ req[r].phase = "flushed" =>
                    \E e \in events[t] : e.sequence = req[r].event.sequence - 1
    BY DEF NumbersLast
  <2> HIDE DEF V, W
  <2>4. Cardinality(W) <= Cardinality(V) /\ Cardinality(W) \in Nat
    BY <2>1, <2>2, FS_Subset, FS_CardinalityType
  <2>5. \A e \in events'[t] :
           e.sequence + Cardinality(W) <= MaxSequence + Cardinality(Sessions)
    BY <1>1, <2>2, <2>3, <2>4
  <2> QED  BY <2>1, <2>3, <2>5 DEF W
<1> QED  BY <1>2 DEF NumbersLast

LEMMA CommitNumbers ==
    ASSUME SaysInv, NumbersLast, NEW s \in Sessions, Commit(s)
    PROVE  NumbersLast'
<1> DEFINE q == req[s]
<1>1. /\ \A t \in TaskIds : \A e \in events[t] : e.sequence \in Nat
      /\ MaxSequence \in Nat /\ req \in [Sessions -> Request \cup {NULL}]
      /\ \A t \in TaskIds : writers(t) # {} => exists(t)
      /\ q \in Request /\ q.event.sequence \in Nat /\ q # NULL
  BY NumberFacts DEF Commit
<1>2. /\ q.phase # "committed"
      /\ q.task # NULL => /\ events'[q.task] = events[q.task] \cup {q.event}
                          /\ q.task # q.child /\ q.task \in TaskIds
      /\ q.child # NULL => /\ events'[q.child] = {created_event}
                           /\ ~exists(q.child) /\ q.child \in TaskIds
      /\ \A t \in TaskIds : (t # q.task /\ t # q.child) => events'[t] = events[t]
      /\ req' = [req EXCEPT ![s] = IF q.sidecar
                                   THEN [q EXCEPT !.phase = "committed"] ELSE NULL]
  BY CommitCases DEF SaysInv
<1>3. [q EXCEPT !.phase = "committed"].phase = "committed"
  BY <1>1 DEF Request
<1>4. /\ \A r \in Sessions \ {s} : req'[r] = req[r]
      /\ req'[s] = NULL \/ req'[s].phase = "committed"
  BY <1>1, <1>2, <1>3
<1>5. ASSUME NEW t \in TaskIds
      PROVE  /\ \A e \in events'[t] :
                   e.sequence + Cardinality(writers(t)')
                      <= MaxSequence + Cardinality(Sessions)
             /\ \A r \in writers(t)' :
                   /\ req'[r].phase # "flushed" => req'[r].event.sequence <= MaxSequence
                   /\ req'[r].phase = "flushed" =>
                         \E e \in events'[t] : e.sequence = req'[r].event.sequence - 1
  <2> DEFINE V == writers(t)
             W == writers(t)'
             N == Cardinality(Sessions)
  <2>0. t # NULL
    BY NullAssumption
  <2>1. W = V \ {s} /\ \A r \in W : req'[r] = req[r]
    BY <1>4 DEF writers
  <2>2. IsFiniteSet(V) /\ Cardinality(V) \in Nat /\ N \in Nat /\ Cardinality(V) <= N
    BY WritersCounted
  <2>3. /\ \A e \in events[t] : e.sequence + Cardinality(V) <= MaxSequence + N
        /\ \A r \in V :
              /\ req[r].phase # "flushed" => req[r].event.sequence <= MaxSequence
              /\ req[r].phase = "flushed" =>
                    \E e \in events[t] : e.sequence = req[r].event.sequence - 1
    BY DEF NumbersLast
  <2>4. s \in V <=> q.task = t
    BY <1>1, <1>2 DEF writers
  <2>5. V # {} => exists(t)
    BY <1>1
  <2>6. N >= 1
    <3>1. IsFiniteSet(Sessions) /\ Cardinality(Sessions) # 0
      BY StoreAssumption, FS_EmptySet
    <3> QED  BY <2>2, <3>1
  <2> HIDE DEF V, W, N, q
  <2>7. CASE t = q.child
    <3>1. V = {} /\ W = {} /\ events'[t] = {created_event}
      BY <1>2, <2>0, <2>1, <2>5, <2>7
    <3>2. Cardinality(W) = 0 /\ created_event.sequence = 1
      BY <3>1, FS_EmptySet DEF created_event, Event
    <3>3. \A e \in events'[t] : e.sequence + Cardinality(W) <= MaxSequence + N
      BY <1>1, <2>2, <2>6, <3>1, <3>2
    <3> QED  BY <3>1, <3>3 DEF W, N
  <2>8. CASE t = q.task
    <3>1. s \in V /\ events'[t] = events[t] \cup {q.event}
      BY <1>2, <2>0, <2>4, <2>8
    <3>2. Cardinality(W) = Cardinality(V) - 1
      BY <2>1, <2>2, <3>1, FS_RemoveElement
    <3>3. q.event.sequence + Cardinality(V) <= MaxSequence + N + 1
      <4>2. CASE q.phase # "flushed"
        BY <1>1, <2>2, <2>3, <3>1, <4>2 DEF q
      <4>3. CASE q.phase = "flushed"
        <5>1. PICK e \in events[t] : e.sequence = q.event.sequence - 1
          BY <2>3, <3>1, <4>3 DEF q
        <5> QED  BY <1>1, <2>2, <2>3, <5>1
      <4> QED  BY <4>2, <4>3
    <3>4. \A e \in events'[t] : e.sequence + Cardinality(W) <= MaxSequence + N
      BY <1>1, <2>2, <2>3, <3>1, <3>2, <3>3
    <3> QED  BY <2>1, <2>3, <3>1, <3>4 DEF W, N
  <2>9. CASE t # q.task /\ t # q.child
    <3>1. W = V /\ events'[t] = events[t]
      BY <1>2, <2>1, <2>4, <2>9
    <3> QED  BY <2>1, <2>3, <3>1 DEF W, N
  <2> QED  BY <2>7, <2>8, <2>9
<1> QED  BY <1>5 DEF NumbersLast

WaitInv == SaysInv /\ LocksExclusive /\ AllPhased /\ NumbersLast

LEMMA WaitStep == WaitInv /\ [Next]_vars => WaitInv'
<1> SUFFICES ASSUME WaitInv, [Next]_vars PROVE NumbersLast'
  BY SaysStep, LocksStep, PhasedStep DEF WaitInv, SaysInv
<1>1. SaysInv /\ NumbersLast /\ TypeOK /\ req \in [Sessions -> Request \cup {NULL}]
  BY NumberFacts DEF WaitInv
<1>2. ASSUME NEW s \in Sessions, IntegrityError(s) \/ ScheduleCallback(s)
      PROVE  NumbersLast'
  <2>1. events' = events /\ req' = [req EXCEPT ![s] = NULL]
    BY <1>2 DEF IntegrityError, ScheduleCallback
  <2> QED  BY <1>1, <2>1, QuietNumbers
<1>3. CASE Crash
  BY <1>1, <1>3, QuietNumbers DEF Crash
<1>4. CASE Tick \/ UNCHANGED vars
  BY <1>1, <1>4, QuietNumbers DEF Tick, vars
<1> QED  BY <1>1, <1>2, <1>3, <1>4, BoundedSteps, BeginNumbers, UpdateNumbers,
            FlushNumbers, CommitNumbers DEF Proceed

\* Numbers are left for a request that has none.
LEMMA NumberLeft ==
    ASSUME WaitInv, NEW s \in Sessions, req[s] # NULL, req[s].phase # "committed",
           req[s].event.sequence = 0
    PROVE  \E n \in 1..(MaxSequence + Cardinality(Sessions)) :
              /\ \A e \in events[req[s].task] : e.sequence < n
              /\ n # 1 => \E e \in events[req[s].task] : e.sequence = n - 1
<1> DEFINE t == req[s].task
           C == Cardinality(writers(t))
           B == MaxSequence + Cardinality(Sessions)
           Above == {n \in Nat : \A e \in events[t] : e.sequence < n}
<1>1. t \in TaskIds
  <2>1. req[s] \in Request /\ OnlyInserts(req[s])
    BY NumberFacts DEF WaitInv, SaysInv, MeansInv, RequestsMean, Means
  <2>2. created_event.sequence = 1
    BY DEF created_event, Event
  <2> QED  BY <2>1, <2>2 DEF OnlyInserts, Request
<1>2. s \in writers(t)
  BY DEF writers
<1>3. /\ \A e \in events[t] : e.sequence \in Nat /\ e.sequence > 0
      /\ events[t] # {} /\ B \in Nat
  <2>1. MaxSequence \in Nat /\ Cardinality(Sessions) \in Nat
    BY WritersCounted, NumberFacts DEF WaitInv
  <2>2. B \in Nat
    BY <2>1
  <2> QED  BY <1>1, <1>2, <2>2, NumberFacts DEF WaitInv
<1>4. C \in Nat /\ C >= 1
  <2>1. C \in Nat /\ C # 0
    BY <1>2, WritersCounted, FS_EmptySet
  <2> QED  BY <2>1
<1>5. \A e \in events[t] : e.sequence + C <= B
  BY <1>1 DEF WaitInv, NumbersLast
<1> HIDE DEF C, B, t
<1>6. B \in Above /\ Above \in SUBSET Nat
  BY <1>3, <1>4, <1>5
<1>7. PICK n \in Above : \A m \in Above : n <= m
  BY <1>6, LeastNumber
<1>8. n \in Nat /\ n > 1 /\ \A e \in events[t] : e.sequence < n
  BY <1>3, <1>7
<1>9. n - 1 \notin Above /\ n - 1 \in Nat
  BY <1>7, <1>8
<1>10. PICK e \in events[t] : ~(e.sequence < n - 1)
  BY <1>9
<1>11. e.sequence = n - 1
  BY <1>3, <1>8, <1>10
<1>12. n \in 1..B
  BY <1>3, <1>6, <1>7, <1>8
<1> QED  BY <1>8, <1>11, <1>12 DEF B, t

\* A request that holds no row inserts a task only if it is create_task's.
LEMMA UnheldInserts ==
    ASSUME WaitInv, NEW r \in Sessions, req[r] # NULL, req[r].phase = "loaded",
           req[r].event.sequence # 0 \/ req[r].update = Unchanged, req[r].task # NULL
    PROVE  req[r].insert = NULL
<1>1. Means(req[r]) /\ Phased(req[r])
  BY DEF WaitInv, AllPhased, SaysInv, MeansInv, RequestsMean
<1>2. req[r].child # NULL => req[r].update.status \in {"retasked", "redirected"}
  BY <1>1 DEF Means, Supersedes
<1>3. Unchanged.status \notin {"retasked", "redirected"}
  BY NullAssumption DEF Unchanged, TaskStatus
<1>4. req[r].child = NULL
  BY <1>1, <1>2, <1>3 DEF Phased
<1> QED  BY <1>1, <1>4 DEF Means, Supersedes

\* Deadlock freedom of the locks.  A session that has its key has its row too and
\* waits for nobody; if there is none, nobody has a key, and a session that has its
\* row goes on; if nobody has either, there is nothing to wait for.
LEMMA WaitFree == WaitInv => NotAllWait
<1> SUFFICES ASSUME WaitInv, NEW s \in Sessions, req[s] # NULL
             PROVE  \E r \in Sessions : can_proceed(r)
  BY DEF NotAllWait
<1>0. req \in [Sessions -> Request \cup {NULL}]
  BY NumberFacts DEF WaitInv
<1>1. ASSUME NEW r \in Sessions, req[r] # NULL, req[r].phase = "flushed"
      PROVE  can_proceed(r)
  <2>1. \A u \in Sessions \ {r} : HoldsLocks(u) => ~Clash(req[u], req[r])
    BY <1>1 DEF WaitInv, LocksExclusive, HoldsLocks
  <2>2. row_free(r)
    BY <2>1 DEF row_free, locked, HoldsLocks, Clash
  <2>3. (req[r].insert # NULL /\ req[r].insert.idempotency_key # NULL) =>
           ~key_locked(r, req[r].insert.idempotency_key)
    BY <1>1, <2>1 DEF key_locked, HoldsLocks, Clash
  <2>4. req[r].event.sequence # 0
    <3>1. req[r] \in Request /\ (req[r].task = NULL => req[r].event = created_event)
      BY <1>0, <1>1 DEF WaitInv, SaysInv, MeansInv, RequestsMean, Means, OnlyInserts
    <3>2. created_event.sequence = 1
      BY DEF created_event, Event
    <3>3. CASE req[r].task # NULL
      <4>1. req[r].task \in TaskIds /\ r \in writers(req[r].task)
        BY <1>1, <3>1, <3>3 DEF writers, Request
      <4>2. \E e \in events[req[r].task] : e.sequence = req[r].event.sequence - 1
        BY <1>1, <4>1 DEF WaitInv, NumbersLast
      <4> QED  BY <4>1, <4>2, NumberFacts DEF WaitInv
    <3> QED  BY <3>1, <3>2, <3>3
  <2>5. CASE key_taken(req[r]) \/ sequence_taken(req[r])
    BY <1>1, <2>2, <2>5 DEF can_proceed, integrity_error
  <2>6. CASE ~key_taken(req[r]) /\ ~sequence_taken(req[r])
    <3>1. key_free(r)
      BY <2>3, <2>6 DEF key_free
    <3> QED  BY <1>1, <2>2, <2>4, <2>6, <3>1 DEF can_proceed
  <2> QED  BY <2>5, <2>6
<1>2. ASSUME \A r \in Sessions : req[r] # NULL => req[r].phase # "flushed",
             NEW r \in Sessions, req[r] # NULL, req[r].phase = "updated"
      PROVE  can_proceed(r)
  <2>1. \A k : ~key_locked(r, k)
    BY <1>2 DEF key_locked
  <2>2. req[r].update # Unchanged /\ req[r].event.sequence = 0
    BY <1>2 DEF WaitInv, AllPhased, Phased
  <2>3. CASE key_taken(req[r])
    BY <1>2, <2>3 DEF can_proceed, integrity_error
  <2>4. CASE ~key_taken(req[r])
    <3>1. key_free(r)
      BY <2>1, <2>4 DEF key_free
    <3>2. \E n \in 1..(MaxSequence + Cardinality(Sessions)) :
             /\ \A e \in events[req[r].task] : e.sequence < n
             /\ n # 1 => \E e \in events[req[r].task] : e.sequence = n - 1
      BY <1>2, <2>2, NumberLeft
    <3> QED  BY <1>2, <2>2, <3>1, <3>2 DEF can_proceed
  <2> QED  BY <2>3, <2>4
<1>3. ASSUME \A r \in Sessions : ~HoldsLocks(r), req[s].phase = "loaded"
      PROVE  can_proceed(s)
  <2>1. \A k : ~locked(s, k) /\ ~key_locked(s, k)
    BY <1>3 DEF HoldsLocks, locked, key_locked
  <2>2. row_free(s)
    BY <2>1 DEF row_free
  <2>3. CASE req[s].event.sequence = 0 /\ req[s].update # Unchanged
    BY <1>3, <2>2, <2>3 DEF can_proceed
  <2>4. CASE req[s].event.sequence # 0 \/ req[s].update = Unchanged
    <3>1. CASE key_taken(req[s])
      <4>1. req[s].task = NULL
        BY <1>3, <2>4, <3>1, UnheldInserts DEF key_taken
      <4> QED  BY <1>3, <3>1, <4>1 DEF can_proceed, integrity_error
    <3>2. CASE sequence_taken(req[s])
      BY <1>3, <2>2, <3>2 DEF can_proceed, integrity_error
    <3>3. CASE ~key_taken(req[s]) /\ ~sequence_taken(req[s])
      <4>1. key_free(s)
        BY <2>1, <3>3 DEF key_free
      <4>2. CASE req[s].event.sequence # 0
        BY <1>3, <2>2, <3>3, <4>1, <4>2 DEF can_proceed
      <4>3. CASE req[s].event.sequence = 0
        <5>1. \E n \in 1..(MaxSequence + Cardinality(Sessions)) :
                 /\ \A e \in events[req[s].task] : e.sequence < n
                 /\ n # 1 => \E e \in events[req[s].task] : e.sequence = n - 1
          BY <1>3, <4>3, NumberLeft
        <5> QED  BY <1>3, <2>4, <4>1, <4>3, <5>1 DEF can_proceed
      <4> QED  BY <4>2, <4>3
    <3> QED  BY <3>1, <3>2, <3>3
  <2> QED  BY <2>3, <2>4
<1>4. CASE \E r \in Sessions : req[r] # NULL /\ req[r].phase = "flushed"
  BY <1>1, <1>4
<1>5. CASE /\ \A r \in Sessions : req[r] # NULL => req[r].phase # "flushed"
           /\ \E r \in Sessions : req[r] # NULL /\ req[r].phase = "updated"
  BY <1>2, <1>5
<1>6. CASE \A r \in Sessions : req[r] # NULL => req[r].phase \notin {"updated", "flushed"}
  <2>1. \A r \in Sessions : ~HoldsLocks(r)
    BY <1>6 DEF HoldsLocks
  <2>2. req[s].phase \in {"loaded", "committed"}
    BY <1>0, <1>6 DEF Request
  <2>3. CASE req[s].phase = "committed"
    BY <2>3 DEF can_proceed
  <2>4. CASE req[s].phase = "loaded"
    BY <1>3, <2>1, <2>4
  <2> QED  BY <2>2, <2>3, <2>4
<1> QED  BY <1>4, <1>5, <1>6

\* However many requests overlap, with whatever tasks, keys and numbers, the
\* sessions never deadlock on row locks and unique keys, although a session that
\* supersedes a task holds its row while it waits for a key: while a request is
\* being handled, the guard of a step of some session holds.  In particular the
\* bound that Flush puts on its numbers keeps no session from going on.
THEOREM SessionsNeverDeadlock == Spec => []NotAllWait
<1>1. Init => WaitInv
  <2>1. Init => LocksExclusive /\ AllPhased /\ NumbersLast
    BY DEF Init, LocksExclusive, HoldsLocks, AllPhased, NumbersLast, writers
  <2> QED  BY <2>1, SaysInit DEF WaitInv
<1> QED  BY <1>1, WaitStep, WaitFree, PTL DEF Spec

-----------------------------------------------------------------------------
(* What is written stays.                                                  *)

\* What no later request takes back: who dispatched the task and what it continues,
\* the events, that it has started, that it has ended.  The result may be written
\* over, also by None, but only together with a "completed" or "failed" event that
\* holds the new one.
Kept(t) ==
    /\ tasks'[t] = tasks[t]
    /\ events[t] \subseteq events'[t]
    /\ row[t].started_at => row'[t].started_at
    /\ row[t].completed_at => row'[t].completed_at
    /\ row'[t].result # row[t].result =>
          \E e \in events'[t] \ events[t] : /\ e.event_type \in {"completed", "failed"}
                                           /\ e.result = row'[t].result

HistoryKept == [][\A t \in TaskIds : exists(t) => Kept(t)]_vars

LEMMA CommitKeeps ==
    ASSUME MeansInv, NEW s \in Sessions, Commit(s), NEW t \in TaskIds, exists(t)
    PROVE  Kept(t)
<1> DEFINE q == req[s]
<1>0. t # NULL /\ row[t] \in Row
  BY NullAssumption DEF MeansInv, StoreInv, LineageInv, TypeOK
<1>1. /\ q \in Request /\ q # NULL /\ Means(q)
      /\ q.task # NULL => /\ tasks'[q.task] = tasks[q.task]
                          /\ row'[q.task] = Apply(row[q.task], q.update)
                          /\ events'[q.task] = events[q.task] \cup {q.event}
                          /\ q.event \notin events[q.task]
      /\ q.child # NULL => ~exists(q.child)
      /\ (t # q.task /\ t # q.child) =>
            tasks'[t] = tasks[t] /\ row'[t] = row[t] /\ events'[t] = events[t]
  BY CommitCases
<1>2. CASE t # q.task
  BY <1>0, <1>1, <1>2 DEF Kept
<1>3. CASE t = q.task
  <2>1. /\ tasks'[t] = tasks[t] /\ events'[t] = events[t] \cup {q.event}
        /\ row'[t] = Apply(row[t], q.update) /\ q.event \notin events[t]
    BY <1>0, <1>1, <1>3
  <2>2. /\ row'[t].started_at = Written(row[t].started_at, q.update.started_at)
        /\ row'[t].completed_at = Written(row[t].completed_at, q.update.completed_at)
        /\ row'[t].result = Written(row[t].result, q.update.result)
    BY <2>1 DEF Apply
  <2>3. q.update.started_at \in {TRUE, Keep} /\ q.update.completed_at \in {TRUE, Keep}
    BY <1>1 DEF Means, SetsTimes
  <2>4. \/ q.update.result = Keep
        \/ /\ q.event.event_type \in {"completed", "failed"}
           /\ q.update.result = q.event.result
    BY <1>1 DEF Means, TellsOutcome, Assigns
  <2>5. row[t].started_at => row'[t].started_at
    BY <2>2, <2>3 DEF Written
  <2>6. row[t].completed_at => row'[t].completed_at
    BY <2>2, <2>3 DEF Written
  <2>7. row'[t].result # row[t].result =>
          \E e \in events'[t] \ events[t] : /\ e.event_type \in {"completed", "failed"}
                                           /\ e.result = row'[t].result
    BY <2>1, <2>2, <2>4 DEF Written
  <2> QED  BY <2>1, <2>5, <2>6, <2>7 DEF Kept
<1> QED  BY <1>2, <1>3

\* Whatever overlaps or crashes, no request changes or deletes what was recorded of a
\* task: its row of origin, its events, that it has started and ended.  Its result is
\* written over only by an outcome that is recorded in the same commit and holds
\* what the row has afterwards, so that the log keeps every result there ever was.
THEOREM NothingIsTakenBack == Spec => HistoryKept
<1>1. MeansInv /\ [Next]_vars => [\A t \in TaskIds : exists(t) => Kept(t)]_vars
  <2> SUFFICES ASSUME MeansInv, [Next]_vars, NEW t \in TaskIds, exists(t) PROVE Kept(t)
    OBVIOUS
  <2>1. CASE UNCHANGED <<tasks, row, events, context_seq>>
    BY <2>1 DEF Kept
  <2>2. TypeOK
    BY DEF MeansInv, StoreInv, LineageInv
  <2> QED  BY <2>1, <2>2, OnlyCommits, CommitKeeps
<1> QED  BY <1>1, MeansInit, MeansStep, PTL DEF Spec, HistoryKept
=============================================================================
