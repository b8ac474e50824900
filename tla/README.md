# Fleet API: a TLA+ verification project

Fleet API dispatches tasks from *principals* (agents that ask for work) to
*executors* (agents that own a workflow). A FastAPI server keeps agents, workflows,
tasks and task events in PostgreSQL; beside each executor runs a *sidecar*
(`fleet_agent`) that polls for tasks, runs a handler process per task and posts the
handler's events back. The specifications model the parts where this can go wrong
in ways a test hardly reaches: requests that overlap in the database, a sidecar that
polls and retries over HTTP, clients that follow an event stream, a listing or a
callback while the tables change, and processes that die in between.

## Inventory

| Part | State | Operations | Interacts with | Hard because |
|---|---|---|---|---|
| Task state machine (`tasks/state_machine.py`) | none | the transition table | all task handlers | - |
| Task handlers (`tasks/crud.py`, `lifecycle.py`, `context.py`, `sidecar.py`) | `tasks`, `task_events` | dispatch, cancel, retask, redirect, pause, resume, inject context, sidecar events | each other through the database; callbacks; pollers | READ COMMITTED sessions without `FOR UPDATE`; event numbers from `max + 1`; crash before commit |
| Polling endpoint (`get_pending_tasks`, `get_pending_signals`) | reads the tables | two queries | sidecar | every response repeats old signals; responses age |
| Sidecar: poller, executor, streamer | `_in_flight`, one coroutine and one process per task | poll, start, read lines, post, retry, time out | server, signal state | awaits between check and use; retries; timeouts; restarts |
| Sidecar: signal poller | pause events, flags, queues, processed signals | poll, handle, acknowledge | executor coroutines, streamer | the same signals again and again; acknowledgements race with the executor |
| Agent registry, heartbeat monitor | `agents` | register, heartbeat, sweep | sidecars' registration and heartbeat loops, authentication | read-then-write in sessions and in the sweep |
| Authentication (`middleware/auth.py`) | none | `require_auth` | registry | suspension after the check |
| Event stream (`tasks/sse.py`) | the generator's place and last number sent | replay, poll, keepalive, stop | `task_events`, the client's `Last-Event-Id` | fetches events, then status; connections break with events under way |
| Callbacks (`tasks/callbacks.py`) | one background task per scheduled callback | read the task, post, retry | outcome commits, the receiver | kept in memory only; posts may be taken and still fail |
| Workflow registry (`workflows/`) | `workflows` | create, update | listings | read-then-write in sessions |
| Listings (`list_workflows`, `list_tasks`) | none, the client has a cursor | select a page | `workflows`, `tasks` | rows are inserted and change between two pages |
| Responses (`tasks/responses.py`) | none | links, details, lineage | task handlers | repeats what the handlers check, apart from them |
| Manifest, health, errors, configuration | none | - | - | - |

`PROJECT.json` lists the same parts under "components" and, under "hazards", every
place where the order of steps matters, with the properties that watch it.

## Modules

| Module | What it is |
|---|---|
| `TaskStateMachine` | The statuses and the transition table; extended by the modules about tasks. |
| `TaskStore` | The task tables and every handler that writes them, in overlapping sessions. |
| `TaskContract` | What the tables promise a reader: a task is its history of statuses. |
| `TaskResponses` | What the server shows of a task: links, details, lineage. |
| `MCTaskStore`, `MCTaskContract` | Symmetry for TLC; the refinement mapping. |
| `EventStream` | `TaskStore` with the event stream of a task and a client that reads it. |
| `CallbackDelivery` | `TaskStore` with the delivery of the callbacks it schedules. |
| `TaskStoreProofs`, `TaskLogProofs` | Theorems about `TaskStore` and `TaskResponses` under overlapping requests. |
| `TaskSerialProofs` | Theorems about requests handled one at a time; that `TaskStore` implements `TaskContract`. |
| `StreamProofs`, `DeliveryProofs` | Theorems about `EventStream` and `CallbackDelivery`; both extend `TaskLogProofs`. |
| `Sidecar`, `SidecarProofs` | The coroutines of one sidecar against a reduced server; theorems about them. |
| `AgentRegistry`, `AgentRegistryProofs` | Registration, heartbeats and sweeps; theorems about them. |
| `Workflows` | Registration and update of workflows. |
| `Listings`, `MCListings` | A client that pages through workflows or tasks; extends `Workflows`. |
| `WorkflowProofs` | Theorems about `Workflows` and `Listings`. |
| `TaskClaims`, `SidecarClaims`, `AgentClaims` | Statements of the documents and comments that the code does not keep. |

A definition whose name ends in a variant of another (`unlocked` for `locked`) and
whose comment starts with "Mutant" is a plausible bug, used to see that a property
would notice it.

### TaskStore

`tasks` and `row` are the two halves of a row of the table: the columns set at its
insertion and those handlers update. `events` is `task_events`; an event's `status`
is the status its data says the task now has. `req[s]` is the request that session
`s` handles: the columns its `UPDATE` will name (SQLAlchemy names changed columns
only, `Keep` stands for the others), its event, and the row it inserts.

A request has up to four stages.

1. An action named after the handler (`cancel_task`, `retask_task`, ...) loads the
   task and makes the checks of the code in their order (`cancel_outcome`, ...).
   Rejected requests write nothing and are no actions.
2. `FlushUpdate` and `Flush`: `SELECT max(sequence)` makes the session flush first.
   The `UPDATE` of the changed task takes the row's lock (`FlushUpdate`). Then, for
   retask and redirect, the `INSERT` of the successor waits for its idempotency key
   while the row is held, and with that done the event is numbered (`Flush`). Sidecar
   events and dispatches come with a number and have no such steps.
3. `Commit`, or `IntegrityError` when a unique index objects, at the insertion of a
   task or of an event. A `Commit` also sends what was not flushed.
4. A sidecar event then reads the task again and schedules a callback
   (`ScheduleCallback`).

What a `completed` event holds as its result is stored as it is (`data.get("result")`),
so `sidecar_completed` stores a result or none, over whatever was there; an event's
`result` is what its data holds. A `status` event changes the status and no result.

An expired pause is cancelled by the `resume_task` that finds it. `Crash` forgets
the sessions and keeps the tables. A `context_injected` event is marked by the value
`get_max_context_sequence` would return, which is that of the event with the latest
`created_at`; where two such events were created by overlapping requests the model
lets either be the latest.

`TaskResponses` defines, on the same state, what a GET shows: the links of a status,
which fields of a task's details are filled, and the walk of `build_lineage_chain`.
It has no actions; its properties compare what is shown with what the handlers do.

Not told apart: contents of inputs beyond equality and schema validity, reasons,
priorities, timestamps other than `paused_at`.

### EventStream

Composes `TaskStore` with one connection at a time of one client. `stream` is the
generator `_event_stream` between two awaits or yields: about to fetch, sending what
it fetched (`batch`), about to read the status, or closed; `polling` tells the
replay from the polling loop. `unread` is what has been sent and not read,
`MaxUnread` messages at most, where the server waits. `client` keeps the
`Last-Event-Id` and the numbers received. Commits of `TaskStore` come between any
two of these steps; `drop`, and a crash of the server, lose what is under way, and
the client connects again with its `Last-Event-Id`. `late` remembers events that
became visible after one with a higher number, which the stream never sends: the
properties except exactly these.

Not told apart: the wording of messages; pauses between two polls; a second client,
since clients do not see each other. `StreamAssumption`: executors do not post the
three statuses of the principal's operations, for which the key of the status in the
event's data would matter.

### CallbackDelivery

Composes `TaskStore` with `deliver_callback`. Each `ScheduleCallback` of `TaskStore`
that schedules one appends a delivery, with the payload built from the row as it is
then. A post is taken by the receiver or not, and answered in time or not; the
delivery is over with an answer, after `MAX_ATTEMPTS`, or when the process dies.
Left out: the signature, and the length of the pauses.

### Workflows and Listings

`create_workflow` and `update_workflow` load, validate, and write at the commit;
`Changes` names the columns whose value differs from the loaded one. `tags` stands
for all descriptive columns. Refused requests change nothing.

`Listings` adds a client that lists workflows or tasks (`listing.of`, chosen at the
start): each request selects `limit + 1` rows after the cursor in the order of the
query. The task rows it reads are begun, committed and moved along the transition
table, with `created_at` taken before the commit, so that a row may become visible
after a later one. `steady` and `ever` are what the properties compare the pages
with: the rows that have matched throughout, and at some time. `total_count` is left
out. Reading one workflow or one task changes nothing.

### Sidecar

A step is what a coroutine does between two awaits. `job[t]` is the coroutine
`_dispatch` of a task: in a POST (`post`), starting the handler (`spawn`), before a
line (`check`), stopped by a pause (`waiting`), at `readline` (`read`), in its
`finally` (`end`); and in the awaits no timeout applies to: until the handler has taken
its input (`stdin`), until it has exited and closed stderr (`exit`), the same after it
was killed (`killed`). `signal_state`, `_processed_signals`, `signals` and `ack` are the
signal poller. Each request is one step of the server here, since overlapping
requests are `TaskStore`'s subject; retask is there because it takes an event number.
A POST may be answered with 5xx after the server carried it out
(`_post_event_retry`), or raise an exception the streamer does not catch
(`_post_event_raises`). `Restart` is the death of the process: nothing is stored.

`get_pending_tasks` orders its result with `func.case(..., else_=0)`. `func.case` makes
an SQL function named "case", which takes no `else_`: with the SQLAlchemy the project
asks for (2.0.36 or later) the call is a `TypeError`, the endpoint answers 500, and no
task is ever handed out. `func_case_takes_else` says whether the expression can be
built. It is `FALSE` for the code as it is: then the poller never has a task, nothing is
started, and `AcceptedStarted` of `SidecarClaims` fails at once. The runs set it `TRUE`,
to say what the sidecar does once tasks reach it; read their results, and those of every
theorem about a started task, with that in mind. The theorems hold for both. The order of the response may be any, as priorities may be.

### AgentRegistry

A sidecar is a pair of an agent id and a key, so that two may claim one id. A
registration looks the id up and inserts in a later step; a heartbeat is
authenticated, loads the agent, and commits in three steps; a sweep selects and
updates in two. A sidecar that dies leaves its request to the server. Nothing in the
repository suspends an agent; `Suspend` is the administrator.

## Runs

Passing runs, each within about two minutes on two workers.

| Run | Properties | Bounds and why they are enough |
|---|---|---|
| `TaskSerial` | `OneSuccessor`, `OutcomesCalledBack`, `FirstProgressStored`, `LinksHonoured`, `OnlyValidTransitions`, `ImplementsContract` | One session; three tasks, of which a chain may use two, so that a second successor would show; four events, so that one may follow an outcome; one clock step with TTL 0, so that a pause expires; one crash. With overlapping sessions the contract and `OnlyValidTransitions` do not hold, see `ClaimTransitions`. |
| `TaskRaces` | `TypeOK`, `LogTellsStatus`, `LogTellsResult`, `TimesSet`, `DetailTellsOutcome` | Two sessions: the handlers conflict pairwise on a row; one task; six events, the fewest that hold two outcomes: running, an outcome, a pause that was loaded before it and reopens the task, running, another outcome; each with a result or none. The executor's `status` events may carry each of the eight statuses. |
| `TaskSuccessors` | `KeyNamesOneTask`, `LineageSound`, `LogTellsStatus`, `SuccessorsAnnounced`, `ChainFromRoot`, `SomeoneProceeds` | Two sessions and one key; two dispatched tasks, so that both can be redirected with the same key at once: each holds its row, and one waits for the other's key. Four tasks and chains of depth 2, so that one task may be superseded twice at once and a successor superseded again; one crash. The constraint `OnlySuperseding` leaves out requests to pause and to cancel, which `TaskRaces` has. |
| `Callbacks` | `ReportsTrue`, `ReceiverTold`, `ExpiredPauseEnds` | One task (deliveries of different tasks do not meet), two sessions, four events, one clock step with TTL 0, one crash; four failed posts, one more than the retries, so that a delivery may give up. |
| `Streams` | `ViewIsLog`, `ClosedWhenTerminal`, `StreamsEnd`, `OutcomeSeen` | One task (a stream reads one), two sessions, four events, one broken connection and one crash. The server is one message ahead; `StreamProofs` shows `ViewIsLog` for any `MaxUnread`. |
| `Listings` | `ListingTypeOK`, `RegisteredIsOwner`, `PagesComplete`, `UpdatesKept` | Two workflow ids, two owners, two sessions; three tasks with two values of `created_at`, so that two tie; pages of one row, so that pages are full and there are three of them; two statuses, so that rows begin and cease to match. |
| `SidecarPosts` | `TypeOK`, `RecordedOnce`, `OneOutcome`, `HandlerSaysRunning`, `PauseAgrees`, `AcksUndoNothing`, `ExecutionsEnd` | One task, five numbers (a pause, a resume and handler events), a failed POST, a restart and a second execution; handlers that begin with `running` and handlers that do not. |
| `SidecarSlots` | `SlotsAccounted` | Two tasks and one slot, so that one waits for the other. |
| `Agents` | `RegisteredHoldsKey`, `SweepKeepsSuspension`, `SilentFound`, `Reactivated` | One id, two keys, two sessions (an old request and a new one); three clock steps with timeout 1, so that an agent becomes stale; a failed sweep, and a sidecar that dies once and is restarted. |

What the runs added about reading show: a client of the event stream has the log
without gaps or repetitions, but for the events that became visible late, and learns
of a task's end although the connection that ended may not have told it; the receiver
of callbacks is told the truth, at least once unless all posts fail, the server
crashes, or an overlapping request reopens the task; a client that pages is given
each row that matched all along exactly once; links offer exactly what the handlers do
not refuse for the task's status (they may still refuse a successor that would be too
deep, `RETASK_DEPTH_EXCEEDED`, or a resume that comes too late, `PAUSE_TIMEOUT`).

`OutcomesCalledBack` says no more of callbacks than that outcomes of the executor are
called back. Whether a cancelled task is, and how often an outcome is, is where code and
comments disagree: `TerminalCalledBack` and `CalledBackPerOutcome` of `TaskClaims`,
neither of which the code keeps. In the same way `AcksUndoNothing` says that a late
acknowledgement does no harm, and `AcksRecorded` of `SidecarClaims`, that it does what it
is for, fails.

All bounds are constants named `Max...`. `CHECK_DEADLOCK FALSE` is used throughout:
with the bounds used up the systems may stop. That sessions do not wait for each
other for ever is `SomeoneProceeds`: its state part `NotAllWait`, and that the guards
it is made of (`can_proceed`) say which steps are enabled.

The runs named `Claim...` check one statement of a document or comment each and end
in a counterexample; "findings" in `PROJECT.json` quotes the statement and says what
the code does.

| Run | What the counterexample shows |
|---|---|
| `ClaimTransitions` | Overlapping handlers take a transition the table does not have. |
| `ClaimCompletion` | An operation of the principal takes the number of the handler's outcome, which is then lost. |
| `ClaimSignals` | One context injection disables all signals of the sidecar. |

The `...Claims` modules state more of this kind, each with a comment on what the code
does instead. To see the counterexample, name the definition in a configuration of its
module; the hazards in `PROJECT.json` refer to them and quote the statement.

| Definition | What the code does |
|---|---|
| `TerminalCalledBack` | A task its principal cancels, retasks or redirects is not called back. |
| `CalledBackPerOutcome` | A log line posted after the outcome calls back again. |
| `ContextInOrder` (in `TaskStore`) | Two overlapping injections are logged against the order of their numbers; one at a time they are not, which is `ContextIsInOrder` below. |
| `CompletedHasResult` | A task is completed and has no result. |
| `AcksRecorded` | The sidecar's report that it has paused is numbered from 1, and rejected. |
| `ExecutionsTimedOut` | A handler that does not read its input, or closes its output and lives on, is never timed out. |
| `CancelAnnounced` | A cancelled task is not announced to the sidecar that executes it, if no task of the agent is active. |
| `AcceptedStarted` | With `func_case_takes_else = FALSE` no task is started. |
| `RetryReplayed`, `ProgressRecorded`, `SupersededHasSuccessor` | A repeated retask is refused; a later progress report is not stored; an executor may say `redirected` of a task without a successor. |
| `OrphansEnd`, `PauseExpires` | A running task whose sidecar died is never picked up; a paused one never expires by itself. |
| `SuspensionStays` | A heartbeat ends a suspension. |

### Fairness

* `StreamSpec`: weak fairness of the generator, which the event loop runs on, and of
  a client that reads what it is sent and connects again. Nothing is assumed of the
  sessions that write the log.
* `DeliverySpec`: weak fairness of each session's steps (the event loop runs handlers
  that are ready, and the database answers) and of deliveries. Nothing makes
  requests come in; `ExpiredPauseEnds` has its own premise, that somebody keeps
  asking to resume (strong fairness of `resume_task`), because nothing else in the
  code looks at the clock.
* `Sidecar!FairSpec`: weak fairness of the two polling loops and of a coroutine's
  steps, which the event loop gives; strong fairness of `timeout`, because the
  deadline passes whatever the handler writes meanwhile, and the coroutine is at an
  await again and again. Nothing is assumed of the handler, whose steps (`Handler`) are
  not fair. `ExecutionsEnd` has a premise instead, that the task's coroutine is not for
  ever in one of the awaits outside the timeout (`AwaitsHandler`): the handler takes its
  input and, once it has closed its output or was killed, goes away. What it writes and
  when does not matter. Without the premise it is false: `ExecutionsTimedOut`.
* `AgentRegistry!FairSpec`: sessions and the monitor's loop go on, and nothing is
  assumed of the sidecars, which may be dead for good. `Reactivated` assumes
  `SidecarsRun` besides: their loops go on and the service manager restarts them.

## Theorems

For every value of the constants that meets the assumptions named in the modules:

* `TypeCorrect`: `TaskStore`'s type invariant. Its only difficulty is that requests
  are built in a dozen places: one lemma says what a handler hands to its session
  (`Admitted`).
* `LineageIsSound`: inductive with `InsertsSound`: the row a request is going to
  insert already continues its parent, which is committed and whose lineage columns
  no handler updates. This is why reading the parent without a lock is harmless.
* `KeysAreUnique`: the index is looked at in the step that inserts.
* `LogIsTruthful`, assuming `ExecutorPostsSerially`: the status event with the
  highest number carries the task's status. The invariant `LogInv` says how the
  numbers held by requests relate to the log: a flushed request has the row's lock
  and a number above all status events, a posted event's number was above the log
  when it was posted, and what has been logged since does not overtake it. Without
  the assumption it is false: two posted events may commit in the wrong order.
  `Sidecar!AcksRefused` is what justifies it for this sidecar, whose
  acknowledgements are posted beside the executor's events but always rejected.
* `RegistrationIsExclusive` and `RegistryTypeCorrect`: inductive with `AwaitsOwn` (a
  sidecar waits for its own request, of the kind its state says) and `Existing`
  (agents that heartbeats and sweeps hold are there), since no row's key changes.

* `RegistrationIsOwned`, `OverlappingUpdatesKept` (`WorkflowProofs`): inductive with
  `RequestSound`: an insertion carries its caller as the owner, and an update names
  only columns its request has provided, of a workflow its caller owns.
* `ViewIsTheLog`, `StreamTypeCorrect` (`StreamProofs`): `ViewIsLog` says nothing of
  what is under way, so it is not inductive. `StreamInv` says of each message up to
  its number, and of the generator up to `last_sent_sequence`, what `ViewIsLog` says
  of the client up to its `Last-Event-Id`, the messages before counted as received;
  and of a fetched batch that it has every event between the last number sent and
  each of its own. A commit keeps this because an event that is not late has a
  higher number than everything logged; it rests on `Numbered`, that numbers are
  positive and unique, from the unique index.
* `ReportsAreTrue`, `DeliveryTypeCorrect` (`DeliveryProofs`), the first assuming
  `OutcomesPosted`, that executors do not post `completed` or `failed` as the status
  of a `status` event, which stores no result, and `ExecutorPostsSerially`. The
  invariant `TableInv` is that of `DetailIsTrue` with `OutcomesLogged`, that an outcome
  in the log is a `completed` or `failed` event, so that a row, whenever it is read, has
  a status that is logged and the result its event holds (`RowIsTrue`); `PayloadsTrue`, that a payload which is true stays true, because
  logs grow.

Overlapping requests (`TaskLogProofs`, which extends `TaskStoreProofs`). The proofs
share one idea: `MeansInv` says of every request under way what it `Means`, i.e. which
handler made it, which status it found, and that its changes and its event belong
together; so each invariant below looks at the commit of such a request only.

* `TimesAreSet`: no assumption; `RequestsTimed` adds that a request under way that
  makes a task one that has run sets `started_at`, or the row has it already and no
  handler takes it away.
* `LogHasTheResult`, assuming `ExecutorPostsSerially`, as `LogIsTruthful` and for the
  same reason: two outcomes that were posted at once commit in either order. An
  outcome without a result makes the row's result none, and the theorem says so.
  `ResultInv` has `BlankKept` for it: where the loaded row had no result, the `UPDATE`
  does not name the column, and the row must still have none at the commit.
* `ProgressIsStored`, under the same assumption: as long as no progress is stored,
  none is logged, or an outcome before it has made the dictionary (`Stored`); and an
  event under way was posted after all that are logged (`PostOK`).
* `DetailIsTrue`, assuming `ExecutorPostsSerially` and nothing of the statuses executors
  post: what GET shows is what the log says last. `DetailInv` puts together `LogInv`,
  `ResultInv`, `TimesInv` and `SaysInv`; the last event with a status and the last
  outcome are the same event if the former is an outcome, because numbers are unique.
* `SuccessorsAreAnnounced`, assuming that executors post neither `retasked` nor
  `redirected`: a successor and the event that announces it are committed or rolled
  back together, and `BalanceInv` says that the children and the announcements are in
  balance (a cardinality, by the library's theorems on finite sets).
* `LinksAreHonoured`: the table of links agrees with the handlers' checks of the status,
  for tasks of any status, depth and context number that can be reached (`LinkInv`).
* `ChainsAreWhole`: the walk of `build_lineage_chain`, a recursive function limited by
  `lineage_depth`, reaches the root exactly. Such a function exists (`WalkExists`) and
  its n-th value is the end of the chain (`WalkIsChain`); both are shown by the least
  number at which it would not be so, because `LineageSound` gives each task of depth
  above 0 a parent one less deep.
* `SessionsNeverDeadlock`: `NotAllWait`, for any number of sessions and keys, with
  crashes. A session that has sent its `UPDATE` holds a row and may wait for a key; the
  one that has inserted the key holds everything it needs, and is waited for by others
  only. So rows come before keys, and nobody who holds a key waits: `WaitInv` has
  `LocksExclusive`, that no two sessions hold one row or one key, and `AllPhased`, what
  has been sent in which phase. If no session has a key then one with a row
  can insert its own, and if none has a row any can take one. The bound on numbers in `Flush` never stops a session
  either (`NumbersLast`: there is a number left for each session under way), so the
  bound hides nothing here.
* `NoStatusFromNowhere`: what overlapping requests keep of the transition table, where
  `ClaimTransitions` shows that they do not keep the table itself. Every status in the
  log but the first is a valid successor of one announced with a lower number: a
  handler may act on a status that is no longer the latest, never on one the task has
  not had. The number matters: the handler reads the row before it draws its own.
* `CallbacksArePaid`: what overlaps and crashes leave of `CallbacksCounted`. `Paid`
  counts the sessions that have recorded an event and have not yet looked at the row
  (`owing`), each with an event of its own.
* `NothingIsTakenBack`, an action property (`Kept`): of an existing task no step changes
  the origin, removes an event or unsets `started_at` or `completed_at`, and its result
  changes only together with a `completed` or `failed` event, new in the log, that holds
  what the row has then. A result may be overwritten, also by none, but the log keeps it.

One request at a time (`TaskSerialProofs`), assuming `OneAtATime`, that there is one
session. Without it these statements are false, as `ClaimTransitions` shows for the
first: what a handler has read may be stale when it commits. `CurrentInv` says that
the request under way still finds what it has read.

* `TransitionsAreValid`; `SupersededOnce`, if executors post neither `retasked` nor
  `redirected`; `ContextIsInOrder`, if they post no `context_injected`;
  `CallbacksAreCounted`, if no `status` event ends a task, with a count of what the
  log has and what is still to be scheduled (`CountInv`), and from it
  `OutcomesAreCalledBack`, as each outcome in the log is one of the events counted.
  `ContextIsInOrder` and `CallbacksAreCounted` say under which conditions the code does
  what it does not do in general (`ContextInOrder` with two sessions, `CalledBackPerOutcome`).
* `StoreImplementsContract`, if they post neither `retasked` nor `redirected`: the
  step simulation of `TaskContract`. The mapping takes the history of statuses from
  the log, by the rank of its status events; `RecordInv` says that each rank is that
  of one event and the last one has the row's status, so that a commit appends one
  status (or, for a successor, does so and starts a task) and every other step leaves
  the mapped state alone.
* `HistoriesAreRuns`: the statuses in a log are a run of the state machine that begins
  with `accepted` and leads to the row's status (`RunInv`, on top of `RecordInv`); by
  the table (`RunEnds`) only the last status is terminal, or the last but one, if the
  last is `retasked`. A reader of the log alone can replay the task.

The event stream, the sidecar and the listings:

* `EndedWhenOver` (`StreamProofs`): the generator closes when it has sent a terminal
  event or read a terminal status, and a status that is in the row is in the log
  (`SaysInv`, however requests overlap). `SuspensionKept` (`AgentRegistryProofs`): the
  `UPDATE` of a sweep looks at the status again.
* `NoReportIsMissed` (`StreamProofs`), assuming `ExecutorPostsSerially`: the exception
  in `ViewIsLog`, events that became visible after a higher number, does not extend to
  what only executors post (progress, logs, outcomes, escalations). By `PostAhead` of
  `LogInv` such an event is ahead of the whole log when it is committed; only events of
  principals' requests, numbered at their flush, can be overtaken.
* `PostsArePaid` (`DeliveryProofs`): deliveries and callbacks are equally many, so
  `CallbacksArePaid` bounds the deliveries, and `AttemptsLeft` the posts of each; what
  the receiver has comes from a delivery that has made an attempt.
* `SweepMissesNone` (`AgentRegistryProofs`), the safety part of `SilentFound`: the
  `SELECT` of a sweep skips rows whose `last_heartbeat` is NULL, and no active agent
  has one (`HeardFrom`), because only a heartbeat makes an agent active.
* `StreamKeepsStore` and `DeliveryKeepsStore` say that `StreamSpec` and `DeliverySpec`
  imply `TaskStore!Spec`, so that everything proved of the store holds beside streams
  and deliveries too.
* `SidecarTypes`, `Slots` (`SidecarProofs`): `TypeInv` has `Registered`, that a task
  is in flight exactly while it has a coroutine and an entry of flags, without which
  the coroutine's reads have no type; `SlotsBounded` counts. `SidecarRecordedOnce` and
  `SidecarAcksRefused` are proved together (`AckInv`): an acknowledgement is refused
  because the number of the signal's own event is in the log, which only grows; that is
  why posting one leaves all statuses alone (`SidecarAcksUndoNothing`, an action
  property), and also why it does not report anything (`AcksRecorded`).
  `SidecarOneOutcome` (`OutcomeInv`): an outcome is taken in an active state only, and
  after one the status moves no further than `retasked`. `SidecarSaysRunning`
  (`EarlyInv`): before the handler's first event nothing else can have taken its
  number.
* `SidecarPauseAgrees` (`PauseInv`: what the log says, what has been polled and what
  is still to be applied give the flag), assuming `"running" \notin Lines`: a handler
  says `running` in its first line at most. A later one resumes the task on the server
  and not in the sidecar, and the property is false.
* `ListingTypeCorrect`, `PagesAreComplete` (`WorkflowProofs`), for any limit and
  number of rows: `ListingInv` says that the rows given so far are at or before the
  cursor, and that a row that has matched all along was given or comes after it. It
  rests on `Page` (a cursor is the last row of its page and everything left out comes
  after it; without one the page has everything), which follows from the order being
  total and from counting the rows ahead of each (`PositionGrows`), and on
  `created_at` never changing.

The assumptions `NullAssumption`, `RowAssumption`, `WorkflowNullAssumption` and
`ListedNullAssumption` say that the values standing for SQL's null and for "not
named in the UPDATE" are none of the others; TLC evaluates them on each instance.

Only model-checked: the liveness properties `ReceiverTold`, `ExpiredPauseEnds`,
`StreamsEnd`, `OutcomeSeen`, `ExecutionsEnd`, `SilentFound` and `Reactivated`, which
need fairness, and the part of `SomeoneProceeds` that needs `ENABLED` (`can_proceed`
is what it says it is; the rest is `SessionsNeverDeadlock`); neither is in the prover's
reach.

## Plan

1. `TaskStateMachine`, `TaskStore`, `TaskContract`, their runs and theorems - done.
2. `Sidecar` and its runs - done. `AgentRegistry`, runs and theorems - done.
3. `EventStream`, `CallbackDelivery`, `TaskResponses`, runs and theorems - done.
4. `Workflows`, `Listings`, runs and theorems - done.
5. Theorems about `Sidecar`, `TaskResponses` and `Listings`, the serial properties and
   the refinement of `TaskContract` - done.
6. What overlapping requests keep of the serial properties (statuses, callbacks,
   deliveries, the client's view), the absence of deadlock and the safety part of
   `SilentFound` - done.
7. The awaits on the handler that have no timeout, the order of row and key locks,
   outcomes without a result, and the statements about callbacks, context,
   acknowledgements, cancellation and polling that the code does not keep - done.
8. Left: the safety parts of the other liveness arguments, and listings of tasks over
   `TaskStore` itself instead of the columns a listing reads.

## Not modelled

Signature algorithms, header formats and the replay window: functions of one request
and the clock (`require_auth` compares the timestamp and remembers nothing between
requests). Of the responses, everything but
links, the fields of a task's details and its lineage copies columns. The manifest and
health documents, configuration and logging: no state, or pure formatting.
`total_count` of listings: a number from a statement of its own. Lengths of back-off
pauses: only their order matters to the properties. Task retention and rate
limits: settings without code behind them.
