------------------------ MODULE AgentRegistryProofs ------------------------
(***************************************************************************)
(* AgentRegistry: an agent id belongs to one key, for every value of the   *)
(* constants.                                                              *)
(***************************************************************************)
EXTENDS AgentRegistry, TLAPS

\* A sidecar that waits for a session waits for its own request: a registration
\* while it is registering, a heartbeat once it runs.
AwaitsOwn ==
    \A c \in Sidecars, s \in Sessions :
        sidecar[c].awaits = s =>
            /\ req[s] # NULL
            /\ req[s].agent = c[1]
            /\ req[s].public_key = c[2]
            /\ sidecar[c].pc = IF req[s].phase = "inserting" THEN "registering"
                               ELSE "running"

\* Heartbeats are handled for, and sweeps have found, existing agents only.
Existing ==
    /\ \A s \in Sessions :
          (req[s] # NULL /\ req[s].phase # "inserting") => agents[req[s].agent] # NULL
    /\ \A a \in sweeping : agents[a] # NULL

KeyInv == TypeOK /\ AwaitsOwn /\ Existing /\ RegisteredHoldsKey

LEMMA SidecarParts ==
    ASSUME NEW c \in Sidecars
    PROVE  c[1] \in Agents /\ c[2] \in Keys
BY DEF Sidecars

LEMMA KeyInit == Init => KeyInv
<1> SUFFICES ASSUME Init PROVE KeyInv
  OBVIOUS
<1>1. TypeOK
  BY RegistryAssumption DEF Init, TypeOK, Down, Process
<1>2. AwaitsOwn
  BY RegistryAssumption DEF Init, AwaitsOwn, Down
<1>3. Existing
  BY DEF Init, Existing
<1>4. RegisteredHoldsKey
  BY DEF Init, RegisteredHoldsKey, Down
<1> QED  BY <1>1, <1>2, <1>3, <1>4 DEF KeyInv

\* No row's key changes, and no row goes away.
KeysKept == \A a \in Agents : agents[a] # NULL =>
                /\ agents'[a] # NULL
                /\ agents'[a].public_key = agents[a].public_key

\* An action that touches neither sidecars nor requests.
LEMMA Aside ==
    ASSUME KeyInv, TypeOK', KeysKept, UNCHANGED <<sidecar, req>>,
           \A a \in sweeping' : agents'[a] # NULL
    PROVE  KeyInv'
<1>1. AwaitsOwn'
  BY DEF KeyInv, AwaitsOwn
<1>2. Existing'
  BY DEF KeyInv, Existing, KeysKept, TypeOK, Request
<1>3. RegisteredHoldsKey'
  BY SidecarParts DEF KeyInv, RegisteredHoldsKey, KeysKept
<1> QED  BY <1>1, <1>2, <1>3 DEF KeyInv

LEMMA RunStep ==
    ASSUME KeyInv, NEW c \in Sidecars, Run(c)
    PROVE  KeyInv'
<1> USE SidecarParts, RegistryAssumption DEF KeyInv
<1>1. CASE start(c)
  <2>1. TypeOK'
    BY <1>1 DEF start, TypeOK, Process
  <2>2. AwaitsOwn'
    BY <1>1 DEF start, TypeOK, Process, AwaitsOwn
  <2>3. Existing' /\ RegisteredHoldsKey'
    BY <1>1 DEF start, TypeOK, Process, Existing, RegisteredHoldsKey
  <2> QED  BY <2>1, <2>2, <2>3
<1>2. CASE register_fails(c)
  <2>1. TypeOK'
    BY <1>2 DEF register_fails, may_register, TypeOK, Process
  <2>2. AwaitsOwn'
    BY <1>2 DEF register_fails, may_register, TypeOK, Process, AwaitsOwn
  <2>3. Existing' /\ RegisteredHoldsKey'
    BY <1>2 DEF register_fails, may_register, TypeOK, Process, Existing,
                RegisteredHoldsKey
  <2> QED  BY <2>1, <2>2, <2>3
<1>3. CASE give_up(c)
  <2>1. TypeOK'
    BY <1>3 DEF give_up, TypeOK, Process, Down
  <2>2. AwaitsOwn'
    BY <1>3 DEF give_up, TypeOK, Process, AwaitsOwn, Down
  <2>3. Existing' /\ RegisteredHoldsKey'
    BY <1>3 DEF give_up, TypeOK, Process, Existing, RegisteredHoldsKey, Down
  <2> QED  BY <2>1, <2>2, <2>3
<1>4. ASSUME NEW s \in Sessions, register(c, s)
      PROVE  KeyInv'
  <2> DEFINE p == [sidecar[c] EXCEPT !.attempt = @ + 1]
             new == [phase |-> "inserting", agent |-> c[1], public_key |-> c[2],
                     at |-> 0, reactivate |-> FALSE]
  <2>1. sidecar[c] \in Process /\ sidecar[c].pc = "registering"
        /\ sidecar[c].awaits = NULL /\ sidecar[c].attempt < _MAX_RETRIES
    BY <1>4 DEF register, may_register, TypeOK
  <2>2. p \in Process /\ p.pc = "registering" /\ p.awaits = NULL
    BY <2>1 DEF Process
  <2> HIDE DEF p
  <2> DEFINE waiting == [p EXCEPT !.awaits = s]
             running == [p EXCEPT !.pc = "running"]
  <2>12. waiting \in Process /\ waiting.pc = "registering" /\ waiting.awaits = s
    BY <2>2 DEF Process
  <2>13. running \in Process /\ running.awaits = NULL
    BY <2>2 DEF Process
  <2>3. /\ new \in Request /\ new.phase = "inserting"
        /\ new.agent = c[1] /\ new.public_key = c[2]
    BY DEF Request
  <2>4. new # NULL
    BY <2>3 DEF Request
  <2>5. Down \in Process /\ Down.pc = "down" /\ Down.awaits = NULL
    BY DEF Down, Process
  <2>6. \/ /\ req' = [req EXCEPT ![s] = new]
           /\ sidecar' = [sidecar EXCEPT ![c] = waiting]
        \/ /\ agents[c[1]] # NULL /\ agents[c[1]].public_key = c[2]
           /\ sidecar' = [sidecar EXCEPT ![c] = running]
           /\ req' = req
        \/ sidecar' = [sidecar EXCEPT ![c] = Down] /\ req' = req
    BY <1>4 DEF register, p
  <2>7. req[s] = NULL /\ UNCHANGED <<agents, sweeping, now, faults, crashes>>
    BY <1>4 DEF register
  <2> HIDE DEF new, waiting, running
  <2>8. TypeOK'
    BY <2>12, <2>13, <2>3, <2>5, <2>6, <2>7 DEF TypeOK
  <2>9. AwaitsOwn'
    <3>1. CASE req' = [req EXCEPT ![s] = new]
               /\ sidecar' = [sidecar EXCEPT ![c] = waiting]
      BY <3>1, <2>12, <2>3, <2>4, <2>7 DEF TypeOK, AwaitsOwn
    <3>2. CASE sidecar' = [sidecar EXCEPT ![c] = running] /\ req' = req
      BY <3>2, <2>13 DEF TypeOK, AwaitsOwn
    <3>3. CASE sidecar' = [sidecar EXCEPT ![c] = Down] /\ req' = req
      BY <3>3, <2>5 DEF TypeOK, AwaitsOwn
    <3> QED  BY <2>6, <3>1, <3>2, <3>3
  <2>10. Existing'
    BY <2>3, <2>6, <2>7 DEF TypeOK, Existing
  <2>11. RegisteredHoldsKey'
    BY <2>12, <2>5, <2>6, <2>7 DEF TypeOK, RegisteredHoldsKey
  <2> QED  BY <2>8, <2>9, <2>10, <2>11
<1>5. ASSUME NEW s \in Sessions, run_heartbeat(c, s)
      PROVE  KeyInv'
  <2>1. TypeOK'
    BY <1>5 DEF run_heartbeat, require_auth, TypeOK, Process, Request
  <2>2. AwaitsOwn'
    <3> DEFINE q == [phase |-> "authenticated", agent |-> c[1],
                     public_key |-> c[2], at |-> 0, reactivate |-> FALSE]
               p == [sidecar[c] EXCEPT !.awaits = s]
    <3>1. q \in Request /\ q.phase = "authenticated" /\ q.agent = c[1]
                       /\ q.public_key = c[2]
      BY DEF Request
    <3>2. q # NULL
      BY <3>1 DEF Request
    <3>3. sidecar[c] \in Process /\ sidecar[c].pc = "running"
      BY <1>5 DEF run_heartbeat, TypeOK
    <3>4. p.pc = "running" /\ p.awaits = s
      BY <3>3 DEF Process
    <3>5. req' = [req EXCEPT ![s] = q] /\ sidecar' = [sidecar EXCEPT ![c] = p]
          /\ req[s] = NULL
      BY <1>5 DEF run_heartbeat
    <3> HIDE DEF p, q
    <3> QED  BY <3>1, <3>2, <3>4, <3>5 DEF TypeOK, AwaitsOwn
  <2>3. Existing'
    BY <1>5 DEF run_heartbeat, require_auth, TypeOK, Request, Existing
  <2>4. RegisteredHoldsKey'
    BY <1>5 DEF run_heartbeat, TypeOK, Process, RegisteredHoldsKey
  <2> QED  BY <2>1, <2>2, <2>3, <2>4
<1> QED  BY <1>1, <1>2, <1>3, <1>4, <1>5 DEF Run

LEMMA CrashStep ==
    ASSUME KeyInv, NEW c \in Sidecars, Crash(c)
    PROVE  KeyInv'
<1> USE SidecarParts, RegistryAssumption DEF KeyInv
<1>1. TypeOK'
  BY DEF Crash, TypeOK, Process, Down
<1>2. AwaitsOwn'
  BY DEF Crash, TypeOK, Process, AwaitsOwn, Down
<1>3. Existing' /\ RegisteredHoldsKey'
  BY DEF Crash, TypeOK, Process, Existing, RegisteredHoldsKey, Down
<1> QED  BY <1>1, <1>2, <1>3

\* A session that answers and is free again leaves no sidecar waiting for it.
LEMMA AnsweredAwaits ==
    ASSUME TypeOK, AwaitsOwn, NEW s \in Sessions,
           NEW pc \in {"registering", "running"}, Answered(s, pc),
           req' = [req EXCEPT ![s] = NULL]
    PROVE  AwaitsOwn' /\ sidecar' \in [Sidecars -> Process]
                      /\ req' \in [Sessions -> Request \cup {NULL}]
<1>1. sidecar' \in [Sidecars -> Process]
  BY DEF TypeOK, Answered, Process
<1>2. AwaitsOwn'
  <2> SUFFICES ASSUME NEW c \in Sidecars, NEW r \in Sessions, sidecar'[c].awaits = r
               PROVE  /\ req'[r] # NULL
                      /\ req'[r].agent = c[1] /\ req'[r].public_key = c[2]
                      /\ sidecar'[c].pc = IF req'[r].phase = "inserting" THEN "registering"
                                          ELSE "running"
    BY DEF AwaitsOwn
  <2>1. sidecar[c].awaits # s
    <3> SUFFICES ASSUME sidecar[c].awaits = s PROVE FALSE
      OBVIOUS
    <3>1. sidecar[c] \in Process /\ sidecar'[c] = [sidecar[c] EXCEPT !.pc = pc, !.awaits = NULL]
      BY DEF TypeOK, Answered
    <3>2. sidecar'[c].awaits = NULL
      BY <3>1 DEF Process
    <3> QED  BY <3>2, RegistryAssumption
  <2>2. sidecar'[c] = sidecar[c]
    BY <2>1 DEF Answered
  <2>3. r # s /\ req'[r] = req[r]
    BY <2>1, <2>2 DEF TypeOK
  <2> QED  BY <2>2, <2>3 DEF AwaitsOwn
<1> QED  BY <1>1, <1>2 DEF TypeOK

LEMMA HandleStep ==
    ASSUME KeyInv, NEW s \in Sessions, Handle(s)
    PROVE  KeyInv'
<1> USE SidecarParts, RegistryAssumption DEF KeyInv
<1>1. CASE register_agent(s)
  <2> DEFINE a == req[s].agent
  <2>1. req[s] \in Request /\ a \in Agents
    BY <1>1 DEF register_agent, TypeOK, Request
  <2>2. CASE id_free(a)
    <3> DEFINE new == [public_key |-> req[s].public_key,
                       status |-> "registered", last_heartbeat |-> NULL]
    <3>1. new \in Agent
      BY <2>1 DEF Agent, AgentStatus, Request
    <3>2. agents' = [agents EXCEPT ![a] = new] /\ Answered(s, "running")
      BY <1>1, <2>2 DEF register_agent
    <3>3. new # NULL
      BY <3>1 DEF Agent, AgentStatus
    <3>4. req' = [req EXCEPT ![s] = NULL]
      BY <1>1 DEF register_agent
    <3>5. AwaitsOwn' /\ sidecar' \in [Sidecars -> Process]
                     /\ req' \in [Sessions -> Request \cup {NULL}]
      BY <3>2, <3>4, AnsweredAwaits
    <3>6. TypeOK'
      BY <1>1, <2>1, <3>1, <3>2, <3>5 DEF register_agent, TypeOK
    <3>7. KeysKept
      BY <2>1, <2>2, <3>2 DEF id_free, KeysKept, TypeOK
    <3>8. Existing'
      BY <1>1, <2>1, <3>2, <3>3, <3>4, <3>7
         DEF register_agent, Existing, KeysKept, TypeOK, Request
    <3>9. ASSUME NEW c \in Sidecars, sidecar'[c].pc = "running"
          PROVE  agents'[c[1]] # NULL /\ agents'[c[1]].public_key = c[2]
      <4>1. CASE sidecar[c].awaits = s
        <5>1. a = c[1] /\ req[s].public_key = c[2]
          BY <4>1 DEF AwaitsOwn
        <5> QED  BY <5>1, <3>2, <3>3, <2>1 DEF TypeOK
      <4>2. CASE sidecar[c].awaits # s
        <5>1. sidecar'[c] = sidecar[c]
          BY <4>2, <3>2 DEF Answered
        <5> QED  BY <5>1, <3>7, <3>9 DEF RegisteredHoldsKey, KeysKept
      <4> QED  BY <4>1, <4>2
    <3> QED  BY <3>5, <3>6, <3>8, <3>9 DEF RegisteredHoldsKey
  <2>3. CASE ~id_free(a)
    <3>1. Answered(s, "registering") /\ agents' = agents
      BY <1>1, <2>3 DEF register_agent
    <3>2. req' = [req EXCEPT ![s] = NULL]
      BY <1>1 DEF register_agent
    <3>3. AwaitsOwn' /\ sidecar' \in [Sidecars -> Process]
                     /\ req' \in [Sessions -> Request \cup {NULL}]
      BY <3>1, <3>2, AnsweredAwaits
    <3>4. TypeOK'
      BY <1>1, <3>1, <3>3 DEF register_agent, TypeOK
    <3>5. Existing'
      BY <1>1, <3>1, <3>2 DEF register_agent, Existing, TypeOK
    <3>6. RegisteredHoldsKey'
      BY <3>1 DEF Answered, RegisteredHoldsKey, TypeOK, Process
    <3> QED  BY <3>3, <3>4, <3>5, <3>6
  <2> QED  BY <2>2, <2>3
<1>2. CASE heartbeat_load(s)
  <2> DEFINE q == [req[s] EXCEPT !.phase = "loaded", !.at = now,
                       !.reactivate = reactivates(agents[req[s].agent].status)]
  <2>1. q \in Request
    <3>1. reactivates(agents[req[s].agent].status) \in BOOLEAN
      BY DEF reactivates
    <3> QED  BY <1>2, <3>1 DEF heartbeat_load, TypeOK, Request
  <2>2. q # NULL /\ q.agent = req[s].agent /\ q.public_key = req[s].public_key
                 /\ q.phase = "loaded"
    BY <1>2, <2>1 DEF heartbeat_load, TypeOK, Request
  <2>3. req' = [req EXCEPT ![s] = q] /\ UNCHANGED <<agents, sidecar, sweeping>>
    BY <1>2 DEF heartbeat_load
  <2>4. req[s] # NULL /\ req[s].phase = "authenticated"
    BY <1>2 DEF heartbeat_load
  <2> HIDE DEF q
  <2>5. TypeOK'
    BY <1>2, <2>1, <2>3 DEF heartbeat_load, TypeOK
  <2>6. AwaitsOwn'
    BY <2>2, <2>3, <2>4 DEF AwaitsOwn, TypeOK
  <2>7. Existing' /\ RegisteredHoldsKey'
    BY <2>2, <2>3, <2>4 DEF Existing, RegisteredHoldsKey, TypeOK
  <2> QED  BY <2>5, <2>6, <2>7
<1>3. CASE heartbeat(s)
  <2> DEFINE a == req[s].agent
             r == Beaten(agents[a], req[s])
  <2>1. req[s] \in Request /\ a \in Agents /\ agents[a] \in Agent
    BY <1>3 DEF heartbeat, TypeOK, Request, Existing
  <2>2. r \in Agent
    BY <2>1 DEF Beaten, Agent, AgentStatus, Request
  <2>3. r # NULL /\ r.public_key = agents[a].public_key
    BY <2>1, <2>2 DEF Beaten, Agent, AgentStatus
  <2>4. agents' = [agents EXCEPT ![a] = r] /\ Answered(s, "running")
    BY <1>3 DEF heartbeat
  <2>5. req' = [req EXCEPT ![s] = NULL]
    BY <1>3 DEF heartbeat
  <2> HIDE DEF r
  <2>6. AwaitsOwn' /\ sidecar' \in [Sidecars -> Process]
                   /\ req' \in [Sessions -> Request \cup {NULL}]
    BY <2>4, <2>5, AnsweredAwaits
  <2>7. TypeOK'
    BY <1>3, <2>1, <2>2, <2>4, <2>6 DEF heartbeat, TypeOK
  <2>8. KeysKept
    BY <2>1, <2>3, <2>4 DEF KeysKept, TypeOK
  <2>9. Existing'
    BY <1>3, <2>5, <2>8 DEF heartbeat, Existing, KeysKept, TypeOK, Request
  <2>10. \A c \in Sidecars : sidecar'[c].pc = "running" => sidecar[c].pc = "running"
    BY <1>3, <2>4 DEF heartbeat, Answered, AwaitsOwn, TypeOK, Process
  <2>11. RegisteredHoldsKey'
    BY <2>8, <2>10 DEF RegisteredHoldsKey, KeysKept
  <2> QED  BY <2>6, <2>7, <2>9, <2>11
<1> QED  BY <1>1, <1>2, <1>3 DEF Handle

LEMMA ServerStep ==
    ASSUME KeyInv, Sweep \/ Tick \/ \E a \in Agents : Suspend(a)
    PROVE  KeyInv'
<1> USE DEF KeyInv
<1>1. CASE _sweep_select
  <2>1. TypeOK' /\ KeysKept
    BY <1>1 DEF _sweep_select, TypeOK, KeysKept
  <2>2. \A a \in sweeping' : agents'[a] # NULL
    BY <1>1 DEF _sweep_select, stale, has_status
  <2> QED  BY <1>1, <2>1, <2>2, Aside DEF _sweep_select
<1>2. CASE _sweep_update
  <2>1. \A a \in Agents : agents'[a] = IF a \in sweeping /\ has_status(a, "active")
                              THEN [agents[a] EXCEPT !.status = "unreachable"]
                              ELSE agents[a]
    BY <1>2 DEF _sweep_update
  <2>2. \A a \in Agents : has_status(a, "active") =>
            /\ [agents[a] EXCEPT !.status = "unreachable"] \in Agent
            /\ [agents[a] EXCEPT !.status = "unreachable"].public_key
                  = agents[a].public_key
    BY DEF has_status, TypeOK, Agent, AgentStatus
  <2>3. \A r \in Agent : r # NULL
    BY RegistryAssumption DEF Agent, AgentStatus
  <2>4. TypeOK'
    BY <1>2, <2>1, <2>2 DEF _sweep_update, TypeOK
  <2>5. KeysKept
    BY <2>1, <2>2, <2>3 DEF KeysKept
  <2>6. \A a \in sweeping' : agents'[a] # NULL
    BY <1>2 DEF _sweep_update
  <2> QED  BY <1>2, <2>4, <2>5, <2>6, Aside DEF _sweep_update
<1>3. CASE _sweep_fails
  <2>1. TypeOK' /\ KeysKept
    BY <1>3 DEF _sweep_fails, TypeOK, KeysKept
  <2>2. \A a \in sweeping' : agents'[a] # NULL
    BY <1>3 DEF _sweep_fails
  <2> QED  BY <1>3, <2>1, <2>2, Aside DEF _sweep_fails
<1>4. CASE Tick
  <2>1. TypeOK' /\ KeysKept
    BY <1>4 DEF Tick, TypeOK, KeysKept
  <2>2. \A a \in sweeping' : agents'[a] # NULL
    BY <1>4 DEF Tick, Existing
  <2> QED  BY <1>4, <2>1, <2>2, Aside DEF Tick
<1>5. ASSUME NEW a \in Agents, Suspend(a)
      PROVE  KeyInv'
  <2> DEFINE r == [agents[a] EXCEPT !.status = "suspended"]
  <2>1. r \in Agent /\ r.public_key = agents[a].public_key
    BY <1>5 DEF Suspend, TypeOK, Agent, AgentStatus
  <2>2. r # NULL
    BY <2>1, RegistryAssumption DEF Agent, AgentStatus
  <2>3. agents' = [agents EXCEPT ![a] = r]
    BY <1>5 DEF Suspend
  <2> HIDE DEF r
  <2>4. TypeOK' /\ KeysKept
    BY <1>5, <2>1, <2>2, <2>3 DEF Suspend, TypeOK, KeysKept
  <2>5. \A b \in sweeping' : agents'[b] # NULL
    BY <1>5, <2>4 DEF Suspend, Existing, KeysKept, TypeOK
  <2> QED  BY <1>5, <2>4, <2>5, Aside DEF Suspend
<1> QED  BY <1>1, <1>2, <1>3, <1>4, <1>5 DEF Sweep

LEMMA KeyStep == KeyInv /\ [Next]_vars => KeyInv'
<1> SUFFICES ASSUME KeyInv, [Next]_vars PROVE KeyInv'
  OBVIOUS
<1>1. CASE Next
  BY <1>1, RunStep, CrashStep, HandleStep, ServerStep DEF Next
<1>2. CASE UNCHANGED vars
  BY <1>2 DEF vars, KeyInv, TypeOK, AwaitsOwn, Existing, RegisteredHoldsKey
<1> QED  BY <1>1, <1>2

\* However many sidecars register an id with different keys, and whenever they
\* die, those that were told they are registered hold the key of its row.
THEOREM RegistrationIsExclusive == Spec => []RegisteredHoldsKey
<1>1. KeyInv => RegisteredHoldsKey
  BY DEF KeyInv
<1> QED  BY <1>1, KeyInit, KeyStep, PTL DEF Spec

\* Rows, processes and requests keep their types; in particular a sidecar never
\* makes more than _MAX_RETRIES attempts to register.
THEOREM RegistryTypeCorrect == Spec => []TypeOK
<1>1. KeyInv => TypeOK
  BY DEF KeyInv
<1> QED  BY <1>1, KeyInit, KeyStep, PTL DEF Spec

\* A step of the monitor leaves the row of a suspended agent as it is: only the
\* UPDATE writes rows, and of those the SELECT has found it takes the ones that
\* are active at that moment.
LEMMA SweepStep ==
    ASSUME KeyInv, [Next]_vars, sweeping' # sweeping,
           NEW a \in Agents, has_status(a, "suspended")
    PROVE  agents'[a].status = "suspended"
<1>1. CASE _sweep_update
  <2>1. agents'[a] = agents[a]
    BY <1>1 DEF _sweep_update, has_status
  <2> QED  BY <2>1 DEF has_status
<1>2. CASE _sweep_select \/ _sweep_fails
  BY <1>2 DEF _sweep_select, _sweep_fails, has_status
<1>3. CASE Tick \/ UNCHANGED vars
  BY <1>3 DEF Tick, vars
<1>4. ASSUME NEW c \in Sidecars, Run(c) \/ Crash(c)
      PROVE  FALSE
  BY <1>4 DEF Run, Crash, start, register_fails, give_up, register, run_heartbeat
<1>5. ASSUME NEW s \in Sessions, Handle(s)
      PROVE  FALSE
  BY <1>5 DEF Handle, register_agent, heartbeat_load, heartbeat
<1>6. ASSUME NEW b \in Agents, Suspend(b)
      PROVE  FALSE
  BY <1>6 DEF Suspend
<1> QED  BY <1>1, <1>2, <1>3, <1>4, <1>5, <1>6 DEF Next, Sweep

\* Whatever the administrator, the sidecars and the monitor do in between, a
\* sweep never ends a suspension.
THEOREM SuspensionKept == Spec => SweepKeepsSuspension
<1>1. KeyInv /\ [Next]_vars =>
        [\A a \in Agents : (has_status(a, "suspended") /\ sweeping' # sweeping)
                           => agents'[a].status = "suspended"]_vars
  BY SweepStep
<1> QED  BY <1>1, KeyInit, KeyStep, PTL DEF Spec, SweepKeepsSuspension

-----------------------------------------------------------------------------
(* What the monitor's SELECT finds.                                        *)

\* The last heartbeat of an agent that is active, or was until a sweep, is known,
\* and it is not in the future; neither is the one a request is about to write.
HeardFrom ==
    /\ \A a \in Agents :
          (has_status(a, "active") \/ has_status(a, "unreachable")) =>
              agents[a].last_heartbeat \in 0..now
    /\ \A s \in Sessions :
          (req[s] # NULL /\ req[s].phase = "loaded") => req[s].at <= now

\* The sweep misses no silent agent: one that is active and not known to have been
\* heard within the timeout is one that the SELECT of _sweep returns, although SQL
\* skips the rows whose last_heartbeat is NULL.
SilentSelected ==
    \A a \in Agents :
        /\ has_status(a, "active")
        /\ ~ (/\ agents[a].last_heartbeat # NULL
              /\ agents[a].last_heartbeat >= now - timeout_seconds)
        => stale(a)

\* The clock goes on, and the row of an agent changes its status to "active" with a
\* heartbeat only.
LEMMA HeardStep == KeyInv /\ HeardFrom /\ [Next]_vars => HeardFrom'
<1> SUFFICES ASSUME KeyInv, HeardFrom, [Next]_vars PROVE HeardFrom'
  OBVIOUS
<1> DEFINE Heard(r, n) == r # NULL => (r.status \in {"active", "unreachable"} =>
                                         r.last_heartbeat \in 0..n)
           Loaded(q, n) == q # NULL => (q.phase = "loaded" => q.at <= n)
<1>1. /\ \A a \in Agents : Heard(agents[a], now)
      /\ \A s \in Sessions : Loaded(req[s], now)
  BY DEF HeardFrom, has_status
<1>2. TypeOK /\ Existing
  BY DEF KeyInv
<1>3. SUFFICES /\ \A a \in Agents : Heard(agents'[a], now')
               /\ \A s \in Sessions : Loaded(req'[s], now')
  BY DEF HeardFrom, has_status
<1>4. CASE UNCHANGED <<agents, req, now>>
  BY <1>1, <1>4
<1>5. CASE Tick
  <2>1. agents' = agents /\ req' = req /\ now' = now + 1 /\ now \in Nat
    BY <1>2, <1>5 DEF Tick, TypeOK
  <2>2. \A s \in Sessions : req[s] # NULL => req[s].at \in Nat
    BY <1>2 DEF TypeOK, Request
  <2> QED  BY <1>1, <2>1, <2>2
<1>6. ASSUME NEW c \in Sidecars, NEW s \in Sessions,
             register(c, s) \/ run_heartbeat(c, s)
      PROVE  /\ \A a \in Agents : Heard(agents'[a], now')
             /\ \A r \in Sessions : Loaded(req'[r], now')
  <2>1. /\ agents' = agents /\ now' = now
        /\ \/ req' = req
           \/ \E q : q.phase # "loaded" /\ req' = [req EXCEPT ![s] = q]
    <3>1. CASE register(c, s)
      <4> DEFINE new == [phase |-> "inserting", agent |-> c[1], public_key |-> c[2],
                         at |-> 0, reactivate |-> FALSE]
      <4>1. new.phase = "inserting" /\ (req' = req \/ req' = [req EXCEPT ![s] = new])
        BY <3>1 DEF register
      <4> QED  BY <4>1, <3>1 DEF register
    <3>2. CASE run_heartbeat(c, s)
      <4> DEFINE new == [phase |-> "authenticated", agent |-> c[1],
                         public_key |-> c[2], at |-> 0, reactivate |-> FALSE]
      <4>1. new.phase = "authenticated" /\ req' = [req EXCEPT ![s] = new]
        BY <3>2 DEF run_heartbeat
      <4> QED  BY <4>1, <3>2 DEF run_heartbeat
    <3> QED  BY <1>6, <3>1, <3>2
  <2> QED  BY <1>1, <1>2, <2>1 DEF TypeOK
<1>7. ASSUME NEW s \in Sessions, register_agent(s)
      PROVE  /\ \A a \in Agents : Heard(agents'[a], now')
             /\ \A r \in Sessions : Loaded(req'[r], now')
  <2> DEFINE new == [public_key |-> req[s].public_key, status |-> "registered",
                     last_heartbeat |-> NULL]
  <2>1. new.status = "registered"
    OBVIOUS
  <2>2. /\ agents' = agents \/ agents' = [agents EXCEPT ![req[s].agent] = new]
        /\ req' = [req EXCEPT ![s] = NULL] /\ now' = now
    BY <1>7 DEF register_agent
  <2> HIDE DEF new
  <2> QED  BY <1>1, <1>2, <2>1, <2>2 DEF TypeOK
<1>8. ASSUME NEW s \in Sessions, heartbeat_load(s)
      PROVE  /\ \A a \in Agents : Heard(agents'[a], now')
             /\ \A r \in Sessions : Loaded(req'[r], now')
  <2> DEFINE q == [req[s] EXCEPT !.phase = "loaded", !.at = now,
                       !.reactivate = reactivates(agents[req[s].agent].status)]
  <2>1. q.at = now /\ now \in Nat
    BY <1>2, <1>8 DEF heartbeat_load, TypeOK, Request
  <2>2. req' = [req EXCEPT ![s] = q] /\ agents' = agents /\ now' = now
    BY <1>8 DEF heartbeat_load
  <2> HIDE DEF q
  <2> QED  BY <1>1, <1>2, <2>1, <2>2 DEF TypeOK
<1>9. ASSUME NEW s \in Sessions, heartbeat(s)
      PROVE  /\ \A a \in Agents : Heard(agents'[a], now')
             /\ \A r \in Sessions : Loaded(req'[r], now')
  <2> DEFINE r == Beaten(agents[req[s].agent], req[s])
  <2>1. req[s] \in Request /\ agents[req[s].agent] \in Agent /\ req[s].at <= now
    BY <1>1, <1>2, <1>9 DEF heartbeat, TypeOK, Existing, Request
  <2>2. r.last_heartbeat \in 0..now
    BY <1>2, <2>1 DEF Beaten, Agent, Request, TypeOK
  <2>3. agents' = [agents EXCEPT ![req[s].agent] = r]
    BY <1>9 DEF heartbeat
  <2>4. req' = [req EXCEPT ![s] = NULL] /\ now' = now
    BY <1>9 DEF heartbeat
  <2> HIDE DEF r
  <2> QED  BY <1>1, <1>2, <2>2, <2>3, <2>4 DEF TypeOK
<1>10. CASE _sweep_update
  <2>1. ASSUME NEW a \in Agents
        PROVE  Heard(agents'[a], now')
    <3>1. agents'[a] = IF a \in sweeping /\ has_status(a, "active")
                       THEN [agents[a] EXCEPT !.status = "unreachable"]
                       ELSE agents[a]
      BY <1>10 DEF _sweep_update
    <3>2. has_status(a, "active") =>
            [agents[a] EXCEPT !.status = "unreachable"].last_heartbeat
               = agents[a].last_heartbeat
      BY <1>2 DEF has_status, TypeOK, Agent
    <3>3. now' = now
      BY <1>10 DEF _sweep_update
    <3> QED  BY <1>1, <3>1, <3>2, <3>3 DEF has_status
  <2> QED  BY <1>1, <1>10, <2>1 DEF _sweep_update
<1>11. ASSUME NEW a \in Agents, Suspend(a)
       PROVE  /\ \A b \in Agents : Heard(agents'[b], now')
              /\ \A r \in Sessions : Loaded(req'[r], now')
  <2> DEFINE r == [agents[a] EXCEPT !.status = "suspended"]
  <2>1. r.status = "suspended"
    BY <1>2, <1>11 DEF Suspend, TypeOK, Agent
  <2>2. agents' = [agents EXCEPT ![a] = r] /\ req' = req /\ now' = now
    BY <1>11 DEF Suspend
  <2> HIDE DEF r
  <2> QED  BY <1>1, <1>2, <2>1, <2>2 DEF TypeOK
<1>12. ASSUME NEW c \in Sidecars,
              start(c) \/ register_fails(c) \/ give_up(c) \/ Crash(c)
       PROVE  UNCHANGED <<agents, req, now>>
  BY <1>12 DEF start, register_fails, give_up, Crash
<1>13. (_sweep_select \/ _sweep_fails \/ UNCHANGED vars)
          => UNCHANGED <<agents, req, now>>
  BY DEF _sweep_select, _sweep_fails, vars
<1> QED
  BY <1>4, <1>5, <1>6, <1>7, <1>8, <1>9, <1>10, <1>11, <1>12, <1>13
     DEF Next, Run, Handle, Sweep

\* However registrations, heartbeats, sweeps, suspensions and crashes interleave,
\* an active agent that has been silent for longer than the timeout is in the next
\* sweep's stale_ids: no active agent is without a last_heartbeat, which the SQL
\* comparison would never match.
THEOREM SweepMissesNone == Spec => []SilentSelected
<1>1. Init => HeardFrom
  BY DEF Init, HeardFrom, has_status
<1>2. KeyInv /\ HeardFrom => SilentSelected
  BY RegistryAssumption DEF KeyInv, TypeOK, HeardFrom, SilentSelected, stale, has_status
<1> QED  BY <1>1, <1>2, HeardStep, KeyInit, KeyStep, PTL DEF Spec
=============================================================================
