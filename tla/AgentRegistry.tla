--------------------------- MODULE AgentRegistry ---------------------------
(***************************************************************************)
(* The table of agents and those that write it: registrations and          *)
(* heartbeats of the sidecars (agents/routes.py, agents/service.py, and    *)
(* registration.py and heartbeat.py on the sidecar's side) and the         *)
(* heartbeat monitor of the server (agents/heartbeat_monitor.py).          *)
(*                                                                         *)
(* A request is handled in a database session of its own and reads the     *)
(* agent in an earlier step than it writes it; so does the monitor.  A     *)
(* sidecar that dies while it waits leaves its request to the server.      *)
(***************************************************************************)
EXTENDS Integers, FiniteSets

CONSTANTS
    Agents,           \* agent ids
    Keys,             \* key pairs
    Sessions,         \* requests the server handles at the same time
    _MAX_RETRIES,     \* of registration.py
    timeout_seconds,  \* fleet_heartbeat_timeout_seconds
    MaxTime,          \* bound on the clock
    MaxFaults,        \* bound on failed requests and sweeps
    MaxCrashes,       \* bound on crashes of sidecars
    NULL

ASSUME RegistryAssumption ==
    /\ IsFiniteSet(Sessions)
    /\ _MAX_RETRIES \in Nat
    /\ timeout_seconds \in Nat
    /\ MaxTime \in Nat
    /\ MaxFaults \in Nat
    /\ MaxCrashes \in Nat
    /\ NULL \notin Sessions \cup Nat
    /\ NULL \notin [public_key : Keys,
                    status : {"registered", "active", "unreachable", "suspended"},
                    last_heartbeat : Nat \cup {NULL}]
    /\ NULL \notin [phase : {"inserting", "authenticated", "loaded"},
                    agent : Agents, public_key : Keys, at : Nat,
                    reactivate : BOOLEAN]

VARIABLES
    agents,    \* the rows, NULL where there is none
    sidecar,   \* the process of each sidecar
    req,       \* the request each session handles, or NULL
    sweeping,  \* stale_ids of the sweep in progress
    now,
    faults,
    crashes

vars == <<agents, sidecar, req, sweeping, now, faults, crashes>>

\* A sidecar is configured with an agent id and a key; two may share the id.
Sidecars == Agents \X Keys

AgentStatus == {"registered", "active", "unreachable", "suspended"}

Agent == [public_key : Keys, status : AgentStatus, last_heartbeat : Nat \cup {NULL}]

\* "registering": in self_register; "running": in run_heartbeat; awaits: the
\* session whose answer it waits for.
Process == [pc : {"down", "registering", "running"},
            attempt : 0.._MAX_RETRIES,
            awaits : Sessions \cup {NULL}]

\* "inserting": a registration that found no agent; "authenticated" and "loaded":
\* a heartbeat.  at and reactivate: what it will write.
Request == [phase : {"inserting", "authenticated", "loaded"},
            agent : Agents, public_key : Keys, at : Nat, reactivate : BOOLEAN]

TypeOK ==
    /\ agents \in [Agents -> Agent \cup {NULL}]
    /\ sidecar \in [Sidecars -> Process]
    /\ req \in [Sessions -> Request \cup {NULL}]
    /\ sweeping \in SUBSET Agents
    /\ now \in Nat
    /\ faults \in Nat
    /\ crashes \in Nat

Down == [pc |-> "down", attempt |-> 0, awaits |-> NULL]

Init ==
    /\ agents = [a \in Agents |-> NULL]
    /\ sidecar = [c \in Sidecars |-> Down]
    /\ req = [s \in Sessions |-> NULL]
    /\ sweeping = {}
    /\ now = 0
    /\ faults = 0
    /\ crashes = 0

has_status(a, st) == agents[a] # NULL /\ agents[a].status = st

-----------------------------------------------------------------------------
(* The sidecars and the requests.                                          *)

start(c) ==
    /\ sidecar[c].pc = "down"
    /\ sidecar' = [sidecar EXCEPT ![c].pc = "registering"]
    /\ UNCHANGED <<agents, req, sweeping, now, faults, crashes>>

\* The sidecar of the session, if it still waits, has its answer.
Answered(s, pc) ==
    sidecar' = [c \in Sidecars |->
                  IF sidecar[c].awaits = s
                  THEN [sidecar[c] EXCEPT !.pc = pc, !.awaits = NULL]
                  ELSE sidecar[c]]

\* The loop of self_register goes on.
may_register(c) == /\ sidecar[c].pc = "registering"
                   /\ sidecar[c].awaits = NULL
                   /\ sidecar[c].attempt < _MAX_RETRIES

\* register_agent looks the id up.  200 for the same key; 409 for another one,
\* which ends the sidecar.
register(c, s) ==
    /\ may_register(c)
    /\ req[s] = NULL
    /\ LET a == c[1]
           attempted == [sidecar[c] EXCEPT !.attempt = @ + 1]
       IN  \/ /\ agents[a] = NULL
              /\ req' = [req EXCEPT ![s] = [phase |-> "inserting", agent |-> a,
                                            public_key |-> c[2], at |-> 0,
                                            reactivate |-> FALSE]]
              /\ sidecar' = [sidecar EXCEPT ![c] = [attempted EXCEPT !.awaits = s]]
           \/ /\ agents[a] # NULL /\ agents[a].public_key = c[2]
              /\ sidecar' = [sidecar EXCEPT ![c] = [attempted EXCEPT !.pc = "running"]]
              /\ UNCHANGED req
           \/ /\ agents[a] # NULL /\ agents[a].public_key # c[2]
              /\ sidecar' = [sidecar EXCEPT ![c] = Down]
              /\ UNCHANGED req
    /\ UNCHANGED <<agents, sweeping, now, faults, crashes>>

\* ConnectError or a 5xx answer: after a pause, another attempt.
register_fails(c) ==
    /\ may_register(c)
    /\ faults < MaxFaults
    /\ faults' = faults + 1
    /\ sidecar' = [sidecar EXCEPT ![c].attempt = @ + 1]
    /\ UNCHANGED <<agents, req, sweeping, now, crashes>>

\* SystemExit after the last attempt.
give_up(c) ==
    /\ sidecar[c].pc = "registering"
    /\ sidecar[c].awaits = NULL
    /\ sidecar[c].attempt = _MAX_RETRIES
    /\ sidecar' = [sidecar EXCEPT ![c] = Down]
    /\ UNCHANGED <<agents, req, sweeping, now, faults, crashes>>

\* Mutant: an existing row is overwritten.
id_free_always(a) == TRUE

\* The primary key of the table.
id_free(a) == agents[a] = NULL

\* INSERT and commit, or IntegrityError, which the sidecar sees as 500.
register_agent(s) ==
    /\ req[s] # NULL /\ req[s].phase = "inserting"
    /\ \/ /\ id_free(req[s].agent)
          /\ agents' = [agents EXCEPT ![req[s].agent] =
                          [public_key |-> req[s].public_key,
                           status |-> "registered", last_heartbeat |-> NULL]]
          /\ Answered(s, "running")
       \/ /\ ~id_free(req[s].agent)
          /\ Answered(s, "registering")
          /\ UNCHANGED agents
    /\ req' = [req EXCEPT ![s] = NULL]
    /\ UNCHANGED <<sweeping, now, faults, crashes>>

\* require_auth lets the request through: the agent is registered, not suspended,
\* and the signature is one of its key.
require_auth(c) ==
    LET a == c[1] IN
    /\ agents[a] # NULL
    /\ agents[a].status # "suspended"
    /\ agents[a].public_key = c[2]

\* run_heartbeat posts a heartbeat.  Rejected or failed ones change nothing.
run_heartbeat(c, s) ==
    /\ sidecar[c].pc = "running"
    /\ sidecar[c].awaits = NULL
    /\ req[s] = NULL
    /\ require_auth(c)
    /\ req' = [req EXCEPT ![s] = [phase |-> "authenticated", agent |-> c[1],
                                  public_key |-> c[2], at |-> 0,
                                  reactivate |-> FALSE]]
    /\ sidecar' = [sidecar EXCEPT ![c].awaits = s]
    /\ UNCHANGED <<agents, sweeping, now, faults, crashes>>

\* Mutant: only the first heartbeat makes the agent active.
reactivates_registered(status) == status = "registered"

reactivates(status) == status \in {"registered", "unreachable"}

\* AgentService.heartbeat reads the agent and decides what to assign ...
heartbeat_load(s) ==
    /\ req[s] # NULL /\ req[s].phase = "authenticated"
    /\ req' = [req EXCEPT ![s] =
                 [@ EXCEPT !.phase = "loaded", !.at = now,
                           !.reactivate = reactivates(agents[req[s].agent].status)]]
    /\ UNCHANGED <<agents, sidecar, sweeping, now, faults, crashes>>

\* What the UPDATE makes of a row: a status that was not assigned is not written.
Beaten(row, q) ==
    [row EXCEPT !.last_heartbeat = q.at,
                !.status = IF q.reactivate THEN "active" ELSE row.status]

\* ... and commits.
heartbeat(s) ==
    /\ req[s] # NULL /\ req[s].phase = "loaded"
    /\ agents' = [agents EXCEPT ![req[s].agent] = Beaten(@, req[s])]
    /\ Answered(s, "running")
    /\ req' = [req EXCEPT ![s] = NULL]
    /\ UNCHANGED <<sweeping, now, faults, crashes>>

\* A sidecar dies, of a timeout of the HTTP client, for example, which neither
\* self_register nor run_heartbeat catches.
Crash(c) ==
    /\ crashes < MaxCrashes
    /\ sidecar[c].pc # "down"
    /\ crashes' = crashes + 1
    /\ sidecar' = [sidecar EXCEPT ![c] = Down]
    /\ UNCHANGED <<agents, req, sweeping, now, faults>>

-----------------------------------------------------------------------------
(* The heartbeat monitor; the administrator; the clock.                    *)

\* Mutant: the comparison with the cutoff is the wrong way round.
stale_never(a) == /\ has_status(a, "active")
                  /\ agents[a].last_heartbeat # NULL
                  /\ agents[a].last_heartbeat - timeout_seconds > now

\* An active agent that was not heard for longer than the timeout.  SQL finds no
\* agent without a last_heartbeat.
stale(a) == /\ has_status(a, "active")
            /\ agents[a].last_heartbeat # NULL
            /\ agents[a].last_heartbeat < now - timeout_seconds

_sweep_select ==
    /\ sweeping = {}
    /\ sweeping' = {a \in Agents : stale(a)}
    /\ UNCHANGED <<agents, sidecar, req, now, faults, crashes>>

\* Mutant: the UPDATE does not look at the status again.
_sweep_update_blindly ==
    /\ sweeping # {}
    /\ agents' = [a \in Agents |-> IF a \in sweeping
                                   THEN [agents[a] EXCEPT !.status = "unreachable"]
                                   ELSE agents[a]]
    /\ sweeping' = {}
    /\ UNCHANGED <<sidecar, req, now, faults, crashes>>

\* The bulk UPDATE, of those that are still active.
_sweep_update ==
    /\ sweeping # {}
    /\ agents' = [a \in Agents |-> IF a \in sweeping /\ has_status(a, "active")
                                   THEN [agents[a] EXCEPT !.status = "unreachable"]
                                   ELSE agents[a]]
    /\ sweeping' = {}
    /\ UNCHANGED <<sidecar, req, now, faults, crashes>>

\* An exception is logged; the next sweep tries again.
_sweep_fails ==
    /\ sweeping # {}
    /\ faults < MaxFaults
    /\ faults' = faults + 1
    /\ sweeping' = {}
    /\ UNCHANGED <<agents, sidecar, req, now, crashes>>

\* Nothing in the repository suspends an agent: the administrator does.
Suspend(a) ==
    /\ agents[a] # NULL
    /\ agents[a].status # "suspended"
    /\ agents' = [agents EXCEPT ![a].status = "suspended"]
    /\ UNCHANGED <<sidecar, req, sweeping, now, faults, crashes>>

Tick ==
    /\ now < MaxTime
    /\ now' = now + 1
    /\ UNCHANGED <<agents, sidecar, req, sweeping, faults, crashes>>

-----------------------------------------------------------------------------
Handle(s) == register_agent(s) \/ heartbeat_load(s) \/ heartbeat(s)

Sweep == _sweep_select \/ _sweep_update \/ _sweep_fails

\* What a sidecar does unless it dies.
Run(c) == \/ start(c) \/ register_fails(c) \/ give_up(c)
          \/ \E s \in Sessions : register(c, s) \/ run_heartbeat(c, s)

Next ==
    \/ \E c \in Sidecars : Run(c) \/ Crash(c)
    \/ \E s \in Sessions : Handle(s)
    \/ Sweep
    \/ \E a \in Agents : Suspend(a)
    \/ Tick

Spec == Init /\ [][Next]_vars

\* The server runs: handlers go on, the monitor's loop never ends.
FairSpec == /\ Spec
            /\ \A s \in Sessions : WF_vars(Handle(s))
            /\ WF_vars(Sweep)

\* The sidecars run, too: the service manager restarts them, their loops go on.
SidecarsRun == \A c \in Sidecars : WF_vars(Run(c))

-----------------------------------------------------------------------------
(* Properties.                                                             *)

\* A sidecar that has been told it is registered holds the agent's key, now and
\* from then on: of two sidecars that register an id at the same time with
\* different keys, one is refused, although neither finds the other's row.
RegisteredHoldsKey ==
    \A c \in Sidecars :
        sidecar[c].pc = "running" =>
            agents[c[1]] # NULL /\ agents[c[1]].public_key = c[2]

\* A sweep does not end the suspension of an agent that was suspended after the
\* sweep had found it stale.
SweepKeepsSuspension ==
    [][\A a \in Agents : (has_status(a, "suspended") /\ sweeping' # sweeping)
                         => agents'[a].status = "suspended"]_vars

\* An agent that says nothing for too long does not stay active, even if its
\* sidecar has died in the middle of a request, and sweeps fail now and then.
SilentFound ==
    \A a \in Agents :
        (/\ has_status(a, "active")
         /\ \/ agents[a].last_heartbeat = NULL
            \/ agents[a].last_heartbeat < now - timeout_seconds)
        ~> \/ ~has_status(a, "active")
           \/ agents[a].last_heartbeat >= now - timeout_seconds

\* If the sidecars run, their heartbeats make an unreachable agent active again,
\* although one of them may miss that the agent has just been marked.
Reactivated ==
    SidecarsRun =>
        \A a \in Agents : has_status(a, "unreachable") ~> ~has_status(a, "unreachable")
=============================================================================
