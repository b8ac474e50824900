---------------------------- MODULE AgentClaims ----------------------------
(***************************************************************************)
(* What the repository's documents and comments say of agents and the      *)
(* code does not keep: naming one of these in a configuration of this      *)
(* module gives a counterexample.                                          *)
(***************************************************************************)
EXTENDS AgentRegistry

\* An agent is marked unreachable after the timeout's silence (deployment.md).
\* The sweep marks what it has found stale without looking at last_heartbeat
\* again, and a heartbeat may have come in between.
MarkedWhenSilent ==
    [][\A a \in Agents :
          (has_status(a, "active") /\ agents'[a].status = "unreachable") => stale(a)]_vars

\* A heartbeat re-activates the agent (deployment.md).  One that read the agent
\* before the sweep marked it writes last_heartbeat only.
HeartbeatReactivates ==
    [][\A s \in Sessions :
          heartbeat(s) => agents'[req[s].agent].status # "unreachable"]_vars

\* A suspension stays until the administrator ends it (RFC 1, error codes), and
\* here she never does.  A heartbeat that read the agent while it was unreachable
\* makes it active after it was suspended.
SuspensionStays ==
    [][\A a \in Agents :
          has_status(a, "suspended") => agents'[a].status = "suspended"]_vars
=============================================================================
