---------------------------- MODULE TaskContract ----------------------------
(***************************************************************************)
(* What the task tables promise a reader, as an abstract specification: a  *)
(* task is its history, the statuses it has had in their order; an         *)
(* operation appends one status that the state machine allows, atomically  *)
(* with the successor it creates if it supersedes the task.                *)
(***************************************************************************)
EXTENDS Naturals, Sequences, TaskStateMachine

CONSTANTS TaskIds, MaxDepth, None

SUPERSEDED == {"retasked", "redirected"}

VARIABLES
    history,  \* the statuses a task has had, << >> before it exists
    parent,   \* the task it continues, or None
    depth     \* how many tasks it continues

cvars == <<history, parent, depth>>

status(t) == history[t][Len(history[t])]

Init ==
    /\ history = [t \in TaskIds |-> << >>]
    /\ parent = [t \in TaskIds |-> None]
    /\ depth = [t \in TaskIds |-> 0]

Dispatch(t) ==
    /\ history[t] = << >>
    /\ history' = [history EXCEPT ![t] = <<"accepted">>]
    /\ UNCHANGED <<parent, depth>>

Move(t, new_status) ==
    /\ history[t] # << >>
    /\ new_status \notin SUPERSEDED
    /\ validate_transition(status(t), new_status)
    /\ history' = [history EXCEPT ![t] = Append(@, new_status)]
    /\ UNCHANGED <<parent, depth>>

Supersede(t, new_status, child) ==
    /\ history[t] # << >>
    /\ history[child] = << >>
    /\ new_status \in SUPERSEDED
    /\ validate_transition(status(t), new_status)
    /\ depth[t] < MaxDepth
    /\ history' = [history EXCEPT ![t] = Append(@, new_status),
                                  ![child] = <<"accepted">>]
    /\ parent' = [parent EXCEPT ![child] = t]
    /\ depth' = [depth EXCEPT ![child] = depth[t] + 1]

Next ==
    \E t \in TaskIds :
        \/ Dispatch(t)
        \/ \E new_status \in TaskStatus :
              \/ Move(t, new_status)
              \/ \E child \in TaskIds : Supersede(t, new_status, child)

Spec == Init /\ [][Next]_cvars
=============================================================================
