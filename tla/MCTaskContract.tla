--------------------------- MODULE MCTaskContract ---------------------------
(***************************************************************************)
(* TaskStore, serving one request at a time, implements TaskContract.      *)
(* A task's history is read off its event log: the statuses of its events  *)
(* in the order of their sequence numbers.                                 *)
(***************************************************************************)
EXTENDS MCTaskStore

logged(t) ==
    LET status_events == {e \in events[t] : e.status # NULL}
        nth(i) == CHOOSE e \in status_events :
                    Cardinality({f \in status_events : f.sequence <= e.sequence}) = i
    IN  [i \in 1..Cardinality(status_events) |-> nth(i).status]

Contract == INSTANCE TaskContract WITH
    history  <- [t \in TaskIds |-> logged(t)],
    parent   <- [t \in TaskIds |-> IF exists(t) THEN tasks[t].parent_task_id
                                   ELSE NULL],
    depth    <- [t \in TaskIds |-> IF exists(t) THEN tasks[t].lineage_depth
                                   ELSE 0],
    MaxDepth <- fleet_lineage_max_depth,
    None     <- NULL

\* Every handler, from load to commit, is one step of the contract or none: the
\* log records every change of status, in order and nothing else, each change is
\* valid where it happens, and a task is superseded together with the creation of
\* its successor.
ImplementsContract == Contract!Spec
=============================================================================
