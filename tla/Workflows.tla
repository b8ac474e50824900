----------------------------- MODULE Workflows -----------------------------
(***************************************************************************)
(* The workflow registry: create_workflow and update_workflow              *)
(* (workflows/service.py, workflows/routes.py) in overlapping sessions.    *)
(* Each loads the row, validates the request and writes at its commit; an  *)
(* UPDATE names the columns whose value differs from the loaded one.       *)
(* A request that is refused changes nothing, even if it is refused after  *)
(* some fields of the loaded object were set, and is left out.             *)
(***************************************************************************)
EXTENDS Integers, FiniteSets

CONSTANTS
    WorkflowIds,  \* ids, numbers in the order the database sorts them
    Owners,       \* agents that register workflows
    Tags,         \* values of tags
    Sessions,     \* requests the server handles at the same time
    NULL,
    Keep          \* a column an UPDATE does not name

ASSUME WorkflowAssumption ==
    /\ WorkflowIds \subseteq Nat \ {0}
    /\ IsFiniteSet(WorkflowIds)
    /\ NULL \notin Owners \cup Tags \cup Nat
    /\ Keep \notin Tags \cup {NULL, "active", "deprecated"}

VARIABLES
    workflows,   \* the rows, or NULL
    wreq,        \* the request each session handles, or NULL
    registered   \* the registrations agents were told of

wvars == <<workflows, wreq, registered>>

WorkflowStatus == {"active", "deprecated"}

\* class Workflow.  tags stands for every descriptive column (description, the
\* schemas, timeout_seconds); name and result_retention_days are updated like
\* status.
Workflow == [owner_agent_id : Owners, status : WorkflowStatus, tags : Tags \cup {NULL}]

Changes == [status : WorkflowStatus \cup {Keep}, tags : Tags \cup {NULL, Keep}]

\* insert: the row create_workflow adds, or NULL.  provided: the fields of the
\* request's body (model_fields_set).
WorkflowRequest == [workflow : WorkflowIds, caller : Owners,
                    insert : Workflow \cup {NULL},
                    provided : SUBSET {"status", "tags"}, changes : Changes]

ASSUME WorkflowNullAssumption == NULL \notin Workflow \cup WorkflowRequest

WorkflowTypeOK ==
    /\ workflows \in [WorkflowIds -> Workflow \cup {NULL}]
    /\ wreq \in [Sessions -> WorkflowRequest \cup {NULL}]
    /\ registered \subseteq Owners \X WorkflowIds

WorkflowInit ==
    /\ workflows = [w \in WorkflowIds |-> NULL]
    /\ wreq = [s \in Sessions |-> NULL]
    /\ registered = {}

\* A new id is inserted at the commit; the owner's own one is returned as it is;
\* another agent's is refused (WORKFLOW_EXISTS).
create_workflow(s, caller, w, tags) ==
    /\ wreq[s] = NULL
    /\ \/ /\ workflows[w] = NULL
          /\ wreq' = [wreq EXCEPT ![s] =
                        [workflow |-> w, caller |-> caller,
                         insert |-> [owner_agent_id |-> caller, status |-> "active",
                                     tags |-> tags],
                         provided |-> {}, changes |-> [status |-> Keep, tags |-> Keep]]]
          /\ UNCHANGED <<workflows, registered>>
       \/ /\ workflows[w] # NULL
          /\ workflows[w].owner_agent_id = caller
          /\ registered' = registered \cup {<<caller, w>>}
          /\ UNCHANGED <<workflows, wreq>>

\* Mutant: every column of the loaded object is written.
changed_all(loaded, provided, new) == IF provided THEN new ELSE loaded

\* What an assignment to a loaded column adds to the UPDATE.
changed(loaded, provided, new) == IF provided /\ new # loaded THEN new ELSE Keep

\* Only the owner.  A status that is null is taken as not provided; tags that
\* are null are removed.  A body without fields writes updated_at only and is left
\* out.
update_workflow(s, caller, w, status, tags, provided) ==
    /\ wreq[s] = NULL
    /\ workflows[w] # NULL
    /\ workflows[w].owner_agent_id = caller
    /\ wreq' = [wreq EXCEPT ![s] =
                  [workflow |-> w, caller |-> caller, insert |-> NULL,
                   provided |-> provided,
                   changes |-> [status |-> changed(workflows[w].status,
                                                   /\ "status" \in provided
                                                   /\ status # NULL, status),
                                tags |-> changed(workflows[w].tags,
                                                 "tags" \in provided, tags)]]]
    /\ UNCHANGED <<workflows, registered>>

set(old, new) == IF new = Keep THEN old ELSE new

\* Mutant: a second INSERT replaces the row.
id_taken_never(q) == FALSE

\* PRIMARY KEY (id).
id_taken(q) == q.insert # NULL /\ workflows[q.workflow] # NULL

\* session.commit: the INSERT or UPDATE, or an IntegrityError.
commit_workflow(s) ==
    LET q == wreq[s] IN
    /\ q # NULL
    /\ wreq' = [wreq EXCEPT ![s] = NULL]
    /\ \/ /\ id_taken(q)
          /\ UNCHANGED <<workflows, registered>>
       \/ /\ ~id_taken(q)
          /\ q.insert # NULL
          /\ workflows' = [workflows EXCEPT ![q.workflow] = q.insert]
          /\ registered' = registered \cup {<<q.caller, q.workflow>>}
       \/ /\ q.insert = NULL
          /\ workflows' = [workflows EXCEPT
                             ![q.workflow].status = set(@, q.changes.status),
                             ![q.workflow].tags = set(@, q.changes.tags)]
          /\ UNCHANGED registered

WorkflowNext ==
    \E s \in Sessions :
        \/ \E caller \in Owners, w \in WorkflowIds :
              \/ \E tags \in Tags \cup {NULL} : create_workflow(s, caller, w, tags)
              \/ \E status \in WorkflowStatus \cup {NULL}, tags \in Tags \cup {NULL},
                    provided \in (SUBSET {"status", "tags"}) \ {{}} :
                    update_workflow(s, caller, w, status, tags, provided)
        \/ commit_workflow(s)

WorkflowSpec == WorkflowInit /\ [][WorkflowNext]_wvars

-----------------------------------------------------------------------------
\* An agent that was told it has registered a workflow owns it, also when two
\* agents found the id free at the same time.
RegisteredIsOwner ==
    \A a \in Owners, w \in WorkflowIds :
        <<a, w>> \in registered => /\ workflows[w] # NULL
                                   /\ workflows[w].owner_agent_id = a

\* A field changes only when an update of the owner that provides this field is
\* committed: overlapping updates of different fields do not undo each other.
UpdatesKept ==
    [][\A w \in WorkflowIds :
          LET by(field) == \E s \in Sessions :
                              /\ wreq[s] # NULL /\ wreq'[s] = NULL
                              /\ wreq[s].workflow = w
                              /\ wreq[s].caller = workflows[w].owner_agent_id
                              /\ field \in wreq[s].provided
          IN  workflows[w] # NULL =>
                 /\ workflows'[w].status # workflows[w].status => by("status")
                 /\ workflows'[w].tags # workflows[w].tags => by("tags")]_wvars
=============================================================================
