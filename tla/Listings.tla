------------------------------ MODULE Listings ------------------------------
(***************************************************************************)
(* A client that goes through GET /workflows (list_workflows) or           *)
(* GET /workflows/{id}/tasks (TaskService.list_tasks) page by page, while  *)
(* the rows it lists are inserted and updated.  Each request selects up to *)
(* limit + 1 of the matching rows after the cursor.  Workflows are in the  *)
(* order of their ids, tasks by created_at and id, latest first; a cursor  *)
(* holds the sort key of the last row of its page.  The total number of    *)
(* rows, which a statement before counts, is left out.                     *)
(***************************************************************************)
EXTENDS Workflows, TaskStateMachine

CONSTANTS
    TaskIds,  \* ids, numbers in the order the database sorts them
    Statuses, \* the statuses tasks take on and are filtered by
    limit,    \* rows of a page
    MaxTime   \* bound on the clock

ASSUME ListingAssumption ==
    /\ TaskIds \subseteq Nat \ {0}
    /\ IsFiniteSet(TaskIds)
    /\ Statuses \subseteq TaskStatus
    /\ limit \in Nat \ {0}
    /\ MaxTime \in Nat

VARIABLES
    trow,     \* a task's created_at, its status once it is committed, or NULL
    clock,
    listing   \* what the client is doing

lvars == <<trow, clock, listing>>

\* A task that is not yet committed has no status.
ListedTask == [created_at : Nat, status : TaskStatus \cup {NULL}]

ASSUME ListedNullAssumption == NULL \notin ListedTask

\* status and by: the filters; by is the owner of a workflow, the since of a task
\* (caller, priority and until are like since: they look at columns that do not
\* change; tag is like status).  The client repeats them in every request: the
\* next link of a response has the cursor and the limit only.  got: how often it
\* was given a row.  steady, ever: the rows that have matched all the time, and at
\* some time, since it began.
Ids == WorkflowIds \cup TaskIds
NotListing == [of |-> NULL, place |-> "idle", status |-> NULL, by |-> NULL,
               cursor |-> NULL,
               got |-> [i \in Ids |-> 0], steady |-> {}, ever |-> {}]

ListingTypeOK ==
    /\ WorkflowTypeOK
    /\ trow \in [TaskIds -> ListedTask \cup {NULL}]
    /\ clock \in 0..MaxTime
    /\ listing \in [of     : {"workflows", "tasks"},
                    place  : {"idle", "select", "done"},
                    status : WorkflowStatus \cup TaskStatus \cup {NULL},
                    by     : Owners \cup Nat \cup {NULL},
                    cursor : Ids \cup {NULL},
                    got    : [Ids -> Nat],
                    steady : SUBSET Ids,
                    ever   : SUBSET Ids]

ListingInit ==
    /\ WorkflowInit
    /\ trow = [t \in TaskIds |-> NULL]
    /\ clock = 0
    /\ \E of \in {"workflows", "tasks"} : listing = [NotListing EXCEPT !.of = of]

-----------------------------------------------------------------------------
(* The rows of the tasks, as far as they are listed.                       *)

\* create_task and the others take created_at from the clock when they begin.
begin_task(t) ==
    /\ trow[t] = NULL
    /\ trow' = [trow EXCEPT ![t] = [created_at |-> clock, status |-> NULL]]

commit_task(t) ==
    /\ trow[t] # NULL
    /\ trow[t].status = NULL
    /\ trow' = [trow EXCEPT ![t].status = "accepted"]

move_task(t, new_status) ==
    /\ trow[t] # NULL
    /\ trow[t].status # NULL
    /\ validate_transition(trow[t].status, new_status)
    /\ trow' = [trow EXCEPT ![t].status = new_status]

-----------------------------------------------------------------------------
(* The queries.                                                            *)

matching_workflows(status, owner) ==
    {w \in WorkflowIds :
        /\ workflows[w] # NULL
        /\ workflows[w].status = IF status = NULL THEN "active" ELSE status
        /\ owner # NULL => workflows[w].owner_agent_id = owner}

matching_tasks(status, since) ==
    {t \in TaskIds :
        /\ trow[t] # NULL
        /\ trow[t].status # NULL
        /\ status # NULL => trow[t].status = status
        /\ since # NULL => trow[t].created_at >= since}

rows(of, status, by) == IF of = "workflows" THEN matching_workflows(status, by)
                        ELSE matching_tasks(status, by)

\* ORDER BY id, or created_at DESC, id DESC; and what is after a cursor.
precedes(a, b) ==
    IF listing.of = "workflows" THEN a < b
    ELSE \/ trow[a].created_at > trow[b].created_at
         \/ trow[a].created_at = trow[b].created_at /\ a > b

first(n, S) == {a \in S : Cardinality({b \in S : precedes(b, a)}) < n}

begin_listing(status, by) ==
    /\ listing.place = "idle"
    /\ listing' = [listing EXCEPT
                      !.place = "select", !.status = status, !.by = by,
                      !.steady = rows(listing.of, status, by),
                      !.ever = rows(listing.of, status, by)]

matching == rows(listing.of, listing.status, listing.by)

\* Mutant: the cursor of tasks compares created_at only.
after_cursor_by_time(a) ==
    listing.cursor # NULL =>
        IF listing.of = "workflows" THEN listing.cursor < a
        ELSE trow[listing.cursor].created_at > trow[a].created_at

after_cursor(a) == listing.cursor # NULL => precedes(listing.cursor, a)

\* limit + 1 rows, to see whether there are more than a page.
selected == first(limit + 1, {a \in matching : after_cursor(a)})

\* Mutant: there is a cursor, to no row, when there are no more.
next_cursor_always(page_and_one) ==
    LET page == first(limit, page_and_one) IN
    IF Cardinality(page_and_one) > limit
    THEN CHOOSE a \in page : \A b \in page \ {a} : precedes(b, a)
    ELSE 0

\* encode_cursor and encode_task_cursor of the last row of the page.
next_cursor(page_and_one) ==
    LET page == first(limit, page_and_one) IN
    IF Cardinality(page_and_one) > limit
    THEN CHOOSE a \in page : \A b \in page \ {a} : precedes(b, a)
    ELSE NULL

select_page ==
    /\ listing.place = "select"
    /\ LET page == first(limit, selected) IN
       listing' = [listing EXCEPT
                     !.place = IF next_cursor(selected) = NULL THEN "done" ELSE "select",
                     !.cursor = next_cursor(selected),
                     !.got = [i \in Ids |-> @[i] + IF i \in page THEN 1 ELSE 0]]

\* The rows have changed while the client goes through them.
Watched ==
    IF listing.place = "select"
    THEN \E l \in {listing} :
            listing' = [l EXCEPT !.steady = @ \cap rows(l.of, l.status, l.by)',
                                 !.ever = @ \cup rows(l.of, l.status, l.by)']
    ELSE UNCHANGED listing

\* The table that is not listed stands still: nothing here reads it.
ListingNext ==
    \/ /\ listing.of = "workflows"
       /\ WorkflowNext
       /\ Watched
       /\ UNCHANGED <<trow, clock>>
    \/ /\ listing.of = "tasks"
       /\ \E t \in TaskIds :
             \/ begin_task(t) \/ commit_task(t)
             \/ \E new_status \in Statuses : move_task(t, new_status)
       /\ Watched
       /\ UNCHANGED <<wvars, clock>>
    \/ /\ listing.of = "tasks"
       /\ clock < MaxTime
       /\ clock' = clock + 1
       /\ UNCHANGED <<wvars, trow, listing>>
    \/ /\ \/ select_page
          \/ /\ listing.of = "workflows"
             /\ \E status \in {"deprecated", NULL}, by \in Owners \cup {NULL} :
                   begin_listing(status, by)
          \/ /\ listing.of = "tasks"
             /\ \E status \in Statuses \cup {NULL}, by \in {clock, NULL} :
                   begin_listing(status, by)
       /\ UNCHANGED <<wvars, trow, clock>>

ListingSpec == ListingInit /\ [][ListingNext]_<<wvars, lvars>>

-----------------------------------------------------------------------------
\* The client is given every row that matched its filters from the first request
\* to the last, and no row twice, although rows are inserted and change between
\* its requests; and nothing that did not match at some time.
PagesComplete ==
    /\ listing.place = "done" => \A i \in listing.steady : listing.got[i] = 1
    /\ \A i \in Ids : /\ listing.got[i] <= 1
                      /\ listing.got[i] = 1 => i \in listing.ever
=============================================================================
