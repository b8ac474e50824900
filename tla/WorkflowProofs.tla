--------------------------- MODULE WorkflowProofs ---------------------------
(***************************************************************************)
(* Workflows: ids belong to the agents that registered them, and           *)
(* overlapping updates keep each other's fields; Listings: a client that   *)
(* pages is given every row once; for every value of the constants.        *)
(***************************************************************************)
EXTENDS Listings, FiniteSetTheorems, WellFoundedInduction, TLAPS

\* What a session is about to commit was allowed when it was loaded and still is:
\* a new row belongs to the caller; an update is the owner's, and changes fields
\* of the request's body only.
RequestSound ==
    \A s \in Sessions : wreq[s] # NULL =>
        LET q == wreq[s] IN
        /\ q.insert # NULL => q.insert.owner_agent_id = q.caller
        /\ q.insert = NULL =>
              /\ workflows[q.workflow] # NULL
              /\ workflows[q.workflow].owner_agent_id = q.caller
              /\ q.changes.status # Keep => "status" \in q.provided
              /\ q.changes.tags # Keep => "tags" \in q.provided

WorkflowInv == WorkflowTypeOK /\ RequestSound /\ RegisteredIsOwner

\* No row goes away or changes its owner.
OwnersKept == \A w \in WorkflowIds : workflows[w] # NULL =>
                  /\ workflows'[w] # NULL
                  /\ workflows'[w].owner_agent_id = workflows[w].owner_agent_id

LEMMA InvInit == WorkflowInit => WorkflowInv
BY DEF WorkflowInit, WorkflowInv, WorkflowTypeOK, RequestSound, RegisteredIsOwner

LEMMA CreateKeeps ==
    ASSUME WorkflowInv, NEW s \in Sessions, NEW caller \in Owners,
           NEW w \in WorkflowIds, NEW tags \in Tags \cup {NULL},
           create_workflow(s, caller, w, tags)
    PROVE  WorkflowInv' /\ UNCHANGED workflows
<1>1. CASE workflows[w] = NULL
  <2> DEFINE q == [workflow |-> w, caller |-> caller,
                   insert |-> [owner_agent_id |-> caller, status |-> "active",
                               tags |-> tags],
                   provided |-> {}, changes |-> [status |-> Keep, tags |-> Keep]]
  <2>1. wreq' = [wreq EXCEPT ![s] = q] /\ UNCHANGED <<workflows, registered>>
    BY <1>1 DEF create_workflow
  <2>2. q.insert \in Workflow /\ q \in WorkflowRequest
    BY DEF Workflow, WorkflowRequest, WorkflowStatus, Changes
  <2>3. WorkflowTypeOK'
    BY <2>1, <2>2 DEF WorkflowInv, WorkflowTypeOK
  <2>4. RequestSound'
    <3> SUFFICES ASSUME NEW r \in Sessions, wreq'[r] # NULL
                 PROVE  /\ wreq'[r].insert # NULL =>
                              wreq'[r].insert.owner_agent_id = wreq'[r].caller
                        /\ wreq'[r].insert = NULL =>
                              /\ workflows[wreq'[r].workflow] # NULL
                              /\ workflows[wreq'[r].workflow].owner_agent_id
                                    = wreq'[r].caller
                              /\ wreq'[r].changes.status # Keep
                                    => "status" \in wreq'[r].provided
                              /\ wreq'[r].changes.tags # Keep
                                    => "tags" \in wreq'[r].provided
      BY <2>1 DEF RequestSound
    <3>1. CASE r = s
      <4>1. wreq'[r] = q
        BY <2>1, <3>1 DEF WorkflowInv, WorkflowTypeOK
      <4>2. q.insert # NULL
        BY <2>2, WorkflowNullAssumption
      <4> QED  BY <4>1, <4>2
    <3>2. CASE r # s
      <4>1. wreq'[r] = wreq[r]
        BY <2>1, <3>2 DEF WorkflowInv, WorkflowTypeOK
      <4> QED  BY <4>1 DEF WorkflowInv, RequestSound
    <3> QED  BY <3>1, <3>2
  <2>5. RegisteredIsOwner'
    BY <2>1 DEF WorkflowInv, RegisteredIsOwner
  <2> QED  BY <2>1, <2>3, <2>4, <2>5 DEF WorkflowInv
<1>2. CASE workflows[w] # NULL
  <2>1. /\ workflows[w].owner_agent_id = caller
        /\ registered' = registered \cup {<<caller, w>>}
        /\ UNCHANGED <<workflows, wreq>>
    BY <1>2 DEF create_workflow
  <2>2. WorkflowTypeOK'
    BY <2>1 DEF WorkflowInv, WorkflowTypeOK
  <2>3. RequestSound'
    BY <2>1 DEF WorkflowInv, RequestSound
  <2>4. RegisteredIsOwner'
    BY <1>2, <2>1 DEF WorkflowInv, RegisteredIsOwner
  <2> QED  BY <2>1, <2>2, <2>3, <2>4 DEF WorkflowInv
<1> QED  BY <1>1, <1>2

LEMMA UpdateKeeps ==
    ASSUME WorkflowInv, NEW s \in Sessions, NEW caller \in Owners,
           NEW w \in WorkflowIds, NEW status \in WorkflowStatus \cup {NULL},
           NEW tags \in Tags \cup {NULL}, NEW provided \in SUBSET {"status", "tags"},
           update_workflow(s, caller, w, status, tags, provided)
    PROVE  WorkflowInv' /\ UNCHANGED workflows
<1> DEFINE st == changed(workflows[w].status, "status" \in provided /\ status # NULL,
                         status)
           tg == changed(workflows[w].tags, "tags" \in provided, tags)
           q == [workflow |-> w, caller |-> caller, insert |-> NULL,
                 provided |-> provided, changes |-> [status |-> st, tags |-> tg]]
<1>1. /\ wreq' = [wreq EXCEPT ![s] = q]
      /\ UNCHANGED <<workflows, registered>>
      /\ workflows[w] # NULL
      /\ workflows[w].owner_agent_id = caller
  BY DEF update_workflow
<1>2. st \in WorkflowStatus \cup {Keep} /\ (st # Keep => "status" \in provided)
  BY DEF changed
<1>3. tg \in Tags \cup {NULL, Keep} /\ (tg # Keep => "tags" \in provided)
  BY DEF changed
<1> HIDE DEF st, tg
<1>4. q \in WorkflowRequest
  BY <1>2, <1>3 DEF WorkflowRequest, Changes
<1>5. WorkflowTypeOK'
  BY <1>1, <1>4 DEF WorkflowInv, WorkflowTypeOK
<1>6. RequestSound'
  <2>1. \A r \in Sessions : wreq'[r] = IF r = s THEN q ELSE wreq[r]
    BY <1>1 DEF WorkflowInv, WorkflowTypeOK
  <2> QED  BY <1>1, <1>2, <1>3, <2>1 DEF WorkflowInv, RequestSound
<1>7. RegisteredIsOwner'
  BY <1>1 DEF WorkflowInv, RegisteredIsOwner
<1> QED  BY <1>1, <1>5, <1>6, <1>7 DEF WorkflowInv

\* What a commit does to the rows.
LEMMA CommitChanges ==
    ASSUME WorkflowInv, NEW s \in Sessions, commit_workflow(s)
    PROVE  LET q == wreq[s] IN
           /\ workflows' \in [WorkflowIds -> Workflow \cup {NULL}]
           /\ OwnersKept
           /\ \A w \in WorkflowIds : workflows[w] # NULL =>
                 /\ workflows'[w].status # workflows[w].status =>
                       /\ q.workflow = w
                       /\ q.caller = workflows[w].owner_agent_id
                       /\ "status" \in q.provided
                 /\ workflows'[w].tags # workflows[w].tags =>
                       /\ q.workflow = w
                       /\ q.caller = workflows[w].owner_agent_id
                       /\ "tags" \in q.provided
<1> DEFINE q == wreq[s]
<1>1. q \in WorkflowRequest /\ q # NULL
  BY DEF commit_workflow, WorkflowInv, WorkflowTypeOK
<1>2. CASE UNCHANGED workflows
  BY <1>2 DEF WorkflowInv, WorkflowTypeOK, OwnersKept
<1>3. CASE /\ ~id_taken(q) /\ q.insert # NULL
           /\ workflows' = [workflows EXCEPT ![q.workflow] = q.insert]
  <2>1. workflows[q.workflow] = NULL
    BY <1>3 DEF id_taken
  <2>2. q.insert \in Workflow
    BY <1>1, <1>3 DEF WorkflowRequest
  <2> QED  BY <1>1, <1>3, <2>1, <2>2, WorkflowNullAssumption
           DEF WorkflowInv, WorkflowTypeOK, OwnersKept, WorkflowRequest
<1>4. CASE /\ q.insert = NULL
           /\ workflows' = [workflows EXCEPT
                              ![q.workflow].status = set(@, q.changes.status),
                              ![q.workflow].tags = set(@, q.changes.tags)]
  <2> DEFINE x == q.workflow
             old == workflows[x]
             new == [old EXCEPT !.status = set(@, q.changes.status),
                                !.tags = set(@, q.changes.tags)]
  <2>1. x \in WorkflowIds /\ q.changes \in Changes
    BY <1>1 DEF WorkflowRequest
  <2>2. /\ old \in Workflow
        /\ old.owner_agent_id = q.caller
        /\ q.changes.status # Keep => "status" \in q.provided
        /\ q.changes.tags # Keep => "tags" \in q.provided
    BY <1>1, <1>4, <2>1 DEF WorkflowInv, WorkflowTypeOK, RequestSound
  <2>3. workflows' = [workflows EXCEPT ![x] = new]
    BY <1>4, <2>1, <2>2 DEF WorkflowInv, WorkflowTypeOK, Workflow
  <2>4. /\ set(old.status, q.changes.status) \in WorkflowStatus
        /\ set(old.tags, q.changes.tags) \in Tags \cup {NULL}
    BY <2>1, <2>2 DEF set, Changes, Workflow
  <2>5. /\ new \in Workflow
        /\ new.owner_agent_id = old.owner_agent_id
        /\ new.status = set(old.status, q.changes.status)
        /\ new.tags = set(old.tags, q.changes.tags)
    BY <2>2, <2>4 DEF Workflow
  <2>6. /\ new.status # old.status => "status" \in q.provided
        /\ new.tags # old.tags => "tags" \in q.provided
    BY <2>2, <2>5 DEF set
  <2>7. \A w \in WorkflowIds : workflows'[w] = IF w = x THEN new ELSE workflows[w]
    BY <2>1, <2>3 DEF WorkflowInv, WorkflowTypeOK
  <2>8. workflows' \in [WorkflowIds -> Workflow \cup {NULL}]
    BY <2>1, <2>3, <2>5 DEF WorkflowInv, WorkflowTypeOK
  <2>9. OwnersKept
    BY <2>5, <2>7, WorkflowNullAssumption DEF OwnersKept
  <2> HIDE DEF new
  <2> QED  BY <2>2, <2>6, <2>7, <2>8, <2>9
<1> QED  BY <1>2, <1>3, <1>4 DEF commit_workflow

LEMMA CommitKeeps ==
    ASSUME WorkflowInv, NEW s \in Sessions, commit_workflow(s)
    PROVE  WorkflowInv'
<1> DEFINE q == wreq[s]
<1>1. /\ workflows' \in [WorkflowIds -> Workflow \cup {NULL}]
      /\ OwnersKept
  BY CommitChanges
<1>2. q \in WorkflowRequest /\ q # NULL /\ wreq' = [wreq EXCEPT ![s] = NULL]
  BY DEF commit_workflow, WorkflowInv, WorkflowTypeOK
<1>3. \/ UNCHANGED registered
      \/ /\ registered' = registered \cup {<<q.caller, q.workflow>>}
         /\ q.insert # NULL
         /\ workflows' = [workflows EXCEPT ![q.workflow] = q.insert]
  BY DEF commit_workflow
<1>4. WorkflowTypeOK'
  BY <1>1, <1>2, <1>3 DEF WorkflowInv, WorkflowTypeOK, WorkflowRequest
<1>5. RequestSound'
  <2> SUFFICES ASSUME NEW r \in Sessions, wreq'[r] # NULL
               PROVE  /\ r # s
                      /\ wreq'[r] = wreq[r]
                      /\ wreq[r].workflow \in WorkflowIds
    BY <1>1 DEF WorkflowInv, RequestSound, OwnersKept
  <2>1. r # s /\ wreq'[r] = wreq[r]
    BY <1>2 DEF WorkflowInv, WorkflowTypeOK
  <2>2. wreq[r] \in WorkflowRequest
    BY <2>1 DEF WorkflowInv, WorkflowTypeOK
  <2> QED  BY <2>1, <2>2 DEF WorkflowRequest
<1>6. RegisteredIsOwner'
  <2> SUFFICES ASSUME NEW a \in Owners, NEW w \in WorkflowIds,
                      <<a, w>> \in registered'
               PROVE  workflows'[w] # NULL /\ workflows'[w].owner_agent_id = a
    BY DEF RegisteredIsOwner
  <2>1. CASE <<a, w>> \in registered
    BY <1>1, <2>1 DEF WorkflowInv, RegisteredIsOwner, OwnersKept
  <2>2. CASE <<a, w>> \notin registered
    <3>1. /\ a = q.caller /\ w = q.workflow
          /\ q.insert # NULL
          /\ workflows' = [workflows EXCEPT ![q.workflow] = q.insert]
      BY <1>3, <2>2
    <3>2. q.insert.owner_agent_id = q.caller
      BY <1>2, <3>1 DEF WorkflowInv, RequestSound
    <3> QED  BY <3>1, <3>2 DEF WorkflowInv, WorkflowTypeOK
  <2> QED  BY <2>1, <2>2
<1> QED  BY <1>4, <1>5, <1>6 DEF WorkflowInv

LEMMA InvStep == WorkflowInv /\ [WorkflowNext]_wvars => WorkflowInv'
<1> SUFFICES ASSUME WorkflowInv, [WorkflowNext]_wvars PROVE WorkflowInv'
  OBVIOUS
<1>1. CASE UNCHANGED wvars
  BY <1>1 DEF wvars, WorkflowInv, WorkflowTypeOK, RequestSound, RegisteredIsOwner
<1>2. CASE WorkflowNext
  BY <1>2, CreateKeeps, UpdateKeeps, CommitKeeps DEF WorkflowNext
<1> QED  BY <1>1, <1>2

\* An agent that was told by create_workflow that it has registered an id owns the
\* row, for any number of agents, sessions and ids.
THEOREM RegistrationIsOwned == WorkflowSpec => []RegisteredIsOwner
<1>1. WorkflowInv => RegisteredIsOwner
  BY DEF WorkflowInv
<1> QED  BY InvInit, InvStep, <1>1, PTL DEF WorkflowSpec

\* A commit of update_workflow changes only the fields that the owner's request
\* has provided: overlapping updates of different fields both take effect.
THEOREM OverlappingUpdatesKept == WorkflowSpec => UpdatesKept
<1> DEFINE Kept ==
      \A w \in WorkflowIds :
          LET by(field) == \E s \in Sessions :
                              /\ wreq[s] # NULL /\ wreq'[s] = NULL
                              /\ wreq[s].workflow = w
                              /\ wreq[s].caller = workflows[w].owner_agent_id
                              /\ field \in wreq[s].provided
          IN  workflows[w] # NULL =>
                 /\ workflows'[w].status # workflows[w].status => by("status")
                 /\ workflows'[w].tags # workflows[w].tags => by("tags")
<1>1. ASSUME WorkflowInv, [WorkflowNext]_wvars
      PROVE  [Kept]_wvars
  <2>1. CASE UNCHANGED workflows
    BY <2>1
  <2>2. ASSUME NEW s \in Sessions, commit_workflow(s)
        PROVE  Kept
    <3>1. wreq[s] # NULL /\ wreq'[s] = NULL
      BY <1>1, <2>2 DEF commit_workflow, WorkflowInv, WorkflowTypeOK
    <3> QED  BY <1>1, <2>2, <3>1, CommitChanges
  <2> QED  BY <1>1, <2>1, <2>2, CreateKeeps, UpdateKeeps DEF WorkflowNext, wvars
<1> QED  BY InvInit, InvStep, <1>1, PTL DEF WorkflowSpec, UpdatesKept

-----------------------------------------------------------------------------
(* Finite sets of rows in the order of a listing.                          *)

Ordered(S) ==
    /\ IsFiniteSet(S)
    /\ \A a \in S : ~ precedes(a, a)
    /\ \A a, b, c \in S : precedes(a, b) /\ precedes(b, c) => precedes(a, c)
    /\ \A a, b \in S : a = b \/ precedes(a, b) \/ precedes(b, a)

ahead(S, a) == {b \in S : precedes(b, a)}
position(S, a) == Cardinality(ahead(S, a))

LEMMA LeastNumber ==
    ASSUME NEW T \in SUBSET Nat, T # {}
    PROVE  \E x \in T : \A y \in T : x <= y
<1> DEFINE R == OpToRel(<, Nat)
<1>1. IsWellFoundedOn(R, Nat)
  BY NatLessThanWellFounded
<1>2. \A x, y \in Nat : <<y, x>> \in R <=> y < x
  BY DEF OpToRel
<1> HIDE DEF R
<1>3. PICK x \in T : \A y \in T : ~ (<<y, x>> \in R)
  BY <1>1, WFMin
<1>4. ASSUME NEW y \in T
      PROVE  x <= y
  <2>1. x \in Nat /\ y \in Nat
    OBVIOUS
  <2>2. ~ (y < x)
    BY <1>2, <1>3, <2>1
  <2> QED  BY <2>1, <2>2
<1> QED  BY <1>4

LEMMA PositionGrows ==
    ASSUME NEW S, Ordered(S), NEW a \in S
    PROVE  /\ IsFiniteSet(ahead(S, a))
           /\ position(S, a) \in Nat
           /\ position(S, a) < Cardinality(S)
           /\ \A b \in S : precedes(a, b) => position(S, a) < position(S, b)
<1> DEFINE P == ahead(S, a)
<1>1. P \in SUBSET S /\ a \notin P /\ IsFiniteSet(S)
  BY DEF ahead, Ordered
<1> HIDE DEF P
<1>2. IsFiniteSet(P)
  BY <1>1, FS_Subset
<1>3. Cardinality(P) \in Nat
  BY <1>2, FS_CardinalityType
<1>4. Cardinality(P \cup {a}) = Cardinality(P) + 1
  BY <1>1, <1>2, FS_AddElement
<1>5. ASSUME NEW Q \in SUBSET S, P \subseteq Q, a \in Q
      PROVE  Cardinality(P) < Cardinality(Q)
  <2>1. IsFiniteSet(Q)
    BY <1>1, FS_Subset
  <2>2. P \cup {a} \in SUBSET Q
    BY <1>5
  <2>3. Cardinality(P \cup {a}) <= Cardinality(Q)
    BY <2>1, <2>2, FS_Subset
  <2>4. Cardinality(Q) \in Nat
    BY <2>1, FS_CardinalityType
  <2> QED  BY <1>3, <1>4, <2>3, <2>4
<1>6. Cardinality(P) < Cardinality(S)
  BY <1>1, <1>5
<1>7. ASSUME NEW b \in S, precedes(a, b)
      PROVE  Cardinality(P) < Cardinality(ahead(S, b))
  <2>1. P \subseteq ahead(S, b) /\ a \in ahead(S, b) /\ ahead(S, b) \in SUBSET S
    BY <1>7 DEF P, ahead, Ordered
  <2> QED  BY <1>5, <2>1
<1> QED  BY <1>2, <1>3, <1>6, <1>7 DEF P, position

\* A set of rows that is not empty has a first and a last one.
LEMMA FirstRow ==
    ASSUME NEW S, Ordered(S), NEW T \in SUBSET S, T # {}
    PROVE  \E x \in T : \A y \in T : x = y \/ precedes(x, y)
<1> DEFINE N == {position(S, a) : a \in T}
<1>1. N \in SUBSET Nat /\ N # {}
  BY PositionGrows
<1>2. PICK n \in N : \A m \in N : n <= m
  BY <1>1, LeastNumber
<1>3. PICK x \in T : n = position(S, x)
  BY <1>2
<1>4. \A y \in T : position(S, x) <= position(S, y)
  BY <1>2, <1>3
<1>5. ASSUME NEW y \in T, precedes(y, x)
      PROVE  FALSE
  <2>1. position(S, y) < position(S, x)
    BY <1>5, PositionGrows
  <2> QED  BY <1>4, <2>1, PositionGrows
<1> QED  BY <1>5 DEF Ordered

LEMMA LastRow ==
    ASSUME NEW S, Ordered(S), NEW T \in SUBSET S, T # {}
    PROVE  \E x \in T : \A y \in T : x = y \/ precedes(y, x)
<1> DEFINE k == Cardinality(S)
           N == {k - position(S, a) : a \in T}
<1>0. k \in Nat
  BY FS_CardinalityType DEF Ordered
<1> HIDE DEF k
<1>1. N \in SUBSET Nat /\ N # {}
  BY <1>0, PositionGrows DEF k
<1>2. PICK n \in N : \A m \in N : n <= m
  BY <1>1, LeastNumber
<1>3. PICK x \in T : n = k - position(S, x)
  BY <1>2
<1>4. \A y \in T : k - position(S, x) <= k - position(S, y)
  BY <1>2, <1>3
<1>5. ASSUME NEW y \in T, precedes(x, y)
      PROVE  FALSE
  <2>1. position(S, x) < position(S, y)
    BY <1>5, PositionGrows
  <2> QED  BY <1>0, <1>4, <2>1, PositionGrows
<1> QED  BY <1>5 DEF Ordered

LEMMA SubOrder ==
    ASSUME NEW S, Ordered(S), NEW T \in SUBSET S
    PROVE  Ordered(T)
BY FS_Subset DEF Ordered

\* If fewer rows are found than asked for, they are all there are.
LEMMA FirstAll ==
    ASSUME NEW S, Ordered(S), NEW n \in Nat, Cardinality(first(n, S)) < n
    PROVE  first(n, S) = S
<1> SUFFICES ASSUME S \ first(n, S) # {} PROVE FALSE
  BY DEF first
<1> DEFINE F == first(n, S)
<1>1. PICK x \in S \ F : \A y \in S \ F : x = y \/ precedes(x, y)
  BY FirstRow
<1>2. F \in SUBSET S /\ IsFiniteSet(F)
  BY FS_Subset DEF first, Ordered
<1>3. ahead(S, x) \in SUBSET F
  BY <1>1 DEF ahead, Ordered
<1>4. position(S, x) <= Cardinality(F)
  BY <1>2, <1>3, FS_Subset DEF position
<1>5. ~ (position(S, x) < n)
  BY <1>1 DEF first, position, ahead
<1>6. position(S, x) \in Nat /\ Cardinality(F) \in Nat
  BY <1>1, <1>2, PositionGrows, FS_CardinalityType
<1> QED  BY <1>4, <1>5, <1>6

\* What is left out comes after all that is found.
LEMMA FirstBefore ==
    ASSUME NEW S, Ordered(S), NEW n \in Nat,
           NEW a \in first(n, S), NEW b \in S \ first(n, S)
    PROVE  precedes(a, b)
<1>1. a \in S /\ b \in S /\ a # b
  BY DEF first
<1>2. position(S, a) < n /\ ~ (position(S, b) < n)
  BY DEF first, position, ahead
<1>3. position(S, a) \in Nat /\ position(S, b) \in Nat
  BY <1>1, PositionGrows
<1>4. ~ precedes(b, a)
  <2> SUFFICES ASSUME precedes(b, a) PROVE FALSE
    OBVIOUS
  <2>1. position(S, b) < position(S, a)
    BY <1>1, PositionGrows
  <2> QED  BY <1>2, <1>3, <2>1
<1> QED  BY <1>1, <1>4 DEF Ordered

\* A page of the rows A: with a cursor, the cursor is the last row of the page and
\* the rows that are not in it come after; without one, the page is all of A.
LEMMA Page ==
    ASSUME NEW A \in SUBSET Ids, Ordered(A)
    PROVE  LET sel == first(limit + 1, A)
               page == first(limit, sel)
               c == next_cursor(sel)
           IN  /\ page \subseteq A
               /\ c = NULL => page = A
               /\ c # NULL => /\ c \in page
                              /\ \A b \in page : b = c \/ precedes(b, c)
                              /\ \A x \in A \ page : precedes(c, x)
<1> DEFINE sel == first(limit + 1, A)
           page == first(limit, sel)
           c == next_cursor(sel)
<1>0. limit \in Nat /\ limit + 1 \in Nat /\ limit > 0
  BY ListingAssumption
<1>1. sel \in SUBSET A /\ page \in SUBSET sel
  BY DEF first
<1>2. Ordered(sel)
  BY <1>1, SubOrder
<1>3. Cardinality(sel) \in Nat
  BY <1>2, FS_CardinalityType DEF Ordered
<1>4. CASE ~ (Cardinality(sel) > limit)
  <2>1. sel = A
    BY <1>0, <1>3, <1>4, FirstAll
  <2>2. page = sel
    <3> SUFFICES ASSUME NEW a \in sel PROVE position(sel, a) < limit
      BY DEF first, position, ahead
    <3>1. position(sel, a) \in Nat /\ position(sel, a) < Cardinality(sel)
      BY <1>2, PositionGrows
    <3> QED  BY <1>0, <1>3, <1>4, <3>1
  <2>3. c = NULL
    BY <1>4 DEF next_cursor
  <2> QED  BY <2>1, <2>2, <2>3
<1>5. CASE Cardinality(sel) > limit
  <2>1. page # {}
    <3>1. sel # {}
      BY <1>0, <1>5, FS_EmptySet
    <3>2. PICK x \in sel : \A y \in sel : x = y \/ precedes(x, y)
      BY <1>2, <3>1, FirstRow
    <3>3. ahead(sel, x) = {}
      BY <1>2, <3>2 DEF ahead, Ordered
    <3>4. position(sel, x) < limit
      BY <1>0, <3>3, FS_EmptySet DEF position
    <3> QED  BY <3>4 DEF first, position, ahead
  <2>2. \E a \in page : \A b \in page : a = b \/ precedes(b, a)
    BY <1>1, <1>2, <2>1, LastRow
  <2>3. \E a \in page : \A b \in page \ {a} : precedes(b, a)
    BY <2>2
  <2>4. c = CHOOSE a \in page : \A b \in page \ {a} : precedes(b, a)
    BY <1>5 DEF next_cursor
  <2> HIDE DEF page, c
  <2>5. c \in page /\ \A b \in page \ {c} : precedes(b, c)
    BY <2>3, <2>4
  <2>6. c # NULL
    BY <1>1, <2>5, WorkflowAssumption, ListingAssumption DEF Ids
  <2>7. ASSUME NEW x \in A \ page
        PROVE  precedes(c, x)
    <3>1. CASE x \in sel
      BY <1>0, <1>2, <2>5, <3>1, FirstBefore DEF page
    <3>2. CASE x \notin sel
      <4>1. c \in sel
        BY <1>1, <2>5
      <4> QED  BY <1>0, <3>2, <4>1, FirstBefore
    <3> QED  BY <3>1, <3>2
  <2> QED  BY <1>1, <2>5, <2>6, <2>7 DEF page, c
<1> QED  BY <1>4, <1>5

-----------------------------------------------------------------------------
(* The client of a listing.                                                *)

\* Rows that have a place in the order of the listing: created_at of a task is
\* there before the task is committed, and does not change.
Placed(i) == IF listing.of = "workflows" THEN i \in WorkflowIds
             ELSE i \in TaskIds /\ trow[i] # NULL

\* The rows given so far are those up to the cursor.
GivenToCursor ==
    \A i \in Ids :
        /\ listing.got[i] <= 1
        /\ listing.got[i] = 1 =>
              /\ Placed(i) /\ i \in listing.ever
              /\ listing.place = "select" =>
                    /\ listing.cursor # NULL
                    /\ i = listing.cursor \/ precedes(i, listing.cursor)

\* A row that has matched all along was given, or is still to be found.
SteadyFound ==
    /\ listing.place = "select" =>
          /\ listing.steady \subseteq matching
          /\ matching \subseteq listing.ever
          /\ \A i \in listing.steady : listing.got[i] = 1 \/ after_cursor(i)
    /\ listing.place = "done" => \A i \in listing.steady : listing.got[i] = 1

Fresh == listing.place = "idle" =>
             /\ listing.cursor = NULL
             /\ \A i \in Ids : listing.got[i] = 0

ListingInv ==
    /\ WorkflowInv /\ ListingTypeOK /\ Fresh
    /\ listing.cursor # NULL => Placed(listing.cursor)
    /\ GivenToCursor
    /\ SteadyFound

LEMMA ListingBegins == ListingInit => ListingInv
<1> SUFFICES ASSUME ListingInit PROVE ListingInv
  OBVIOUS
<1>1. PICK of \in {"workflows", "tasks"} : listing = [NotListing EXCEPT !.of = of]
  BY DEF ListingInit
<1>2. listing = [of |-> of, place |-> "idle", status |-> NULL, by |-> NULL,
                 cursor |-> NULL, got |-> [i \in Ids |-> 0], steady |-> {}, ever |-> {}]
  BY <1>1 DEF NotListing
<1>3. WorkflowInv
  BY InvInit DEF ListingInit
<1>4. trow \in [TaskIds -> ListedTask \cup {NULL}] /\ clock \in 0..MaxTime
  BY ListingAssumption DEF ListingInit
<1>5. [i \in Ids |-> 0] \in [Ids -> Nat]
  OBVIOUS
<1>6. ListingTypeOK
  BY <1>2, <1>3, <1>4, <1>5 DEF ListingTypeOK, WorkflowInv
<1> QED  BY <1>2, <1>3, <1>6 DEF ListingInv, Fresh, GivenToCursor, SteadyFound

\* The order of placed rows.
LEMMA PlacedOrder ==
    ASSUME ListingTypeOK, NEW S, \A i \in S : Placed(i)
    PROVE  Ordered(S)
<1>1. S \subseteq Ids /\ (S \subseteq WorkflowIds \/ S \subseteq TaskIds)
  BY DEF Placed, Ids
<1>2. IsFiniteSet(S)
  BY <1>1, FS_Subset, WorkflowAssumption, ListingAssumption
<1>3. \A i \in S : i \in Nat
  BY <1>1, WorkflowAssumption, ListingAssumption
<1>4. CASE listing.of = "workflows"
  BY <1>2, <1>3, <1>4 DEF Ordered, precedes
<1>5. CASE listing.of # "workflows"
  <2>1. \A i \in S : trow[i].created_at \in Nat
    BY <1>5 DEF Placed, ListingTypeOK, ListedTask
  <2> DEFINE at(i) == trow[i].created_at
  <2>2. \A a, b \in S : precedes(a, b) <=> \/ at(a) > at(b)
                                           \/ at(a) = at(b) /\ a > b
    BY <1>5 DEF precedes
  <2>3. \A i \in S : at(i) \in Nat
    BY <2>1
  <2> HIDE DEF at
  <2>4. \A a \in S : ~ precedes(a, a)
    BY <1>3, <2>2, <2>3
  <2>5. ASSUME NEW a \in S, NEW b \in S, NEW c \in S, precedes(a, b), precedes(b, c)
        PROVE  precedes(a, c)
    BY <1>3, <2>2, <2>3, <2>5
  <2>6. \A a, b \in S : a = b \/ precedes(a, b) \/ precedes(b, a)
    BY <1>3, <2>2, <2>3
  <2> QED  BY <1>2, <2>4, <2>5, <2>6 DEF Ordered
<1> QED  BY <1>4, <1>5

LEMMA MatchingPlaced ==
    ASSUME ListingTypeOK
    PROVE  /\ matching \subseteq Ids
           /\ \A i \in matching : Placed(i)
BY DEF matching, rows, matching_workflows, matching_tasks, Ids, Placed, ListingTypeOK

LEMMA SelectKeeps ==
    ASSUME ListingInv, select_page, UNCHANGED <<wvars, trow, clock>>
    PROVE  ListingInv'
<1> DEFINE A == {a \in matching : after_cursor(a)}
           page == first(limit, selected)
           c == next_cursor(selected)
<1>1. A \in SUBSET Ids /\ \A i \in A : Placed(i) /\ i \in listing.ever /\ after_cursor(i)
  BY MatchingPlaced DEF ListingInv, SteadyFound, select_page
<1>2. /\ page \subseteq A
      /\ c = NULL => page = A
      /\ c # NULL => /\ c \in page
                     /\ \A b \in page : b = c \/ precedes(b, c)
                     /\ \A x \in A \ page : precedes(c, x)
  <2>1. Ordered(A)
    BY <1>1, PlacedOrder DEF ListingInv
  <2> HIDE DEF A
  <2>2. selected = first(limit + 1, A)
    BY DEF selected, A
  <2> QED  BY <1>1, <2>1, <2>2, Page
<1>3. /\ listing.place = "select"
      /\ listing' = [listing EXCEPT
                     !.place = IF c = NULL THEN "done" ELSE "select",
                     !.cursor = c,
                     !.got = [i \in Ids |-> listing.got[i] + IF i \in page THEN 1 ELSE 0]]
  BY DEF select_page
<1> HIDE DEF A, page, c
<1>4. /\ listing'.of = listing.of /\ listing'.status = listing.status
      /\ listing'.by = listing.by /\ listing'.steady = listing.steady
      /\ listing'.ever = listing.ever /\ listing'.cursor = c
      /\ listing'.place = IF c = NULL THEN "done" ELSE "select"
      /\ \A i \in Ids : listing'.got[i] = listing.got[i] + IF i \in page THEN 1 ELSE 0
  BY <1>3 DEF ListingInv, ListingTypeOK
<1>5. \A i \in Ids : listing.got[i] \in Nat
  BY DEF ListingInv, ListingTypeOK
<1>6. c \in Ids \cup {NULL}
  BY <1>1, <1>2
<1>7. ListingTypeOK'
  <2>1. [i \in Ids |-> listing.got[i] + IF i \in page THEN 1 ELSE 0] \in [Ids -> Nat]
    BY <1>5
  <2> QED  BY <1>3, <1>6, <2>1 DEF ListingInv, ListingTypeOK, WorkflowTypeOK, wvars
<1>8. \A i : Placed(i)' <=> Placed(i)
  BY <1>4 DEF Placed
<1>9. \A a, b : precedes(a, b)' <=> precedes(a, b)
  BY <1>4 DEF precedes
<1>10. matching' = matching
  BY <1>4 DEF matching, rows, matching_workflows, matching_tasks, wvars
<1>11. WorkflowInv'
  BY DEF ListingInv, WorkflowInv, WorkflowTypeOK, RequestSound, RegisteredIsOwner, wvars
<1>12. ASSUME NEW i \in page
       PROVE  listing.got[i] = 0
  <2>1. i \in Ids /\ Placed(i) /\ after_cursor(i)
    BY <1>1, <1>2
  <2> SUFFICES ASSUME listing.got[i] = 1 PROVE FALSE
    BY <1>5, <2>1 DEF ListingInv, GivenToCursor
  <2>2. /\ listing.cursor # NULL
        /\ i = listing.cursor \/ precedes(i, listing.cursor)
        /\ precedes(listing.cursor, i)
    BY <1>3, <2>1 DEF ListingInv, GivenToCursor, after_cursor
  <2>3. Ordered({i, listing.cursor})
    BY <2>1, <2>2, PlacedOrder DEF ListingInv
  <2> QED  BY <2>2, <2>3 DEF Ordered
<1>13. GivenToCursor'
  <2> SUFFICES ASSUME NEW i \in Ids
               PROVE  /\ listing'.got[i] <= 1
                      /\ listing'.got[i] = 1 =>
                            /\ Placed(i) /\ i \in listing.ever
                            /\ c # NULL => i = c \/ precedes(i, c)
    BY <1>4, <1>8, <1>9 DEF GivenToCursor
  <2>1. CASE i \in page
    BY <1>1, <1>2, <1>4, <1>12, <2>1
  <2>2. CASE i \notin page
    <3>1. listing'.got[i] = listing.got[i]
      BY <1>4, <1>5, <2>2
    <3>2. ASSUME listing.got[i] = 1, c # NULL
          PROVE  precedes(i, c)
      <4>1. /\ Placed(i) /\ listing.cursor # NULL /\ Placed(listing.cursor)
            /\ i = listing.cursor \/ precedes(i, listing.cursor)
        BY <1>3, <3>2 DEF ListingInv, GivenToCursor
      <4>2. Placed(c) /\ precedes(listing.cursor, c)
        BY <1>1, <1>2, <3>2, <4>1 DEF after_cursor
      <4>3. Ordered({i, listing.cursor, c})
        BY <4>1, <4>2, PlacedOrder DEF ListingInv
      <4> QED  BY <4>1, <4>2, <4>3 DEF Ordered
    <3> QED  BY <3>1, <3>2 DEF ListingInv, GivenToCursor
  <2> QED  BY <2>1, <2>2
<1>14. SteadyFound'
  <2>1. ASSUME NEW i \in listing.steady
        PROVE  listing'.got[i] = 1 \/ (c # NULL /\ precedes(c, i))
    <3>1. i \in Ids /\ i \in matching /\ (listing.got[i] = 1 \/ after_cursor(i))
      BY <1>3, <2>1 DEF ListingInv, SteadyFound, ListingTypeOK
    <3>2. CASE i \in page
      BY <1>4, <1>12, <3>1, <3>2
    <3>3. CASE i \notin page
      <4>1. listing'.got[i] = listing.got[i]
        BY <1>4, <1>5, <3>1, <3>3
      <4> QED  BY <1>2, <3>1, <3>3, <4>1 DEF A
    <3> QED  BY <3>2, <3>3
  <2>2. \A i : after_cursor(i)' <=> (c # NULL => precedes(c, i))
    BY <1>4, <1>9 DEF after_cursor
  <2>3. listing.steady \subseteq matching /\ matching \subseteq listing.ever
    BY <1>3 DEF ListingInv, SteadyFound
  <2> QED  BY <1>4, <1>10, <2>1, <2>2, <2>3 DEF SteadyFound
<1>15. Fresh' /\ (listing.cursor # NULL => Placed(listing.cursor))'
  BY <1>1, <1>2, <1>4, <1>8 DEF Fresh
<1> QED  BY <1>7, <1>11, <1>13, <1>14, <1>15 DEF ListingInv

LEMMA BeginKeeps ==
    ASSUME ListingInv, UNCHANGED <<wvars, trow, clock>>,
           NEW status \in WorkflowStatus \cup TaskStatus \cup {NULL},
           NEW by \in Owners \cup Nat \cup {NULL},
           begin_listing(status, by)
    PROVE  ListingInv'
<1> DEFINE M == rows(listing.of, status, by)
<1>1. /\ listing.place = "idle"
      /\ listing' = [listing EXCEPT !.place = "select", !.status = status, !.by = by,
                                    !.steady = M, !.ever = M]
  BY DEF begin_listing
<1>2. M \subseteq Ids
  BY DEF rows, matching_workflows, matching_tasks, Ids
<1>3. matching' = M
  <2>1. listing'.of = listing.of /\ listing'.status = status /\ listing'.by = by
    BY <1>1 DEF ListingInv, ListingTypeOK
  <2> QED  BY <2>1 DEF matching, rows, matching_workflows, matching_tasks, wvars
<1> HIDE DEF M
<1>4. /\ listing'.cursor = NULL /\ listing'.got = listing.got
      /\ listing'.place = "select" /\ listing'.steady = M /\ listing'.ever = M
      /\ \A i \in Ids : listing.got[i] = 0
  BY <1>1 DEF ListingInv, ListingTypeOK, Fresh
<1>5. ListingTypeOK'
  BY <1>1, <1>2 DEF ListingInv, ListingTypeOK, WorkflowTypeOK, wvars
<1>6. WorkflowInv'
  BY DEF ListingInv, WorkflowInv, WorkflowTypeOK, RequestSound, RegisteredIsOwner, wvars
<1>7. GivenToCursor' /\ SteadyFound' /\ Fresh'
  BY <1>2, <1>3, <1>4 DEF GivenToCursor, SteadyFound, Fresh, after_cursor
<1> QED  BY <1>4, <1>5, <1>6, <1>7 DEF ListingInv

\* Rows are written while the client is between two requests: placed rows stay
\* where they are.
LEMMA WatchedKeeps ==
    ASSUME ListingInv, WorkflowInv', Watched,
           trow' \in [TaskIds -> ListedTask \cup {NULL}], clock' \in 0..MaxTime,
           \A t \in TaskIds : trow[t] # NULL =>
               trow'[t] # NULL /\ trow'[t].created_at = trow[t].created_at
    PROVE  ListingInv'
<1>1. PICK l \in {listing} : TRUE
  OBVIOUS
<1> DEFINE M == rows(l.of, l.status, l.by)'
<1>2. M \subseteq Ids
  BY DEF rows, matching_workflows, matching_tasks, Ids
<1>3. \/ /\ listing.place = "select"
         /\ listing' = [l EXCEPT !.steady = l.steady \cap M, !.ever = l.ever \cup M]
      \/ listing.place # "select" /\ listing' = l
  BY <1>1 DEF Watched
<1>4. /\ listing'.of = l.of /\ listing'.status = l.status /\ listing'.by = l.by
      /\ listing'.place = l.place /\ listing'.cursor = l.cursor
      /\ listing'.got = l.got
      /\ l.place = "select" => /\ listing'.steady = l.steady \cap M
                               /\ listing'.ever = l.ever \cup M
      /\ listing'.steady \subseteq l.steady
      /\ l.ever \subseteq listing'.ever
  <2>1. CASE listing' = l /\ listing.place # "select"
    BY <1>1, <2>1
  <2>2. CASE listing' = [l EXCEPT !.steady = l.steady \cap M, !.ever = l.ever \cup M]
    <3> DEFINE A == l.steady \cap M
               B == l.ever \cup M
    <3>1. A \subseteq l.steady /\ l.ever \subseteq B
      OBVIOUS
    <3>2. listing' = [l EXCEPT !.steady = A, !.ever = B]
      BY <2>2
    <3> HIDE DEF A, B
    <3>3. /\ listing'.of = l.of /\ listing'.status = l.status /\ listing'.by = l.by
          /\ listing'.place = l.place /\ listing'.cursor = l.cursor
          /\ listing'.got = l.got /\ listing'.steady = A /\ listing'.ever = B
      BY <1>1, <3>2 DEF ListingInv, ListingTypeOK
    <3> QED  BY <3>1, <3>3 DEF A, B
  <2> QED  BY <1>3, <2>1, <2>2
<1>5. matching' = M
  BY <1>4 DEF matching, rows, matching_workflows, matching_tasks
<1> HIDE DEF M
<1>6. ListingTypeOK'
  <2> DEFINE R == [of     : {"workflows", "tasks"},
                   place  : {"idle", "select", "done"},
                   status : WorkflowStatus \cup TaskStatus \cup {NULL},
                   by     : Owners \cup Nat \cup {NULL},
                   cursor : Ids \cup {NULL},
                   got    : [Ids -> Nat],
                   steady : SUBSET Ids,
                   ever   : SUBSET Ids]
  <2>1. l \in R
    BY <1>1 DEF ListingInv, ListingTypeOK
  <2>2. l.steady \cap M \in SUBSET Ids /\ l.ever \cup M \in SUBSET Ids
    BY <1>2, <2>1
  <2>3. \A A, B \in SUBSET Ids : [l EXCEPT !.steady = A, !.ever = B] \in R
    BY <2>1
  <2> HIDE DEF R
  <2>4. listing' \in R
    BY <1>3, <2>1, <2>2, <2>3
  <2>5. WorkflowTypeOK'
    BY DEF WorkflowInv
  <2> QED  BY <2>4, <2>5 DEF ListingTypeOK, R
<1>7. \A i : Placed(i) => Placed(i)'
  BY <1>1, <1>4 DEF Placed
<1>8. \A a, b : Placed(a) /\ Placed(b) => (precedes(a, b)' <=> precedes(a, b))
  BY <1>1, <1>4 DEF Placed, precedes
<1>9. GivenToCursor'
  BY <1>1, <1>4, <1>7, <1>8 DEF ListingInv, GivenToCursor
<1>10. SteadyFound'
  <2>1. CASE listing.place = "select"
    <3>1. listing'.steady \subseteq M /\ M \subseteq listing'.ever
      BY <1>1, <1>4, <2>1
    <3>2. ASSUME NEW i \in listing'.steady
          PROVE  listing'.got[i] = 1 \/ after_cursor(i)'
      <4>1. i \in listing.steady /\ i \in matching
        BY <1>1, <1>4, <2>1, <3>2 DEF ListingInv, SteadyFound
      <4>2. Placed(i)
        BY <4>1, MatchingPlaced DEF ListingInv
      <4>3. listing.got[i] = 1 \/ after_cursor(i)
        BY <2>1, <4>1 DEF ListingInv, SteadyFound
      <4>4. listing.cursor # NULL => Placed(listing.cursor)
        BY DEF ListingInv
      <4> QED  BY <1>1, <1>4, <1>8, <4>2, <4>3, <4>4 DEF after_cursor
    <3> QED  BY <1>1, <1>4, <1>5, <2>1, <3>1, <3>2 DEF SteadyFound
  <2>2. CASE listing.place # "select"
    BY <1>1, <1>4, <2>2 DEF ListingInv, SteadyFound
  <2> QED  BY <2>1, <2>2
<1>11. Fresh' /\ (listing.cursor # NULL => Placed(listing.cursor))'
  BY <1>1, <1>4, <1>7 DEF ListingInv, Fresh
<1> QED  BY <1>6, <1>9, <1>10, <1>11 DEF ListingInv

LEMMA TasksKept ==
    ASSUME ListingInv, NEW t \in TaskIds,
           \/ begin_task(t) \/ commit_task(t)
           \/ \E new_status \in Statuses : move_task(t, new_status)
    PROVE  /\ trow' \in [TaskIds -> ListedTask \cup {NULL}]
           /\ \A u \in TaskIds : trow[u] # NULL =>
                 trow'[u] # NULL /\ trow'[u].created_at = trow[u].created_at
<1>0. /\ trow \in [TaskIds -> ListedTask \cup {NULL}]
      /\ clock \in Nat
  BY ListingAssumption DEF ListingInv, ListingTypeOK
<1>1. CASE begin_task(t)
  BY <1>0, <1>1 DEF begin_task, ListedTask
<1>2. ASSUME NEW st \in TaskStatus, trow[t] # NULL,
             trow' = [trow EXCEPT ![t].status = st]
      PROVE  /\ trow' \in [TaskIds -> ListedTask \cup {NULL}]
             /\ \A u \in TaskIds : trow[u] # NULL =>
                   trow'[u] # NULL /\ trow'[u].created_at = trow[u].created_at
  <2>1. [trow[t] EXCEPT !.status = st] \in ListedTask
    BY <1>0, <1>2 DEF ListedTask
  <2>2. trow' = [trow EXCEPT ![t] = [trow[t] EXCEPT !.status = st]]
    BY <1>0, <1>2
  <2>3. [trow[t] EXCEPT !.status = st].created_at = trow[t].created_at
    BY <1>0, <1>2 DEF ListedTask
  <2> QED  BY <1>0, <2>1, <2>2, <2>3, ListedNullAssumption
<1>3. CASE commit_task(t)
  BY <1>2, <1>3 DEF commit_task, TaskStatus
<1>4. CASE \E new_status \in Statuses : move_task(t, new_status)
  BY <1>2, <1>4, ListingAssumption DEF move_task
<1> QED  BY <1>1, <1>3, <1>4

LEMMA ListingStep == ListingInv /\ [ListingNext]_<<wvars, lvars>> => ListingInv'
<1> SUFFICES ASSUME ListingInv, [ListingNext]_<<wvars, lvars>> PROVE ListingInv'
  OBVIOUS
<1>0. ListingTypeOK /\ WorkflowInv /\ clock \in 0..MaxTime
  BY DEF ListingInv, ListingTypeOK
<1>1. CASE /\ listing.of = "workflows" /\ WorkflowNext /\ Watched
           /\ UNCHANGED <<trow, clock>>
  <2>1. WorkflowInv'
    BY <1>0, <1>1, InvStep
  <2> QED  BY <1>0, <1>1, <2>1, WatchedKeeps DEF ListingTypeOK
<1>2. CASE /\ \E t \in TaskIds :
                 \/ begin_task(t) \/ commit_task(t)
                 \/ \E new_status \in Statuses : move_task(t, new_status)
           /\ Watched
           /\ UNCHANGED <<wvars, clock>>
  <2>1. WorkflowInv'
    BY <1>0, <1>2, InvStep
  <2> QED  BY <1>0, <1>2, <2>1, TasksKept, WatchedKeeps
<1>3. CASE clock < MaxTime /\ clock' = clock + 1 /\ UNCHANGED <<wvars, trow, listing>>
  <2>1. clock' \in 0..MaxTime
    BY <1>0, <1>3, ListingAssumption
  <2> QED  BY <1>3, <2>1
           DEF ListingInv, ListingTypeOK, WorkflowInv, WorkflowTypeOK, RequestSound,
               RegisteredIsOwner, wvars, Fresh, Placed, GivenToCursor, SteadyFound,
               matching, rows, matching_workflows, matching_tasks, after_cursor,
               precedes
<1>4. CASE UNCHANGED <<wvars, lvars>>
  BY <1>4
  DEF ListingInv, ListingTypeOK, WorkflowInv, WorkflowTypeOK, RequestSound,
      RegisteredIsOwner, wvars, lvars, Fresh, Placed, GivenToCursor, SteadyFound,
      matching, rows, matching_workflows, matching_tasks, after_cursor, precedes
<1>5. ASSUME NEW status \in {"deprecated", NULL}, NEW by \in Owners \cup {NULL},
             begin_listing(status, by), UNCHANGED <<wvars, trow, clock>>
      PROVE  ListingInv'
  BY <1>5, BeginKeeps DEF WorkflowStatus
<1>6. ASSUME NEW status \in Statuses \cup {NULL}, NEW by \in {clock, NULL},
             begin_listing(status, by), UNCHANGED <<wvars, trow, clock>>
      PROVE  ListingInv'
  <2>1. by \in Owners \cup Nat \cup {NULL}
    BY <1>0, ListingAssumption
  <2> QED  BY <1>6, <2>1, BeginKeeps, ListingAssumption
<1> QED  BY <1>1, <1>2, <1>3, <1>4, <1>5, <1>6, SelectKeeps DEF ListingNext

\* The rows of both tables, the clock and what the client of a listing holds keep
\* their types; a cursor is the key of a row.
THEOREM ListingTypeCorrect == ListingSpec => []ListingTypeOK
<1>1. ListingInv => ListingTypeOK
  BY DEF ListingInv
<1> QED  BY ListingBegins, ListingStep, <1>1, PTL DEF ListingSpec

\* A client that follows the cursors of list_workflows or list_tasks is given each
\* row that matched all along once, and none twice, for every limit, any number of
\* rows and of equal created_at, and whatever is inserted or changed meanwhile.
THEOREM PagesAreComplete == ListingSpec => []PagesComplete
<1>1. ListingInv => PagesComplete
  BY DEF ListingInv, GivenToCursor, SteadyFound, PagesComplete
<1> QED  BY ListingBegins, ListingStep, <1>1, PTL DEF ListingSpec
=============================================================================
