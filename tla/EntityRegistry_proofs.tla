------------------------ MODULE EntityRegistry_proofs ------------------------
(***************************************************************************)
(* Names stay unique and the hierarchy free of circles for any number of   *)
(* requests, entities and names.                                           *)
(*                                                                         *)
(* Neither invariant is inductive.  A commit writes a name that only the   *)
(* statements before it looked at: that it is still free rests on what the *)
(* index makes of uncommitted names (NamesFree, NamesHeldOnce) and on one  *)
(* session having a row at a time (RowsHeldOnce).  A new entity closes no  *)
(* circle because nothing stored refers to it yet (Parents, Unborn).       *)
(***************************************************************************)
EXTENDS EntityRegistry, FiniteSetTheorems, TLAPS

Parents == \A e \in Stored : db[e].parent \in Stored \cup {None}

\* An entity is stored only after the request that makes it has ended.
Unborn == \A r \in Requests : r \in Stored => pc[r] = "ended"

Found(r) == pc[r] \in {"merged", "locked", "flushed"}

CreatesOwnRow ==
    \A r \in Requests : pc[r] \in Writing /\ op[r] = "create" =>
        /\ target[r] = r
        /\ loaded[r] = NoRow
        /\ Found(r) => existing[r] = NoRow

UpdatesStoredRow ==
    \A r \in Requests : pc[r] \in Writing /\ op[r] # "create" =>
        /\ target[r] \in Stored
        /\ loaded[r].name # None
        /\ Found(r) => existing[r].name # None

ParentKnown ==
    \A r \in Requests : pc[r] = "flushed" /\ op[r] = "create" =>
        entity[r].parent \in Stored \cup {None}

RowsHeldOnce ==
    \A r, q \in Requests : Holds(r) /\ Holds(q) /\ r # q => target[r] # target[q]

Keyed(r) == Holds(r) /\ Indexed(r)

NamesHeldOnce ==
    \A r, q \in Requests : Keyed(r) /\ Keyed(q) /\ r # q => Version(r).name # Version(q).name

NamesFree == \A r \in Requests : Keyed(r) => ~NameTaken(r)

Inv ==
    /\ TypeOK
    /\ NamesUnique
    /\ HierarchyAcyclic
    /\ Parents
    /\ Unborn
    /\ CreatesOwnRow
    /\ UpdatesStoredRow
    /\ ParentKnown
    /\ RowsHeldOnce
    /\ NamesHeldOnce
    /\ NamesFree

-----------------------------------------------------------------------------
(* The version a session has of a row.                                     *)

LEMMA VersionName ==
    ASSUME NEW r \in Requests
    PROVE  Version(r).name = Column(db[target[r]].name, existing[r].name, entity[r].name)
  BY DEF Version, Saved

\* It is a row with a name, and of a stored row it keeps the parent.
LEMMA VersionRow ==
    ASSUME Inv, NEW r \in Requests, Found(r)
    PROVE  /\ target[r] \in Ids
           /\ Version(r) \in Rows
           /\ Version(r).name # None
           /\ op[r] = "create" => Version(r).parent = entity[r].parent
           /\ op[r] # "create" => Version(r).parent = db[target[r]].parent
  <1>1. /\ target[r] \in Ids /\ entity[r] \in Rows /\ existing[r] \in Rows
        /\ entity[r].name # None /\ db[target[r]] \in Rows /\ pc[r] \in Writing
    BY RegistryAssumption DEF Inv, TypeOK, Found, Writing
  <1>2. CASE op[r] = "create"
    <2>1. existing[r] = NoRow
      BY <1>1, <1>2 DEF Inv, CreatesOwnRow
    <2>2. Version(r).name = entity[r].name
      BY <1>1, <2>1, VersionName DEF Column, NoRow
    <2>3. Version(r).parent = entity[r].parent
      BY <2>1 DEF Version, Saved
    <2> QED
      BY <1>1, <1>2, <2>2, <2>3 DEF Version, Saved, Column, Rows
  <1>3. CASE op[r] # "create"
    <2>1. existing[r].name # None /\ db[target[r]].name # None
      BY <1>1, <1>3 DEF Inv, UpdatesStoredRow, Stored
    <2>2. Version(r).name # None
      BY <1>1, <2>1, VersionName DEF Column
    <2>3. existing[r] # NoRow
      BY <2>1 DEF NoRow
    <2>4. Version(r).parent = db[target[r]].parent
      BY <2>3 DEF Version, Saved
    <2> QED
      BY <1>1, <1>3, <2>2, <2>4 DEF Version, Saved, Column, Rows
  <1> QED
    BY <1>2, <1>3

-----------------------------------------------------------------------------
(* The initial state.                                                      *)

LEMMA InitInv == Init => Inv
  <1> SUFFICES ASSUME Init PROVE Inv
    OBVIOUS
  <1>1. \A e \in Seeds : db[e] = [name |-> SeedName[e], parent |-> None, active |-> e \in ActiveSeeds]
    BY DEF Init, Ids
  <1>2. \A r \in Requests : db[r] = NoRow
    BY RegistryAssumption DEF Init, Ids
  <1>a. \A e \in Seeds : db[e].name \in Names /\ db[e].name = SeedName[e] /\ db[e].parent = None
    <2> TAKE e \in Seeds
    <2>1. db[e] = [name |-> SeedName[e], parent |-> None, active |-> e \in ActiveSeeds]
      BY <1>1
    <2>2. db[e].name = SeedName[e] /\ db[e].parent = None
      BY <2>1
    <2> QED
      BY <2>2, RegistryAssumption
  <1>b. \A r \in Requests : db[r].name = None
    BY <1>2 DEF NoRow
  <1>3. Stored = Seeds
    BY <1>a, <1>b, RegistryAssumption DEF Stored, Ids
  <1>4. \A e \in Stored : db[e].parent = None
    BY <1>a, <1>3
  <1>5. None \notin Stored
    BY <1>3, RegistryAssumption
  <1>6. TypeOK
    <2>1. db \in [Ids -> Rows]
      BY <1>1, <1>2, RegistryAssumption DEF Init, Ids, Rows, NoRow
    <2>2. \A e \in Ids \ Stored : db[e] = NoRow
      BY <1>2, <1>3 DEF Ids
    <2> QED
      BY <2>1, <2>2 DEF Init, TypeOK, NoRow, Rows, Writing, Working
  <1>7. NamesUnique
    BY <1>a, <1>3, RegistryAssumption DEF NamesUnique
  <1>8. HierarchyAcyclic
    BY <1>4, <1>5 DEF HierarchyAcyclic
  <1>9. Parents
    BY <1>4 DEF Parents
  <1>10. Unborn
    BY <1>3, RegistryAssumption DEF Unborn
  <1>11. \A r \in Requests : pc[r] = "idle"
    BY DEF Init
  <1> QED
    BY <1>6, <1>7, <1>8, <1>9, <1>10, <1>11
       DEF Inv, CreatesOwnRow, UpdatesStoredRow, ParentKnown, RowsHeldOnce, NamesHeldOnce,
           NamesFree, Keyed, Holds, Writing

-----------------------------------------------------------------------------
(* Steps that leave the rows alone.                                        *)

\* What is said of rows alone stays.
LEMMA RowsKept ==
    ASSUME Inv, db' = db
    PROVE  /\ Stored' = Stored
           /\ NamesUnique'
           /\ HierarchyAcyclic'
           /\ Parents'
           /\ \A e \in Ids \ Stored' : db'[e] = NoRow
           /\ db' \in [Ids -> Rows]
  BY DEF Inv, TypeOK, Stored, NamesUnique, HierarchyAcyclic, Parents

\* A session that is opened, closed or refused, or that reads, holds nothing; the
\* others hold what they held.
LEMMA OthersHold ==
    ASSUME Inv, NEW r \in Requests, db' = db, ~Holds(r)',
           \A q \in Requests \ {r} :
               /\ pc'[q] = pc[q] /\ op'[q] = op[q] /\ target'[q] = target[q]
               /\ entity'[q] = entity[q] /\ existing'[q] = existing[q]
    PROVE  /\ RowsHeldOnce'
           /\ NamesHeldOnce'
           /\ NamesFree'
           /\ ParentKnown'
  <1>1. Stored' = Stored
    BY RowsKept
  <1>2. \A q \in Requests : Holds(q)' => q # r /\ Holds(q)
    BY DEF Holds
  <1>3. \A q \in Requests : Keyed(q)' => q # r /\ Keyed(q)
    BY DEF Holds, Keyed, Indexed
  <1>4. \A q \in Requests \ {r} : Version(q)' = Version(q)
    BY DEF Version
  <1>5. RowsHeldOnce'
    BY <1>2 DEF Inv, RowsHeldOnce
  <1>6. NamesHeldOnce'
    BY <1>3, <1>4 DEF Inv, NamesHeldOnce
  <1>7. NamesFree'
    <2> SUFFICES ASSUME NEW q \in Requests, Keyed(q)' PROVE ~NameTaken(q)'
      BY DEF NamesFree
    <2>1. q # r /\ Keyed(q) /\ Version(q)' = Version(q) /\ target'[q] = target[q]
      BY <1>3, <1>4
    <2>2. ~NameTaken(q)
      BY <2>1 DEF Inv, NamesFree
    <2> QED
      BY <1>1, <2>1, <2>2 DEF NameTaken
  <1>8. ParentKnown'
    BY <1>1, <1>2 DEF Inv, ParentKnown, Holds
  <1> QED
    BY <1>5, <1>6, <1>7, <1>8

LEMMA BeginKeeps ==
    ASSUME Inv, NEW r \in Requests, NEW o, NEW e \in Ids, NEW row \in Rows,
           Begin(r, o, e, row),
           o \in {"create", "update", "deactivate", "activate", "hierarchy"},
           o # "hierarchy" => row.name # None,
           o = "create" => e = r,
           o # "create" => e \in Stored
    PROVE  Inv'
  <1>0. /\ db' = db /\ existing' = existing /\ pc[r] = "idle"
        /\ pc' = [pc EXCEPT ![r] = IF o = "hierarchy" THEN "climbing" ELSE "dirty"]
        /\ op' = [op EXCEPT ![r] = o] /\ target' = [target EXCEPT ![r] = e]
        /\ loaded' = [loaded EXCEPT ![r] = db[e]] /\ entity' = [entity EXCEPT ![r] = row]
    BY DEF Begin
  <1>1. Stored' = Stored /\ NamesUnique' /\ HierarchyAcyclic' /\ Parents'
    BY <1>0, RowsKept
  <1>2. e # None
    BY RegistryAssumption DEF Ids
  <1>3. TypeOK'
    BY <1>0, <1>1, <1>2, RowsKept DEF Inv, TypeOK, Writing, Working
  <1>4. pc \in [Requests -> {"idle", "ended"} \cup Working]
    BY DEF Inv, TypeOK
  <1>5. Unborn'
    BY <1>0, <1>1, <1>4 DEF Inv, Unborn
  <1>6. RowsHeldOnce' /\ NamesHeldOnce' /\ NamesFree' /\ ParentKnown'
    BY <1>0, <1>4, OthersHold DEF Holds, Inv, TypeOK
  <1>7. r \notin Stored
    BY <1>0 DEF Inv, Unborn
  <1>8. o = "create" => db[e] = NoRow
    BY <1>7 DEF Inv, TypeOK, Ids
  <1>9. o # "create" => db[e].name # None
    BY DEF Stored
  <1>10. CreatesOwnRow'
    BY <1>0, <1>4, <1>8 DEF Inv, TypeOK, CreatesOwnRow, Found, Writing
  <1>11. UpdatesStoredRow'
    BY <1>0, <1>1, <1>4, <1>9 DEF Inv, TypeOK, UpdatesStoredRow, Found, Writing
  <1> QED
    BY <1>1, <1>3, <1>5, <1>6, <1>10, <1>11 DEF Inv

LEMMA CloseKeeps ==
    ASSUME Inv, NEW r \in Requests, Close(r), db' = db
    PROVE  Inv'
  <1>1. Stored' = Stored /\ NamesUnique' /\ HierarchyAcyclic' /\ Parents'
    BY RowsKept
  <1>2. NoRow \in Rows
    BY DEF NoRow, Rows
  <1>3. TypeOK'
    BY <1>1, <1>2, RowsKept DEF Inv, TypeOK, Close, Writing, Working
  <1>4. Unborn'
    BY <1>1 DEF Inv, TypeOK, Unborn, Close
  <1>5. RowsHeldOnce' /\ NamesHeldOnce' /\ NamesFree' /\ ParentKnown'
    BY OthersHold DEF Holds, Inv, TypeOK, Close
  <1>6. CreatesOwnRow'
    BY DEF Inv, TypeOK, CreatesOwnRow, Found, Writing, Close
  <1>7. UpdatesStoredRow'
    BY <1>1 DEF Inv, TypeOK, UpdatesStoredRow, Found, Writing, Close
  <1> QED
    BY <1>1, <1>3, <1>4, <1>5, <1>6, <1>7 DEF Inv

LEMMA RefuseKeeps ==
    ASSUME Inv, NEW r \in Requests, Refuse(r)
    PROVE  Inv'
  <1>1. Stored' = Stored /\ NamesUnique' /\ HierarchyAcyclic' /\ Parents'
    BY RowsKept DEF Refuse
  <1>2. TypeOK'
    BY <1>1, RowsKept DEF Inv, TypeOK, Refuse, Writing, Working
  <1>3. Unborn'
    BY <1>1 DEF Inv, TypeOK, Unborn, Refuse
  <1>4. RowsHeldOnce' /\ NamesHeldOnce' /\ NamesFree' /\ ParentKnown'
    BY OthersHold DEF Holds, Inv, TypeOK, Refuse
  <1>5. CreatesOwnRow' /\ UpdatesStoredRow'
    BY <1>1 DEF Inv, TypeOK, CreatesOwnRow, UpdatesStoredRow, Found, Writing, Refuse
  <1> QED
    BY <1>1, <1>2, <1>3, <1>4, <1>5 DEF Inv

LEMMA ClimbKeeps ==
    ASSUME Inv, NEW r \in Requests, Climb(r)
    PROVE  Inv'
  <1>1. Stored' = Stored /\ NamesUnique' /\ HierarchyAcyclic' /\ Parents'
    BY RowsKept DEF Climb
  <1>2. db[target[r]].parent \in Ids \cup {None}
    BY DEF Inv, TypeOK, Climb, Stored, Rows
  <1>3. TypeOK'
    BY <1>1, <1>2, RowsKept DEF Inv, TypeOK, Climb, Writing, Working
  <1>4. Unborn'
    BY <1>1 DEF Inv, TypeOK, Unborn, Climb
  <1>5. RowsHeldOnce' /\ NamesHeldOnce' /\ NamesFree' /\ ParentKnown'
    BY OthersHold DEF Holds, Inv, TypeOK, Climb
  <1>6. CreatesOwnRow' /\ UpdatesStoredRow'
    BY <1>1 DEF Inv, TypeOK, CreatesOwnRow, UpdatesStoredRow, Found, Writing, Climb
  <1> QED
    BY <1>1, <1>3, <1>4, <1>5, <1>6 DEF Inv

LEMMA MergeKeeps ==
    ASSUME Inv, NEW r \in Requests, Merge(r)
    PROVE  Inv'
  <1>1. Stored' = Stored /\ NamesUnique' /\ HierarchyAcyclic' /\ Parents'
    BY RowsKept DEF Merge
  <1>2. PICK row \in {db[target[r]], loaded[r]} : existing' = [existing EXCEPT ![r] = row]
    BY DEF Merge
  <1>3. pc[r] = "dirty" /\ pc[r] \in Writing /\ target[r] \in Ids
    BY DEF Merge, Writing, Inv, TypeOK
  <1>4. row \in Rows
    BY <1>3 DEF Inv, TypeOK
  <1>5. TypeOK'
    BY <1>1, <1>2, <1>3, <1>4, RowsKept DEF Inv, TypeOK, Merge, Writing, Working
  <1>6. Unborn'
    BY <1>1 DEF Inv, TypeOK, Unborn, Merge
  <1>7. RowsHeldOnce' /\ NamesHeldOnce' /\ NamesFree' /\ ParentKnown'
    BY <1>2, OthersHold DEF Holds, Inv, TypeOK, Merge
  <1>8. op[r] = "create" => row = NoRow
    <2> SUFFICES ASSUME op[r] = "create" PROVE row = NoRow
      OBVIOUS
    <2>1. target[r] = r /\ loaded[r] = NoRow
      BY <1>3 DEF Inv, CreatesOwnRow
    <2>2. r \notin Stored
      BY <1>3 DEF Inv, Unborn
    <2> QED
      BY <2>1, <2>2 DEF Inv, TypeOK, Ids
  <1>9. op[r] # "create" => row.name # None
    BY <1>3 DEF Inv, UpdatesStoredRow, Stored
  <1>10. CreatesOwnRow'
    BY <1>1, <1>2, <1>8 DEF Inv, TypeOK, CreatesOwnRow, Found, Writing, Merge
  <1>11. UpdatesStoredRow'
    BY <1>1, <1>2, <1>9 DEF Inv, TypeOK, UpdatesStoredRow, Found, Writing, Merge
  <1> QED
    BY <1>1, <1>5, <1>6, <1>7, <1>10, <1>11 DEF Inv

-----------------------------------------------------------------------------
(* The statement.  It moves r alone, and only through its position.        *)

LEMMA AdvanceKeeps ==
    ASSUME Inv, NEW r \in Requests, NEW to \in {"locked", "flushed"},
           pc[r] \in {"merged", "locked"}, Advance(r, to),
           \A q \in Requests : Holds(q) /\ q # r => target[q] # target[r],
           Keyed(r)' => /\ ~NameTaken(r)
                        /\ \A q \in Requests : Keyed(q) /\ q # r => Version(q).name # Version(r).name,
           to = "flushed" /\ op[r] = "create" => ~NoParent(r)
    PROVE  Inv'
  <1>1. Stored' = Stored /\ NamesUnique' /\ HierarchyAcyclic' /\ Parents'
    BY RowsKept DEF Advance
  <1>2. pc[r] \in Writing /\ Found(r)
    BY DEF Writing, Found
  <1>3. TypeOK'
    BY <1>1, <1>2, RowsKept DEF Inv, TypeOK, Advance, Writing, Working
  <1>4. Unborn'
    BY <1>1, <1>2 DEF Inv, TypeOK, Unborn, Advance, Writing
  <1>5. CreatesOwnRow' /\ UpdatesStoredRow'
    BY <1>1, <1>2 DEF Inv, TypeOK, CreatesOwnRow, UpdatesStoredRow, Found, Writing, Advance
  <1>6. \A q \in Requests : q # r => (Holds(q)' <=> Holds(q)) /\ (Keyed(q)' <=> Keyed(q))
    BY DEF Inv, TypeOK, Advance, Holds, Keyed, Indexed
  <1>7. \A q \in Requests : Version(q)' = Version(q) /\ target'[q] = target[q]
    BY DEF Advance, Version
  <1>8. \A q \in Requests : NameTaken(q)' <=> NameTaken(q)
    BY <1>1, <1>7 DEF NameTaken, Advance
  <1>9. RowsHeldOnce'
    BY <1>6, <1>7 DEF Inv, RowsHeldOnce
  <1>10. NamesHeldOnce'
    BY <1>6, <1>7 DEF Inv, NamesHeldOnce
  <1>11. NamesFree'
    BY <1>6, <1>8 DEF Inv, NamesFree
  <1>12. ParentKnown'
    BY <1>1 DEF Inv, TypeOK, ParentKnown, Advance, NoParent
  <1> QED
    BY <1>1, <1>3, <1>4, <1>5, <1>9, <1>10, <1>11, <1>12 DEF Inv

\* Nobody whose end r awaits, and no row, has the name that r brings into the index.
LEMMA NameWon ==
    ASSUME NEW r \in Requests, NameHolders(r) = {},
           \A q \in Requests : Holds(q) /\ q # r => target[q] # target[r]
    PROVE  \A q \in Requests : Keyed(q) /\ q # r => Version(q).name # Version(r).name
  BY DEF NameHolders, Keyed

\* A new row is in nobody's hands.
LEMMA OwnRowFree ==
    ASSUME Inv, NEW r \in Requests, pc[r] \in Writing, op[r] = "create"
    PROVE  \A q \in Requests : Holds(q) /\ q # r => target[q] # target[r]
  <1>1. target[r] = r /\ r \notin Stored
    BY DEF Inv, CreatesOwnRow, Unborn, Writing
  <1>2. \A q \in Requests : Holds(q) => pc[q] \in Writing
    BY DEF Holds, Writing
  <1> QED
    BY <1>1, <1>2 DEF Inv, CreatesOwnRow, UpdatesStoredRow

LEMMA ExecuteKeeps ==
    ASSUME Inv, NEW r \in Requests, Execute(r)
    PROVE  Inv'
  <1>1. pc[r] = "merged" /\ Advance(r, "locked") /\ pc[r] \in Writing
    BY DEF Execute, Writing
  <1>2. Awaits(r) = {} /\ ~Violates(r)
    BY <1>1 DEF Advance
  <1>3. pc'[r] = "locked" /\ op'[r] = op[r]
    BY <1>1 DEF Advance, Inv, TypeOK
  <1>4. CASE op[r] = "create"
    <2>1. NameHolders(r) = {}
      BY <1>1, <1>2, <1>4 DEF Awaits
    <2>2. ~NameTaken(r)
      BY <1>1, <1>2, <1>4 DEF Violates
    <2>3. \A q \in Requests : Holds(q) /\ q # r => target[q] # target[r]
      BY <1>1, <1>4, OwnRowFree
    <2> QED
      BY <1>1, <2>1, <2>2, <2>3, NameWon, AdvanceKeeps
  <1>5. CASE op[r] # "create"
    <2>1. RowHolders(r) = {}
      BY <1>1, <1>2, <1>5 DEF Awaits
    <2>2. \A q \in Requests : Holds(q) /\ q # r => target[q] # target[r]
      BY <2>1 DEF RowHolders
    <2>3. ~Keyed(r)'
      BY <1>3, <1>5 DEF Keyed, Indexed
    <2> QED
      BY <1>1, <2>2, <2>3, AdvanceKeeps
  <1> QED
    BY <1>4, <1>5

LEMMA FlushKeeps ==
    ASSUME Inv, NEW r \in Requests, Flush(r)
    PROVE  Inv'
  <1>1. pc[r] = "locked" /\ Advance(r, "flushed") /\ pc[r] \in Writing /\ Holds(r)
    BY DEF Flush, Writing, Holds
  <1>2. Awaits(r) = {} /\ ~Violates(r)
    BY <1>1 DEF Advance
  <1>3. \A q \in Requests : Holds(q) /\ q # r => target[q] # target[r]
    BY <1>1 DEF Inv, RowsHeldOnce
  <1>4. CASE op[r] = "create"
    <2>1. Keyed(r)
      BY <1>1, <1>4 DEF Keyed, Indexed
    <2>2. ~NameTaken(r)
      BY <2>1 DEF Inv, NamesFree
    <2>3. \A q \in Requests : Keyed(q) /\ q # r => Version(q).name # Version(r).name
      BY <2>1 DEF Inv, NamesHeldOnce
    <2>4. ~NoParent(r)
      BY <1>1, <1>2, <1>4 DEF Violates
    <2> QED
      BY <1>1, <1>3, <2>2, <2>3, <2>4, AdvanceKeeps
  <1>5. CASE op[r] # "create"
    <2>1. NameHolders(r) = {}
      BY <1>1, <1>2, <1>5 DEF Awaits
    <2>2. ~NameTaken(r)
      BY <1>1, <1>2, <1>5 DEF Violates
    <2> QED
      BY <1>1, <1>3, <1>5, <2>1, <2>2, NameWon, AdvanceKeeps
  <1> QED
    BY <1>4, <1>5

-----------------------------------------------------------------------------
(* The commit.                                                             *)

LEMMA CommitKeeps ==
    ASSUME Inv, NEW r \in Requests, Commit(r)
    PROVE  Inv'
  <1> DEFINE t == target[r]
             row == Version(r)
  <1>1. pc[r] = "flushed" /\ pc[r] \in Writing /\ Found(r) /\ Holds(r) /\ Keyed(r)
    BY DEF Commit, Writing, Found, Holds, Keyed, Indexed
  <1>2. /\ t \in Ids /\ row \in Rows /\ row.name # None
        /\ op[r] = "create" => row.parent = entity[r].parent
        /\ op[r] # "create" => row.parent = db[t].parent
    BY <1>1, VersionRow
  <1>3. db' = [db EXCEPT ![t] = row] /\ Close(r)
    BY DEF Commit
  <1>4. db'[t] = row /\ \A e \in Ids \ {t} : db'[e] = db[e]
    BY <1>2, <1>3 DEF Inv, TypeOK
  <1>5. Stored' = Stored \cup {t}
    BY <1>2, <1>4 DEF Stored
  <1>6. None \notin Ids
    BY RegistryAssumption DEF Ids
  <1>7. /\ op[r] = "create" => t = r /\ t \notin Stored /\ row.parent \in Stored \cup {None}
        /\ op[r] # "create" => t \in Stored
    <2>1. op[r] = "create" => t = r
      BY <1>1 DEF Inv, CreatesOwnRow
    <2>2. r \notin Stored
      BY <1>1 DEF Inv, Unborn
    <2>3. op[r] = "create" => row.parent \in Stored \cup {None}
      BY <1>1, <1>2 DEF Inv, ParentKnown
    <2>4. op[r] # "create" => t \in Stored
      BY <1>1 DEF Inv, UpdatesStoredRow
    <2> QED
      BY <2>1, <2>2, <2>3, <2>4
  <1>8. TypeOK'
    <2>1. db' \in [Ids -> Rows]
      BY <1>2, <1>3 DEF Inv, TypeOK
    <2>2. \A e \in Ids \ Stored' : db'[e] = NoRow
      BY <1>4, <1>5 DEF Inv, TypeOK
    <2>3. NoRow \in Rows
      BY DEF NoRow, Rows
    <2> QED
      BY <1>3, <2>1, <2>2, <2>3 DEF Inv, TypeOK, Close, Writing, Working
  <1>9. NamesUnique'
    <2>1. \A e \in Stored \ {t} : db[e].name # row.name
      BY <1>1 DEF Inv, NamesFree, NameTaken
    <2> SUFFICES ASSUME NEW e \in Stored', NEW f \in Stored', db'[e].name = db'[f].name
                 PROVE  e = f
      BY DEF NamesUnique
    <2>2. CASE e = t \/ f = t
      BY <1>4, <1>5, <2>1, <2>2 DEF Stored
    <2>3. CASE e # t /\ f # t
      BY <1>4, <1>5, <2>3 DEF Inv, NamesUnique, Stored
    <2> QED
      BY <2>2, <2>3
  <1>10. Parents'
    <2>1. row.parent \in Stored \cup {None}
      BY <1>2, <1>7 DEF Inv, Parents
    <2> QED
      BY <1>4, <1>5, <2>1 DEF Inv, Parents, Stored
  <1>11. HierarchyAcyclic'
    <2> SUFFICES ASSUME NEW S \in SUBSET Stored', S # {}
                 PROVE  \E e \in S : db'[e].parent \notin S
      BY DEF HierarchyAcyclic
    <2>1. CASE op[r] # "create"
      <3>1. S \in SUBSET Stored
        BY <1>5, <1>7, <2>1
      <3>2. \A e \in S : db'[e].parent = db[e].parent
        BY <1>2, <1>4, <2>1, <3>1 DEF Stored
      <3> QED
        BY <3>1, <3>2 DEF Inv, HierarchyAcyclic
    <2>2. CASE op[r] = "create" /\ S \ {t} = {}
      <3>1. S = {t}
        BY <2>2
      <3>2. row.parent # t
        BY <1>2, <1>6, <1>7, <2>2
      <3> QED
        BY <1>4, <3>1, <3>2
    <2>3. CASE op[r] = "create" /\ S \ {t} # {}
      <3>1. S \ {t} \in SUBSET Stored
        BY <1>5
      <3>2. PICK e \in S \ {t} : db[e].parent \notin S \ {t}
        BY <2>3, <3>1 DEF Inv, HierarchyAcyclic
      <3>3. e \in Stored /\ e \in Ids
        BY <3>1, <3>2 DEF Stored
      <3>4. db[e].parent # t
        BY <1>2, <1>6, <1>7, <2>3, <3>3 DEF Inv, Parents
      <3> QED
        BY <1>4, <3>2, <3>3, <3>4
    <2> QED
      BY <2>1, <2>2, <2>3
  <1>12. Unborn'
    <2> SUFFICES ASSUME NEW q \in Requests, q \in Stored' PROVE pc'[q] = "ended"
      BY DEF Unborn
    <2>1. CASE q = r
      BY <1>3, <2>1 DEF Close, Inv, TypeOK
    <2>2. CASE q # r
      <3>1. q \in Stored
        BY <1>5, <1>7, <2>2
      <3> QED
        BY <1>3, <2>2, <3>1 DEF Close, Inv, TypeOK, Unborn
    <2> QED
      BY <2>1, <2>2
  <1>13. \A q \in Requests : q # r =>
            /\ pc'[q] = pc[q] /\ op'[q] = op[q] /\ target'[q] = target[q]
            /\ loaded'[q] = loaded[q] /\ entity'[q] = entity[q] /\ existing'[q] = existing[q]
    BY <1>3 DEF Close, Inv, TypeOK
  <1>14. pc'[r] = "ended"
    BY <1>3 DEF Close, Inv, TypeOK
  <1>15. CreatesOwnRow'
    BY <1>13, <1>14 DEF Inv, CreatesOwnRow, Found, Writing
  <1>16. UpdatesStoredRow'
    BY <1>5, <1>13, <1>14 DEF Inv, UpdatesStoredRow, Found, Writing
  <1>17. ParentKnown'
    BY <1>5, <1>13, <1>14 DEF Inv, ParentKnown
  <1>18. \A q \in Requests : Holds(q)' => q # r /\ Holds(q)
    BY <1>13, <1>14 DEF Holds
  <1>19. \A q \in Requests : Keyed(q)' => q # r /\ Keyed(q)
    BY <1>13, <1>18 DEF Holds, Keyed, Indexed
  <1>20. \A q \in Requests : Holds(q)' => target[q] # t /\ target[q] \in Ids
    BY <1>1, <1>18 DEF Inv, TypeOK, RowsHeldOnce, Holds, Writing
  <1>21. \A q \in Requests : Holds(q)' => Version(q)' = Version(q)
    BY <1>4, <1>13, <1>18, <1>20 DEF Version
  <1>22. RowsHeldOnce'
    BY <1>13, <1>18 DEF Inv, RowsHeldOnce
  <1>23. NamesHeldOnce'
    BY <1>19, <1>21 DEF Inv, NamesHeldOnce, Keyed
  <1>24. NamesFree'
    <2> SUFFICES ASSUME NEW q \in Requests, Keyed(q)',
                        NEW e \in Stored' \ {target'[q]}
                 PROVE  db'[e].name # Version(q)'.name
      BY DEF NamesFree, NameTaken
    <2>1. Keyed(q) /\ q # r /\ target'[q] = target[q] /\ Version(q)' = Version(q)
      BY <1>13, <1>19, <1>21 DEF Keyed
    <2>2. CASE e = t
      BY <1>1, <1>4, <2>1, <2>2 DEF Inv, NamesHeldOnce
    <2>3. CASE e # t
      BY <1>4, <1>5, <2>1, <2>3 DEF Inv, NamesFree, NameTaken, Stored
    <2> QED
      BY <2>2, <2>3
  <1> QED
    BY <1>8, <1>9, <1>10, <1>11, <1>12, <1>15, <1>16, <1>17, <1>22, <1>23, <1>24 DEF Inv

-----------------------------------------------------------------------------
(* Every step, and the theorems.                                           *)

LEMMA NextKeeps ==
    ASSUME Inv, [Next]_vars
    PROVE  Inv'
  <1>0. \A e \in Stored : e \in Ids /\ db[e] \in Rows /\ db[e].name # None
    BY DEF Inv, TypeOK, Stored
  <1>1. CASE UNCHANGED vars
    <2>1. Stored' = Stored /\ \A q \in Requests : Version(q)' = Version(q)
      BY <1>1 DEF vars, Stored, Version
    <2> QED
      BY <1>1, <2>1 DEF vars, Inv, TypeOK, NamesUnique, HierarchyAcyclic, Parents, Unborn,
         CreatesOwnRow, UpdatesStoredRow, ParentKnown, RowsHeldOnce, NamesHeldOnce, NamesFree,
         Found, Keyed, Holds, Indexed, NameTaken
  <1>2. ASSUME NEW r \in Requests, CreateEntity(r) PROVE Inv'
    <2>1. PICK n \in Names, p \in (Ids \ {r}) \cup {None} :
             Begin(r, "create", r, [name |-> n, parent |-> p, active |-> TRUE])
      BY <1>2 DEF CreateEntity
    <2>2. [name |-> n, parent |-> p, active |-> TRUE] \in Rows /\ n # None
      BY RegistryAssumption DEF Rows
    <2>3. [name |-> n, parent |-> p, active |-> TRUE].name # None
      BY <2>2
    <2>4. r \in Ids
      BY DEF Ids
    <2> QED
      BY <2>1, <2>2, <2>3, <2>4, BeginKeeps
  <1>3. ASSUME NEW r \in Requests, UpdateEntity(r) PROVE Inv'
    <2>1. PICK e \in Stored :
             \/ \E n \in Names : Begin(r, "update", e, [ToDomain(db[e]) EXCEPT !.name = n])
             \/ \E p \in Ids : Begin(r, "update", e, [ToDomain(db[e]) EXCEPT !.parent = p])
             \/ Begin(r, "update", e, ToDomain(db[e]))
      BY <1>3 DEF UpdateEntity
    <2>2. ToDomain(db[e]) \in Rows /\ ToDomain(db[e]).name # None
      BY <1>0 DEF ToDomain, Rows
    <2>3. \A n \in Names : /\ [ToDomain(db[e]) EXCEPT !.name = n] \in Rows
                           /\ [ToDomain(db[e]) EXCEPT !.name = n].name # None
      BY <2>2, RegistryAssumption DEF Rows
    <2>4. \A p \in Ids : /\ [ToDomain(db[e]) EXCEPT !.parent = p] \in Rows
                         /\ [ToDomain(db[e]) EXCEPT !.parent = p].name # None
      BY <2>2 DEF Rows
    <2>5. PICK row \in Rows : row.name # None /\ Begin(r, "update", e, row)
      BY <2>1, <2>2, <2>3, <2>4
    <2> QED
      BY <1>0, <2>5, BeginKeeps
  <1>4. ASSUME NEW r \in Requests, DeactivateEntity(r) PROVE Inv'
    <2>1. PICK e \in Stored :
             Begin(r, "deactivate", e, [ToDomain(db[e]) EXCEPT !.active = FALSE])
      BY <1>4 DEF DeactivateEntity
    <2>2. /\ [ToDomain(db[e]) EXCEPT !.active = FALSE] \in Rows
          /\ [ToDomain(db[e]) EXCEPT !.active = FALSE].name # None
      BY <1>0 DEF ToDomain, Rows
    <2>3. PICK row \in Rows : row.name # None /\ Begin(r, "deactivate", e, row)
      BY <2>1, <2>2
    <2> QED
      BY <1>0, <2>3, BeginKeeps
  <1>5. ASSUME NEW r \in Requests, ActivateEntity(r) PROVE Inv'
    <2>1. PICK e \in Stored : Begin(r, "activate", e, ToDomain(db[e]))
      BY <1>5 DEF ActivateEntity
    <2>2. ToDomain(db[e]) \in Rows /\ ToDomain(db[e]).name # None
      BY <1>0 DEF ToDomain, Rows
    <2> QED
      BY <1>0, <2>1, <2>2, BeginKeeps
  <1>6. ASSUME NEW r \in Requests, GetHierarchy(r) PROVE Inv'
    <2>1. PICK e \in Stored : Begin(r, "hierarchy", e, NoRow)
      BY <1>6 DEF GetHierarchy
    <2>2. NoRow \in Rows
      BY DEF NoRow, Rows
    <2> QED
      BY <1>0, <2>1, <2>2, BeginKeeps
  <1>7. ASSUME NEW r \in Requests, EndClimb(r) \/ RollBack(r) PROVE Inv'
    BY <1>7, CloseKeeps DEF EndClimb, RollBack
  <1> QED
    BY <1>1, <1>2, <1>3, <1>4, <1>5, <1>6, <1>7, RefuseKeeps, MergeKeeps, ExecuteKeeps,
       FlushKeeps, CommitKeeps, ClimbKeeps DEF Next

\* The invariant holds of every behaviour of the registry.
THEOREM Invariance == Spec => []Inv
  <1>1. Inv /\ [Next]_vars => Inv'
    BY NextKeeps
  <1> QED
    BY InitInv, <1>1, PTL DEF Spec

\* Rows, sessions and requests keep to their types.  (database columns, session state)
THEOREM TypeCorrect == Spec => []TypeOK
  <1>1. Inv => TypeOK
    BY DEF Inv
  <1> QED
    BY Invariance, <1>1, PTL

\* However creates and renames overlap, two stored entities never share a name.
\* (get_by_name, uq_entity_tenant_name)
THEOREM NamesStayUnique == Spec => []NamesUnique
  <1>1. Inv => NamesUnique
    BY DEF Inv
  <1> QED
    BY Invariance, <1>1, PTL

\* Whatever parents clients ask for, no stored entity comes to be above itself.
\* (save(), the foreign key of parent_entity_id)
THEOREM HierarchyStaysAcyclic == Spec => []HierarchyAcyclic
  <1>1. Inv => HierarchyAcyclic
    BY DEF Inv
  <1> QED
    BY Invariance, <1>1, PTL

\* The index refuses nobody who leaves the name alone, unless the entity was renamed
\* between the two reads: the session's version has the name of the stored row, which no
\* other row has.  (save(), the ORM's UPDATE, uq_entity_tenant_name)
THEOREM RefusalsNeedRenames == Spec => []OnlyRenamesRefused
  <1>1. ASSUME Inv, NEW r \in Requests, Violates(r), op[r] # "create",
               entity[r].name = loaded[r].name, existing[r].name = loaded[r].name
        PROVE  FALSE
    <2>1. pc[r] = "locked" /\ NameTaken(r)
      BY <1>1 DEF Violates
    <2>2. target[r] \in Stored
      BY <1>1, <2>1 DEF Inv, UpdatesStoredRow, Writing
    <2>3. Version(r).name = db[target[r]].name
      BY <1>1, VersionName DEF Column
    <2>4. PICK e \in Stored \ {target[r]} : db[e].name = Version(r).name
      BY <2>1 DEF NameTaken
    <2> QED
      BY <1>1, <2>2, <2>3, <2>4 DEF Inv, NamesUnique
  <1>2. Inv => OnlyRenamesRefused
    BY <1>1 DEF OnlyRenamesRefused
  <1> QED
    BY Invariance, <1>2, PTL

-----------------------------------------------------------------------------
(* Waiting.                                                                *)

\* Whoever is waited for has a statement that has begun, so its session is open.
LEMMA AwaitedHold ==
    ASSUME NEW p \in Requests, NEW q \in Awaits(p)
    PROVE  q \in Requests /\ q # p /\ Holds(q) /\ q \in Open
  <1>1. q \in Requests /\ q # p /\ Holds(q)
    BY DEF Awaits, NameHolders, RowHolders, ParentHolders, Holds
  <1> QED
    BY <1>1 DEF Holds, Open, Working, Writing

\* A session that leaves the name of its row as it is waits for nobody's name: the name
\* is its own among the rows and in the index.
LEMMA QuietNeverWaits ==
    ASSUME Inv, NEW r \in Requests, pc[r] = "locked", op[r] # "create",
           entity[r].name = loaded[r].name, existing[r] = loaded[r]
    PROVE  Awaits(r) = {}
  <1>1. pc[r] \in Writing /\ Found(r)
    BY DEF Writing, Found
  <1>2. target[r] \in Stored
    BY <1>1 DEF Inv, UpdatesStoredRow
  <1>3. Version(r).name = db[target[r]].name
    BY VersionName DEF Column
  <1>4. ASSUME NEW q \in NameHolders(r) PROVE FALSE
    <2>1. q \in Requests /\ Holds(q) /\ Found(q) /\ target[q] # target[r]
      BY DEF NameHolders, Holds, Found
    <2>2. CASE Indexed(q) /\ Version(q).name = Version(r).name
      <3>1. ~NameTaken(q)
        BY <2>1, <2>2 DEF Inv, NamesFree, Keyed
      <3> QED
        BY <1>2, <1>3, <2>1, <2>2, <3>1 DEF NameTaken
    <2>3. CASE db[target[q]].name = Version(r).name
      <3>1. target[q] \in Stored
        BY <1>2, <1>3, <2>1, <2>3, VersionRow DEF Stored
      <3> QED
        BY <1>2, <1>3, <2>1, <2>3, <3>1 DEF Inv, NamesUnique
    <2> QED
      BY <2>2, <2>3 DEF NameHolders
  <1>5. Awaits(r) = NameHolders(r)
    BY DEF Awaits
  <1> QED
    BY <1>4, <1>5

\* No deadlock without a session that renames, or brings a name back it found changed.
\* (save(), uq_entity_tenant_name, parent_entity_id)
THEOREM DeadlocksNeedRenames == Spec => []OnlyRenamesDeadlock
  <1>1. ASSUME Inv, NEW S \in SUBSET Open, S # {}, Circle(S)
        PROVE  /\ \A q \in S : \/ op[q] = "create"
                               \/ entity[q].name # loaded[q].name
                               \/ existing[q] # loaded[q]
               /\ \E q \in S : op[q] # "create"
    <2>1. \A q \in S : q \in Requests /\ pc[q] = "locked"
      <3> SUFFICES ASSUME NEW q \in S PROVE q \in Requests /\ pc[q] = "locked"
        OBVIOUS
      <3>1. q \in Requests /\ Awaits(q) # {}
        BY <1>1 DEF Open, Circle
      <3>2. PICK p \in S : q \in Awaits(p)
        BY <1>1 DEF Circle
      <3>3. p \in Requests
        BY <1>1, <3>2 DEF Open
      <3>4. Holds(q)
        BY <3>2, <3>3, AwaitedHold
      <3> QED
        BY <3>1, <3>4 DEF Holds, Awaits
    <2>2. \A q \in S : Awaits(q) # {}
      BY <1>1 DEF Circle
    <2>3. \A q \in S : \/ op[q] = "create"
                       \/ entity[q].name # loaded[q].name
                       \/ existing[q] # loaded[q]
      BY <1>1, <2>1, <2>2, QuietNeverWaits
    <2>4. PICK q \in S : q \in Requests /\ pc[q] = "locked"
      BY <1>1, <2>1
    <2>5. PICK p \in S : p \in Awaits(q)
      BY <1>1, <2>4 DEF Circle
    <2>6. op[q] = "create" => op[p] # "create"
      BY <2>4, <2>5 DEF Awaits, ParentHolders
    <2> QED
      BY <2>3, <2>4, <2>5, <2>6
  <1>2. Inv => OnlyRenamesDeadlock
    BY <1>1 DEF OnlyRenamesDeadlock
  <1> QED
    BY Invariance, <1>2, PTL

\* Some open session can take its next step, or is in a circle that the database breaks.
NeverStuck == Open # {} => \E r \in Open : Awaits(r) = {} \/ Deadlocked(r)

\* When everyone in a finite set waits for another in it, some of them wait in a circle:
\* in a smallest such set no one can be left out, so that each is waited for.
LEMMA CircleForms ==
    ASSUME IsFiniteSet(Open), Open # {}, \A r \in Open : Awaits(r) # {}
    PROVE  \E S \in SUBSET Open : S # {} /\ Circle(S)
  <1> DEFINE Waits(S) == S # {} /\ \A q \in S : Awaits(q) \cap S # {}
             Sets == {S \in SUBSET Open : Waits(S)}
  <1>1. \A q \in Open : Awaits(q) \subseteq Open /\ q \notin Awaits(q)
    BY AwaitedHold DEF Open
  <1>2. Open \in Sets
    BY <1>1
  <1>3. \A S \in SUBSET Open : IsFiniteSet(S)
    BY FS_Subset
  <1>4. Sets \subseteq FiniteSubsetsOf(Open)
    BY <1>3 DEF FiniteSubsetsOf
  <1>5. PICK S \in Sets : \A T \in Sets : ~(<<T, S>> \in StrictSubsetOrdering(Open))
    <2> HIDE DEF Sets
    <2> QED
      BY <1>2, <1>4, FS_StrictSubsetOrderingWellFounded, WFMin
  <1>6. S \in SUBSET Open /\ S # {} /\ \A q \in S : Awaits(q) \cap S # {}
    BY <1>5
  <1>7. ASSUME NEW q \in S, \A p \in S : q \notin Awaits(p) PROVE FALSE
    <2> DEFINE T == S \ {q}
    <2>1. \A p \in T : Awaits(p) \cap T # {}
      BY <1>6, <1>7
    <2>2. T # {}
      BY <1>1, <1>6
    <2>3. T \in SUBSET Open /\ T \subseteq S /\ T # S
      BY <1>6
    <2>4. T \in Sets
      BY <2>1, <2>2, <2>3
    <2>5. <<T, S>> \in StrictSubsetOrdering(Open)
      BY <1>6, <2>3 DEF StrictSubsetOrdering
    <2> QED
      BY <1>5, <2>4, <2>5
  <1>8. Circle(S)
    BY <1>6, <1>7 DEF Circle
  <1> QED
    BY <1>6, <1>8

\* However many sessions wait for each other, one of them goes on or is ended as the
\* victim of a deadlock: what remains for RequestsEnd is that each does when it can.
THEOREM SessionsGoOn == Spec => []NeverStuck
  <1>1. IsFiniteSet(Open)
    BY RegistryAssumption, FS_Subset DEF Open
  <1>2. NeverStuck
    <2> SUFFICES ASSUME Open # {}, \A r \in Open : Awaits(r) # {}
                 PROVE  \E r \in Open : Deadlocked(r)
      BY DEF NeverStuck
    <2>1. PICK S \in SUBSET Open : S # {} /\ Circle(S)
      BY <1>1, CircleForms
    <2>2. PICK r \in S : TRUE
      BY <2>1
    <2> QED
      BY <2>1, <2>2 DEF Deadlocked
  <1> QED
    BY <1>2, PTL

-----------------------------------------------------------------------------
(* The directory.                                                          *)

\* Only a commit touches the rows.  (get_session)
LEMMA OnlyCommitWrites ==
    ASSUME [Next]_vars
    PROVE  db' = db \/ \E r \in Requests : Commit(r)
  BY DEF Next, vars, CreateEntity, UpdateEntity, DeactivateEntity, ActivateEntity,
         GetHierarchy, Begin, Refuse, Merge, Execute, Flush, Advance, Climb, EndClimb, RollBack

\* A commit creates its entity in the directory, or renames it.
LEMMA CommitImplements ==
    ASSUME Inv, NEW r \in Requests, Commit(r)
    PROVE  Directory!Next
  <1> DEFINE name == [e \in Ids |-> db[e].name]
             parent == [e \in Ids |-> db[e].parent]
  <1>1. pc[r] = "flushed" /\ pc[r] \in Writing /\ Found(r) /\ Keyed(r)
    BY DEF Commit, Writing, Found, Holds, Keyed, Indexed
  <1>2. /\ target[r] \in Ids /\ Version(r) \in Rows /\ Version(r).name # None
        /\ op[r] = "create" => Version(r).parent = entity[r].parent
        /\ op[r] # "create" => Version(r).parent = db[target[r]].parent
    BY <1>1, VersionRow
  <1>3. PICK t \in Ids : t = target[r]
    BY <1>2
  <1>4. PICK n \in Names : n = Version(r).name
    BY <1>2 DEF Rows
  <1>5. db'[t] = Version(r) /\ \A e \in Ids \ {t} : db'[e] = db[e]
    BY <1>2, <1>3 DEF Commit, Inv, TypeOK
  <1>6. Directory!Known = Stored
    BY DEF Directory!Known, Stored
  <1>7. Directory!Free(n, t)
    BY <1>1, <1>4, <1>6, <1>3 DEF Inv, NamesFree, NameTaken, Stored, Directory!Free
  <1>8. [e \in Ids |-> db'[e].name] = [name EXCEPT ![t] = n]
    BY <1>2, <1>4, <1>5, <1>3
  <1>9. CASE op[r] = "create"
    <2>1. t = r /\ t \notin Stored
      BY <1>1, <1>9, <1>3 DEF Inv, CreatesOwnRow, Unborn
    <2>2. PICK p \in Ids \cup {None} : p = entity[r].parent /\ p \in Stored \cup {None}
      BY <1>1, <1>9 DEF Inv, ParentKnown, Stored
    <2>3. [e \in Ids |-> db'[e].parent] = [parent EXCEPT ![t] = p]
      BY <1>2, <1>5, <1>9, <1>3, <2>2
    <2>4. Directory!Create(t, n, p)
      BY <1>6, <1>7, <1>8, <2>1, <2>2, <2>3 DEF Directory!Create
    <2> QED
      BY <2>4 DEF Directory!Next
  <1>10. CASE op[r] # "create"
    <2>1. t \in Stored
      BY <1>1, <1>10, <1>3 DEF Inv, UpdatesStoredRow
    <2>2. [e \in Ids |-> db'[e].parent] = parent
      BY <1>2, <1>5, <1>10, <1>3
    <2>3. Directory!Rename(t, n)
      BY <1>6, <1>7, <1>8, <2>1, <2>2 DEF Directory!Rename
    <2> QED
      BY <2>3 DEF Directory!Next
  <1> QED
    BY <1>9, <1>10

\* The sessions implement the directory: whatever overlaps, what is committed is one
\* entity created under a free name and a known parent, or one renamed to a free name.
\* (the use cases, save(), get_session)
THEOREM KeepsDirectory == Spec => DirectoryKept
  <1>1. Init => Directory!Init
    <2> SUFFICES ASSUME Init PROVE Directory!Init
      OBVIOUS
    <2>1. \A e \in Ids : /\ db[e].name = IF e \in Seeds THEN SeedName[e] ELSE None
                         /\ db[e].parent = None
      BY DEF Init, NoRow
    <2> QED
      BY <2>1 DEF Directory!Init
  <1>2. Inv /\ [Next]_vars => [Directory!Next]_(Directory!vars)
    <2> SUFFICES ASSUME Inv, [Next]_vars
                 PROVE  Directory!Next \/ UNCHANGED Directory!vars
      OBVIOUS
    <2>1. CASE db' = db
      BY <2>1 DEF Directory!vars
    <2>2. CASE \E r \in Requests : Commit(r)
      BY <2>2, CommitImplements
    <2> QED
      BY <2>1, <2>2, OnlyCommitWrites
  <1> QED
    BY <1>1, <1>2, Invariance, PTL DEF Spec, DirectoryKept, Directory!Spec

=============================================================================
