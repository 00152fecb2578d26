--------------------------- MODULE EntityRegistry ---------------------------
(***************************************************************************)
(* Concurrent HTTP requests on the assessable entities of one tenant.      *)
(*                                                                         *)
(* As everywhere in the application, a request runs one use case           *)
(* (application/use_cases/entity_use_cases.py) over a database session of  *)
(* its own: the entity is read, changed in memory, put on the row that     *)
(* save() fetches again, flushed, announced and only then committed.  What *)
(* is peculiar to entities is that the requests meet in more than one row: *)
(* names are unique in a tenant, a child refers to its parent, and         *)
(* /hierarchy climbs the parents with one query for each.  The unique      *)
(* index and the foreign key make statements wait for each other, and      *)
(* PostgreSQL ends one of them when they wait in a circle.                 *)
(*                                                                         *)
(* Description, tags, attributes and type are left out: nothing depends on *)
(* them.  So is the version; it makes every save() of a stored entity an   *)
(* UPDATE.  Events leave between the flush and the commit, where they      *)
(* change nothing modelled.                                                *)
(***************************************************************************)
EXTENDS Integers, FiniteSets

CONSTANTS
    Requests,     \* the HTTP requests; a create makes the entity named after it
    Seeds,        \* the entities stored before, without parents
    Names,        \* the names clients use
    SeedName,     \* SeedName[e]: the name of a stored entity
    ActiveSeeds,  \* those of them that are active
    MaxSessions,  \* the sessions that may be open at once
    None          \* the NULL column

ASSUME RegistryAssumption ==
    /\ IsFiniteSet(Requests)
    /\ Seeds \cap Requests = {}
    /\ SeedName \in [Seeds -> Names]
    /\ ActiveSeeds \subseteq Seeds
    /\ \A e, f \in Seeds : SeedName[e] = SeedName[f] => e = f
    /\ MaxSessions \in Nat \ {0}
    /\ None \notin Names \cup Requests \cup Seeds

Ids == Seeds \cup Requests

VARIABLES
    db,        \* db[e]: the committed row of entity e in assessable_entities
    pc,        \* pc[r]: where request r stands
    op,        \* op[r]: the use case r runs, or None
    target,    \* target[r]: the entity r works on; for /hierarchy, current_id
    loaded,    \* loaded[r]: the row as get_by_id read it
    entity,    \* entity[r]: r's aggregate
    existing   \* existing[r]: the row as save() found it

vars == <<db, pc, op, target, loaded, entity, existing>>

-----------------------------------------------------------------------------
(* Rows.                                                                   *)

NoRow == [name |-> None, parent |-> None, active |-> FALSE]

Rows == [name : Names \cup {None}, parent : Ids \cup {None}, active : BOOLEAN]

Stored == {e \in Ids : db[e].name # None}

\* The constructor sets _active and _to_domain has no way to say otherwise.
ToDomain(row) == [row EXCEPT !.active = TRUE]

\* save() assigns the columns; the ORM puts into the UPDATE those that differ from
\* the row it found.
Column(stored, found, new) == IF new = found THEN stored ELSE new

\* As if the new parent of a PATCH, found in the answer, were on the row as well.
Saved_WithParent(stored, found, new) ==
    [name   |-> Column(stored.name, found.name, new.name),
     parent |-> Column(stored.parent, found.parent, new.parent),
     active |-> Column(stored.active, found.active, new.active)]

\* As if save() merged the whole aggregate into the row.
Saved_AllColumns(stored, found, new) ==
    [name   |-> new.name,
     parent |-> IF found = NoRow THEN new.parent ELSE stored.parent,
     active |-> new.active]

\* parent_entity_id is among the columns of a new row and of no other.
Saved(stored, found, new) ==
    [name   |-> Column(stored.name, found.name, new.name),
     parent |-> IF found = NoRow THEN new.parent ELSE stored.parent,
     active |-> Column(stored.active, found.active, new.active)]

\* The row r's statement makes, or has made, of the one stored.
Version(r) == Saved(db[target[r]], existing[r], entity[r])

-----------------------------------------------------------------------------
(* Sessions.  A request is "idle" until its session opens.  A writer is    *)
(* then "dirty" with the aggregate in memory, "merged" once save() has     *)
(* looked for the row, "locked" while its INSERT or UPDATE has made a new  *)
(* row version and still has a constraint to pass, "flushed" when the      *)
(* statement is through.  A reader of the hierarchy is "climbing".  Both   *)
(* end "ended".                                                            *)

Writing == {"dirty", "merged", "locked", "flushed"}
Working == Writing \cup {"climbing"}

Open == {r \in Requests : pc[r] \in Working}

Init ==
    /\ db = [e \in Ids |-> IF e \in Seeds
                           THEN [name |-> SeedName[e], parent |-> None, active |-> e \in ActiveSeeds]
                           ELSE NoRow]
    /\ pc = [r \in Requests |-> "idle"]
    /\ op = [r \in Requests |-> None]
    /\ target = [r \in Requests |-> None]
    /\ loaded = [r \in Requests |-> NoRow]
    /\ entity = [r \in Requests |-> NoRow]
    /\ existing = [r \in Requests |-> NoRow]

Begin(r, o, e, row) ==
    /\ pc[r] = "idle"
    /\ Cardinality(Open) < MaxSessions
    /\ pc' = [pc EXCEPT ![r] = IF o = "hierarchy" THEN "climbing" ELSE "dirty"]
    /\ op' = [op EXCEPT ![r] = o]
    /\ target' = [target EXCEPT ![r] = e]
    /\ loaded' = [loaded EXCEPT ![r] = db[e]]
    /\ entity' = [entity EXCEPT ![r] = row]
    /\ UNCHANGED <<db, existing>>

\* get_by_name, then the new aggregate, whose parent is not looked up.  Its id is
\* made here, so that no client can name it as the parent.
CreateEntity(r) ==
    \E n \in Names, p \in (Ids \ {r}) \cup {None} :
        /\ \A e \in Stored : db[e].name # n
        /\ Begin(r, "create", r, [name |-> n, parent |-> p, active |-> TRUE])

\* As if a null in the PATCH were a value.
UpdateEntity_NullName(r) ==
    \E e \in Stored, n \in Names \cup {None} :
        Begin(r, "update", e, [ToDomain(db[e]) EXCEPT !.name = n])

\* A PATCH of the name, of the parent, or of columns that are not modelled.
UpdateEntity(r) ==
    \E e \in Stored :
        \/ \E n \in Names : Begin(r, "update", e, [ToDomain(db[e]) EXCEPT !.name = n])
        \/ \E p \in Ids : Begin(r, "update", e, [ToDomain(db[e]) EXCEPT !.parent = p])
        \/ Begin(r, "update", e, ToDomain(db[e]))

DeactivateEntity(r) ==
    \E e \in Stored :
        Begin(r, "deactivate", e, [ToDomain(db[e]) EXCEPT !.active = FALSE])

ActivateEntity(r) == \E e \in Stored : Begin(r, "activate", e, ToDomain(db[e]))

GetHierarchy(r) == \E e \in Stored : Begin(r, "hierarchy", e, NoRow)

\* 404, for an id nothing was ever stored under, or 409, because the name is taken:
\* the session ends with nothing in it.
Refuse(r) ==
    /\ pc[r] = "idle"
    /\ pc' = [pc EXCEPT ![r] = "ended"]
    /\ UNCHANGED <<db, op, target, loaded, entity, existing>>

\* session.get() in save(): nothing refers to the row get_by_id read any more, so
\* that the session has lost it, and fetches it again, unless the interpreter has
\* not collected it yet.  A new id is never found.
Merge(r) ==
    /\ pc[r] = "dirty"
    /\ \E row \in {db[target[r]], loaded[r]} : existing' = [existing EXCEPT ![r] = row]
    /\ pc' = [pc EXCEPT ![r] = "merged"]
    /\ UNCHANGED <<db, op, target, loaded, entity>>

-----------------------------------------------------------------------------
(* What the statement of one session waits for in another.                 *)

\* r has an uncommitted version of its row.
Holds(r) == pc[r] \in {"locked", "flushed"}

\* As if an UPDATE, too, were in the index before it has the row.
Indexed_Held(r) == Holds(r)

\* The new version is in the unique index: an INSERT puts it there before it looks
\* for the parent, an UPDATE after it has locked the row.
Indexed(r) == pc[r] = "flushed" \/ (pc[r] = "locked" /\ op[r] = "create")

Renames(r) == Version(r).name # db[target[r]].name

\* Those who may take r's name, or give it back, when they end.
NameHolders(r) ==
    {q \in Requests \ {r} :
        /\ Holds(q)
        /\ target[q] # target[r]
        /\ \/ Indexed(q) /\ Version(q).name = Version(r).name
           \/ db[target[q]].name = Version(r).name}

\* Those who hold the row r updates, or a key share of it that a rename conflicts with.
RowHolders(r) ==
    {q \in Requests \ {r} :
        \/ Holds(q) /\ target[q] = target[r]
        \/ /\ pc[q] = "flushed" /\ op[q] = "create"
           /\ entity[q].parent = target[r] /\ Renames(r)}

\* Those who rename the row r refers to.  A row not committed yet is none to refer to.
ParentHolders(r) ==
    {q \in Requests \ {r} :
        Holds(q) /\ op[q] # "create" /\ target[q] = entity[r].parent /\ Renames(q)}

Awaits(r) ==
    CASE pc[r] = "merged" -> IF op[r] = "create" THEN NameHolders(r) ELSE RowHolders(r)
      [] pc[r] = "locked" -> IF op[r] = "create" THEN ParentHolders(r) ELSE NameHolders(r)
      [] OTHER -> {}

\* As if names were not unique in the table.
NameTaken_Never(r) == FALSE

\* Another committed row has the name.  (uq_entity_tenant_name)
NameTaken(r) == \E e \in Stored \ {target[r]} : db[e].name = Version(r).name

\* As if the column had no foreign key.
NoParent_Never(r) == FALSE

\* The parent is no committed row.  (the foreign key of parent_entity_id)
NoParent(r) == entity[r].parent \notin Stored \cup {None}

\* The statement fails on a constraint: save() raises RepositoryError.
Violates(r) ==
    /\ Awaits(r) = {}
    /\ \/ op[r] = "create" /\ pc[r] = "merged" /\ NameTaken(r)
       \/ op[r] = "create" /\ pc[r] = "locked" /\ NoParent(r)
       \/ op[r] # "create" /\ pc[r] = "locked" /\ NameTaken(r)

\* Everyone in S waits for another in S and is waited for.
Circle(S) == \A q \in S : Awaits(q) \cap S # {} /\ \E p \in S : q \in Awaits(p)

\* r waits in a circle; PostgreSQL ends one of those.
Deadlocked(r) == \E S \in SUBSET Open : r \in S /\ Circle(S)

-----------------------------------------------------------------------------
(* The rest of a request.                                                  *)

Advance(r, to) ==
    /\ Awaits(r) = {}
    /\ ~Violates(r)
    /\ pc' = [pc EXCEPT ![r] = to]
    /\ UNCHANGED <<db, op, target, loaded, entity, existing>>

\* The INSERT or UPDATE of save()'s flush, and its second wait.
Execute(r) == pc[r] = "merged" /\ Advance(r, "locked")
Flush(r) == pc[r] = "locked" /\ Advance(r, "flushed")

Close(r) ==
    /\ pc' = [pc EXCEPT ![r] = "ended"]
    /\ op' = [op EXCEPT ![r] = None]
    /\ target' = [target EXCEPT ![r] = None]
    /\ loaded' = [loaded EXCEPT ![r] = NoRow]
    /\ entity' = [entity EXCEPT ![r] = NoRow]
    /\ existing' = [existing EXCEPT ![r] = NoRow]

\* The event has been published; get_session commits.
Commit(r) ==
    /\ pc[r] = "flushed"
    /\ db' = [db EXCEPT ![target[r]] = Version(r)]
    /\ Close(r)

\* As if the loop did not step to the parent.
Climb_Unmoved(r) ==
    /\ pc[r] = "climbing"
    /\ target[r] \in Stored
    /\ UNCHANGED vars

\* One query of get_hierarchy.
Climb(r) ==
    /\ pc[r] = "climbing"
    /\ target[r] \in Stored
    /\ target' = [target EXCEPT ![r] = db[target[r]].parent]
    /\ UNCHANGED <<db, pc, op, loaded, entity, existing>>

\* The loop ran out of parents.
EndClimb(r) ==
    /\ pc[r] = "climbing"
    /\ target[r] \notin Stored
    /\ Close(r)
    /\ UNCHANGED db

\* A statement, the publisher or the COMMIT fails: get_session rolls back.
RollBack(r) ==
    /\ pc[r] \in Working
    /\ Close(r)
    /\ UNCHANGED db

Next ==
    \E r \in Requests :
        \/ CreateEntity(r)
        \/ UpdateEntity(r)
        \/ DeactivateEntity(r)
        \/ ActivateEntity(r)
        \/ GetHierarchy(r)
        \/ Refuse(r)
        \/ Merge(r)
        \/ Execute(r)
        \/ Flush(r)
        \/ Commit(r)
        \/ Climb(r)
        \/ EndClimb(r)
        \/ RollBack(r)

Spec == Init /\ [][Next]_vars

\* The event loop resumes every ready request, the database grants what is free,
\* reports what is violated and breaks every circle; nothing else need fail.
Fairness ==
    \A r \in Requests :
        WF_vars(\/ Merge(r) \/ Execute(r) \/ Flush(r) \/ Commit(r)
                \/ Climb(r) \/ EndClimb(r)
                \/ RollBack(r) /\ (Violates(r) \/ Deadlocked(r)))

FairSpec == Spec /\ Fairness

-----------------------------------------------------------------------------
(* Properties.                                                             *)

\* Every column keeps to its domain and every request to its protocol; a row without
\* a name is no row at all.  (database columns, session state)
TypeOK ==
    /\ db \in [Ids -> Rows]
    /\ \A e \in Ids \ Stored : db[e] = NoRow
    /\ pc \in [Requests -> {"idle", "ended"} \cup Working]
    /\ op \in [Requests -> {None, "create", "update", "deactivate", "activate", "hierarchy"}]
    /\ target \in [Requests -> Ids \cup {None}]
    /\ loaded \in [Requests -> Rows]
    /\ entity \in [Requests -> Rows]
    /\ existing \in [Requests -> Rows]
    /\ \A r \in Requests : pc[r] \in Writing => target[r] # None /\ entity[r].name # None

\* Two stored entities never share a name, whatever overlaps between the look-up of
\* create and the commit, or is renamed meanwhile.
\* (domain-model.md "Name must be unique within a tenant"; get_by_name, uq_entity_tenant_name)
NamesUnique ==
    \A e, f \in Stored : db[e].name = db[f].name => e = f

\* No entity is above itself: every set of stored entities has one whose parent is
\* outside the set.  No code looks for circles; it holds because a parent is stored
\* before its child and never replaced.
\* (domain-model.md "circular reference prevented"; save(), the foreign key)
HierarchyAcyclic ==
    \A S \in SUBSET Stored : S # {} => \E e \in S : db[e].parent \notin S

\* The index refuses only sessions that create an entity, that ask for a name, or whose
\* entity was renamed between their two reads.  So no /activate, /deactivate or PATCH of
\* anything else fails because others took the name its entity had.
\* (save(), the ORM's UPDATE, uq_entity_tenant_name)
OnlyRenamesRefused ==
    \A r \in Requests : Violates(r) =>
        \/ op[r] = "create"
        \/ entity[r].name # loaded[r].name
        \/ existing[r].name # loaded[r].name

\* Every request that opens a session closes it: two renames that swap names, or a
\* rename and the insertion of a child that takes the new name, do not wait for ever,
\* and the climb to the root ends.  (save(), get_hierarchy "while current_id")
RequestsEnd == \A r \in Requests : pc[r] \in Working ~> pc[r] = "ended"

\* In a deadlock there are only sessions that create an entity, mean to rename one, or
\* found it changed when saving, and not creates alone.  So a PATCH of anything else, an
\* /activate or a /deactivate of an entity that stands still is never ended for one.
\* (save(), uq_entity_tenant_name, parent_entity_id)
OnlyRenamesDeadlock ==
    \A S \in SUBSET Open : S # {} /\ Circle(S) =>
        /\ \A q \in S : \/ op[q] = "create"
                        \/ entity[q].name # loaded[q].name
                        \/ existing[q] # loaded[q]
        /\ \E q \in S : op[q] # "create"

\* What the clients of the stored entities are promised: one at a time is created,
\* renamed or moved, under a free name, a known parent and without a circle.
Directory == INSTANCE EntityDirectory WITH
    name <- [e \in Ids |-> db[e].name], parent <- [e \in Ids |-> db[e].parent]

DirectoryKept == Directory!Spec

\* What the API says of a PATCH: the parent is a field that it updates, is_active is none.
\* So a PATCH that asks to put an entity under another, which is at the root, puts it
\* there and leaves the rest of its row alone.
\* (docs/api/entities.md:150 and :183, UpdateEntityUseCase)
PatchMovesOnly ==
    [][\A r \in Requests :
          LET e == target[r]
              p == entity[r].parent
          IN  /\ Commit(r) /\ op[r] = "update" /\ p # loaded[r].parent
              /\ p \in Stored \ {e}
              /\ db[p].parent = None
              => db'[e] = [db[e] EXCEPT !.parent = p]]_vars
=============================================================================
