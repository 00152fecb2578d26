--------------------------- MODULE EntityDirectory ---------------------------
(***************************************************************************)
(* What the API promises the readers of a tenant's entities, without       *)
(* sessions: an entity appears whole, under a name that is free and a      *)
(* parent that is there; it is renamed to a free name; it is moved under   *)
(* another entity, unless that closed a circle; and it is never taken      *)
(* away.                                                                   *)
(* (docs/api/entities.md, docs/architecture/domain-model.md; the use cases)*)
(***************************************************************************)
CONSTANTS Ids, Names, Seeds, SeedName, None

VARIABLES
    name,   \* name[e]: the name of entity e, None as long as there is no such entity
    parent  \* parent[e]: the entity above e, or None

vars == <<name, parent>>

Known == {e \in Ids : name[e] # None}

Init ==
    /\ name = [e \in Ids |-> IF e \in Seeds THEN SeedName[e] ELSE None]
    /\ parent = [e \in Ids |-> None]

\* No other entity has the name.
Free(n, e) == \A f \in Known \ {e} : name[f] # n

Create(e, n, p) ==
    /\ e \notin Known
    /\ p \in Known \cup {None}
    /\ Free(n, e)
    /\ name' = [name EXCEPT ![e] = n]
    /\ parent' = [parent EXCEPT ![e] = p]

Rename(e, n) ==
    /\ e \in Known
    /\ Free(n, e)
    /\ name' = [name EXCEPT ![e] = n]
    /\ UNCHANGED parent

\* Afterwards every set of entities still has one whose parent is outside the set.
Move(e, p) ==
    /\ e \in Known
    /\ p \in Known
    /\ parent' = [parent EXCEPT ![e] = p]
    /\ \A S \in SUBSET Known : S # {} => \E f \in S : parent'[f] \notin S
    /\ UNCHANGED name

Next ==
    \E e \in Ids :
        \/ \E n \in Names, p \in Ids \cup {None} : Create(e, n, p)
        \/ \E n \in Names : Rename(e, n)
        \/ \E p \in Ids : Move(e, p)

Spec == Init /\ [][Next]_vars
=============================================================================
