--------------------------- MODULE HandleRegistry ---------------------------
(***************************************************************************)
(* HandleRegistry<T> (packages/catcher-core/src/handle_registry.rs): the   *)
(* table from the ids that the C interface hands out as handles to the     *)
(* objects behind them.  Every access takes the table's lock, so each      *)
(* operation is one step; an object that get has returned is kept alive by *)
(* its Arc whatever happens to the entry.                                  *)
(***************************************************************************)
EXTENDS Naturals

VARIABLES
    nextId,    \* next_id, never decreased
    registry   \* map: a function on the ids that have an entry

handleVars == <<nextId, registry>>

RegistryInit == nextId = 1 /\ registry = [id \in {} |-> 0]

\* The ids handed out so far.
Issued == 1..(nextId - 1)

\* get(id).is_some()
Has(id) == id \in DOMAIN registry

\* next_id(): an id without an entry.
TakeId == nextId' = nextId + 1

InsertWithId(id, object) ==
    registry' = [i \in DOMAIN registry \cup {id} |->
                    IF i = id THEN object ELSE registry[i]]

\* insert(object): the id is nextId.
Insert(object) == InsertWithId(nextId, object) /\ TakeId

\* remove(id), also of an id that has no entry.
RemoveId(id) == registry' = [i \in DOMAIN registry \ {id} |-> registry[i]]
=============================================================================
