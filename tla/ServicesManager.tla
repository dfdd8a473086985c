--------------------------- MODULE ServicesManager ---------------------------
(***************************************************************************)
(* The registered services of NCAS: DefaultServicesManagerImpl keeps a     *)
(* dictionary of them in memory, InMemoryServiceRegistryDaoImpl the list   *)
(* they are loaded from, and the managed operations of                     *)
(* AbstractServicesManagerMBean register, enable, disable, remove and      *)
(* reload them on any thread.                                              *)
(*                                                                         *)
(* A registered service is an object: findServiceBy(id) hands out a clone, *)
(* which has the id and flags of the original but is another element of    *)
(* no list, since List.Remove compares references.                         *)
(***************************************************************************)
EXTENDS Integers, FiniteSets, SequencesExt

CONSTANTS
    Threads,
    Configured,  \* how many services the list is configured with
    MaxObjects,  \* bound: RegisteredService objects ever created
    None

ASSUME ServicesAssumption ==
    /\ MaxObjects \in Nat /\ Configured \in 0..MaxObjects
    /\ None \notin 1..MaxObjects

Ref == 1..MaxObjects

\* An id is one more than the highest in the list, and no list is longer than MaxObjects.
ServiceId == 1..MaxObjects

NoId == -1

RegisteredService == [id : ServiceId \cup {NoId}, enabled : BOOLEAN]

Call == [at : {"idle", "save_id", "save_add", "save_register", "delete", "load"},
         service : Ref \cup {None}, list : Seq(Ref), modified : BOOLEAN]

VARIABLES
    objects,            \* the RegisteredService objects, in the order of creation
    registeredServices, \* the list of the DAO: references to objects
    services,           \* the manager's dictionary: id to reference, or None
    call,               \* the call each thread is in, with its locals
    new,                \* history: objects that were registered without an id
    saved,              \* history: objects whose save returned
    removed,            \* history: ids whose delete returned
    missed,             \* history: ids that the load assigned last had read the list too early for
    twoSaves            \* history: two saves were in the list at once

vars == <<objects, registeredServices, services, call, new, saved, removed, missed, twoSaves>>

Element(list) == {list[i] : i \in DOMAIN list}

IdIn(heap, list) == {heap[r].id : r \in Element(list)}

Idle == [at |-> "idle", service |-> None, list |-> <<>>, modified |-> FALSE]

\* The first object of the list with an id: the one that load's TryAdd keeps.
FirstWith(id, heap, list) ==
    LET At == {i \in DOMAIN list : heap[list[i]].id = id}
    IN IF At = {} THEN None ELSE list[CHOOSE i \in At : \A j \in At : i <= j]

\* Mutant: entries are keyed by their position.
Loaded_ByPosition(list) == [id \in ServiceId |-> IF id \in DOMAIN list THEN list[id] ELSE None]

Loaded(list) == [id \in ServiceId |-> FirstWith(id, objects, list)]

\* The configured services have ids already; the constructor loads them.
Init ==
    /\ objects = [r \in 1..Configured |-> [id |-> r, enabled |-> TRUE]]
    /\ registeredServices = [i \in 1..Configured |-> i]
    /\ services = [id \in ServiceId |-> IF id <= Configured THEN id ELSE None]
    /\ call = [t \in Threads |-> Idle]
    /\ new = {}
    /\ saved = 1..Configured
    /\ removed = {}
    /\ missed = {}
    /\ twoSaves = FALSE

\* Thread t creates an object and begins a call on it.
Begin(t, at, object) ==
    /\ call[t] = Idle
    /\ Len(objects) < MaxObjects
    /\ objects' = Append(objects, object)
    /\ call' = [call EXCEPT ![t] = [Idle EXCEPT !.at = at, !.service = Len(objects) + 1]]
    /\ UNCHANGED <<registeredServices, services, saved, removed, missed, twoSaves>>

\* The calls of the other threads once the list has a new version.
Modified(calls) ==
    [t \in Threads |-> IF calls[t].at = "load" THEN [calls[t] EXCEPT !.modified = TRUE] ELSE calls[t]]

-----------------------------------------------------------------------------
(* save                                                                    *)

Save(t, enabled) ==
    /\ Begin(t, "save_id", [id |-> NoId, enabled |-> enabled])
    /\ new' = new \cup {Len(objects) + 1}

\* changeEnabledState saves a clone with the new flag; an unknown id is a null reference.
ChangeEnabledState(t, id, newState) ==
    /\ services[id] # None
    /\ Begin(t, "save_add", [id |-> id, enabled |-> newState])
    /\ UNCHANGED new

Highest(S) == IF S = {} THEN 0 ELSE CHOOSE x \in S : \A y \in S : y <= x

\* Mutant: the highest id in memory.
FindHighestId_InMemory == Highest({id \in ServiceId : services[id] # None})

FindHighestId == Highest(IdIn(objects, registeredServices))

SaveAssignsId(t) ==
    /\ call[t].at = "save_id"
    /\ objects' = [objects EXCEPT ![call[t].service].id = FindHighestId + 1]
    /\ call' = [call EXCEPT ![t].at = "save_add"]
    /\ UNCHANGED <<registeredServices, services, new, saved, removed, missed, twoSaves>>

\* The list was modified while findHighestId enumerated it.
SaveThrows(t) ==
    /\ call[t].at = "save_id"
    /\ \E u \in Threads : call[u].at = "save_add"
    /\ call' = [call EXCEPT ![t] = Idle]
    /\ UNCHANGED <<objects, registeredServices, services, new, saved, removed, missed, twoSaves>>

\* List.Remove: the first reference, if there is one.
Without(list, r) == IF r \in Element(list) THEN RemoveFirst(list, r) ELSE list

\* Mutant: the service is not added to the list.
ListAdd_Nothing(list, r) == list

ListAdd(list, r) == Append(list, r)

\* Remove and Add of the list.  A List is not safe for threads: when two add, one may write
\* its element where the other writes too.
SaveAdds(t) ==
    LET r == call[t].service
        other == \E u \in Threads \ {t} : call[u].at = "save_add"
    IN  /\ call[t].at = "save_add"
        /\ \/ registeredServices' = ListAdd(Without(registeredServices, r), r)
           \/ other /\ UNCHANGED registeredServices
        /\ twoSaves' = (twoSaves \/ other)
        /\ call' = [Modified(call) EXCEPT ![t].at = "save_register"]
        /\ UNCHANGED <<objects, services, new, saved, removed, missed>>

\* TryAdd keeps the entry that an id has.
TryAdd(entry, r) == IF entry = None THEN r ELSE entry

SaveRegisters(t) ==
    LET r == call[t].service
        id == objects[r].id
    IN  /\ call[t].at = "save_register"
        /\ services' = [services EXCEPT ![id] = TryAdd(services[id], r)]
        /\ saved' = saved \cup {r}
        /\ call' = [call EXCEPT ![t] = Idle]
        /\ UNCHANGED <<objects, registeredServices, new, removed, missed, twoSaves>>

-----------------------------------------------------------------------------
(* delete                                                                  *)

\* delete finds a clone of the service; without one it returns null.
Delete(t, id) ==
    /\ services[id] # None
    /\ Begin(t, "delete", [id |-> id, enabled |-> objects[services[id]].enabled])
    /\ UNCHANGED new

\* No list holds the clone.
DaoDelete(r) == Without(registeredServices, r)

DeleteRemoves(t) ==
    LET r == call[t].service
        id == objects[r].id
    IN  /\ call[t].at = "delete"
        /\ registeredServices' = DaoDelete(r)
        /\ services' = [services EXCEPT ![id] = None]
        /\ removed' = removed \cup {id}
        /\ call' = [call EXCEPT ![t] = Idle]
        /\ UNCHANGED <<objects, new, saved, missed, twoSaves>>

-----------------------------------------------------------------------------
(* reload                                                                  *)

LoadBegins(t) ==
    /\ call[t] = Idle
    /\ call' = [call EXCEPT ![t] = [Idle EXCEPT !.at = "load", !.list = registeredServices]]
    /\ UNCHANGED <<objects, registeredServices, services, new, saved, removed, missed, twoSaves>>

\* The list was modified while it was enumerated.
LoadThrows(t) ==
    /\ call[t].at = "load" /\ call[t].modified
    /\ call' = [call EXCEPT ![t] = Idle]
    /\ UNCHANGED <<objects, registeredServices, services, new, saved, removed, missed, twoSaves>>

\* The enumeration was over before the list was modified, if it was.
LoadAssigns(t) ==
    /\ call[t].at = "load"
    /\ services' = Loaded(call[t].list)
    /\ missed' = {objects[r].id : r \in Element(registeredServices) \ Element(call[t].list)}
    /\ call' = [call EXCEPT ![t] = Idle]
    /\ UNCHANGED <<objects, registeredServices, new, saved, removed, twoSaves>>

-----------------------------------------------------------------------------
Next ==
    \E t \in Threads :
        \/ \E enabled \in BOOLEAN : Save(t, enabled)
        \/ \E id \in ServiceId : \E newState \in BOOLEAN : ChangeEnabledState(t, id, newState)
        \/ SaveAssignsId(t)
        \/ SaveThrows(t)
        \/ SaveAdds(t)
        \/ SaveRegisters(t)
        \/ \E id \in ServiceId : Delete(t, id)
        \/ DeleteRemoves(t)
        \/ LoadBegins(t)
        \/ LoadThrows(t)
        \/ LoadAssigns(t)

Spec == Init /\ [][Next]_vars

-----------------------------------------------------------------------------
TypeOK ==
    /\ objects \in Seq(RegisteredService) /\ Len(objects) <= MaxObjects
    /\ registeredServices \in Seq(DOMAIN objects)
    /\ services \in [ServiceId -> (DOMAIN objects) \cup {None}]
    /\ \A id \in ServiceId : services[id] # None => objects[services[id]].id = id
    /\ call \in [Threads -> Call]
    /\ \A t \in Threads : call[t].at \notin {"idle", "load"} => call[t].service \in DOMAIN objects
    /\ new \subseteq DOMAIN objects /\ saved \subseteq DOMAIN objects
    /\ removed \subseteq ServiceId /\ missed \subseteq ServiceId
    /\ twoSaves \in BOOLEAN

\* Two services that were registered, or configured, have two ids, unless two saves
\* overlapped: ids of deleted services are not given out again.
IdsAreUnique ==
    ~twoSaves =>
        \A r, s \in (new \cup 1..Configured) \cap Element(registeredServices) :
            r # s => objects[r].id # objects[s].id

\* A reload takes no service away: whatever was saved, deleted and loaded in between, and
\* however many loads overlapped, what memory shows under an id the list has an object for;
\* unless two saves overlapped.
ReloadLosesNothing ==
    ~twoSaves =>
        \A id \in ServiceId : services[id] # None => id \in IdIn(objects, registeredServices)

\* Every service whose save returned is in memory under its id, so that the default service
\* that grants all access is only in force when all have been deleted; unless two saves
\* overlapped, or the load that was assigned last had read the list before the service was
\* added to it: the next load mends that.
StoredServicesAreFound ==
    ~twoSaves =>
        \A r \in saved : objects[r].id \in removed \cup missed \/ services[objects[r].id] # None

-----------------------------------------------------------------------------
(* The inductive invariants behind these properties                        *)

\* The objects that have an id.  Ids grow by one at a time, each for another object.
Given == {r \in DOMAIN objects : objects[r].id # NoId}

IdsInv == \A r \in Given : objects[r].id <= Cardinality(Given)

\* Whose object is whose: each call holds one of its own, and until it is added no list holds
\* it.  Only an object whose save has just begun has no id.  Configured services count as saved.
ObjectsInv ==
    /\ \A t, u \in Threads :
          (/\ call[t].at \notin {"idle", "load"} /\ call[u].at \notin {"idle", "load"}
           /\ call[t].service = call[u].service) => t = u
    /\ \A t \in Threads :
          /\ call[t].at = "save_id" <=> call[t].at \notin {"idle", "load"} /\ call[t].service \notin Given
          /\ call[t].at \in {"save_id", "save_add", "delete"} =>
                call[t].service \notin Element(registeredServices)
    /\ Element(registeredServices) \cup saved \subseteq Given
    /\ 1..Configured \subseteq saved

\* What a load enumerates is in the list, and is the list unless that was modified.
LoadInv ==
    \A t \in Threads : call[t].at = "load" =>
        /\ Element(call[t].list) \subseteq Element(registeredServices)
        /\ ~call[t].modified => call[t].list = registeredServices

\* While no two saves overlap, an id that was just given is higher than all in the list, and
\* what is about to be registered or was is in the list.
ListInv ==
    ~twoSaves =>
        /\ \A t \in Threads : call[t].at = "save_add" /\ call[t].service \in new =>
              \A r \in Element(registeredServices) : objects[r].id < objects[call[t].service].id
        /\ \A t \in Threads : call[t].at = "save_register" =>
              call[t].service \in Element(registeredServices)
        /\ saved \subseteq Element(registeredServices)

ServicesInv ==
    /\ TypeOK /\ IdsInv /\ ObjectsInv /\ LoadInv /\ ListInv
    /\ IdsAreUnique /\ ReloadLosesNothing /\ StoredServicesAreFound
=============================================================================
