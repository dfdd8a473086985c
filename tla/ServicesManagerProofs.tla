------------------------ MODULE ServicesManagerProofs ------------------------
(***************************************************************************)
(* Proofs about ServicesManager: the ids of the registered services, and   *)
(* how the dictionary of the manager follows the list of the DAO.          *)
(***************************************************************************)
EXTENDS ServicesManager, FiniteSetTheorems, NumberLemmas, TLAPS

\* FindHighestId: no id in the list is higher.
LEMMA HighestOf ==
    ASSUME NEW m \in Nat, NEW S \in SUBSET (1..m)
    PROVE  Highest(S) \in 0..m /\ (\A x \in S : x <= Highest(S)) /\ (S # {} => Highest(S) \in S)
<1>1. CASE S = {}
  BY <1>1 DEF Highest
<1>2. CASE S # {}
  <2>1. \E x \in S : \A y \in S : y <= x
    <3>1. S \in SUBSET (0..m)
      OBVIOUS
    <3>2. QED
      BY <1>2, <3>1, GreatestNumber
  <2>2. Highest(S) = CHOOSE x \in S : \A y \in S : y <= x
    BY <1>2 DEF Highest
  <2>3. Highest(S) \in S /\ \A y \in S : y <= Highest(S)
    BY <2>1, <2>2
  <2>4. Highest(S) \in 0..m
    <3>1. PICK x \in S : x = Highest(S)
      BY <2>3
    <3>2. QED
      BY <3>1
  <2>5. QED
    BY <2>3, <2>4
<1>3. QED
  BY <1>1, <1>2

\* load's TryAdd: an id is found exactly when an object of the list has it, at the first of them.
LEMMA FirstOf ==
    ASSUME NEW S, NEW list \in Seq(S), NEW heap, NEW id
    PROVE  /\ id \notin IdIn(heap, list) => FirstWith(id, heap, list) = None
           /\ id \in IdIn(heap, list) =>
                 \E i \in DOMAIN list :
                    /\ FirstWith(id, heap, list) = list[i] /\ heap[list[i]].id = id
                    /\ \A j \in DOMAIN list : heap[list[j]].id = id => i <= j
<1> DEFINE At == {i \in DOMAIN list : heap[list[i]].id = id}
<1>1. At = {} <=> id \notin IdIn(heap, list)
  BY DEF IdIn, Element
<1>2. CASE At = {}
  BY <1>1, <1>2 DEF FirstWith
<1>3. CASE At # {}
  <2>1. At \in SUBSET Nat
    OBVIOUS
  <2>2. \E i \in At : \A j \in At : i <= j
    BY <1>3, <2>1, LeastNumber
  <2>3. PICK i : i = CHOOSE k \in At : \A j \in At : k <= j
    OBVIOUS
  <2>4. i \in At /\ \A j \in At : i <= j
    BY <2>2, <2>3
  <2>5. FirstWith(id, heap, list) = list[i]
    BY <1>3, <2>3 DEF FirstWith
  <2>6. QED
    BY <1>1, <1>3, <2>4, <2>5 DEF Element
<1>4. QED
  BY <1>2, <1>3

\* The ids in a list depend on its own objects alone.
LEMMA SameIds ==
    ASSUME NEW list, NEW heap, NEW other, \A r \in Element(list) : other[r].id = heap[r].id
    PROVE  IdIn(other, list) = IdIn(heap, list)
BY DEF IdIn

\* An object is added behind the others of a list.
LEMMA AddsElement ==
    ASSUME NEW S, NEW list \in Seq(S), NEW r \in S, NEW longer, longer = ListAdd(list, r)
    PROVE  longer \in Seq(S) /\ Element(longer) = Element(list) \cup {r}
<1>1. /\ longer \in Seq(S) /\ DOMAIN longer = DOMAIN list \cup {Len(list) + 1}
      /\ longer[Len(list) + 1] = r
      /\ \A i \in DOMAIN list : longer[i] = list[i]
  BY DEF ListAdd
<1>2. QED
  BY <1>1 DEF Element

\* A list of objects goes on to be one while objects are created.
LEMMA ListStays ==
    ASSUME NEW S, NEW T, S \subseteq T, NEW list \in Seq(S)
    PROVE  list \in Seq(T)
OBVIOUS

\* An object is created: the others keep their place.
LEMMA AppendObject ==
    ASSUME NEW S, NEW heap \in Seq(S), NEW object \in S, NEW after, after = Append(heap, object)
    PROVE  /\ after \in Seq(S) /\ Len(after) = Len(heap) + 1 /\ Len(heap) \in Nat
           /\ Len(heap) + 1 \notin DOMAIN heap
           /\ DOMAIN after = DOMAIN heap \cup {Len(heap) + 1}
           /\ after[Len(heap) + 1] = object
           /\ \A r \in DOMAIN heap : after[r] = heap[r]
OBVIOUS

\* A thread that is in no call has no locals.
LEMMA IdleIsCall ==
    /\ Idle \in Call /\ Idle.at = "idle"
BY DEF Idle, Call

\* Thread t goes on as c; the others stay where they are.
LEMMA Moves ==
    ASSUME TypeOK, NEW t \in Threads, NEW c \in Call, call' = [call EXCEPT ![t] = c]
    PROVE  /\ call' \in [Threads -> Call] /\ call'[t] = c
           /\ \A u \in Threads \ {t} : call'[u] = call[u]
BY DEF TypeOK

\* How many objects have an id can be counted, and there are no more than objects.
LEMMA GivenCounts ==
    ASSUME TypeOK
    PROVE  /\ IsFiniteSet(Given) /\ Cardinality(Given) \in Nat
           /\ \A r : /\ IsFiniteSet(Given \cup {r})
                     /\ r \notin Given => Cardinality(Given \cup {r}) = Cardinality(Given) + 1
           /\ \A r \in DOMAIN objects \ Given : Cardinality(Given) + 1 <= Len(objects)
<1>1. /\ IsFiniteSet(1..Len(objects)) /\ Cardinality(1..Len(objects)) = Len(objects)
      /\ DOMAIN objects = 1..Len(objects) /\ Len(objects) \in Nat
  <2>1. PICK n \in Nat : n = Len(objects) /\ DOMAIN objects = 1..n
    <3>1. objects \in Seq(RegisteredService)
      BY DEF TypeOK
    <3>2. QED
      BY <3>1
  <2>2. IsFiniteSet(1..n) /\ Cardinality(1..n) = IF 1 > n THEN 0 ELSE n - 1 + 1
    BY FS_Interval
  <2>3. QED
    BY <2>1, <2>2
<1>2. Given \subseteq 1..Len(objects)
  BY <1>1 DEF Given
<1>3. IsFiniteSet(Given)
  BY <1>1, <1>2, FS_Subset
<1>4. Cardinality(Given) \in Nat
  BY <1>3, FS_CardinalityType
<1>5. ASSUME NEW r
      PROVE  /\ IsFiniteSet(Given \cup {r})
             /\ r \notin Given => Cardinality(Given \cup {r}) = Cardinality(Given) + 1
  BY <1>3, FS_AddElement
<1>6. ASSUME NEW r \in DOMAIN objects \ Given
      PROVE  Cardinality(Given) + 1 <= Len(objects)
  <2>1. Given \cup {r} \subseteq 1..Len(objects)
    BY <1>1, <1>2
  <2>2. Cardinality(Given \cup {r}) <= Cardinality(1..Len(objects))
    BY <1>1, <2>1, FS_Subset
  <2>3. QED
    BY <1>1, <1>4, <1>5, <2>2
<1>7. QED
  BY <1>3, <1>4, <1>5, <1>6

\* No id in the list is higher than what FindHighestId returns, and an object that has none yet
\* can be given the next.
LEMMA HighestInList ==
    ASSUME ServicesInv
    PROVE  /\ FindHighestId \in Nat
           /\ \A r \in Element(registeredServices) : objects[r].id \in Nat /\ objects[r].id <= FindHighestId
           /\ FindHighestId <= Cardinality(Given)
<1>1. \A r \in Element(registeredServices) :
         objects[r].id \in 1..MaxObjects /\ objects[r].id <= Cardinality(Given)
  <2>1. ASSUME NEW r \in Element(registeredServices)
        PROVE  objects[r].id \in 1..MaxObjects /\ objects[r].id <= Cardinality(Given)
    <3>1. r \in Given /\ r \in DOMAIN objects
      <4>1. Element(registeredServices) \subseteq Given /\ Given \subseteq DOMAIN objects
        BY DEF ServicesInv, ObjectsInv, Given
      <4>2. QED
        BY <4>1
    <3>2. objects[r] \in RegisteredService
      <4>1. objects \in Seq(RegisteredService)
        BY DEF ServicesInv, TypeOK
      <4>2. QED
        BY <3>1, <4>1
    <3>3. QED
      BY <3>1, <3>2 DEF ServicesInv, IdsInv, Given, RegisteredService, ServiceId
  <2>2. QED
    BY <2>1
<1>2. PICK ids : ids = IdIn(objects, registeredServices)
  OBVIOUS
<1>3. ids \in SUBSET (1..MaxObjects) /\ \A id \in ids : id <= Cardinality(Given)
  BY <1>1, <1>2 DEF IdIn
<1>4. Highest(ids) \in 0..MaxObjects /\ (\A x \in ids : x <= Highest(ids))
      /\ (ids # {} => Highest(ids) \in ids)
  BY <1>3, HighestOf, ServicesAssumption
<1>5. ids = {} => Highest(ids) = 0
  BY DEF Highest
<1>6. FindHighestId = Highest(ids)
  BY <1>2 DEF FindHighestId
<1>7. Highest(ids) <= Cardinality(Given)
  BY <1>3, <1>4, <1>5, GivenCounts DEF ServicesInv
<1>8. \A r \in Element(registeredServices) : objects[r].id \in ids
  BY <1>2 DEF IdIn
<1>9. QED
  BY <1>1, <1>4, <1>6, <1>7, <1>8

-----------------------------------------------------------------------------
(* A call begins                                                           *)

\* save, enable, disable and delete create an object: a new service without an id, or the clone
\* of one that is in memory.
LEMMA BeginKeeps ==
    ASSUME ServicesInv, NEW t \in Threads, NEW at \in {"save_id", "save_add", "delete"},
           NEW object \in RegisteredService, Begin(t, at, object),
           at = "save_id" <=> object.id = NoId,
           new' = IF at = "save_id" THEN new \cup {Len(objects) + 1} ELSE new,
           at # "save_id" => object.id \in ServiceId /\ services[object.id] # None
    PROVE  ServicesInv'
<1> USE DEF ServicesInv
<1>1. PICK n : n = Len(objects) + 1
  OBVIOUS
<1>2. /\ objects' \in Seq(RegisteredService) /\ Len(objects') <= MaxObjects /\ n \in Ref
      /\ n \notin DOMAIN objects /\ DOMAIN objects' = DOMAIN objects \cup {n}
      /\ objects'[n] = object /\ \A r \in DOMAIN objects : objects'[r] = objects[r]
  <2>1. /\ objects \in Seq(RegisteredService) /\ Len(objects) < MaxObjects
        /\ objects' = Append(objects, object)
    BY DEF Begin, TypeOK
  <2>2. /\ objects' \in Seq(RegisteredService) /\ Len(objects') = n /\ Len(objects) \in Nat
        /\ n \notin DOMAIN objects /\ DOMAIN objects' = DOMAIN objects \cup {n}
        /\ objects'[n] = object /\ \A r \in DOMAIN objects : objects'[r] = objects[r]
    BY <1>1, <2>1, AppendObject
  <2>3. QED
    BY <1>1, <2>1, <2>2, ServicesAssumption DEF Ref
<1>3. PICK c \in Call : c = [Idle EXCEPT !.at = at, !.service = n]
  BY <1>2, IdleIsCall DEF Call
<1>4. c.at = at /\ c.service = n
  BY <1>3, IdleIsCall DEF Call
<1>5. /\ call[t] = Idle /\ call' = [call EXCEPT ![t] = c]
      /\ UNCHANGED <<registeredServices, services, saved, removed, missed, twoSaves>>
  BY <1>1, <1>3 DEF Begin
<1>6. /\ call' \in [Threads -> Call] /\ call'[t] = c
      /\ \A u \in Threads \ {t} : call'[u] = call[u]
  BY <1>5, Moves
<1>7. Element(registeredServices) \subseteq Given /\ Given \subseteq DOMAIN objects
      /\ n \notin Element(registeredServices) /\ saved \subseteq Given /\ new \subseteq DOMAIN objects
  BY <1>2 DEF ObjectsInv, Given, TypeOK
<1>8. Given' = IF at = "save_id" THEN Given ELSE Given \cup {n}
  BY <1>2 DEF Given
<1>9. \A u \in Threads \ {t} :
         call[u].at \notin {"idle", "load"} => call[u].service \in DOMAIN objects
  BY DEF TypeOK
<1>10. TypeOK'
  <2>1. registeredServices' \in Seq(DOMAIN objects')
    BY <1>2, <1>5, ListStays DEF TypeOK
  <2>2. services' \in [ServiceId -> DOMAIN objects' \cup {None}]
    BY <1>2, <1>5 DEF TypeOK
  <2>3. \A id \in ServiceId : services'[id] # None => objects'[services'[id]].id = id
    BY <1>2, <1>5 DEF TypeOK
  <2>4. \A u \in Threads : call'[u].at \notin {"idle", "load"} => call'[u].service \in DOMAIN objects'
    BY <1>2, <1>4, <1>6, <1>9
  <2>5. new' \subseteq DOMAIN objects' /\ saved' \subseteq DOMAIN objects'
    BY <1>1, <1>2, <1>5, <1>7
  <2>6. QED
    BY <1>2, <1>5, <1>6, <2>1, <2>2, <2>3, <2>4, <2>5 DEF TypeOK
<1>11. at # "save_id" => /\ object.id \in ServiceId /\ services[object.id] \in DOMAIN objects
                         /\ objects[services[object.id]].id = object.id
  BY DEF TypeOK
<1>12. IdsInv'
  <2>1. CASE at = "save_id"
    BY <1>2, <1>7, <1>8, <2>1 DEF IdsInv
  <2>2. CASE at # "save_id"
    <3>1. Cardinality(Given') = Cardinality(Given) + 1 /\ Cardinality(Given) \in Nat
      BY <1>2, <1>7, <1>8, <2>2, GivenCounts
    <3>2. services[object.id] \in Given /\ object.id <= Cardinality(Given)
      <4>1. object.id # NoId
        BY <1>11, <2>2, ServicesAssumption DEF ServiceId, NoId
      <4>2. services[object.id] \in Given
        BY <1>11, <2>2, <4>1 DEF Given
      <4>3. QED
        BY <1>11, <2>2, <4>2 DEF IdsInv
    <3>3. \A r \in Given : objects[r].id \in Int /\ objects[r].id <= Cardinality(Given)
      <4>1. objects \in Seq(RegisteredService)
        BY DEF TypeOK
      <4>2. \A service \in RegisteredService : service.id \in Int
        BY ServicesAssumption DEF RegisteredService, ServiceId, NoId
      <4>3. QED
        BY <4>1, <4>2 DEF IdsInv, Given
    <3>4. object.id \in Int
      BY <1>11, <2>2 DEF ServiceId
    <3>5. QED
      BY <1>2, <1>7, <1>8, <2>2, <3>1, <3>2, <3>3, <3>4 DEF IdsInv
  <2>3. QED
    BY <2>1, <2>2
<1>13. ObjectsInv'
  <2>1. ASSUME NEW u \in Threads, NEW v \in Threads,
               call'[u].at \notin {"idle", "load"}, call'[v].at \notin {"idle", "load"},
               call'[u].service = call'[v].service
        PROVE  u = v
    <3>1. CASE u = t \/ v = t
      BY <1>2, <1>4, <1>6, <1>9, <2>1, <3>1
    <3>2. CASE u # t /\ v # t
      BY <1>6, <2>1, <3>2 DEF ObjectsInv
    <3>3. QED
      BY <3>1, <3>2
  <2>2. ASSUME NEW u \in Threads
        PROVE  /\ call'[u].at = "save_id" <=>
                     call'[u].at \notin {"idle", "load"} /\ call'[u].service \notin Given'
               /\ call'[u].at \in {"save_id", "save_add", "delete"} =>
                     call'[u].service \notin Element(registeredServices')
    <3>1. CASE u = t
      BY <1>2, <1>4, <1>5, <1>6, <1>7, <1>8, <3>1
    <3>2. CASE u # t
      BY <1>2, <1>5, <1>6, <1>8, <1>9, <3>2 DEF ObjectsInv
    <3>3. QED
      BY <3>1, <3>2
  <2>3. QED
    BY <1>5, <1>7, <1>8, <2>1, <2>2 DEF ObjectsInv
<1>14. LoadInv'
  BY <1>4, <1>5, <1>6 DEF LoadInv
<1>15. IdIn(objects', registeredServices) = IdIn(objects, registeredServices)
  <2>1. \A r \in Element(registeredServices) : objects'[r].id = objects[r].id
    BY <1>2, <1>7
  <2>2. QED
    BY <2>1, SameIds
<1>16. \A u \in Threads \ {t} : call'[u].at \notin {"idle", "load"} =>
          /\ objects'[call'[u].service] = objects[call[u].service]
          /\ call'[u] = call[u] /\ (call'[u].service \in new' <=> call[u].service \in new)
  BY <1>1, <1>2, <1>6, <1>9
<1>17. ListInv'
  <2> SUFFICES ASSUME ~twoSaves
               PROVE  ListInv'
    BY <1>5 DEF ListInv
  <2>1. ASSUME NEW u \in Threads, call'[u].at = "save_add", call'[u].service \in new',
               NEW r \in Element(registeredServices)
        PROVE  objects'[r].id < objects'[call'[u].service].id
    <3>1. u # t
      BY <1>2, <1>4, <1>6, <1>7, <2>1
    <3>2. QED
      BY <1>2, <1>7, <1>16, <2>1, <3>1 DEF ListInv
  <2>2. \A u \in Threads : call'[u].at = "save_register" =>
           call'[u].service \in Element(registeredServices)
    BY <1>4, <1>6 DEF ListInv
  <2>3. QED
    BY <1>5, <2>1, <2>2 DEF ListInv
<1>18. ReloadLosesNothing'
  BY <1>5, <1>15 DEF ReloadLosesNothing
<1>19. IdsAreUnique'
  <2>1. \A r \in Element(registeredServices) :
           objects'[r].id = objects[r].id /\ (r \in new' <=> r \in new)
    BY <1>1, <1>2, <1>7
  <2>2. ASSUME ~twoSaves, NEW r \in Element(registeredServices),
               NEW s \in Element(registeredServices), r # s,
               r \in new' \cup 1..Configured, s \in new' \cup 1..Configured
        PROVE  objects'[r].id # objects'[s].id
    BY <2>1, <2>2 DEF IdsAreUnique
  <2>3. QED
    BY <1>5, <2>2 DEF IdsAreUnique
<1>20. StoredServicesAreFound'
  BY <1>2, <1>5, <1>7 DEF StoredServicesAreFound
<1>21. QED
  BY <1>10, <1>12, <1>13, <1>14, <1>17, <1>18, <1>19, <1>20

\* Where the objects are, and which of them have an id.
LEMMA WhereObjectsAre ==
    ASSUME ServicesInv
    PROVE  /\ objects \in Seq(RegisteredService) /\ registeredServices \in Seq(DOMAIN objects)
           /\ Element(registeredServices) \subseteq Given /\ saved \subseteq Given
           /\ Given \subseteq DOMAIN objects
           /\ \A r \in DOMAIN objects : /\ objects[r] \in RegisteredService /\ r # None
                                        /\ r \notin Given => objects[r].id = NoId
           /\ \A r \in Given : objects[r].id \in ServiceId
           /\ \A u \in Threads : call[u].at \notin {"idle", "load"} => call[u].service \in DOMAIN objects
           /\ \A u \in Threads : call[u].at \in {"save_add", "save_register", "delete"} =>
                 call[u].service \in Given
<1>1. /\ objects \in Seq(RegisteredService) /\ registeredServices \in Seq(DOMAIN objects)
      /\ Len(objects) <= MaxObjects
      /\ \A u \in Threads : call[u].at \notin {"idle", "load"} => call[u].service \in DOMAIN objects
  BY DEF ServicesInv, TypeOK
<1>2. /\ Element(registeredServices) \subseteq Given /\ saved \subseteq Given
      /\ \A u \in Threads : call[u].at = "save_id" <=>
            call[u].at \notin {"idle", "load"} /\ call[u].service \notin Given
  BY DEF ServicesInv, ObjectsInv
<1>3. Given \subseteq DOMAIN objects /\ \A r \in DOMAIN objects : r \notin Given <=> objects[r].id = NoId
  BY DEF Given
<1>4. \A r \in DOMAIN objects : objects[r] \in RegisteredService
  BY <1>1
<1>5. \A r \in DOMAIN objects : r # None
  BY <1>1, ServicesAssumption
<1>6. \A service \in RegisteredService : service.id # NoId => service.id \in ServiceId
  BY DEF RegisteredService
<1>7. \A r \in Given : objects[r].id \in ServiceId
  BY <1>3, <1>4, <1>6
<1>8. \A u \in Threads : call[u].at \in {"save_add", "save_register", "delete"} =>
         call[u].service \in Given
  BY <1>2
<1>9. QED
  BY <1>1, <1>2, <1>3, <1>4, <1>5, <1>7, <1>8

-----------------------------------------------------------------------------
(* save                                                                    *)

\* Ids stay unique in a step that touches neither the objects nor the list of the DAO.
LEMMA IdsStay ==
    ASSUME IdsAreUnique, UNCHANGED <<objects, registeredServices, new>>,
           twoSaves => twoSaves'
    PROVE  IdsAreUnique'
<1>1. objects' = objects /\ registeredServices' = registeredServices /\ new' = new
  OBVIOUS
<1>2. CASE twoSaves'
  BY <1>2 DEF IdsAreUnique
<1>3. CASE ~twoSaves'
  <2>1. \A r, s \in (new \cup 1..Configured) \cap Element(registeredServices) :
           r # s => objects[r].id # objects[s].id
    BY <1>3, Zenon DEF IdsAreUnique
  <2>2. \A r, s \in (new' \cup 1..Configured) \cap Element(registeredServices') :
           r # s => objects'[r].id # objects'[s].id
    BY <1>1, <2>1, Zenon
  <2>3. QED
    BY <2>2, Zenon DEF IdsAreUnique
<1>4. QED
  BY <1>2, <1>3

\* The id is above every id in the list, and so above every id that was deleted.
LEMMA SaveAssignsIdKeeps ==
    ASSUME ServicesInv, NEW t \in Threads, SaveAssignsId(t)
    PROVE  ServicesInv'
<1> USE DEF ServicesInv
<1>1. /\ objects \in Seq(RegisteredService) /\ registeredServices \in Seq(DOMAIN objects)
      /\ Element(registeredServices) \subseteq Given /\ saved \subseteq Given
      /\ Given \subseteq DOMAIN objects
      /\ \A s \in DOMAIN objects : /\ objects[s] \in RegisteredService /\ s # None
                                   /\ s \notin Given => objects[s].id = NoId
      /\ \A s \in Given : objects[s].id \in ServiceId
      /\ \A u \in Threads : call[u].at \notin {"idle", "load"} => call[u].service \in DOMAIN objects
  BY WhereObjectsAre
<1>2. PICK r \in DOMAIN objects : r = call[t].service
  BY <1>1 DEF SaveAssignsId
<1>3. r \notin Given /\ r \notin Element(registeredServices) /\ objects[r].id = NoId
  BY <1>1, <1>2 DEF SaveAssignsId, ObjectsInv
<1>4. PICK id : id = FindHighestId + 1
  OBVIOUS
<1>5. /\ id \in ServiceId /\ id # NoId /\ id \in Int /\ id <= Cardinality(Given) + 1
      /\ \A s \in Element(registeredServices) : objects[s].id \in Nat /\ objects[s].id < id
  <2>1. /\ FindHighestId \in Nat /\ FindHighestId <= Cardinality(Given)
        /\ \A s \in Element(registeredServices) : objects[s].id \in Nat /\ objects[s].id <= FindHighestId
    BY HighestInList
  <2>2. Cardinality(Given) \in Nat /\ Cardinality(Given) + 1 <= Len(objects)
    BY <1>2, <1>3, GivenCounts
  <2>3. Len(objects) \in Nat
    BY <1>1
  <2>4. Len(objects) <= MaxObjects
    BY DEF TypeOK
  <2>5. QED
    BY <1>4, <2>1, <2>2, <2>3, <2>4, ServicesAssumption DEF ServiceId, NoId
<1>6. PICK object \in RegisteredService : object = [objects[r] EXCEPT !.id = id]
  BY <1>1, <1>5 DEF RegisteredService
<1>7. object.id = id
  BY <1>1, <1>6 DEF RegisteredService
<1>8. objects' = [objects EXCEPT ![r] = object]
  BY <1>2, <1>4, <1>6 DEF SaveAssignsId
<1>9. /\ objects' \in Seq(RegisteredService) /\ Len(objects') = Len(objects)
      /\ DOMAIN objects' = DOMAIN objects /\ objects'[r] = object
      /\ \A s \in DOMAIN objects \ {r} : objects'[s] = objects[s]
  BY <1>1, <1>8
<1>10. Given' = Given \cup {r}
  BY <1>5, <1>7, <1>9 DEF Given
<1>11. PICK c \in Call : c = [call[t] EXCEPT !.at = "save_add"]
  <2>1. call[t] \in Call
    BY DEF TypeOK
  <2>2. [call[t] EXCEPT !.at = "save_add"] \in Call
    BY <2>1 DEF Call
  <2>3. QED
    BY <2>2
<1>12. c.at = "save_add" /\ c.service = r
  <2>1. call[t] \in Call
    BY DEF TypeOK
  <2>2. c.at = "save_add" /\ c.service = call[t].service
    BY <1>11, <2>1 DEF Call
  <2>3. QED
    BY <1>2, <2>2
<1>13. /\ call' = [call EXCEPT ![t] = c]
       /\ UNCHANGED <<registeredServices, services, new, saved, removed, missed, twoSaves>>
  BY <1>11 DEF SaveAssignsId
<1>14. /\ call' \in [Threads -> Call] /\ call'[t] = c
       /\ \A u \in Threads \ {t} : call'[u] = call[u]
  BY <1>13, Moves
<1>15. \A u \in Threads \ {t} : call[u].at \notin {"idle", "load"} =>
          call[u].service # r /\ call[u].service \in DOMAIN objects
  BY <1>1, <1>2 DEF SaveAssignsId, ObjectsInv
<1>16. \A u \in Threads \ {t} : call'[u].at \notin {"idle", "load"} =>
          objects'[call'[u].service] = objects[call[u].service] /\ call'[u] = call[u]
  BY <1>9, <1>14, <1>15
<1>17. \A s \in Element(registeredServices) : objects'[s].id = objects[s].id
  BY <1>1, <1>3, <1>9
<1>18. IdIn(objects', registeredServices) = IdIn(objects, registeredServices)
  BY <1>17, SameIds
<1>19. TypeOK'
  <2>1. \A i \in ServiceId : services[i] # None =>
           services[i] \in DOMAIN objects /\ objects[services[i]].id = i /\ i # NoId
    <3>1. \A i \in ServiceId : services[i] # None =>
             services[i] \in DOMAIN objects /\ objects[services[i]].id = i
      BY DEF TypeOK
    <3>2. \A i \in ServiceId : i # NoId
      BY ServicesAssumption DEF ServiceId, NoId
    <3>3. QED
      BY <3>1, <3>2
  <2>2. \A i \in ServiceId : services'[i] # None => objects'[services'[i]].id = i
    BY <1>3, <1>9, <1>13, <2>1
  <2>3. \A u \in Threads : call'[u].at \notin {"idle", "load"} => call'[u].service \in DOMAIN objects'
    BY <1>1, <1>9, <1>12, <1>14
  <2>4. QED
    BY <1>9, <1>13, <1>14, <2>2, <2>3 DEF TypeOK
<1>20. IdsInv'
  <2>1. Cardinality(Given') = Cardinality(Given) + 1 /\ Cardinality(Given) \in Nat
    BY <1>3, <1>10, GivenCounts
  <2>2. \A s \in Given : objects[s].id \in Int /\ objects[s].id <= Cardinality(Given)
    BY <1>1, ServicesAssumption DEF IdsInv, ServiceId
  <2>3. ASSUME NEW s \in Given'
        PROVE  objects'[s].id <= Cardinality(Given')
    <3>1. CASE s = r
      BY <1>5, <1>7, <1>9, <2>1, <3>1
    <3>2. CASE s # r
      BY <1>1, <1>9, <1>10, <2>1, <2>2, <3>2
    <3>3. QED
      BY <3>1, <3>2
  <2>4. QED
    BY <2>3 DEF IdsInv
<1>21. ObjectsInv'
  <2>1. \A u \in Threads :
          /\ call'[u].service = call[u].service
          /\ call'[u].at \notin {"idle", "load"} <=> call[u].at \notin {"idle", "load"}
    BY <1>2, <1>12, <1>14 DEF SaveAssignsId
  <2>2. ASSUME NEW u \in Threads
        PROVE  /\ call'[u].at = "save_id" <=>
                     call'[u].at \notin {"idle", "load"} /\ call'[u].service \notin Given'
               /\ call'[u].at \in {"save_id", "save_add", "delete"} =>
                     call'[u].service \notin Element(registeredServices')
    <3>1. CASE u = t
      BY <1>3, <1>10, <1>12, <1>13, <1>14, <3>1
    <3>2. CASE u # t
      BY <1>10, <1>13, <1>14, <1>15, <3>2 DEF ObjectsInv
    <3>3. QED
      BY <3>1, <3>2
  <2>3. /\ Element(registeredServices') \cup saved' \subseteq Given'
        /\ 1..Configured \subseteq saved'
    BY <1>1, <1>10, <1>13 DEF ObjectsInv
  <2>4. \A u, v \in Threads :
           (/\ call'[u].at \notin {"idle", "load"} /\ call'[v].at \notin {"idle", "load"}
            /\ call'[u].service = call'[v].service) => u = v
    BY <2>1 DEF ObjectsInv
  <2>5. QED
    BY <2>2, <2>3, <2>4 DEF ObjectsInv
<1>22. LoadInv'
  BY <1>12, <1>13, <1>14 DEF LoadInv
<1>23. ListInv'
  <2> SUFFICES ASSUME ~twoSaves
               PROVE  ListInv'
    BY <1>13 DEF ListInv
  <2>1. ASSUME NEW u \in Threads, call'[u].at = "save_add", call'[u].service \in new',
               NEW s \in Element(registeredServices)
        PROVE  objects'[s].id < objects'[call'[u].service].id
    <3>1. CASE u = t
      BY <1>5, <1>7, <1>9, <1>12, <1>14, <1>17, <3>1
    <3>2. CASE u # t
      BY <1>13, <1>16, <1>17, <2>1, <3>2 DEF ListInv
    <3>3. QED
      BY <3>1, <3>2
  <2>2. \A u \in Threads : call'[u].at = "save_register" =>
           call'[u].service \in Element(registeredServices)
    BY <1>12, <1>14 DEF ListInv
  <2>3. QED
    BY <1>13, <2>1, <2>2 DEF ListInv
<1>24. ReloadLosesNothing'
  BY <1>13, <1>18 DEF ReloadLosesNothing
<1>25. IdsAreUnique'
  <2>1. ASSUME ~twoSaves, NEW s \in Element(registeredServices),
               NEW q \in Element(registeredServices), s # q,
               s \in new \cup 1..Configured, q \in new \cup 1..Configured
        PROVE  objects'[s].id # objects'[q].id
    BY <1>17, <2>1 DEF IdsAreUnique
  <2>2. QED
    BY <1>13, <2>1 DEF IdsAreUnique
<1>26. StoredServicesAreFound'
  BY <1>1, <1>3, <1>9, <1>13 DEF StoredServicesAreFound
<1>27. QED
  BY <1>19, <1>20, <1>21, <1>22, <1>23, <1>24, <1>25, <1>26

\* A change of the list lets the loads that enumerate it fail, and leaves the calls as they were.
LEMMA ModifiedCalls ==
    ASSUME TypeOK, NEW calls, calls = Modified(call)
    PROVE  /\ calls \in [Threads -> Call]
           /\ \A u \in Threads :
                 /\ calls[u].at = call[u].at /\ calls[u].service = call[u].service
                 /\ calls[u].list = call[u].list
                 /\ call[u].at = "load" => calls[u].modified
                 /\ call[u].at # "load" => calls[u] = call[u]
<1>1. ASSUME NEW c \in Call, NEW d, d = IF c.at = "load" THEN [c EXCEPT !.modified = TRUE] ELSE c
      PROVE  /\ d \in Call /\ d.at = c.at /\ d.service = c.service /\ d.list = c.list
             /\ c.at = "load" => d.modified
  BY <1>1 DEF Call
<1>2. \A u \in Threads : call[u] \in Call
  BY DEF TypeOK
<1>3. DOMAIN calls = Threads /\ calls = [u \in Threads |-> calls[u]]
  BY DEF Modified
<1>4. ASSUME NEW u \in Threads
      PROVE  calls[u] = IF call[u].at = "load" THEN [call[u] EXCEPT !.modified = TRUE] ELSE call[u]
  BY DEF Modified
<1>5. ASSUME NEW u \in Threads
      PROVE  /\ calls[u] \in Call
             /\ calls[u].at = call[u].at /\ calls[u].service = call[u].service
             /\ calls[u].list = call[u].list
             /\ call[u].at = "load" => calls[u].modified
             /\ call[u].at # "load" => calls[u] = call[u]
  <2>1. call[u] \in Call
    BY <1>2
  <2>2. QED
    BY <1>1, <1>4, <2>1
<1>6. QED
  BY <1>3, <1>5

\* The service goes to the end of the list, which did not hold it.
LEMMA SaveAddsKeeps ==
    ASSUME ServicesInv, NEW t \in Threads, SaveAdds(t)
    PROVE  ServicesInv'
<1> USE DEF ServicesInv
<1>1. /\ registeredServices \in Seq(DOMAIN objects)
      /\ Element(registeredServices) \subseteq Given /\ saved \subseteq Given
      /\ Given \subseteq DOMAIN objects
      /\ \A s \in DOMAIN objects : s # None
      /\ \A s \in Given : objects[s].id \in ServiceId
      /\ \A u \in Threads : call[u].at \notin {"idle", "load"} => call[u].service \in DOMAIN objects
      /\ \A u \in Threads : call[u].at \in {"save_add", "save_register", "delete"} =>
            call[u].service \in Given
  BY WhereObjectsAre
<1>2. PICK r \in Given : r = call[t].service
  BY <1>1 DEF SaveAdds
<1>3. r \notin Element(registeredServices) /\ r \in DOMAIN objects /\ call[t].at = "save_add"
  BY <1>1, <1>2 DEF SaveAdds, ObjectsInv
<1>4. PICK longer : longer = ListAdd(registeredServices, r)
  OBVIOUS
<1>5. longer \in Seq(DOMAIN objects) /\ Element(longer) = Element(registeredServices) \cup {r}
  <2>1. PICK S : S = DOMAIN objects /\ registeredServices \in Seq(S) /\ r \in S
    BY <1>1, <1>3
  <2>2. longer \in Seq(S) /\ Element(longer) = Element(registeredServices) \cup {r}
    BY <1>4, <2>1, AddsElement
  <2>3. QED
    BY <2>1, <2>2
<1>6. PICK other \in BOOLEAN : other <=> \E u \in Threads \ {t} : call[u].at = "save_add"
  OBVIOUS
<1>7. /\ registeredServices' = longer \/ (other /\ registeredServices' = registeredServices)
      /\ twoSaves' = (twoSaves \/ other)
      /\ UNCHANGED <<objects, services, new, saved, removed, missed>>
  <2>1. Without(registeredServices, r) = registeredServices
    BY <1>3 DEF Without
  <2>2. QED
    BY <1>2, <1>4, <1>6, <2>1 DEF SaveAdds
<1>8. /\ registeredServices' \in Seq(DOMAIN objects) /\ Element(registeredServices') \subseteq Given
      /\ Element(registeredServices) \subseteq Element(registeredServices')
      /\ Element(registeredServices') \subseteq Element(registeredServices) \cup {r}
  BY <1>1, <1>2, <1>5, <1>7
<1>9. PICK calls : calls = Modified(call)
  OBVIOUS
<1>10. /\ calls \in [Threads -> Call]
       /\ \A u \in Threads :
             /\ calls[u].at = call[u].at /\ calls[u].service = call[u].service
             /\ calls[u].list = call[u].list
             /\ call[u].at = "load" => calls[u].modified
             /\ call[u].at # "load" => calls[u] = call[u]
  BY <1>9, ModifiedCalls
<1>11. PICK c \in Call : c = [calls[t] EXCEPT !.at = "save_register"]
  BY <1>10 DEF Call
<1>12. c.at = "save_register" /\ c.service = r
  BY <1>2, <1>10, <1>11 DEF Call
<1>13. call' = [calls EXCEPT ![t] = c]
  BY <1>9, <1>11 DEF SaveAdds
<1>14. call' \in [Threads -> Call] /\ call'[t] = c /\ \A u \in Threads \ {t} : call'[u] = calls[u]
  BY <1>10, <1>13
<1>15. /\ \A u \in Threads : call'[u].service = call[u].service
       /\ \A u \in Threads \ {t} : call'[u].at = call[u].at
       /\ \A u \in Threads : call'[u].at = "load" => /\ call[u].at = "load" /\ call'[u].modified
                                                      /\ call'[u].list = call[u].list
       /\ call'[t].at = "save_register" /\ call'[t].service = r
  <2>1. /\ \A u \in Threads \ {t} :
              /\ call'[u].service = call[u].service /\ call'[u].at = call[u].at
              /\ call'[u].list = call[u].list
              /\ call[u].at = "load" => call'[u].modified
    BY <1>10, <1>14
  <2>2. call'[t].at = "save_register" /\ call'[t].service = r
    BY <1>12, <1>14
  <2>3. QED
    BY <1>2, <2>1, <2>2
<1> HIDE DEF ServicesInv
<1>16. Given' = Given
  BY <1>7 DEF Given
<1>17. TypeOK'
  <2>1. \A u \in Threads : call'[u].at \notin {"idle", "load"} => call'[u].service \in DOMAIN objects
    BY <1>1, <1>3, <1>15
  <2>2. twoSaves' \in BOOLEAN
    BY <1>7 DEF ServicesInv, TypeOK
  <2>3. QED
    BY <1>7, <1>8, <1>14, <2>1, <2>2 DEF ServicesInv, TypeOK
<1>18. IdsInv'
  BY <1>7, <1>16 DEF ServicesInv, IdsInv
<1>19. ObjectsInv'
  <2>1. ASSUME NEW u \in Threads, NEW v \in Threads,
               call'[u].at \notin {"idle", "load"}, call'[v].at \notin {"idle", "load"},
               call'[u].service = call'[v].service
        PROVE  u = v
    <3>1. call[u].at \notin {"idle", "load"} /\ call[v].at \notin {"idle", "load"}
      BY <1>3, <1>15, <2>1
    <3>2. QED
      BY <1>15, <2>1, <3>1 DEF ServicesInv, ObjectsInv
  <2>2. ASSUME NEW u \in Threads
        PROVE  /\ call'[u].at = "save_id" <=>
                     call'[u].at \notin {"idle", "load"} /\ call'[u].service \notin Given
               /\ call'[u].at \in {"save_id", "save_add", "delete"} =>
                     call'[u].service \notin Element(registeredServices')
    <3>1. CASE u = t
      BY <1>2, <1>15, <3>1
    <3>2. CASE u # t
      <4>1. call[u].at \notin {"idle", "load"} => call[u].service # r
        BY <1>2, <1>3, <3>2 DEF ServicesInv, ObjectsInv
      <4>2. QED
        BY <1>8, <1>15, <3>2, <4>1 DEF ServicesInv, ObjectsInv
    <3>3. QED
      BY <3>1, <3>2
  <2>3. 1..Configured \subseteq saved
    BY DEF ServicesInv, ObjectsInv
  <2>4. QED
    BY <1>1, <1>7, <1>8, <1>16, <2>1, <2>2, <2>3 DEF ObjectsInv
<1>20. LoadInv'
  BY <1>8, <1>15 DEF ServicesInv, LoadInv
<1>21. ~twoSaves' =>
          /\ ~twoSaves /\ registeredServices' = longer
          /\ \A u \in Threads \ {t} : call[u].at # "save_add"
  BY <1>6, <1>7
<1>22. ListInv'
  <2> SUFFICES ASSUME ~twoSaves'
               PROVE  ListInv'
    BY DEF ListInv
  <2>1. ~twoSaves /\ registeredServices' = longer /\ \A u \in Threads : call'[u].at # "save_add"
    BY <1>15, <1>21
  <2>2. /\ \A u \in Threads : call[u].at = "save_register" =>
              call[u].service \in Element(registeredServices)
        /\ saved \subseteq Element(registeredServices)
    BY <2>1 DEF ServicesInv, ListInv
  <2>3. \A u \in Threads : call'[u].at = "save_register" => call'[u].service \in Element(longer)
    BY <1>5, <1>15, <2>2
  <2>4. QED
    BY <1>5, <1>7, <2>1, <2>2, <2>3 DEF ListInv
<1>23. ReloadLosesNothing'
  <2>1. IdIn(objects, registeredServices) \subseteq IdIn(objects, registeredServices')
    BY <1>8 DEF IdIn
  <2>2. QED
    BY <1>7, <1>21, <2>1 DEF ServicesInv, ReloadLosesNothing
<1>24. IdsAreUnique'
  <2>1. ASSUME ~twoSaves', NEW s \in Element(registeredServices), s # r, r \in new \cup 1..Configured
        PROVE  objects[s].id # objects[r].id
    <3>1. r \in new
      BY <1>3, <1>21, <2>1 DEF ServicesInv, ObjectsInv, ListInv
    <3>2. objects[s].id < objects[r].id
      BY <1>2, <1>3, <1>21, <2>1, <3>1 DEF ServicesInv, ListInv
    <3>3. objects[r].id \in Int
      BY <1>1, <1>2, ServicesAssumption DEF ServiceId
    <3>4. QED
      BY <3>2, <3>3
  <2>2. ASSUME ~twoSaves', NEW s \in Element(longer), NEW q \in Element(longer), s # q,
               s \in new \cup 1..Configured, q \in new \cup 1..Configured
        PROVE  objects[s].id # objects[q].id
    <3>1. CASE s = r \/ q = r
      BY <1>5, <2>1, <2>2, <3>1
    <3>2. CASE s # r /\ q # r
      BY <1>5, <1>21, <2>2, <3>2 DEF ServicesInv, IdsAreUnique
    <3>3. QED
      BY <3>1, <3>2
  <2>3. QED
    BY <1>7, <1>21, <2>2 DEF IdsAreUnique
<1>25. StoredServicesAreFound'
  BY <1>7 DEF ServicesInv, StoredServicesAreFound
<1>26. QED
  BY <1>17, <1>18, <1>19, <1>20, <1>22, <1>23, <1>24, <1>25 DEF ServicesInv

\* TryAdd: what is there stays, and what was not is there now.
LEMMA SaveRegistersKeeps ==
    ASSUME ServicesInv, NEW t \in Threads, SaveRegisters(t)
    PROVE  ServicesInv'
<1>1. /\ Given \subseteq DOMAIN objects
      /\ \A s \in DOMAIN objects : s # None
      /\ \A s \in Given : objects[s].id \in ServiceId
      /\ \A u \in Threads : call[u].at \in {"save_add", "save_register", "delete"} =>
            call[u].service \in Given
  BY WhereObjectsAre
<1>2. PICK r \in Given : r = call[t].service
  BY <1>1 DEF SaveRegisters
<1>3. PICK id \in ServiceId : id = objects[r].id
  BY <1>1
<1>4. /\ r # None /\ r \in DOMAIN objects /\ call[t].at = "save_register"
      /\ call' = [call EXCEPT ![t] = Idle] /\ saved' = saved \cup {r}
      /\ services' = [services EXCEPT ![id] = IF services[id] = None THEN r ELSE services[id]]
      /\ UNCHANGED <<objects, registeredServices, new, removed, missed, twoSaves>>
  BY <1>1, <1>2, <1>3 DEF SaveRegisters, TryAdd
<1>5. /\ call' \in [Threads -> Call] /\ call'[t] = Idle /\ Idle.at = "idle"
      /\ \A u \in Threads \ {t} : call'[u] = call[u]
  BY <1>4, Moves, IdleIsCall DEF ServicesInv
<1>6. /\ services' \in [ServiceId -> (DOMAIN objects) \cup {None}]
      /\ \A i \in ServiceId : services[i] # None => services'[i] = services[i]
      /\ \A i \in ServiceId \ {id} : services'[i] = services[i]
      /\ services'[id] # None /\ (services[id] = None => services'[id] = r)
  BY <1>4 DEF ServicesInv, TypeOK
<1>7. Given' = Given
  BY <1>4 DEF Given
<1>8. TypeOK'
  <2>1. \A i \in ServiceId : services'[i] # None => objects[services'[i]].id = i
    BY <1>3, <1>6 DEF ServicesInv, TypeOK
  <2>2. \A u \in Threads : call'[u].at \notin {"idle", "load"} => call'[u].service \in DOMAIN objects
    BY <1>5 DEF ServicesInv, TypeOK
  <2>3. QED
    BY <1>4, <1>5, <1>6, <2>1, <2>2 DEF ServicesInv, TypeOK
<1>9. IdsInv' /\ ObjectsInv' /\ LoadInv'
  <2>1. IdsInv'
    BY <1>4, <1>7 DEF ServicesInv, IdsInv
  <2>2. \A u, v \in Threads :
           (/\ call'[u].at \notin {"idle", "load"} /\ call'[v].at \notin {"idle", "load"}
            /\ call'[u].service = call'[v].service) => u = v
    BY <1>5 DEF ServicesInv, ObjectsInv
  <2>3. \A u \in Threads :
           /\ call'[u].at = "save_id" <=>
                 call'[u].at \notin {"idle", "load"} /\ call'[u].service \notin Given
           /\ call'[u].at \in {"save_id", "save_add", "delete"} =>
                 call'[u].service \notin Element(registeredServices)
    BY <1>5 DEF ServicesInv, ObjectsInv
  <2>4. Element(registeredServices) \cup saved' \subseteq Given /\ 1..Configured \subseteq saved'
    BY <1>2, <1>4 DEF ServicesInv, ObjectsInv
  <2>5. ObjectsInv'
    BY <1>4, <1>7, <2>2, <2>3, <2>4 DEF ObjectsInv
  <2>6. LoadInv'
    BY <1>4, <1>5 DEF ServicesInv, LoadInv
  <2>7. QED
    BY <2>1, <2>5, <2>6
<1>10. ListInv'
  <2> SUFFICES ASSUME ~twoSaves
               PROVE  ListInv'
    BY <1>4 DEF ListInv
  <2>1. r \in Element(registeredServices)
    BY <1>2, <1>4 DEF ServicesInv, ListInv
  <2>2. saved' \subseteq Element(registeredServices)
    BY <1>4, <2>1 DEF ServicesInv, ListInv
  <2>3. \A u \in Threads : call'[u].at \in {"save_add", "save_register"} => call'[u] = call[u]
    BY <1>5
  <2>4. QED
    BY <1>4, <2>2, <2>3 DEF ServicesInv, ListInv
<1>11. ReloadLosesNothing'
  <2>1. ASSUME ~twoSaves, NEW i \in ServiceId, services'[i] # None
        PROVE  i \in IdIn(objects, registeredServices)
    <3>1. CASE i = id
      <4>1. r \in Element(registeredServices)
        BY <1>2, <1>4, <2>1 DEF ServicesInv, ListInv
      <4>2. QED
        BY <1>3, <3>1, <4>1 DEF IdIn
    <3>2. CASE i # id
      BY <1>6, <2>1, <3>2 DEF ServicesInv, ReloadLosesNothing
    <3>3. QED
      BY <3>1, <3>2
  <2>2. QED
    BY <1>4, <2>1 DEF ReloadLosesNothing
<1>12. IdsAreUnique'
  BY <1>4, IdsStay DEF ServicesInv
<1>13. StoredServicesAreFound'
  <2>1. ASSUME ~twoSaves, NEW s \in saved'
        PROVE  objects[s].id \in removed \cup missed \/ services'[objects[s].id] # None
    <3>1. CASE s = r
      BY <1>3, <1>6, <3>1
    <3>2. CASE s # r
      <4>1. s \in saved /\ objects[s].id \in ServiceId
        BY <1>1, <1>4, <2>1, <3>2, WhereObjectsAre
      <4>2. objects[s].id \in removed \cup missed \/ services[objects[s].id] # None
        BY <2>1, <4>1 DEF ServicesInv, StoredServicesAreFound
      <4>3. QED
        BY <1>6, <4>1, <4>2
    <3>3. QED
      BY <3>1, <3>2
  <2>2. QED
    BY <1>4, <2>1 DEF StoredServicesAreFound
<1>14. QED
  BY <1>8, <1>9, <1>10, <1>11, <1>12, <1>13 DEF ServicesInv

-----------------------------------------------------------------------------
(* delete                                                                  *)

\* The list does not hold the clone and stays; the dictionary loses the id.
LEMMA DeleteRemovesKeeps ==
    ASSUME ServicesInv, NEW t \in Threads, DeleteRemoves(t)
    PROVE  ServicesInv'
<1>1. /\ \A s \in Given : objects[s].id \in ServiceId
      /\ saved \subseteq Given
      /\ \A u \in Threads : call[u].at \in {"save_add", "save_register", "delete"} =>
            call[u].service \in Given
  BY WhereObjectsAre
<1>2. PICK r \in Given : r = call[t].service
  BY <1>1 DEF DeleteRemoves
<1>3. PICK id \in ServiceId : id = objects[r].id
  BY <1>1
<1>4. Without(registeredServices, r) = registeredServices
  BY <1>2 DEF Without, DeleteRemoves, ServicesInv, ObjectsInv
<1>5. /\ call[t].at = "delete" /\ call' = [call EXCEPT ![t] = Idle]
      /\ services' = [services EXCEPT ![id] = None]
      /\ removed' = removed \cup {id}
      /\ UNCHANGED <<objects, registeredServices, new, saved, missed, twoSaves>>
  BY <1>2, <1>3, <1>4 DEF DeleteRemoves, DaoDelete
<1>6. /\ call' \in [Threads -> Call] /\ call'[t] = Idle /\ Idle.at = "idle"
      /\ \A u \in Threads \ {t} : call'[u] = call[u]
  BY <1>5, Moves, IdleIsCall DEF ServicesInv
<1>7. /\ services' \in [ServiceId -> (DOMAIN objects) \cup {None}]
      /\ services'[id] = None /\ \A i \in ServiceId \ {id} : services'[i] = services[i]
  BY <1>5 DEF ServicesInv, TypeOK
<1>8. Given' = Given
  BY <1>5 DEF Given
<1>9. TypeOK'
  <2>1. \A i \in ServiceId : services'[i] # None => objects[services'[i]].id = i
    BY <1>7 DEF ServicesInv, TypeOK
  <2>2. \A u \in Threads : call'[u].at \notin {"idle", "load"} => call'[u].service \in DOMAIN objects
    BY <1>6 DEF ServicesInv, TypeOK
  <2>3. QED
    BY <1>5, <1>6, <1>7, <2>1, <2>2 DEF ServicesInv, TypeOK
<1>10. IdsInv' /\ ObjectsInv' /\ LoadInv'
  <2>1. IdsInv'
    BY <1>5, <1>8 DEF ServicesInv, IdsInv
  <2>2. \A u, v \in Threads :
           (/\ call'[u].at \notin {"idle", "load"} /\ call'[v].at \notin {"idle", "load"}
            /\ call'[u].service = call'[v].service) => u = v
    BY <1>6 DEF ServicesInv, ObjectsInv
  <2>3. \A u \in Threads :
           /\ call'[u].at = "save_id" <=>
                 call'[u].at \notin {"idle", "load"} /\ call'[u].service \notin Given
           /\ call'[u].at \in {"save_id", "save_add", "delete"} =>
                 call'[u].service \notin Element(registeredServices)
    BY <1>6 DEF ServicesInv, ObjectsInv
  <2>4. ObjectsInv'
    BY <1>5, <1>8, <2>2, <2>3 DEF ServicesInv, ObjectsInv
  <2>5. LoadInv'
    BY <1>5, <1>6 DEF ServicesInv, LoadInv
  <2>6. QED
    BY <2>1, <2>4, <2>5
<1>11. \A u \in Threads :
          call'[u].at \in {"save_add", "save_register", "delete"} => u # t /\ call'[u] = call[u]
  BY <1>6
<1>12. ListInv'
  <2>1. ASSUME ~twoSaves
        PROVE  /\ \A u \in Threads : call'[u].at = "save_add" /\ call'[u].service \in new =>
                     \A s \in Element(registeredServices) : objects[s].id < objects[call'[u].service].id
               /\ \A u \in Threads : call'[u].at = "save_register" =>
                     call'[u].service \in Element(registeredServices)
               /\ saved \subseteq Element(registeredServices)
    BY <1>11, <2>1 DEF ServicesInv, ListInv
  <2>2. QED
    BY <1>5, <2>1 DEF ListInv
<1>13. ReloadLosesNothing'
  <2>1. \A i \in ServiceId : services'[i] # None => services[i] # None
    BY <1>7
  <2>2. QED
    BY <1>5, <2>1 DEF ServicesInv, ReloadLosesNothing
<1>14. IdsAreUnique'
  BY <1>5, IdsStay DEF ServicesInv
<1>15. StoredServicesAreFound'
  <2>1. ASSUME ~twoSaves, NEW s \in saved
        PROVE  objects[s].id \in removed' \cup missed \/ services'[objects[s].id] # None
    <3>1. objects[s].id \in removed \cup missed \/ services[objects[s].id] # None
      BY <2>1 DEF ServicesInv, StoredServicesAreFound
    <3>2. objects[s].id \in ServiceId
      BY <1>1, <2>1
    <3>3. QED
      BY <1>5, <1>7, <3>1, <3>2
  <2>2. QED
    BY <1>5, <2>1 DEF StoredServicesAreFound
<1>16. QED
  BY <1>9, <1>10, <1>12, <1>13, <1>14, <1>15 DEF ServicesInv

-----------------------------------------------------------------------------
(* reload                                                                  *)

\* A thread begins a load, or gives up a load or a save that has no id yet: only its own place
\* changes.
LEMMA LoadMoves ==
    ASSUME ServicesInv, NEW t \in Threads, NEW c \in Call, call' = [call EXCEPT ![t] = c],
           call[t].at \in {"idle", "load", "save_id"}, c.at \in {"idle", "load"},
           c.at = "load" => c.list = registeredServices,
           UNCHANGED <<objects, registeredServices, services, new, saved, removed, missed, twoSaves>>
    PROVE  ServicesInv'
<1>1. /\ call' \in [Threads -> Call] /\ call'[t] = c
      /\ \A u \in Threads \ {t} : call'[u] = call[u]
  BY Moves DEF ServicesInv
<1>2. \A u \in Threads : call'[u].at \notin {"idle", "load"} => u # t /\ call'[u] = call[u]
  BY <1>1
<1>3. Given' = Given
  BY DEF Given
<1>4. TypeOK'
  BY <1>1, <1>2 DEF ServicesInv, TypeOK
<1>5. IdsInv'
  BY <1>3 DEF ServicesInv, IdsInv
<1>6. ObjectsInv'
  <2>1. \A u, v \in Threads :
           (/\ call'[u].at \notin {"idle", "load"} /\ call'[v].at \notin {"idle", "load"}
            /\ call'[u].service = call'[v].service) => u = v
    BY <1>2 DEF ServicesInv, ObjectsInv
  <2>2. \A u \in Threads :
           /\ call'[u].at = "save_id" <=>
                 call'[u].at \notin {"idle", "load"} /\ call'[u].service \notin Given
           /\ call'[u].at \in {"save_id", "save_add", "delete"} =>
                 call'[u].service \notin Element(registeredServices)
    BY <1>1 DEF ServicesInv, ObjectsInv
  <2>3. QED
    BY <1>3, <2>1, <2>2 DEF ServicesInv, ObjectsInv
<1>7. LoadInv'
  BY <1>1 DEF ServicesInv, LoadInv
<1>8. ListInv'
  <2>1. ASSUME ~twoSaves
        PROVE  /\ \A u \in Threads : call'[u].at = "save_add" /\ call'[u].service \in new =>
                     \A s \in Element(registeredServices) : objects[s].id < objects[call'[u].service].id
               /\ \A u \in Threads : call'[u].at = "save_register" =>
                     call'[u].service \in Element(registeredServices)
    BY <1>2, <2>1 DEF ServicesInv, ListInv
  <2>2. QED
    BY <2>1 DEF ServicesInv, ListInv
<1>9. IdsAreUnique' /\ ReloadLosesNothing' /\ StoredServicesAreFound'
  <2>1. IdsAreUnique'
    BY IdsStay DEF ServicesInv
  <2>2. ReloadLosesNothing'
    BY DEF ServicesInv, ReloadLosesNothing
  <2>3. StoredServicesAreFound'
    BY DEF ServicesInv, StoredServicesAreFound
  <2>4. QED
    BY <2>1, <2>2, <2>3
<1>10. QED
  BY <1>4, <1>5, <1>6, <1>7, <1>8, <1>9 DEF ServicesInv

\* What a load shows: an object of the list it enumerated, with the id it is found under.
LEMMA LoadedServices ==
    ASSUME ServicesInv, NEW S, NEW list \in Seq(S), Element(list) \subseteq Element(registeredServices)
    PROVE  /\ Loaded(list) \in [ServiceId -> (DOMAIN objects) \cup {None}]
           /\ \A i \in ServiceId :
                 /\ Loaded(list)[i] = FirstWith(i, objects, list)
                 /\ Loaded(list)[i] # None =>
                       Loaded(list)[i] \in Element(list) /\ objects[Loaded(list)[i]].id = i
                 /\ i \in IdIn(objects, list) => Loaded(list)[i] # None
<1>1. Element(list) \subseteq DOMAIN objects /\ \A s \in DOMAIN objects : s # None
  BY WhereObjectsAre
<1>2. ASSUME NEW i \in ServiceId
      PROVE  /\ FirstWith(i, objects, list) \in (DOMAIN objects) \cup {None}
             /\ FirstWith(i, objects, list) # None =>
                   /\ FirstWith(i, objects, list) \in Element(list)
                   /\ objects[FirstWith(i, objects, list)].id = i
             /\ i \in IdIn(objects, list) => FirstWith(i, objects, list) # None
  <2>1. CASE i \in IdIn(objects, list)
    <3>1. PICK j \in DOMAIN list :
             FirstWith(i, objects, list) = list[j] /\ objects[list[j]].id = i
      BY <2>1, FirstOf
    <3>2. list[j] \in Element(list)
      BY DEF Element
    <3>3. QED
      BY <1>1, <3>1, <3>2
  <2>2. CASE i \notin IdIn(objects, list)
    BY <2>2, FirstOf
  <2>3. QED
    BY <2>1, <2>2
<1>3. QED
  BY <1>2 DEF Loaded

\* The dictionary becomes what the enumerated list shows, which is the list unless it was modified.
LEMMA LoadAssignsKeeps ==
    ASSUME ServicesInv, NEW t \in Threads, LoadAssigns(t)
    PROVE  ServicesInv'
<1>1. /\ registeredServices \in Seq(DOMAIN objects)
      /\ saved \subseteq Given /\ Given \subseteq DOMAIN objects
      /\ \A s \in Given : objects[s].id \in ServiceId
      /\ \A u \in Threads : call[u].at \in {"save_add", "save_register", "delete"} =>
            call[u].service \in Given
  BY WhereObjectsAre
<1>2. PICK list \in Seq(Ref) : list = call[t].list
  BY DEF ServicesInv, TypeOK, Call
<1>3. Element(list) \subseteq Element(registeredServices)
  BY <1>2 DEF LoadAssigns, ServicesInv, LoadInv
<1>4. /\ call[t].at = "load" /\ call' = [call EXCEPT ![t] = Idle]
      /\ services' = Loaded(list)
      /\ missed' = {objects[s].id : s \in Element(registeredServices) \ Element(list)}
      /\ UNCHANGED <<objects, registeredServices, new, saved, removed, twoSaves>>
  BY <1>2 DEF LoadAssigns
<1>5. /\ services' \in [ServiceId -> (DOMAIN objects) \cup {None}]
      /\ \A i \in ServiceId :
            /\ services'[i] = FirstWith(i, objects, list)
            /\ services'[i] # None => services'[i] \in Element(list) /\ objects[services'[i]].id = i
            /\ i \in IdIn(objects, list) => services'[i] # None
  BY <1>3, <1>4, LoadedServices
<1>6. /\ call' \in [Threads -> Call] /\ call'[t] = Idle /\ Idle.at = "idle"
      /\ \A u \in Threads \ {t} : call'[u] = call[u]
  BY <1>4, Moves, IdleIsCall DEF ServicesInv
<1>7. \A u \in Threads : call'[u].at \notin {"idle", "load"} => u # t /\ call'[u] = call[u]
  BY <1>6
<1>8. Given' = Given
  BY <1>4 DEF Given
<1>9. TypeOK'
  <2>1. \A u \in Threads : call'[u].at \notin {"idle", "load"} => call'[u].service \in DOMAIN objects
    BY <1>7 DEF ServicesInv, TypeOK
  <2>2. missed' \subseteq ServiceId
    BY <1>1, <1>4, WhereObjectsAre
  <2>3. QED
    BY <1>4, <1>5, <1>6, <2>1, <2>2 DEF ServicesInv, TypeOK
<1>10. IdsInv' /\ ObjectsInv' /\ LoadInv'
  <2>1. IdsInv'
    BY <1>4, <1>8 DEF ServicesInv, IdsInv
  <2>2. \A u, v \in Threads :
           (/\ call'[u].at \notin {"idle", "load"} /\ call'[v].at \notin {"idle", "load"}
            /\ call'[u].service = call'[v].service) => u = v
    BY <1>7 DEF ServicesInv, ObjectsInv
  <2>3. \A u \in Threads :
           /\ call'[u].at = "save_id" <=>
                 call'[u].at \notin {"idle", "load"} /\ call'[u].service \notin Given
           /\ call'[u].at \in {"save_id", "save_add", "delete"} =>
                 call'[u].service \notin Element(registeredServices)
    BY <1>6 DEF ServicesInv, ObjectsInv
  <2>4. ObjectsInv'
    BY <1>4, <1>8, <2>2, <2>3 DEF ServicesInv, ObjectsInv
  <2>5. LoadInv'
    BY <1>4, <1>6 DEF ServicesInv, LoadInv
  <2>6. QED
    BY <2>1, <2>4, <2>5
<1>11. ListInv'
  <2>1. ASSUME ~twoSaves
        PROVE  /\ \A u \in Threads : call'[u].at = "save_add" /\ call'[u].service \in new =>
                     \A s \in Element(registeredServices) : objects[s].id < objects[call'[u].service].id
               /\ \A u \in Threads : call'[u].at = "save_register" =>
                     call'[u].service \in Element(registeredServices)
               /\ saved \subseteq Element(registeredServices)
    BY <1>7, <2>1 DEF ServicesInv, ListInv
  <2>2. QED
    BY <1>4, <2>1 DEF ListInv
<1>12. ReloadLosesNothing'
  <2>1. ASSUME NEW i \in ServiceId, services'[i] # None
        PROVE  i \in IdIn(objects, registeredServices)
    <3>1. services'[i] \in Element(registeredServices) /\ objects[services'[i]].id = i
      BY <1>3, <1>5, <2>1
    <3>2. QED
      BY <3>1 DEF IdIn
  <2>2. QED
    BY <1>4, <2>1 DEF ReloadLosesNothing
<1>13. IdsAreUnique'
  BY <1>4, IdsStay DEF ServicesInv
<1>14. StoredServicesAreFound'
  <2>1. ASSUME ~twoSaves, NEW s \in saved
        PROVE  objects[s].id \in missed' \/ services'[objects[s].id] # None
    <3>1. s \in Element(registeredServices) /\ objects[s].id \in ServiceId
      BY <1>1, <2>1 DEF ServicesInv, ListInv
    <3>2. CASE s \in Element(list)
      <4>1. objects[s].id \in IdIn(objects, list)
        BY <3>2 DEF IdIn
      <4>2. QED
        BY <1>5, <3>1, <4>1
    <3>3. CASE s \notin Element(list)
      BY <1>4, <3>1, <3>3
    <3>4. QED
      BY <3>2, <3>3
  <2>2. QED
    BY <1>4, <2>1 DEF StoredServicesAreFound
<1>15. QED
  BY <1>9, <1>10, <1>11, <1>12, <1>13, <1>14 DEF ServicesInv

-----------------------------------------------------------------------------
(* The theorems                                                            *)

\* The configured services have the ids 1 to Configured, in the list and in the dictionary.
LEMMA ServicesInit ==
    Init => ServicesInv
<1> SUFFICES ASSUME Init
             PROVE  ServicesInv
  OBVIOUS
<1>1. PICK k \in Nat : k = Configured /\ k <= MaxObjects
  BY ServicesAssumption
<1>2. /\ objects = [r \in 1..k |-> [id |-> r, enabled |-> TRUE]]
      /\ registeredServices = [i \in 1..k |-> i]
      /\ services = [id \in ServiceId |-> IF id <= k THEN id ELSE None]
      /\ call = [t \in Threads |-> Idle]
      /\ new = {} /\ saved = 1..k /\ removed = {} /\ missed = {} /\ twoSaves = FALSE
  BY <1>1 DEF Init
<1>3. 1..k \subseteq ServiceId /\ NoId \notin ServiceId /\ None \notin 1..k
  BY <1>1, ServicesAssumption DEF ServiceId, NoId
<1>4. /\ objects \in Seq(RegisteredService) /\ DOMAIN objects = 1..k /\ Len(objects) = k
      /\ \A r \in 1..k : objects[r].id = r
  BY <1>2, <1>3 DEF RegisteredService
<1>5. /\ registeredServices \in Seq(1..k) /\ DOMAIN registeredServices = 1..k
      /\ \A i \in 1..k : registeredServices[i] = i
  BY <1>2
<1>6. Element(registeredServices) = 1..k
  BY <1>5 DEF Element
<1>7. Given = 1..k
  BY <1>3, <1>4 DEF Given
<1>8. /\ services \in [ServiceId -> 1..k \cup {None}]
      /\ \A id \in ServiceId : services[id] # None => services[id] = id /\ id \in 1..k
      /\ \A id \in 1..k : services[id] = id
  BY <1>1, <1>2, <1>3, ServicesAssumption DEF ServiceId
<1>9. \A t \in Threads : call[t] = Idle /\ call[t].at = "idle"
  BY <1>2, IdleIsCall
<1>10. TypeOK
  <2>1. call \in [Threads -> Call]
    BY <1>2, IdleIsCall
  <2>2. QED
    BY <1>1, <1>2, <1>4, <1>5, <1>8, <1>9, <2>1 DEF TypeOK
<1>11. IdsInv
  <2>1. Cardinality(1..k) = k
    <3>1. Cardinality(1..k) = IF 1 > k THEN 0 ELSE k - 1 + 1
      BY FS_Interval
    <3>2. QED
      BY <3>1
  <2>2. QED
    BY <1>4, <1>7, <2>1 DEF IdsInv
<1>12. ObjectsInv
  BY <1>1, <1>2, <1>6, <1>7, <1>9 DEF ObjectsInv
<1>13. LoadInv
  BY <1>9 DEF LoadInv
<1>14. ListInv
  BY <1>2, <1>6, <1>8, <1>9 DEF ListInv
<1>15. IdsAreUnique
  BY <1>4, <1>6 DEF IdsAreUnique
<1>16. ReloadLosesNothing
  <2>1. \A id \in 1..k : id \in IdIn(objects, registeredServices)
    BY <1>4, <1>6 DEF IdIn
  <2>2. QED
    BY <1>8, <2>1 DEF ReloadLosesNothing
<1>17. StoredServicesAreFound
  <2>1. \A r \in saved : objects[r].id = r /\ services[r] = r /\ r # None
    BY <1>2, <1>3, <1>4, <1>8
  <2>2. \A r \in saved : services[objects[r].id] # None
    BY <2>1
  <2>3. QED
    BY <2>2 DEF StoredServicesAreFound
<1>18. QED
  BY <1>10, <1>11, <1>12, <1>13, <1>14, <1>15, <1>16, <1>17 DEF ServicesInv

\* Every step of every thread keeps the inductive invariant.
LEMMA ServicesStep ==
    ServicesInv /\ [Next]_vars => ServicesInv'
<1> SUFFICES ASSUME ServicesInv, [Next]_vars
             PROVE  ServicesInv'
  OBVIOUS
<1>1. CASE UNCHANGED vars
  <2>1. TypeOK' /\ IdsInv' /\ ObjectsInv' /\ LoadInv'
    BY <1>1 DEF ServicesInv, TypeOK, IdsInv, ObjectsInv, LoadInv, vars, Given
  <2>2. ListInv'
    BY <1>1 DEF ServicesInv, ListInv, vars
  <2>3. IdsAreUnique'
    BY <1>1, IdsStay DEF ServicesInv, vars
  <2>4. ReloadLosesNothing'
    BY <1>1 DEF ServicesInv, ReloadLosesNothing, vars
  <2>5. StoredServicesAreFound'
    BY <1>1 DEF ServicesInv, StoredServicesAreFound, vars
  <2>6. QED
    BY <2>1, <2>2, <2>3, <2>4, <2>5 DEF ServicesInv
<1>2. ASSUME NEW t \in Threads, NEW enabled \in BOOLEAN, Save(t, enabled)
      PROVE  ServicesInv'
  <2>1. PICK object \in RegisteredService : object = [id |-> NoId, enabled |-> enabled]
    BY DEF RegisteredService
  <2>2. object.id = NoId /\ Begin(t, "save_id", object) /\ new' = new \cup {Len(objects) + 1}
    BY <1>2, <2>1 DEF Save
  <2>3. QED
    BY <2>2, BeginKeeps
<1>3. \A id \in ServiceId : id # NoId
  BY ServicesAssumption DEF ServiceId, NoId
<1>4. ASSUME NEW t \in Threads, NEW id \in ServiceId, NEW newState \in BOOLEAN,
             ChangeEnabledState(t, id, newState)
      PROVE  ServicesInv'
  <2>1. PICK object \in RegisteredService : object = [id |-> id, enabled |-> newState]
    BY DEF RegisteredService
  <2>2. /\ object.id = id /\ Begin(t, "save_add", object) /\ new' = new /\ services[id] # None
    BY <1>4, <2>1 DEF ChangeEnabledState
  <2>3. QED
    BY <1>3, <2>2, BeginKeeps
<1>5. ASSUME NEW t \in Threads, NEW id \in ServiceId, Delete(t, id)
      PROVE  ServicesInv'
  <2>1. services[id] \in DOMAIN objects
    BY <1>5 DEF Delete, ServicesInv, TypeOK
  <2>2. objects[services[id]].enabled \in BOOLEAN
    BY <2>1, WhereObjectsAre DEF RegisteredService
  <2>3. PICK object \in RegisteredService :
           object = [id |-> id, enabled |-> objects[services[id]].enabled]
    BY <2>2 DEF RegisteredService
  <2>4. /\ object.id = id /\ Begin(t, "delete", object) /\ new' = new /\ services[id] # None
    BY <1>5, <2>3 DEF Delete
  <2>5. QED
    BY <1>3, <2>4, BeginKeeps
<1>6. ASSUME NEW t \in Threads, LoadBegins(t)
      PROVE  ServicesInv'
  <2>1. \A s \in DOMAIN objects : s \in Ref
    <3>1. objects \in Seq(RegisteredService)
      BY DEF ServicesInv, TypeOK
    <3>2. Len(objects) <= MaxObjects
      BY DEF ServicesInv, TypeOK
    <3>3. QED
      BY <3>1, <3>2, ServicesAssumption DEF Ref
  <2>2. registeredServices \in Seq(Ref)
    BY <2>1, WhereObjectsAre
  <2>3. PICK c \in Call : c = [Idle EXCEPT !.at = "load", !.list = registeredServices]
    BY <2>2, IdleIsCall DEF Call
  <2>4. c.at = "load" /\ c.list = registeredServices
    BY <2>3, IdleIsCall DEF Call
  <2>5. call[t].at = "idle" /\ call' = [call EXCEPT ![t] = c]
    BY <1>6, <2>3, IdleIsCall DEF LoadBegins
  <2>6. QED
    BY <1>6, <2>4, <2>5, LoadMoves DEF LoadBegins
<1>7. ASSUME NEW t \in Threads, LoadThrows(t) \/ SaveThrows(t)
      PROVE  ServicesInv'
  <2>1. call[t].at \in {"load", "save_id"} /\ call' = [call EXCEPT ![t] = Idle]
    BY <1>7 DEF LoadThrows, SaveThrows
  <2>2. UNCHANGED <<objects, registeredServices, services, new, saved, removed, missed, twoSaves>>
    BY <1>7 DEF LoadThrows, SaveThrows
  <2>3. QED
    BY <2>1, <2>2, LoadMoves, IdleIsCall
<1>8. QED
  BY <1>1, <1>2, <1>4, <1>5, <1>6, <1>7, SaveAssignsIdKeeps, SaveAddsKeeps, SaveRegistersKeeps,
     DeleteRemovesKeeps, LoadAssignsKeeps DEF Next

\* The inductive invariant holds in every state.
LEMMA ServicesInvariant ==
    Spec => []ServicesInv
BY ServicesInit, ServicesStep, PTL DEF Spec

\* The list, the dictionary and the calls hold what their declarations in DefaultServicesManagerImpl
\* and InMemoryServiceRegistryDaoImpl say, and a service is found under its own id.
THEOREM ServicesTypeCorrect == Spec => []TypeOK
<1>1. ServicesInv => TypeOK
  BY DEF ServicesInv
<1>2. QED
  BY <1>1, ServicesInvariant, PTL

\* FindHighestId + 1 is an id no service of the list has, for any number of threads that save,
\* delete and load, unless two saves overlapped.
THEOREM UniqueIds == Spec => []IdsAreUnique
<1>1. ServicesInv => IdsAreUnique
  BY DEF ServicesInv
<1>2. QED
  BY <1>1, ServicesInvariant, PTL

\* A reload takes no service away: what the dictionary of DefaultServicesManagerImpl shows under an
\* id the list of the DAO has an object for, unless two saves overlapped.
THEOREM NothingLost == Spec => []ReloadLosesNothing
<1>1. ServicesInv => ReloadLosesNothing
  BY DEF ServicesInv
<1>2. QED
  BY <1>1, ServicesInvariant, PTL

\* A service whose save returned is found by findServiceBy until it is deleted, unless two saves
\* overlapped or the last load had read the list before the service was in it.
THEOREM StoredFound == Spec => []StoredServicesAreFound
<1>1. ServicesInv => StoredServicesAreFound
  BY DEF ServicesInv
<1>2. QED
  BY <1>1, ServicesInvariant, PTL
=============================================================================
