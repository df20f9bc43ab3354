----------------------------- MODULE UseCaseBase -----------------------------
(***************************************************************************)
(* The list of remote entities and scenarios every use case keeps          *)
(* (usecases/usecase). The SPINE stack publishes an event when a remote    *)
(* device announces use cases, gains or loses an entity, or disconnects;   *)
(* HandleEvent runs for each event in a goroutine of its own, looks an     *)
(* entity up under the mutex, releases it, and changes the list at the     *)
(* index it found under the mutex again. The application is called after   *)
(* a change and reads the list.                                            *)
(***************************************************************************)
EXTENDS Integers, Sequences, FiniteSets, SequencesExt

CONSTANTS
  Sessions,       \* connections of remote devices, each used at most once
  Devices,        \* addresses of remote devices
  DeviceOf,       \* the device behind a connection
  Entities,       \* entity addresses within a device
  TopLevel,       \* those of them of length one
  FirstChild,     \* the address of a top level entity, extended by 1
  NoAddress,      \* a use case announced without an address
  Compatible,     \* entities of a type the use case is for
  ValidActors,    \* actors the use case is for
  Scenarios,      \* the scenarios of the use case
  Required,       \* the server features a scenario needs
  Announcements,  \* what a device announces: sequences of Support
  FeatureCounts,  \* server features of an entity: how many of each type
  InOrder,        \* are events handled one at a time, as published
  MaxEvents       \* bound: events published in a behaviour

FeatureTypes == UNION {Required[sc] : sc \in Scenarios}

\* One use case support of NodeManagementUseCaseData.
Support == [actor : STRING, address : Entities \cup {NoAddress}, scenarios : SUBSET Scenarios]

ASSUME DevicesAssumption  == DeviceOf \in [Sessions -> Devices]
ASSUME AddressAssumption  ==
  /\ NoAddress \notin Entities
  /\ TopLevel \subseteq Entities /\ FirstChild \in [TopLevel -> Entities \cup {NoAddress}]
ASSUME RequiredAssumption == DOMAIN Required = Scenarios /\ Compatible \subseteq Entities
ASSUME OffersAssumption   ==
  /\ Announcements \subseteq Seq(Support)
  /\ FeatureCounts \subseteq [FeatureTypes -> Nat]
ASSUME OrderAssumption    == InOrder \in BOOLEAN /\ MaxEvents \in Nat

VARIABLES
  opened,     \* sessions that were connected at some time
  live,       \* sessions connected now
  entities,   \* the entities of the device object of a session
  features,   \* their server features
  announced,  \* the use case data of the device object of a session
  published,  \* number of events published
  handlers,   \* running HandleEvent calls, oldest first
  available,  \* availableEntityScenarios
  seen,       \* the list as the application read it when it was last called
  crashed     \* an index was out of range

remote == <<opened, live, entities, features, announced, published>>
vars   == <<opened, live, entities, features, announced, published,
            handlers, available, seen, crashed>>

Entry == [session : Sessions, entity : Entities, scenarios : SUBSET Scenarios]

\* An entity to check against the scenarios a support offers.
Work == [entities : SUBSET Entities, scenarios : SUBSET Scenarios]

Kinds  == {"update", "removeEntity", "removeDevice"}
Phases == {"begin", "lookup", "store", "remove", "notify"}

Handler ==
  [kind : Kinds, phase : Phases, session : Sessions,
   entity : Entities \cup {NoAddress},  \* removed, or being checked
   todo   : Seq(Work),                  \* what useCaseDataUpdate still checks
   wanted : SUBSET Scenarios,           \* scenarioValues
   found  : Seq(Nat \ {0})]             \* indices from the lookup

TypeOK ==
  /\ opened \subseteq Sessions /\ live \subseteq opened
  /\ entities \in [Sessions -> SUBSET Entities]
  /\ features \in [Sessions -> [Entities -> [FeatureTypes -> Nat]]]
  /\ announced \in [Sessions -> Announcements \cup {<<>>}]
  /\ published \in 0..MaxEvents
  /\ handlers \in Seq(Handler)
  /\ available \in Seq(Entry) /\ seen \in Seq(Entry)
  /\ crashed \in BOOLEAN

Init ==
  /\ opened = {} /\ live = {}
  /\ entities  = [s \in Sessions |-> {}]
  /\ features  = [s \in Sessions |-> [e \in Entities |-> [f \in FeatureTypes |-> 0]]]
  /\ announced = [s \in Sessions |-> <<>>]
  /\ published = 0
  /\ handlers = <<>> /\ available = <<>> /\ seen = <<>>
  /\ crashed = FALSE

-----------------------------------------------------------------------------
(* Remote devices, and the events the stack publishes for them.            *)

Publish(kind, s, e) ==
  /\ published < MaxEvents
  /\ published' = published + 1
  /\ handlers' = Append(handlers,
       [kind |-> kind, phase |-> "begin", session |-> s, entity |-> e,
        todo |-> <<>>, wanted |-> {}, found |-> <<>>])
  /\ UNCHANGED <<available, seen, crashed>>

Connect(s) ==
  /\ s \notin opened
  /\ \A t \in live : DeviceOf[t] # DeviceOf[s]
  /\ opened' = opened \cup {s} /\ live' = live \cup {s}
  /\ UNCHANGED <<entities, features, announced, published, handlers, available, seen, crashed>>

AddEntity(s, e, counts) ==
  /\ s \in live /\ e \notin entities[s]
  /\ entities' = [entities EXCEPT ![s] = @ \cup {e}]
  /\ features' = [features EXCEPT ![s][e] = counts]
  /\ Publish("update", s, NoAddress)
  /\ UNCHANGED <<opened, live, announced>>

RemoveEntity(s, e) ==
  /\ s \in live /\ e \in entities[s]
  /\ entities' = [entities EXCEPT ![s] = @ \ {e}]
  /\ Publish("removeEntity", s, e)
  /\ UNCHANGED <<opened, live, features, announced>>

Announce(s, supports) ==
  /\ s \in live /\ announced[s] # supports
  /\ announced' = [announced EXCEPT ![s] = supports]
  /\ Publish("update", s, NoAddress)
  /\ UNCHANGED <<opened, live, entities, features>>

\* The device object goes out of use as it is.
Disconnect(s) ==
  /\ s \in live
  /\ live' = live \ {s}
  /\ Publish("removeDevice", s, NoAddress)
  /\ UNCHANGED <<opened, entities, features, announced>>

-----------------------------------------------------------------------------
(* What useCaseDataUpdate reads.                                           *)

\* Positions in a sequence, from the first to the last.
Ascending(K) ==
  CHOOSE q \in [1 .. Cardinality(K) -> K] : \A i, j \in DOMAIN q : i < j => q[i] < q[j]

Valid(s) == {n \in DOMAIN announced[s] : announced[s][n].actor \in ValidActors}

\* The entity a use case address means: an EV use case with a top level
\* address means the first sub entity.
Addressed(support) ==
  IF support.actor = "EV" /\ support.address \in TopLevel
  THEN FirstChild[support.address]
  ELSE support.address

\* All entities are checked if the address is missing or unknown.
EntitiesToCheck(s, support) ==
  Compatible \cap
    (IF Addressed(support) \in entities[s] THEN {Addressed(support)} ELSE entities[s])

\* The supports with entities to check, in their order.
SupportsToCheck(s) ==
  Ascending({n \in Valid(s) : EntitiesToCheck(s, announced[s][n]) # {}})

WorkOf(s) ==
  [k \in DOMAIN SupportsToCheck(s) |->
    LET support == announced[s][SupportsToCheck(s)[k]]
    IN  [entities |-> EntitiesToCheck(s, support), scenarios |-> support.scenarios]]

\* A scenario needs exactly one server feature of each required type.
HasRequired(s, e, sc) == \A f \in Required[sc] : features[s][e][f] = 1

Supported(s, e, offered) == {sc \in offered : HasRequired(s, e, sc)}

-----------------------------------------------------------------------------
(* The list.                                                               *)

SameEntity(entry, s, e) ==
  DeviceOf[entry.session] = DeviceOf[s] /\ entry.entity = e

IndicesOfEntity(s, e) == {k \in DOMAIN available : SameEntity(available[k], s, e)}

\* Mutants of IndexOfEntity: the first index is taken for none; an entity that
\* is not listed has index -1; any entity of the device will do.
IndexAboveFirst(s, e) ==
  LET all == IndicesOfEntity(s, e) \ {1} IN
  IF all = {} THEN <<>> ELSE <<CHOOSE k \in all : \A j \in all : k <= j>>

IndexOrMinusOne(s, e) ==
  LET all == IndicesOfEntity(s, e) IN
  <<IF all = {} THEN -1 ELSE CHOOSE k \in all : \A j \in all : k <= j>>

IndexOfAnyEntity(s, e) ==
  LET all == {k \in DOMAIN available : DeviceOf[available[k].session] = DeviceOf[s]} IN
  IF all = {} THEN <<>> ELSE <<CHOOSE k \in all : \A j \in all : k <= j>>

\* entitiyScenarioIndexOfEntity: the first index, if any.
IndexOfEntity(s, e) ==
  LET all == IndicesOfEntity(s, e) IN
  IF all = {} THEN <<>> ELSE <<CHOOSE k \in all : \A j \in all : k <= j>>

\* Mutants of IndicesOfDevice: the search stops at the first entity; the
\* indices are removed from the first to the last.
FirstIndexOfDevice(s) ==
  LET all == {k \in DOMAIN available : DeviceOf[available[k].session] = DeviceOf[s]} IN
  IF all = {} THEN <<>> ELSE <<CHOOSE k \in all : \A j \in all : k <= j>>

IndicesReversed(s) ==
  Reverse(Ascending({k \in DOMAIN available : DeviceOf[available[k].session] = DeviceOf[s]}))

IndicesOfDevice(s) ==
  Ascending({k \in DOMAIN available : DeviceOf[available[k].session] = DeviceOf[s]})

-----------------------------------------------------------------------------
(* HandleEvent, step by step: each step holds the mutex at most once.      *)

Finish(i) == handlers' = RemoveAt(handlers, i)

Continue(i, h) == handlers' = [handlers EXCEPT ![i] = h]

\* Without work the update is over; so is a removal that found nothing.
Begin(i) ==
  LET h == handlers[i] IN
  /\ h.phase = "begin"
  /\ \/ /\ h.kind = "update"
        /\ IF WorkOf(h.session) = <<>> THEN Finish(i)
           ELSE Continue(i, [h EXCEPT !.phase = "lookup", !.todo = WorkOf(h.session)])
     \/ /\ h.kind # "update"
        /\ LET found == IF h.kind = "removeDevice" THEN IndicesOfDevice(h.session)
                        ELSE IndexOfEntity(h.session, h.entity)
           IN  IF found = <<>> THEN Finish(i)
               ELSE Continue(i, [h EXCEPT !.phase = "remove", !.found = found])
  /\ UNCHANGED <<available, seen, crashed>>

\* The scenarios of the next entity, and its index under the mutex.
Lookup(i) ==
  LET h == handlers[i] IN
  /\ h.phase = "lookup"
  /\ \E e \in Head(h.todo).entities :
       Continue(i, [h EXCEPT !.phase  = "store", !.entity = e,
                             !.wanted = Supported(h.session, e, Head(h.todo).scenarios),
                             !.found  = IndexOfEntity(h.session, e)])
  /\ UNCHANGED <<available, seen, crashed>>

\* Mutant of NextEntity: the update ends with the first entity.
StopAfterFirst(i) == Finish(i)

\* The handler after the current entity is done.
NextEntity(i) ==
  LET h    == handlers[i]
      rest == Head(h.todo).entities \ {h.entity}
      todo == IF rest = {} THEN Tail(h.todo)
              ELSE <<[Head(h.todo) EXCEPT !.entities = rest]>> \o Tail(h.todo)
  IN  IF h.kind # "update" \/ todo = <<>> THEN Finish(i)
      ELSE Continue(i, [h EXCEPT !.phase = "lookup", !.todo = todo])

\* Mutant of Changed: the application is told of a change of length only.
ToldOfLength(i, list) ==
  /\ available' = list
  /\ IF Len(list) = Len(available) THEN NextEntity(i)
     ELSE Continue(i, [handlers[i] EXCEPT !.phase = "notify"])
  /\ UNCHANGED crashed

Changed(i, list) ==
  /\ available' = list
  /\ Continue(i, [handlers[i] EXCEPT !.phase = "notify"])
  /\ UNCHANGED crashed

OutOfRange == crashed' = TRUE /\ UNCHANGED <<handlers, available>>

\* updateRemoteEntityScenarios after its lookup.
Store(i) ==
  LET h == handlers[i] IN
  /\ h.phase = "store"
  /\ \/ /\ h.found = <<>>
        /\ Changed(i, Append(available, [session   |-> h.session, entity |-> h.entity,
                                         scenarios |-> h.wanted]))
     \/ h.found # <<>> /\ h.found[1] > Len(available) /\ OutOfRange
     \/ /\ h.found # <<>> /\ h.found[1] <= Len(available)
        /\ IF available[h.found[1]].scenarios = h.wanted
           THEN NextEntity(i) /\ UNCHANGED <<available, crashed>>
           ELSE Changed(i, [available EXCEPT ![h.found[1]].scenarios = h.wanted])
  /\ UNCHANGED seen

\* removeEntityIndexFromAvailableEntityScenarios, the last index first.
RemoveIndex(i) ==
  LET h == handlers[i] IN
  /\ h.phase = "remove"
  /\ IF Last(h.found) > Len(available)
     THEN OutOfRange
     ELSE /\ available' = RemoveAt(available, Last(h.found))
          /\ Continue(i, [h EXCEPT !.phase = IF Len(h.found) = 1 THEN "notify" ELSE "remove",
                                   !.found = Front(h.found)])
          /\ UNCHANGED crashed
  /\ UNCHANGED seen

\* EventCB: the application reads the list.
Notify(i) ==
  /\ handlers[i].phase = "notify"
  /\ seen' = available
  /\ NextEntity(i)
  /\ UNCHANGED <<available, crashed>>

HandleEvent(i) ==
  /\ Begin(i) \/ Lookup(i) \/ Store(i) \/ RemoveIndex(i) \/ Notify(i)
  /\ UNCHANGED remote

-----------------------------------------------------------------------------
Running == IF InOrder THEN DOMAIN handlers \cap {1} ELSE DOMAIN handlers

Quiet == handlers = <<>> /\ UNCHANGED vars

Step ==
  \/ \E s \in Sessions : Connect(s) \/ Disconnect(s)
  \/ \E s \in live, e \in Entities :
       RemoveEntity(s, e) \/ \E counts \in FeatureCounts : AddEntity(s, e, counts)
  \/ \E s \in live, supports \in Announcements : Announce(s, supports)
  \/ \E i \in Running : HandleEvent(i)
  \/ Quiet

\* An index out of range ends the process.
Next == ~crashed /\ Step

Spec == Init /\ [][Next]_vars

-----------------------------------------------------------------------------
(* Properties.                                                             *)

\* The list is a map: no entity of a device is listed twice.
OneEntryPerEntity ==
  \A j, k \in DOMAIN available :
    SameEntity(available[j], available[k].session, available[k].entity) => j = k

\* Once every event is handled, only entities of connected devices are listed.
NoGhostEntities ==
  handlers = <<>> =>
    \A k \in DOMAIN available :
      /\ available[k].session \in live
      /\ available[k].entity \in entities[available[k].session]

\* The entities a support is for: those an unknown address makes the code fall
\* back to are not.
AnnouncedFor(s, support) ==
  {e \in EntitiesToCheck(s, support) : support.address # NoAddress => e = Addressed(support)}

\* Once every event is handled, each entity a device announces the use case
\* for is listed with the scenarios of the last announcement that concerns it
\* and whose server features it has.
ListsAnnounced ==
  handlers = <<>> =>
    \A s \in live : \A n \in Valid(s) : \A e \in AnnouncedFor(s, announced[s][n]) :
      (\A later \in Valid(s) : later > n => e \notin EntitiesToCheck(s, announced[s][later])) =>
        \E k \in DOMAIN available :
          available[k] = [session   |-> s, entity |-> e,
                          scenarios |-> Supported(s, e, announced[s][n].scenarios)]

\* No handler uses an index the list no longer has.
NoPanic == ~crashed

-----------------------------------------------------------------------------
(* What can go wrong between two lock sections, and nothing else: these    *)
(* hold for handlers in any order, at once or one by one. No fairness is   *)
(* assumed, so what the right side forbids must come after what the left   *)
(* side names.                                                             *)

\* Two updates have looked the entity up in vain, and neither has added it.
Misses(h, s, e) ==
  h.phase = "store" /\ h.found = <<>> /\ DeviceOf[h.session] = DeviceOf[s] /\ h.entity = e

TwoMisses(s, e) ==
  \E i, j \in DOMAIN handlers : i # j /\ Misses(handlers[i], s, e) /\ Misses(handlers[j], s, e)

ListedOnce(s, e) ==
  \A j, k \in DOMAIN available :
    SameEntity(available[j], s, e) /\ SameEntity(available[k], s, e) => j = k

\* An entity is listed twice only after two updates looked it up in vain at
\* the same time: reconnections, removals, and indices that went stale never
\* duplicate an entry.
OnlyTwoMissesDuplicate ==
  \A s \in Sessions, e \in Entities : [](~TwoMisses(s, e)) => []ListedOnce(s, e)

\* A removal has its indices while another handler has some of its own.
RemovalOverlaps ==
  \E i, j \in DOMAIN handlers :
    i # j /\ handlers[i].phase = "remove" /\ handlers[j].phase \in {"store", "remove"}

\* The entry is one the handler was looking for.
Meant(h, entry) ==
  IF h.kind = "removeDevice" THEN DeviceOf[entry.session] = DeviceOf[h.session]
  ELSE SameEntity(entry, h.session, h.entity)

IndicesHold ==
  /\ ~crashed
  /\ \A i \in DOMAIN handlers : handlers[i].phase \in {"store", "remove"} =>
       \A n \in DOMAIN handlers[i].found :
         /\ handlers[i].found[n] \in DOMAIN available
         /\ Meant(handlers[i], available[handlers[i].found[n]])

\* An index is out of range, or that of another entity, only after a removal
\* has overlapped another lookup: updates overlap each other, and a removal of
\* several entities goes from index to index, without harm.
OnlyRemovalsMislead == [](~RemovalOverlaps) => []IndicesHold

Gone(s, e) == s \notin live \/ e \notin entities[s]

\* The removal of the entity, of whatever connection of its device.
Removes(h, s, e) ==
  /\ DeviceOf[h.session] = DeviceOf[s]
  /\ h.kind = "removeDevice" \/ (h.kind = "removeEntity" /\ h.entity = e)

ToBeRemoved(s, e) ==
  \E i \in DOMAIN handlers : handlers[i].phase = "begin" /\ Removes(handlers[i], s, e)

\* An update is about to list an entity that is gone, and whose removal has
\* looked for it already.
LateUpdate(s, e) ==
  /\ Gone(s, e) /\ ~ToBeRemoved(s, e)
  /\ \E i \in DOMAIN handlers : handlers[i].session = s /\ Misses(handlers[i], s, e)

\* A removal of the entity has its indices while another removal has its own.
TwoRemovals(s, e) ==
  \E i, j \in DOMAIN handlers :
    /\ i # j /\ handlers[i].phase = "remove" /\ handlers[j].phase = "remove"
    /\ Removes(handlers[i], s, e)

Ghost(s, e) ==
  \E k \in DOMAIN available :
    available[k].session = s /\ available[k].entity = e /\ Gone(s, e)

\* What is gone stays listed once every event is handled only for one of three
\* reasons: two updates listed it at once, its removal overlapped another, or
\* an update came after its removal.
OnlyRacesLeaveGhosts ==
  \A s \in Sessions, e \in Entities :
    [](~TwoMisses(s, e) /\ ~TwoRemovals(s, e) /\ ~LateUpdate(s, e))
      => [](handlers = <<>> => ~Ghost(s, e))

-----------------------------------------------------------------------------

\* Whatever the handlers did in whatever order, once they are done the
\* application has read the list as it is: it was called after each change.
Informed == handlers = <<>> => seen = available
=============================================================================
