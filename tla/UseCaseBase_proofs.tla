--------------------------- MODULE UseCaseBase_proofs ---------------------------
(***************************************************************************)
(* Proofs about UseCaseBase, for any devices, entities, announcements and  *)
(* number of events, and for handlers in any order, at once or one by one. *)
(* The list keeps its type, and the application is called after each       *)
(* change. An entity is listed twice, an index goes wrong, and what is     *)
(* gone stays listed, only for the races UseCaseBase names.                *)
(***************************************************************************)
EXTENDS UseCaseBase, SequenceLemmas, FiniteSetTheorems, FunctionTheorems

-----------------------------------------------------------------------------
(* Positions from the first to the last.                                   *)

\* There is a sequence of the positions in a set, each larger than the one
\* before, and it has all of them.
LEMMA AscendingOf ==
  ASSUME NEW n \in Nat, NEW K \in SUBSET (1 .. n)
  PROVE  /\ Ascending(K) \in Seq(K)
         /\ \A i, j \in 1 .. Len(Ascending(K)) : i < j => Ascending(K)[i] < Ascending(K)[j]
         /\ \A k \in K : \E i \in 1 .. Len(Ascending(K)) : Ascending(K)[i] = k
<1> DEFINE c       == Cardinality(K)
           UpTo(k) == {x \in K : x <= k}
<1>1. IsFiniteSet(K) /\ c \in Nat
  <2>1. IsFiniteSet(1 .. n)
    BY FS_Interval
  <2>2. IsFiniteSet(K)
    BY <2>1, FS_Subset
  <2> QED  BY <2>2, FS_CardinalityType
<1>2. IsFiniteSet(1 .. c) /\ Cardinality(1 .. c) = c
  BY <1>1, FS_Interval
<1>3. \A k \in K : k \in Int
  OBVIOUS
<1>4. ASSUME NEW k \in K
      PROVE  /\ IsFiniteSet(UpTo(k)) /\ Cardinality(UpTo(k)) \in 1 .. c
  <2>1. UpTo(k) \in SUBSET K /\ UpTo(k) # {}
    BY <1>3
  <2>2. IsFiniteSet(UpTo(k)) /\ Cardinality(UpTo(k)) <= c
    BY <1>1, <2>1, FS_Subset
  <2>3. Cardinality(UpTo(k)) \in Nat /\ Cardinality(UpTo(k)) # 0
    BY <2>1, <2>2, FS_CardinalityType, FS_EmptySet
  <2> QED  BY <1>1, <2>2, <2>3
<1>5. ASSUME NEW k \in K, NEW l \in K, k < l
      PROVE  Cardinality(UpTo(k)) < Cardinality(UpTo(l))
  <2>1. UpTo(k) \in SUBSET UpTo(l) /\ l \in UpTo(l) /\ l \notin UpTo(k)
    <3>1. \A x \in K : x <= k => x <= l
      BY <1>5
    <3>2. l <= l /\ ~(l <= k)
      BY <1>5
    <3> QED  BY <3>1, <3>2
  <2>2. /\ Cardinality(UpTo(k)) <= Cardinality(UpTo(l))
        /\ Cardinality(UpTo(l)) = Cardinality(UpTo(k)) => UpTo(l) = UpTo(k)
    BY <1>4, <2>1, FS_Subset
  <2>3. Cardinality(UpTo(l)) \in Int /\ Cardinality(UpTo(k)) \in Int
    BY <1>1, <1>4
  <2>4. Cardinality(UpTo(l)) # Cardinality(UpTo(k))
    BY <2>1, <2>2
  <2> HIDE DEF UpTo
  <2> QED  BY <2>2, <2>3, <2>4
<1> DEFINE rank == [k \in K |-> Cardinality(UpTo(k))]
<1>6. rank \in [K -> 1 .. c] /\ \A k, l \in K : k < l => rank[k] < rank[l]
  BY <1>4, <1>5
<1> HIDE DEF rank, UpTo, c
<1>7. rank \in Surjection(K, 1 .. c)
  <2>1. ASSUME NEW k \in K, NEW l \in K, rank[k] = rank[l] PROVE k = l
    <3>1. k < l \/ l < k \/ k = l
      BY <1>3
    <3>2. rank[k] \in Int /\ rank[l] \in Int
      BY <1>1, <1>6
    <3> QED  BY <1>6, <2>1, <3>1, <3>2
  <2>2. rank \in Injection(K, 1 .. c)
    BY <1>6, <2>1, Fun_IsInj
  <2>3. Cardinality(K) = Cardinality(1 .. c)
    BY <1>2 DEF c
  <2> QED  BY <1>2, <2>2, <2>3, FS_Injection
<1>8. \A i \in 1 .. c : \E k \in K : rank[k] = i
  BY <1>7, Fun_SurjectionProperties
<1> DEFINE asc == [i \in 1 .. c |-> CHOOSE k \in K : rank[k] = i]
<1>9. asc \in [1 .. c -> K] /\ \A i \in 1 .. c : asc[i] \in K /\ rank[asc[i]] = i
  BY <1>8
<1> HIDE DEF asc
<1>10. ASSUME NEW i \in 1 .. c, NEW j \in 1 .. c, i < j
       PROVE  asc[i] < asc[j]
  <2>1. asc[i] \in K /\ asc[j] \in K /\ rank[asc[i]] = i /\ rank[asc[j]] = j
    BY <1>9
  <2>2. asc[i] < asc[j] \/ asc[j] < asc[i] \/ asc[i] = asc[j]
    <3>1. asc[i] \in Int /\ asc[j] \in Int
      BY <1>3, <2>1
    <3> QED  BY <3>1
  <2>3. asc[j] < asc[i] => j < i
    BY <1>6, <2>1
  <2> QED  BY <1>1, <1>10, <2>1, <2>2, <2>3
<1>11. PICK p \in [1 .. c -> K] :
         /\ p = Ascending(K)
         /\ \A i, j \in 1 .. c : i < j => p[i] < p[j]
  <2>1. \E q \in [1 .. c -> K] : \A i, j \in DOMAIN q : i < j => q[i] < q[j]
    BY <1>9, <1>10
  <2> QED  BY <2>1 DEF Ascending, c
<1>12. p \in Seq(K) /\ Len(p) = c
  BY <1>1, FunctionIsSeq
<1>13. p \in Surjection(1 .. c, K)
  <2>1. ASSUME NEW i \in 1 .. c, NEW j \in 1 .. c, p[i] = p[j] PROVE i = j
    <3>1. i < j \/ j < i \/ i = j
      BY <1>1
    <3>2. p[i] \in Int /\ p[j] \in Int
      BY <1>3
    <3> QED  BY <1>11, <2>1, <3>1, <3>2
  <2>2. p \in Injection(1 .. c, K)
    BY <2>1, Fun_IsInj
  <2>3. Cardinality(1 .. c) = Cardinality(K)
    BY <1>2 DEF c
  <2>4. PICK D : D = 1 .. c
    OBVIOUS
  <2>5. p \in Injection(D, K) /\ Cardinality(D) = Cardinality(K) /\ IsFiniteSet(K)
    BY <1>1, <2>2, <2>3, <2>4
  <2>6. p \in Surjection(D, K)
    BY <2>5, FS_Injection
  <2> QED  BY <2>4, <2>6
<1>14. \A k \in K : \E i \in 1 .. c : p[i] = k
  BY <1>13 DEF Surjection
<1> QED  BY <1>11, <1>12, <1>14

\* The first of some positions.
LEMMA FirstOf ==
  ASSUME NEW n \in Nat, NEW K \in SUBSET (1 .. n), K # {}
  PROVE  \E k \in K : \A j \in K : k <= j
<1>1. PICK q \in Seq(K) :
        /\ \A i, j \in 1 .. Len(q) : i < j => q[i] < q[j]
        /\ \A k \in K : \E i \in 1 .. Len(q) : q[i] = k
  BY AscendingOf
<1>2. Len(q) \in Nat /\ \E i \in 1 .. Len(q) : TRUE
  BY <1>1, LenProperties
<1>3. 1 \in 1 .. Len(q)
  BY <1>2
<1>4. q[1] \in K
  BY <1>3, ElementOfSeq
<1>5. ASSUME NEW j \in K PROVE q[1] <= j
  <2>1. PICK i \in 1 .. Len(q) : q[i] = j
    BY <1>1
  <2>2. i = 1 \/ 1 < i
    <3>1. i \in Int /\ 1 <= i
      BY <1>2
    <3> QED  BY <3>1
  <2>3. q[1] \in Int /\ j \in Int
    <3>1. \A k \in K : k \in Int
      OBVIOUS
    <3> QED  BY <1>4, <3>1
  <2> QED  BY <1>1, <1>3, <2>1, <2>2, <2>3
<1> QED  BY <1>4, <1>5
-----------------------------------------------------------------------------
(* What handlers read.                                                     *)

\* The indices of a device: all of them, in their order.
LEMMA IndicesFound ==
  ASSUME available \in Seq(Entry), NEW s
  PROVE  /\ IndicesOfDevice(s) \in Seq(1 .. Len(available))
         /\ \A i, j \in 1 .. Len(IndicesOfDevice(s)) :
              i < j => IndicesOfDevice(s)[i] < IndicesOfDevice(s)[j]
         /\ \A i \in 1 .. Len(IndicesOfDevice(s)) :
              DeviceOf[available[IndicesOfDevice(s)[i]].session] = DeviceOf[s]
         /\ \A k \in 1 .. Len(available) :
              DeviceOf[available[k].session] = DeviceOf[s] =>
                \E i \in 1 .. Len(IndicesOfDevice(s)) : IndicesOfDevice(s)[i] = k
<1> DEFINE K == {k \in DOMAIN available : DeviceOf[available[k].session] = DeviceOf[s]}
<1>1. DOMAIN available = 1 .. Len(available) /\ Len(available) \in Nat
  BY LenProperties
<1>2. K \in SUBSET (1 .. Len(available))
  BY <1>1
<1>3. /\ \A k \in K : DeviceOf[available[k].session] = DeviceOf[s]
      /\ \A k \in 1 .. Len(available) : DeviceOf[available[k].session] = DeviceOf[s] => k \in K
  BY <1>1
<1>4. IndicesOfDevice(s) = Ascending(K)
  BY DEF IndicesOfDevice
<1> HIDE DEF K
<1>5. PICK q : q = Ascending(K)
  OBVIOUS
<1>6. /\ q \in Seq(K) /\ \A i, j \in 1 .. Len(q) : i < j => q[i] < q[j]
      /\ \A k \in K : \E i \in 1 .. Len(q) : q[i] = k
  BY <1>1, <1>2, <1>5, AscendingOf
<1>7. q \in Seq(1 .. Len(available))
  BY <1>2, <1>6, SeqMonotonic
<1>8. \A i \in 1 .. Len(q) : q[i] \in K
  BY <1>6, ElementOfSeq
<1> QED  BY <1>3, <1>4, <1>5, <1>6, <1>7, <1>8

\* The index of an entity: none, or one of it.
LEMMA IndexFound ==
  ASSUME available \in Seq(Entry), NEW s, NEW e
  PROVE  /\ IndexOfEntity(s, e) \in Seq(Nat \ {0})
         /\ \/ /\ IndexOfEntity(s, e) = <<>>
               /\ \A k \in 1 .. Len(available) : ~SameEntity(available[k], s, e)
            \/ \E k \in 1 .. Len(available) : /\ IndexOfEntity(s, e) = <<k>>
                                              /\ SameEntity(available[k], s, e)
<1>1. DOMAIN available = 1 .. Len(available) /\ Len(available) \in Nat
  BY LenProperties
<1>2. IndicesOfEntity(s, e) \in SUBSET (1 .. Len(available))
  BY <1>1 DEF IndicesOfEntity
<1>3. ASSUME IndicesOfEntity(s, e) = {}
      PROVE  /\ IndexOfEntity(s, e) = <<>>
             /\ \A k \in 1 .. Len(available) : ~SameEntity(available[k], s, e)
  BY <1>1, <1>3 DEF IndexOfEntity, IndicesOfEntity
<1>4. ASSUME IndicesOfEntity(s, e) # {}
      PROVE  \E k \in 1 .. Len(available) : /\ IndexOfEntity(s, e) = <<k>>
                                           /\ SameEntity(available[k], s, e)
  <2>1. \E k \in IndicesOfEntity(s, e) : \A j \in IndicesOfEntity(s, e) : k <= j
    BY <1>1, <1>2, <1>4, FirstOf
  <2>2. PICK k \in IndicesOfEntity(s, e) : IndexOfEntity(s, e) = <<k>>
    BY <1>4, <2>1 DEF IndexOfEntity
  <2> QED  BY <1>2, <2>2 DEF IndicesOfEntity
<1>5. <<>> \in Seq(Nat \ {0}) /\ \A k \in 1 .. Len(available) : <<k>> \in Seq(Nat \ {0})
  BY <1>1, Short, EmptySeq
<1> QED  BY <1>3, <1>4, <1>5

\* The work of an update: the supports of valid actors that have entities to
\* check, in the order announced.
LEMMA WorkFound ==
  ASSUME TypeOK, NEW s \in Sessions
  PROVE  /\ WorkOf(s) \in Seq(Work)
         /\ \E q \in Seq(Valid(s)) :
              /\ Len(q) = Len(WorkOf(s))
              /\ \A i, j \in 1 .. Len(q) : i < j => q[i] < q[j]
              /\ \A n \in Valid(s) : EntitiesToCheck(s, announced[s][n]) # {} =>
                   \E i \in 1 .. Len(q) : q[i] = n
              /\ \A i \in 1 .. Len(q) :
                   /\ WorkOf(s)[i].entities = EntitiesToCheck(s, announced[s][q[i]])
                   /\ WorkOf(s)[i].scenarios = announced[s][q[i]].scenarios
<1>1. announced[s] \in Seq(Support)
  BY OffersAssumption, EmptySeq DEF TypeOK
<1>2. DOMAIN announced[s] = 1 .. Len(announced[s]) /\ Len(announced[s]) \in Nat
  BY <1>1, LenProperties
<1> DEFINE K == {n \in Valid(s) : EntitiesToCheck(s, announced[s][n]) # {}}
<1>3. /\ K \in SUBSET (1 .. Len(announced[s])) /\ K \subseteq Valid(s)
      /\ \A n \in Valid(s) : EntitiesToCheck(s, announced[s][n]) # {} => n \in K
  BY <1>2 DEF Valid
<1>4. PICK q : q = SupportsToCheck(s) /\ q = Ascending(K)
  BY DEF SupportsToCheck
<1> HIDE DEF K
<1>5. /\ q \in Seq(K) /\ \A i, j \in 1 .. Len(q) : i < j => q[i] < q[j]
      /\ \A k \in K : \E i \in 1 .. Len(q) : q[i] = k
  BY <1>2, <1>3, <1>4, AscendingOf
<1>6. q \in Seq(Valid(s)) /\ Len(q) \in Nat /\ DOMAIN q = 1 .. Len(q)
  BY <1>3, <1>5, SeqMonotonic, LenProperties
<1>7. \A i \in 1 .. Len(q) : announced[s][q[i]] \in Support
  <2>1. \A i \in 1 .. Len(q) : q[i] \in 1 .. Len(announced[s])
    BY <1>3, <1>5, ElementOfSeq
  <2> QED  BY <1>1, <2>1, ElementOfSeq
<1> DEFINE item(i) == [entities  |-> EntitiesToCheck(s, announced[s][q[i]]),
                       scenarios |-> announced[s][q[i]].scenarios]
<1>8. WorkOf(s) = [i \in 1 .. Len(q) |-> item(i)]
  BY <1>4, <1>6 DEF WorkOf
<1>9. ASSUME NEW i \in 1 .. Len(q)
      PROVE  /\ item(i) \in Work
             /\ item(i).entities = EntitiesToCheck(s, announced[s][q[i]])
             /\ item(i).scenarios = announced[s][q[i]].scenarios
  <2>1. EntitiesToCheck(s, announced[s][q[i]]) \in SUBSET Entities
    BY RequiredAssumption DEF EntitiesToCheck
  <2>2. announced[s][q[i]].scenarios \in SUBSET Scenarios
    BY <1>7 DEF Support
  <2> QED  BY <2>1, <2>2 DEF Work
<1> HIDE DEF item
<1>10. WorkOf(s) \in [1 .. Len(q) -> Work] /\ \A i \in 1 .. Len(q) : WorkOf(s)[i] = item(i)
  BY <1>8, <1>9
<1>11. WorkOf(s) \in Seq(Work) /\ Len(WorkOf(s)) = Len(q)
  BY <1>6, <1>10, FunctionIsSeq
<1>12. \A n \in Valid(s) : EntitiesToCheck(s, announced[s][n]) # {} =>
         \E i \in 1 .. Len(q) : q[i] = n
  BY <1>3, <1>5
<1>13. \A i \in 1 .. Len(q) :
         /\ WorkOf(s)[i].entities = EntitiesToCheck(s, announced[s][q[i]])
         /\ WorkOf(s)[i].scenarios = announced[s][q[i]].scenarios
  BY <1>9, <1>10
<1> QED  BY <1>5, <1>6, <1>11, <1>12, <1>13
-----------------------------------------------------------------------------
(* What a step of a handler does to it.                                    *)

SameEvent(g, h) == g.kind = h.kind /\ g.session = h.session

\* A handler in the middle of its work has what the phase needs.
WellFormed(h) ==
  /\ h.phase \in {"lookup", "store"} => h.kind = "update"
  /\ h.phase = "remove" => h.kind # "update" /\ h.found # <<>>
  /\ (h.kind = "update" /\ h.phase # "begin") => h.todo # <<>>
  /\ h.phase = "store" => h.entity \in Entities

TypeInv == TypeOK /\ \A i \in 1 .. Len(handlers) : WellFormed(handlers[i])

\* The work that is left after the current entity.
Rest(h) ==
  LET rest == Head(h.todo).entities \ {h.entity}
  IN  IF rest = {} THEN Tail(h.todo)
      ELSE <<[Head(h.todo) EXCEPT !.entities = rest]>> \o Tail(h.todo)

\* It is the work there was, without the entity in its first item, and without
\* this item if it has no other.
LEMMA RestOfWork ==
  ASSUME NEW h \in Handler, h.todo # <<>>
  PROVE  /\ Rest(h) \in Seq(Work)
         /\ 1 \in 1 .. Len(h.todo) /\ Head(h.todo) = h.todo[1] /\ Head(h.todo) \in Work
         /\ \/ /\ h.todo[1].entities \ {h.entity} = {}
               /\ Len(Rest(h)) = Len(h.todo) - 1
               /\ \A n \in 1 .. Len(Rest(h)) :
                    n + 1 \in 1 .. Len(h.todo) /\ Rest(h)[n] = h.todo[n + 1]
            \/ /\ Len(Rest(h)) = Len(h.todo)
               /\ Rest(h)[1].entities = h.todo[1].entities \ {h.entity}
               /\ Rest(h)[1].scenarios = h.todo[1].scenarios
               /\ \A n \in 2 .. Len(Rest(h)) :
                    n \in 2 .. Len(h.todo) /\ Rest(h)[n] = h.todo[n]
<1> DEFINE rest == Head(h.todo).entities \ {h.entity}
<1>1. h.todo \in Seq(Work)
  BY DEF Handler
<1>2. /\ Head(h.todo) = h.todo[1] /\ Head(h.todo) \in Work /\ 1 \in 1 .. Len(h.todo)
      /\ Tail(h.todo) \in Seq(Work) /\ Len(Tail(h.todo)) = Len(h.todo) - 1
      /\ \A n \in 1 .. Len(Tail(h.todo)) : n + 1 \in 1 .. Len(h.todo) /\ Tail(h.todo)[n] = h.todo[n + 1]
  BY <1>1, Taken, HeadTailProperties
<1>3. Len(h.todo) \in Nat
  BY <1>1, LenProperties
<1>4. CASE rest = {}
  BY <1>2, <1>4 DEF Rest
<1>5. CASE rest # {}
  <2>1. PICK head : head = [Head(h.todo) EXCEPT !.entities = rest]
    OBVIOUS
  <2>2. head \in Work /\ head.entities = rest /\ head.scenarios = Head(h.todo).scenarios
    BY <1>2, <2>1 DEF Work
  <2>3. PICK a, b : a = <<head>> /\ b = Tail(h.todo)
    OBVIOUS
  <2>4. a \in Seq(Work) /\ Len(a) = 1 /\ a[1] = head /\ b \in Seq(Work) /\ Len(b) = Len(h.todo) - 1
    BY <1>2, <2>2, <2>3
  <2>5. Rest(h) = a \o b
    BY <1>5, <2>1, <2>3 DEF Rest
  <2>6. /\ a \o b \in Seq(Work) /\ Len(a \o b) = Len(h.todo)
        /\ \A n \in 1 .. Len(h.todo) : (a \o b)[n] = IF n <= 1 THEN a[n] ELSE b[n - 1]
    <3>1. /\ a \o b \in Seq(Work) /\ Len(a \o b) = Len(a) + Len(b)
          /\ \A n \in 1 .. Len(a) + Len(b) : (a \o b)[n] = IF n <= Len(a) THEN a[n] ELSE b[n - Len(a)]
      BY <2>4, ConcatProperties
    <3>2. Len(a) + Len(b) = Len(h.todo)
      BY <1>3, <2>4
    <3> QED  BY <2>4, <3>1, <3>2
  <2>7. (a \o b)[1] = head
    BY <1>2, <2>4, <2>6
  <2>8. ASSUME NEW n \in 2 .. Len(h.todo)
        PROVE  (a \o b)[n] = h.todo[n]
    <3>1. n \in 1 .. Len(h.todo) /\ ~(n <= 1) /\ n - 1 \in 1 .. Len(Tail(h.todo)) /\ (n - 1) + 1 = n
      BY <1>2, <1>3, <2>8
    <3> QED  BY <1>2, <2>3, <2>6, <3>1
  <2> QED  BY <1>2, <2>2, <2>5, <2>6, <2>7, <2>8
<1> QED  BY <1>4, <1>5

\* A handler goes on with the next entity, if there is one.
LEMMA NextEntityEffect ==
  ASSUME NEW i, NEW h \in Handler, h = handlers[i], h.kind = "update" => h.todo # <<>>,
         NextEntity(i)
  PROVE  \/ (h.kind # "update" \/ Rest(h) = <<>>) /\ Finish(i)
         \/ /\ h.kind = "update" /\ Rest(h) # <<>>
            /\ \E g \in Handler : Continue(i, g) /\ SameEvent(g, h) /\ g.phase = "lookup" /\ g.todo = Rest(h)
<1>1. CASE h.kind # "update" \/ Rest(h) = <<>>
  BY <1>1 DEF NextEntity, Rest
<1>2. CASE h.kind = "update" /\ Rest(h) # <<>>
  <2>1. PICK t \in Seq(Work) : t = Rest(h)
    BY <1>2, RestOfWork
  <2>2. PICK g : g = [h EXCEPT !.phase = "lookup", !.todo = t]
    OBVIOUS
  <2>3. Continue(i, g)
    BY <1>2, <2>1, <2>2 DEF NextEntity, Rest
  <2>4. g \in Handler /\ SameEvent(g, h) /\ g.phase = "lookup" /\ g.todo = t
    BY <2>2 DEF Handler, Phases, SameEvent
  <2> QED  BY <1>2, <2>1, <2>3, <2>4
<1> QED  BY <1>1, <1>2

\* Update or removal, an event without work is handled.
LEMMA BeginEffect ==
  ASSUME TypeInv, NEW i, NEW h \in Handler, h = handlers[i], Begin(i)
  PROVE  /\ h.phase = "begin" /\ UNCHANGED <<available, seen, crashed>>
         /\ \/ h.kind = "update" /\ WorkOf(h.session) = <<>> /\ Finish(i)
            \/ /\ h.kind = "update" /\ WorkOf(h.session) # <<>>
               /\ \E g \in Handler : /\ Continue(i, g) /\ SameEvent(g, h) /\ g.phase = "lookup"
                                     /\ g.todo = WorkOf(h.session)
            \/ /\ h.kind # "update"
               /\ \E found \in Seq(Nat \ {0}) :
                    /\ found = IF h.kind = "removeDevice" THEN IndicesOfDevice(h.session)
                               ELSE IndexOfEntity(h.session, h.entity)
                    /\ \/ found = <<>> /\ Finish(i)
                       \/ /\ found # <<>>
                          /\ \E g \in Handler : /\ Continue(i, g) /\ SameEvent(g, h)
                                                /\ g.phase = "remove" /\ g.found = found
                                                /\ g.entity = h.entity
<1>1. h.phase = "begin" /\ UNCHANGED <<available, seen, crashed>>
  BY DEF Begin
<1>2. h.session \in Sessions /\ available \in Seq(Entry) /\ TypeOK
  BY DEF Handler, TypeInv, TypeOK
<1>3. CASE h.kind = "update" /\ WorkOf(h.session) = <<>>
  BY <1>1, <1>3 DEF Begin
<1>4. CASE h.kind = "update" /\ WorkOf(h.session) # <<>>
  <2>1. PICK t \in Seq(Work) : t = WorkOf(h.session)
    BY <1>2, WorkFound
  <2>2. PICK g : g = [h EXCEPT !.phase = "lookup", !.todo = t]
    OBVIOUS
  <2>3. Continue(i, g)
    BY <1>4, <2>1, <2>2 DEF Begin
  <2>4. g \in Handler /\ SameEvent(g, h) /\ g.phase = "lookup" /\ g.todo = t
    BY <2>2 DEF Handler, Phases, SameEvent
  <2> QED  BY <1>1, <1>4, <2>1, <2>3, <2>4
<1>5. CASE h.kind # "update"
  <2>1. PICK found : found = IF h.kind = "removeDevice" THEN IndicesOfDevice(h.session)
                             ELSE IndexOfEntity(h.session, h.entity)
    OBVIOUS
  <2>2. Len(available) \in Nat /\ 1 .. Len(available) \subseteq Nat \ {0}
    BY <1>2, LenProperties
  <2>3. IndicesOfDevice(h.session) \in Seq(1 .. Len(available))
    BY <1>2, IndicesFound
  <2>4. IndexOfEntity(h.session, h.entity) \in Seq(Nat \ {0})
    BY <1>2, IndexFound
  <2>5. found \in Seq(Nat \ {0})
    BY <2>1, <2>2, <2>3, <2>4, SeqMonotonic
  <2>6. CASE found = <<>>
    <3>1. Finish(i)
      BY <1>5, <2>1, <2>6 DEF Begin
    <3> QED  BY <1>1, <1>5, <2>1, <2>5, <2>6, <3>1
  <2>7. CASE found # <<>>
    <3>1. PICK g : g = [h EXCEPT !.phase = "remove", !.found = found]
      OBVIOUS
    <3>2. Continue(i, g)
      BY <1>5, <2>1, <2>7, <3>1 DEF Begin
    <3>3. /\ g \in Handler /\ SameEvent(g, h) /\ g.phase = "remove" /\ g.found = found
          /\ g.entity = h.entity
      BY <2>5, <3>1 DEF Handler, Phases, SameEvent
    <3> QED  BY <1>1, <1>5, <2>1, <2>5, <2>7, <3>2, <3>3
  <2> QED  BY <2>6, <2>7
<1> QED  BY <1>3, <1>4, <1>5

\* The next entity to check, with the scenarios it supports and its index.
LEMMA LookupEffect ==
  ASSUME TypeInv, NEW i, NEW h \in Handler, h = handlers[i], WellFormed(h), Lookup(i)
  PROVE  /\ h.phase = "lookup" /\ h.kind = "update" /\ h.todo # <<>>
         /\ UNCHANGED <<available, seen, crashed>>
         /\ \E e \in h.todo[1].entities, g \in Handler :
              /\ Continue(i, g) /\ SameEvent(g, h) /\ g.phase = "store" /\ g.entity = e /\ e \in Entities
              /\ g.todo = h.todo /\ g.wanted = Supported(h.session, e, h.todo[1].scenarios)
              /\ g.found = IndexOfEntity(h.session, e)
<1>1. /\ h.phase = "lookup" /\ h.kind = "update" /\ h.todo # <<>>
      /\ UNCHANGED <<available, seen, crashed>>
  BY DEF Lookup, WellFormed
<1>2. Head(h.todo) = h.todo[1] /\ h.todo[1] \in Work
  BY <1>1, RestOfWork
<1>3. PICK e \in Head(h.todo).entities :
        Continue(i, [h EXCEPT !.phase  = "store", !.entity = e,
                              !.wanted = Supported(h.session, e, Head(h.todo).scenarios),
                              !.found  = IndexOfEntity(h.session, e)])
  BY DEF Lookup
<1>4. e \in Entities /\ e \in h.todo[1].entities
  BY <1>2, <1>3 DEF Work
<1>5. PICK w \in SUBSET Scenarios : w = Supported(h.session, e, Head(h.todo).scenarios)
  BY <1>2 DEF Work, Supported
<1>6. PICK f \in Seq(Nat \ {0}) : f = IndexOfEntity(h.session, e)
  BY IndexFound DEF TypeInv, TypeOK
<1>7. PICK g : g = [h EXCEPT !.phase = "store", !.entity = e, !.wanted = w, !.found = f]
  OBVIOUS
<1>8. Continue(i, g)
  BY <1>3, <1>5, <1>6, <1>7
<1>9. /\ g \in Handler /\ SameEvent(g, h) /\ g.phase = "store" /\ g.entity = e
      /\ g.todo = h.todo /\ g.wanted = w /\ g.found = f
  BY <1>4, <1>7 DEF Handler, Phases, SameEvent
<1>10. w = Supported(h.session, e, h.todo[1].scenarios)
  BY <1>2, <1>5
<1> QED  BY <1>1, <1>4, <1>6, <1>8, <1>9, <1>10

\* The application is to be told of the change.
Notifies(i, h) ==
  \E g \in Handler :
    /\ Continue(i, g) /\ SameEvent(g, h) /\ g.phase = "notify"
    /\ g.entity = h.entity /\ g.todo = h.todo /\ g.wanted = h.wanted

\* With the list as it was to be.
LEMMA ChangedEffect ==
  ASSUME NEW i, NEW h \in Handler, h = handlers[i], NEW list, Changed(i, list)
  PROVE  available' = list /\ UNCHANGED crashed /\ Notifies(i, h)
<1>1. PICK g : g = [h EXCEPT !.phase = "notify"]
  OBVIOUS
<1>2. Continue(i, g) /\ available' = list /\ UNCHANGED crashed
  BY <1>1 DEF Changed
<1>3. /\ g \in Handler /\ SameEvent(g, h) /\ g.phase = "notify"
      /\ g.entity = h.entity /\ g.todo = h.todo /\ g.wanted = h.wanted
  BY <1>1 DEF Handler, Phases, SameEvent
<1> QED  BY <1>2, <1>3 DEF Notifies

\* A new entry, no entry at the index, the entry as it was, or an entry with
\* other scenarios.
LEMMA StoreEffect ==
  ASSUME TypeInv, NEW i, NEW h \in Handler, h = handlers[i], WellFormed(h), Store(i)
  PROVE  /\ h.phase = "store" /\ h.kind = "update" /\ h.todo # <<>> /\ h.entity \in Entities
         /\ UNCHANGED seen
         /\ \/ /\ h.found = <<>> /\ Notifies(i, h) /\ UNCHANGED crashed
               /\ \E entry \in Entry :
                    /\ entry = [session |-> h.session, entity |-> h.entity, scenarios |-> h.wanted]
                    /\ available' = Append(available, entry)
            \/ /\ h.found # <<>> /\ h.found[1] > Len(available)
               /\ crashed' = TRUE /\ UNCHANGED <<handlers, available>>
            \/ /\ h.found # <<>> /\ h.found[1] \in 1 .. Len(available)
               /\ available[h.found[1]].scenarios = h.wanted
               /\ NextEntity(i) /\ UNCHANGED <<available, crashed>>
            \/ /\ h.found # <<>> /\ h.found[1] \in 1 .. Len(available)
               /\ Notifies(i, h) /\ UNCHANGED crashed
               /\ available' \in Seq(Entry) /\ Len(available') = Len(available)
               /\ \A k \in 1 .. Len(available) :
                    IF k = h.found[1]
                    THEN available'[k] = [session   |-> available[k].session,
                                          entity    |-> available[k].entity,
                                          scenarios |-> h.wanted]
                    ELSE available'[k] = available[k]
<1>1. /\ h.phase = "store" /\ h.kind = "update" /\ h.todo # <<>> /\ h.entity \in Entities
      /\ UNCHANGED seen
  BY DEF Store, WellFormed
<1>2. h.session \in Sessions /\ h.wanted \in SUBSET Scenarios /\ h.found \in Seq(Nat \ {0})
  BY DEF Handler
<1>3. available \in Seq(Entry) /\ Len(available) \in Nat
  BY LenProperties DEF TypeInv, TypeOK
<1>4. CASE h.found = <<>> /\ Changed(i, Append(available, [session   |-> h.session, entity |-> h.entity,
                                                         scenarios |-> h.wanted]))
  <2>1. PICK entry \in Entry :
          entry = [session |-> h.session, entity |-> h.entity, scenarios |-> h.wanted]
    BY <1>1, <1>2 DEF Entry
  <2>2. PICK list : list = Append(available, entry)
    OBVIOUS
  <2>3. Changed(i, list)
    BY <1>4, <2>1, <2>2
  <2>4. available' = list /\ UNCHANGED crashed /\ Notifies(i, h)
    BY <2>3, ChangedEffect
  <2> QED  BY <1>1, <1>4, <2>1, <2>2, <2>4
<1>5. CASE h.found # <<>> /\ h.found[1] > Len(available) /\ OutOfRange
  BY <1>1, <1>5 DEF OutOfRange
<1>6. ASSUME h.found # <<>>, h.found[1] <= Len(available)
      PROVE  h.found[1] \in 1 .. Len(available)
  <2>1. 1 \in 1 .. Len(h.found)
    BY <1>2, <1>6, Taken
  <2>2. h.found[1] \in Nat \ {0}
    BY <1>2, <2>1, ElementOfSeq
  <2> QED  BY <1>3, <1>6, <2>2
<1>7. CASE /\ h.found # <<>> /\ h.found[1] <= Len(available)
           /\ available[h.found[1]].scenarios = h.wanted
           /\ NextEntity(i) /\ UNCHANGED <<available, crashed>>
  BY <1>1, <1>6, <1>7
<1>8. CASE /\ h.found # <<>> /\ h.found[1] <= Len(available)
           /\ Changed(i, [available EXCEPT ![h.found[1]].scenarios = h.wanted])
  <2>1. PICK k \in 1 .. Len(available) : k = h.found[1]
    BY <1>6, <1>8
  <2>2. available[k] \in Entry
    BY <1>3, ElementOfSeq
  <2>3. PICK entry \in Entry : entry = [available[k] EXCEPT !.scenarios = h.wanted]
    BY <1>2, <2>2 DEF Entry
  <2>4. entry = [session |-> available[k].session, entity |-> available[k].entity, scenarios |-> h.wanted]
    BY <2>2, <2>3 DEF Entry
  <2>5. PICK list : list = [available EXCEPT ![k] = entry]
    OBVIOUS
  <2>6. Changed(i, list)
    BY <1>8, <2>1, <2>3, <2>5
  <2>7. available' = list /\ UNCHANGED crashed /\ Notifies(i, h)
    BY <2>6, ChangedEffect
  <2>8. /\ list \in Seq(Entry) /\ Len(list) = Len(available)
        /\ \A j \in 1 .. Len(available) : list[j] = IF j = k THEN entry ELSE available[j]
    BY <1>3, <2>5, ExceptSeq
  <2> QED  BY <1>1, <1>8, <2>1, <2>4, <2>7, <2>8
<1> QED  BY <1>4, <1>5, <1>7, <1>8 DEF Store

\* The entry at the last index goes, and the handler goes on with the others.
RemovesLast(i, h) ==
  LET last == Len(h.found) IN
  /\ h.found[last] \in 1 .. Len(available) /\ UNCHANGED crashed
  /\ available' = RemoveAt(available, h.found[last])
  /\ \E g \in Handler :
       /\ Continue(i, g) /\ SameEvent(g, h) /\ g.entity = h.entity
       /\ \/ g.phase = "notify" /\ last = 1
          \/ g.phase = "remove" /\ g.found # <<>>
       /\ Len(g.found) = last - 1
       /\ \A n \in 1 .. Len(g.found) : n \in 1 .. last /\ g.found[n] = h.found[n]

\* If the list has it.
LEMMA RemoveIndexEffect ==
  ASSUME TypeInv, NEW i, NEW h \in Handler, h = handlers[i], WellFormed(h), RemoveIndex(i)
  PROVE  /\ h.phase = "remove" /\ h.kind # "update" /\ UNCHANGED seen /\ Len(h.found) \in 1 .. Len(h.found)
         /\ \/ h.found[Len(h.found)] > Len(available) /\ crashed' = TRUE /\ UNCHANGED <<handlers, available>>
            \/ RemovesLast(i, h)
<1>1. h.phase = "remove" /\ h.kind # "update" /\ UNCHANGED seen /\ h.found # <<>>
  BY DEF RemoveIndex, WellFormed
<1>2. h.found \in Seq(Nat \ {0})
  BY DEF Handler
<1>3. PICK n \in Nat : n = Len(h.found) /\ n \in 1 .. Len(h.found)
  BY <1>1, <1>2, EmptySeq
<1>4. h.found[n] \in Nat \ {0}
  BY <1>2, <1>3, ElementOfSeq
<1>5. available \in Seq(Entry) /\ Len(available) \in Nat
  BY LenProperties DEF TypeInv, TypeOK
<1>6. CASE h.found[n] > Len(available)
  BY <1>1, <1>3, <1>6 DEF RemoveIndex, OutOfRange, Last
<1>7. CASE ~(h.found[n] > Len(available))
  <2>1. h.found[n] \in 1 .. Len(available)
    BY <1>4, <1>5, <1>7
  <2>2. /\ available' = RemoveAt(available, h.found[n]) /\ UNCHANGED crashed
        /\ Continue(i, [h EXCEPT !.phase = IF Len(h.found) = 1 THEN "notify" ELSE "remove",
                                 !.found = Front(h.found)])
    BY <1>3, <1>7 DEF RemoveIndex, Last
  <2>3. PICK p \in Phases : p = IF n = 1 THEN "notify" ELSE "remove"
    BY DEF Phases
  <2>4. \A k \in 1 .. n - 1 : h.found[k] \in Nat \ {0}
    BY <1>2, <1>3, ElementOfSeq
  <2>5. /\ SubSeq(h.found, 1, n - 1) \in Seq(Nat \ {0})
        /\ Len(SubSeq(h.found, 1, n - 1)) = IF 1 <= n - 1 THEN (n - 1) - 1 + 1 ELSE 0
        /\ \A k \in 1 .. (n - 1) - 1 + 1 : SubSeq(h.found, 1, n - 1)[k] = h.found[1 + k - 1]
    BY <1>3, <2>4, SubSeqProperties
  <2>6. PICK f \in Seq(Nat \ {0}) : f = SubSeq(h.found, 1, n - 1)
    BY <2>5
  <2>7. /\ Len(f) = n - 1 /\ (n # 1 => f # <<>>)
        /\ \A k \in 1 .. Len(f) : k \in 1 .. n /\ f[k] = h.found[k]
    <3>1. Len(f) = n - 1 /\ \A k \in 1 .. n - 1 : k \in 1 .. n /\ f[k] = h.found[k]
      BY <1>3, <2>5, <2>6
    <3>2. n # 1 => Len(f) # 0
      BY <3>1
    <3>3. Len(<<>>) = 0
      BY EmptySeq
    <3> QED  BY <3>1, <3>2, <3>3
  <2>8. PICK g : g = [h EXCEPT !.phase = p, !.found = f]
    OBVIOUS
  <2>9. Continue(i, g)
    BY <1>3, <2>2, <2>3, <2>6, <2>8 DEF Front
  <2>10. g \in Handler /\ SameEvent(g, h) /\ g.entity = h.entity /\ g.phase = p /\ g.found = f
    BY <2>8 DEF Handler, SameEvent
  <2>11. /\ available' = RemoveAt(available, h.found[Len(h.found)]) /\ Len(h.found) \in 1 .. Len(h.found)
         /\ h.found[Len(h.found)] \in 1 .. Len(available)
    BY <1>3, <2>1, <2>2
  <2>12. /\ \/ g.phase = "notify" /\ Len(h.found) = 1
            \/ g.phase = "remove" /\ g.found # <<>>
         /\ Len(g.found) = Len(h.found) - 1
         /\ \A k \in 1 .. Len(g.found) : k \in 1 .. Len(h.found) /\ g.found[k] = h.found[k]
    BY <1>3, <2>3, <2>7, <2>10
  <2>13. RemovesLast(i, h)
    BY <2>2, <2>9, <2>10, <2>11, <2>12 DEF RemovesLast
  <2> QED  BY <1>1, <2>11, <2>13
<1> QED  BY <1>6, <1>7
-----------------------------------------------------------------------------
(* The type invariant.                                                     *)

\* A handler that is done leaves the queue; one that goes on keeps its place.
LEMMA HandlersAfter ==
  ASSUME handlers \in Seq(Handler), NEW i \in 1 .. Len(handlers)
  PROVE  /\ Finish(i) =>
              /\ handlers' \in Seq(Handler) /\ Len(handlers') = Len(handlers) - 1
              /\ \A k \in 1 .. Len(handlers') :
                   /\ k < i => k \in 1 .. Len(handlers) /\ handlers'[k] = handlers[k]
                   /\ k >= i => k + 1 \in 1 .. Len(handlers) /\ handlers'[k] = handlers[k + 1]
         /\ \A g \in Handler : Continue(i, g) =>
              /\ handlers' \in Seq(Handler) /\ Len(handlers') = Len(handlers)
              /\ \A k \in 1 .. Len(handlers) : handlers'[k] = IF k = i THEN g ELSE handlers[k]
<1>1. ASSUME Finish(i)
      PROVE  /\ handlers' \in Seq(Handler) /\ Len(handlers') = Len(handlers) - 1
             /\ \A k \in 1 .. Len(handlers') :
                  /\ k < i => k \in 1 .. Len(handlers) /\ handlers'[k] = handlers[k]
                  /\ k >= i => k + 1 \in 1 .. Len(handlers) /\ handlers'[k] = handlers[k + 1]
  <2>1. handlers' = RemoveAt(handlers, i)
    BY <1>1 DEF Finish
  <2> QED  BY <2>1, Removed
<1>2. ASSUME NEW g \in Handler, Continue(i, g)
      PROVE  /\ handlers' \in Seq(Handler) /\ Len(handlers') = Len(handlers)
             /\ \A k \in 1 .. Len(handlers) : handlers'[k] = IF k = i THEN g ELSE handlers[k]
  <2>1. handlers' = [handlers EXCEPT ![i] = g]
    BY <1>2 DEF Continue
  <2> QED  BY <2>1, ExceptSeq
<1> QED  BY <1>1, <1>2

\* The handler at i is done, or goes on with what its phase needs.
GoesOn(i, h) ==
  \/ Finish(i)
  \/ \E g \in Handler : Continue(i, g) /\ WellFormed(g) /\ SameEvent(g, h)

\* The handler at i has still to call the application.
WillNotify(i, h) ==
  \E g \in Handler :
    /\ Continue(i, g) /\ WellFormed(g) /\ SameEvent(g, h) /\ g.phase \in {"remove", "notify"}

\* With the next entity, if there is one.
LEMMA NextEntityGoesOn ==
  ASSUME NEW i, NEW h \in Handler, h = handlers[i], WellFormed(h), h.phase # "begin", NextEntity(i)
  PROVE  GoesOn(i, h)
<1>1. h.kind = "update" => h.todo # <<>>
  BY DEF WellFormed
<1>2. \/ Finish(i)
      \/ \E g \in Handler : /\ Continue(i, g) /\ SameEvent(g, h) /\ g.phase = "lookup"
                            /\ g.todo = Rest(h) /\ h.kind = "update" /\ Rest(h) # <<>>
  BY <1>1, NextEntityEffect
<1> QED  BY <1>2 DEF GoesOn, WellFormed, SameEvent

\* A step of a handler changes the list only if it will call the application,
\* and it has called it when it is past that phase.
LEMMA HandlerEffect ==
  ASSUME TypeInv, NEW i \in 1 .. Len(handlers), HandleEvent(i)
  PROVE  /\ UNCHANGED remote
         /\ available' \in Seq(Entry) /\ seen' \in Seq(Entry) /\ crashed' \in BOOLEAN
         /\ \/ UNCHANGED <<handlers, available, seen>>
            \/ WillNotify(i, handlers[i]) /\ UNCHANGED seen
            \/ /\ GoesOn(i, handlers[i]) /\ UNCHANGED available
               /\ seen' = available \/ (UNCHANGED seen /\ handlers[i].phase \notin {"remove", "notify"})
<1>1. /\ available \in Seq(Entry) /\ seen \in Seq(Entry) /\ crashed \in BOOLEAN
      /\ handlers \in Seq(Handler)
  BY DEF TypeInv, TypeOK
<1>2. PICK h \in Handler : h = handlers[i] /\ WellFormed(h)
  BY <1>1, ElementOfSeq DEF TypeInv
<1>3. UNCHANGED remote
  BY DEF HandleEvent
<1>4. ASSUME NextEntity(i), h.phase # "begin" PROVE GoesOn(i, h)
  BY <1>2, <1>4, NextEntityGoesOn
<1>5. ASSUME Notifies(i, h), h.kind = "update" => h.todo # <<>> PROVE WillNotify(i, h)
  BY <1>5 DEF Notifies, WillNotify, WellFormed, SameEvent
<1>6. CASE Begin(i)
  <2>1. h.phase = "begin" /\ UNCHANGED <<available, seen, crashed>>
    BY <1>2, <1>6, BeginEffect
  <2>2. \/ Finish(i)
        \/ \E g \in Handler : /\ Continue(i, g) /\ SameEvent(g, h) /\ g.phase = "lookup"
                              /\ h.kind = "update" /\ g.todo # <<>>
        \/ \E g \in Handler : /\ Continue(i, g) /\ SameEvent(g, h) /\ g.phase = "remove"
                              /\ h.kind # "update" /\ g.found # <<>>
    BY <1>2, <1>6, BeginEffect
  <2>3. GoesOn(i, h)
    BY <2>2 DEF GoesOn, WellFormed, SameEvent
  <2> QED  BY <1>1, <1>2, <1>3, <2>1, <2>3
<1>7. CASE Lookup(i)
  <2>1. h.phase = "lookup" /\ UNCHANGED <<available, seen, crashed>>
    BY <1>2, <1>7, LookupEffect
  <2>2. \E g \in Handler : /\ Continue(i, g) /\ SameEvent(g, h) /\ g.phase = "store" /\ g.entity \in Entities
                           /\ h.kind = "update" /\ g.todo = h.todo /\ h.todo # <<>>
    BY <1>2, <1>7, LookupEffect
  <2>3. GoesOn(i, h)
    BY <2>2 DEF GoesOn, WellFormed, SameEvent
  <2> QED  BY <1>1, <1>2, <1>3, <2>1, <2>3
<1>8. CASE Store(i)
  <2>1. h.phase = "store" /\ h.kind = "update" /\ h.todo # <<>> /\ UNCHANGED seen
    BY <1>2, <1>8, StoreEffect
  <2>2. \/ Notifies(i, h) /\ UNCHANGED crashed /\ available' \in Seq(Entry)
        \/ crashed' = TRUE /\ UNCHANGED <<handlers, available>>
        \/ NextEntity(i) /\ UNCHANGED <<available, crashed>>
    <3>1. ASSUME NEW entry \in Entry, available' = Append(available, entry)
          PROVE  available' \in Seq(Entry)
      BY <1>1, <3>1, AppendProperties
    <3> QED  BY <1>2, <1>8, <3>1, StoreEffect
  <2>3. CASE Notifies(i, h) /\ UNCHANGED crashed /\ available' \in Seq(Entry)
    BY <1>1, <1>2, <1>3, <1>5, <2>1, <2>3
  <2>4. CASE crashed' = TRUE /\ UNCHANGED <<handlers, available>>
    BY <1>1, <1>3, <2>1, <2>4
  <2>5. CASE NextEntity(i) /\ UNCHANGED <<available, crashed>>
    BY <1>1, <1>2, <1>3, <1>4, <2>1, <2>5
  <2> QED  BY <2>2, <2>3, <2>4, <2>5
<1>9. CASE RemoveIndex(i)
  <2>1. h.phase = "remove" /\ h.kind # "update" /\ UNCHANGED seen
    BY <1>2, <1>9, RemoveIndexEffect
  <2>2. \/ crashed' = TRUE /\ UNCHANGED <<handlers, available>>
        \/ /\ UNCHANGED crashed
           /\ \E k \in 1 .. Len(available) : available' = RemoveAt(available, k)
           /\ \E g \in Handler : /\ Continue(i, g) /\ SameEvent(g, h)
                                 /\ g.phase = "notify" \/ (g.phase = "remove" /\ g.found # <<>>)
    BY <1>2, <1>9, RemoveIndexEffect DEF RemovesLast
  <2>3. CASE crashed' = TRUE /\ UNCHANGED <<handlers, available>>
    BY <1>1, <1>3, <2>1, <2>3
  <2>4. CASE /\ UNCHANGED crashed
             /\ \E k \in 1 .. Len(available) : available' = RemoveAt(available, k)
             /\ \E g \in Handler : /\ Continue(i, g) /\ SameEvent(g, h)
                                   /\ g.phase = "notify" \/ (g.phase = "remove" /\ g.found # <<>>)
    <3>1. available' \in Seq(Entry)
      BY <1>1, <2>4, Removed
    <3>2. WillNotify(i, h)
      BY <2>1, <2>4 DEF WillNotify, WellFormed, SameEvent
    <3> QED  BY <1>1, <1>2, <1>3, <2>1, <2>4, <3>1, <3>2
  <2> QED  BY <2>2, <2>3, <2>4
<1>10. CASE Notify(i)
  <2>1. h.phase = "notify" /\ seen' = available /\ NextEntity(i) /\ UNCHANGED <<available, crashed>>
    BY <1>2, <1>10 DEF Notify
  <2>2. GoesOn(i, h)
    BY <1>4, <2>1
  <2> QED  BY <1>1, <1>2, <1>3, <2>1, <2>2
<1> QED  BY <1>6, <1>7, <1>8, <1>9, <1>10 DEF HandleEvent

\* No handler is left behind: one that is done was at i, and the others keep
\* what their phase needs.
LEMMA FormedAfter ==
  ASSUME TypeInv, NEW i \in 1 .. Len(handlers), GoesOn(i, handlers[i])
  PROVE  handlers' \in Seq(Handler) /\ \A k \in 1 .. Len(handlers') : WellFormed(handlers'[k])
<1>1. handlers \in Seq(Handler) /\ \A k \in 1 .. Len(handlers) : WellFormed(handlers[k])
  BY DEF TypeInv, TypeOK
<1>2. Len(handlers) \in Nat
  BY <1>1, LenProperties
<1>3. CASE Finish(i)
  <2>1. /\ handlers' \in Seq(Handler) /\ Len(handlers') = Len(handlers) - 1
        /\ \A k \in 1 .. Len(handlers') :
             /\ k < i => k \in 1 .. Len(handlers) /\ handlers'[k] = handlers[k]
             /\ k >= i => k + 1 \in 1 .. Len(handlers) /\ handlers'[k] = handlers[k + 1]
    BY <1>1, <1>3, HandlersAfter
  <2>2. ASSUME NEW k \in 1 .. Len(handlers') PROVE k < i \/ k >= i
    BY <1>2, <2>1
  <2> QED  BY <1>1, <2>1, <2>2
<1>4. ASSUME NEW g \in Handler, Continue(i, g), WellFormed(g)
      PROVE  handlers' \in Seq(Handler) /\ \A k \in 1 .. Len(handlers') : WellFormed(handlers'[k])
  BY <1>1, <1>4, HandlersAfter
<1> QED  BY <1>3, <1>4 DEF GoesOn

\* An event starts a handler.
LEMMA EventPublished ==
  ASSUME TypeInv, NEW kind \in Kinds, NEW s \in Sessions, NEW e \in Entities \cup {NoAddress},
         Publish(kind, s, e)
  PROVE  /\ published' \in 0 .. MaxEvents /\ UNCHANGED <<available, seen, crashed>>
         /\ handlers' \in Seq(Handler) /\ Len(handlers') = Len(handlers) + 1
         /\ \A k \in 1 .. Len(handlers) : k \in 1 .. Len(handlers') /\ handlers'[k] = handlers[k]
         /\ \E h \in Handler : /\ handlers'[Len(handlers')] = h /\ WellFormed(h)
                               /\ h.kind = kind /\ h.session = s /\ h.entity = e /\ h.phase = "begin"
<1>1. handlers \in Seq(Handler) /\ published \in 0 .. MaxEvents /\ Len(handlers) \in Nat
  BY LenProperties DEF TypeInv, TypeOK
<1>2. published' \in 0 .. MaxEvents /\ UNCHANGED <<available, seen, crashed>>
  BY <1>1, OrderAssumption DEF Publish
<1>3. PICK h : h = [kind |-> kind, phase |-> "begin", session |-> s, entity |-> e,
                    todo |-> <<>>, wanted |-> {}, found |-> <<>>]
  OBVIOUS
<1>4. <<>> \in Seq(Work) /\ <<>> \in Seq(Nat \ {0})
  BY EmptySeq
<1>5. /\ h \in Handler /\ h.kind = kind /\ h.session = s /\ h.entity = e /\ h.phase = "begin"
  BY <1>3, <1>4 DEF Handler, Phases
<1>6. WellFormed(h)
  BY <1>5 DEF WellFormed
<1>7. handlers' = Append(handlers, h)
  BY <1>3 DEF Publish
<1>8. /\ handlers' \in Seq(Handler) /\ Len(handlers') = Len(handlers) + 1
      /\ \A k \in 1 .. Len(handlers) : handlers'[k] = handlers[k]
      /\ handlers'[Len(handlers) + 1] = h
  BY <1>1, <1>5, <1>7, AppendProperties
<1> QED  BY <1>1, <1>2, <1>5, <1>6, <1>8

\* So all handlers have what their phase needs.
LEMMA FormedPublished ==
  ASSUME TypeInv, NEW kind \in Kinds, NEW s \in Sessions, NEW e \in Entities \cup {NoAddress},
         Publish(kind, s, e)
  PROVE  \A k \in 1 .. Len(handlers') : WellFormed(handlers'[k])
<1>1. Len(handlers) \in Nat /\ \A k \in 1 .. Len(handlers) : WellFormed(handlers[k])
  BY LenProperties DEF TypeInv, TypeOK
<1>2. /\ Len(handlers') = Len(handlers) + 1 /\ WellFormed(handlers'[Len(handlers')])
      /\ \A k \in 1 .. Len(handlers) : handlers'[k] = handlers[k]
  BY EventPublished
<1>3. \A k \in 1 .. Len(handlers') : k \in 1 .. Len(handlers) \/ k = Len(handlers')
  BY <1>1, <1>2
<1> QED  BY <1>1, <1>2, <1>3

\* No handler has begun yet.
LEMMA TypeInit == Init => TypeInv
<1> SUFFICES ASSUME Init PROVE TypeInv
  OBVIOUS
<1>1. handlers = <<>> /\ Len(handlers) = 0
  BY EmptySeq DEF Init
<1>2. \A i \in 1 .. Len(handlers) : WellFormed(handlers[i])
  BY <1>1
<1>3. /\ handlers \in Seq(Handler) /\ available \in Seq(Entry) /\ seen \in Seq(Entry)
  BY EmptySeq DEF Init
<1>4. published \in 0 .. MaxEvents
  BY OrderAssumption DEF Init
<1>5. features \in [Sessions -> [Entities -> [FeatureTypes -> Nat]]]
  BY DEF Init
<1> QED  BY <1>2, <1>3, <1>4, <1>5 DEF Init, TypeInv, TypeOK

\* Every event of a device and every step of a handler keeps the types.
LEMMA TypeStep == TypeInv /\ [Next]_vars => TypeInv'
<1> SUFFICES ASSUME TypeInv, [Next]_vars PROVE TypeInv'
  OBVIOUS
<1>1. TypeOK /\ \A i \in 1 .. Len(handlers) : WellFormed(handlers[i])
  BY DEF TypeInv
<1>2. /\ opened \subseteq Sessions /\ live \subseteq opened
      /\ entities \in [Sessions -> SUBSET Entities]
      /\ features \in [Sessions -> [Entities -> [FeatureTypes -> Nat]]]
      /\ announced \in [Sessions -> Announcements \cup {<<>>}]
      /\ published \in 0 .. MaxEvents
      /\ handlers \in Seq(Handler)
      /\ available \in Seq(Entry) /\ seen \in Seq(Entry)
      /\ crashed \in BOOLEAN
  BY <1>1 DEF TypeOK
<1>3. ASSUME NEW kind \in Kinds, NEW s \in Sessions, NEW e \in Entities \cup {NoAddress},
             Publish(kind, s, e)
      PROVE  /\ \A i \in 1 .. Len(handlers') : WellFormed(handlers'[i])
             /\ handlers' \in Seq(Handler) /\ published' \in 0 .. MaxEvents
             /\ available' \in Seq(Entry) /\ seen' \in Seq(Entry) /\ crashed' \in BOOLEAN
  BY <1>2, <1>3, EventPublished, FormedPublished
<1>4. ASSUME NEW s \in Sessions, Connect(s) PROVE TypeInv'
  BY <1>1, <1>4 DEF Connect, TypeInv, TypeOK
<1>5. ASSUME NEW s \in Sessions, Disconnect(s) PROVE TypeInv'
  <2>1. Publish("removeDevice", s, NoAddress) /\ "removeDevice" \in Kinds
    BY <1>5 DEF Disconnect, Kinds
  <2>2. live' = live \ {s} /\ UNCHANGED <<opened, entities, features, announced>>
    BY <1>5 DEF Disconnect
  <2> QED  BY <1>2, <1>3, <2>1, <2>2 DEF TypeInv, TypeOK
<1>6. ASSUME NEW s \in live, NEW e \in Entities, RemoveEntity(s, e) PROVE TypeInv'
  <2>1. Publish("removeEntity", s, e) /\ "removeEntity" \in Kinds /\ s \in Sessions
    BY <1>2, <1>6 DEF RemoveEntity, Kinds
  <2>2. UNCHANGED <<opened, live, features, announced>> /\ entities' \in [Sessions -> SUBSET Entities]
    BY <1>2, <1>6 DEF RemoveEntity
  <2> QED  BY <1>2, <1>3, <2>1, <2>2 DEF TypeInv, TypeOK
<1>7. ASSUME NEW s \in live, NEW e \in Entities, NEW counts \in FeatureCounts, AddEntity(s, e, counts)
      PROVE  TypeInv'
  <2>1. Publish("update", s, NoAddress) /\ "update" \in Kinds /\ s \in Sessions
    BY <1>2, <1>7 DEF AddEntity, Kinds
  <2>2. UNCHANGED <<opened, live, announced>> /\ entities' \in [Sessions -> SUBSET Entities]
    BY <1>2, <1>7 DEF AddEntity
  <2>3. counts \in [FeatureTypes -> Nat] /\ features' = [features EXCEPT ![s][e] = counts]
    BY <1>7, OffersAssumption DEF AddEntity
  <2>4. features' \in [Sessions -> [Entities -> [FeatureTypes -> Nat]]]
    <3>1. PICK row : row = [features[s] EXCEPT ![e] = counts]
      OBVIOUS
    <3>2. row \in [Entities -> [FeatureTypes -> Nat]]
      BY <1>2, <2>1, <2>3, <3>1
    <3>3. features' = [features EXCEPT ![s] = row]
      BY <2>3, <3>1
    <3> QED  BY <1>2, <3>2, <3>3
  <2> QED  BY <1>2, <1>3, <2>1, <2>2, <2>4 DEF TypeInv, TypeOK
<1>8. ASSUME NEW s \in live, NEW supports \in Announcements, Announce(s, supports) PROVE TypeInv'
  <2>1. Publish("update", s, NoAddress) /\ "update" \in Kinds /\ s \in Sessions
    BY <1>2, <1>8 DEF Announce, Kinds
  <2>2. /\ UNCHANGED <<opened, live, entities, features>>
        /\ announced' \in [Sessions -> Announcements \cup {<<>>}]
    BY <1>2, <1>8 DEF Announce
  <2> QED  BY <1>2, <1>3, <2>1, <2>2 DEF TypeInv, TypeOK
<1>9. ASSUME NEW i \in Running, HandleEvent(i) PROVE TypeInv'
  <2>1. i \in 1 .. Len(handlers)
    BY <1>2, LenProperties DEF Running
  <2>2. /\ UNCHANGED remote
        /\ available' \in Seq(Entry) /\ seen' \in Seq(Entry) /\ crashed' \in BOOLEAN
        /\ UNCHANGED handlers \/ GoesOn(i, handlers[i])
    BY <1>9, <2>1, HandlerEffect DEF WillNotify, GoesOn
  <2>3. handlers' \in Seq(Handler) /\ \A k \in 1 .. Len(handlers') : WellFormed(handlers'[k])
    BY <1>1, <1>2, <2>1, <2>2, FormedAfter
  <2> QED  BY <1>2, <2>2, <2>3 DEF TypeInv, TypeOK, remote
<1>10. CASE UNCHANGED vars
  BY <1>1, <1>10 DEF TypeInv, TypeOK, vars, WellFormed
<1> QED  BY <1>4, <1>5, <1>6, <1>7, <1>8, <1>9, <1>10 DEF Next, Step, Quiet

\* Whatever the order of the handlers, the state has its type.
THEOREM TypeCorrect == Spec => []TypeOK
<1>1. Spec => []TypeInv
  BY TypeInit, TypeStep, PTL DEF Spec
<1>2. TypeInv => TypeOK
  BY DEF TypeInv
<1> QED  BY <1>1, <1>2, PTL
-----------------------------------------------------------------------------
(* The application is called after each change, in whatever order the      *)
(* handlers run.                                                           *)

\* The application has read the list as it is, or a handler will call it.
Told ==
  seen = available \/ \E i \in 1 .. Len(handlers) : handlers[i].phase \in {"remove", "notify"}

\* A handler elsewhere in the queue is still there when the one at i is done,
\* or goes on.
LEMMA OthersStay ==
  ASSUME TypeInv, NEW i \in 1 .. Len(handlers), GoesOn(i, handlers[i]),
         NEW j \in 1 .. Len(handlers), j # i
  PROVE  \E k \in 1 .. Len(handlers') : handlers'[k] = handlers[j]
<1>1. handlers \in Seq(Handler) /\ Len(handlers) \in Nat
  BY LenProperties DEF TypeInv, TypeOK
<1>2. CASE Finish(i)
  <2>1. /\ Len(handlers') = Len(handlers) - 1
        /\ \A k \in 1 .. Len(handlers') :
             /\ k < i => k \in 1 .. Len(handlers) /\ handlers'[k] = handlers[k]
             /\ k >= i => k + 1 \in 1 .. Len(handlers) /\ handlers'[k] = handlers[k + 1]
    BY <1>1, <1>2, HandlersAfter
  <2>2. CASE j < i
    <3>1. j \in 1 .. Len(handlers')
      BY <1>1, <2>1, <2>2
    <3> QED  BY <2>1, <2>2, <3>1
  <2>3. CASE j > i
    <3>1. j - 1 \in 1 .. Len(handlers') /\ j - 1 >= i /\ (j - 1) + 1 = j
      BY <1>1, <2>1, <2>3
    <3>2. handlers'[j - 1] = handlers[j]
      BY <2>1, <3>1
    <3> QED  BY <3>1, <3>2
  <2> QED  BY <2>2, <2>3
<1>3. ASSUME NEW g \in Handler, Continue(i, g)
      PROVE  \E k \in 1 .. Len(handlers') : handlers'[k] = handlers[j]
  BY <1>1, <1>3, HandlersAfter
<1> QED  BY <1>2, <1>3 DEF GoesOn

\* A change leaves a handler that will call; the call reads the list.
LEMMA ToldStep == TypeInv /\ Told /\ [Next]_vars => Told'
<1> SUFFICES ASSUME TypeInv, Told, [Next]_vars PROVE Told'
  OBVIOUS
<1>1. handlers \in Seq(Handler) /\ live \subseteq Sessions
  BY DEF TypeInv, TypeOK
<1>2. ASSUME NEW kind \in Kinds, NEW s \in Sessions, NEW e \in Entities \cup {NoAddress},
             Publish(kind, s, e)
      PROVE  Told'
  <2>1. /\ UNCHANGED <<available, seen>>
        /\ \A k \in 1 .. Len(handlers) : k \in 1 .. Len(handlers') /\ handlers'[k] = handlers[k]
    BY <1>2, EventPublished
  <2> QED  BY <2>1 DEF Told
<1>3. ASSUME NEW s \in Sessions, Connect(s) PROVE Told'
  BY <1>3 DEF Connect, Told
<1>4. ASSUME NEW s \in Sessions, Disconnect(s) PROVE Told'
  BY <1>2, <1>4 DEF Disconnect, Kinds
<1>5. ASSUME NEW s \in live, NEW e \in Entities, RemoveEntity(s, e) PROVE Told'
  BY <1>1, <1>2, <1>5 DEF RemoveEntity, Kinds
<1>6. ASSUME NEW s \in live, NEW e \in Entities, NEW counts \in FeatureCounts, AddEntity(s, e, counts)
      PROVE  Told'
  BY <1>1, <1>2, <1>6 DEF AddEntity, Kinds
<1>7. ASSUME NEW s \in live, NEW supports \in Announcements, Announce(s, supports) PROVE Told'
  BY <1>1, <1>2, <1>7 DEF Announce, Kinds
<1>8. ASSUME NEW i \in Running, HandleEvent(i) PROVE Told'
  <2>1. i \in 1 .. Len(handlers)
    BY <1>1, LenProperties DEF Running
  <2>2. \/ UNCHANGED <<handlers, available, seen>>
        \/ WillNotify(i, handlers[i]) /\ UNCHANGED seen
        \/ /\ GoesOn(i, handlers[i]) /\ UNCHANGED available
           /\ seen' = available \/ (UNCHANGED seen /\ handlers[i].phase \notin {"remove", "notify"})
    BY <1>8, <2>1, HandlerEffect
  <2>3. CASE UNCHANGED <<handlers, available, seen>>
    BY <2>3 DEF Told
  <2>4. CASE WillNotify(i, handlers[i])
    <3>1. PICK g \in Handler : Continue(i, g) /\ g.phase \in {"remove", "notify"}
      BY <2>4 DEF WillNotify
    <3>2. i \in 1 .. Len(handlers') /\ handlers'[i] = g
      BY <1>1, <2>1, <3>1, HandlersAfter
    <3> QED  BY <3>1, <3>2 DEF Told
  <2>5. CASE UNCHANGED available /\ seen' = available
    BY <2>5 DEF Told
  <2>6. CASE /\ GoesOn(i, handlers[i]) /\ UNCHANGED <<available, seen>>
             /\ handlers[i].phase \notin {"remove", "notify"}
    <3>1. CASE seen = available
      BY <2>6, <3>1 DEF Told
    <3>2. CASE seen # available
      <4>1. PICK j \in 1 .. Len(handlers) : handlers[j].phase \in {"remove", "notify"}
        BY <3>2 DEF Told
      <4>2. \E k \in 1 .. Len(handlers') : handlers'[k] = handlers[j]
        BY <2>1, <2>6, <4>1, OthersStay
      <4> QED  BY <4>1, <4>2 DEF Told
    <3> QED  BY <3>1, <3>2
  <2> QED  BY <2>2, <2>3, <2>4, <2>5, <2>6
<1>9. CASE UNCHANGED vars
  BY <1>9 DEF Told, vars
<1> QED  BY <1>3, <1>4, <1>5, <1>6, <1>7, <1>8, <1>9 DEF Next, Step, Quiet

\* Once all handlers are done, the application has read the list as it is:
\* no change of the list in any order of the handlers goes without a call.
THEOREM ApplicationInformed == Spec => []Informed
<1>1. Init => TypeInv /\ Told
  BY TypeInit DEF Init, Told
<1>2. (TypeInv /\ Told) /\ [Next]_vars => (TypeInv /\ Told)'
  BY TypeStep, ToldStep
<1>3. TypeInv /\ Told => Informed
  <2> SUFFICES ASSUME Told, handlers = <<>> PROVE seen = available
    BY DEF Informed
  <2>1. ~ \E i \in 1 .. Len(handlers) : TRUE
    BY EmptySeq
  <2> QED  BY <2>1 DEF Told
<1> QED  BY <1>1, <1>2, <1>3, PTL DEF Spec
-----------------------------------------------------------------------------
(* A step of a handler, as the list and the other handlers see it.         *)

\* The handlers there are now: all the others, and perhaps that at i as g.
Leaves(i, g) ==
  /\ \A k \in 1 .. Len(handlers') :
       handlers'[k] = g \/ \E m \in 1 .. Len(handlers) : m # i /\ handlers'[k] = handlers[m]
  /\ \A m \in 1 .. Len(handlers) : m # i => \E k \in 1 .. Len(handlers') : handlers'[k] = handlers[m]

\* A handler leaves the others alone.
LEMMA LeavesOthers ==
  ASSUME handlers \in Seq(Handler), NEW i \in 1 .. Len(handlers)
  PROVE  /\ Finish(i) => \A g : Leaves(i, g)
         /\ \A g \in Handler : Continue(i, g) =>
              Leaves(i, g) /\ i \in 1 .. Len(handlers') /\ handlers'[i] = g
<1>1. Len(handlers) \in Nat
  BY LenProperties
<1>2. ASSUME Finish(i), NEW g PROVE Leaves(i, g)
  <2>1. /\ Len(handlers') = Len(handlers) - 1
        /\ \A k \in 1 .. Len(handlers') :
             /\ k < i => k \in 1 .. Len(handlers) /\ handlers'[k] = handlers[k]
             /\ k >= i => k + 1 \in 1 .. Len(handlers) /\ handlers'[k] = handlers[k + 1]
    BY <1>2, HandlersAfter
  <2>2. ASSUME NEW k \in 1 .. Len(handlers')
        PROVE  \E m \in 1 .. Len(handlers) : m # i /\ handlers'[k] = handlers[m]
    <3>1. CASE k < i
      BY <1>1, <2>1, <3>1
    <3>2. CASE k >= i
      <4>1. k + 1 # i
        BY <1>1, <2>1, <3>2
      <4> QED  BY <2>1, <3>2, <4>1
    <3> QED  BY <1>1, <2>1, <3>1, <3>2
  <2>3. ASSUME NEW m \in 1 .. Len(handlers), m # i
        PROVE  \E k \in 1 .. Len(handlers') : handlers'[k] = handlers[m]
    <3>1. CASE m < i
      <4>1. m \in 1 .. Len(handlers')
        BY <1>1, <2>1, <3>1
      <4> QED  BY <2>1, <3>1, <4>1
    <3>2. CASE m > i
      <4>1. m - 1 \in 1 .. Len(handlers') /\ m - 1 >= i /\ (m - 1) + 1 = m
        BY <1>1, <2>1, <3>2
      <4>2. handlers'[m - 1] = handlers[m]
        BY <2>1, <4>1
      <4> QED  BY <4>1, <4>2
    <3> QED  BY <1>1, <2>3, <3>1, <3>2
  <2> QED  BY <2>2, <2>3 DEF Leaves
<1>3. ASSUME NEW g \in Handler, Continue(i, g)
      PROVE  Leaves(i, g) /\ i \in 1 .. Len(handlers') /\ handlers'[i] = g
  <2>1. /\ Len(handlers') = Len(handlers)
        /\ \A k \in 1 .. Len(handlers) : handlers'[k] = IF k = i THEN g ELSE handlers[k]
    BY <1>3, HandlersAfter
  <2> QED  BY <2>1 DEF Leaves
<1> QED  BY <1>2, <1>3

\* What a removal looks for when it begins.
Sought(h) ==
  IF h.kind = "removeDevice" THEN IndicesOfDevice(h.session)
  ELSE IndexOfEntity(h.session, h.entity)

\* The steps of a handler, by what they do to the list.
Crashes(h) ==
  /\ UNCHANGED <<handlers, available>>
  /\ h.phase \in {"store", "remove"} /\ \E n \in 1 .. Len(h.found) : h.found[n] > Len(available)

Passes(i, h) ==
  /\ UNCHANGED <<available, crashed>>
  /\ \E g \in Handler : Leaves(i, g) /\ g.phase \in {"lookup", "notify"}
  /\ h.phase # "remove" /\ (h.phase = "begin" /\ h.kind # "update" => Sought(h) = <<>>)

LooksUp(i, h) ==
  /\ UNCHANGED <<available, crashed>> /\ h.phase = "lookup"
  /\ \E g \in Handler : /\ Leaves(i, g) /\ g.phase = "store" /\ g.kind = "update"
                        /\ g.found = IndexOfEntity(g.session, g.entity)

Seeks(i, h) ==
  /\ UNCHANGED <<available, crashed>> /\ h.phase = "begin" /\ h.kind # "update"
  /\ \E g \in Handler : /\ Leaves(i, g) /\ i \in 1 .. Len(handlers') /\ handlers'[i] = g
                        /\ SameEvent(g, h) /\ g.entity = h.entity
                        /\ g.phase = "remove" /\ g.found = Sought(h)

Adds(i, h) ==
  /\ UNCHANGED crashed /\ h.phase = "store" /\ h.found = <<>> /\ h.entity \in Entities
  /\ \E g \in Handler : Leaves(i, g) /\ g.phase = "notify"
  /\ \E entry \in Entry : /\ entry.session = h.session /\ entry.entity = h.entity
                          /\ available' = Append(available, entry)

Rewrites(i, h) ==
  /\ UNCHANGED crashed /\ h.phase = "store"
  /\ \E g \in Handler : Leaves(i, g) /\ g.phase = "notify"
  /\ available' \in Seq(Entry) /\ Len(available') = Len(available)
  /\ \A k \in 1 .. Len(available) : /\ available'[k].session = available[k].session
                                   /\ available'[k].entity = available[k].entity

Takes(i, h) ==
  LET last == Len(h.found) IN
  /\ UNCHANGED crashed /\ h.phase = "remove" /\ h.kind # "update" /\ last \in 1 .. Len(h.found)
  /\ h.found[last] \in 1 .. Len(available) /\ available' = RemoveAt(available, h.found[last])
  /\ \E g \in Handler : /\ Leaves(i, g) /\ i \in 1 .. Len(handlers') /\ handlers'[i] = g
                        /\ SameEvent(g, h) /\ g.entity = h.entity
                        /\ g.phase = "remove" \/ (g.phase = "notify" /\ last = 1)
                        /\ Len(g.found) = last - 1
                        /\ \A n \in 1 .. Len(g.found) : n \in 1 .. last /\ g.found[n] = h.found[n]

\* The handler after the current entity is done or looks up the next one.
LEMMA NextEntityPasses ==
  ASSUME handlers \in Seq(Handler), NEW i \in 1 .. Len(handlers), NEW h \in Handler, h = handlers[i],
         h.kind = "update" => h.todo # <<>>, NextEntity(i)
  PROVE  \E g \in Handler : Leaves(i, g) /\ g.phase \in {"lookup", "notify"}
<1>1. \/ Finish(i)
      \/ \E g \in Handler : Continue(i, g) /\ g.phase = "lookup"
  BY NextEntityEffect
<1>2. PICK g : g = [h EXCEPT !.phase = "notify"]
  OBVIOUS
<1>3. g \in Handler /\ g.phase = "notify"
  BY <1>2 DEF Handler, Phases
<1> QED  BY <1>1, <1>3, LeavesOthers

\* One of them is what a step of a handler does.
LEMMA StepOf ==
  ASSUME TypeInv, NEW i \in 1 .. Len(handlers), HandleEvent(i), NEW h \in Handler, h = handlers[i]
  PROVE  \/ Crashes(h) \/ Passes(i, h) \/ LooksUp(i, h) \/ Seeks(i, h)
         \/ Adds(i, h) \/ Rewrites(i, h) \/ Takes(i, h)
<1>1. handlers \in Seq(Handler) /\ available \in Seq(Entry) /\ WellFormed(h) /\ Len(available) \in Nat
  BY LenProperties DEF TypeInv, TypeOK
<1>2. PICK done : done = [h EXCEPT !.phase = "notify"]
  OBVIOUS
<1>3. done \in Handler /\ done.phase = "notify"
  BY <1>2 DEF Handler, Phases
<1>4. CASE Begin(i)
  <2>1. h.phase = "begin" /\ UNCHANGED <<available, crashed>>
    BY <1>4, BeginEffect
  <2>2. CASE h.kind = "update"
    <3>1. Finish(i) \/ \E g \in Handler : Continue(i, g) /\ g.phase = "lookup"
      BY <1>4, <2>2, BeginEffect
    <3> QED  BY <1>1, <1>3, <2>1, <2>2, <3>1, LeavesOthers DEF Passes
  <2>3. CASE h.kind # "update"
    <3>1. \/ Sought(h) = <<>> /\ Finish(i)
          \/ \E g \in Handler : /\ Continue(i, g) /\ SameEvent(g, h) /\ g.entity = h.entity
                                /\ g.phase = "remove" /\ g.found = Sought(h)
      BY <1>4, <2>3, BeginEffect DEF Sought
    <3>2. CASE Sought(h) = <<>> /\ Finish(i)
      BY <1>1, <1>3, <2>1, <3>2, LeavesOthers DEF Passes
    <3>3. CASE \E g \in Handler : /\ Continue(i, g) /\ SameEvent(g, h) /\ g.entity = h.entity
                                  /\ g.phase = "remove" /\ g.found = Sought(h)
      BY <1>1, <2>1, <2>3, <3>3, LeavesOthers DEF Seeks
    <3> QED  BY <3>1, <3>2, <3>3
  <2> QED  BY <2>2, <2>3
<1>5. CASE Lookup(i)
  <2>1. h.phase = "lookup" /\ h.kind = "update" /\ UNCHANGED <<available, crashed>>
    BY <1>1, <1>5, LookupEffect
  <2>2. \E g \in Handler : /\ Continue(i, g) /\ g.phase = "store" /\ g.kind = "update"
                           /\ g.found = IndexOfEntity(g.session, g.entity)
    BY <1>1, <1>5, <2>1, LookupEffect DEF SameEvent
  <2> QED  BY <1>1, <2>1, <2>2, LeavesOthers DEF LooksUp
<1>6. CASE Store(i)
  <2>1. /\ h.phase = "store" /\ h.kind = "update" /\ h.todo # <<>> /\ h.entity \in Entities
        /\ h.found \in Seq(Nat \ {0})
    BY <1>1, <1>6, StoreEffect DEF Handler
  <2>2. ASSUME Notifies(i, h) PROVE \E g \in Handler : Leaves(i, g) /\ g.phase = "notify"
    BY <1>1, <2>2, LeavesOthers DEF Notifies
  <2>3. CASE /\ h.found = <<>> /\ Notifies(i, h) /\ UNCHANGED crashed
             /\ \E entry \in Entry :
                  /\ entry = [session |-> h.session, entity |-> h.entity, scenarios |-> h.wanted]
                  /\ available' = Append(available, entry)
    BY <2>1, <2>2, <2>3 DEF Adds
  <2>4. CASE h.found # <<>> /\ h.found[1] > Len(available) /\ UNCHANGED <<handlers, available>>
    <3>1. 1 \in 1 .. Len(h.found)
      BY <2>1, <2>4, Taken
    <3> QED  BY <2>1, <2>4, <3>1 DEF Crashes
  <2>5. CASE NextEntity(i) /\ UNCHANGED <<available, crashed>>
    BY <1>1, <2>1, <2>5, NextEntityPasses DEF Passes
  <2>6. CASE /\ Notifies(i, h) /\ UNCHANGED crashed
             /\ available' \in Seq(Entry) /\ Len(available') = Len(available)
             /\ \A k \in 1 .. Len(available) :
                  IF k = h.found[1]
                  THEN available'[k] = [session   |-> available[k].session,
                                        entity    |-> available[k].entity,
                                        scenarios |-> h.wanted]
                  ELSE available'[k] = available[k]
    <3>1. ASSUME NEW k \in 1 .. Len(available)
          PROVE  /\ available'[k].session = available[k].session
                 /\ available'[k].entity = available[k].entity
      <4>1. CASE k = h.found[1]
        <5>1. available'[k] = [session   |-> available[k].session,
                               entity    |-> available[k].entity,
                               scenarios |-> h.wanted]
          BY <2>6, <4>1
        <5> QED  BY <5>1
      <4>2. CASE k # h.found[1]
        BY <2>6, <4>2
      <4> QED  BY <4>1, <4>2
    <3> QED  BY <2>1, <2>2, <2>6, <3>1 DEF Rewrites
  <2> QED  BY <1>1, <1>6, <2>3, <2>4, <2>5, <2>6, StoreEffect
<1>7. CASE RemoveIndex(i)
  <2>1. /\ h.phase = "remove" /\ h.kind # "update" /\ Len(h.found) \in 1 .. Len(h.found)
        /\ \/ h.found[Len(h.found)] > Len(available) /\ UNCHANGED <<handlers, available>>
           \/ RemovesLast(i, h)
    BY <1>1, <1>7, RemoveIndexEffect
  <2>2. CASE h.found[Len(h.found)] > Len(available) /\ UNCHANGED <<handlers, available>>
    BY <2>1, <2>2 DEF Crashes
  <2>3. CASE RemovesLast(i, h)
    <3>1. PICK g \in Handler :
            /\ Continue(i, g) /\ SameEvent(g, h) /\ g.entity = h.entity
            /\ g.phase = "remove" \/ (g.phase = "notify" /\ Len(h.found) = 1)
            /\ Len(g.found) = Len(h.found) - 1
            /\ \A n \in 1 .. Len(g.found) : n \in 1 .. Len(h.found) /\ g.found[n] = h.found[n]
      BY <2>3 DEF RemovesLast
    <3>2. Leaves(i, g) /\ i \in 1 .. Len(handlers') /\ handlers'[i] = g
      BY <1>1, <3>1, LeavesOthers
    <3>3. /\ UNCHANGED crashed /\ h.found[Len(h.found)] \in 1 .. Len(available)
          /\ available' = RemoveAt(available, h.found[Len(h.found)])
      BY <2>3 DEF RemovesLast
    <3> QED  BY <2>1, <3>1, <3>2, <3>3 DEF Takes
  <2> QED  BY <2>1, <2>2, <2>3
<1>8. CASE Notify(i)
  <2>1. h.phase = "notify" /\ NextEntity(i) /\ UNCHANGED <<available, crashed>>
    BY <1>8 DEF Notify
  <2>2. h.kind = "update" => h.todo # <<>>
    BY <1>1, <2>1 DEF WellFormed
  <2> QED  BY <1>1, <2>1, <2>2, NextEntityPasses DEF Passes
<1> QED  BY <1>4, <1>5, <1>6, <1>7, <1>8 DEF HandleEvent

\* An event leaves the list and the handlers there are alone.
LEMMA PublishedBegins ==
  ASSUME TypeInv, NEW kind \in Kinds, NEW s \in Sessions, NEW e \in Entities \cup {NoAddress},
         Publish(kind, s, e)
  PROVE  /\ UNCHANGED <<available, crashed>>
         /\ \A k \in 1 .. Len(handlers) : k \in 1 .. Len(handlers') /\ handlers'[k] = handlers[k]
         /\ \E h \in Handler :
              /\ h.phase = "begin" /\ h.kind = kind /\ h.session = s /\ h.entity = e
              /\ Len(handlers') \in 1 .. Len(handlers') /\ handlers'[Len(handlers')] = h
              /\ \A k \in 1 .. Len(handlers') : k \in 1 .. Len(handlers) \/ handlers'[k] = h
<1>1. Len(handlers) \in Nat
  BY LenProperties DEF TypeInv, TypeOK
<1>2. PICK h \in Handler :
        /\ handlers'[Len(handlers')] = h
        /\ h.kind = kind /\ h.session = s /\ h.entity = e /\ h.phase = "begin"
  BY EventPublished
<1>3. /\ UNCHANGED <<available, crashed>> /\ Len(handlers') = Len(handlers) + 1
      /\ \A k \in 1 .. Len(handlers) : k \in 1 .. Len(handlers') /\ handlers'[k] = handlers[k]
  BY EventPublished
<1>4. \A k \in 1 .. Len(handlers') : k \in 1 .. Len(handlers) \/ k = Len(handlers')
  BY <1>1, <1>3
<1>5. Len(handlers') \in 1 .. Len(handlers')
  BY <1>1, <1>3
<1> QED  BY <1>2, <1>3, <1>4, <1>5

\* A step is an event, a step of a handler, or none of the list's concern.
LEMMA StepIs ==
  ASSUME TypeInv, [Next]_vars
  PROVE  \/ UNCHANGED <<handlers, available, crashed>>
         \/ \E kind \in Kinds, s \in Sessions, e \in Entities \cup {NoAddress} : Publish(kind, s, e)
         \/ \E i \in 1 .. Len(handlers) : HandleEvent(i)
<1>1. live \subseteq Sessions /\ handlers \in Seq(Handler)
  BY DEF TypeInv, TypeOK
<1>2. ASSUME NEW s \in Sessions, Connect(s) \/ Disconnect(s)
      PROVE  \/ UNCHANGED <<handlers, available, crashed>>
             \/ \E kind \in Kinds, e \in Entities \cup {NoAddress} : Publish(kind, s, e)
  BY <1>2 DEF Connect, Disconnect, Kinds
<1>3. ASSUME NEW s \in live, NEW e \in Entities,
             RemoveEntity(s, e) \/ \E counts \in FeatureCounts : AddEntity(s, e, counts)
      PROVE  \E kind \in Kinds, x \in Entities \cup {NoAddress} : Publish(kind, s, x)
  BY <1>3 DEF RemoveEntity, AddEntity, Kinds
<1>4. ASSUME NEW s \in live, NEW supports \in Announcements, Announce(s, supports)
      PROVE  \E kind \in Kinds, x \in Entities \cup {NoAddress} : Publish(kind, s, x)
  BY <1>4 DEF Announce, Kinds
<1>5. ASSUME NEW i \in Running, HandleEvent(i) PROVE i \in 1 .. Len(handlers)
  BY <1>1, LenProperties DEF Running
<1>6. CASE UNCHANGED vars
  BY <1>6 DEF vars
<1> QED  BY <1>1, <1>2, <1>3, <1>4, <1>5, <1>6 DEF Next, Step, Quiet
-----------------------------------------------------------------------------
(* Indices.                                                                *)

\* A removal has its indices from the first to the last.
Sorted(h) ==
  h.phase = "remove" => \A m, n \in 1 .. Len(h.found) : m < n => h.found[m] < h.found[n]

AllSorted == \A i \in 1 .. Len(handlers) : Sorted(handlers[i])

\* What a removal looks for, it finds in this order.
LEMMA SoughtSorted ==
  ASSUME TypeInv, NEW h \in Handler
  PROVE  /\ Sought(h) \in Seq(Nat \ {0})
         /\ \A m, n \in 1 .. Len(Sought(h)) : m < n => Sought(h)[m] < Sought(h)[n]
         /\ h.kind # "update" =>
              \A n \in 1 .. Len(Sought(h)) :
                Sought(h)[n] \in 1 .. Len(available) /\ Meant(h, available[Sought(h)[n]])
<1>1. available \in Seq(Entry) /\ Len(available) \in Nat
  BY LenProperties DEF TypeInv, TypeOK
<1>2. CASE h.kind = "removeDevice"
  <2>1. PICK q : q = IndicesOfDevice(h.session)
    OBVIOUS
  <2>2. /\ q \in Seq(1 .. Len(available))
        /\ \A m, n \in 1 .. Len(q) : m < n => q[m] < q[n]
        /\ \A n \in 1 .. Len(q) : DeviceOf[available[q[n]].session] = DeviceOf[h.session]
    BY <1>1, <2>1, IndicesFound
  <2>3. \A n \in 1 .. Len(q) : q[n] \in 1 .. Len(available)
    BY <2>2, ElementOfSeq
  <2>4. q \in Seq(Nat \ {0})
    BY <1>1, <2>2, SeqMonotonic
  <2>5. Sought(h) = q
    BY <1>2, <2>1 DEF Sought
  <2> QED  BY <1>2, <2>2, <2>3, <2>4, <2>5 DEF Meant
<1>3. CASE h.kind # "removeDevice"
  <2>1. PICK q : q = IndexOfEntity(h.session, h.entity)
    OBVIOUS
  <2>2. /\ q \in Seq(Nat \ {0})
        /\ \/ q = <<>>
           \/ \E k \in 1 .. Len(available) : q = <<k>> /\ SameEntity(available[k], h.session, h.entity)
    BY <1>1, <2>1, IndexFound
  <2>3. Sought(h) = q
    BY <1>3, <2>1 DEF Sought
  <2>4. CASE q = <<>>
    <3>1. \A n \in 1 .. Len(q) : FALSE
      BY <2>4
    <3> QED  BY <2>2, <2>3, <3>1
  <2>5. ASSUME NEW k \in 1 .. Len(available), q = <<k>>, SameEntity(available[k], h.session, h.entity)
        PROVE  /\ \A m, n \in 1 .. Len(q) : m < n => q[m] < q[n]
               /\ \A n \in 1 .. Len(q) : q[n] \in 1 .. Len(available) /\ Meant(h, available[q[n]])
    <3>1. \A n \in 1 .. Len(q) : n = 1 /\ q[n] = k
      BY <2>5
    <3> QED  BY <1>3, <2>5, <3>1 DEF Meant
  <2> QED  BY <2>2, <2>3, <2>4, <2>5
<1> QED  BY <1>2, <1>3

\* A removal keeps the order of those that are left.
LEMMA SortedStep == TypeInv /\ AllSorted /\ [Next]_vars => AllSorted'
<1> SUFFICES ASSUME TypeInv, AllSorted, [Next]_vars PROVE AllSorted'
  OBVIOUS
<1>1. handlers \in Seq(Handler)
  BY DEF TypeInv, TypeOK
<1>2. CASE UNCHANGED <<handlers, available, crashed>>
  BY <1>2 DEF AllSorted, Sorted
<1>3. ASSUME NEW kind \in Kinds, NEW s \in Sessions, NEW e \in Entities \cup {NoAddress},
             Publish(kind, s, e)
      PROVE  AllSorted'
  <2>1. \A k \in 1 .. Len(handlers') :
          (k \in 1 .. Len(handlers) /\ handlers'[k] = handlers[k]) \/ handlers'[k].phase = "begin"
    BY <1>3, PublishedBegins
  <2> QED  BY <2>1 DEF AllSorted, Sorted
<1>4. ASSUME NEW i \in 1 .. Len(handlers), HandleEvent(i) PROVE AllSorted'
  <2>1. PICK h \in Handler : h = handlers[i]
    BY <1>1, ElementOfSeq
  <2>2. CASE Crashes(h)
    BY <2>2 DEF Crashes, AllSorted, Sorted
  <2>3. ASSUME NEW g \in Handler, Leaves(i, g), Sorted(g) PROVE AllSorted'
    <3> SUFFICES ASSUME NEW k \in 1 .. Len(handlers') PROVE Sorted(handlers'[k])
      BY DEF AllSorted, Sorted
    <3>1. handlers'[k] = g \/ \E m \in 1 .. Len(handlers) : handlers'[k] = handlers[m]
      BY <2>3 DEF Leaves
    <3> QED  BY <2>3, <3>1 DEF AllSorted
  <2>4. CASE Passes(i, h) \/ LooksUp(i, h) \/ Adds(i, h) \/ Rewrites(i, h)
    <3>1. \E g \in Handler : Leaves(i, g) /\ g.phase # "remove"
      BY <2>4 DEF Passes, LooksUp, Adds, Rewrites
    <3> QED  BY <2>3, <3>1 DEF Sorted
  <2>5. CASE Seeks(i, h)
    <3>1. \E g \in Handler : Leaves(i, g) /\ g.found = Sought(h)
      BY <2>5 DEF Seeks
    <3> QED  BY <2>3, <3>1, SoughtSorted DEF Sorted
  <2>6. CASE Takes(i, h)
    <3>1. PICK g \in Handler :
            /\ Leaves(i, g)
            /\ \A n \in 1 .. Len(g.found) : n \in 1 .. Len(h.found) /\ g.found[n] = h.found[n]
      BY <2>6 DEF Takes
    <3>2. h.phase = "remove" /\ Sorted(h)
      BY <2>1, <2>6 DEF Takes, AllSorted
    <3>3. Sorted(g)
      BY <3>1, <3>2 DEF Sorted
    <3> QED  BY <2>3, <3>1, <3>3
  <2> QED  BY <1>4, <2>1, <2>2, <2>4, <2>5, <2>6, StepOf
<1> QED  BY <1>2, <1>3, <1>4, StepIs

\* The indices a handler has are those of what it looked for.
HoldsIn(h, list) ==
  h.phase \in {"store", "remove"} =>
    \A n \in 1 .. Len(h.found) : h.found[n] \in 1 .. Len(list) /\ Meant(h, list[h.found[n]])

IndexInv == ~crashed /\ \A i \in 1 .. Len(handlers) : HoldsIn(handlers[i], available)

\* Only a removal makes indices go wrong, and only those of other handlers.
LEMMA IndexStep == TypeInv /\ AllSorted /\ IndexInv /\ ~RemovalOverlaps /\ [Next]_vars => IndexInv'
<1> SUFFICES ASSUME TypeInv, AllSorted, IndexInv, ~RemovalOverlaps, [Next]_vars PROVE IndexInv'
  OBVIOUS
<1>1. /\ handlers \in Seq(Handler) /\ DOMAIN handlers = 1 .. Len(handlers)
      /\ available \in Seq(Entry) /\ Len(available) \in Nat
  BY LenProperties DEF TypeInv, TypeOK
<1>2. CASE UNCHANGED <<handlers, available, crashed>>
  BY <1>2 DEF IndexInv
<1>3. ASSUME NEW kind \in Kinds, NEW s \in Sessions, NEW e \in Entities \cup {NoAddress},
             Publish(kind, s, e)
      PROVE  IndexInv'
  <2>1. /\ UNCHANGED <<available, crashed>>
        /\ \A k \in 1 .. Len(handlers') :
             (k \in 1 .. Len(handlers) /\ handlers'[k] = handlers[k]) \/ handlers'[k].phase = "begin"
    BY <1>3, PublishedBegins
  <2> QED  BY <2>1 DEF IndexInv, HoldsIn
<1>4. ASSUME NEW i \in 1 .. Len(handlers), HandleEvent(i) PROVE IndexInv'
  <2>1. PICK h \in Handler : h = handlers[i] /\ HoldsIn(h, available) /\ Sorted(h)
    BY <1>1, ElementOfSeq DEF IndexInv, AllSorted
  <2>2. ASSUME NEW g \in Handler, Leaves(i, g), HoldsIn(g, available'), UNCHANGED crashed,
               \A m \in 1 .. Len(handlers) : m # i => HoldsIn(handlers[m], available')
        PROVE  IndexInv'
    <3>1. ASSUME NEW k \in 1 .. Len(handlers') PROVE HoldsIn(handlers'[k], available')
      BY <2>2 DEF Leaves
    <3> QED  BY <2>2, <3>1 DEF IndexInv
  <2>3. ~ Crashes(h)
    BY <1>1, <2>1 DEF Crashes, HoldsIn
  <2>4. CASE Passes(i, h)
    <3>1. \E g \in Handler : Leaves(i, g) /\ HoldsIn(g, available')
      BY <2>4 DEF Passes, HoldsIn
    <3>2. UNCHANGED <<available, crashed>>
      BY <2>4 DEF Passes
    <3> QED  BY <2>2, <3>1, <3>2 DEF IndexInv
  <2>5. CASE LooksUp(i, h)
    <3>1. PICK g \in Handler : /\ Leaves(i, g) /\ g.phase = "store" /\ g.kind = "update"
                               /\ g.found = IndexOfEntity(g.session, g.entity)
      BY <2>5 DEF LooksUp
    <3>2. UNCHANGED <<available, crashed>>
      BY <2>5 DEF LooksUp
    <3>3. \/ g.found = <<>>
          \/ \E k \in 1 .. Len(available) :
               g.found = <<k>> /\ SameEntity(available[k], g.session, g.entity)
      BY <1>1, <3>1, IndexFound
    <3>4. \A n \in 1 .. Len(g.found) :
            g.found[n] \in 1 .. Len(available) /\ SameEntity(available[g.found[n]], g.session, g.entity)
      <4>1. CASE g.found = <<>>
        BY <4>1
      <4>2. ASSUME NEW k \in 1 .. Len(available),
                   g.found = <<k>>, SameEntity(available[k], g.session, g.entity),
                   NEW n \in 1 .. Len(g.found)
            PROVE  g.found[n] \in 1 .. Len(available) /\ SameEntity(available[g.found[n]], g.session, g.entity)
        <5>1. n = 1 /\ g.found[n] = k
          BY <4>2
        <5> QED  BY <4>2, <5>1
      <4> QED  BY <3>3, <4>1, <4>2
    <3>5. HoldsIn(g, available')
      BY <3>1, <3>2, <3>4 DEF HoldsIn, Meant
    <3> QED  BY <2>2, <3>1, <3>2, <3>5 DEF IndexInv
  <2>6. CASE Seeks(i, h)
    <3>1. PICK g \in Handler : /\ Leaves(i, g) /\ SameEvent(g, h) /\ g.entity = h.entity
                               /\ g.found = Sought(h)
      BY <2>6 DEF Seeks
    <3>2. UNCHANGED <<available, crashed>> /\ h.kind # "update"
      BY <2>6 DEF Seeks
    <3>3. HoldsIn(g, available')
      <4>1. \A n \in 1 .. Len(Sought(h)) :
              Sought(h)[n] \in 1 .. Len(available) /\ Meant(h, available[Sought(h)[n]])
        BY <3>2, SoughtSorted
      <4> QED  BY <3>1, <3>2, <4>1 DEF HoldsIn, Meant, SameEvent
    <3> QED  BY <2>2, <3>1, <3>2, <3>3 DEF IndexInv
  <2>7. CASE Adds(i, h) \/ Rewrites(i, h)
    <3>1. /\ \E g \in Handler : Leaves(i, g) /\ HoldsIn(g, available')
          /\ UNCHANGED crashed
      BY <2>7 DEF Adds, Rewrites, HoldsIn
    <3>2. ASSUME NEW k \in 1 .. Len(available)
          PROVE  /\ k \in 1 .. Len(available')
                 /\ available'[k].session = available[k].session
                 /\ available'[k].entity = available[k].entity
      <4>1. CASE Adds(i, h)
        <5>1. PICK entry \in Entry : available' = Append(available, entry)
          BY <4>1 DEF Adds
        <5>2. Len(available') = Len(available) + 1 /\ available'[k] = available[k]
          BY <1>1, <5>1, AppendProperties
        <5> QED  BY <1>1, <5>2
      <4>2. CASE Rewrites(i, h)
        BY <4>2 DEF Rewrites
      <4> QED  BY <2>7, <4>1, <4>2
    <3>3. ASSUME NEW m \in 1 .. Len(handlers) PROVE HoldsIn(handlers[m], available')
      <4>1. HoldsIn(handlers[m], available)
        BY DEF IndexInv
      <4>2. PICK f : f = handlers[m]
        OBVIOUS
      <4>3. ASSUME f.phase \in {"store", "remove"}, NEW n \in 1 .. Len(f.found)
            PROVE  f.found[n] \in 1 .. Len(available') /\ Meant(f, available'[f.found[n]])
        <5>1. f.found[n] \in 1 .. Len(available) /\ Meant(f, available[f.found[n]])
          BY <4>1, <4>2, <4>3 DEF HoldsIn
        <5> QED  BY <3>2, <5>1 DEF Meant, SameEntity
      <4> QED  BY <4>2, <4>3 DEF HoldsIn
    <3> QED  BY <2>2, <3>1, <3>3
  <2>8. CASE Takes(i, h)
    <3>1. PICK last : last = Len(h.found)
      OBVIOUS
    <3>2. /\ UNCHANGED crashed /\ h.phase = "remove" /\ last \in 1 .. Len(h.found)
          /\ h.found[last] \in 1 .. Len(available) /\ available' = RemoveAt(available, h.found[last])
      BY <2>8, <3>1 DEF Takes
    <3>3. PICK g \in Handler :
            /\ Leaves(i, g) /\ SameEvent(g, h) /\ g.entity = h.entity /\ Len(g.found) = last - 1
            /\ \A n \in 1 .. Len(g.found) : n \in 1 .. last /\ g.found[n] = h.found[n]
      BY <2>8, <3>1 DEF Takes
    <3>4. ASSUME NEW m \in 1 .. Len(handlers), m # i PROVE HoldsIn(handlers[m], available')
      BY <1>1, <2>1, <3>2, <3>4 DEF RemovalOverlaps, HoldsIn
    <3>5. PICK r \in 1 .. Len(available) : r = h.found[last]
      BY <3>2
    <3>6. /\ Len(available') = Len(available) - 1
          /\ \A k \in 1 .. Len(available') : k < r => available'[k] = available[k]
      BY <1>1, <3>2, <3>5, Removed
    <3>7. ASSUME NEW n \in 1 .. Len(g.found)
          PROVE  g.found[n] \in 1 .. Len(available') /\ Meant(g, available'[g.found[n]])
      <4>1. last \in Nat
        BY <3>1, LenProperties DEF Handler
      <4>2. n \in 1 .. last /\ n < last /\ g.found[n] = h.found[n]
        BY <3>3, <4>1
      <4>3. /\ h.found[n] < r /\ h.found[n] \in 1 .. Len(available)
            /\ Meant(h, available[h.found[n]])
        BY <2>1, <3>1, <3>2, <3>5, <4>2 DEF Sorted, HoldsIn
      <4>4. h.found[n] \in 1 .. Len(available') /\ available'[h.found[n]] = available[h.found[n]]
        BY <1>1, <3>6, <4>3
      <4> QED  BY <3>3, <4>2, <4>3, <4>4 DEF Meant, SameEvent
    <3>8. HoldsIn(g, available')
      BY <3>7 DEF HoldsIn
    <3> QED  BY <2>2, <3>2, <3>3, <3>4, <3>8
  <2> QED  BY <1>4, <2>1, <2>3, <2>4, <2>5, <2>6, <2>7, <2>8, StepOf
<1> QED  BY <1>2, <1>3, <1>4, StepIs

\* Whatever the order of the handlers, and however many of them run at once:
\* an index is out of range, or that of another entity, only after a removal
\* had its indices at the same time as another handler.
THEOREM Mislead == Spec => OnlyRemovalsMislead
<1>1. Init => TypeInv /\ AllSorted /\ IndexInv
  <2> SUFFICES ASSUME Init PROVE AllSorted /\ IndexInv
    BY TypeInit
  <2>1. \A i \in 1 .. Len(handlers) : FALSE
    BY EmptySeq DEF Init
  <2> QED  BY <2>1 DEF Init, AllSorted, IndexInv
<1>2. TypeInv /\ AllSorted /\ IndexInv /\ ~RemovalOverlaps /\ [Next]_vars
        => (TypeInv /\ AllSorted /\ IndexInv)'
  BY TypeStep, SortedStep, IndexStep
<1>3. TypeInv /\ IndexInv => IndicesHold
  <2> SUFFICES ASSUME TypeInv, IndexInv PROVE IndicesHold
    OBVIOUS
  <2>1. /\ handlers \in Seq(Handler) /\ DOMAIN handlers = 1 .. Len(handlers)
        /\ DOMAIN available = 1 .. Len(available)
    BY LenProperties DEF TypeInv, TypeOK
  <2>2. ASSUME NEW i \in DOMAIN handlers PROVE DOMAIN handlers[i].found = 1 .. Len(handlers[i].found)
    <3>1. handlers[i] \in Handler
      BY <2>1, ElementOfSeq
    <3> QED  BY <3>1, LenProperties DEF Handler
  <2> QED  BY <2>1, <2>2 DEF IndexInv, IndicesHold, HoldsIn
<1> QED  BY <1>1, <1>2, <1>3, PTL DEF Spec, OnlyRemovalsMislead
-----------------------------------------------------------------------------
(* Entries.                                                                *)

\* An entity is listed once, and not at all while an update that missed it is
\* about to add it.
ClaimInv(s, e) ==
  /\ \A j, k \in 1 .. Len(available) :
       SameEntity(available[j], s, e) /\ SameEntity(available[k], s, e) => j = k
  /\ \A i \in 1 .. Len(handlers) : Misses(handlers[i], s, e) =>
       \A k \in 1 .. Len(available) : ~SameEntity(available[k], s, e)

\* Each entry is that of the old list at o, with other scenarios perhaps.
Stays(o) ==
  \A k \in 1 .. Len(available') :
    /\ o[k] \in 1 .. Len(available)
    /\ available'[k].session = available[o[k]].session
    /\ available'[k].entity = available[o[k]].entity
    /\ \A j \in 1 .. Len(available') : o[j] = o[k] => j = k

\* An entry keeps its place, but for those behind one that is taken out.
LEMMA StaysOf ==
  ASSUME TypeInv, NEW i \in 1 .. Len(handlers), NEW h \in Handler
  PROVE  /\ UNCHANGED available \/ Rewrites(i, h) =>
              \E o : Stays(o) /\ \A k \in 1 .. Len(available') : o[k] = k
         /\ Takes(i, h) =>
              \E o : Stays(o) /\ \A k \in 1 .. Len(available') :
                                   o[k] = IF k < h.found[Len(h.found)] THEN k ELSE k + 1
<1>1. available \in Seq(Entry) /\ Len(available) \in Nat
  BY LenProperties DEF TypeInv, TypeOK
<1>2. ASSUME UNCHANGED available \/ Rewrites(i, h)
      PROVE  \E o : Stays(o) /\ \A k \in 1 .. Len(available') : o[k] = k
  <2>1. PICK o : o = [k \in 1 .. Len(available') |-> k]
    OBVIOUS
  <2>2. \A k \in 1 .. Len(available') : o[k] = k
    BY <2>1
  <2>3. ASSUME NEW k \in 1 .. Len(available')
        PROVE  /\ k \in 1 .. Len(available)
               /\ available'[k].session = available[k].session
               /\ available'[k].entity = available[k].entity
    BY <1>2 DEF Rewrites
  <2> QED  BY <2>2, <2>3 DEF Stays
<1>3. ASSUME Takes(i, h)
      PROVE  \E o : Stays(o) /\ \A k \in 1 .. Len(available') :
                                  o[k] = IF k < h.found[Len(h.found)] THEN k ELSE k + 1
  <2>1. PICK r \in 1 .. Len(available) : r = h.found[Len(h.found)] /\ available' = RemoveAt(available, r)
    BY <1>3 DEF Takes
  <2>2. PICK o : o = [k \in 1 .. Len(available') |-> IF k < r THEN k ELSE k + 1]
    OBVIOUS
  <2>3. \A k \in 1 .. Len(available') : o[k] = IF k < r THEN k ELSE k + 1
    BY <2>2
  <2>4. /\ Len(available') = Len(available) - 1
        /\ \A k \in 1 .. Len(available') :
             /\ k < r => available'[k] = available[k]
             /\ k >= r => available'[k] = available[k + 1]
    BY <1>1, <2>1, Removed
  <2>5. ASSUME NEW k \in 1 .. Len(available')
        PROVE  /\ o[k] \in 1 .. Len(available) /\ available'[k] = available[o[k]]
               /\ \A j \in 1 .. Len(available') : o[j] = o[k] => j = k
    <3>1. o[k] \in 1 .. Len(available) /\ available'[k] = available[o[k]]
      BY <1>1, <2>3, <2>4
    <3>2. ASSUME NEW j \in 1 .. Len(available'), o[j] = o[k] PROVE j = k
      <4>1. PICK x \in Int, y \in Int : x = o[j] /\ y = o[k]
        BY <1>1, <2>3
      <4>2. x = (IF j < r THEN j ELSE j + 1) /\ y = (IF k < r THEN k ELSE k + 1) /\ x = y
        BY <2>3, <3>2, <4>1
      <4> QED  BY <1>1, <4>2
    <3> QED  BY <3>1, <3>2
  <2>6. \A k \in 1 .. Len(available') : o[k] = IF k < h.found[Len(h.found)] THEN k ELSE k + 1
    BY <2>1, <2>3
  <2>7. Stays(o)
    BY <2>5 DEF Stays
  <2> QED  BY <2>6, <2>7
<1> QED  BY <1>2, <1>3

\* While no two updates miss the entity at once, it is listed once.
LEMMA ClaimStep ==
  ASSUME NEW s \in Sessions, NEW e \in Entities
  PROVE  TypeInv /\ ClaimInv(s, e) /\ ~TwoMisses(s, e) /\ [Next]_vars => ClaimInv(s, e)'
<1> SUFFICES ASSUME TypeInv, ClaimInv(s, e), ~TwoMisses(s, e), [Next]_vars PROVE ClaimInv(s, e)'
  OBVIOUS
<1>1. /\ handlers \in Seq(Handler) /\ DOMAIN handlers = 1 .. Len(handlers)
      /\ available \in Seq(Entry) /\ Len(available) \in Nat
  BY LenProperties DEF TypeInv, TypeOK
<1>2. ASSUME NEW o, Stays(o),
             \A k \in 1 .. Len(handlers') : Misses(handlers'[k], s, e) =>
               \/ \E m \in 1 .. Len(handlers) : handlers'[k] = handlers[m]
               \/ \A n \in 1 .. Len(available) : ~SameEntity(available[n], s, e)
      PROVE  ClaimInv(s, e)'
  <2>1. ASSUME NEW k \in 1 .. Len(available'), SameEntity(available'[k], s, e)
        PROVE  o[k] \in 1 .. Len(available) /\ SameEntity(available[o[k]], s, e)
    BY <1>2, <2>1 DEF Stays, SameEntity
  <2>2. ASSUME NEW j \in 1 .. Len(available'), NEW k \in 1 .. Len(available'),
               SameEntity(available'[j], s, e), SameEntity(available'[k], s, e)
        PROVE  j = k
    <3>1. o[j] = o[k]
      BY <2>1, <2>2 DEF ClaimInv
    <3> QED  BY <1>2, <3>1 DEF Stays
  <2>3. ASSUME NEW m \in 1 .. Len(handlers'), Misses(handlers'[m], s, e),
               NEW k \in 1 .. Len(available')
        PROVE  ~SameEntity(available'[k], s, e)
    <3>1. \A n \in 1 .. Len(available) : ~SameEntity(available[n], s, e)
      BY <1>2, <2>3 DEF ClaimInv
    <3> QED  BY <2>1, <3>1
  <2> QED  BY <2>2, <2>3 DEF ClaimInv, SameEntity, Misses
<1>3. ASSUME UNCHANGED available,
             \A k \in 1 .. Len(handlers') : Misses(handlers'[k], s, e) =>
               \/ \E m \in 1 .. Len(handlers) : handlers'[k] = handlers[m]
               \/ \A n \in 1 .. Len(available) : ~SameEntity(available[n], s, e)
      PROVE  ClaimInv(s, e)'
  BY <1>3 DEF ClaimInv, SameEntity, Misses
<1>4. CASE UNCHANGED <<handlers, available, crashed>>
  BY <1>3, <1>4
<1>5. ASSUME NEW kind \in Kinds, NEW t \in Sessions, NEW x \in Entities \cup {NoAddress},
             Publish(kind, t, x)
      PROVE  ClaimInv(s, e)'
  <2>1. UNCHANGED available
    BY <1>5, PublishedBegins
  <2>2. \A k \in 1 .. Len(handlers') :
          (k \in 1 .. Len(handlers) /\ handlers'[k] = handlers[k]) \/ handlers'[k].phase = "begin"
    BY <1>5, PublishedBegins
  <2> QED  BY <1>3, <2>1, <2>2 DEF Misses
<1>6. ASSUME NEW i \in 1 .. Len(handlers), HandleEvent(i) PROVE ClaimInv(s, e)'
  <2>1. PICK h \in Handler : h = handlers[i]
    BY <1>1, ElementOfSeq
  <2>2. ASSUME NEW g, Leaves(i, g),
               Misses(g, s, e) => \A n \in 1 .. Len(available) : ~SameEntity(available[n], s, e)
        PROVE  \A k \in 1 .. Len(handlers') : Misses(handlers'[k], s, e) =>
                 \/ \E m \in 1 .. Len(handlers) : handlers'[k] = handlers[m]
                 \/ \A n \in 1 .. Len(available) : ~SameEntity(available[n], s, e)
    BY <2>2 DEF Leaves
  <2>3. CASE Crashes(h)
    BY <1>3, <2>3 DEF Crashes
  <2>4. CASE Passes(i, h) \/ Seeks(i, h)
    <3>1. UNCHANGED available /\ \E g \in Handler : Leaves(i, g) /\ g.phase # "store"
      BY <2>4 DEF Passes, Seeks
    <3> QED  BY <1>3, <2>2, <3>1 DEF Misses
  <2>5. CASE LooksUp(i, h)
    <3>1. PICK g \in Handler : Leaves(i, g) /\ g.found = IndexOfEntity(g.session, g.entity)
      BY <2>5 DEF LooksUp
    <3>2. ASSUME Misses(g, s, e), NEW n \in 1 .. Len(available)
          PROVE  ~SameEntity(available[n], s, e)
      <4>1. g.found = <<>> /\ DeviceOf[g.session] = DeviceOf[s] /\ g.entity = e
        BY <3>2 DEF Misses
      <4>2. \/ \A k \in 1 .. Len(available) : ~SameEntity(available[k], g.session, g.entity)
            \/ \E k \in 1 .. Len(available) : g.found = <<k>>
        BY <1>1, <3>1, IndexFound
      <4>3. ~SameEntity(available[n], g.session, g.entity)
        BY <3>2, <4>1, <4>2
      <4> QED  BY <4>1, <4>3 DEF SameEntity
    <3>3. UNCHANGED available
      BY <2>5 DEF LooksUp
    <3> QED  BY <1>3, <2>2, <3>1, <3>2, <3>3
  <2>6. CASE Rewrites(i, h) \/ Takes(i, h)
    <3>1. \E g \in Handler : Leaves(i, g) /\ g.phase # "store"
      BY <2>6 DEF Rewrites, Takes
    <3>2. \E o : Stays(o)
      BY <2>6, StaysOf
    <3> QED  BY <1>2, <2>2, <3>1, <3>2 DEF Misses
  <2>7. CASE Adds(i, h)
    <3>1. PICK g \in Handler : Leaves(i, g) /\ g.phase = "notify"
      BY <2>7 DEF Adds
    <3>2. PICK entry \in Entry : /\ entry.session = h.session /\ entry.entity = h.entity
                                 /\ available' = Append(available, entry)
      BY <2>7 DEF Adds
    <3>3. /\ Len(available') = Len(available) + 1 /\ available'[Len(available) + 1] = entry
          /\ \A k \in 1 .. Len(available) : available'[k] = available[k]
      BY <1>1, <3>2, AppendProperties
    <3>4. \A k \in 1 .. Len(available') : k \in 1 .. Len(available) \/ k = Len(available) + 1
      BY <1>1, <3>3
    <3>5. SameEntity(entry, s, e) => Misses(h, s, e)
      BY <2>7, <3>2 DEF Adds, SameEntity, Misses
    <3>6. CASE Misses(h, s, e)
      <4>1. \A k \in 1 .. Len(available) : ~SameEntity(available[k], s, e)
        BY <2>1, <3>6 DEF ClaimInv
      <4>2. \A j, k \in 1 .. Len(available') :
              SameEntity(available'[j], s, e) /\ SameEntity(available'[k], s, e) => j = k
        BY <3>3, <3>4, <4>1
      <4>3. ASSUME NEW k \in 1 .. Len(handlers'), Misses(handlers'[k], s, e) PROVE FALSE
        <5>1. \E m \in 1 .. Len(handlers) : m # i /\ handlers'[k] = handlers[m]
          BY <3>1, <4>3 DEF Leaves, Misses
        <5> QED  BY <1>1, <2>1, <3>6, <4>3, <5>1 DEF TwoMisses
      <4> QED  BY <4>2, <4>3 DEF ClaimInv, SameEntity, Misses
    <3>7. CASE ~Misses(h, s, e)
      <4>1. ~SameEntity(entry, s, e)
        BY <3>5, <3>7
      <4>2. \A k \in 1 .. Len(available') :
              SameEntity(available'[k], s, e) =>
                k \in 1 .. Len(available) /\ SameEntity(available[k], s, e)
        BY <3>3, <3>4, <4>1
      <4>3. \A k \in 1 .. Len(handlers') :
              Misses(handlers'[k], s, e) => \E m \in 1 .. Len(handlers) : handlers'[k] = handlers[m]
        BY <3>1 DEF Leaves, Misses
      <4>4. \A j, k \in 1 .. Len(available') :
              SameEntity(available'[j], s, e) /\ SameEntity(available'[k], s, e) => j = k
        BY <4>2 DEF ClaimInv
      <4>5. \A k \in 1 .. Len(handlers') : Misses(handlers'[k], s, e) =>
              \A n \in 1 .. Len(available') : ~SameEntity(available'[n], s, e)
        BY <4>2, <4>3 DEF ClaimInv
      <4> QED  BY <4>4, <4>5 DEF ClaimInv, SameEntity, Misses
    <3> QED  BY <3>6, <3>7
  <2> QED  BY <1>6, <2>1, <2>3, <2>4, <2>5, <2>6, <2>7, StepOf
<1> QED  BY <1>4, <1>5, <1>6, StepIs

\* At first no entity is listed.
LEMMA ClaimInit ==
  ASSUME Init, NEW s \in Sessions, NEW e \in Entities
  PROVE  ClaimInv(s, e)
<1>1. \A i \in 1 .. Len(handlers) : FALSE
  BY EmptySeq DEF Init
<1>2. \A k \in 1 .. Len(available) : FALSE
  BY EmptySeq DEF Init
<1> QED  BY <1>1, <1>2 DEF ClaimInv

\* Whatever the order of the handlers, and however many of them run at once:
\* an entity is listed twice only after two updates looked it up in vain at
\* the same time.
THEOREM Duplicates == Spec => OnlyTwoMissesDuplicate
<1> SUFFICES ASSUME NEW s \in Sessions, NEW e \in Entities
             PROVE  Spec => ([](~TwoMisses(s, e)) => []ListedOnce(s, e))
  BY DEF OnlyTwoMissesDuplicate
<1>1. Init => TypeInv /\ ClaimInv(s, e)
  BY TypeInit, ClaimInit
<1>2. TypeInv /\ ClaimInv(s, e) /\ ~TwoMisses(s, e) /\ [Next]_vars => (TypeInv /\ ClaimInv(s, e))'
  BY TypeStep, ClaimStep
<1>3. TypeInv /\ ClaimInv(s, e) => ListedOnce(s, e)
  <2>1. TypeInv => DOMAIN available = 1 .. Len(available)
    BY LenProperties DEF TypeInv, TypeOK
  <2> QED  BY <2>1 DEF ClaimInv, ListedOnce
<1> QED  BY <1>1, <1>2, <1>3, PTL DEF Spec
-----------------------------------------------------------------------------
(* Ghosts.                                                                 *)

\* The handler is about to take out the entry at k.
Hunts(h, k) ==
  h.phase = "begin" \/ (h.phase = "remove" /\ \E n \in 1 .. Len(h.found) : h.found[n] = k)

\* What is listed and gone is about to be removed.
HauntInv(s, e) ==
  \A k \in 1 .. Len(available) :
    available[k].session = s /\ available[k].entity = e /\ Gone(s, e) =>
      \E i \in 1 .. Len(handlers) : Removes(handlers[i], s, e) /\ Hunts(handlers[i], k)

\* A removal that begins looks for the entry, if it is the only one.
LEMMA SoughtEntry ==
  ASSUME TypeInv, NEW s \in Sessions, NEW e \in Entities, ClaimInv(s, e),
         NEW h \in Handler, Removes(h, s, e),
         NEW k \in 1 .. Len(available), available[k].session = s, available[k].entity = e
  PROVE  \E n \in 1 .. Len(Sought(h)) : Sought(h)[n] = k
<1>1. available \in Seq(Entry)
  BY DEF TypeInv, TypeOK
<1>2. CASE h.kind = "removeDevice"
  <2>1. DeviceOf[available[k].session] = DeviceOf[h.session]
    BY DEF Removes
  <2>2. \E n \in 1 .. Len(IndicesOfDevice(h.session)) : IndicesOfDevice(h.session)[n] = k
    BY <1>1, <2>1, IndicesFound
  <2> QED  BY <1>2, <2>2 DEF Sought
<1>3. CASE h.kind # "removeDevice"
  <2>1. SameEntity(available[k], h.session, h.entity) /\ SameEntity(available[k], s, e)
    BY <1>3 DEF Removes, SameEntity
  <2>2. Sought(h) = IndexOfEntity(h.session, h.entity)
    BY <1>3 DEF Sought
  <2>3. PICK j \in 1 .. Len(available) :
          Sought(h) = <<j>> /\ SameEntity(available[j], h.session, h.entity)
    BY <1>1, <2>1, <2>2, IndexFound
  <2>4. SameEntity(available[j], s, e)
    BY <1>3, <2>3 DEF Removes, SameEntity
  <2>5. j = k
    BY <2>1, <2>4 DEF ClaimInv
  <2>6. 1 \in 1 .. Len(Sought(h)) /\ Sought(h)[1] = k
    BY <2>3, <2>5
  <2> QED  BY <2>6
<1> QED  BY <1>2, <1>3

\* While no updates and removals of the entity get in each other's way, what
\* is gone is about to be removed.
LEMMA HauntStep ==
  ASSUME NEW s \in Sessions, NEW e \in Entities
  PROVE  TypeInv /\ AllSorted /\ ClaimInv(s, e) /\ HauntInv(s, e)
           /\ ~TwoRemovals(s, e) /\ ~LateUpdate(s, e) /\ [Next]_vars => HauntInv(s, e)'
<1> SUFFICES ASSUME TypeInv, AllSorted, ClaimInv(s, e), HauntInv(s, e),
                    ~TwoRemovals(s, e), ~LateUpdate(s, e), [Next]_vars
             PROVE  HauntInv(s, e)'
  OBVIOUS
<1>1. /\ handlers \in Seq(Handler) /\ DOMAIN handlers = 1 .. Len(handlers)
      /\ available \in Seq(Entry) /\ Len(available) \in Nat /\ live \subseteq Sessions
  BY LenProperties DEF TypeInv, TypeOK
<1> DEFINE Safe(k) == \E i \in 1 .. Len(handlers') : Removes(handlers'[i], s, e) /\ Hunts(handlers'[i], k)
<1>2. ASSUME \A k \in 1 .. Len(available') :
               available'[k].session = s /\ available'[k].entity = e /\ Gone(s, e)' => Safe(k)
      PROVE  HauntInv(s, e)'
  BY <1>2 DEF HauntInv, Removes, Hunts
<1> HIDE DEF Safe
<1>3. CASE UNCHANGED vars
  BY <1>3 DEF vars, HauntInv, Gone, Removes, Hunts
<1>4. ASSUME NEW kind \in Kinds, NEW t \in Sessions, NEW x \in Entities \cup {NoAddress},
             Publish(kind, t, x),
             Gone(s, e)' => Gone(s, e) \/ (t = s /\ (kind = "removeDevice"
                                                     \/ (kind = "removeEntity" /\ x = e)))
      PROVE  HauntInv(s, e)'
  <2>1. UNCHANGED available
    BY <1>4, PublishedBegins
  <2>2. \A i \in 1 .. Len(handlers) : i \in 1 .. Len(handlers') /\ handlers'[i] = handlers[i]
    BY <1>4, PublishedBegins
  <2>3. PICK h \in Handler :
          /\ h.phase = "begin" /\ h.kind = kind /\ h.session = t /\ h.entity = x
          /\ Len(handlers') \in 1 .. Len(handlers') /\ handlers'[Len(handlers')] = h
    BY <1>4, PublishedBegins
  <2> SUFFICES ASSUME NEW k \in 1 .. Len(available),
                      available[k].session = s, available[k].entity = e, Gone(s, e)'
               PROVE  Safe(k)
    BY <1>2, <2>1
  <2>4. CASE Gone(s, e)
    <3>1. PICK i \in 1 .. Len(handlers) : Removes(handlers[i], s, e) /\ Hunts(handlers[i], k)
      BY <2>4 DEF HauntInv
    <3> QED  BY <2>2, <3>1 DEF Safe
  <2>5. CASE ~Gone(s, e)
    <3>1. Removes(h, s, e) /\ Hunts(h, k)
      BY <1>4, <2>3, <2>5 DEF Removes, Hunts
    <3> QED  BY <2>3, <3>1 DEF Safe
  <2> QED  BY <2>4, <2>5
<1>5. ASSUME NEW t \in Sessions, Connect(t) PROVE HauntInv(s, e)'
  <2>1. UNCHANGED <<handlers, available, entities>> /\ (Gone(s, e)' => Gone(s, e))
    BY <1>5 DEF Connect, Gone
  <2> QED  BY <2>1 DEF HauntInv, Removes, Hunts
<1>6. ASSUME NEW t \in Sessions, Disconnect(t) PROVE HauntInv(s, e)'
  <2>1. /\ Publish("removeDevice", t, NoAddress)
        /\ Gone(s, e)' => Gone(s, e) \/ t = s
    BY <1>6 DEF Disconnect, Gone
  <2> QED  BY <1>4, <2>1 DEF Kinds
<1>7. ASSUME NEW t \in live, NEW x \in Entities, RemoveEntity(t, x) PROVE HauntInv(s, e)'
  <2>1. /\ Publish("removeEntity", t, x) /\ UNCHANGED live
        /\ entities' = [entities EXCEPT ![t] = @ \ {x}]
    BY <1>7 DEF RemoveEntity
  <2>2. entities \in [Sessions -> SUBSET Entities]
    BY DEF TypeInv, TypeOK
  <2>3. Gone(s, e)' => Gone(s, e) \/ (t = s /\ x = e)
    BY <1>1, <2>1, <2>2 DEF Gone
  <2> QED  BY <1>1, <1>4, <2>1, <2>3 DEF Kinds
<1>8. ASSUME NEW t \in live, NEW x \in Entities, NEW counts \in FeatureCounts, AddEntity(t, x, counts)
      PROVE  HauntInv(s, e)'
  <2>1. /\ Publish("update", t, NoAddress) /\ UNCHANGED live
        /\ entities' = [entities EXCEPT ![t] = @ \cup {x}]
    BY <1>8 DEF AddEntity
  <2>2. entities \in [Sessions -> SUBSET Entities]
    BY DEF TypeInv, TypeOK
  <2>3. Gone(s, e)' => Gone(s, e)
    BY <1>1, <2>1, <2>2 DEF Gone
  <2> QED  BY <1>1, <1>4, <2>1, <2>3 DEF Kinds
<1>9. ASSUME NEW t \in live, NEW supports \in Announcements, Announce(t, supports)
      PROVE  HauntInv(s, e)'
  <2>1. Publish("update", t, NoAddress) /\ (Gone(s, e)' => Gone(s, e))
    BY <1>9 DEF Announce, Gone
  <2> QED  BY <1>1, <1>4, <2>1 DEF Kinds
<1>10. ASSUME NEW i \in 1 .. Len(handlers), HandleEvent(i) PROVE HauntInv(s, e)'
  <2>1. PICK h \in Handler : h = handlers[i] /\ Sorted(h)
    BY <1>1, ElementOfSeq DEF AllSorted
  <2>2. Gone(s, e)' <=> Gone(s, e)
    BY <1>10 DEF HandleEvent, remote, Gone
  <2>3. CASE Crashes(h)
    <3>1. UNCHANGED <<handlers, available>>
      BY <2>3 DEF Crashes
    <3> QED  BY <2>2, <3>1 DEF HauntInv, Removes, Hunts
  <2>4. ASSUME NEW g, Leaves(i, g), NEW k, NEW m \in 1 .. Len(handlers), m # i,
               Removes(handlers[m], s, e), Hunts(handlers[m], k)
        PROVE  Safe(k)
    <3>1. PICK j \in 1 .. Len(handlers') : handlers'[j] = handlers[m]
      BY <2>4 DEF Leaves
    <3> QED  BY <2>4, <3>1 DEF Safe
  <2>5. CASE Passes(i, h) \/ LooksUp(i, h) \/ Rewrites(i, h)
    <3>1. PICK g \in Handler : Leaves(i, g)
      BY <2>5 DEF Passes, LooksUp, Rewrites
    <3>2. UNCHANGED available \/ Rewrites(i, h)
      BY <2>5 DEF Passes, LooksUp
    <3>3. PICK o : Stays(o) /\ \A k \in 1 .. Len(available') : o[k] = k
      BY <3>2, StaysOf
    <3>4. ASSUME NEW k \in 1 .. Len(available'),
                 available'[k].session = s, available'[k].entity = e, Gone(s, e)
          PROVE  Safe(k)
      <4>1. k \in 1 .. Len(available) /\ available[k].session = s /\ available[k].entity = e
        BY <3>3, <3>4 DEF Stays
      <4>2. PICK m \in 1 .. Len(handlers) : Removes(handlers[m], s, e) /\ Hunts(handlers[m], k)
        BY <3>4, <4>1 DEF HauntInv
      <4>3. m # i
        <5>1. ~(Removes(h, s, e) /\ Hunts(h, k)) \/ Passes(i, h)
          BY <2>5 DEF LooksUp, Rewrites, Hunts
        <5>2. ASSUME Passes(i, h), Removes(h, s, e), Hunts(h, k) PROVE FALSE
          <6>1. h.kind # "update" /\ h.phase = "begin" /\ Sought(h) = <<>>
            BY <5>2 DEF Passes, Removes, Hunts
          <6>2. \E n \in 1 .. Len(Sought(h)) : Sought(h)[n] = k
            BY <4>1, <5>2, SoughtEntry
          <6> QED  BY <6>1, <6>2
        <5> QED  BY <2>1, <4>2, <5>1, <5>2
      <4> QED  BY <2>4, <3>1, <4>2, <4>3
    <3> QED  BY <1>2, <2>2, <3>4
  <2>6. CASE Seeks(i, h)
    <3>1. PICK g \in Handler : /\ Leaves(i, g) /\ i \in 1 .. Len(handlers') /\ handlers'[i] = g
                               /\ SameEvent(g, h) /\ g.entity = h.entity
                               /\ g.phase = "remove" /\ g.found = Sought(h)
      BY <2>6 DEF Seeks
    <3>2. UNCHANGED available
      BY <2>6 DEF Seeks
    <3>3. ASSUME NEW k \in 1 .. Len(available),
                 available[k].session = s, available[k].entity = e, Gone(s, e)
          PROVE  Safe(k)
      <4>1. PICK m \in 1 .. Len(handlers) : Removes(handlers[m], s, e) /\ Hunts(handlers[m], k)
        BY <3>3 DEF HauntInv
      <4>2. CASE m # i
        BY <2>4, <3>1, <4>1, <4>2
      <4>3. CASE m = i
        <5>1. Removes(h, s, e)
          BY <2>1, <4>1, <4>3
        <5>2. Removes(g, s, e)
          BY <3>1, <5>1 DEF Removes, SameEvent
        <5>3. Hunts(g, k)
          BY <3>1, <3>3, <5>1, SoughtEntry DEF Hunts
        <5> QED  BY <3>1, <5>2, <5>3 DEF Safe
      <4> QED  BY <4>2, <4>3
    <3> QED  BY <1>2, <2>2, <3>2, <3>3
  <2>7. CASE Adds(i, h)
    <3>1. PICK g \in Handler : Leaves(i, g)
      BY <2>7 DEF Adds
    <3>2. PICK entry \in Entry : /\ entry.session = h.session /\ entry.entity = h.entity
                                 /\ available' = Append(available, entry)
      BY <2>7 DEF Adds
    <3>3. /\ Len(available') = Len(available) + 1 /\ available'[Len(available) + 1] = entry
          /\ \A k \in 1 .. Len(available) : available'[k] = available[k]
      BY <1>1, <3>2, AppendProperties
    <3>4. h.phase = "store" /\ h.found = <<>>
      BY <2>7 DEF Adds
    <3>5. ASSUME NEW k \in 1 .. Len(available'),
                 available'[k].session = s, available'[k].entity = e, Gone(s, e)
          PROVE  Safe(k)
      <4>1. \E m \in 1 .. Len(handlers) : Removes(handlers[m], s, e) /\ Hunts(handlers[m], k)
        <5>1. CASE k \in 1 .. Len(available)
          BY <3>3, <3>5, <5>1 DEF HauntInv
        <5>2. CASE k = Len(available) + 1
          <6>1. Misses(h, s, e) /\ h.session = s
            BY <3>2, <3>3, <3>4, <3>5, <5>2 DEF Misses
          <6>2. ToBeRemoved(s, e)
            BY <1>1, <2>1, <3>5, <6>1 DEF LateUpdate
          <6> QED  BY <1>1, <6>2 DEF ToBeRemoved, Hunts
        <5> QED  BY <1>1, <3>3, <5>1, <5>2
      <4>2. ~Hunts(h, k)
        BY <3>4 DEF Hunts
      <4> QED  BY <2>1, <2>4, <3>1, <4>1, <4>2
    <3> QED  BY <1>2, <2>2, <3>5
  <2>8. CASE Takes(i, h)
    <3>1. PICK last, r : last = Len(h.found) /\ r = h.found[last]
      OBVIOUS
    <3>2. /\ h.phase = "remove" /\ h.kind # "update" /\ last \in 1 .. Len(h.found)
          /\ r \in 1 .. Len(available)
      BY <2>8, <3>1 DEF Takes
    <3>3. PICK g \in Handler :
            /\ Leaves(i, g) /\ i \in 1 .. Len(handlers') /\ handlers'[i] = g
            /\ SameEvent(g, h) /\ g.entity = h.entity
            /\ g.phase = "remove" \/ (g.phase = "notify" /\ last = 1)
            /\ Len(g.found) = last - 1
            /\ \A n \in 1 .. Len(g.found) : n \in 1 .. last /\ g.found[n] = h.found[n]
      BY <2>8, <3>1 DEF Takes
    <3>4. PICK o : Stays(o) /\ \A k \in 1 .. Len(available') : o[k] = IF k < r THEN k ELSE k + 1
      BY <2>8, <3>1, StaysOf
    <3>5. ASSUME NEW k \in 1 .. Len(available'),
                 available'[k].session = s, available'[k].entity = e, Gone(s, e)
          PROVE  Safe(k)
      <4>1. PICK was \in 1 .. Len(available) :
              /\ was = (IF k < r THEN k ELSE k + 1)
              /\ available[was].session = s /\ available[was].entity = e
        BY <3>4, <3>5 DEF Stays
      <4>2. PICK m \in 1 .. Len(handlers) : Removes(handlers[m], s, e) /\ Hunts(handlers[m], was)
        BY <3>5, <4>1 DEF HauntInv
      <4>3. CASE m # i
        <5>1. handlers[m].phase # "remove"
          BY <1>1, <2>1, <3>2, <4>2, <4>3 DEF TwoRemovals
        <5>2. Hunts(handlers[m], k)
          BY <4>2, <5>1 DEF Hunts
        <5> QED  BY <2>4, <3>3, <4>2, <4>3, <5>2
      <4>4. CASE m = i
        <5>1. PICK n \in 1 .. Len(h.found) : h.found[n] = was
          BY <2>1, <3>2, <4>2, <4>4 DEF Hunts
        <5>2. Len(h.found) \in Nat
          BY LenProperties DEF Handler
        <5>3. was # r
          BY <1>1, <3>2, <4>1
        <5>4. n < last
          BY <3>1, <5>1, <5>2, <5>3
        <5>5. was < r
          BY <2>1, <3>1, <3>2, <5>1, <5>4 DEF Sorted
        <5>6. k = was
          BY <1>1, <3>2, <4>1, <5>5
        <5>7. n \in 1 .. Len(g.found) /\ last # 1
          BY <3>1, <3>3, <5>2, <5>4
        <5>8. g.found[n] = k
          BY <3>3, <5>1, <5>6, <5>7
        <5>9. Removes(g, s, e) /\ Hunts(g, k)
          BY <2>1, <3>3, <4>2, <4>4, <5>7, <5>8 DEF Removes, SameEvent, Hunts
        <5> QED  BY <3>3, <5>9 DEF Safe
      <4> QED  BY <4>3, <4>4
    <3> QED  BY <1>2, <2>2, <3>5
  <2> QED  BY <1>10, <2>1, <2>3, <2>5, <2>6, <2>7, <2>8, StepOf
<1>11. ASSUME NEW i \in Running, HandleEvent(i) PROVE i \in 1 .. Len(handlers)
  BY <1>1 DEF Running
<1>12. Next => \/ \E t \in Sessions : Connect(t) \/ Disconnect(t)
               \/ \E t \in live, x \in Entities :
                    RemoveEntity(t, x) \/ \E counts \in FeatureCounts : AddEntity(t, x, counts)
               \/ \E t \in live, supports \in Announcements : Announce(t, supports)
               \/ \E i \in Running : HandleEvent(i)
               \/ UNCHANGED vars
  BY DEF Next, Step, Quiet
<1> QED  BY <1>3, <1>5, <1>6, <1>7, <1>8, <1>9, <1>10, <1>11, <1>12

\* Whatever the order of the handlers, and however many of them run at once:
\* what is gone stays listed only after two updates looked it up in vain at
\* the same time, after its removal overlapped another, or after an update
\* that came when its removal had looked for it.
THEOREM Ghosts == Spec => OnlyRacesLeaveGhosts
<1> SUFFICES ASSUME NEW s \in Sessions, NEW e \in Entities
             PROVE  Spec => ([](~TwoMisses(s, e) /\ ~TwoRemovals(s, e) /\ ~LateUpdate(s, e))
                               => [](handlers = <<>> => ~Ghost(s, e)))
  BY DEF OnlyRacesLeaveGhosts
<1> DEFINE All == TypeInv /\ AllSorted /\ ClaimInv(s, e) /\ HauntInv(s, e)
<1>1. Init => All
  <2> SUFFICES ASSUME Init PROVE AllSorted /\ HauntInv(s, e)
    BY TypeInit, ClaimInit
  <2>1. (\A i \in 1 .. Len(handlers) : FALSE) /\ (\A k \in 1 .. Len(available) : FALSE)
    BY EmptySeq DEF Init
  <2> QED  BY <2>1 DEF AllSorted, HauntInv
<1>2. All /\ (~TwoMisses(s, e) /\ ~TwoRemovals(s, e) /\ ~LateUpdate(s, e)) /\ [Next]_vars => All'
  BY TypeStep, SortedStep, ClaimStep, HauntStep
<1>3. All => (handlers = <<>> => ~Ghost(s, e))
  <2> SUFFICES ASSUME All, handlers = <<>> PROVE ~Ghost(s, e)
    OBVIOUS
  <2>1. DOMAIN available = 1 .. Len(available)
    BY LenProperties DEF TypeInv, TypeOK
  <2>2. \A i \in 1 .. Len(handlers) : FALSE
    BY EmptySeq
  <2> QED  BY <2>1, <2>2 DEF HauntInv, Ghost
<1> HIDE DEF All
<1> QED  BY <1>1, <1>2, <1>3, PTL DEF Spec
=============================================================================
