-------------------------- MODULE LocalEntity_proofs --------------------------
(***************************************************************************)
(* Proofs about use cases that share server features, for every            *)
(* configuration and any number of calls: measurements are described once  *)
(* and as what they are, what is written is read, constraints are          *)
(* published, limits refer to the total power, failed calls write nothing. *)
(* New ids are found as the highest plus one; that they are new follows    *)
(* from the shape of the lists, whose ids have no gaps.                    *)
(***************************************************************************)
EXTENDS LocalEntity, FiniteSetTheorems, TLAPS

\* What the ids of the parameters of a connection are.
ParameterIds(c) == {k[2] : k \in {l \in DOMAIN parameters : l[1] = c}}

\* Ids start at 0 and have no gaps.
NoGaps(used) == \E n \in Nat : used = 0 .. (n - 1)

\* The lists of descriptions and parameters, and who added to them.
Lists ==
  /\ NoGaps(DOMAIN descriptions)
  /\ \A c : NoGaps(ParameterIds(c))
  /\ \A k \in DOMAIN parameters :
       k = <<k[1], k[2]>> /\ parameters[k].measurement \in DOMAIN descriptions
  /\ DOMAIN ids = Monitors /\ DOMAIN own = Monitors
  /\ \A u \in Monitors : \A q \in DOMAIN ids[u] : ids[u][q] \in DOMAIN descriptions

\* Only a use case that was added has ids.
Adders ==
  /\ order \in Seq(UseCases)
  /\ ~Idle => order # <<>>
  /\ \A u \in Monitors : ~Added(u) => DOMAIN ids[u] = {}

MInv == Lists /\ Adders /\ Measured

-----------------------------------------------------------------------------
\* One above the highest id of a list without gaps is new, and leaves no gap.
LEMMA NextIdIsNew ==
  ASSUME NEW used, NoGaps(used)
  PROVE  NextId(used) \notin used /\ NoGaps(used \cup {NextId(used)})
<1>1. PICK n \in Nat : used = 0 .. (n - 1)
  BY DEF NoGaps
<1>2. NextId(used) = n
  <2>1. CASE n = 0
    <3>1. used = {}
      BY <1>1, <2>1
    <3> QED  BY <3>1, <2>1 DEF NextId
  <2>2. CASE n # 0
    <3> DEFINE top == CHOOSE i \in used : \A j \in used : j <= i
    <3>1. n - 1 \in used /\ \A j \in used : j <= n - 1
      BY <1>1, <2>2
    <3>2. top \in used /\ \A j \in used : j <= top
      BY <3>1
    <3>3. NextId(used) = 1 + top
      BY <3>1 DEF NextId
    <3> HIDE DEF top
    <3>4. top \in Int /\ top = n - 1
      BY <3>1, <3>2, <1>1
    <3> QED  BY <3>3, <3>4
  <2> QED  BY <2>1, <2>2
<1>3. n \notin used /\ used \cup {n} = 0 .. ((n + 1) - 1)
  BY <1>1
<1>4. NoGaps(used \cup {n})
  <2>1. n + 1 \in Nat
    OBVIOUS
  <2> QED  BY <2>1, <1>3 DEF NoGaps
<1> QED  BY <1>2, <1>3, <1>4

\* One that is found is one of those found, and the one if there is no other.
LEMMA AnyOfFound ==
  ASSUME NEW S
  PROVE  /\ S # {} => AnyOf(S) \in S
         /\ \A x \in S : (\A y \in S : y = x) => AnyOf(S) = x
BY DEF AnyOf

-----------------------------------------------------------------------------
\* An entity without use cases.
LEMMA MInit == Init => MInv
<1> SUFFICES ASSUME Init PROVE MInv
  OBVIOUS
<1>1. DOMAIN descriptions = {} /\ DOMAIN parameters = {} /\ order = <<>> /\ todo = <<>>
  BY DEF Init
<1>2. \A u \in Monitors : DOMAIN ids[u] = {}
  BY DEF Init
<1>3. NoGaps({})
  <2>1. {} = 0 .. (0 - 1)
    OBVIOUS
  <2> QED  BY <2>1 DEF NoGaps
<1>4. \A c : ParameterIds(c) = {}
  BY <1>1 DEF ParameterIds
<1>5. DOMAIN ids = Monitors /\ DOMAIN own = Monitors
  BY DEF Init
<1>6. Lists
  BY <1>1, <1>2, <1>3, <1>4, <1>5 DEF Lists
<1>7. Adders
  BY <1>1, <1>2 DEF Adders, Idle
<1>8. Measured
  BY <1>2 DEF Measured
<1> QED  BY <1>6, <1>7, <1>8 DEF MInv

\* Steps that leave descriptions, parameters and ids alone, and add no use case
\* but one of the controlled system.
LEMMA MUnchanged ==
  ASSUME MInv, UNCHANGED <<descriptions, parameters, ids, own>>,
         order' \in Seq(UseCases), (~Idle)' => order' # <<>>,
         \A u \in Monitors : Added(u) => Added(u)'
  PROVE  MInv'
<1>1. Lists'
  <2>1. \A c : ParameterIds(c)' = ParameterIds(c)
    BY DEF ParameterIds
  <2> QED  BY <2>1 DEF MInv, Lists, NoGaps
<1>2. Adders'
  BY DEF MInv, Adders, Idle
<1>3. Measured'
  BY DEF MInv, Measured
<1> QED  BY <1>1, <1>2, <1>3 DEF MInv

\* A use case that is added stays added.
LEMMA AppendKeeps ==
  ASSUME NEW u \in UseCases, order \in Seq(UseCases), order' = Append(order, u)
  PROVE  /\ order' \in Seq(UseCases) /\ order' # <<>>
         /\ \A v : Added(v)' <=> (Added(v) \/ v = u)
<1>1. /\ order' \in Seq(UseCases) /\ order' # <<>>
      /\ DOMAIN order' = DOMAIN order \cup {Len(order) + 1}
      /\ order'[Len(order) + 1] = u
      /\ \A i \in DOMAIN order : order'[i] = order[i]
  OBVIOUS
<1> QED  BY <1>1 DEF Added

\* A monitor that begins has no ids yet, so the new connection concerns nothing.
LEMMA MBegin ==
  ASSUME MInv, NEW u \in Monitors, BeginMonitor(u)
  PROVE  MInv'
<1>1. DOMAIN ids[u] = {} /\ order \in Seq(UseCases)
  BY DEF MInv, Adders, BeginMonitor
<1>2. /\ order' = Append(order, u)
      /\ UNCHANGED <<descriptions, parameters, ids>>
      /\ own' = [own EXCEPT ![u] = GetOrAddIdForDescription]
  BY DEF BeginMonitor, measurement
<1>3. /\ order' \in Seq(UseCases) /\ order' # <<>>
      /\ \A v : Added(v)' <=> (Added(v) \/ v = u)
  BY <1>1, <1>2, AppendKeeps DEF UseCases
<1>4. \A c : ParameterIds(c)' = ParameterIds(c)
  BY <1>2 DEF ParameterIds
<1>5. DOMAIN own' = Monitors /\ \A v \in Monitors : v # u => own'[v] = own[v]
  BY <1>2 DEF MInv, Lists
<1>6. Lists'
  BY <1>2, <1>4, <1>5 DEF MInv, Lists, NoGaps
<1>7. Adders'
  BY <1>2, <1>3 DEF MInv, Adders
<1>8. Measured'
  BY <1>1, <1>2, <1>5 DEF MInv, Measured
<1> QED  BY <1>6, <1>7, <1>8 DEF MInv

\* A quantity gets ids of its own, for its description and its parameter.
LEMMA MAdd ==
  ASSUME MInv, ~Idle, NEW u \in Monitors, u = order[Len(order)], NEW q, AddQuantity(u, q)
  PROVE  MInv'
<1> DEFINE id == NextId(DOMAIN descriptions)
           c  == own[u]
           p  == NextId(ParameterIds(c))
           k  == <<c, p>>
           entry == [measurement |-> id, kind |-> Kind(q)]
<1>1. /\ descriptions' = Put(descriptions, id, q)
      /\ ids' = [ids EXCEPT ![u] = Put(@, q, id)]
      /\ parameters' = Put(parameters, k, entry)
      /\ UNCHANGED <<order, own>>
  BY DEF AddQuantity, AddDescriptionId, AddParameterId, ParameterIds
<1>2. id \notin DOMAIN descriptions /\ NoGaps(DOMAIN descriptions \cup {id})
  BY NextIdIsNew DEF MInv, Lists
<1>3. p \notin ParameterIds(c) /\ NoGaps(ParameterIds(c) \cup {p})
  BY NextIdIsNew DEF MInv, Lists
<1> HIDE DEF id, p
<1>4. k \notin DOMAIN parameters
  <2>1. k[1] = c /\ k[2] = p
    OBVIOUS
  <2>2. k \in DOMAIN parameters => k[2] \in ParameterIds(c)
    BY <2>1 DEF ParameterIds
  <2> QED  BY <2>1, <2>2, <1>3
<1>5. /\ DOMAIN descriptions' = DOMAIN descriptions \cup {id}
      /\ descriptions'[id] = q
      /\ \A i \in DOMAIN descriptions : descriptions'[i] = descriptions[i]
  BY <1>1, <1>2 DEF Put
<1>6. /\ DOMAIN parameters' = DOMAIN parameters \cup {k}
      /\ parameters'[k] = entry
      /\ \A l \in DOMAIN parameters : parameters'[l] = parameters[l]
  BY <1>1, <1>4 DEF Put
<1>7. /\ DOMAIN ids' = Monitors
      /\ \A v \in Monitors : v # u => ids'[v] = ids[v]
      /\ DOMAIN ids'[u] = DOMAIN ids[u] \cup {q}
      /\ ids'[u][q] = id
      /\ \A r \in DOMAIN ids[u] : r # q => ids'[u][r] = ids[u][r]
  <2>1. DOMAIN ids = Monitors
    BY DEF MInv, Lists
  <2>2. ids'[u] = Put(ids[u], q, id) /\ DOMAIN ids' = Monitors
        /\ \A v \in Monitors : v # u => ids'[v] = ids[v]
    BY <1>1, <2>1
  <2> QED  BY <2>2 DEF Put
<1>8. Lists'
  <2>1. NoGaps(DOMAIN descriptions')
    BY <1>2, <1>5
  <2>2. \A d : NoGaps(ParameterIds(d)')
    <3> SUFFICES ASSUME NEW d PROVE NoGaps(ParameterIds(d)')
      OBVIOUS
    <3>1. CASE d = c
      <4>1. ParameterIds(d)' = ParameterIds(c) \cup {p}
        BY <1>6, <3>1 DEF ParameterIds
      <4> QED  BY <4>1, <1>3
    <3>2. CASE d # c
      <4>1. ParameterIds(d)' = ParameterIds(d)
        BY <1>6, <3>2 DEF ParameterIds
      <4> QED  BY <4>1 DEF MInv, Lists
    <3> QED  BY <3>1, <3>2
  <2>3. \A l \in DOMAIN parameters' :
          l = <<l[1], l[2]>> /\ parameters'[l].measurement \in DOMAIN descriptions'
    BY <1>5, <1>6 DEF MInv, Lists
  <2>4. \A v \in Monitors : \A r \in DOMAIN ids'[v] : ids'[v][r] \in DOMAIN descriptions'
    BY <1>5, <1>7 DEF MInv, Lists
  <2>5. DOMAIN ids' = Monitors /\ DOMAIN own' = Monitors
    BY <1>1, <1>7 DEF MInv, Lists
  <2> QED  BY <2>1, <2>2, <2>3, <2>4, <2>5 DEF Lists
<1>9. Adders'
  <2>1. order \in Seq(UseCases) /\ order # <<>>
    BY DEF MInv, Adders
  <2>2. Added(u)'
    BY <2>1, <1>1 DEF Added
  <2>3. \A v : Added(v)' <=> Added(v)
    BY <1>1 DEF Added
  <2> QED  BY <2>1, <2>2, <2>3, <1>1, <1>7 DEF MInv, Adders
<1>10. Measured'
  <2> SUFFICES ASSUME NEW v \in Monitors, NEW r \in DOMAIN ids'[v]
               PROVE  /\ descriptions'[ids'[v][r]] = r
                      /\ \E l \in DOMAIN parameters' :
                           /\ l[1] = own'[v] /\ parameters'[l].kind = Kind(r)
                           /\ {m \in DOMAIN parameters' : parameters'[m].measurement = ids'[v][r]} = {l}
    BY DEF Measured
  <2>1. CASE v = u /\ r = q
    <3>1. \A m \in DOMAIN parameters : parameters'[m].measurement # id
      BY <1>2, <1>6 DEF MInv, Lists
    <3>2. {m \in DOMAIN parameters' : parameters'[m].measurement = id} = {k}
      BY <3>1, <1>6
    <3>3. k[1] = own'[v] /\ parameters'[k].kind = Kind(r)
      BY <2>1, <1>1, <1>6
    <3> QED  BY <2>1, <3>2, <3>3, <1>5, <1>6, <1>7
  <2>2. CASE ~(v = u /\ r = q)
    <3>1. /\ r \in DOMAIN ids[v] /\ ids'[v][r] = ids[v][r]
          /\ ids[v][r] \in DOMAIN descriptions
      BY <2>2, <1>7 DEF MInv, Lists
    <3>2. PICK l \in DOMAIN parameters :
            /\ l[1] = own[v] /\ parameters[l].kind = Kind(r)
            /\ {m \in DOMAIN parameters : parameters[m].measurement = ids[v][r]} = {l}
      BY <3>1 DEF MInv, Measured
    <3>3. parameters'[k].measurement # ids[v][r]
      BY <3>1, <1>2, <1>6
    <3>4. {m \in DOMAIN parameters' : parameters'[m].measurement = ids[v][r]} = {l}
      BY <3>2, <3>3, <1>6
    <3>5. descriptions'[ids[v][r]] = r
      BY <3>1, <1>5 DEF MInv, Measured
    <3>6. l \in DOMAIN parameters' /\ l[1] = own'[v] /\ parameters'[l].kind = Kind(r)
      BY <3>2, <1>1, <1>6
    <3> QED  BY <3>1, <3>4, <3>5, <3>6
  <2> QED  BY <2>1, <2>2
<1> QED  BY <1>8, <1>9, <1>10 DEF MInv

\* Every step keeps the invariant.
LEMMA MStep == MInv /\ [Next]_vars => MInv'
<1> SUFFICES ASSUME MInv, [Next]_vars PROVE MInv'
  OBVIOUS
<1> USE DEF usecase, measurement, connection, control, keyValues
<1>s. order \in Seq(UseCases) /\ (~Idle => order # <<>>)
  BY DEF MInv, Adders, Idle
<1>1. ASSUME NEW u \in Monitors, BeginMonitor(u) PROVE MInv'
  BY <1>1, MBegin
<1>2. ASSUME NEW u \in Monitors, ~Idle, u = order[Len(order)], NEW q \in Adding, AddQuantity(u, q)
      PROVE  MInv'
  BY <1>2, MAdd
<1>3. ASSUME NEW u \in Monitors, NEW q \in Adding, Fail(u, q)
      PROVE  MInv'
  <2>1. UNCHANGED <<order, descriptions, parameters, ids, own>> /\ todo' = <<>>
    BY <1>3 DEF Fail
  <2> QED  BY <2>1, <1>s, MUnchanged DEF Added, Idle
<1>4. ASSUME NEW u \in Controlled, AddControlled(u) PROVE MInv'
  <2>1. UNCHANGED <<todo, descriptions, parameters, ids, own>> /\ order' = Append(order, u)
    BY <1>4 DEF AddControlled
  <2>2. /\ order' \in Seq(UseCases) /\ order' # <<>>
        /\ \A v : Added(v)' <=> (Added(v) \/ v = u)
    BY <2>1, <1>s, AppendKeeps DEF UseCases
  <2> QED  BY <2>1, <2>2, <1>s, MUnchanged DEF Idle
<1>5. ASSUME UNCHANGED <<usecase, descriptions, parameters>> PROVE MInv'
  BY <1>5, <1>s, MUnchanged DEF Added, Idle
<1>6. ASSUME NEW u \in Monitors, NEW factors, NEW qs, Update(u, qs, factors) PROVE MInv'
  BY <1>5, <1>6 DEF Update
<1>7. ASSUME NEW u \in Controlled, NEW period \in BOOLEAN, SetLimit(u, period) PROVE MInv'
  BY <1>5, <1>7 DEF SetLimit
<1>8. ASSUME NEW u \in Controlled, RemoteLimit(u) PROVE MInv'
  BY <1>5, <1>8 DEF RemoteLimit
<1>9. ASSUME NEW item, NEW name, SetKey(item, name) PROVE MInv'
  BY <1>5, <1>9 DEF SetKey
<1>10. ASSUME NEW u \in Controlled, SetNominalMax(u) PROVE MInv'
  BY <1>5, <1>10 DEF SetNominalMax
<1>11. CASE UNCHANGED vars
  BY <1>5, <1>11 DEF vars
<1> QED  BY <1>1, <1>2, <1>3, <1>4, <1>6, <1>7, <1>8, <1>9, <1>10, <1>11 DEF Next

\* Ids without gaps, ids only of use cases that were added, and Measured itself
\* hold in every reachable state.
THEOREM MeasuredInductive == Spec => []MInv
<1>1. Init => MInv
  BY MInit
<1>2. MInv /\ [Next]_vars => MInv'
  BY MStep
<1> QED  BY <1>1, <1>2, PTL DEF Spec

\* Whatever is added in whatever order, a measurement id that a monitor keeps is
\* described as the quantity it is kept for, by one parameter of its connection.
THEOREM MeasurementsDescribed == Spec => []Measured
<1>1. MInv => Measured
  BY DEF MInv
<1> QED  BY <1>1, MeasuredInductive, PTL

-----------------------------------------------------------------------------
(* Type correctness.                                                       *)

\* What TypeOK needs besides MInv: that ids are looked up where they are, and
\* that the limit of a use case that is added exists.
Types ==
  /\ TypeOK
  /\ NoGaps(DOMAIN limits) /\ NoGaps(DOMAIN keys)
  /\ \A u \in Controlled : Added(u) => DOMAIN limits # {}
  /\ \A u \in Monitors : Added(u) => own[u] \in connections

\* An entity without use cases.
LEMMA TInit == Init => Types
<1> SUFFICES ASSUME Init PROVE Types
  OBVIOUS
<1>1. NoGaps({})
  <2>1. {} = 0 .. (0 - 1)
    OBVIOUS
  <2> QED  BY <2>1 DEF NoGaps
<1>2. /\ DOMAIN limits = {} /\ DOMAIN keys = {} /\ DOMAIN descriptions = {}
      /\ DOMAIN values = {} /\ DOMAIN limitData = {} /\ DOMAIN keyData = {}
      /\ DOMAIN parameters = {} /\ factor = {} /\ failed = {} /\ todo = <<>>
      /\ \A u \in Monitors : DOMAIN ids[u] = {}
  BY DEF Init
<1>3. \A u : ~Added(u)
  BY DEF Init, Added
<1>4. TypeOK
  BY <1>2 DEF TypeOK, Idle
<1> QED  BY <1>1, <1>2, <1>3, <1>4 DEF Types

\* The limit a use case finds is there once the use case is added, also if it
\* finds none and takes the first.
LEMMA LimitThere ==
  ASSUME Types, NEW u \in Controlled, Added(u)
  PROVE  LimitId(u) \in DOMAIN limits
<1>1. CASE Cardinality(LimitsOf(u)) = 1
  <2>1. LimitsOf(u) # {}
    BY <1>1, FS_EmptySet
  <2>2. AnyOf(LimitsOf(u)) \in LimitsOf(u)
    BY <2>1, AnyOfFound
  <2> QED  BY <1>1, <2>2 DEF LimitId, LimitsOf
<1>2. CASE Cardinality(LimitsOf(u)) # 1
  <2>1. PICK n \in Nat : DOMAIN limits = 0 .. (n - 1)
    BY DEF Types, NoGaps
  <2>2. 0 \in DOMAIN limits
    BY <2>1 DEF Types
  <2> QED  BY <1>2, <2>2 DEF LimitId
<1> QED  BY <1>1, <1>2

\* Steps that leave the descriptions of everything alone.
LEMMA TData ==
  ASSUME Types, UNCHANGED <<usecase, descriptions, connections, parameters, limits, keys>>,
         DOMAIN values' \subseteq DOMAIN descriptions,
         DOMAIN limitData' = DOMAIN limits,
         DOMAIN keyData' \subseteq DOMAIN keys
  PROVE  Types'
<1>1. TypeOK'
  BY DEF Types, TypeOK, Idle, usecase
<1>2. \A u : Added(u)' <=> Added(u)
  BY DEF Added, usecase
<1>3. NoGaps(DOMAIN limits') /\ NoGaps(DOMAIN keys')
  BY DEF Types
<1> QED  BY <1>1, <1>2, <1>3 DEF Types, usecase

\* The key of the factor and the connection are there for those who refer to them.
LEMMA TBegin ==
  ASSUME MInv, Types, NEW u \in Monitors, BeginMonitor(u)
  PROVE  Types'
<1> DEFINE new == NextId(DOMAIN keys)
<1>1. DOMAIN ids[u] = {} /\ order \in Seq(UseCases) /\ DOMAIN own = Monitors
  BY DEF MInv, Adders, Lists, BeginMonitor
<1>2. /\ order' = Append(order, u)
      /\ connections' = connections \cup {GetOrAddIdForDescription}
      /\ own' = [own EXCEPT ![u] = GetOrAddIdForDescription]
      /\ UNCHANGED <<failed, ids, descriptions, values, parameters, limits, limitData, keyData>>
  BY DEF BeginMonitor, measurement, control
<1>3. /\ \A v : Added(v)' <=> (Added(v) \/ v = u)
      /\ order'[Len(order')] = u
  BY <1>1, <1>2, AppendKeeps DEF UseCases
<1>4. \/ keys' = Put(keys, new, Factor) /\ factor' = {new}
      \/ UNCHANGED <<keys, factor>>
  BY DEF BeginMonitor
<1>5. DOMAIN keys \subseteq DOMAIN keys' /\ factor' \subseteq DOMAIN keys' /\ NoGaps(DOMAIN keys')
  <2>1. NoGaps(DOMAIN keys \cup {new})
    BY NextIdIsNew DEF Types
  <2> HIDE DEF new
  <2>2. CASE keys' = Put(keys, new, Factor) /\ factor' = {new}
    <3>1. DOMAIN keys' = DOMAIN keys \cup {new}
      BY <2>2 DEF Put
    <3> QED  BY <2>1, <2>2, <3>1
  <2>3. CASE UNCHANGED <<keys, factor>>
    BY <2>3 DEF Types, TypeOK
  <2> QED  BY <1>4, <2>2, <2>3
<1>6. \A v \in Monitors : Added(v)' => own'[v] \in connections'
  BY <1>1, <1>2, <1>3 DEF Types
<1>7. TypeOK'
  BY <1>2, <1>3, <1>5 DEF Types, TypeOK
<1>8. \A v \in Controlled : Added(v)' => DOMAIN limits' # {}
  BY <1>2, <1>3 DEF Types, Controlled, Monitors
<1>9. NoGaps(DOMAIN limits')
  BY <1>2 DEF Types
<1> QED  BY <1>5, <1>6, <1>7, <1>8, <1>9 DEF Types

\* The parameter is added to a connection that is there, for a description that is.
LEMMA TAdd ==
  ASSUME MInv, Types, ~Idle, NEW u \in Monitors, u = order[Len(order)], NEW q, AddQuantity(u, q)
  PROVE  Types'
<1> DEFINE id == NextId(DOMAIN descriptions)
           p  == AddParameterId(own[u])
           entry == [measurement |-> id, kind |-> Kind(q)]
<1>1. /\ descriptions' = Put(descriptions, id, q)
      /\ ids' = [ids EXCEPT ![u] = Put(@, q, id)]
      /\ parameters' = Put(parameters, <<own[u], p>>, entry)
      /\ UNCHANGED <<order, own, failed, factor, values, connections, limits, limitData, keys, keyData>>
  BY DEF AddQuantity, AddDescriptionId, control, keyValues
<1>2. own[u] \in connections
  <2>1. order \in Seq(UseCases) /\ order # <<>>
    BY DEF MInv, Adders
  <2>2. Added(u)
    BY <2>1 DEF Added
  <2> QED  BY <2>2 DEF Types
<1>3. MInv'
  BY MAdd
<1> HIDE DEF id, p
<1>4. DOMAIN descriptions' = DOMAIN descriptions \cup {id}
  BY <1>1 DEF Put
<1>5. \A k \in DOMAIN parameters' : k[1] \in connections'
  <2>1. DOMAIN parameters' = DOMAIN parameters \cup {<<own[u], p>>}
    BY <1>1 DEF Put
  <2> QED  BY <2>1, <1>1, <1>2 DEF Types, TypeOK
<1>6. /\ \A v \in Monitors : \A r \in DOMAIN ids'[v] : ids'[v][r] \in DOMAIN descriptions'
      /\ \A k \in DOMAIN parameters' : parameters'[k].measurement \in DOMAIN descriptions'
  BY <1>3 DEF MInv, Lists
<1>7. TypeOK'
  BY <1>1, <1>4, <1>5, <1>6 DEF Types, TypeOK
<1>8. \A v : Added(v)' <=> Added(v)
  BY <1>1 DEF Added
<1>9. NoGaps(DOMAIN limits') /\ NoGaps(DOMAIN keys')
  BY <1>1 DEF Types
<1> QED  BY <1>1, <1>7, <1>8, <1>9 DEF Types

\* The data of the limit and of both keys is that of descriptions, also if the key
\* of the duration was there.
LEMMA TControlled ==
  ASSUME MInv, Types, NEW u \in Controlled, AddControlled(u)
  PROVE  Types'
<1> DEFINE l == NextId(DOMAIN limits)
           k == NextId(DOMAIN keys)
           named == Put(keys, k, u)
           more  == NextId(DOMAIN named)
           all == IF KeysNamed(Duration) = {} THEN Put(named, more, Duration) ELSE named
           d == CHOOSE i \in DOMAIN all : all[i] = Duration
<1>1. /\ order' = Append(order, u)
      /\ \E entry : limits' = Put(limits, l, entry)
      /\ limitData' = Put(limitData, l, Plain(0))
      /\ keys' = all
      /\ keyData' = Put(Put(keyData, k, 0), d, 0)
      /\ UNCHANGED <<todo, failed, ids, own, factor, descriptions, values, connections, parameters>>
  BY DEF AddControlled, measurement
<1>2. /\ Idle /\ order \in Seq(UseCases)
  BY DEF AddControlled, MInv, Adders
<1>3. \A v : Added(v)' <=> (Added(v) \/ v = u)
  BY <1>1, <1>2, AppendKeeps DEF UseCases
<1>4. NoGaps(DOMAIN limits \cup {l}) /\ NoGaps(DOMAIN keys \cup {k}) /\ k \notin DOMAIN keys
  BY NextIdIsNew DEF Types
<1> HIDE DEF l, k
<1>5. DOMAIN named = DOMAIN keys \cup {k} /\ \A i \in DOMAIN keys : named[i] = keys[i]
  BY <1>4 DEF Put
<1>6. NoGaps(DOMAIN named \cup {more})
  BY <1>4, <1>5, NextIdIsNew
<1> HIDE DEF more, named
<1>7. /\ NoGaps(DOMAIN all) /\ DOMAIN keys \cup {k} \subseteq DOMAIN all
      /\ \E i \in DOMAIN all : all[i] = Duration
  <2>1. CASE KeysNamed(Duration) = {}
    <3>1. DOMAIN all = DOMAIN named \cup {more} /\ all[more] = Duration
      BY <2>1 DEF Put
    <3> QED  BY <3>1, <1>5, <1>6
  <2>2. CASE KeysNamed(Duration) # {}
    <3>1. all = named
      BY <2>2
    <3>2. PICK i \in DOMAIN keys : keys[i] = Duration
      BY <2>2 DEF KeysNamed
    <3> QED  BY <3>1, <3>2, <1>4, <1>5
  <2> QED  BY <2>1, <2>2
<1> HIDE DEF all
<1>8. d \in DOMAIN all
  BY <1>7
<1> HIDE DEF d
<1>9. DOMAIN keyData' = DOMAIN keyData \cup {k, d}
  BY <1>1 DEF Put
<1>10. DOMAIN limits' = DOMAIN limits \cup {l} /\ DOMAIN limitData' = DOMAIN limitData \cup {l}
  BY <1>1 DEF Put
<1>11. TypeOK'
  <2>1. Idle'
    BY <1>1, <1>2 DEF Idle
  <2>2. DOMAIN keyData' \subseteq DOMAIN keys' /\ factor' \subseteq DOMAIN keys'
    BY <1>1, <1>7, <1>8, <1>9 DEF Types, TypeOK
  <2>3. DOMAIN limitData' = DOMAIN limits'
    BY <1>10 DEF Types, TypeOK
  <2> QED  BY <2>1, <2>2, <2>3, <1>1 DEF Types, TypeOK
<1>12. /\ \A v \in Controlled : Added(v)' => DOMAIN limits' # {}
       /\ \A v \in Monitors : Added(v)' => own'[v] \in connections'
  BY <1>1, <1>3, <1>10 DEF Types, Controlled, Monitors
<1>13. NoGaps(DOMAIN limits') /\ NoGaps(DOMAIN keys')
  BY <1>1, <1>4, <1>7, <1>10
<1> QED  BY <1>11, <1>12, <1>13 DEF Types

\* Values are written only for ids a monitor keeps, the factor only by its key.
LEMMA TUpdate ==
  ASSUME Types, NEW u \in Monitors, NEW qs, NEW factors, Update(u, qs, factors)
  PROVE  Types'
<1>1. UNCHANGED <<usecase, descriptions, connections, parameters, limits, limitData, keys>>
  BY DEF Update, connection, control
<1>2. CASE UNCHANGED <<values, keyData>>
  BY <1>1, <1>2, TData DEF Types, TypeOK
<1>3. CASE qs \subseteq DOMAIN ids[u] /\ WriteValues(u, qs)
           /\ (keyData' = keyData \/ (factor # {} /\ keyData' = Put(keyData, AnyOf(factor), New)))
  <2>1. DOMAIN values' \subseteq DOMAIN descriptions
    BY <1>3 DEF WriteValues, Types, TypeOK
  <2>2. DOMAIN keyData' \subseteq DOMAIN keys
    <3>1. CASE keyData' = keyData
      BY <3>1 DEF Types, TypeOK
    <3>2. CASE factor # {} /\ keyData' = Put(keyData, AnyOf(factor), New)
      <4> DEFINE k == AnyOf(factor)
      <4>1. k \in factor
        BY <3>2, AnyOfFound
      <4> HIDE DEF k
      <4>2. keyData' = Put(keyData, k, New)
        BY <3>2 DEF k
      <4> QED  BY <4>1, <4>2 DEF Put, Types, TypeOK
    <3> QED  BY <1>3, <3>1, <3>2
  <2> QED  BY <1>1, <2>1, <2>2, TData DEF Types, TypeOK
<1> QED  BY <1>2, <1>3 DEF Update, UpdateMpc, UpdateMgcp

\* The key a value is set by is one that has the name.
LEMMA TKey ==
  ASSUME Types, NEW item, NEW name, SetKey(item, name)
  PROVE  Types'
<1>1. UNCHANGED <<usecase, descriptions, values, connections, parameters, limits, limitData, keys>>
  BY DEF SetKey, measurement, connection, control
<1>2. DOMAIN keyData' \subseteq DOMAIN keys
  <2>1. CASE Cardinality(KeysNamed(name)) = 1
    <3> DEFINE k == AnyOf(KeysNamed(name))
    <3>1. KeysNamed(name) # {}
      BY <2>1, FS_EmptySet
    <3>2. k \in KeysNamed(name)
      BY <3>1, AnyOfFound
    <3>3. keyData' = Put(keyData, k, New)
      BY <2>1 DEF SetKey
    <3> HIDE DEF k
    <3> QED  BY <3>2, <3>3 DEF Put, KeysNamed, Types, TypeOK
  <2>2. CASE Cardinality(KeysNamed(name)) # 1
    BY <2>2 DEF SetKey, Types, TypeOK
  <2> QED  BY <2>1, <2>2
<1> QED  BY <1>1, <1>2, TData DEF Types, TypeOK

\* A limit is written under an id that has a description.
LEMMA TLimit ==
  ASSUME Types, NEW l \in DOMAIN limits, NEW list, NEW entry, DOMAIN list = DOMAIN limitData,
         limitData' = Put(list, l, entry),
         UNCHANGED <<usecase, measurement, connection, limits, keyValues>>
  PROVE  Types'
<1>1. DOMAIN limitData' = DOMAIN limits
  BY DEF Put, Types, TypeOK
<1> QED  BY <1>1, TData DEF measurement, connection, keyValues, Types, TypeOK

\* Every step keeps the types.
LEMMA TStep == MInv /\ Types /\ [Next]_vars => Types'
<1> SUFFICES ASSUME MInv, Types, [Next]_vars PROVE Types'
  OBVIOUS
<1>1. ASSUME NEW u \in Monitors, BeginMonitor(u) PROVE Types'
  BY <1>1, TBegin
<1>2. ASSUME NEW u \in Monitors, ~Idle, u = order[Len(order)], NEW q \in Adding, AddQuantity(u, q)
      PROVE  Types'
  BY <1>2, TAdd
<1>3. ASSUME NEW u \in Monitors, NEW q, Fail(u, q) PROVE Types'
  <2>1. /\ todo' = <<>> /\ failed' = failed \cup {u}
        /\ UNCHANGED <<order, ids, own, factor, measurement, connection, control, keyValues>>
    BY <1>3 DEF Fail
  <2>2. TypeOK'
    BY <2>1 DEF Types, TypeOK, Idle, measurement, connection, control, keyValues
  <2>3. \A v : Added(v)' <=> Added(v)
    BY <2>1 DEF Added
  <2>4. NoGaps(DOMAIN limits') /\ NoGaps(DOMAIN keys')
    BY <2>1 DEF Types, control, keyValues
  <2> QED  BY <2>1, <2>2, <2>3, <2>4 DEF Types, control, connection
<1>4. ASSUME NEW u \in Controlled, AddControlled(u) PROVE Types'
  BY <1>4, TControlled
<1>5. ASSUME NEW u \in Monitors, NEW factors, NEW qs, Update(u, qs, factors) PROVE Types'
  BY <1>5, TUpdate
<1>6. ASSUME NEW u \in Controlled, NEW period, SetLimit(u, period) PROVE Types'
  <2>1. LimitId(u) \in DOMAIN limits
    BY <1>6, LimitThere DEF SetLimit
  <2>2. \E entry : limitData' = Put(limitData, LimitId(u), entry)
    BY <1>6 DEF SetLimit
  <2> QED  BY <1>6, <2>1, <2>2, TLimit DEF SetLimit
<1>7. ASSUME NEW u \in Controlled, RemoteLimit(u) PROVE Types'
  <2>1. \E l \in DOMAIN limits, entry \in {Merged(limitData[i], TRUE) : i \in LimitsOf(u)} :
          limitData' = Put(limitData, l, entry)
    BY <1>7 DEF RemoteLimit, LimitsOf
  <2> QED  BY <1>7, <2>1, TLimit DEF RemoteLimit
<1>8. ASSUME NEW item, NEW name, SetKey(item, name) PROVE Types'
  BY <1>8, TKey
<1>9. ASSUME NEW u \in Controlled, SetNominalMax(u) PROVE Types'
  <2>1. /\ UNCHANGED <<usecase, descriptions, connections, parameters, limits, keys>>
        /\ UNCHANGED <<values, limitData, keyData>>
    BY <1>9 DEF SetNominalMax, measurement, control, keyValues
  <2> QED  BY <2>1, TData DEF Types, TypeOK
<1>10. CASE UNCHANGED vars
  <2>1. /\ UNCHANGED <<usecase, descriptions, connections, parameters, limits, keys>>
        /\ UNCHANGED <<values, limitData, keyData>>
    BY <1>10 DEF vars, measurement, connection, control, keyValues
  <2> QED  BY <2>1, TData DEF Types, TypeOK
<1> QED  BY <1>1, <1>2, <1>3, <1>4, <1>5, <1>6, <1>7, <1>8, <1>9, <1>10 DEF Next

\* Every variable keeps its type: ids that use cases keep, parameters, values and
\* limits are those of descriptions, whatever was added and whichever calls failed.
THEOREM TypeCorrect == Spec => []TypeOK
<1>1. Init => Types
  BY TInit
<1>2. MInv /\ Types /\ [Next]_vars => Types'
  BY TStep
<1>3. Types => TypeOK
  BY DEF Types
<1> QED  BY <1>1, <1>2, <1>3, MeasuredInductive, PTL DEF Spec

-----------------------------------------------------------------------------
(* Failed calls.                                                           *)

\* A call of Update that fails, except for a second factor, wrote nothing.
LEMMA UpdateAllOrNone ==
  ASSUME NEW u \in Monitors, NEW qs, NEW factors \in 0 .. 2, Update(u, qs, factors),
         call'.error, call'.factors < 2
  PROVE  UNCHANGED <<values, keyData, limitData, characteristics>>
<1>1. UNCHANGED <<limitData, characteristics>>
  BY DEF Update, connection, control
<1>2. CASE u = "MPC"
  <2>1. UpdateMpc(u, qs)
    BY <1>2 DEF Update
  <2>2. ~ qs \subseteq DOMAIN ids[u]
    BY <2>1 DEF UpdateMpc, Success
  <2> QED  BY <1>1, <2>1, <2>2 DEF UpdateMpc
<1>3. CASE u # "MPC"
  <2>1. UpdateMgcp(u, qs, factors)
    BY <1>3 DEF Update
  <2>2. ~(qs \subseteq DOMAIN ids[u] /\ (factors > 0 => factor # {}))
    <3>1. ASSUME call' = [error |-> factors > 1, factors |-> factors] PROVE FALSE
      <4>1. call'.error = (factors > 1) /\ call'.factors = factors
        BY <3>1, Zenon
      <4>2. factors > 1
        BY <4>1, Zenon
      <4>3. factors < 2
        BY <4>1
      <4> QED  BY <4>2, <4>3
    <3> QED  BY <2>1, <3>1 DEF UpdateMgcp
  <2> QED  BY <1>1, <2>1, <2>2 DEF UpdateMgcp
<1> QED  BY <1>2, <1>3

\* Steps that are no calls write nothing, or set the error of the last one back.
LEMMA StepAllOrNone ==
  Next /\ call'.error /\ call'.factors < 2
    => UNCHANGED <<values, keyData, limitData, characteristics>>
<1> SUFFICES ASSUME Next, call'.error, call'.factors < 2
             PROVE  UNCHANGED <<values, keyData, limitData, characteristics>>
  OBVIOUS
<1> USE DEF measurement, connection, control, keyValues
<1>1. call' # Success
  BY DEF Success
<1>2. ASSUME NEW u \in Monitors, NEW q, BeginMonitor(u) \/ AddQuantity(u, q) \/ Fail(u, q)
      PROVE  UNCHANGED <<values, keyData, limitData, characteristics>>
  BY <1>1, <1>2 DEF BeginMonitor, AddQuantity, Fail
<1>3. ASSUME NEW u \in Controlled, NEW period,
             AddControlled(u) \/ SetLimit(u, period) \/ RemoteLimit(u)
      PROVE  FALSE
  BY <1>1, <1>3 DEF AddControlled, SetLimit, RemoteLimit
<1>4. ASSUME NEW u \in Monitors, NEW qs, NEW factors \in 0 .. 2, Update(u, qs, factors)
      PROVE  UNCHANGED <<values, keyData, limitData, characteristics>>
  BY <1>4, UpdateAllOrNone
<1>5. ASSUME NEW item, NEW name, SetKey(item, name)
      PROVE  UNCHANGED <<values, keyData, limitData, characteristics>>
  BY <1>1, <1>5 DEF SetKey
<1>6. ASSUME NEW u \in Controlled, SetNominalMax(u)
      PROVE  UNCHANGED <<values, keyData, limitData, characteristics>>
  BY <1>1, <1>6 DEF SetNominalMax
<1> QED  BY <1>2, <1>3, <1>4, <1>5, <1>6 DEF Next

\* Whatever was added and whatever failed before, a call that returns an error
\* leaves all values as they were, but for MGCP with two factors.
THEOREM FailedCallsWriteNothing == Spec => AllOrNone
<1>1. [Next]_vars =>
        [(call'.error /\ call'.factors < 2)
           => UNCHANGED <<values, keyData, limitData, characteristics>>]_vars
  BY StepAllOrNone
<1> QED  BY <1>1, PTL DEF Spec, AllOrNone

-----------------------------------------------------------------------------
(* Constraints.                                                            *)

\* Unless it failed, the monitor added last has added each of its quantities, or
\* still will, and has noted the constraints of those it has added; with the last
\* one they are published.
ConstraintsNoted ==
  LET u == order[Len(order)]
  IN  (order # <<>> /\ u \in Monitors \ failed) =>
        /\ \A q \in Quantities(u) :
             \/ \E i \in DOMAIN todo : q \in todo[i]
             \/ /\ q \in DOMAIN ids[u]
                /\ Constrained(u, q) => [measurement |-> ids[u][q], quantity |-> q] \in noted
        /\ (Idle /\ noted # {}) => constraints = noted

\* All is to be added.
LEMMA CBegin ==
  ASSUME MInv, NEW u \in Monitors, BeginMonitor(u)
  PROVE  ConstraintsNoted'
<1>1. order' = Append(order, u) /\ todo' = Methods(u) /\ noted' = {} /\ config' = config
  BY DEF BeginMonitor
<1>2. order'[Len(order')] = u
  BY <1>1 DEF MInv, Adders, UseCases
<1>3. Quantities(u)' = Quantities(u)
  BY <1>1 DEF Quantities, Methods
<1>4. \A q \in Quantities(u) : \E i \in DOMAIN todo' : q \in todo'[i]
  BY <1>1 DEF Quantities, Together
<1> QED  BY <1>1, <1>2, <1>3, <1>4 DEF ConstraintsNoted

\* The quantity is noted, if it is constrained; the others as before.
LEMMA CAdd ==
  ASSUME MInv, ConstraintsNoted, NEW u \in Monitors, u = order[Len(order)], NEW q, AddQuantity(u, q)
  PROVE  ConstraintsNoted'
<1> DEFINE id == AddDescriptionId(q)
           record == [measurement |-> id, quantity |-> q]
<1>1. /\ UNCHANGED <<config, order, failed>> /\ ids' = [ids EXCEPT ![u] = Put(@, q, id)]
      /\ noted' = IF Constrained(u, q) THEN noted \cup {record} ELSE noted
      /\ todo' = [i \in DOMAIN todo |-> IF Runs(i) THEN todo[i] \ {q} ELSE todo[i]]
      /\ constraints' = IF Idle' /\ noted' # {} THEN noted' ELSE constraints
  BY DEF AddQuantity
<1> HIDE DEF id
<1>2. Quantities(u)' = Quantities(u) /\ \A r : Constrained(u, r)' <=> Constrained(u, r)
  BY <1>1 DEF Quantities, Methods, Constrained
<1>3. /\ DOMAIN ids'[u] = DOMAIN ids[u] \cup {q} /\ ids'[u][q] = id
      /\ \A r \in DOMAIN ids[u] : r # q => ids'[u][r] = ids[u][r]
  <2>1. ids'[u] = Put(ids[u], q, id)
    BY <1>1 DEF MInv, Lists
  <2> QED  BY <2>1 DEF Put
<1>4. Idle' /\ noted' # {} => constraints' = noted'
  BY <1>1
<1>5. ASSUME order # <<>>, u \notin failed, NEW r \in Quantities(u)
      PROVE  \/ \E i \in DOMAIN todo' : r \in todo'[i]
             \/ /\ r \in DOMAIN ids'[u]
                /\ Constrained(u, r) => [measurement |-> ids'[u][r], quantity |-> r] \in noted'
  <2>1. CASE r = q
    BY <1>1, <1>3, <2>1
  <2>2. CASE r # q /\ \E i \in DOMAIN todo : r \in todo[i]
    BY <1>1, <2>2
  <2>3. CASE /\ r # q /\ r \in DOMAIN ids[u]
             /\ Constrained(u, r) => [measurement |-> ids[u][r], quantity |-> r] \in noted
    BY <1>1, <1>3, <2>3
  <2> QED  BY <1>5, <2>1, <2>2, <2>3 DEF ConstraintsNoted
<1> QED  BY <1>1, <1>2, <1>4, <1>5 DEF ConstraintsNoted

\* Steps of others, and those that come after, leave them alone.
LEMMA CUnchanged ==
  ASSUME ConstraintsNoted, UNCHANGED <<config, order, todo, noted, failed, ids, constraints>>
  PROVE  ConstraintsNoted'
BY DEF ConstraintsNoted, Quantities, Methods, Constrained, Idle

\* Every step keeps the constraints noted.
LEMMA CStep == MInv /\ ConstraintsNoted /\ [Next]_vars => ConstraintsNoted'
<1> SUFFICES ASSUME MInv, ConstraintsNoted, [Next]_vars PROVE ConstraintsNoted'
  OBVIOUS
<1>1. ASSUME NEW u \in Monitors, BeginMonitor(u) PROVE ConstraintsNoted'
  BY <1>1, CBegin
<1>2. ASSUME NEW u \in Monitors, u = order[Len(order)], NEW q, AddQuantity(u, q) PROVE ConstraintsNoted'
  BY <1>2, CAdd
<1>3. ASSUME NEW u \in Monitors, u = order[Len(order)], NEW q, Fail(u, q) PROVE ConstraintsNoted'
  BY <1>3 DEF Fail, ConstraintsNoted
<1>4. ASSUME NEW u \in Controlled, AddControlled(u) PROVE ConstraintsNoted'
  <2>1. order' = Append(order, u)
    BY <1>4 DEF AddControlled
  <2>2. order'[Len(order')] = u
    BY <2>1 DEF MInv, Adders, UseCases
  <2> QED  BY <2>2 DEF ConstraintsNoted, Monitors, Controlled
<1>5. ASSUME NEW u \in Monitors, NEW qs, NEW factors, Update(u, qs, factors) PROVE ConstraintsNoted'
  BY <1>5, CUnchanged DEF Update, usecase
<1>6. ASSUME NEW u, NEW period, SetLimit(u, period) \/ RemoteLimit(u) PROVE ConstraintsNoted'
  BY <1>6, CUnchanged DEF SetLimit, RemoteLimit, usecase, measurement
<1>7. ASSUME NEW item, NEW name, SetKey(item, name) PROVE ConstraintsNoted'
  BY <1>7, CUnchanged DEF SetKey, usecase, measurement
<1>8. ASSUME NEW u, SetNominalMax(u) PROVE ConstraintsNoted'
  BY <1>8, CUnchanged DEF SetNominalMax, usecase, measurement
<1>9. CASE UNCHANGED vars
  BY <1>9, CUnchanged DEF vars, usecase, measurement
<1> QED  BY <1>1, <1>2, <1>3, <1>4, <1>5, <1>6, <1>7, <1>8, <1>9 DEF Next

\* Whatever was added before, the constraints that the monitor added last
\* configures are published, each for the id of its own quantity.
THEOREM ConstraintsPublished == Spec => []ConstraintsOfLast
<1>1. Init => ConstraintsNoted
  BY DEF Init, ConstraintsNoted
<1>2. MInv /\ ConstraintsNoted /\ [Next]_vars => ConstraintsNoted'
  BY CStep
<1>3. ConstraintsNoted => ConstraintsOfLast
  <2> DEFINE u == order[Len(order)]
  <2> SUFFICES ASSUME ConstraintsNoted, Idle, order # <<>>, u \in Monitors \ failed,
                      NEW q \in config[u].constrained \cap Quantities(u),
                      ~(u = "MPC" /\ q.scope = "ACVoltage")
               PROVE  [measurement |-> ids[u][q], quantity |-> q] \in constraints
    BY DEF ConstraintsOfLast
  <2>1. Constrained(u, q)
    BY DEF Constrained
  <2>2. \A i \in DOMAIN todo : q \notin todo[i]
    BY DEF Idle
  <2>3. [measurement |-> ids[u][q], quantity |-> q] \in noted
    BY <2>1, <2>2 DEF ConstraintsNoted
  <2>4. constraints = noted
    BY <2>3 DEF ConstraintsNoted
  <2> QED  BY <2>3, <2>4
<1> QED  BY <1>1, <1>2, <1>3, MeasuredInductive, PTL DEF Spec

-----------------------------------------------------------------------------
(* What is written is read.                                                *)

Unique(S) == \A x, y \in S : x = y

\* Quantities are not taken for the other things a use case keeps a value of.
Reported(q) == q.scope \notin {"limit", "nominal", "failsafe", Duration, Factor}

QuantitiesReported ==
  /\ \A i \in DOMAIN todo : \A q \in todo[i] : Reported(q)
  /\ \A u \in Monitors : \A q \in DOMAIN ids[u] : Reported(q)

\* A measurement id is kept by one monitor, for one quantity.
IdsDistinct ==
  \A u, v \in Monitors : \A q \in DOMAIN ids[u], r \in DOMAIN ids[v] :
    ids[u][q] = ids[v][r] => u = v /\ q = r

Typed(u) == {k \in DOMAIN characteristics : characteristics[k].type = u}

\* A use case of the controlled system finds what it added, and nothing else of
\* the same direction, name or type; before it was added there is nothing.
Found(u) ==
  /\ Unique(LimitsOf(u)) /\ Unique(KeysNamed(u)) /\ Unique(Typed(u))
  /\ Added(u) => LimitsOf(u) # {}
  /\ ~Added(u) => LimitsOf(u) = {} /\ KeysNamed(u) = {} /\ Typed(u) = {}

AllFound ==
  /\ \A u \in Controlled : Found(u)
  /\ Unique(KeysNamed(Duration))
  /\ factor \subseteq KeysNamed(Factor) /\ Unique(factor)
  /\ factor # {} => Added("MGCP")

\* Entries have their fields, and ids of characteristics no gaps.
Entries ==
  /\ NoGaps(DOMAIN characteristics)
  /\ \A k \in DOMAIN characteristics : \E c, p, t, v :
       characteristics[k] = [connection |-> c, parameter |-> p, type |-> t, value |-> v]
  /\ \A l \in DOMAIN limitData : \E v, p : limitData[l] = [value |-> v, period |-> p]

\* Where the value of an item is kept.
OwnsValue(item, i) == \E u \in Monitors : \E q \in DOMAIN ids[u] : item = <<u, q>> /\ i = ids[u][q]

OwnsKey(item, k) ==
  \/ item = <<"MGCP", Item(Factor)>> /\ k \in factor
  \/ item = <<"device", Item(Duration)>> /\ k \in KeysNamed(Duration)
  \/ \E u \in Controlled : item = <<u, Item("failsafe")>> /\ k \in KeysNamed(u)

OwnsLimit(item, l) == \E u \in Controlled : item = <<u, Item("limit")>> /\ l \in LimitsOf(u)

OwnsNominal(item, k) == \E u \in Controlled : item = <<u, Item("nominal")>> /\ k \in Nominal(u)

\* It is there.
Holds(item) ==
  \/ \E i \in DOMAIN values : OwnsValue(item, i) /\ written[item] = Plain(values[i])
  \/ \E k \in DOMAIN keyData : OwnsKey(item, k) /\ written[item] = Plain(keyData[k])
  \/ \E l \in DOMAIN limitData : OwnsLimit(item, l) /\ written[item] = limitData[l]
  \/ \E k \in DOMAIN characteristics :
       OwnsNominal(item, k) /\ written[item] = Plain(characteristics[k].value)

AllHeld == \A item \in DOMAIN written : Holds(item)

\* A use case that is still being added has written nothing.
AddingWritesNothing == ~Idle => \A item \in DOMAIN written : item[1] # order[Len(order)]

OwnInv ==
  /\ QuantitiesReported /\ IdsDistinct /\ AllFound /\ Entries
  /\ AllHeld /\ AddingWritesNothing

-----------------------------------------------------------------------------
\* No place is kept by two items.
LEMMA OneOwner ==
  ASSUME IdsDistinct, AllFound, NEW a, NEW b, NEW k
  PROVE  /\ OwnsValue(a, k) /\ OwnsValue(b, k) => a = b
         /\ OwnsKey(a, k) /\ OwnsKey(b, k) => a = b
         /\ OwnsLimit(a, k) /\ OwnsLimit(b, k) => a = b
         /\ OwnsNominal(a, k) /\ OwnsNominal(b, k) => a = b
<1>1. OwnsValue(a, k) /\ OwnsValue(b, k) => a = b
  BY DEF OwnsValue, IdsDistinct
<1>2. OwnsKey(a, k) => \/ a = <<"MGCP", Item(Factor)>> /\ keys[k] = Factor
                       \/ a = <<"device", Item(Duration)>> /\ keys[k] = Duration
                       \/ \E u \in Controlled : a = <<u, Item("failsafe")>> /\ keys[k] = u
  BY DEF OwnsKey, KeysNamed, AllFound
<1>3. OwnsKey(b, k) => \/ b = <<"MGCP", Item(Factor)>> /\ keys[k] = Factor
                       \/ b = <<"device", Item(Duration)>> /\ keys[k] = Duration
                       \/ \E u \in Controlled : b = <<u, Item("failsafe")>> /\ keys[k] = u
  BY DEF OwnsKey, KeysNamed, AllFound
<1>4. OwnsKey(a, k) /\ OwnsKey(b, k) => a = b
  BY <1>2, <1>3 DEF Factor, Duration, Controlled
<1>5. OwnsLimit(a, k) /\ OwnsLimit(b, k) => a = b
  BY DEF OwnsLimit, LimitsOf
<1>6. OwnsNominal(a, k) /\ OwnsNominal(b, k) => a = b
  BY DEF OwnsNominal, Nominal
<1> QED  BY <1>1, <1>4, <1>5, <1>6

\* An item is read where it is kept.
LEMMA ReadWhereKept ==
  ASSUME MInv, Types, OwnInv, NEW item \in DOMAIN written
  PROVE  Read(item) = written[item]
<1>1. AllFound /\ Holds(item)
  BY DEF OwnInv, AllHeld
<1>2. ASSUME NEW i \in DOMAIN values, OwnsValue(item, i), written[item] = Plain(values[i])
      PROVE  Read(item) = written[item]
  <2>0. PICK u \in Monitors : \E q \in DOMAIN ids[u] : item = <<u, q>> /\ i = ids[u][q]
    BY <1>2 DEF OwnsValue
  <2>1. PICK q \in DOMAIN ids[u] : item = <<u, q>> /\ i = ids[u][q]
    BY <2>0
  <2>2. item[1] = u /\ item[2] = q /\ Reported(q)
    BY <2>1 DEF OwnInv, QuantitiesReported
  <2>3. Read(item) = Value(ids[u][q], values)
    BY <2>2 DEF Read, Reported
  <2> QED  BY <1>2, <2>1, <2>3 DEF Value
<1>3. ASSUME NEW k \in DOMAIN keyData, OwnsKey(item, k), written[item] = Plain(keyData[k])
      PROVE  Read(item) = written[item]
  <2>1. CASE item = <<"MGCP", Item(Factor)>> /\ k \in factor
    <3>1. item[2].scope = Factor
      BY <2>1 DEF Item, Quantity
    <3>2. Read(item) = Value(AnyOf(factor), keyData)
      BY <3>1 DEF Read, Factor, Duration
    <3>3. AnyOf(factor) = k
      BY <1>1, <2>1, AnyOfFound DEF AllFound, Unique
    <3> QED  BY <1>3, <3>2, <3>3 DEF Value
  <2>2. CASE item = <<"device", Item(Duration)>> /\ k \in KeysNamed(Duration)
    <3>1. item[2].scope = Duration
      BY <2>2 DEF Item, Quantity
    <3>2. Read(item) = Value(AnyOf(KeysNamed(Duration)), keyData)
      BY <3>1 DEF Read, Factor, Duration
    <3>3. AnyOf(KeysNamed(Duration)) = k
      BY <1>1, <2>2, AnyOfFound DEF AllFound, Unique
    <3> QED  BY <1>3, <3>2, <3>3 DEF Value
  <2>3. ASSUME NEW u \in Controlled, item = <<u, Item("failsafe")>>, k \in KeysNamed(u)
        PROVE  Read(item) = written[item]
    <3>1. item[1] = u /\ item[2].scope = "failsafe"
      BY <2>3 DEF Item, Quantity
    <3>2. Read(item) = Value(AnyOf(KeysNamed(u)), keyData)
      BY <3>1 DEF Read, Factor, Duration
    <3>3. AnyOf(KeysNamed(u)) = k
      BY <1>1, <2>3, AnyOfFound DEF AllFound, Found, Unique
    <3> QED  BY <1>3, <3>2, <3>3 DEF Value
  <2> QED  BY <1>3, <2>1, <2>2, <2>3 DEF OwnsKey
<1>4. ASSUME NEW l \in DOMAIN limitData, OwnsLimit(item, l), written[item] = limitData[l]
      PROVE  Read(item) = written[item]
  <2>1. PICK u \in Controlled : item = <<u, Item("limit")>> /\ l \in LimitsOf(u)
    BY <1>4 DEF OwnsLimit
  <2>2. item[1] = u /\ item[2].scope = "limit"
    BY <2>1 DEF Item, Quantity
  <2>3. LimitsOf(u) = {l}
    BY <1>1, <2>1 DEF AllFound, Found, Unique
  <2>4. LimitId(u) = l
    BY <2>3, FS_Singleton, AnyOfFound DEF LimitId
  <2> QED  BY <1>4, <2>2, <2>4 DEF Read, Factor, Duration
<1>5. ASSUME NEW k \in DOMAIN characteristics, OwnsNominal(item, k),
             written[item] = Plain(characteristics[k].value)
      PROVE  Read(item) = written[item]
  <2>1. PICK u \in Controlled : item = <<u, Item("nominal")>> /\ k \in Nominal(u)
    BY <1>5 DEF OwnsNominal
  <2>2. item[1] = u /\ item[2].scope = "nominal"
    BY <2>1 DEF Item, Quantity
  <2>3. \A j \in Nominal(u) : j = k
    BY <1>1, <2>1 DEF AllFound, Found, Unique, Typed, Nominal
  <2>4. AnyOf(Nominal(u)) = k
    BY <2>1, <2>3, AnyOfFound
  <2>5. Read(item) = Value(k, [j \in DOMAIN characteristics |-> characteristics[j].value])
    BY <2>2, <2>4 DEF Read, Factor, Duration
  <2> QED  BY <1>5, <2>5 DEF Value
<1> QED  BY <1>1, <1>2, <1>3, <1>4, <1>5 DEF Holds

\* The value of an item that is kept where it was and not written still holds.
LEMMA HeldKept ==
  ASSUME NEW item, Holds(item), written'[item] = written[item],
         \A i \in DOMAIN values : OwnsValue(item, i) =>
           OwnsValue(item, i)' /\ i \in DOMAIN values' /\ values'[i] = values[i],
         \A k \in DOMAIN keyData : OwnsKey(item, k) =>
           OwnsKey(item, k)' /\ k \in DOMAIN keyData' /\ keyData'[k] = keyData[k],
         \A l \in DOMAIN limitData : OwnsLimit(item, l) =>
           OwnsLimit(item, l)' /\ l \in DOMAIN limitData' /\ limitData'[l] = limitData[l],
         \A k \in DOMAIN characteristics : OwnsNominal(item, k) =>
           /\ OwnsNominal(item, k)' /\ k \in DOMAIN characteristics'
           /\ characteristics'[k].value = characteristics[k].value
  PROVE  Holds(item)'
BY DEF Holds

\* Calls write values, but add nothing that could be found.
LEMMA FoundKept ==
  ASSUME OwnInv, Idle, UNCHANGED <<usecase, limits, keys>>,
         DOMAIN characteristics' = DOMAIN characteristics,
         \A k \in DOMAIN characteristics :
           /\ characteristics'[k].type = characteristics[k].type
           /\ characteristics'[k].connection = characteristics[k].connection
           /\ characteristics'[k].parameter = characteristics[k].parameter
  PROVE  /\ QuantitiesReported' /\ IdsDistinct' /\ AllFound' /\ AddingWritesNothing'
         /\ \A item, k : /\ OwnsValue(item, k)' <=> OwnsValue(item, k)
                         /\ OwnsKey(item, k)' <=> OwnsKey(item, k)
                         /\ OwnsLimit(item, k)' <=> OwnsLimit(item, k)
                         /\ OwnsNominal(item, k)' <=> OwnsNominal(item, k)
<1>1. /\ todo' = todo /\ order' = order /\ ids' = ids /\ factor' = factor
      /\ QuantitiesReported /\ IdsDistinct /\ AllFound
  BY DEF usecase, OwnInv
<1>2. QuantitiesReported' /\ IdsDistinct' /\ AddingWritesNothing'
  BY <1>1 DEF QuantitiesReported, IdsDistinct, AddingWritesNothing, Idle
<1>3. \A u : /\ LimitsOf(u)' = LimitsOf(u) /\ KeysNamed(u)' = KeysNamed(u)
             /\ Typed(u)' = Typed(u) /\ Nominal(u)' = Nominal(u)
             /\ (Added(u)' <=> Added(u))
  BY <1>1 DEF LimitsOf, KeysNamed, Typed, Nominal, Added
<1>4. AllFound'
  BY <1>1, <1>3 DEF AllFound, Found, Unique
<1>5. \A item, k : /\ OwnsValue(item, k)' <=> OwnsValue(item, k)
                   /\ OwnsKey(item, k)' <=> OwnsKey(item, k)
                   /\ OwnsLimit(item, k)' <=> OwnsLimit(item, k)
                   /\ OwnsNominal(item, k)' <=> OwnsNominal(item, k)
  BY <1>1, <1>3 DEF OwnsValue, OwnsKey, OwnsLimit, OwnsNominal
<1> QED  BY <1>2, <1>4, <1>5

\* Values that are written belong to the items that are recorded.
LEMMA OUpdate ==
  ASSUME MInv, Types, OwnInv, Idle, NEW u \in Monitors, NEW qs, NEW factors \in 0 .. 2, Update(u, qs, factors)
  PROVE  OwnInv'
<1>1. UNCHANGED <<usecase, limits, limitData, keys, characteristics>>
  BY DEF Update, connection, control
<1>2. /\ QuantitiesReported' /\ IdsDistinct' /\ AllFound' /\ AddingWritesNothing'
      /\ \A item, k : /\ OwnsValue(item, k)' <=> OwnsValue(item, k)
                      /\ OwnsKey(item, k)' <=> OwnsKey(item, k)
                      /\ OwnsLimit(item, k)' <=> OwnsLimit(item, k)
                      /\ OwnsNominal(item, k)' <=> OwnsNominal(item, k)
  BY <1>1, FoundKept
<1>3. Entries' /\ ids' = ids /\ IdsDistinct /\ AllFound
  BY <1>1 DEF OwnInv, Entries, usecase
<1>4. CASE UNCHANGED <<values, keyData, written>>
  <2>1. ASSUME NEW item \in DOMAIN written PROVE Holds(item)'
    <3>1. Holds(item) /\ written'[item] = written[item]
      BY <1>4 DEF OwnInv, AllHeld
    <3> QED  BY <1>1, <1>2, <1>4, <3>1, HeldKept
  <2> QED  BY <1>2, <1>3, <1>4, <2>1 DEF OwnInv, AllHeld
<1>5. ASSUME qs \subseteq DOMAIN ids[u], WriteValues(u, qs), NEW more, Recorded({u} \X (qs \cup more), Plain(New)),
             \/ more = {} /\ keyData' = keyData
             \/ /\ u = "MGCP" /\ more = {Item(Factor)}
                /\ \E k \in factor : keyData' = Put(keyData, k, New)
      PROVE  OwnInv'
  <2>1. /\ DOMAIN values' = DOMAIN values \cup {ids[u][q] : q \in qs}
        /\ \A q \in qs : values'[ids[u][q]] = New
        /\ \A i \in DOMAIN values : (\A q \in qs : ids[u][q] # i) => values'[i] = values[i]
    BY <1>5 DEF WriteValues
  <2>2. /\ DOMAIN written' = DOMAIN written \cup ({u} \X (qs \cup more))
        /\ \A item \in {u} \X (qs \cup more) : written'[item] = Plain(New)
        /\ \A item \in DOMAIN written : item \notin {u} \X (qs \cup more) => written'[item] = written[item]
    BY <1>5 DEF Recorded
  <2>3. /\ DOMAIN keyData \subseteq DOMAIN keyData'
        /\ \A k \in DOMAIN keyData : keyData'[k] = keyData[k] \/ (k \in factor /\ u = "MGCP" /\ more = {Item(Factor)})
    BY <1>5 DEF Put
  <2>4. ASSUME NEW q \in qs, NEW item, item = <<u, q>> PROVE Holds(item)'
    <3>1. PICK i : i = ids[u][q]
      OBVIOUS
    <3>2. OwnsValue(item, i)
      BY <1>5, <2>4, <3>1 DEF OwnsValue
    <3>3. i \in DOMAIN values' /\ values'[i] = New /\ written'[item] = Plain(New)
      BY <2>1, <2>2, <2>4, <3>1
    <3> QED  BY <1>2, <3>2, <3>3 DEF Holds
  <2>5. ASSUME NEW item, item \in {u} \X more PROVE Holds(item)'
    <3>1. PICK k \in factor : keyData' = Put(keyData, k, New) /\ item = <<"MGCP", Item(Factor)>>
      BY <1>5, <2>5
    <3>2. OwnsKey(item, k)
      BY <3>1 DEF OwnsKey
    <3>3. k \in DOMAIN keyData' /\ keyData'[k] = New /\ written'[item] = Plain(New)
      BY <2>2, <2>5, <3>1 DEF Put
    <3> QED  BY <1>2, <3>2, <3>3 DEF Holds
  <2>6. ASSUME NEW item \in DOMAIN written, item \notin {u} \X (qs \cup more) PROVE Holds(item)'
    <3>1. Holds(item) /\ written'[item] = written[item]
      BY <2>2, <2>6 DEF OwnInv, AllHeld
    <3>2. \A i \in DOMAIN values : OwnsValue(item, i) => i \in DOMAIN values' /\ values'[i] = values[i]
      <4> SUFFICES ASSUME NEW i \in DOMAIN values, OwnsValue(item, i) PROVE \A q \in qs : ids[u][q] # i
        BY <2>1
      <4> SUFFICES ASSUME NEW q \in qs, ids[u][q] = i PROVE FALSE
        OBVIOUS
      <4>1. PICK b : b = <<u, q>>
        OBVIOUS
      <4>2. OwnsValue(b, i)
        BY <1>5, <4>1 DEF OwnsValue
      <4>3. item = b
        BY <1>3, <4>2, OneOwner
      <4> QED  BY <2>6, <4>1, <4>3
    <3>3. \A k \in DOMAIN keyData : OwnsKey(item, k) => k \in DOMAIN keyData' /\ keyData'[k] = keyData[k]
      <4> SUFFICES ASSUME NEW k \in DOMAIN keyData, OwnsKey(item, k), k \in factor, u = "MGCP", more = {Item(Factor)}
                   PROVE  FALSE
        BY <2>3
      <4>1. PICK b : b = <<"MGCP", Item(Factor)>>
        OBVIOUS
      <4>2. OwnsKey(b, k)
        BY <4>1 DEF OwnsKey
      <4>3. item = b
        BY <1>3, <4>2, OneOwner
      <4> QED  BY <2>6, <4>1, <4>3
    <3> QED  BY <1>1, <1>2, <3>1, <3>2, <3>3, HeldKept
  <2>7. ASSUME NEW item \in DOMAIN written' PROVE Holds(item)'
    BY <2>2, <2>4, <2>5, <2>6
  <2> QED  BY <1>2, <1>3, <2>7 DEF OwnInv, AllHeld
<1>6. CASE u = "MPC"
  <2>1. UpdateMpc(u, qs)
    BY <1>6 DEF Update
  <2>2. CASE qs \subseteq DOMAIN ids[u]
    <3>1. WriteValues(u, qs) /\ Recorded({u} \X qs, Plain(New)) /\ keyData' = keyData
      BY <2>1, <2>2 DEF UpdateMpc
    <3>2. qs \cup {} = qs
      OBVIOUS
    <3>3. Recorded({u} \X (qs \cup {}), Plain(New))
      BY <3>1, <3>2
    <3> QED  BY <1>5, <2>2, <3>1, <3>3
  <2> QED  BY <1>4, <2>1, <2>2 DEF UpdateMpc
<1>7. CASE u = "MGCP"
  <2>1. UpdateMgcp(u, qs, factors)
    BY <1>7 DEF Update
  <2>2. CASE qs \subseteq DOMAIN ids[u] /\ (factors > 0 => factor # {})
    <3>1. PICK more : more = IF factors = 1 THEN {Item(Factor)} ELSE {}
      OBVIOUS
    <3>2. /\ WriteValues(u, qs) /\ Recorded({u} \X (qs \cup more), Plain(New))
          /\ keyData' = IF factors = 1 THEN Put(keyData, AnyOf(factor), New) ELSE keyData
      BY <2>1, <2>2, <3>1 DEF UpdateMgcp
    <3>3. factors = 1 => AnyOf(factor) \in factor
      BY <2>2, AnyOfFound
    <3> QED  BY <1>5, <1>7, <2>2, <3>1, <3>2, <3>3
  <2> QED  BY <1>4, <2>1, <2>2 DEF UpdateMgcp
<1> QED  BY <1>6, <1>7 DEF Monitors

\* So with calls that write one item.
LEMMA OWritten ==
  ASSUME OwnInv, Idle, UNCHANGED <<usecase, limits, keys, values>>, Entries',
         DOMAIN characteristics' = DOMAIN characteristics,
         \A k \in DOMAIN characteristics :
           /\ characteristics'[k].type = characteristics[k].type
           /\ characteristics'[k].connection = characteristics[k].connection
           /\ characteristics'[k].parameter = characteristics[k].parameter,
         NEW item, NEW entry, Recorded({item}, entry),
         \/ \E k \in DOMAIN keyData' : OwnsKey(item, k) /\ entry = Plain(keyData'[k])
         \/ \E l \in DOMAIN limitData' : OwnsLimit(item, l) /\ entry = limitData'[l]
         \/ \E k \in DOMAIN characteristics : OwnsNominal(item, k) /\ entry = Plain(characteristics'[k].value),
         \A k \in DOMAIN keyData : k \in DOMAIN keyData' /\ (keyData'[k] = keyData[k] \/ OwnsKey(item, k)),
         \A l \in DOMAIN limitData : l \in DOMAIN limitData' /\ (limitData'[l] = limitData[l] \/ OwnsLimit(item, l)),
         \A k \in DOMAIN characteristics :
           characteristics'[k].value = characteristics[k].value \/ OwnsNominal(item, k)
  PROVE  OwnInv'
<1>1. /\ QuantitiesReported' /\ IdsDistinct' /\ AllFound' /\ AddingWritesNothing'
      /\ \A a, k : /\ OwnsValue(a, k)' <=> OwnsValue(a, k)
                   /\ OwnsKey(a, k)' <=> OwnsKey(a, k)
                   /\ OwnsLimit(a, k)' <=> OwnsLimit(a, k)
                   /\ OwnsNominal(a, k)' <=> OwnsNominal(a, k)
  BY FoundKept
<1>2. /\ DOMAIN written' = DOMAIN written \cup {item} /\ written'[item] = entry
      /\ \A a \in DOMAIN written : a # item => written'[a] = written[a]
  BY DEF Recorded
<1>3. Holds(item)'
  BY <1>1, <1>2 DEF Holds
<1>4. ASSUME NEW a \in DOMAIN written, a # item PROVE Holds(a)'
  <2>1. Holds(a) /\ IdsDistinct /\ AllFound
    BY DEF OwnInv, AllHeld
  <2>2. \A k : /\ ~(OwnsKey(a, k) /\ OwnsKey(item, k)) /\ ~(OwnsLimit(a, k) /\ OwnsLimit(item, k))
               /\ ~(OwnsNominal(a, k) /\ OwnsNominal(item, k))
    BY <1>4, <2>1, OneOwner
  <2> QED  BY <1>1, <1>2, <1>4, <2>1, <2>2, HeldKept
<1> QED  BY <1>1, <1>2, <1>3, <1>4 DEF OwnInv, AllHeld

\* A limit is written by its use case, without the old period, or by a device.
LEMMA OLimit ==
  ASSUME OwnInv, Types, Idle, NEW u \in Controlled, NEW period \in BOOLEAN,
         SetLimit(u, period) \/ RemoteLimit(u)
  PROVE  OwnInv'
<1>1. UNCHANGED <<usecase, limits, keys, values, keyData, characteristics>>
  BY DEF SetLimit, RemoteLimit, measurement, connection, keyValues
<1>2. PICK item : item = <<u, Item("limit")>>
  OBVIOUS
<1>3. Entries /\ AllFound
  BY DEF OwnInv
<1>4. \E l \in LimitsOf(u), p \in BOOLEAN :
        /\ limitData' = Put(limitData, l, [value |-> New, period |-> p])
        /\ Recorded({item}, [value |-> New, period |-> p])
  <2>1. CASE SetLimit(u, period)
    <3>1. PICK l : l = LimitId(u)
      OBVIOUS
    <3>2. l \in LimitsOf(u) /\ l \in DOMAIN limitData
      <4>1. PICK k \in LimitsOf(u) : TRUE
        BY <1>3, <2>1 DEF AllFound, Found, SetLimit
      <4>2. LimitsOf(u) = {k}
        BY <1>3, <4>1 DEF AllFound, Found, Unique
      <4>3. LimitId(u) = k
        BY <4>2, FS_Singleton, AnyOfFound DEF LimitId
      <4> QED  BY <3>1, <4>1, <4>3 DEF LimitsOf, Types, TypeOK
    <3>3. PICK old : old = DeletePeriod(l)[l]
      OBVIOUS
    <3>4. old.period = FALSE
      <4>1. PICK v, p : limitData[l] = [value |-> v, period |-> p]
        BY <1>3, <3>2 DEF Entries
      <4>2. old = [limitData[l] EXCEPT !.period = FALSE]
        BY <3>2, <3>3 DEF DeletePeriod
      <4> QED  BY <4>1, <4>2
    <3>5. Merged(old, period) = [value |-> New, period |-> period]
      <4>1. Merged(old, period) = [value |-> New, period |-> period \/ FALSE]
        BY <3>4 DEF Merged
      <4>2. CASE period = TRUE
        BY <4>1, <4>2
      <4>3. CASE period = FALSE
        BY <4>1, <4>3
      <4> QED  BY <4>2, <4>3
    <3>6. /\ limitData' = Put(limitData, l, Merged(old, period))
          /\ Recorded({item}, [value |-> New, period |-> period])
      BY <1>2, <2>1, <3>1, <3>3 DEF SetLimit
    <3> QED  BY <3>2, <3>5, <3>6
  <2>2. CASE RemoteLimit(u)
    <3>1. PICK l \in LimitsOf(u) : limitData' = Put(limitData, l, Merged(limitData[l], TRUE))
      BY <2>2 DEF RemoteLimit
    <3>2. Merged(limitData[l], TRUE) = [value |-> New, period |-> TRUE]
      BY DEF Merged
    <3>3. Recorded({item}, [value |-> New, period |-> TRUE])
      BY <1>2, <2>2 DEF RemoteLimit
    <3> QED  BY <3>1, <3>2, <3>3
  <2> QED  BY <2>1, <2>2
<1>5. PICK l \in LimitsOf(u), p \in BOOLEAN :
        /\ limitData' = Put(limitData, l, [value |-> New, period |-> p])
        /\ Recorded({item}, [value |-> New, period |-> p])
  BY <1>4
<1>6. PICK entry : entry = [value |-> New, period |-> p]
  OBVIOUS
<1>7. /\ DOMAIN limitData' = DOMAIN limitData \cup {l} /\ limitData'[l] = entry
      /\ \A k \in DOMAIN limitData : k # l => limitData'[k] = limitData[k]
  BY <1>5, <1>6 DEF Put
<1>8. Entries'
  <2>1. ASSUME NEW j \in DOMAIN limitData' PROVE \E v, q : limitData'[j] = [value |-> v, period |-> q]
    <3>1. CASE j = l
      BY <3>1, <1>6, <1>7
    <3>2. CASE j # l
      <4>1. j \in DOMAIN limitData /\ limitData'[j] = limitData[j]
        BY <2>1, <3>2, <1>7
      <4> QED  BY <4>1, <1>3 DEF Entries
    <3> QED  BY <3>1, <3>2
  <2> QED  BY <1>1, <1>3, <2>1 DEF Entries
<1>9. OwnsLimit(item, l)
  BY <1>2 DEF OwnsLimit
<1> QED  BY <1>1, <1>5, <1>6, <1>7, <1>8, <1>9, OWritten

\* A key is written by its name.
LEMMA OKey ==
  ASSUME OwnInv, Types, Idle, NEW item, NEW name, \A k \in KeysNamed(name) : OwnsKey(item, k),
         SetKey(item, name)
  PROVE  OwnInv'
<1>1. UNCHANGED <<usecase, limits, keys, values, limitData, characteristics>>
  BY DEF SetKey, measurement, connection, control
<1>2. Entries'
  BY <1>1 DEF OwnInv, Entries
<1>3. CASE Cardinality(KeysNamed(name)) = 1
  <2>1. PICK k : k = AnyOf(KeysNamed(name))
    OBVIOUS
  <2>2. k \in KeysNamed(name)
    BY <1>3, <2>1, FS_EmptySet, AnyOfFound
  <2>3. keyData' = Put(keyData, k, New) /\ Recorded({item}, Plain(New))
    BY <1>3, <2>1 DEF SetKey
  <2>4. /\ DOMAIN keyData' = DOMAIN keyData \cup {k} /\ keyData'[k] = New
        /\ \A j \in DOMAIN keyData : j # k => keyData'[j] = keyData[j]
    BY <2>3 DEF Put
  <2>5. OwnsKey(item, k)
    BY <2>2
  <2> QED  BY <1>1, <1>2, <2>3, <2>4, <2>5, OWritten
<1>4. CASE Cardinality(KeysNamed(name)) # 1
  <2>1. UNCHANGED <<keyData, written>>
    BY <1>4 DEF SetKey
  <2>2. /\ QuantitiesReported' /\ IdsDistinct' /\ AllFound' /\ AddingWritesNothing'
        /\ \A a, k : /\ OwnsValue(a, k)' <=> OwnsValue(a, k)
                     /\ OwnsKey(a, k)' <=> OwnsKey(a, k)
                     /\ OwnsLimit(a, k)' <=> OwnsLimit(a, k)
                     /\ OwnsNominal(a, k)' <=> OwnsNominal(a, k)
    BY <1>1, FoundKept
  <2>3. ASSUME NEW a \in DOMAIN written PROVE Holds(a)'
    <3>1. Holds(a)
      BY DEF OwnInv, AllHeld
    <3> QED  BY <1>1, <2>1, <2>2, <3>1, HeldKept
  <2> QED  BY <1>2, <2>1, <2>2, <2>3 DEF OwnInv, AllHeld
<1> QED  BY <1>3, <1>4

\* The nominal maximum is written where it is found.
LEMMA ONominal ==
  ASSUME OwnInv, Types, Idle, NEW u \in Controlled, SetNominalMax(u)
  PROVE  OwnInv'
<1>1. UNCHANGED <<usecase, limits, keys, values, limitData, keyData>>
  BY DEF SetNominalMax, measurement, control, keyValues
<1>2. Entries /\ AllFound
  BY DEF OwnInv
<1>3. CASE Nominal(u) # {}
  <2>1. PICK k : k = AnyOf(Nominal(u))
    OBVIOUS
  <2>2. k \in Nominal(u) /\ k \in DOMAIN characteristics
    BY <1>3, <2>1, AnyOfFound DEF Nominal
  <2>3. PICK item : item = <<u, Item("nominal")>>
    OBVIOUS
  <2>4. characteristics' = [characteristics EXCEPT ![k].value = New] /\ Recorded({item}, Plain(New))
    BY <1>3, <2>1, <2>3 DEF SetNominalMax
  <2>5. PICK c, p, t, v : characteristics[k] = [connection |-> c, parameter |-> p, type |-> t, value |-> v]
    BY <1>2, <2>2 DEF Entries
  <2>6. /\ DOMAIN characteristics' = DOMAIN characteristics
        /\ characteristics'[k] = [connection |-> c, parameter |-> p, type |-> t, value |-> New]
        /\ \A j \in DOMAIN characteristics : j # k => characteristics'[j] = characteristics[j]
    BY <2>2, <2>4, <2>5
  <2>7. Entries'
    BY <1>1, <1>2, <2>6 DEF Entries
  <2>8. OwnsNominal(item, k)
    BY <2>2, <2>3 DEF OwnsNominal
  <2>9. \A j \in DOMAIN characteristics :
          /\ characteristics'[j].type = characteristics[j].type
          /\ characteristics'[j].connection = characteristics[j].connection
          /\ characteristics'[j].parameter = characteristics[j].parameter
          /\ characteristics'[j].value = characteristics[j].value \/ OwnsNominal(item, j)
    BY <2>5, <2>6, <2>8
  <2>10. characteristics'[k].value = New
    BY <2>6
  <2> QED  BY <1>1, <2>2, <2>4, <2>6, <2>7, <2>8, <2>9, <2>10, OWritten
<1>4. CASE Nominal(u) = {}
  <2>1. UNCHANGED <<characteristics, written>>
    BY <1>4 DEF SetNominalMax
  <2>2. /\ QuantitiesReported' /\ IdsDistinct' /\ AllFound' /\ AddingWritesNothing'
        /\ \A a, k : /\ OwnsValue(a, k)' <=> OwnsValue(a, k)
                     /\ OwnsKey(a, k)' <=> OwnsKey(a, k)
                     /\ OwnsLimit(a, k)' <=> OwnsLimit(a, k)
                     /\ OwnsNominal(a, k)' <=> OwnsNominal(a, k)
    BY <1>1, <2>1, FoundKept
  <2>3. ASSUME NEW a \in DOMAIN written PROVE Holds(a)'
    <3>1. Holds(a)
      BY DEF OwnInv, AllHeld
    <3> QED  BY <1>1, <2>1, <2>2, <3>1, HeldKept
  <2> QED  BY <1>1, <1>2, <2>1, <2>2, <2>3 DEF OwnInv, AllHeld, Entries
<1> QED  BY <1>3, <1>4

\* An entity without use cases.
LEMMA OInit == Init => OwnInv
<1> SUFFICES ASSUME Init PROVE OwnInv
  OBVIOUS
<1>1. /\ todo = <<>> /\ factor = {} /\ order = <<>>
      /\ DOMAIN written = {} /\ DOMAIN limits = {} /\ DOMAIN limitData = {}
      /\ DOMAIN keys = {} /\ DOMAIN characteristics = {}
      /\ \A u \in Monitors : DOMAIN ids[u] = {}
  BY DEF Init
<1>2. \A u : LimitsOf(u) = {} /\ KeysNamed(u) = {} /\ Typed(u) = {} /\ ~Added(u)
  BY <1>1 DEF LimitsOf, KeysNamed, Typed, Added
<1>3. AllFound
  BY <1>1, <1>2 DEF AllFound, Found, Unique
<1>4. NoGaps({})
  <2>1. {} = 0 .. (0 - 1)
    OBVIOUS
  <2> QED  BY <2>1 DEF NoGaps
<1>5. Entries
  BY <1>1, <1>4 DEF Entries
<1>6. QuantitiesReported /\ IdsDistinct
  BY <1>1 DEF QuantitiesReported, IdsDistinct
<1>7. AllHeld /\ AddingWritesNothing
  BY <1>1 DEF AllHeld, AddingWritesNothing
<1> QED  BY <1>3, <1>5, <1>6, <1>7 DEF OwnInv

\* The methods of monitors add quantities.
LEMMA MethodsReported ==
  ASSUME NEW u \in Monitors, NEW i \in DOMAIN Methods(u), NEW q \in Methods(u)[i]
  PROVE  Reported(q)
<1>1. PICK c : c = config[u]
  OBVIOUS
<1>2. Reported(Total)
  BY DEF Reported, Total, Quantity, Duration, Factor
<1>3. ASSUME NEW ps,
             NEW s \in {"ACPower", "ACCurrent", "ACVoltage", "ACFrequency", "GridFeedIn", "GridConsumption",
                        "ACEnergyConsumed", "ACEnergyProduced"}
      PROVE  Reported(Quantity(s, ps))
  BY <1>3 DEF Reported, Quantity, Duration, Factor
<1>4. ASSUME q \in MpcMethods(c)[i], i \in DOMAIN MpcMethods(c) PROVE Reported(q)
  <2>1. q = Total \/ \E s, ps : /\ q = Quantity(s, ps)
                                /\ s \in {"ACPower", "ACCurrent", "ACVoltage", "ACFrequency", "GridFeedIn",
                                          "GridConsumption", "ACEnergyConsumed", "ACEnergyProduced"}
    <3>1. i \in 1 .. 7
      BY <1>4 DEF MpcMethods
    <3>2. CASE i = 1
      BY <1>4, <3>2 DEF MpcMethods
    <3>3. CASE i \in {2, 5}
      <4>1. \E s \in {"ACPower", "ACCurrent"} : \E phases : q \in PerPhase(s, phases)
        BY <1>4, <3>3 DEF MpcMethods
      <4> QED  BY <4>1 DEF PerPhase
    <3>4. CASE i \in {3, 4, 7}
      BY <1>4, <3>4 DEF MpcMethods, If
    <3>5. CASE i = 6
      <4>1. q \in {Quantity("ACVoltage", ps) : ps \in c.voltage}
        BY <1>4, <3>5 DEF MpcMethods
      <4> QED  BY <4>1
    <3> QED  BY <3>1, <3>2, <3>3, <3>4, <3>5
  <2> QED  BY <1>2, <1>3, <2>1
<1>5. ASSUME q \in MgcpMethods(c)[i], i \in DOMAIN MgcpMethods(c) PROVE Reported(q)
  <2>1. q = Total \/ \E s, ps : /\ q = Quantity(s, ps)
                                /\ s \in {"ACPower", "ACCurrent", "ACVoltage", "ACFrequency", "GridFeedIn",
                                          "GridConsumption", "ACEnergyConsumed", "ACEnergyProduced"}
    BY <1>5 DEF MgcpMethods, If
  <2> QED  BY <1>2, <1>3, <2>1
<1> QED  BY <1>1, <1>4, <1>5 DEF Methods

\* A monitor that begins has written nothing, and its factor is a key of its own.
LEMMA OBegin ==
  ASSUME MInv, Types, OwnInv, NEW u \in Monitors, BeginMonitor(u)
  PROVE  OwnInv'
<1>1. /\ order' = Append(order, u) /\ todo' = Methods(u)
      /\ UNCHANGED <<config, ids, values, characteristics, limits, limitData, keyData, written>>
  BY DEF BeginMonitor, measurement, control
<1>2. Idle /\ ~Added(u) /\ order \in Seq(UseCases) /\ DOMAIN ids[u] = {}
  BY DEF BeginMonitor, MInv, Adders
<1>3. \A v : Added(v)' <=> (Added(v) \/ v = u)
  BY <1>1, <1>2, AppendKeeps DEF UseCases
<1>4. order'[Len(order')] = u
  BY <1>1, <1>2
<1>5. QuantitiesReported /\ IdsDistinct /\ AllFound /\ Entries /\ AllHeld
  BY DEF OwnInv
<1>6. QuantitiesReported'
  BY <1>1, <1>5, MethodsReported DEF QuantitiesReported
<1>7. IdsDistinct' /\ Entries'
  BY <1>1, <1>5 DEF IdsDistinct, Entries
<1>8. /\ \A name : name # Factor => KeysNamed(name)' = KeysNamed(name)
      /\ factor' \subseteq KeysNamed(Factor)' /\ Unique(factor') /\ factor \subseteq factor'
      /\ factor' # {} => Added("MGCP")'
  <2>1. CASE u = "MGCP" /\ config[u].factor
    <3>1. PICK k : k = NextId(DOMAIN keys)
      OBVIOUS
    <3>2. keys' = Put(keys, k, Factor) /\ factor' = {k}
      BY <2>1, <3>1 DEF BeginMonitor
    <3>3. k \notin DOMAIN keys
      BY <3>1, NextIdIsNew DEF Types
    <3>4. /\ DOMAIN keys' = DOMAIN keys \cup {k} /\ keys'[k] = Factor
          /\ \A j \in DOMAIN keys : keys'[j] = keys[j]
      BY <3>2, <3>3 DEF Put
    <3>5. factor = {}
      BY <1>2, <1>5, <2>1 DEF AllFound
    <3>6. \A name : name # Factor => KeysNamed(name)' = KeysNamed(name)
      BY <3>3, <3>4 DEF KeysNamed
    <3>7. k \in KeysNamed(Factor)'
      BY <3>4 DEF KeysNamed
    <3> QED  BY <1>3, <2>1, <3>2, <3>5, <3>6, <3>7 DEF Unique
  <2>2. CASE ~(u = "MGCP" /\ config[u].factor)
    <3>1. UNCHANGED <<keys, factor>>
      BY <2>2 DEF BeginMonitor
    <3>2. \A name : KeysNamed(name)' = KeysNamed(name)
      BY <3>1 DEF KeysNamed
    <3> QED  BY <1>3, <1>5, <3>1, <3>2 DEF AllFound
  <2> QED  BY <2>1, <2>2
<1>9. \A v : LimitsOf(v)' = LimitsOf(v) /\ Typed(v)' = Typed(v) /\ Nominal(v)' = Nominal(v)
  BY <1>1 DEF LimitsOf, Typed, Nominal
<1>10. AllFound'
  <2>1. ASSUME NEW v \in Controlled PROVE Found(v)'
    <3>1. v # u /\ v # Factor
      BY DEF Controlled, Monitors, Factor
    <3>2. (Added(v)' <=> Added(v)) /\ KeysNamed(v)' = KeysNamed(v)
      BY <1>3, <1>8, <3>1
    <3> QED  BY <1>5, <1>9, <3>2 DEF AllFound, Found, Unique
  <2>2. Unique(KeysNamed(Duration))'
    BY <1>5, <1>8 DEF AllFound, Unique, Factor, Duration
  <2> QED  BY <1>8, <2>1, <2>2 DEF AllFound, Unique
<1>11. ASSUME NEW item \in DOMAIN written PROVE Holds(item)'
  <2>1. Holds(item) /\ written'[item] = written[item]
    BY <1>1, <1>5 DEF AllHeld
  <2>2. \A i : OwnsValue(item, i) => OwnsValue(item, i)'
    BY <1>1 DEF OwnsValue
  <2>3. \A k : OwnsKey(item, k) => OwnsKey(item, k)'
    <3>1. KeysNamed(Duration)' = KeysNamed(Duration) /\ \A v \in Controlled : KeysNamed(v)' = KeysNamed(v)
      BY <1>8 DEF Controlled, Factor, Duration
    <3> QED  BY <1>8, <3>1 DEF OwnsKey
  <2>4. \A k : /\ OwnsLimit(item, k) => OwnsLimit(item, k)'
               /\ OwnsNominal(item, k) => OwnsNominal(item, k)'
    BY <1>9 DEF OwnsLimit, OwnsNominal
  <2> QED  BY <1>1, <2>1, <2>2, <2>3, <2>4, HeldKept
<1>12. ASSUME NEW item \in DOMAIN written, item[1] = u PROVE FALSE
  <2>1. Holds(item)
    BY <1>5 DEF AllHeld
  <2>2. \A i : ~OwnsValue(item, i)
    BY <1>2, <1>12 DEF OwnsValue
  <2>3. \A k : ~OwnsKey(item, k)
    BY <1>2, <1>5, <1>12 DEF OwnsKey, AllFound, Monitors, Controlled
  <2>4. \A k : ~OwnsLimit(item, k) /\ ~OwnsNominal(item, k)
    BY <1>12 DEF OwnsLimit, OwnsNominal, Monitors, Controlled
  <2> QED  BY <2>1, <2>2, <2>3, <2>4 DEF Holds
<1>13. AllHeld' /\ AddingWritesNothing'
  BY <1>1, <1>4, <1>11, <1>12 DEF AllHeld, AddingWritesNothing
<1> QED  BY <1>6, <1>7, <1>10, <1>13 DEF OwnInv

\* The id of a quantity that is added is not that of another.
LEMMA OAdd ==
  ASSUME MInv, Types, OwnInv, ~Idle, NEW u \in Monitors, u = order[Len(order)], NEW q \in Adding,
         AddQuantity(u, q)
  PROVE  OwnInv'
<1>1. PICK id : id = NextId(DOMAIN descriptions)
  OBVIOUS
<1>2. /\ ids' = [ids EXCEPT ![u] = Put(@, q, id)]
      /\ todo' = [i \in DOMAIN todo |-> IF Runs(i) THEN todo[i] \ {q} ELSE todo[i]]
      /\ UNCHANGED <<order, factor, values, characteristics, limits, limitData, keys, keyData, written>>
  BY <1>1 DEF AddQuantity, AddDescriptionId, control, keyValues
<1>3. id \notin DOMAIN descriptions
  BY <1>1, NextIdIsNew DEF MInv, Lists
<1>4. /\ \A v \in Monitors : \A r \in DOMAIN ids[v] : ids[v][r] \in DOMAIN descriptions
      /\ DOMAIN ids = Monitors
  BY DEF MInv, Lists
<1>5. QuantitiesReported /\ IdsDistinct /\ AllFound /\ Entries /\ AllHeld /\ AddingWritesNothing
  BY DEF OwnInv
<1>6. /\ DOMAIN ids'[u] = DOMAIN ids[u] \cup {q} /\ ids'[u][q] = id
      /\ \A r \in DOMAIN ids[u] : r # q => ids'[u][r] = ids[u][r]
      /\ \A v \in Monitors : v # u => ids'[v] = ids[v]
  BY <1>2, <1>4 DEF Put
<1>7. IdsDistinct'
  <2>1. ASSUME NEW v \in Monitors, NEW r \in DOMAIN ids'[v]
        PROVE  \/ v = u /\ r = q /\ ids'[v][r] = id
               \/ r \in DOMAIN ids[v] /\ ids'[v][r] = ids[v][r]
    BY <2>1, <1>6
  <2>2. ASSUME NEW v \in Monitors, NEW w \in Monitors, NEW r \in DOMAIN ids'[v], NEW s \in DOMAIN ids'[w],
               ids'[v][r] = ids'[w][s]
        PROVE  v = w /\ r = s
    <3>1. \/ v = u /\ r = q /\ ids'[v][r] = id
          \/ r \in DOMAIN ids[v] /\ ids'[v][r] = ids[v][r]
      BY <2>1, <2>2
    <3>2. \/ w = u /\ s = q /\ ids'[w][s] = id
          \/ s \in DOMAIN ids[w] /\ ids'[w][s] = ids[w][s]
      BY <2>1, <2>2
    <3> QED  BY <1>3, <1>4, <1>5, <2>2, <3>1, <3>2 DEF IdsDistinct
  <2> QED  BY <2>2 DEF IdsDistinct
<1>8. QuantitiesReported'
  <2>1. Reported(q)
    BY <1>5 DEF Adding, QuantitiesReported
  <2>2. \A i \in DOMAIN todo' : i \in DOMAIN todo /\ todo'[i] \subseteq todo[i]
    BY <1>2
  <2> QED  BY <1>5, <1>6, <2>1, <2>2 DEF QuantitiesReported
<1>9. \A v : /\ LimitsOf(v)' = LimitsOf(v) /\ KeysNamed(v)' = KeysNamed(v)
             /\ Typed(v)' = Typed(v) /\ Nominal(v)' = Nominal(v)
             /\ (Added(v)' <=> Added(v))
  BY <1>2 DEF LimitsOf, KeysNamed, Typed, Nominal, Added
<1>10. AllFound' /\ Entries'
  BY <1>2, <1>5, <1>9 DEF AllFound, Found, Unique, Entries
<1>11. ASSUME NEW item \in DOMAIN written PROVE Holds(item)'
  <2>1. Holds(item) /\ written'[item] = written[item] /\ item[1] # u
    BY <1>2, <1>5 DEF AllHeld, AddingWritesNothing
  <2>2. \A i : OwnsValue(item, i) => OwnsValue(item, i)'
    BY <1>6, <2>1 DEF OwnsValue
  <2>3. \A k : /\ OwnsKey(item, k) => OwnsKey(item, k)'
               /\ OwnsLimit(item, k) => OwnsLimit(item, k)'
               /\ OwnsNominal(item, k) => OwnsNominal(item, k)'
    BY <1>2, <1>9 DEF OwnsKey, OwnsLimit, OwnsNominal
  <2> QED  BY <1>2, <2>1, <2>2, <2>3, HeldKept
<1>12. AllHeld' /\ AddingWritesNothing'
  BY <1>2, <1>5, <1>11 DEF AllHeld, AddingWritesNothing
<1> QED  BY <1>7, <1>8, <1>10, <1>12 DEF OwnInv

\* An error changes none of it.
LEMMA OFail ==
  ASSUME OwnInv, NEW u, NEW q, Fail(u, q)
  PROVE  OwnInv'
<1>1. /\ todo' = <<>>
      /\ UNCHANGED <<order, ids, factor, values, characteristics, limits, limitData, keys, keyData, written>>
  BY DEF Fail, measurement, connection, control, keyValues
<1>2. QuantitiesReported /\ IdsDistinct /\ AllFound /\ Entries /\ AllHeld
  BY DEF OwnInv
<1>3. QuantitiesReported' /\ IdsDistinct' /\ Entries' /\ Idle'
  BY <1>1, <1>2 DEF QuantitiesReported, IdsDistinct, Entries, Idle
<1>4. \A v : /\ LimitsOf(v)' = LimitsOf(v) /\ KeysNamed(v)' = KeysNamed(v)
             /\ Typed(v)' = Typed(v) /\ Nominal(v)' = Nominal(v)
             /\ (Added(v)' <=> Added(v))
  BY <1>1 DEF LimitsOf, KeysNamed, Typed, Nominal, Added
<1>5. AllFound'
  BY <1>1, <1>2, <1>4 DEF AllFound, Found, Unique
<1>6. ASSUME NEW item \in DOMAIN written PROVE Holds(item)'
  <2>1. Holds(item) /\ written'[item] = written[item]
    BY <1>1, <1>2 DEF AllHeld
  <2>2. \A k : /\ OwnsValue(item, k) => OwnsValue(item, k)'
               /\ OwnsKey(item, k) => OwnsKey(item, k)'
               /\ OwnsLimit(item, k) => OwnsLimit(item, k)'
               /\ OwnsNominal(item, k) => OwnsNominal(item, k)'
    BY <1>1, <1>4 DEF OwnsValue, OwnsKey, OwnsLimit, OwnsNominal
  <2> QED  BY <1>1, <2>1, <2>2, HeldKept
<1> QED  BY <1>1, <1>3, <1>5, <1>6 DEF OwnInv, AllHeld, AddingWritesNothing

\* LPC and LPP find what they added, and set no key of another use case but that
\* of the duration, which they share.
LEMMA OControlled ==
  ASSUME MInv, Types, OwnInv, NEW u \in Controlled, AddControlled(u)
  PROVE  OwnInv'
<1> DEFINE l == NextId(DOMAIN limits)
           k == NextId(DOMAIN keys)
           n == NextId(DOMAIN characteristics)
           named == Put(keys, k, u)
           more  == NextId(DOMAIN named)
           all == IF KeysNamed(Duration) = {} THEN Put(named, more, Duration) ELSE named
           d == CHOOSE i \in DOMAIN all : all[i] = Duration
           device == <<"device", Item(Duration)>>
<1>1. /\ order' = Append(order, u)
      /\ \E m : limits' = Put(limits, l, [direction |-> u, measurement |-> m])
      /\ limitData' = Put(limitData, l, Plain(0))
      /\ keys' = all
      /\ keyData' = Put(Put(keyData, k, 0), d, 0)
      /\ \E c, p : characteristics' =
                     Put(characteristics, n, [connection |-> c, parameter |-> p, type |-> u, value |-> 0])
      /\ written' = Put(written, device, Plain(0))
      /\ UNCHANGED <<todo, ids, factor, values>>
  BY DEF AddControlled, measurement
<1>2. Idle /\ ~Added(u) /\ order \in Seq(UseCases)
  BY DEF AddControlled, MInv, Adders
<1>3. \A v : Added(v)' <=> (Added(v) \/ v = u)
  BY <1>1, <1>2, AppendKeeps DEF UseCases
<1>4. QuantitiesReported /\ IdsDistinct /\ AllFound /\ Entries /\ AllHeld
  BY DEF OwnInv
<1>5. LimitsOf(u) = {} /\ KeysNamed(u) = {} /\ Typed(u) = {}
  BY <1>2, <1>4 DEF AllFound, Found
<1>6. l \notin DOMAIN limits
  BY NextIdIsNew DEF Types
<1>7. k \notin DOMAIN keys /\ NoGaps(DOMAIN keys \cup {k})
  BY NextIdIsNew DEF Types
<1>8. n \notin DOMAIN characteristics /\ NoGaps(DOMAIN characteristics \cup {n})
  BY <1>4, NextIdIsNew DEF Entries
<1> HIDE DEF l, k, n
<1>9. /\ DOMAIN named = DOMAIN keys \cup {k} /\ named[k] = u
      /\ \A i \in DOMAIN keys : named[i] = keys[i]
  BY <1>7 DEF Put
<1>10. more \notin DOMAIN named
  BY <1>7, <1>9, NextIdIsNew
<1> HIDE DEF more, named
<1>11. u # Duration /\ u # Factor /\ Duration # Factor /\ \A v \in Controlled : v # Duration /\ v # Factor
  BY DEF Controlled, Duration, Factor
<1>12. /\ DOMAIN keys \cup {k} \subseteq DOMAIN all /\ all[k] = u
       /\ \A i \in DOMAIN keys : all[i] = keys[i]
       /\ \A i \in DOMAIN all : i \in DOMAIN keys \/ i = k \/ all[i] = Duration
       /\ \E i \in DOMAIN all : all[i] = Duration
       /\ \A i, j \in DOMAIN all : all[i] = Duration /\ all[j] = Duration => i = j
  <2>1. CASE KeysNamed(Duration) = {}
    <3>1. /\ DOMAIN all = DOMAIN named \cup {more} /\ all[more] = Duration
          /\ \A i \in DOMAIN named : all[i] = named[i]
      BY <2>1, <1>10 DEF Put
    <3>2. \A i \in DOMAIN keys : keys[i] # Duration
      BY <2>1 DEF KeysNamed
    <3> HIDE DEF all
    <3>3. \A i \in DOMAIN all : all[i] = Duration => i = more
      BY <3>1, <3>2, <1>9, <1>11
    <3> QED  BY <3>1, <3>3, <1>9
  <2>2. CASE KeysNamed(Duration) # {}
    <3>1. all = named
      BY <2>2
    <3>2. PICK i \in DOMAIN keys : keys[i] = Duration
      BY <2>2 DEF KeysNamed
    <3>3. \A j \in DOMAIN keys : keys[j] = Duration => j = i
      BY <3>2, <1>4 DEF AllFound, Unique, KeysNamed
    <3> QED  BY <3>1, <3>2, <3>3, <1>9, <1>11
  <2> QED  BY <2>1, <2>2
<1> HIDE DEF all
<1>13. d \in DOMAIN all /\ all[d] = Duration
  BY <1>12
<1> HIDE DEF d
<1>14. /\ \A name : name # u /\ name # Duration => KeysNamed(name)' = KeysNamed(name)
       /\ KeysNamed(u)' = {k} /\ KeysNamed(Duration)' = {d}
       /\ KeysNamed(Duration) \subseteq {d}
  <2>1. \A name : name # u /\ name # Duration => KeysNamed(name)' = KeysNamed(name)
    BY <1>1, <1>7, <1>12 DEF KeysNamed
  <2>2. KeysNamed(u)' = {k}
    BY <1>1, <1>5, <1>11, <1>12 DEF KeysNamed
  <2>3. KeysNamed(Duration)' = {d}
    BY <1>1, <1>12, <1>13 DEF KeysNamed
  <2>4. KeysNamed(Duration) \subseteq {d}
    BY <1>12, <1>13 DEF KeysNamed
  <2> QED  BY <2>1, <2>2, <2>3, <2>4
<1>15. LimitsOf(u)' = {l} /\ \A v : v # u => LimitsOf(v)' = LimitsOf(v)
  <2>1. PICK m : limits' = Put(limits, l, [direction |-> u, measurement |-> m])
    BY <1>1
  <2>2. /\ DOMAIN limits' = DOMAIN limits \cup {l} /\ limits'[l].direction = u
        /\ \A i \in DOMAIN limits : limits'[i] = limits[i]
    BY <2>1, <1>6 DEF Put
  <2> QED  BY <2>2, <1>5, <1>6 DEF LimitsOf
<1>16. PICK c, p : characteristics' =
                     Put(characteristics, n, [connection |-> c, parameter |-> p, type |-> u, value |-> 0])
  BY <1>1
<1>17. /\ DOMAIN characteristics' = DOMAIN characteristics \cup {n}
       /\ characteristics'[n] = [connection |-> c, parameter |-> p, type |-> u, value |-> 0]
       /\ \A i \in DOMAIN characteristics : characteristics'[i] = characteristics[i]
  BY <1>8, <1>16 DEF Put
<1>18. Typed(u)' = {n} /\ \A v : v # u => Typed(v)' = Typed(v)
  BY <1>5, <1>8, <1>17 DEF Typed
<1>19. AllFound'
  <2>1. ASSUME NEW v \in Controlled PROVE Found(v)'
    <3>1. CASE v = u
      BY <3>1, <1>3, <1>14, <1>15, <1>18 DEF Found, Unique
    <3>2. CASE v # u
      <4>1. /\ LimitsOf(v)' = LimitsOf(v) /\ KeysNamed(v)' = KeysNamed(v)
            /\ Typed(v)' = Typed(v) /\ (Added(v)' <=> Added(v))
        BY <3>2, <1>3, <1>11, <1>14, <1>15, <1>18
      <4> QED  BY <4>1, <1>4 DEF AllFound, Found, Unique
    <3> QED  BY <3>1, <3>2
  <2>2. KeysNamed(Factor)' = KeysNamed(Factor)
    BY <1>11, <1>14
  <2> QED  BY <1>1, <1>3, <1>4, <1>14, <2>1, <2>2 DEF AllFound, Unique
<1>20. Entries'
  <2>1. /\ DOMAIN limitData' = DOMAIN limitData \cup {l} /\ limitData'[l] = Plain(0)
        /\ \A i \in DOMAIN limitData : i # l => limitData'[i] = limitData[i]
    BY <1>1 DEF Put
  <2>2. ASSUME NEW i \in DOMAIN limitData' PROVE \E v, q : limitData'[i] = [value |-> v, period |-> q]
    <3>1. CASE i = l
      BY <2>1, <3>1 DEF Plain
    <3>2. CASE i # l
      <4>1. i \in DOMAIN limitData /\ limitData'[i] = limitData[i]
        BY <2>1, <2>2, <3>2
      <4> QED  BY <4>1, <1>4 DEF Entries
    <3> QED  BY <3>1, <3>2
  <2>3. ASSUME NEW i \in DOMAIN characteristics'
        PROVE  \E a, b, t, v : characteristics'[i] = [connection |-> a, parameter |-> b, type |-> t, value |-> v]
    <3>1. CASE i = n
      BY <1>17, <3>1
    <3>2. CASE i # n
      <4>1. i \in DOMAIN characteristics /\ characteristics'[i] = characteristics[i]
        BY <1>17, <2>3, <3>2
      <4> QED  BY <4>1, <1>4 DEF Entries
    <3> QED  BY <3>1, <3>2
  <2> QED  BY <1>8, <1>17, <2>2, <2>3 DEF Entries
<1>21. QuantitiesReported' /\ IdsDistinct' /\ AddingWritesNothing'
  BY <1>1, <1>2, <1>4 DEF QuantitiesReported, IdsDistinct, AddingWritesNothing, Idle
<1>22. /\ DOMAIN keyData' = DOMAIN keyData \cup {k, d} /\ keyData'[d] = 0
       /\ \A i \in DOMAIN keyData : i # k /\ i # d => keyData'[i] = keyData[i]
  BY <1>1 DEF Put
<1>23. /\ DOMAIN written' = DOMAIN written \cup {device} /\ written'[device] = Plain(0)
       /\ \A item \in DOMAIN written : item # device => written'[item] = written[item]
  BY <1>1 DEF Put
<1>24. Holds(device)'
  <2>1. PICK i : i = d
    OBVIOUS
  <2>2. OwnsKey(device, i)'
    BY <1>14, <2>1 DEF OwnsKey
  <2> QED  BY <1>22, <1>23, <2>1, <2>2 DEF Holds
<1>25. ASSUME NEW item \in DOMAIN written, item # device PROVE Holds(item)'
  <2>1. Holds(item) /\ written'[item] = written[item]
    BY <1>4, <1>23, <1>25 DEF AllHeld
  <2>2. \A i : OwnsValue(item, i) => OwnsValue(item, i)'
    BY <1>1 DEF OwnsValue
  <2>3. ASSUME NEW i \in DOMAIN keyData, OwnsKey(item, i)
        PROVE  OwnsKey(item, i)' /\ i \in DOMAIN keyData' /\ keyData'[i] = keyData[i]
    <3>1. i \in DOMAIN keys
      BY <2>3 DEF Types, TypeOK
    <3>2. \/ item = <<"MGCP", Item(Factor)>> /\ i \in factor
          \/ \E v \in Controlled : item = <<v, Item("failsafe")>> /\ i \in KeysNamed(v)
      BY <1>25, <2>3 DEF OwnsKey
    <3>3. i # d
      BY <3>1, <3>2, <1>4, <1>11, <1>12, <1>13 DEF AllFound, KeysNamed
    <3>4. i # k
      BY <3>1, <1>7
    <3>5. \A v \in Controlled : i \in KeysNamed(v) => i \in KeysNamed(v)'
      BY <1>5, <1>11, <1>14
    <3>6. OwnsKey(item, i)'
      BY <3>2, <3>5, <1>1 DEF OwnsKey
    <3> QED  BY <3>3, <3>4, <3>6, <1>22
  <2>4. ASSUME NEW i \in DOMAIN limitData, OwnsLimit(item, i)
        PROVE  OwnsLimit(item, i)' /\ i \in DOMAIN limitData' /\ limitData'[i] = limitData[i]
    <3>1. i # l
      BY <2>4, <1>6 DEF Types, TypeOK
    <3>2. OwnsLimit(item, i)'
      BY <2>4, <1>5, <1>15 DEF OwnsLimit
    <3> QED  BY <3>1, <3>2, <1>1 DEF Put
  <2>5. ASSUME NEW i \in DOMAIN characteristics, OwnsNominal(item, i)
        PROVE  /\ OwnsNominal(item, i)' /\ i \in DOMAIN characteristics'
               /\ characteristics'[i].value = characteristics[i].value
    <3>1. i \in DOMAIN characteristics' /\ characteristics'[i] = characteristics[i]
      BY <2>5, <1>17
    <3>2. OwnsNominal(item, i)'
      BY <2>5, <3>1 DEF OwnsNominal, Nominal
    <3> QED  BY <3>1, <3>2
  <2>6. \A i \in DOMAIN values : OwnsValue(item, i) => i \in DOMAIN values' /\ values'[i] = values[i]
    BY <1>1
  <2> QED  BY <2>1, <2>2, <2>3, <2>4, <2>5, <2>6, HeldKept
<1>26. AllHeld'
  BY <1>23, <1>24, <1>25 DEF AllHeld
<1> QED  BY <1>19, <1>20, <1>21, <1>26 DEF OwnInv

\* No step gives one use case what another keeps.
LEMMA OStep == MInv /\ Types /\ OwnInv /\ [Next]_vars => OwnInv'
<1> SUFFICES ASSUME MInv, Types, OwnInv, [Next]_vars PROVE OwnInv'
  OBVIOUS
<1>1. ASSUME NEW u \in Monitors, BeginMonitor(u) PROVE OwnInv'
  BY <1>1, OBegin
<1>2. ASSUME NEW u \in Monitors, ~Idle, u = order[Len(order)], NEW q \in Adding, AddQuantity(u, q)
      PROVE  OwnInv'
  BY <1>2, OAdd
<1>3. ASSUME NEW u \in Monitors, NEW q, Fail(u, q) PROVE OwnInv'
  BY <1>3, OFail
<1>4. ASSUME NEW u \in Controlled, AddControlled(u) PROVE OwnInv'
  BY <1>4, OControlled
<1>5. ASSUME Idle, NEW u \in Monitors, NEW factors \in 0 .. 2, NEW qs, Update(u, qs, factors) PROVE OwnInv'
  BY <1>5, OUpdate
<1>6. ASSUME Idle, NEW u \in Controlled, NEW period \in BOOLEAN, SetLimit(u, period) PROVE OwnInv'
  BY <1>6, OLimit
<1>7. ASSUME Idle, NEW u \in Controlled, RemoteLimit(u) PROVE OwnInv'
  <2>1. TRUE \in BOOLEAN
    OBVIOUS
  <2> QED  BY <1>7, <2>1, OLimit
<1>8. ASSUME Idle, NEW u \in Controlled, SetKey(<<u, Item("failsafe")>>, u) PROVE OwnInv'
  <2>1. \A k \in KeysNamed(u) : OwnsKey(<<u, Item("failsafe")>>, k)
    BY DEF OwnsKey
  <2> QED  BY <1>8, <2>1, OKey
<1>9. ASSUME Idle, SetKey(<<"device", Item(Duration)>>, Duration) PROVE OwnInv'
  <2>1. \A k \in KeysNamed(Duration) : OwnsKey(<<"device", Item(Duration)>>, k)
    BY DEF OwnsKey
  <2> QED  BY <1>9, <2>1, OKey
<1>10. ASSUME Idle, NEW u \in Controlled, SetNominalMax(u) PROVE OwnInv'
  BY <1>10, ONominal
<1>11. CASE UNCHANGED vars
  <2>1. /\ UNCHANGED <<usecase, limits, keys>>
        /\ UNCHANGED <<values, keyData, limitData, characteristics, written>>
    BY <1>11 DEF vars, measurement, connection, control, keyValues
  <2>2. UNCHANGED <<order, todo, ids, factor>>
    BY <2>1 DEF usecase
  <2>3. \A v : /\ LimitsOf(v)' = LimitsOf(v) /\ KeysNamed(v)' = KeysNamed(v)
               /\ Typed(v)' = Typed(v) /\ Nominal(v)' = Nominal(v)
               /\ (Added(v)' <=> Added(v))
    BY <2>1, <2>2 DEF LimitsOf, KeysNamed, Typed, Nominal, Added
  <2>4. AllFound'
    BY <2>2, <2>3 DEF OwnInv, AllFound, Found, Unique
  <2>5. AllHeld'
    BY <2>1, <2>2, <2>3 DEF OwnInv, AllHeld, Holds, OwnsValue, OwnsKey, OwnsLimit, OwnsNominal
  <2> QED  BY <2>1, <2>2, <2>4, <2>5 DEF OwnInv, QuantitiesReported, IdsDistinct, Entries,
                                         AddingWritesNothing, Idle
<1> QED  BY <1>1, <1>2, <1>3, <1>4, <1>5, <1>6, <1>7, <1>8, <1>9, <1>10, <1>11 DEF Next

\* Whatever the order in which use cases were added, and whatever failed, each
\* reads what was last written through it and nothing another one wrote.
THEOREM ValuesOwned == Spec => []OwnValues
<1>1. Init => Types /\ OwnInv
  BY TInit, OInit
<1>2. MInv /\ Types /\ OwnInv /\ [Next]_vars => Types' /\ OwnInv'
  BY TStep, OStep
<1>3. MInv /\ Types /\ OwnInv => OwnValues
  BY ReadWhereKept DEF OwnValues
<1> QED  BY <1>1, <1>2, <1>3, MeasuredInductive, PTL DEF Spec

-----------------------------------------------------------------------------
(* What limits refer to.                                                   *)

\* Every measurement is kept by a monitor.
AllKept == \A i \in DOMAIN descriptions : \E u \in Monitors : \E q \in DOMAIN ids[u] : ids[u][q] = i

\* Monitors add what their configuration has, each quantity once.
AddedOnce ==
  /\ config \in Configs
  /\ \A u \in Monitors : DOMAIN ids[u] \subseteq Quantities(u)
  /\ \A i \in DOMAIN todo : \A q \in todo[i] :
       /\ q \in Quantities(order[Len(order)])
       /\ q \notin DOMAIN ids[order[Len(order)]]
       /\ \A j \in DOMAIN todo : q \in todo[j] => i = j

\* Use cases are added once, connections are those of monitors, and parameters
\* have their fields.
Shapes ==
  /\ \A i, j \in DOMAIN order : order[i] = order[j] => i = j
  /\ connections = {own[u] : u \in {m \in Monitors : Added(m)}}
  /\ \A k \in DOMAIN parameters : \E m, t : parameters[k] = [measurement |-> m, kind |-> t]

OneMonitor == \A i, j \in DOMAIN order : order[i] \in Monitors /\ order[j] \in Monitors => i = j

\* The nominal maximum refers to the total power of the monitor.
Characterised(u, m) ==
  \E k \in DOMAIN characteristics :
    /\ characteristics[k].type = u
    /\ characteristics[k].connection = own[m]
    /\ \E p \in DOMAIN parameters :
         /\ p = <<own[m], characteristics[k].parameter>>
         /\ parameters[p].measurement = ids[m][Total]

\* What a limit refers to, as it was when its use case was added.
Refers(l) ==
  LET u == limits[l].direction
  IN  /\ u \in Controlled /\ Added(u)
      /\ \A m \in Monitors : TotalsBefore(u) = {m} =>
            limits[l].measurement = ids[m][Total] /\ (OneMonitor => Characterised(u, m))
      /\ (\A m \in Monitors : TotalsBefore(u) # {m}) =>
            limits[l].measurement = defaultPowerTotalMeasurementId

KInv == AllKept /\ AddedOnce /\ Shapes /\ \A l \in DOMAIN limits : Refers(l)

\* The scopes and phases of what the methods of MGCP add.
MgcpAt(i, q) ==
  /\ i = 1 => q.scope = "ACPowerTotal"
  /\ i = 2 => q.scope = "GridFeedIn"
  /\ i = 3 => q.scope = "GridConsumption"
  /\ i = 4 => q.scope = "ACCurrent" /\ "a" \in q.phases
  /\ i = 5 => q.scope = "ACCurrent" /\ "b" \in q.phases /\ "a" \notin q.phases
  /\ i = 6 => q.scope = "ACCurrent" /\ "b" \notin q.phases /\ "a" \notin q.phases
  /\ i = 7 => q.scope = "ACVoltage" /\ "a" \in q.phases /\ "b" \notin q.phases /\ "c" \notin q.phases
  /\ i = 8 => q.scope = "ACVoltage" /\ "a" \notin q.phases /\ "b" \in q.phases /\ "c" \notin q.phases
  /\ i = 9 => q.scope = "ACVoltage" /\ "a" \notin q.phases /\ "b" \notin q.phases
  /\ i = 10 => q.scope = "ACVoltage" /\ "a" \in q.phases /\ "b" \in q.phases
  /\ i = 11 => q.scope = "ACVoltage" /\ "b" \in q.phases /\ "c" \in q.phases /\ "a" \notin q.phases
  /\ i = 12 => q.scope = "ACVoltage" /\ "a" \in q.phases /\ "b" \notin q.phases /\ "c" \in q.phases
  /\ i = 13 => q.scope = "ACFrequency"

\* And the scopes of MPC.
MpcAt(i, q) ==
  /\ i = 1 => q.scope = "ACPowerTotal"
  /\ i = 2 => q.scope = "ACPower"
  /\ i = 3 => q.scope = "ACEnergyConsumed"
  /\ i = 4 => q.scope = "ACEnergyProduced"
  /\ i = 5 => q.scope = "ACCurrent"
  /\ i = 6 => q.scope = "ACVoltage"
  /\ i = 7 => q.scope = "ACFrequency"

\* No two methods add the same quantity.
LEMMA MethodsDisjoint ==
  ASSUME NEW u \in Monitors, NEW i \in DOMAIN Methods(u), NEW j \in DOMAIN Methods(u),
         NEW q \in Methods(u)[i], q \in Methods(u)[j]
  PROVE  i = j
<1>1. PICK c : c = config[u]
  OBVIOUS
<1>2. CASE u = "MPC"
  <2>1. ASSUME NEW k \in DOMAIN MpcMethods(c), q \in MpcMethods(c)[k] PROVE k \in 1 .. 7 /\ MpcAt(k, q)
    <3>1. k \in 1 .. 7
      BY DEF MpcMethods
    <3>2. CASE k = 1
      BY <2>1, <3>2 DEF MpcMethods, MpcAt, Total, Quantity
    <3>3. CASE k = 2
      BY <2>1, <3>3 DEF MpcMethods, MpcAt, PerPhase, Quantity
    <3>4. CASE k = 3
      BY <2>1, <3>4 DEF MpcMethods, MpcAt, If, Quantity
    <3>5. CASE k = 4
      BY <2>1, <3>5 DEF MpcMethods, MpcAt, If, Quantity
    <3>6. CASE k = 5
      BY <2>1, <3>6 DEF MpcMethods, MpcAt, PerPhase, Quantity
    <3>7. CASE k = 6
      BY <2>1, <3>7 DEF MpcMethods, MpcAt, Quantity
    <3>8. CASE k = 7
      BY <2>1, <3>8 DEF MpcMethods, MpcAt, If, Quantity
    <3> QED  BY <3>1, <3>2, <3>3, <3>4, <3>5, <3>6, <3>7, <3>8
  <2>2. i \in 1 .. 7 /\ j \in 1 .. 7 /\ MpcAt(i, q) /\ MpcAt(j, q)
    BY <1>1, <1>2, <2>1 DEF Methods
  <2> QED  BY <2>2 DEF MpcAt
<1>3. CASE u = "MGCP"
  <2>1. ASSUME NEW k \in DOMAIN MgcpMethods(c), q \in MgcpMethods(c)[k] PROVE k \in 1 .. 13 /\ MgcpAt(k, q)
    <3>1. k \in 1 .. 13
      BY DEF MgcpMethods
    <3>2. CASE k = 1
      BY <2>1, <3>2 DEF MgcpMethods, MgcpAt, Total, Quantity
    <3>3. CASE k \in 2 .. 3
      BY <2>1, <3>3 DEF MgcpMethods, MgcpAt, Quantity
    <3>4. CASE k \in 4 .. 6
      BY <2>1, <3>4 DEF MgcpMethods, MgcpAt, If, Quantity
    <3>5. CASE k \in 7 .. 9
      BY <2>1, <3>5 DEF MgcpMethods, MgcpAt, If, Quantity
    <3>6. CASE k \in 10 .. 12
      BY <2>1, <3>6 DEF MgcpMethods, MgcpAt, If, Quantity
    <3>7. CASE k = 13
      BY <2>1, <3>7 DEF MgcpMethods, MgcpAt, If, Quantity
    <3> QED  BY <3>1, <3>2, <3>3, <3>4, <3>5, <3>6, <3>7
  <2>2. i \in 1 .. 13 /\ j \in 1 .. 13 /\ MgcpAt(i, q) /\ MgcpAt(j, q)
    BY <1>1, <1>3, <2>1 DEF Methods, Monitors
  <2> QED  BY <2>2 DEF MgcpAt
<1> QED  BY <1>2, <1>3 DEF Monitors

\* Lists without gaps that are too short do not have the default id.
LEMMA FewDescriptions ==
  ASSUME MInv, IdsDistinct, AllKept, AddedOnce
  PROVE  defaultPowerTotalMeasurementId \notin DOMAIN descriptions
<1>1. PICK n \in Nat : DOMAIN descriptions = 0 .. (n - 1)
  BY DEF MInv, Lists, NoGaps
<1> DEFINE T == Offered(config)
           Keeps(x, i) == \E u \in Monitors : \E q \in DOMAIN ids[u] : x = <<u, q>> /\ ids[u][q] = i
           f == [i \in 0 .. (n - 1) |-> CHOOSE x \in T : Keeps(x, i)]
<1>2. IsFiniteSet(T) /\ Cardinality(T) <= 50
  BY FewQuantities DEF AddedOnce, defaultPowerTotalMeasurementId
<1>3. ASSUME NEW u \in Monitors, NEW q \in DOMAIN ids[u] PROVE <<u, q>> \in T
  <2>1. q \in Together(Methods(u))
    BY DEF AddedOnce, Quantities
  <2> QED  BY <2>1 DEF Offered, Methods, Monitors
<1>4. ASSUME NEW i \in 0 .. (n - 1) PROVE f[i] \in T /\ Keeps(f[i], i)
  <2>1. \E x \in T : Keeps(x, i)
    BY <1>1, <1>3 DEF AllKept
  <2> QED  BY <2>1
<1>5. \A x, i, j : Keeps(x, i) /\ Keeps(x, j) => i = j
  OBVIOUS
<1>6. f \in [0 .. (n - 1) -> T]
  BY <1>4
<1> HIDE DEF T, Keeps, f
<1>7. f \in Injection(0 .. (n - 1), T)
  BY <1>4, <1>5, <1>6 DEF Injection, IsInjective
<1>8. Cardinality(0 .. (n - 1)) <= Cardinality(T)
  BY <1>2, <1>7, FS_Injection
<1>9. Cardinality(0 .. (n - 1)) = n
  BY FS_Interval
<1>10. Cardinality(T) \in Nat
  BY <1>2, FS_CardinalityType
<1>11. n <= 50
  BY <1>2, <1>8, <1>9, <1>10
<1> QED  BY <1>1, <1>11 DEF defaultPowerTotalMeasurementId

\* With no total, or several, the default is found, otherwise the one.
LEMMA FindsTotal ==
  ASSUME MInv, IdsDistinct, AllKept, NEW S, S = {m \in Monitors : Total \in DOMAIN ids[m]}
  PROVE  /\ \A m : S = {m} => GetPowerTotalMeasurementId = ids[m][Total]
         /\ (\A m : S # {m}) => GetPowerTotalMeasurementId = defaultPowerTotalMeasurementId
<1> DEFINE found == {i \in DOMAIN descriptions : descriptions[i] = Total}
<1>1. found = {ids[m][Total] : m \in S}
  <2>1. \A u \in Monitors : \A q \in DOMAIN ids[u] : descriptions[ids[u][q]] = q /\ ids[u][q] \in DOMAIN descriptions
    BY DEF MInv, Measured, Lists
  <2>2. ASSUME NEW i \in found PROVE \E m \in S : i = ids[m][Total]
    <3>1. PICK u \in Monitors : \E q \in DOMAIN ids[u] : ids[u][q] = i
      BY DEF AllKept
    <3>2. PICK q \in DOMAIN ids[u] : ids[u][q] = i
      BY <3>1
    <3>3. q = Total
      BY <2>1, <3>2
    <3> QED  BY <3>2, <3>3
  <2> QED  BY <2>1, <2>2
<1>2. IsFiniteSet(found)
  <2>1. PICK n \in Nat : DOMAIN descriptions = 0 .. (n - 1)
    BY DEF MInv, Lists, NoGaps
  <2>2. IsFiniteSet(0 .. (n - 1))
    BY FS_Interval
  <2> QED  BY <2>1, <2>2, FS_Subset
<1>3. GetPowerTotalMeasurementId =
        IF Cardinality(found) = 1 THEN AnyOf(found) ELSE defaultPowerTotalMeasurementId
  BY DEF GetPowerTotalMeasurementId
<1> HIDE DEF found
<1>4. ASSUME NEW m, S = {m} PROVE GetPowerTotalMeasurementId = ids[m][Total]
  <2>1. found = {ids[m][Total]}
    BY <1>1, <1>4
  <2> QED  BY <1>3, <2>1, FS_Singleton, AnyOfFound
<1>5. ASSUME \A m : S # {m} PROVE Cardinality(found) # 1
  <2> SUFFICES ASSUME Cardinality(found) = 1 PROVE FALSE
    OBVIOUS
  <2>1. PICK e : found = {e}
    BY <1>2, FS_Singleton
  <2>2. PICK m \in S : e = ids[m][Total]
    BY <1>1, <2>1
  <2>3. \A v \in S : v = m
    BY <1>1, <2>1, <2>2 DEF IdsDistinct
  <2> QED  BY <1>5, <2>2, <2>3
<1> QED  BY <1>3, <1>4, <1>5

\* The connection and the parameter of the total of the only monitor are found.
LEMMA FindsParameter ==
  ASSUME MInv, Shapes, OneMonitor, NEW m \in Monitors, Added(m), Total \in DOMAIN ids[m]
  PROVE  /\ GetElectricalConnectionId = own[m]
         /\ LET p == <<own[m], GetParameterId(own[m], ids[m][Total])>>
            IN  p \in DOMAIN parameters /\ parameters[p].measurement = ids[m][Total]
<1>1. connections = {own[m]}
  BY DEF Shapes, OneMonitor, Added
<1>2. GetElectricalConnectionId = own[m]
  BY <1>1, FS_Singleton, AnyOfFound DEF GetElectricalConnectionId
<1>3. PICK k \in DOMAIN parameters :
        /\ k[1] = own[m] /\ parameters[k].kind = Kind(Total)
        /\ {l \in DOMAIN parameters : parameters[l].measurement = ids[m][Total]} = {k}
  BY DEF MInv, Measured
<1>4. Kind(Total) = "real"
  BY DEF Kind, Total, Quantity
<1>5. parameters[k].measurement = ids[m][Total] /\ k = <<k[1], k[2]>>
  BY <1>3 DEF MInv, Lists
<1>6. parameters[k] = [measurement |-> ids[m][Total], kind |-> "real"]
  <2>1. PICK x, t : parameters[k] = [measurement |-> x, kind |-> t]
    BY DEF Shapes
  <2> QED  BY <2>1, <1>3, <1>4, <1>5
<1>7. {l \in DOMAIN parameters : l[1] = own[m] /\ parameters[l] = [measurement |-> ids[m][Total], kind |-> "real"]} = {k}
  <2>1. ASSUME NEW l \in DOMAIN parameters, parameters[l] = [measurement |-> ids[m][Total], kind |-> "real"]
        PROVE  l = k
    <3>1. parameters[l].measurement = ids[m][Total]
      BY <2>1
    <3> QED  BY <1>3, <3>1
  <2> QED  BY <1>3, <1>6, <2>1
<1>8. GetParameterId(own[m], ids[m][Total]) = k[2]
  BY <1>7, FS_Singleton, AnyOfFound DEF GetParameterId
<1> QED  BY <1>2, <1>3, <1>5, <1>8

\* A limit refers to the same as long as nothing of it is removed and no total
\* is added before its use case.
LEMMA RefersKept ==
  ASSUME NEW l \in DOMAIN limits, Refers(l), limits'[l] = limits[l],
         NEW u, u = limits[l].direction, Added(u)', TotalsBefore(u)' = TotalsBefore(u),
         OneMonitor' => OneMonitor,
         \A m \in TotalsBefore(u) : ids'[m][Total] = ids[m][Total] /\ own'[m] = own[m],
         \A p \in DOMAIN parameters : p \in DOMAIN parameters' /\ parameters'[p] = parameters[p],
         \A k \in DOMAIN characteristics :
           /\ k \in DOMAIN characteristics'
           /\ characteristics'[k].type = characteristics[k].type
           /\ characteristics'[k].connection = characteristics[k].connection
           /\ characteristics'[k].parameter = characteristics[k].parameter
  PROVE  Refers(l)'
<1>1. u \in Controlled /\ limits'[l].direction = u
  BY DEF Refers
<1>2. ASSUME NEW m \in Monitors, TotalsBefore(u) = {m}
      PROVE  limits'[l].measurement = ids'[m][Total] /\ (OneMonitor' => Characterised(u, m)')
  <2>1. /\ limits[l].measurement = ids[m][Total] /\ (OneMonitor => Characterised(u, m))
        /\ ids'[m][Total] = ids[m][Total] /\ own'[m] = own[m]
    BY <1>2 DEF Refers
  <2>2. Characterised(u, m) => Characterised(u, m)'
    <3> SUFFICES ASSUME Characterised(u, m) PROVE Characterised(u, m)'
      OBVIOUS
    <3>1. PICK k \in DOMAIN characteristics :
            /\ characteristics[k].type = u
            /\ characteristics[k].connection = own[m]
            /\ \E p \in DOMAIN parameters :
                 /\ p = <<own[m], characteristics[k].parameter>>
                 /\ parameters[p].measurement = ids[m][Total]
      BY DEF Characterised
    <3>2. PICK p \in DOMAIN parameters :
            /\ p = <<own[m], characteristics[k].parameter>>
            /\ parameters[p].measurement = ids[m][Total]
      BY <3>1
    <3> QED  BY <2>1, <3>1, <3>2 DEF Characterised
  <2> QED  BY <2>1, <2>2
<1>3. (\A m \in Monitors : TotalsBefore(u) # {m}) => limits'[l].measurement = defaultPowerTotalMeasurementId
  BY DEF Refers
<1> QED  BY <1>1, <1>2, <1>3 DEF Refers

\* Steps that concern neither ids nor limits keep all of it.
LEMMA KUnchanged ==
  ASSUME KInv, UNCHANGED <<config, order, ids, own, descriptions, connections, parameters, limits>>,
         todo' = todo \/ todo' = <<>>,
         \A k \in DOMAIN characteristics :
           /\ k \in DOMAIN characteristics'
           /\ characteristics'[k].type = characteristics[k].type
           /\ characteristics'[k].connection = characteristics[k].connection
           /\ characteristics'[k].parameter = characteristics[k].parameter
  PROVE  KInv'
<1>1. AllKept' /\ Shapes'
  BY DEF KInv, AllKept, Shapes, Added
<1>2. AddedOnce'
  <2>1. \A u : Quantities(u)' = Quantities(u)
    BY DEF Quantities, Methods
  <2> QED  BY <2>1 DEF KInv, AddedOnce
<1>3. ASSUME NEW l \in DOMAIN limits PROVE Refers(l)'
  <2>1. PICK u : u = limits[l].direction
    OBVIOUS
  <2>2. Refers(l) /\ limits'[l] = limits[l] /\ Added(u)'
    BY <2>1 DEF KInv, Refers, Added
  <2>3. TotalsBefore(u)' = TotalsBefore(u) /\ (OneMonitor' => OneMonitor)
    BY DEF TotalsBefore, OneMonitor
  <2> QED  BY <2>1, <2>2, <2>3, RefersKept
<1> QED  BY <1>1, <1>2, <1>3 DEF KInv

\* An entity without use cases.
LEMMA KInit == Init => KInv
<1> SUFFICES ASSUME Init PROVE KInv
  OBVIOUS
<1>1. /\ todo = <<>> /\ order = <<>> /\ connections = {} /\ config \in Configs
      /\ DOMAIN descriptions = {} /\ DOMAIN parameters = {} /\ DOMAIN limits = {}
      /\ \A u \in Monitors : DOMAIN ids[u] = {}
  BY DEF Init
<1>2. \A u : ~Added(u)
  BY <1>1 DEF Added
<1> QED  BY <1>1, <1>2 DEF KInv, AllKept, AddedOnce, Shapes

\* A use case added last changes nothing about what was added before another.
LEMMA BeforeKept ==
  ASSUME NEW v \in UseCases, order \in Seq(UseCases), order' = Append(order, v), ids' = ids,
         NEW u, u # v
  PROVE  TotalsBefore(u)' = TotalsBefore(u) /\ (OneMonitor' => OneMonitor)
<1>1. /\ DOMAIN order' = DOMAIN order \cup {Len(order) + 1}
      /\ order'[Len(order) + 1] = v
      /\ \A i \in DOMAIN order : order'[i] = order[i] /\ i \in Nat /\ i < Len(order) + 1
  OBVIOUS
<1>2. ASSUME NEW m
      PROVE  (\E i, j \in DOMAIN order' : i < j /\ order'[i] = m /\ order'[j] = u)
               <=> \E i, j \in DOMAIN order : i < j /\ order[i] = m /\ order[j] = u
  <2>1. ASSUME NEW i \in DOMAIN order', NEW j \in DOMAIN order', i < j, order'[i] = m, order'[j] = u
        PROVE  i \in DOMAIN order /\ j \in DOMAIN order /\ order[i] = m /\ order[j] = u
    <3>1. j \in DOMAIN order
      BY <1>1, <2>1
    <3>2. i # Len(order) + 1
      BY <1>1, <2>1, <3>1
    <3> QED  BY <1>1, <2>1, <3>1, <3>2
  <2> QED  BY <1>1, <2>1
<1>3. TotalsBefore(u)' = TotalsBefore(u)
  BY <1>2 DEF TotalsBefore
<1> QED  BY <1>1, <1>3 DEF OneMonitor

\* The order has a use case added last in the end, and only there.
LEMMA ShapesAppend ==
  ASSUME MInv, Shapes, NEW u \in UseCases, ~Added(u), order' = Append(order, u)
  PROVE  /\ \A i, j \in DOMAIN order' : order'[i] = order'[j] => i = j
         /\ order'[Len(order')] = u
<1>1. order \in Seq(UseCases)
  BY DEF MInv, Adders
<1>2. /\ DOMAIN order' = DOMAIN order \cup {Len(order) + 1}
      /\ order'[Len(order) + 1] = u /\ Len(order') = Len(order) + 1
      /\ \A i \in DOMAIN order : order'[i] = order[i]
  BY <1>1
<1>3. \A i \in DOMAIN order : order[i] # u
  BY DEF Added
<1> QED  BY <1>2, <1>3 DEF Shapes

\* A monitor that begins has all its quantities to add.
LEMMA KBegin ==
  ASSUME MInv, KInv, NEW u \in Monitors, BeginMonitor(u)
  PROVE  KInv'
<1>1. /\ order' = Append(order, u) /\ todo' = Methods(u)
      /\ connections' = connections \cup {GetOrAddIdForDescription}
      /\ own' = [own EXCEPT ![u] = GetOrAddIdForDescription]
      /\ UNCHANGED <<config, ids, descriptions, parameters, limits, characteristics>>
  BY DEF BeginMonitor, measurement, control
<1>2. /\ ~Added(u) /\ order \in Seq(UseCases) /\ DOMAIN ids[u] = {} /\ DOMAIN own = Monitors
      /\ u \in UseCases
  BY DEF BeginMonitor, MInv, Adders, Lists, UseCases
<1>3. \A v : Added(v)' <=> (Added(v) \/ v = u)
  BY <1>1, <1>2, AppendKeeps
<1>4. /\ \A i, j \in DOMAIN order' : order'[i] = order'[j] => i = j
      /\ order'[Len(order')] = u
  BY <1>1, <1>2, ShapesAppend DEF KInv
<1>5. own'[u] = GetOrAddIdForDescription /\ \A v \in Monitors : v # u => own'[v] = own[v]
  BY <1>1, <1>2
<1>6. Shapes'
  <2>1. connections' = {own'[v] : v \in {m \in Monitors : Added(m)'}}
    BY <1>1, <1>2, <1>3, <1>5 DEF KInv, Shapes
  <2> QED  BY <1>1, <1>4, <2>1 DEF KInv, Shapes
<1>7. AllKept'
  BY <1>1 DEF KInv, AllKept
<1>8. AddedOnce'
  <2>1. \A v : Quantities(v)' = Quantities(v)
    BY <1>1 DEF Quantities, Methods
  <2>2. \A i \in DOMAIN todo' : \A q \in todo'[i] :
          /\ q \in Quantities(u) /\ q \notin DOMAIN ids[u]
          /\ \A j \in DOMAIN todo' : q \in todo'[j] => i = j
    <3> SUFFICES ASSUME NEW i \in DOMAIN Methods(u), NEW q \in Methods(u)[i]
                 PROVE  /\ q \in Quantities(u) /\ q \notin DOMAIN ids[u]
                        /\ \A j \in DOMAIN Methods(u) : q \in Methods(u)[j] => i = j
      BY <1>1
    <3>1. q \in Quantities(u)
      BY DEF Quantities, Together
    <3> QED  BY <1>2, <3>1, MethodsDisjoint
  <2> QED  BY <1>1, <1>4, <2>1, <2>2 DEF KInv, AddedOnce
<1>9. ASSUME NEW l \in DOMAIN limits PROVE Refers(l)'
  <2>1. PICK v : v = limits[l].direction
    OBVIOUS
  <2>2. Refers(l) /\ limits'[l] = limits[l] /\ Added(v)' /\ v # u
    BY <1>1, <1>3, <2>1 DEF KInv, Refers, Monitors, Controlled
  <2>3. TotalsBefore(v)' = TotalsBefore(v) /\ (OneMonitor' => OneMonitor)
    BY <1>1, <1>2, <2>2, BeforeKept
  <2>4. \A m \in TotalsBefore(v) : ids'[m][Total] = ids[m][Total] /\ own'[m] = own[m]
    <3>1. \A m \in TotalsBefore(v) : m \in Monitors /\ m # u
      BY <1>2 DEF TotalsBefore, Added
    <3> QED  BY <1>1, <1>5, <3>1
  <2> QED  BY <1>1, <2>1, <2>2, <2>3, <2>4, RefersKept
<1> QED  BY <1>1, <1>6, <1>7, <1>8, <1>9 DEF KInv

\* The quantity that is added is not one that was, nor one still to add.
LEMMA KAdd ==
  ASSUME MInv, KInv, ~Idle, NEW u \in Monitors, u = order[Len(order)], NEW q \in Adding, AddQuantity(u, q)
  PROVE  KInv'
<1>1. PICK id : id = NextId(DOMAIN descriptions)
  OBVIOUS
<1>2. PICK k : k = <<own[u], AddParameterId(own[u])>>
  OBVIOUS
<1>3. /\ descriptions' = Put(descriptions, id, q)
      /\ ids' = [ids EXCEPT ![u] = Put(@, q, id)]
      /\ parameters' = Put(parameters, k, [measurement |-> id, kind |-> Kind(q)])
      /\ todo' = [i \in DOMAIN todo |-> IF Runs(i) THEN todo[i] \ {q} ELSE todo[i]]
      /\ UNCHANGED <<config, order, own, connections, limits, characteristics>>
  BY <1>1, <1>2 DEF AddQuantity, AddDescriptionId, control
<1>4. /\ DOMAIN ids = Monitors /\ order \in Seq(UseCases) /\ order # <<>>
      /\ \A p \in DOMAIN parameters : p = <<p[1], p[2]>>
      /\ NoGaps(ParameterIds(own[u]))
  BY DEF MInv, Lists, Adders
<1>5. /\ DOMAIN ids'[u] = DOMAIN ids[u] \cup {q} /\ ids'[u][q] = id
      /\ \A r \in DOMAIN ids[u] : r # q => ids'[u][r] = ids[u][r]
      /\ \A v \in Monitors : v # u => ids'[v] = ids[v]
  BY <1>3, <1>4 DEF Put
<1>6. k \notin DOMAIN parameters
  <2>1. PICK p : p = NextId(ParameterIds(own[u]))
    OBVIOUS
  <2>2. k = <<own[u], p>> /\ p \notin ParameterIds(own[u])
    BY <1>2, <1>4, <2>1, NextIdIsNew DEF AddParameterId, ParameterIds
  <2> QED  BY <2>2 DEF ParameterIds
<1>7. /\ DOMAIN parameters' = DOMAIN parameters \cup {k}
      /\ parameters'[k] = [measurement |-> id, kind |-> Kind(q)]
      /\ \A p \in DOMAIN parameters : parameters'[p] = parameters[p]
  BY <1>3, <1>6 DEF Put
<1>8. PICK n \in DOMAIN todo : Runs(n) /\ q \in todo[n]
  BY DEF Adding
<1>9. /\ q \in Quantities(u) /\ q \notin DOMAIN ids[u]
      /\ \A j \in DOMAIN todo : q \in todo[j] => j = n
  BY <1>8 DEF KInv, AddedOnce
<1>10. AllKept'
  <2>1. ASSUME NEW i \in DOMAIN descriptions' PROVE \E v \in Monitors : \E r \in DOMAIN ids'[v] : ids'[v][r] = i
    <3>1. CASE i = id
      BY <1>5, <3>1
    <3>2. CASE i # id
      <4>1. i \in DOMAIN descriptions
        BY <1>3, <3>2 DEF Put
      <4>2. PICK v \in Monitors : \E r \in DOMAIN ids[v] : ids[v][r] = i
        BY <4>1 DEF KInv, AllKept
      <4>3. PICK r \in DOMAIN ids[v] : ids[v][r] = i
        BY <4>2
      <4>4. r \in DOMAIN ids'[v] /\ ids'[v][r] = ids[v][r]
        BY <1>5, <1>9, <4>3
      <4> QED  BY <4>3, <4>4
    <3> QED  BY <3>1, <3>2
  <2> QED  BY <2>1 DEF AllKept
<1>11. AddedOnce'
  <2>1. \A v : Quantities(v)' = Quantities(v)
    BY <1>3 DEF Quantities, Methods
  <2>2. \A v \in Monitors : DOMAIN ids'[v] \subseteq Quantities(v)
    BY <1>5, <1>9 DEF KInv, AddedOnce
  <2>3. \A i \in DOMAIN todo' : i \in DOMAIN todo /\ todo'[i] \subseteq todo[i] /\ q \notin todo'[i]
    BY <1>3, <1>8, <1>9
  <2>4. ASSUME NEW i \in DOMAIN todo', NEW r \in todo'[i]
        PROVE  /\ r \in Quantities(u) /\ r \notin DOMAIN ids'[u]
               /\ \A j \in DOMAIN todo' : r \in todo'[j] => i = j
    <3>1. i \in DOMAIN todo /\ r \in todo[i] /\ r # q
      BY <2>3, <2>4
    <3>2. /\ r \in Quantities(u) /\ r \notin DOMAIN ids[u]
          /\ \A j \in DOMAIN todo : r \in todo[j] => i = j
      BY <3>1 DEF KInv, AddedOnce
    <3> QED  BY <1>5, <2>3, <3>1, <3>2
  <2> QED  BY <1>3, <2>1, <2>2, <2>4 DEF KInv, AddedOnce
<1>12. Shapes'
  <2>1. \A v : Added(v)' <=> Added(v)
    BY <1>3 DEF Added
  <2>2. connections' = {own'[v] : v \in {m \in Monitors : Added(m)'}}
    BY <1>3, <2>1 DEF KInv, Shapes
  <2>3. ASSUME NEW i \in DOMAIN parameters'
        PROVE  \E m, t : parameters'[i] = [measurement |-> m, kind |-> t]
    <3>1. CASE i = k
      BY <1>7, <3>1
    <3>2. CASE i # k
      <4>1. i \in DOMAIN parameters /\ parameters'[i] = parameters[i]
        BY <1>7, <2>3, <3>2
      <4> QED  BY <4>1 DEF KInv, Shapes
    <3> QED  BY <3>1, <3>2
  <2> QED  BY <1>3, <2>2, <2>3 DEF KInv, Shapes
<1>13. ASSUME NEW l \in DOMAIN limits PROVE Refers(l)'
  <2>1. PICK v : v = limits[l].direction
    OBVIOUS
  <2>2. Refers(l) /\ limits'[l] = limits[l] /\ Added(v)'
    BY <1>3, <2>1 DEF KInv, Refers, Added
  <2>3. \A i, j \in DOMAIN order : i < j => order[i] # u
    <3>1. Len(order) \in DOMAIN order /\ \A j \in DOMAIN order : j <= Len(order) /\ j \in Nat
      BY <1>4
    <3>2. \A i \in DOMAIN order : order[i] = u => i = Len(order)
      BY <3>1 DEF KInv, Shapes
    <3> QED  BY <3>1, <3>2
  <2>4. TotalsBefore(v)' = TotalsBefore(v) /\ (OneMonitor' => OneMonitor)
    BY <1>3, <1>5, <2>3 DEF TotalsBefore, OneMonitor
  <2>5. \A m \in TotalsBefore(v) : ids'[m][Total] = ids[m][Total] /\ own'[m] = own[m]
    <3>1. \A m \in TotalsBefore(v) : m \in Monitors /\ m # u
      BY <2>3 DEF TotalsBefore
    <3> QED  BY <1>3, <1>5, <3>1
  <2> QED  BY <1>3, <1>7, <2>1, <2>2, <2>4, <2>5, RefersKept
<1> QED  BY <1>3, <1>10, <1>11, <1>12, <1>13 DEF KInv

\* A new limit refers to the one total there is, or to the default.
LEMMA KControlled ==
  ASSUME MInv, Types, OwnInv, KInv, NEW u \in Controlled, AddControlled(u)
  PROVE  KInv'
<1>1. PICK m, c, l, n :
        /\ m = GetPowerTotalMeasurementId /\ c = GetElectricalConnectionId
        /\ l = NextId(DOMAIN limits) /\ n = NextId(DOMAIN characteristics)
  OBVIOUS
<1>2. PICK p : p = GetParameterId(c, m)
  OBVIOUS
<1>3. /\ order' = Append(order, u)
      /\ limits' = Put(limits, l, [direction |-> u, measurement |-> m])
      /\ characteristics' =
           Put(characteristics, n, [connection |-> c, parameter |-> p, type |-> u, value |-> 0])
      /\ UNCHANGED <<config, todo, ids, own, descriptions, connections, parameters>>
  BY <1>1, <1>2 DEF AddControlled, measurement
<1>4. Idle /\ ~Added(u) /\ order \in Seq(UseCases) /\ u \in UseCases /\ u \notin Monitors
  BY DEF AddControlled, MInv, Adders, UseCases, Controlled, Monitors
<1>5. \A v : Added(v)' <=> (Added(v) \/ v = u)
  BY <1>3, <1>4, AppendKeeps
<1>6. \A i, j \in DOMAIN order' : order'[i] = order'[j] => i = j
  BY <1>3, <1>4, ShapesAppend DEF KInv
<1>7. l \notin DOMAIN limits /\ n \notin DOMAIN characteristics
  BY <1>1, NextIdIsNew DEF Types, OwnInv, Entries
<1>8. /\ DOMAIN limits' = DOMAIN limits \cup {l}
      /\ limits'[l] = [direction |-> u, measurement |-> m]
      /\ \A i \in DOMAIN limits : limits'[i] = limits[i]
  BY <1>3, <1>7 DEF Put
<1>9. /\ DOMAIN characteristics' = DOMAIN characteristics \cup {n}
      /\ characteristics'[n] = [connection |-> c, parameter |-> p, type |-> u, value |-> 0]
      /\ \A i \in DOMAIN characteristics : characteristics'[i] = characteristics[i]
  BY <1>3, <1>7 DEF Put
<1>10. AllKept' /\ AddedOnce'
  <2>1. \A v : Quantities(v)' = Quantities(v)
    BY <1>3 DEF Quantities, Methods
  <2>2. \A i \in DOMAIN todo' : todo'[i] = {}
    BY <1>3, <1>4 DEF Idle
  <2> QED  BY <1>3, <2>1, <2>2 DEF KInv, AllKept, AddedOnce
<1>11. Shapes'
  <2>1. \A v \in Monitors : Added(v)' <=> Added(v)
    BY <1>4, <1>5
  <2> QED  BY <1>3, <1>6, <2>1 DEF KInv, Shapes
<1>12. ASSUME NEW i \in DOMAIN limits PROVE Refers(i)'
  <2>1. PICK v : v = limits[i].direction
    OBVIOUS
  <2>2. Refers(i) /\ limits'[i] = limits[i] /\ Added(v)' /\ v # u
    BY <1>4, <1>5, <1>8, <2>1 DEF KInv, Refers
  <2>3. TotalsBefore(v)' = TotalsBefore(v) /\ (OneMonitor' => OneMonitor)
    BY <1>3, <1>4, <2>2, BeforeKept
  <2> QED  BY <1>3, <1>9, <2>1, <2>2, <2>3, RefersKept
<1>13. Refers(l)'
  <2>1. PICK S : S = {v \in Monitors : Total \in DOMAIN ids[v]}
    OBVIOUS
  <2>2. TotalsBefore(u)' = S
    <3>1. \A v \in S : Added(v)
      BY <2>1 DEF MInv, Adders
    <3>2. \A v \in S : \E i, j \in DOMAIN order' : i < j /\ order'[i] = v /\ order'[j] = u
      <4> SUFFICES ASSUME NEW v \in S PROVE \E i, j \in DOMAIN order' : i < j /\ order'[i] = v /\ order'[j] = u
        OBVIOUS
      <4>1. PICK i \in DOMAIN order : order[i] = v
        BY <3>1 DEF Added
      <4>2. /\ i \in DOMAIN order' /\ Len(order) + 1 \in DOMAIN order' /\ i < Len(order) + 1
            /\ order'[i] = v /\ order'[Len(order) + 1] = u
        BY <1>3, <1>4, <4>1
      <4> QED  BY <4>2
    <3> QED  BY <1>3, <2>1, <3>2 DEF TotalsBefore
  <2>3. /\ \A v : S = {v} => m = ids[v][Total]
        /\ (\A v : S # {v}) => m = defaultPowerTotalMeasurementId
    BY <1>1, <2>1, FindsTotal DEF KInv, OwnInv
  <2>4. ASSUME NEW v \in Monitors, S = {v}, OneMonitor' PROVE Characterised(u, v)'
    <3>1. Added(v) /\ Total \in DOMAIN ids[v]
      BY <2>1, <2>4 DEF MInv, Adders
    <3>2. OneMonitor
      BY <1>3, <1>4, <2>4 DEF OneMonitor
    <3>3. m = ids[v][Total]
      BY <2>3, <2>4
    <3>4. c = own[v] /\ <<own[v], p>> \in DOMAIN parameters /\ parameters[<<own[v], p>>].measurement = ids[v][Total]
      BY <1>1, <1>2, <3>1, <3>2, <3>3, FindsParameter DEF KInv
    <3> QED  BY <1>3, <1>9, <3>4 DEF Characterised
  <2>5. limits'[l].direction = u /\ limits'[l].measurement = m /\ Added(u)'
    BY <1>5, <1>8
  <2>6. \A v \in Monitors : S = {v} => limits'[l].measurement = ids'[v][Total]
    BY <1>3, <2>3, <2>5
  <2>7. (\A v \in Monitors : S # {v}) => limits'[l].measurement = defaultPowerTotalMeasurementId
    BY <2>1, <2>3, <2>5
  <2> QED  BY <2>2, <2>4, <2>5, <2>6, <2>7 DEF Refers
<1> QED  BY <1>8, <1>10, <1>11, <1>12, <1>13 DEF KInv

\* No step changes what a limit refers to.
LEMMA KStep == MInv /\ Types /\ OwnInv /\ KInv /\ [Next]_vars => KInv'
<1> SUFFICES ASSUME MInv, Types, OwnInv, KInv, [Next]_vars PROVE KInv'
  OBVIOUS
<1>1. ASSUME NEW u \in Monitors, BeginMonitor(u) PROVE KInv'
  BY <1>1, KBegin
<1>2. ASSUME NEW u \in Monitors, ~Idle, u = order[Len(order)], NEW q \in Adding, AddQuantity(u, q)
      PROVE  KInv'
  BY <1>2, KAdd
<1>3. ASSUME NEW u \in Monitors, NEW q, Fail(u, q) PROVE KInv'
  BY <1>3, KUnchanged DEF Fail, measurement, connection, control
<1>4. ASSUME NEW u \in Controlled, AddControlled(u) PROVE KInv'
  BY <1>4, KControlled
<1>5. ASSUME NEW u \in Monitors, NEW factors, NEW qs, Update(u, qs, factors) PROVE KInv'
  BY <1>5, KUnchanged DEF Update, usecase, connection, control
<1>6. ASSUME NEW u \in Controlled, NEW period, SetLimit(u, period) PROVE KInv'
  BY <1>6, KUnchanged DEF SetLimit, usecase, measurement, connection
<1>7. ASSUME NEW u \in Controlled, RemoteLimit(u) PROVE KInv'
  BY <1>7, KUnchanged DEF RemoteLimit, usecase, measurement, connection
<1>8. ASSUME NEW item, NEW name, SetKey(item, name) PROVE KInv'
  BY <1>8, KUnchanged DEF SetKey, usecase, measurement, connection, control
<1>9. ASSUME NEW u \in Controlled, SetNominalMax(u) PROVE KInv'
  <2>1. UNCHANGED <<config, order, todo, ids, own, descriptions, connections, parameters, limits>>
    BY <1>9 DEF SetNominalMax, usecase, measurement, control
  <2>2. CASE Nominal(u) # {}
    <3>1. PICK k : k = AnyOf(Nominal(u))
      OBVIOUS
    <3>2. characteristics' = [characteristics EXCEPT ![k].value = New]
      BY <1>9, <2>2, <3>1 DEF SetNominalMax
    <3>3. k \in DOMAIN characteristics
      BY <2>2, <3>1, AnyOfFound DEF Nominal
    <3>4. PICK c, p, t, v : characteristics[k] = [connection |-> c, parameter |-> p, type |-> t, value |-> v]
      BY <3>3 DEF OwnInv, Entries
    <3>5. /\ DOMAIN characteristics' = DOMAIN characteristics
          /\ characteristics'[k] = [connection |-> c, parameter |-> p, type |-> t, value |-> New]
          /\ \A j \in DOMAIN characteristics : j # k => characteristics'[j] = characteristics[j]
      BY <3>2, <3>3, <3>4
    <3>6. \A j \in DOMAIN characteristics :
            /\ characteristics'[j].type = characteristics[j].type
            /\ characteristics'[j].connection = characteristics[j].connection
            /\ characteristics'[j].parameter = characteristics[j].parameter
      BY <3>4, <3>5
    <3> QED  BY <2>1, <3>5, <3>6, KUnchanged
  <2>3. CASE Nominal(u) = {}
    <3>1. characteristics' = characteristics
      BY <1>9, <2>3 DEF SetNominalMax
    <3> QED  BY <2>1, <3>1, KUnchanged
  <2> QED  BY <2>2, <2>3
<1>10. CASE UNCHANGED vars
  BY <1>10, KUnchanged DEF vars, usecase, measurement, connection, control
<1> QED  BY <1>1, <1>2, <1>3, <1>4, <1>5, <1>6, <1>7, <1>8, <1>9, <1>10 DEF Next

\* Whatever was added in whatever order, limits refer to the total power of the
\* one monitor that was added with it before, and else to no measurement at all.
THEOREM LimitsMeasured == Spec => []LimitMeasured
<1>1. Init => Types /\ OwnInv /\ KInv
  BY TInit, OInit, KInit
<1>2. MInv /\ Types /\ OwnInv /\ KInv /\ [Next]_vars => Types' /\ OwnInv' /\ KInv'
  BY TStep, OStep, KStep
<1>3. MInv /\ OwnInv /\ KInv => LimitMeasured
  <2> SUFFICES ASSUME MInv, OwnInv, KInv, NEW l \in DOMAIN limits, NEW u, u = limits[l].direction
               PROVE  IF Cardinality(TotalsBefore(u)) = 1
                        THEN \A m \in TotalsBefore(u) :
                               /\ limits[l].measurement = ids[m][Total]
                               /\ Cardinality({i \in DOMAIN order : order[i] \in Monitors}) = 1 =>
                                    Characterised(u, m)
                        ELSE limits[l].measurement \notin DOMAIN descriptions
    BY DEF LimitMeasured, Characterised
  <2>1. defaultPowerTotalMeasurementId \notin DOMAIN descriptions
    BY FewDescriptions DEF KInv, OwnInv
  <2>2. IsFiniteSet(TotalsBefore(u)) /\ TotalsBefore(u) \subseteq Monitors
    <3>1. IsFiniteSet(Monitors)
      <4>1. IsFiniteSet({"MPC"}) /\ {"MPC"} \cup {"MGCP"} = Monitors
        BY FS_Singleton DEF Monitors
      <4> QED  BY <4>1, FS_AddElement
    <3>2. TotalsBefore(u) \subseteq Monitors
      BY DEF TotalsBefore
    <3> QED  BY <3>1, <3>2, FS_Subset
  <2>3. Cardinality(TotalsBefore(u)) = 1 <=> \E m : TotalsBefore(u) = {m}
    BY <2>2, FS_Singleton
  <2>4. Cardinality({i \in DOMAIN order : order[i] \in Monitors}) = 1 => OneMonitor
    <3>1. DOMAIN order = 1 .. Len(order) /\ Len(order) \in Int
      BY DEF MInv, Adders
    <3>2. IsFiniteSet(1 .. Len(order))
      BY <3>1, FS_Interval
    <3>3. IsFiniteSet({i \in DOMAIN order : order[i] \in Monitors})
      BY <3>1, <3>2, FS_Subset
    <3> QED  BY <3>3, FS_Singleton DEF OneMonitor
  <2>5. Refers(l)
    BY DEF KInv
  <2> QED  BY <2>1, <2>2, <2>3, <2>4, <2>5 DEF Refers
<1> QED  BY <1>1, <1>2, <1>3, MeasuredInductive, PTL DEF Spec
===============================================================================
