--------------------------- MODULE RemoteData_proofs ---------------------------
(***************************************************************************)
(* The invariants of RemoteData hold for every combination of use cases    *)
(* whose tables have what RemoteData assumes of them, and for any number   *)
(* of changes, writes and functions that the device does not offer.        *)
(*                                                                         *)
(* The wire keeps the order of messages: what every connect method sends   *)
(* first is done before anything that comes after it is answered, however  *)
(* the use cases interleave (Ordered). A function whose first value was a  *)
(* notification was not answered, but its feature was subscribed, and the  *)
(* subscription is a message like the others. All steps are first reduced  *)
(* to their Effects on the wire and on what is done, known and waiting;    *)
(* the invariants are proved from these.                                   *)
(***************************************************************************)
EXTENDS RemoteData, SequenceLemmas, FiniteSetTheorems

-----------------------------------------------------------------------------
\* The inductive invariant.

\* The functions of the features that are there, and the messages.
Offered == {fn \in FunctionTypes : FeatureOf[fn] \in features}

Plain == UNION {About(f) : f \in FeatureTypes}
WriteMessages(us) ==
  UNION {{WriteOf(u, w) : w \in DOMAIN UseCases[u].writes} : u \in us}
Messages == Plain \cup WriteMessages(using)

\* Where the messages on the wire are.
WritesIn(q) == {i \in 1 .. Len(q) : q[i].kind = "write"}
On(m)  == \E i \in 1 .. Len(wire) : wire[i] = m

\* A message on the wire was sent for something that is there.
Posted(m) ==
  /\ m.kind = "subscribe" => m.feature \in subscribed
  /\ m.kind = "bind" => m.feature \in bound
  /\ m.kind = "read" => Readable(m)
  /\ m.kind = "write" => m.feature \in features

\* Updates, and a bag of them.
Updates == [use : using, function : FunctionTypes, notified : BOOLEAN]
IsBag(b) == \A e \in DOMAIN b : b[e] \in Nat /\ b[e] > 0

\* The type of the state: TypeOK, with the trouble counted once it is on its way.
Setting ==
  /\ using \in Uses
  /\ features \in {Clients(using), Clients(using) \cap Required(using)}
  /\ missing \subseteq Handled(using) /\ IsFiniteSet(missing)
Versions ==
  /\ changes \in Nat /\ changes + Cardinality(missing) <= MaxTrouble[using]
  /\ device \in [Offered -> Nat \ {0}] /\ cache \in [Offered -> Nat]
  /\ \A fn \in Offered :
       cache[fn] <= device[fn] /\ device[fn] + Cardinality(WritesIn(wire)) <= 1 + changes
Links ==
  /\ notifies \subseteq subscribed /\ binds \subseteq bound
  /\ subscribed \subseteq features /\ bound \subseteq features
Wired == wire \in Seq(Messages) /\ \A i \in 1 .. Len(wire) : Posted(wire[i])
Advancing ==
  /\ connecting \in [using -> Nat]
  /\ \A u \in using : connecting[u] <= Len(UseCases[u].connected)
Waiting ==
  /\ IsBag(handlers) /\ DOMAIN handlers \subseteq Updates
  /\ \A h \in DOMAIN handlers :
       h.function \in DOMAIN UseCases[h.use].handlers /\ Cached({h.function})
Reported ==
  current \cup unread \subseteq UNION {{<<u, t.event>> : t \in Declared[u]} : u \in using}
Pushes == pushed \subseteq Offered /\ \A fn \in pushed : FeatureOf[fn] \in notifies /\ Cached({fn})

TInv == Setting /\ Versions /\ Links /\ Wired /\ Advancing /\ Waiting /\ Reported /\ Pushes

\* What a message is for has been done; a read was answered.
Done(m) ==
  \/ m.kind = "subscribe" /\ m.feature \in notifies
  \/ m.kind = "bind" /\ m.feature \in binds
  \/ m.kind = "read" /\ Cached({m.function})
Answered(m) == Done(m) /\ (m.kind = "read" => m.function \notin pushed)

\* On the way from a use case to the device, m stays before the messages in later.
Ordered(m, later) ==
  /\ \A i \in 1 .. Len(wire) : wire[i] \in later => Done(m) \/ \E j \in 1 .. i - 1 : wire[j] = m
  /\ \A u \in using : \A j \in 1 .. connecting[u] :
       UseCases[u].connected[j] = m => Done(m) \/ On(m)
  /\ \A x \in later : Answered(x) => Done(m)

SentInv ==
  /\ \A f \in subscribed : f \in notifies \/ On(Subscribe(f))
  /\ \A f \in bound : f \in binds \/ On(Bind(f))
LedInv ==
  \A n \in FunctionTypes, f \in FeatureTypes :
    Leads(using, n, f) /\ Readable(Read(n)) => Ordered(Read(n), About(f))
SubscribedInv ==
  \A f \in features : Subscribed(using, f) => Ordered(Subscribe(f), ReadsAt(f))
BoundInv ==
  \A n \in Offered : BoundFirst(using, n) => Ordered(Bind(FeatureOf[n]), {Read(n)})
FreshInv ==
  \A fn \in Offered : Subscribed(using, FeatureOf[fn]) /\ cache[fn] > 0 => cache[fn] = device[fn]
WriteInv ==
  \A i \in 1 .. Len(wire) :
    (/\ wire[i].kind = "write" /\ wire[i].use \notin Unbinding
     /\ wire[i].needs \cap pushed = {}) => wire[i].feature \in binds

\* A function will be read; an update of it waits for its handler; an event is
\* known.
Coming(n) ==
  \/ On(Read(n))
  \/ \E u \in using : \E k \in 1 .. Len(UseCases[u].connected) :
       k > connecting[u] /\ UseCases[u].connected[k] = Read(n)
Pending(u, fn) == \E h \in DOMAIN handlers : h.use = u /\ h.function = fn
Known(u, t) == Cached({t.function}) /\ <<u, t.event>> \in current

Looked(t) == {t.function} \cup t.checks \cup t.needs
Owed(u, t) ==
  ~t.notified /\ <<u, t.event>> \notin Excused /\ \A fn \in Looked(t) : Readable(Read(fn))

\* What a connect method asks for comes, is handled and told, and what the handler
\* of another function asks for does so once that is there.
DirectInv ==
  \A u \in using : \A t \in Declared[u] :
    (/\ Owed(u, t) /\ Asked(using, t.function)
     /\ \A n \in Looked(t) : n = t.function \/ Leads(using, n, FeatureOf[t.function]))
      => Coming(t.function) \/ Pending(u, t.function) \/ Known(u, t)
ChainInv ==
  \A u \in using : \A t \in Declared[u] : \A by \in Looked(t), v \in using :
    (/\ Owed(u, t) /\ Asked(using, by) /\ Triggers(v, by, t.function)
     /\ \A n \in Looked(t) :
          n \in {by, t.function} \/ Leads(using, n, FeatureOf[t.function]))
      => \/ Coming(by) \/ Pending(v, by)
         \/ Cached({by}) /\ (On(Read(t.function)) \/ Pending(u, t.function) \/ Known(u, t))
AskedInv ==
  \A n \in Offered \ missing : Asked(using, n) => Coming(n) \/ Cached({n})
TriggeredInv ==
  \A by, n \in Offered \ missing : \A v \in using :
    Asked(using, by) /\ Triggers(v, by, n) =>
      Coming(by) \/ Pending(v, by) \/ On(Read(n)) \/ Cached({n})

-----------------------------------------------------------------------------
\* What a step does, as far as the invariants tell steps apart.

\* Queue p is queue q after t of its elements were taken and some of those in N put.
Follows(p, q, t, N) ==
  /\ \A k \in 1 .. Len(q) : k > t => k - t \in 1 .. Len(p) /\ p[k - t] = q[k]
  /\ \A k \in 1 .. Len(p) : \/ k + t \in 1 .. Len(q) /\ p[k] = q[k + t]
                            \/ k + t > Len(q) /\ p[k] \in N

\* What a step may put on the wire.
NextOf(u) ==
  {UseCases[u].connected[k] : k \in {j \in 1 .. Len(UseCases[u].connected) : j = connecting[u] + 1}}
Requested(u) == {Read(n) : n \in {fn \in FunctionTypes :
                   \E by \in FunctionTypes : Triggers(u, by, fn) /\ Cached({by})}}
ReadAgain(u) == {Read(n) : n \in {fn \in FunctionTypes : Repeats(u, fn)}}
Writable(u) ==
  {WriteOf(u, w) : w \in {v \in DOMAIN UseCases[u].writes : Cached(UseCases[u].writes[v].needs)}}
Fresh == UNION {NextOf(u) \cup Requested(u) \cup ReadAgain(u) \cup Writable(u) : u \in using}

\* What is done stays done, and a function is pushed only to a subscriber.
Grown ==
  /\ notifies \subseteq notifies' /\ binds \subseteq binds' /\ pushed \subseteq pushed'
  /\ \A fn \in Offered : cache[fn] > 0 => cache'[fn] > 0
  /\ \A fn \in pushed' : fn \in pushed \/ FeatureOf[fn] \in notifies

\* What becomes of the message that is taken, and of nothing else.
Delivered(m) ==
  /\ m \in Plain => Done(m)'
  /\ m.kind = "read" =>
       \A u \in using : m.function \in DOMAIN UseCases[u].handlers => Pending(u, m.function)'
Credited(t) == \A m \in Plain : Answered(m)' => Answered(m) \/ (t = 1 /\ m = wire[1])

\* A connect method goes on to its next message, which is sent if it has to be.
SentFor(m) ==
  /\ m.kind = "read" /\ Readable(m) => On(m)'
  /\ m.kind = "subscribe" /\ m.feature \in features => m.feature \in subscribed \/ On(m)'
  /\ m.kind = "bind" /\ m.feature \in features => m.feature \in bound \/ On(m)'
Advanced ==
  /\ \A u \in using :
       /\ connecting[u] <= connecting'[u]
       /\ \A j \in 1 .. connecting'[u] :
            j <= connecting[u] \/ (j = connecting[u] + 1 /\ SentFor(UseCases[u].connected[j]))
  /\ \A f \in subscribed' : f \in subscribed \/ On(Subscribe(f))'
  /\ \A f \in bound' : f \in bound \/ On(Bind(f))'

\* An update that waits goes on waiting, or is handled.
HandledNow(h) ==
  /\ \A n \in FunctionTypes : Triggers(h.use, h.function, n) /\ Readable(Read(n)) => On(Read(n))'
  /\ \A r \in Raised(h) :
       Cached(r.needs) /\ cache[h.function] = device[h.function] => <<r.use, r.event>> \in current'
Handling == \A h \in DOMAIN handlers : h \in DOMAIN handlers' \/ HandledNow(h)

\* What the application knows is forgotten by an update of its function only, and
\* it finds nothing missing but in an event that is raised.
Kept ==
  \A u \in using : \A t \in Declared[u] : <<u, t.event>> \in current =>
    \/ <<u, t.event>> \in current'
    \/ \E r \in Declared[u] :
         /\ r.event = t.event
         /\ FeatureOf[r.function] \in notifies /\ r.function \in DOMAIN UseCases[u].handlers
              => Pending(u, r.function)'
Missed ==
  \A k \in unread' : k \in unread \/ \E h \in DOMAIN handlers : \E r \in Raised(h) :
    k = <<r.use, r.event>> /\ ~Cached(r.needs)

\* The cache follows the device where the device notifies.
Followed ==
  \A fn \in Offered :
    \/ cache'[fn] = cache[fn] /\ device'[fn] = device[fn]
    \/ cache'[fn] = device'[fn]
    \/ cache'[fn] = cache[fn] /\ FeatureOf[fn] \notin notifies

\* A message can be on the wire in the next state.
PostedNext(m) ==
  /\ m.kind = "subscribe" => m.feature \in subscribed'
  /\ m.kind = "bind" => m.feature \in bound'
  /\ m.kind = "read" => Readable(m)
  /\ m.kind = "write" => m.feature \in features

\* What every step does, t of the messages taken.
Effects(t) ==
  /\ t \in {0, 1} /\ (t = 1 => 1 \in 1 .. Len(wire) /\ \E m : m = wire[1] /\ Delivered(m))
  /\ UNCHANGED fixed
  /\ Follows(wire', wire, t, Fresh)
  /\ Grown /\ Credited(t) /\ Advanced /\ Handling /\ Kept /\ Missed /\ Followed

-----------------------------------------------------------------------------
\* Functions, bags and queues.

\* A set that is written down is finite.
LEMMA Few ==
  /\ \A a : IsFiniteSet({a})
  /\ \A a, b : IsFiniteSet({a, b})
  /\ \A a, b, c : IsFiniteSet({a, b, c})
  /\ \A a, b, c, d : IsFiniteSet({a, b, c, d})
  /\ \A a, b, c, d, e : IsFiniteSet({a, b, c, d, e})
  /\ \A a, b, c, d, e, f : IsFiniteSet({a, b, c, d, e, f})
  /\ \A a, b, c, d, e, f, g : IsFiniteSet({a, b, c, d, e, f, g})
<1>1. \A a : IsFiniteSet({a})
  BY FS_Singleton
<1>2. ASSUME NEW a, NEW b PROVE IsFiniteSet({a, b})
  <2>1. IsFiniteSet({a} \cup {b})
    BY <1>1, FS_AddElement
  <2>2. {a} \cup {b} = {a, b}
    OBVIOUS
  <2> QED  BY <2>1, <2>2
<1>3. ASSUME NEW a, NEW b, NEW c PROVE IsFiniteSet({a, b, c})
  <2>1. IsFiniteSet({a, b} \cup {c})
    BY <1>2, FS_AddElement
  <2>2. {a, b} \cup {c} = {a, b, c}
    OBVIOUS
  <2> QED  BY <2>1, <2>2
<1>4. ASSUME NEW a, NEW b, NEW c, NEW d PROVE IsFiniteSet({a, b, c, d})
  <2>1. IsFiniteSet({a, b, c} \cup {d})
    BY <1>3, FS_AddElement
  <2>2. {a, b, c} \cup {d} = {a, b, c, d}
    OBVIOUS
  <2> QED  BY <2>1, <2>2
<1>5. ASSUME NEW a, NEW b, NEW c, NEW d, NEW e PROVE IsFiniteSet({a, b, c, d, e})
  <2>1. IsFiniteSet({a, b, c, d} \cup {e})
    BY <1>4, FS_AddElement
  <2>2. {a, b, c, d} \cup {e} = {a, b, c, d, e}
    OBVIOUS
  <2> QED  BY <2>1, <2>2
<1>6. ASSUME NEW a, NEW b, NEW c, NEW d, NEW e, NEW f PROVE IsFiniteSet({a, b, c, d, e, f})
  <2>1. IsFiniteSet({a, b, c, d, e} \cup {f})
    BY <1>5, FS_AddElement
  <2>2. {a, b, c, d, e} \cup {f} = {a, b, c, d, e, f}
    OBVIOUS
  <2> QED  BY <2>1, <2>2
<1>7. ASSUME NEW a, NEW b, NEW c, NEW d, NEW e, NEW f, NEW g PROVE IsFiniteSet({a, b, c, d, e, f, g})
  <2>1. IsFiniteSet({a, b, c, d, e, f} \cup {g})
    BY <1>6, FS_AddElement
  <2>2. {a, b, c, d, e, f} \cup {g} = {a, b, c, d, e, f, g}
    OBVIOUS
  <2> QED  BY <2>1, <2>2
<1> QED  BY <1>1, <1>2, <1>3, <1>4, <1>5, <1>6, <1>7

\* There are finitely many functions.
LEMMA FewFunctions == IsFiniteSet(FunctionTypes)
<1>1. FeatureTypes = {"LoadControl", "DeviceConfiguration", "ElectricalConnection", "Measurement",
        "DeviceDiagnosis", "DeviceClassification", "Identification", "TimeSeries", "IncentiveTable",
        "SmartEnergyManagementPs", "Hvac", "Setpoint"}
  BY DEF FeatureTypes, FunctionsOf
<1>2. FunctionTypes =
        (((LoadControlFunctions \cup DeviceConfigurationFunctions)
           \cup (ElectricalConnectionFunctions \cup MeasurementFunctions))
          \cup ((DeviceDiagnosisFunctions \cup DeviceClassificationFunctions)
            \cup (IdentificationFunctions \cup TimeSeriesFunctions)))
        \cup ((IncentiveTableFunctions \cup SmartEnergyManagementPsFunctions)
          \cup (HvacFunctions \cup SetpointFunctions))
  BY <1>1 DEF FunctionTypes, FunctionsOf
<1>3. /\ IsFiniteSet(LoadControlFunctions) /\ IsFiniteSet(DeviceConfigurationFunctions)
      /\ IsFiniteSet(ElectricalConnectionFunctions) /\ IsFiniteSet(MeasurementFunctions)
  BY Few DEF LoadControlFunctions, DeviceConfigurationFunctions, ElectricalConnectionFunctions,
             MeasurementFunctions
<1>4. /\ IsFiniteSet(DeviceDiagnosisFunctions) /\ IsFiniteSet(DeviceClassificationFunctions)
      /\ IsFiniteSet(IdentificationFunctions) /\ IsFiniteSet(TimeSeriesFunctions)
  BY Few DEF DeviceDiagnosisFunctions, DeviceClassificationFunctions, IdentificationFunctions,
             TimeSeriesFunctions
<1>5. /\ IsFiniteSet(IncentiveTableFunctions) /\ IsFiniteSet(SmartEnergyManagementPsFunctions)
      /\ IsFiniteSet(HvacFunctions) /\ IsFiniteSet(SetpointFunctions)
  BY Few DEF IncentiveTableFunctions, SmartEnergyManagementPsFunctions, HvacFunctions,
             SetpointFunctions
<1>6. \A S, T : IsFiniteSet(S) /\ IsFiniteSet(T) => IsFiniteSet(S \cup T)
  BY FS_Union
<1>7. /\ IsFiniteSet(LoadControlFunctions \cup DeviceConfigurationFunctions)
      /\ IsFiniteSet(ElectricalConnectionFunctions \cup MeasurementFunctions)
      /\ IsFiniteSet(DeviceDiagnosisFunctions \cup DeviceClassificationFunctions)
      /\ IsFiniteSet(IdentificationFunctions \cup TimeSeriesFunctions)
      /\ IsFiniteSet(IncentiveTableFunctions \cup SmartEnergyManagementPsFunctions)
      /\ IsFiniteSet(HvacFunctions \cup SetpointFunctions)
  BY <1>3, <1>4, <1>5, <1>6
<1> QED  BY <1>2, <1>6, <1>7

\* No function belongs to two features.
LEMMA OneHome == \A f \in FeatureTypes : FunctionsAt(f) = FunctionsOf[f]
<1>1. \A f, g \in FeatureTypes : \A fn \in FunctionsOf[f] : fn \in FunctionsOf[g] => f = g
  BY SMTT(60) DEF FeatureTypes, FunctionsOf, LoadControlFunctions, DeviceConfigurationFunctions,
     ElectricalConnectionFunctions, MeasurementFunctions, DeviceDiagnosisFunctions,
     DeviceClassificationFunctions, IdentificationFunctions, TimeSeriesFunctions,
     IncentiveTableFunctions, SmartEnergyManagementPsFunctions, HvacFunctions, SetpointFunctions
<1>2. \A f \in FeatureTypes : \A fn \in FunctionsOf[f] : fn \in FunctionTypes /\ FeatureOf[fn] = f
  BY <1>1 DEF FeatureOf, FunctionTypes
<1>3. \A fn \in FunctionTypes : FeatureOf[fn] \in FeatureTypes /\ fn \in FunctionsOf[FeatureOf[fn]]
  BY DEF FeatureOf, FunctionTypes
<1> QED  BY <1>2, <1>3 DEF FunctionsAt

\* The places of the elements of a set of numbers, counted from the least.
Rank(at, i) == Cardinality({j \in at : j <= i})

\* Every place is taken by one element.
LEMMA Ranked ==
  ASSUME NEW n \in Nat, NEW at \in SUBSET (1 .. n)
  PROVE  /\ Cardinality(at) \in Nat
         /\ \A i \in at : Rank(at, i) \in 1 .. Cardinality(at)
         /\ \A i, j \in at : Rank(at, i) = Rank(at, j) => i = j
         /\ \A k \in 1 .. Cardinality(at) : \E i \in at : Rank(at, i) = k
<1>1. IsFiniteSet(at) /\ Cardinality(at) \in Nat
  <2>1. IsFiniteSet(1 .. n)
    BY FS_Interval
  <2>2. IsFiniteSet(at)
    BY <2>1, FS_Subset
  <2> QED  BY <2>2, FS_CardinalityType
<1>2. ASSUME NEW i \in at
      PROVE  Rank(at, i) \in 1 .. Cardinality(at)
  <2> DEFINE upto == {j \in at : j <= i}
  <2>1. IsFiniteSet(upto) /\ Cardinality(upto) \in Nat /\ Cardinality(upto) <= Cardinality(at)
    BY <1>1, FS_Subset, FS_CardinalityType
  <2>2. i \in upto
    OBVIOUS
  <2>3. Cardinality(upto) # 0
    BY <2>1, <2>2, FS_EmptySet
  <2> QED  BY <1>1, <2>1, <2>3 DEF Rank
<1>3. ASSUME NEW i \in at, NEW j \in at, i < j
      PROVE  Rank(at, i) < Rank(at, j)
  <2> DEFINE low == {k \in at : k <= i}
             high == {k \in at : k <= j}
  <2>1. IsFiniteSet(high) /\ Cardinality(high) \in Nat
    BY <1>1, FS_Subset, FS_CardinalityType
  <2>2. IsFiniteSet(high \ {j}) /\ Cardinality(high \ {j}) = Cardinality(high) - 1
    <3>1. j \in high
      OBVIOUS
    <3> QED  BY <2>1, <3>1, FS_RemoveElement
  <2>3. low \in SUBSET (high \ {j})
    <3>1. i \in Int /\ j \in Int /\ \A k \in at : k \in Int
      OBVIOUS
    <3>2. ASSUME NEW k \in low
          PROVE  k \in at /\ k <= j /\ k # j
      <4>1. k \in at /\ k <= i /\ k \in Int
        BY <3>1
      <4> QED  BY <1>3, <3>1, <4>1
    <3> QED  BY <3>2
  <2>4. Cardinality(low) <= Cardinality(high \ {j}) /\ Cardinality(low) \in Nat
    BY <2>2, <2>3, FS_Subset, FS_CardinalityType
  <2> QED  BY <2>1, <2>2, <2>4 DEF Rank
<1>4. \A i, j \in at : Rank(at, i) = Rank(at, j) => i = j
  <2> SUFFICES ASSUME NEW i \in at, NEW j \in at, Rank(at, i) = Rank(at, j)
               PROVE  i = j
    OBVIOUS
  <2>1. ~(i < j) /\ ~(j < i)
    BY <1>2, <1>3
  <2> QED  BY <2>1
<1>5. \A k \in 1 .. Cardinality(at) : \E i \in at : Rank(at, i) = k
  <2> DEFINE f == [i \in at |-> Rank(at, i)]
             places == 1 .. Cardinality(at)
  <2>1. IsFiniteSet(places) /\ Cardinality(places) = Cardinality(at)
    <3>1. Cardinality(at) \in Int /\ 1 \in Int
      BY <1>1
    <3>2. IsFiniteSet(places) /\ Cardinality(places) = IF 1 > Cardinality(at) THEN 0 ELSE Cardinality(at) - 1 + 1
      BY <3>1, FS_Interval
    <3> QED  BY <1>1, <3>2
  <2>2. f \in Injection(at, places)
    <3>1. f \in [at -> places] /\ \A i \in at : f[i] = Rank(at, i)
      BY <1>2
    <3> HIDE DEF f, places
    <3> QED  BY <1>4, <3>1 DEF Injection, IsInjective
  <2>3. f \in Surjection(at, places)
    <3> HIDE DEF f, places
    <3> QED  BY <2>1, <2>2, FS_Injection
  <2> QED  BY <2>3 DEF Surjection
<1> QED  BY <1>1, <1>2, <1>4, <1>5

\* What is requested: every function that can be read, and nothing else.
LEMMA RequestsAre ==
  ASSUME NEW f, NEW fns \in Seq(FunctionsAt(f))
  PROVE  /\ Requests(fns) \in Seq(ReadsAt(f))
         /\ \A k \in 1 .. Len(Requests(fns)) :
              \E i \in DOMAIN fns : Requests(fns)[k] = Read(fns[i]) /\ Readable(Read(fns[i]))
         /\ \A i \in DOMAIN fns :
              Readable(Read(fns[i])) => \E k \in 1 .. Len(Requests(fns)) : Requests(fns)[k] = Read(fns[i])
<1> DEFINE sent == {i \in DOMAIN fns : Sent(Read(fns[i]))}
           nth(k) == CHOOSE i \in sent : Cardinality({j \in sent : j <= i}) = k
           seq == [k \in 1 .. Cardinality(sent) |-> Read(fns[nth(k)])]
<1>1. Len(fns) \in Nat /\ DOMAIN fns = 1 .. Len(fns) /\ \A i \in DOMAIN fns : fns[i] \in FunctionsAt(f)
  BY LenProperties
<1>2. sent \in SUBSET (1 .. Len(fns))
  BY <1>1
<1>3. /\ Cardinality(sent) \in Nat
      /\ \A i \in sent : Rank(sent, i) \in 1 .. Cardinality(sent)
      /\ \A i, j \in sent : Rank(sent, i) = Rank(sent, j) => i = j
      /\ \A k \in 1 .. Cardinality(sent) : \E i \in sent : Rank(sent, i) = k
  <2> HIDE DEF sent
  <2> QED  BY <1>1, <1>2, Ranked
<1>4. \A k \in 1 .. Cardinality(sent) : nth(k) \in sent /\ Rank(sent, nth(k)) = k
  <2> HIDE DEF sent
  <2> QED  BY <1>3 DEF Rank
<1>5. \A i \in sent : nth(Rank(sent, i)) = i
  <2> HIDE DEF sent, nth
  <2> QED  BY <1>3, <1>4
<1>6. \A i \in DOMAIN fns : Sent(Read(fns[i])) <=> Readable(Read(fns[i]))
  BY DEF Sent, Read, Message
<1>7. seq \in [1 .. Cardinality(sent) -> ReadsAt(f)]
  <2>1. \A k \in 1 .. Cardinality(sent) : Read(fns[nth(k)]) \in ReadsAt(f)
    <3> HIDE DEF nth
    <3> QED  BY <1>1, <1>4 DEF ReadsAt
  <2> HIDE DEF nth, sent
  <2> QED  BY <2>1
<1>8. seq \in Seq(ReadsAt(f)) /\ Len(seq) = Cardinality(sent)
  <2> HIDE DEF seq, sent
  <2> QED  BY <1>3, <1>7, FunctionIsSeq
<1>9. Requests(fns) = seq
  BY DEF Requests
<1>10. \A k \in 1 .. Len(seq) :
         \E i \in DOMAIN fns : seq[k] = Read(fns[i]) /\ Readable(Read(fns[i]))
  <2> SUFFICES ASSUME NEW k \in 1 .. Len(seq)
               PROVE  \E i \in DOMAIN fns : seq[k] = Read(fns[i]) /\ Readable(Read(fns[i]))
    OBVIOUS
  <2>1. nth(k) \in sent /\ seq[k] = Read(fns[nth(k)])
    <3>1. k \in 1 .. Cardinality(sent)
      BY <1>8
    <3>2. nth(k) \in sent
      BY <1>4, <3>1
    <3> HIDE DEF nth, sent
    <3> QED  BY <3>1, <3>2
  <2> HIDE DEF nth, seq
  <2> QED  BY <1>6, <2>1
<1>11. \A i \in DOMAIN fns : Readable(Read(fns[i])) => \E k \in 1 .. Len(seq) : seq[k] = Read(fns[i])
  <2> SUFFICES ASSUME NEW i \in DOMAIN fns, Readable(Read(fns[i]))
               PROVE  \E k \in 1 .. Len(seq) : seq[k] = Read(fns[i])
    OBVIOUS
  <2>1. i \in sent
    BY <1>6
  <2>2. Rank(sent, i) \in 1 .. Cardinality(sent) /\ nth(Rank(sent, i)) = i
    <3> HIDE DEF nth, sent
    <3> QED  BY <1>3, <1>5, <2>1
  <2>3. seq[Rank(sent, i)] = Read(fns[i])
    <3> HIDE DEF nth, sent
    <3> QED  BY <2>2
  <2> HIDE DEF nth, seq, sent
  <2> QED  BY <1>8, <2>2, <2>3
<1> HIDE DEF seq
<1> QED  BY <1>8, <1>9, <1>10, <1>11

\* One copy of an update that waits is taken, every other is still there.
LEMMA Dropped ==
  ASSUME NEW b, IsBag(b), NEW h \in DOMAIN b
  PROVE  /\ IsBag(b (-) SetToBag({h}))
         /\ DOMAIN (b (-) SetToBag({h})) \subseteq DOMAIN b
         /\ \A g \in DOMAIN b : g # h => g \in DOMAIN (b (-) SetToBag({h}))
<1> DEFINE c == [e \in DOMAIN b |-> IF e \in {h} THEN b[e] - 1 ELSE b[e]]
<1>1. b (-) SetToBag({h}) = [e \in {d \in DOMAIN c : c[d] > 0} |-> c[e]]
  BY DEF (-), SetToBag
<1>2. \A e \in DOMAIN b : c[e] \in Int /\ (e # h => c[e] = b[e])
  BY DEF IsBag
<1>3. DOMAIN c = DOMAIN b
  OBVIOUS
<1> HIDE DEF c
<1>4. DOMAIN (b (-) SetToBag({h})) = {d \in DOMAIN b : c[d] > 0}
  BY <1>1, <1>3
<1>5. \A e \in DOMAIN (b (-) SetToBag({h})) : (b (-) SetToBag({h}))[e] = c[e]
  BY <1>1, <1>4
<1>6. IsBag(b (-) SetToBag({h}))
  BY <1>2, <1>4, <1>5 DEF IsBag
<1>7. \A g \in DOMAIN b : g # h => c[g] > 0
  BY <1>2 DEF IsBag
<1> QED  BY <1>4, <1>6, <1>7

\* Updates that are added are there, with those that were.
LEMMA Added ==
  ASSUME NEW b, IsBag(b), NEW S
  PROVE  IsBag(b (+) SetToBag(S)) /\ DOMAIN (b (+) SetToBag(S)) = DOMAIN b \cup S
<1>1. DOMAIN SetToBag(S) = S /\ \A e \in S : SetToBag(S)[e] = 1
  BY DEF SetToBag
<1>2. DOMAIN (b (+) SetToBag(S)) = DOMAIN b \cup S
  BY <1>1 DEF (+)
<1>3. ASSUME NEW e \in DOMAIN b \cup S
      PROVE  (b (+) SetToBag(S))[e] \in Nat /\ (b (+) SetToBag(S))[e] > 0
  <2>1. (b (+) SetToBag(S))[e] =
          (IF e \in DOMAIN b THEN b[e] ELSE 0) + (IF e \in S THEN 1 ELSE 0)
    BY <1>1 DEF (+)
  <2> QED  BY <2>1 DEF IsBag
<1> QED  BY <1>2, <1>3 DEF IsBag

\* Nothing is in the empty bag.
LEMMA Empty == IsBag(EmptyBag) /\ DOMAIN EmptyBag = {}
BY DEF EmptyBag, SetToBag, IsBag

\* A write that is appended counts once, and one that is taken no more; requests
\* do not count.
LEMMA Counted ==
  ASSUME NEW S, NEW q \in Seq(S)
  PROVE  /\ IsFiniteSet(WritesIn(q)) /\ Cardinality(WritesIn(q)) \in Nat
         /\ \A m \in S : Cardinality(WritesIn(Append(q, m))) =
              IF m.kind = "write" THEN Cardinality(WritesIn(q)) + 1 ELSE Cardinality(WritesIn(q))
         /\ \A r \in Seq(S) : (\A k \in 1 .. Len(r) : r[k].kind # "write") =>
              Cardinality(WritesIn(q \o r)) = Cardinality(WritesIn(q))
         /\ q # <<>> => Cardinality(WritesIn(Tail(q))) =
              IF Head(q).kind = "write" THEN Cardinality(WritesIn(q)) - 1 ELSE Cardinality(WritesIn(q))
<1>1. Len(q) \in Nat /\ Len(q) \in Int /\ 1 \in Int
  BY LenProperties
<1>2. IsFiniteSet(WritesIn(q)) /\ Cardinality(WritesIn(q)) \in Nat
  <2>1. IsFiniteSet(1 .. Len(q))
    BY <1>1, FS_Interval
  <2>2. WritesIn(q) \in SUBSET (1 .. Len(q))
    BY DEF WritesIn
  <2>3. IsFiniteSet(WritesIn(q))
    BY <2>1, <2>2, FS_Subset
  <2> QED  BY <2>3, FS_CardinalityType
<1>3. ASSUME NEW m \in S
      PROVE  Cardinality(WritesIn(Append(q, m))) =
               IF m.kind = "write" THEN Cardinality(WritesIn(q)) + 1 ELSE Cardinality(WritesIn(q))
  <2>1. /\ Len(Append(q, m)) = Len(q) + 1
        /\ \A k \in 1 .. Len(q) : Append(q, m)[k] = q[k]
        /\ Append(q, m)[Len(q) + 1] = m
    BY AppendProperties
  <2>2. \A k : k \in 1 .. (Len(q) + 1) <=> k \in 1 .. Len(q) \/ k = Len(q) + 1
    BY <1>1
  <2>3. Len(q) + 1 \notin WritesIn(q)
    BY <1>1 DEF WritesIn
  <2>4. CASE m.kind = "write"
    <3>1. WritesIn(Append(q, m)) = WritesIn(q) \cup {Len(q) + 1}
      BY <2>1, <2>2, <2>4 DEF WritesIn
    <3> QED  BY <1>2, <2>3, <2>4, <3>1, FS_AddElement
  <2>5. CASE m.kind # "write"
    <3>1. WritesIn(Append(q, m)) = WritesIn(q)
      BY <2>1, <2>2, <2>5 DEF WritesIn
    <3> QED  BY <2>5, <3>1
  <2> QED  BY <2>4, <2>5
<1>4. ASSUME NEW r \in Seq(S), \A k \in 1 .. Len(r) : r[k].kind # "write"
      PROVE  Cardinality(WritesIn(q \o r)) = Cardinality(WritesIn(q))
  <2>1. /\ Len(r) \in Nat /\ Len(q \o r) = Len(q) + Len(r)
        /\ \A k \in 1 .. Len(q) + Len(r) :
             (q \o r)[k] = IF k <= Len(q) THEN q[k] ELSE r[k - Len(q)]
    BY LenProperties, ConcatProperties
  <2>2. ASSUME NEW k \in 1 .. Len(q)
        PROVE  k \in 1 .. Len(q \o r) /\ (q \o r)[k] = q[k]
    BY <1>1, <2>1
  <2>3. ASSUME NEW k \in 1 .. Len(q \o r), k \notin 1 .. Len(q)
        PROVE  (q \o r)[k].kind # "write"
    <3>1. k - Len(q) \in 1 .. Len(r) /\ ~(k <= Len(q)) /\ k \in 1 .. Len(q) + Len(r)
      BY <1>1, <2>1, <2>3
    <3>2. (q \o r)[k] = r[k - Len(q)]
      BY <2>1, <3>1
    <3> QED  BY <1>4, <3>1, <3>2
  <2>4. WritesIn(q \o r) = WritesIn(q)
    BY <2>2, <2>3 DEF WritesIn
  <2> QED  BY <2>4
<1>5. ASSUME q # <<>>
      PROVE  Cardinality(WritesIn(Tail(q))) =
               IF Head(q).kind = "write" THEN Cardinality(WritesIn(q)) - 1 ELSE Cardinality(WritesIn(q))
  <2> DEFINE left == WritesIn(q) \ {1}
             f == [i \in left |-> i - 1]
  <2>1. /\ Head(q) = q[1] /\ 1 \in 1 .. Len(q) /\ Len(Tail(q)) = Len(q) - 1
        /\ \A k \in 1 .. Len(q) - 1 : Tail(q)[k] = q[k + 1]
    BY <1>1, <1>5, Taken, HeadTailProperties
  <2>2. \A i \in left : i \in Int /\ i > 1 /\ i <= Len(q) /\ q[i].kind = "write"
    BY <1>1 DEF WritesIn
  <2>3. \A i \in left : i - 1 \in WritesIn(Tail(q))
    <3> SUFFICES ASSUME NEW i \in left
                 PROVE  i - 1 \in WritesIn(Tail(q))
      OBVIOUS
    <3>1. i - 1 \in 1 .. Len(q) - 1 /\ (i - 1) + 1 = i /\ q[i].kind = "write"
      BY <1>1, <2>2
    <3>2. Tail(q)[i - 1] = q[i]
      BY <2>1, <3>1
    <3> QED  BY <2>1, <3>1, <3>2 DEF WritesIn
  <2>4. \A k \in WritesIn(Tail(q)) : k \in Int /\ k + 1 \in left /\ (k + 1) - 1 = k
    <3> SUFFICES ASSUME NEW k \in WritesIn(Tail(q))
                 PROVE  k \in Int /\ k + 1 \in left /\ (k + 1) - 1 = k
      OBVIOUS
    <3>1. k \in 1 .. Len(q) - 1 /\ Tail(q)[k].kind = "write"
      BY <2>1 DEF WritesIn
    <3>2. k + 1 \in 1 .. Len(q) /\ k + 1 # 1 /\ k \in Int /\ (k + 1) - 1 = k
      BY <1>1, <3>1
    <3>3. Tail(q)[k] = q[k + 1]
      BY <2>1, <3>1
    <3> QED  BY <3>1, <3>2, <3>3 DEF WritesIn
  <2>5. f \in Bijection(left, WritesIn(Tail(q)))
    <3>1. f \in [left -> WritesIn(Tail(q))] /\ DOMAIN f = left /\ \A i \in left : f[i] = i - 1
      BY <2>3
    <3>2. \A k \in WritesIn(Tail(q)) : f[k + 1] = k
      BY <2>4
    <3>3. \A i, j \in left : i - 1 = j - 1 => i = j
      BY <2>2
    <3> HIDE DEF f, left
    <3>4. f \in Injection(left, WritesIn(Tail(q)))
      BY <3>1, <3>3 DEF Injection, IsInjective
    <3>5. f \in Surjection(left, WritesIn(Tail(q)))
      BY <2>4, <3>1, <3>2 DEF Surjection
    <3> QED  BY <3>4, <3>5 DEF Bijection
  <2>6. IsFiniteSet(left) /\ Cardinality(left) =
          IF 1 \in WritesIn(q) THEN Cardinality(WritesIn(q)) - 1 ELSE Cardinality(WritesIn(q))
    BY <1>2, FS_RemoveElement
  <2>7. Cardinality(WritesIn(Tail(q))) = Cardinality(left)
    <3> HIDE DEF f, left
    <3>1. f \in Surjection(left, WritesIn(Tail(q))) /\ f \in Injection(left, WritesIn(Tail(q)))
      BY <2>5 DEF Bijection
    <3> QED  BY <2>6, <3>1, FS_Surjection
  <2>8. 1 \in WritesIn(q) <=> Head(q).kind = "write"
    BY <2>1 DEF WritesIn
  <2> HIDE DEF left
  <2> QED  BY <2>6, <2>7, <2>8
<1> QED  BY <1>2, <1>3, <1>4, <1>5

\* What is sent without content.
LEMMA PlainIs ==
  ASSUME NEW m \in Plain
  PROVE  /\ m.kind \in {"subscribe", "bind", "read"} /\ m.feature \in FeatureTypes
         /\ m.kind = "subscribe" => m = Subscribe(m.feature)
         /\ m.kind = "bind" => m = Bind(m.feature)
         /\ m.kind = "read" => /\ m.function \in FunctionTypes /\ m.feature = FeatureOf[m.function]
                               /\ m = Read(m.function)
<1>1. PICK f \in FeatureTypes : m \in About(f)
  BY DEF Plain
<1>2. CASE m = Subscribe(f)
  BY <1>2 DEF Subscribe, Message
<1>3. CASE m = Bind(f)
  BY <1>3 DEF Bind, Message
<1>4. CASE m \in ReadsAt(f)
  <2>1. PICK fn \in FunctionsAt(f) : m = Read(fn)
    BY <1>4 DEF ReadsAt
  <2>2. fn \in FunctionTypes /\ FeatureOf[fn] = f
    BY <2>1 DEF FunctionsAt
  <2>3. m.kind = "read" /\ m.feature = f /\ m.function = fn
    BY <2>1, <2>2 DEF Read, Message
  <2> QED  BY <2>1, <2>2, <2>3
<1> QED  BY <1>1, <1>2, <1>3, <1>4 DEF About

\* A write is none of these.
LEMMA WriteIs ==
  ASSUME NEW us, NEW m \in WriteMessages(us)
  PROVE  m.kind = "write" /\ \E u \in us : \E w \in DOMAIN UseCases[u].writes : m = WriteOf(u, w)
BY DEF WriteMessages, WriteOf

\* What is appended comes last.
LEMMA FollowsPut ==
  ASSUME NEW S, NEW q \in Seq(S), NEW r \in Seq(S), NEW N, \A k \in 1 .. Len(r) : r[k] \in N
  PROVE  /\ Follows(q \o r, q, 0, N)
         /\ \A k \in 1 .. Len(r) : \E i \in 1 .. Len(q \o r) : (q \o r)[i] = r[k]
<1>1. /\ Len(q) \in Nat /\ Len(r) \in Nat /\ Len(q \o r) = Len(q) + Len(r)
      /\ \A k \in 1 .. Len(q) + Len(r) :
           (q \o r)[k] = IF k <= Len(q) THEN q[k] ELSE r[k - Len(q)]
  BY LenProperties, ConcatProperties
<1>2. ASSUME NEW k \in 1 .. Len(q)
      PROVE  k - 0 \in 1 .. Len(q \o r) /\ (q \o r)[k - 0] = q[k]
  BY <1>1
<1>3. ASSUME NEW k \in 1 .. Len(q \o r)
      PROVE  \/ k + 0 \in 1 .. Len(q) /\ (q \o r)[k] = q[k + 0]
             \/ k + 0 > Len(q) /\ (q \o r)[k] \in N
  <2>1. CASE k <= Len(q)
    BY <1>1, <2>1
  <2>2. CASE k > Len(q)
    <3>1. k - Len(q) \in 1 .. Len(r) /\ (q \o r)[k] = r[k - Len(q)] /\ k + 0 > Len(q)
      BY <1>1, <2>2
    <3> QED  BY <3>1
  <2> QED  BY <1>1, <2>1, <2>2
<1>4. ASSUME NEW k \in 1 .. Len(r)
      PROVE  \E i \in 1 .. Len(q \o r) : (q \o r)[i] = r[k]
  <2>1. Len(q) + k \in 1 .. Len(q \o r) /\ ~(Len(q) + k <= Len(q)) /\ (Len(q) + k) - Len(q) = k
    BY <1>1
  <2>2. (q \o r)[Len(q) + k] = r[k]
    BY <1>1, <2>1
  <2> QED  BY <2>1, <2>2
<1> QED  BY <1>2, <1>3, <1>4 DEF Follows

\* One message appended.
LEMMA FollowsOne ==
  ASSUME NEW S, NEW q \in Seq(S), NEW m \in S, NEW N, m \in N
  PROVE  Follows(Append(q, m), q, 0, N) /\ \E i \in 1 .. Len(Append(q, m)) : Append(q, m)[i] = m
<1>1. /\ Len(q) \in Nat /\ Len(Append(q, m)) = Len(q) + 1
      /\ \A k \in 1 .. Len(q) : Append(q, m)[k] = q[k]
      /\ Append(q, m)[Len(q) + 1] = m
  BY LenProperties, AppendProperties
<1>2. ASSUME NEW k \in 1 .. Len(q)
      PROVE  k - 0 \in 1 .. Len(Append(q, m)) /\ Append(q, m)[k - 0] = q[k]
  BY <1>1
<1>3. ASSUME NEW k \in 1 .. Len(Append(q, m))
      PROVE  \/ k + 0 \in 1 .. Len(q) /\ Append(q, m)[k] = q[k + 0]
             \/ k + 0 > Len(q) /\ Append(q, m)[k] \in N
  <2>1. k \in 1 .. Len(q) + 1
    BY <1>1
  <2>2. k \in 1 .. Len(q) \/ k = Len(q) + 1
    BY <1>1, <2>1
  <2>3. k + 0 = k /\ (k = Len(q) + 1 => k + 0 > Len(q))
    BY <1>1, <2>1
  <2> QED  BY <1>1, <2>2, <2>3
<1>4. Len(q) + 1 \in 1 .. Len(Append(q, m))
  BY <1>1
<1> QED  BY <1>1, <1>2, <1>3, <1>4 DEF Follows

\* The first message taken, and others appended.
LEMMA FollowsTake ==
  ASSUME NEW S, NEW q \in Seq(S), q # <<>>, NEW r \in Seq(S), NEW N,
         \A k \in 1 .. Len(r) : r[k] \in N
  PROVE  Follows(Tail(q) \o r, q, 1, N)
<1>1. /\ Len(q) \in Nat /\ Len(q) >= 1
      /\ Tail(q) \in Seq(S) /\ Len(Tail(q)) = Len(q) - 1
      /\ \A k \in 1 .. Len(q) - 1 : Tail(q)[k] = q[k + 1]
  <2>1. Len(q) \in Nat /\ Len(q) # 0
    BY EmptySeq, LenProperties
  <2> QED  BY <2>1, HeadTailProperties
<1>2. /\ Len(r) \in Nat /\ Len(Tail(q) \o r) = Len(Tail(q)) + Len(r)
      /\ \A k \in 1 .. Len(Tail(q)) + Len(r) :
           (Tail(q) \o r)[k] = IF k <= Len(Tail(q)) THEN Tail(q)[k] ELSE r[k - Len(Tail(q))]
  BY <1>1, LenProperties, ConcatProperties
<1>3. ASSUME NEW k \in 1 .. Len(q), k > 1
      PROVE  k - 1 \in 1 .. Len(Tail(q) \o r) /\ (Tail(q) \o r)[k - 1] = q[k]
  <2>1. /\ k - 1 \in 1 .. Len(q) - 1 /\ (k - 1) + 1 = k
        /\ k - 1 \in 1 .. Len(Tail(q)) + Len(r) /\ k - 1 <= Len(Tail(q))
    BY <1>1, <1>2, <1>3
  <2>2. (Tail(q) \o r)[k - 1] = Tail(q)[k - 1]
    BY <1>2, <2>1
  <2>3. Tail(q)[k - 1] = q[(k - 1) + 1]
    BY <1>1, <2>1
  <2> QED  BY <1>2, <2>1, <2>2, <2>3
<1>4. ASSUME NEW k \in 1 .. Len(Tail(q) \o r)
      PROVE  \/ k + 1 \in 1 .. Len(q) /\ (Tail(q) \o r)[k] = q[k + 1]
             \/ k + 1 > Len(q) /\ (Tail(q) \o r)[k] \in N
  <2>1. k \in 1 .. Len(Tail(q)) + Len(r) /\ k \in Int
    BY <1>2
  <2>2. CASE k <= Len(q) - 1
    <3>1. k \in 1 .. Len(q) - 1 /\ k <= Len(Tail(q)) /\ k + 1 \in 1 .. Len(q)
      BY <1>1, <2>1, <2>2
    <3>2. (Tail(q) \o r)[k] = Tail(q)[k]
      BY <1>2, <2>1, <3>1
    <3> QED  BY <1>1, <3>1, <3>2
  <2>3. CASE ~(k <= Len(q) - 1)
    <3>1. k - Len(Tail(q)) \in 1 .. Len(r) /\ ~(k <= Len(Tail(q))) /\ k + 1 > Len(q)
      BY <1>1, <1>2, <2>1, <2>3
    <3>2. (Tail(q) \o r)[k] = r[k - Len(Tail(q))]
      BY <1>2, <2>1, <3>1
    <3> QED  BY <3>1, <3>2
  <2> QED  BY <2>2, <2>3
<1> QED  BY <1>3, <1>4 DEF Follows

\* Nothing is put.
LEMMA FollowsSame ==
  ASSUME NEW S, NEW q \in Seq(S), NEW N
  PROVE  Follows(q, q, 0, N) /\ (q # <<>> => Follows(Tail(q), q, 1, N))
<1>1. Len(q) \in Nat
  BY LenProperties
<1>2. Follows(q, q, 0, N)
  BY <1>1 DEF Follows
<1>3. ASSUME q # <<>>
      PROVE  Follows(Tail(q), q, 1, N)
  <2>1. Len(q) # 0
    BY <1>1, <1>3, EmptySeq
  <2>2. Len(Tail(q)) = Len(q) - 1 /\ \A k \in 1 .. Len(q) - 1 : Tail(q)[k] = q[k + 1]
    BY <1>1, <1>3, <2>1, HeadTailProperties
  <2>3. ASSUME NEW k \in 1 .. Len(q), k > 1
        PROVE  k - 1 \in 1 .. Len(Tail(q)) /\ Tail(q)[k - 1] = q[k]
    <3>1. k - 1 \in 1 .. Len(q) - 1 /\ (k - 1) + 1 = k
      BY <1>1, <2>3
    <3>2. Tail(q)[k - 1] = q[(k - 1) + 1]
      BY <2>2, <3>1
    <3> QED  BY <2>2, <3>1, <3>2
  <2>4. ASSUME NEW k \in 1 .. Len(Tail(q))
        PROVE  k + 1 \in 1 .. Len(q) /\ Tail(q)[k] = q[k + 1]
    <3>1. k \in 1 .. Len(q) - 1 /\ k + 1 \in 1 .. Len(q)
      BY <1>1, <2>2
    <3> QED  BY <2>2, <3>1
  <2> QED  BY <2>3, <2>4 DEF Follows
<1> QED  BY <1>2, <1>3

-----------------------------------------------------------------------------
\* The effects of every step, and the type of the state.

\* What the tables say of the use cases that are added.
LEMMA Tables ==
  ASSUME Setting
  PROVE  using \subseteq DOMAIN UseCases /\ \A u \in using : WellFormed(using, u)
BY TablesAssumption DEF Setting

\* An event that is told is declared.
LEMMA Tellings ==
  ASSUME NEW u \in DOMAIN UseCases, NEW fn \in DOMAIN UseCases[u].handlers, NEW t \in Told[u][fn]
  PROVE  t.use = u /\ t.function = fn /\ t \in Declared[u]
<1>1. Told[u][fn] = {[use |-> u, event |-> e.event, function |-> fn, checks |-> e.checks,
                      needs |-> Needs(u, e.accessor), notified |-> e.notified] :
                        e \in UseCases[u].handlers[fn].tells}
  BY DEF Told
<1>2. Told[u][fn] \subseteq Declared[u]
  BY DEF Declared
<1> QED  BY <1>1, <1>2

\* Nothing changes.
LEMMA Idle ==
  ASSUME TInv, UNCHANGED vars
  PROVE  TInv' /\ Effects(0)
<1> USE DEF vars, net, fixed
<1>1. TInv'
  <2>1. Setting' /\ Versions' /\ Links' /\ Wired'
    BY DEF TInv, Setting, Versions, Links, Wired, Offered, Messages, Posted, Readable, WritesIn, Cached
  <2>2. Advancing' /\ Waiting' /\ Reported' /\ Pushes'
    BY DEF TInv, Advancing, Waiting, Reported, Pushes, Updates, Cached, Offered
  <2> QED  BY <2>1, <2>2 DEF TInv
<1>2. Follows(wire', wire, 0, Fresh)
  BY FollowsSame DEF TInv, Wired
<1>3. Grown /\ Credited(0)
  <2>1. \A m : Answered(m)' <=> Answered(m)
    BY DEF Answered, Done, Cached
  <2> QED  BY <2>1 DEF Grown, Credited
<1>4. Advanced
  <2>1. \A u \in using : connecting[u] \in Nat
    BY DEF TInv, Advancing
  <2>2. connecting' = connecting /\ subscribed' = subscribed /\ bound' = bound
    OBVIOUS
  <2>3. \A u \in using : connecting[u] <= connecting'[u] /\ \A j \in 1 .. connecting'[u] : j <= connecting[u]
    BY <2>1, <2>2
  <2> QED  BY <2>2, <2>3 DEF Advanced
<1>5. Handling /\ Kept /\ Missed /\ Followed
  BY DEF Handling, Kept, Missed, Followed
<1> QED  BY <1>1, <1>2, <1>3, <1>4, <1>5 DEF Effects

\* What follows the wire is posted if what is put on it is.
LEMMA WiredNext ==
  ASSUME TInv, NEW t \in {0, 1}, NEW N, N \subseteq Fresh, Follows(wire', wire, t, N),
         wire' \in Seq(Messages), UNCHANGED fixed, subscribed \subseteq subscribed', bound \subseteq bound',
         \A m \in N : PostedNext(m)
  PROVE  Wired' /\ Follows(wire', wire, t, Fresh)
<1>1. Messages' = Messages
  BY DEF Messages, fixed
<1>2. \A m : Posted(m) => PostedNext(m)
  BY DEF Posted, PostedNext
<1>3. \A i \in 1 .. Len(wire) : Posted(wire[i])
  BY DEF TInv, Wired
<1>4. \A i \in 1 .. Len(wire') : PostedNext(wire'[i])
  BY <1>2, <1>3 DEF Follows
<1>5. Follows(wire', wire, t, Fresh)
  BY DEF Follows
<1>6. \A i \in 1 .. Len(wire') :
        /\ wire'[i].kind = "subscribe" => wire'[i].feature \in subscribed'
        /\ wire'[i].kind = "bind" => wire'[i].feature \in bound'
        /\ wire'[i].kind = "read" => wire'[i].feature \in features' /\ wire'[i].function \notin missing'
        /\ wire'[i].kind = "write" => wire'[i].feature \in features'
  BY <1>4 DEF PostedNext, Readable, fixed
<1> QED  BY <1>1, <1>5, <1>6 DEF Wired, Posted, Readable

\* The messages of a use case about features and functions.
LEMMA Connects ==
  ASSUME Setting, NEW u \in using
  PROVE  /\ UseCases[u].connected \in Seq(Plain) /\ Len(UseCases[u].connected) \in Nat
         /\ DOMAIN UseCases[u].connected = 1 .. Len(UseCases[u].connected)
         /\ \A k \in 1 .. Len(UseCases[u].connected) : UseCases[u].connected[k] \in Plain
<1>1. UseCases[u].connected \in Seq(Plain)
  BY Tables DEF WellFormed, Plain
<1> QED  BY <1>1, LenProperties, ElementOfSeq

\* A connect method goes on.
LEMMA ConnectedStep ==
  ASSUME TInv, NEW u \in using, Connected(u)
  PROVE  TInv' /\ Effects(0)
<1>1. /\ connecting[u] \in Nat /\ connecting[u] < Len(UseCases[u].connected)
      /\ Len(UseCases[u].connected) \in Nat /\ connecting[u] + 1 \in 1 .. Len(UseCases[u].connected)
  BY Connects DEF Connected, TInv, Advancing
<1>2. PICK m : m = UseCases[u].connected[connecting[u] + 1]
  OBVIOUS
<1>3. /\ wire' = (IF Sent(m) THEN Append(wire, m) ELSE wire)
      /\ subscribed' = (IF Sent(m) /\ m.kind = "subscribe" THEN subscribed \cup {m.feature} ELSE subscribed)
      /\ bound' = (IF Sent(m) /\ m.kind = "bind" THEN bound \cup {m.feature} ELSE bound)
  BY <1>2 DEF Connected
<1>4. connecting' = [connecting EXCEPT ![u] = @ + 1]
  BY DEF Connected
<1>5. /\ UNCHANGED <<notifies, binds, device, cache, handlers, current, unread, pushed, changes>>
      /\ using' = using /\ features' = features /\ missing' = missing
  BY DEF Connected, fixed
<1>6. m \in Plain /\ m \in Messages /\ m \in Fresh
  <2>1. m \in Plain
    BY <1>1, <1>2, Connects DEF TInv
  <2>2. m \in NextOf(u)
    BY <1>1, <1>2 DEF NextOf
  <2> QED  BY <2>1, <2>2 DEF Messages, Fresh
<1>7. wire \in Seq(Messages)
  BY DEF TInv, Wired
<1>8. /\ wire' \in Seq(Messages) /\ Cardinality(WritesIn(wire')) = Cardinality(WritesIn(wire))
      /\ Sent(m) => On(m)'
      /\ \E N : N \subseteq Fresh /\ Follows(wire', wire, 0, N) /\ \A x \in N : x = m /\ Sent(m)
  <2>1. CASE Sent(m)
    <3>1. wire' = Append(wire, m) /\ m.kind # "write"
      BY <1>3, <1>6, <2>1, PlainIs
    <3>2. wire' \in Seq(Messages) /\ Cardinality(WritesIn(wire')) = Cardinality(WritesIn(wire))
      BY <1>6, <1>7, <3>1, Counted, AppendProperties
    <3>3. Follows(wire', wire, 0, {m}) /\ \E i \in 1 .. Len(wire') : wire'[i] = m
      BY <1>6, <1>7, <3>1, FollowsOne
    <3>4. {m} \subseteq Fresh /\ \A x \in {m} : x = m /\ Sent(m)
      BY <1>6, <2>1
    <3> QED  BY <3>2, <3>3, <3>4 DEF On
  <2>2. CASE ~Sent(m)
    <3>1. wire' = wire
      BY <1>3, <2>2
    <3>2. Follows(wire', wire, 0, {}) /\ {} \subseteq Fresh
      BY <1>7, <3>1, FollowsSame
    <3> QED  BY <1>7, <2>2, <3>1, <3>2
  <2> QED  BY <2>1, <2>2
<1>9. subscribed \subseteq subscribed' /\ bound \subseteq bound'
  BY <1>3
<1>10. Sent(m) => PostedNext(m)
  BY <1>3, <1>6, PlainIs DEF PostedNext, Sent
<1>11. Wired' /\ Follows(wire', wire, 0, Fresh)
  <2>1. PICK N : N \subseteq Fresh /\ Follows(wire', wire, 0, N) /\ \A x \in N : x = m /\ Sent(m)
    BY <1>8
  <2>2. \A x \in N : PostedNext(x)
    BY <1>10, <2>1
  <2>3. 0 \in {0, 1} /\ UNCHANGED fixed
    BY <1>5 DEF fixed
  <2> QED  BY <1>8, <1>9, <2>1, <2>2, <2>3, WiredNext
<1>12. Setting' /\ Versions' /\ Reported' /\ Waiting' /\ Pushes'
  <2>1. Setting' /\ Reported'
    BY <1>5 DEF TInv, Setting, Reported
  <2>2. Offered' = Offered
    BY <1>5 DEF Offered
  <2>3. Versions'
    BY <1>5, <1>8, <2>2 DEF TInv, Versions
  <2>4. Waiting' /\ Pushes'
    BY <1>5, <2>2 DEF TInv, Waiting, Pushes, Updates, Cached
  <2> QED  BY <2>1, <2>3, <2>4
<1>13. Links'
  BY <1>3, <1>5 DEF TInv, Links, Sent
<1>14. Advancing'
  BY <1>1, <1>4, <1>5 DEF TInv, Advancing
<1>15. Grown /\ Credited(0) /\ Handling /\ Kept /\ Missed /\ Followed
  <2>1. \A x : Answered(x)' <=> Answered(x)
    BY <1>5 DEF Answered, Done, Cached
  <2> QED  BY <1>5, <2>1 DEF Grown, Credited, Handling, Kept, Missed, Followed
<1>16. Advanced
  <2>1. SentFor(m)
    <3>1. m.kind = "read" /\ Readable(m) => Sent(m)
      BY DEF Sent
    <3>2. m.kind = "subscribe" /\ m.feature \in features => m.feature \in subscribed \/ Sent(m)
      BY DEF Sent
    <3>3. m.kind = "bind" /\ m.feature \in features => m.feature \in bound \/ Sent(m)
      BY DEF Sent
    <3> QED  BY <1>8, <3>1, <3>2, <3>3 DEF SentFor
  <2>2. \A v \in using :
          /\ connecting[v] <= connecting'[v]
          /\ \A j \in 1 .. connecting'[v] :
               j <= connecting[v] \/ (j = connecting[v] + 1 /\ v = u)
    BY <1>4 DEF TInv, Advancing
  <2>3. \A f \in subscribed' : f \in subscribed \/ (Sent(m) /\ m = Subscribe(f))
    BY <1>3, <1>6, PlainIs
  <2>4. \A f \in bound' : f \in bound \/ (Sent(m) /\ m = Bind(f))
    BY <1>3, <1>6, PlainIs
  <2>5. \A f : (Sent(m) /\ m = Subscribe(f) => On(Subscribe(f))') /\ (Sent(m) /\ m = Bind(f) => On(Bind(f))')
    BY <1>8
  <2> QED  BY <1>2, <2>1, <2>2, <2>3, <2>4, <2>5 DEF Advanced
<1> QED  BY <1>5, <1>11, <1>12, <1>13, <1>14, <1>15, <1>16 DEF TInv, Effects, fixed

\* Every function belongs to a feature.
LEMMA Homes == \A fn \in FunctionTypes : FeatureOf[fn] \in FeatureTypes
BY DEF FeatureOf, FunctionTypes

\* Requests are reads of what can be read.
LEMMA RequestsRead ==
  ASSUME NEW f \in FeatureTypes, NEW fns \in Seq(FunctionsAt(f))
  PROVE  /\ Requests(fns) \in Seq(Messages)
         /\ \A k \in 1 .. Len(Requests(fns)) :
              /\ Requests(fns)[k].kind = "read" /\ Requests(fns)[k] \in Plain
              /\ \E i \in DOMAIN fns : /\ fns[i] \in FunctionTypes /\ Requests(fns)[k] = Read(fns[i])
                                       /\ Readable(Read(fns[i]))
<1>1. /\ Requests(fns) \in Seq(ReadsAt(f))
      /\ \A k \in 1 .. Len(Requests(fns)) :
           \E i \in DOMAIN fns : Requests(fns)[k] = Read(fns[i]) /\ Readable(Read(fns[i]))
  BY RequestsAre
<1>2. \A m \in ReadsAt(f) : m \in Plain /\ m \in Messages /\ m.kind = "read"
  BY DEF ReadsAt, Plain, About, Messages, Read, Message
<1>3. Requests(fns) \in Seq(Messages)
  BY <1>1, <1>2, SeqDef
<1>4. \A k \in 1 .. Len(Requests(fns)) : Requests(fns)[k] \in ReadsAt(f)
  BY <1>1, ElementOfSeq
<1>5. \A i \in DOMAIN fns : fns[i] \in FunctionTypes
  BY ElementOfSeq, LenProperties DEF FunctionsAt
<1> QED  BY <1>1, <1>2, <1>3, <1>4, <1>5

\* A handler requests functions of the feature it has an update of.
LEMMA HandlerRequests ==
  ASSUME Setting, NEW u \in using, NEW by \in DOMAIN UseCases[u].handlers
  PROVE  /\ by \in FunctionTypes /\ FeatureOf[by] \in FeatureTypes
         /\ UseCases[u].handlers[by].requests \in Seq(FunctionsAt(FeatureOf[by]))
BY Tables, Homes DEF WellFormed

\* A use case handles an update.
LEMMA HandleStep ==
  ASSUME TInv, NEW h \in DOMAIN handlers, HandleEvent(h)
  PROVE  TInv' /\ Effects(0)
<1>1. /\ h.use \in using /\ h.function \in FunctionTypes
      /\ h.function \in DOMAIN UseCases[h.use].handlers /\ Cached({h.function})
      /\ h.use \in DOMAIN UseCases
  BY Tables DEF TInv, Waiting, Updates
<1>2. PICK fns : fns = UseCases[h.use].handlers[h.function].requests
  OBVIOUS
<1>3. FeatureOf[h.function] \in FeatureTypes /\ fns \in Seq(FunctionsAt(FeatureOf[h.function]))
  BY <1>1, <1>2, HandlerRequests DEF TInv
<1>4. PICK asked : asked = Requests(fns)
  OBVIOUS
<1>5. /\ handlers' = handlers (-) SetToBag({h}) /\ wire' = wire \o asked
      /\ current' = current \cup
          {<<t.use, t.event>> :
             t \in {r \in Raised(h) : Cached(r.needs) /\ cache[h.function] = device[h.function]}}
      /\ unread' = unread \cup {<<t.use, t.event>> : t \in {r \in Raised(h) : ~Cached(r.needs)}}
      /\ UNCHANGED <<subscribed, bound, notifies, binds, device, cache, connecting, pushed, changes>>
      /\ using' = using /\ features' = features /\ missing' = missing
  BY <1>2, <1>4 DEF HandleEvent, fixed, net
<1>6. \A r \in Raised(h) : r.use = h.use /\ r.function = h.function /\ r \in Declared[h.use]
  BY <1>1, Tellings DEF Raised
<1>7. /\ asked \in Seq(Messages)
      /\ \A k \in 1 .. Len(asked) :
              /\ asked[k].kind = "read" /\ asked[k] \in Plain
              /\ \E i \in DOMAIN fns : /\ fns[i] \in FunctionTypes /\ asked[k] = Read(fns[i])
                                       /\ Readable(Read(fns[i]))
  BY <1>3, <1>4, RequestsRead
<1>8. \A i \in DOMAIN fns : Readable(Read(fns[i])) => \E k \in 1 .. Len(asked) : asked[k] = Read(fns[i])
  BY <1>3, <1>4, RequestsAre
<1>9. wire \in Seq(Messages)
  BY DEF TInv, Wired
<1>10. wire' \in Seq(Messages) /\ Cardinality(WritesIn(wire')) = Cardinality(WritesIn(wire))
  <2>1. \A k \in 1 .. Len(asked) : asked[k].kind # "write"
    BY <1>7
  <2> QED  BY <1>5, <1>7, <1>9, <2>1, Counted, ConcatProperties
<1>11. \A k \in 1 .. Len(asked) : On(asked[k])'
  <2>1. PICK N : N = {asked[k] : k \in 1 .. Len(asked)}
    OBVIOUS
  <2>2. \A k \in 1 .. Len(asked) : asked[k] \in N
    BY <2>1
  <2>3. \A k \in 1 .. Len(asked) : \E i \in 1 .. Len(wire') : wire'[i] = asked[k]
    <3>1. wire' = wire \o asked /\ asked \in Seq(Messages)
      BY <1>5, <1>7
    <3>2. \A k \in 1 .. Len(asked) : \E i \in 1 .. Len(wire \o asked) : (wire \o asked)[i] = asked[k]
      BY <1>9, <2>2, <3>1, FollowsPut
    <3> QED  BY <3>1, <3>2
  <2> QED  BY <2>3 DEF On
<1>12. Wired' /\ Follows(wire', wire, 0, Fresh)
  <2>1. PICK N : N = {m \in Requested(h.use) : PostedNext(m)}
    OBVIOUS
  <2>2. \A k \in 1 .. Len(asked) : asked[k] \in N
    <3> SUFFICES ASSUME NEW k \in 1 .. Len(asked)
                 PROVE  asked[k] \in N
      OBVIOUS
    <3>1. PICK i \in DOMAIN fns : /\ fns[i] \in FunctionTypes /\ asked[k] = Read(fns[i])
                                  /\ Readable(Read(fns[i]))
      BY <1>7
    <3>2. Triggers(h.use, h.function, fns[i])
      BY <1>1, <1>2 DEF Triggers
    <3>3. asked[k] \in Requested(h.use)
      BY <1>1, <3>1, <3>2 DEF Requested
    <3>4. PostedNext(asked[k])
      BY <1>7, <3>1 DEF PostedNext
    <3> QED  BY <2>1, <3>3, <3>4
  <2>3. Follows(wire', wire, 0, N)
    BY <1>5, <1>7, <1>9, <2>2, FollowsPut
  <2>4. N \subseteq Fresh /\ \A m \in N : PostedNext(m)
    BY <1>1, <2>1 DEF Fresh
  <2>5. 0 \in {0, 1} /\ UNCHANGED fixed /\ subscribed \subseteq subscribed' /\ bound \subseteq bound'
    BY <1>5 DEF fixed
  <2> QED  BY <1>10, <2>3, <2>4, <2>5, WiredNext
<1>13. Setting' /\ Versions' /\ Links' /\ Advancing' /\ Pushes'
  <2>1. Setting' /\ Links' /\ Advancing'
    BY <1>5 DEF TInv, Setting, Links, Advancing
  <2>2. Offered' = Offered
    BY <1>5 DEF Offered
  <2>3. Versions'
    BY <1>5, <1>10, <2>2 DEF TInv, Versions
  <2>4. Pushes'
    BY <1>5, <2>2 DEF TInv, Pushes, Cached
  <2> QED  BY <2>1, <2>3, <2>4
<1>14. /\ IsBag(handlers') /\ DOMAIN handlers' \subseteq DOMAIN handlers
       /\ \A g \in DOMAIN handlers : g # h => g \in DOMAIN handlers'
  BY <1>5, Dropped DEF TInv, Waiting
<1>15. Waiting'
  BY <1>5, <1>14 DEF TInv, Waiting, Updates, Cached
<1>16. Reported'
  <2>1. current \cup unread \subseteq UNION {{<<u, t.event>> : t \in Declared[u]} : u \in using}
    BY DEF TInv, Reported
  <2>2. \A r \in Raised(h) :
          <<r.use, r.event>> \in UNION {{<<u, t.event>> : t \in Declared[u]} : u \in using}
    BY <1>1, <1>6
  <2>3. current' \cup unread' \subseteq UNION {{<<u, t.event>> : t \in Declared[u]} : u \in using}
    BY <1>5, <2>1, <2>2
  <2> QED  BY <1>5, <2>3 DEF Reported
<1>17. Grown /\ Credited(0) /\ Kept /\ Missed /\ Followed
  <2>1. \A x : Answered(x)' <=> Answered(x)
    BY <1>5 DEF Answered, Done, Cached
  <2>2. Missed
    BY <1>5 DEF Missed
  <2>3. Kept
    BY <1>5 DEF Kept
  <2> QED  BY <1>5, <2>1, <2>2, <2>3 DEF Grown, Credited, Followed
<1>18. Advanced
  <2>1. \A u \in using : connecting[u] \in Nat
    BY DEF TInv, Advancing
  <2>2. \A u \in using : connecting[u] <= connecting'[u] /\ \A j \in 1 .. connecting'[u] : j <= connecting[u]
    BY <1>5, <2>1
  <2> QED  BY <1>5, <2>2 DEF Advanced
<1>19. HandledNow(h)
  <2>1. ASSUME NEW n \in FunctionTypes, Triggers(h.use, h.function, n), Readable(Read(n))
        PROVE  On(Read(n))'
    <3>1. PICK i \in DOMAIN fns : fns[i] = n
      BY <1>2, <2>1 DEF Triggers
    <3>2. PICK k \in 1 .. Len(asked) : asked[k] = Read(n)
      BY <1>8, <2>1, <3>1
    <3> QED  BY <1>11, <3>2
  <2>2. \A r \in Raised(h) :
       Cached(r.needs) /\ cache[h.function] = device[h.function] => <<r.use, r.event>> \in current'
    BY <1>5
  <2> QED  BY <2>1, <2>2 DEF HandledNow
<1>20. Handling
  BY <1>14, <1>19 DEF Handling
<1> QED  BY <1>5, <1>12, <1>13, <1>15, <1>16, <1>17, <1>18, <1>20 DEF TInv, Effects, fixed

\* The application writes.
LEMMA WriteStep ==
  ASSUME TInv, NEW u \in using, NEW w \in DOMAIN UseCases[u].writes, Write(u, w)
  PROVE  TInv' /\ Effects(0)
<1>1. /\ changes + Cardinality(missing) < MaxTrouble[using]
      /\ Cached(UseCases[u].writes[w].needs)
      /\ wire' = Append(wire, WriteOf(u, w)) /\ changes' = changes + 1
      /\ UNCHANGED <<subscribed, bound, notifies, binds, device, cache, connecting, handlers, current,
                     unread, pushed>>
      /\ using' = using /\ features' = features /\ missing' = missing
  BY DEF Write, fixed, net
<1>2. PICK m : m = WriteOf(u, w)
  OBVIOUS
<1>3. m \in Messages /\ m.kind = "write" /\ m \in Fresh
  <2>1. m \in WriteMessages(using)
    BY <1>2 DEF WriteMessages
  <2>2. m \in Writable(u)
    BY <1>1, <1>2 DEF Writable
  <2> QED  BY <2>1, <2>2, WriteIs DEF Messages, Fresh
<1>4. m.feature \in features
  <2>1. PICK f : f = FeatureOf[UseCases[u].writes[w].function]
    OBVIOUS
  <2>2. m.feature = f
    BY <1>2, <2>1 DEF WriteOf
  <2>3. \/ f \in Clients(using) \cap Required(using)
        \/ UseCases[u].writes[w].needs \cap FunctionsAt(f) # {}
    BY <2>1, Tables DEF TInv, WellFormed
  <2>4. CASE f \in Clients(using) \cap Required(using)
    BY <2>2, <2>4 DEF TInv, Setting
  <2>5. CASE UseCases[u].writes[w].needs \cap FunctionsAt(f) # {}
    <3>1. PICK n : n \in UseCases[u].writes[w].needs \cap FunctionsAt(f)
      BY <2>5
    <3>2. n \in Offered
      BY <1>1, <3>1 DEF Cached, TInv, Versions
    <3> QED  BY <2>2, <3>1, <3>2 DEF Offered, FunctionsAt
  <2> QED  BY <2>3, <2>4, <2>5
<1>5. wire \in Seq(Messages)
  BY DEF TInv, Wired
<1>6. /\ wire' \in Seq(Messages)
      /\ Cardinality(WritesIn(wire')) = Cardinality(WritesIn(wire)) + 1
      /\ Cardinality(WritesIn(wire)) \in Nat
  BY <1>1, <1>2, <1>3, <1>5, Counted, AppendProperties
<1>7. Wired' /\ Follows(wire', wire, 0, Fresh)
  <2>1. Follows(Append(wire, m), wire, 0, {m})
    BY <1>3, <1>5, FollowsOne
  <2>2. {m} \subseteq Fresh /\ \A x \in {m} : PostedNext(x)
    BY <1>3, <1>4 DEF PostedNext
  <2>3. 0 \in {0, 1} /\ UNCHANGED fixed /\ subscribed \subseteq subscribed' /\ bound \subseteq bound'
    BY <1>1 DEF fixed
  <2>4. wire' = Append(wire, m)
    BY <1>1, <1>2
  <2> QED  BY <1>6, <2>1, <2>2, <2>3, <2>4, WiredNext
<1>8. Setting' /\ Links' /\ Advancing' /\ Reported'
  BY <1>1 DEF TInv, Setting, Links, Advancing, Reported
<1>9. Offered' = Offered
  BY <1>1 DEF Offered
<1>10. Versions'
  <2>1. Cardinality(missing) \in Nat /\ changes \in Nat /\ MaxTrouble[using] \in Nat
    BY FS_CardinalityType, TroubleAssumption DEF TInv, Setting, Versions
  <2>2. changes' \in Nat /\ changes' + Cardinality(missing') <= MaxTrouble[using']
    BY <1>1, <2>1
  <2> QED  BY <1>1, <1>6, <1>9, <2>1, <2>2 DEF TInv, Versions
<1>11. Waiting' /\ Pushes'
  BY <1>1, <1>9 DEF TInv, Waiting, Pushes, Updates, Cached
<1>12. Grown /\ Credited(0) /\ Handling /\ Kept /\ Missed /\ Followed
  <2>1. \A x : Answered(x)' <=> Answered(x)
    BY <1>1 DEF Answered, Done, Cached
  <2> QED  BY <1>1, <2>1 DEF Grown, Credited, Handling, Kept, Missed, Followed
<1>13. Advanced
  <2>1. \A v \in using : connecting[v] \in Nat
    BY DEF TInv, Advancing
  <2>2. \A v \in using : connecting[v] <= connecting'[v] /\ \A j \in 1 .. connecting'[v] : j <= connecting[v]
    BY <1>1, <2>1
  <2> QED  BY <1>1, <2>2 DEF Advanced
<1> QED  BY <1>1, <1>7, <1>8, <1>10, <1>11, <1>12, <1>13 DEF TInv, Effects, fixed

\* The message that is taken from the wire, and what is left.
LEMMA HeadIs ==
  ASSUME TInv, wire # <<>>
  PROVE  /\ Head(wire) = wire[1] /\ 1 \in 1 .. Len(wire) /\ Posted(Head(wire))
         /\ Head(wire).kind # "write" => Head(wire) \in Plain
         /\ Head(wire).kind = "write" => Head(wire) \in WriteMessages(using)
         /\ Head(wire) \in Plain => Head(wire).kind # "write"
         /\ Tail(wire) \in Seq(Messages) /\ Follows(Tail(wire), wire, 1, {})
         /\ Cardinality(WritesIn(wire)) \in Nat /\ Cardinality(WritesIn(Tail(wire))) \in Nat
         /\ Cardinality(WritesIn(Tail(wire))) = IF Head(wire).kind = "write"
              THEN Cardinality(WritesIn(wire)) - 1 ELSE Cardinality(WritesIn(wire))
<1>1. wire \in Seq(Messages) /\ \A i \in 1 .. Len(wire) : Posted(wire[i])
  BY DEF TInv, Wired
<1>2. Head(wire) = wire[1] /\ 1 \in 1 .. Len(wire) /\ Head(wire) \in Messages /\ Tail(wire) \in Seq(Messages)
  BY <1>1, Taken
<1>3. Follows(Tail(wire), wire, 1, {})
  BY <1>1, FollowsSame
<1>4. /\ Cardinality(WritesIn(wire)) \in Nat /\ Cardinality(WritesIn(Tail(wire))) \in Nat
      /\ Cardinality(WritesIn(Tail(wire))) = IF Head(wire).kind = "write"
           THEN Cardinality(WritesIn(wire)) - 1 ELSE Cardinality(WritesIn(wire))
  BY <1>1, <1>2, Counted
<1>5. /\ Head(wire).kind # "write" => Head(wire) \in Plain
      /\ Head(wire).kind = "write" => Head(wire) \in WriteMessages(using)
      /\ Head(wire) \in Plain => Head(wire).kind # "write"
  BY <1>2, PlainIs, WriteIs DEF Messages
<1> QED  BY <1>1, <1>2, <1>3, <1>4, <1>5

\* A step that only takes a message leaves all but the network as it was.
LEMMA TakeStep ==
  ASSUME TInv, wire # <<>>, wire' = Tail(wire), UNCHANGED <<subscribed, bound, device, connecting, changes>>,
         UNCHANGED fixed
  PROVE  /\ Setting' /\ Wired' /\ Advancing' /\ Advanced /\ Follows(wire', wire, 1, Fresh)
         /\ Cardinality(WritesIn(wire)) \in Nat
         /\ Cardinality(WritesIn(wire')) <= Cardinality(WritesIn(wire))
<1>1. Setting' /\ Advancing'
  BY DEF TInv, Setting, Advancing, fixed
<1>2. Wired' /\ Follows(wire', wire, 1, Fresh)
  BY HeadIs, WiredNext
<1>3. Advanced
  <2>1. \A v \in using : connecting[v] \in Nat
    BY DEF TInv, Advancing
  <2>2. \A v \in using : connecting[v] <= connecting'[v] /\ \A j \in 1 .. connecting'[v] : j <= connecting[v]
    BY <2>1
  <2> QED  BY <2>2 DEF Advanced
<1>4. /\ Cardinality(WritesIn(wire)) \in Nat
      /\ Cardinality(WritesIn(wire')) <= Cardinality(WritesIn(wire))
  BY HeadIs
<1> QED  BY <1>1, <1>2, <1>3, <1>4

\* The device handles a subscription or a binding, or rejects a write.
LEMMA LinkStep ==
  ASSUME TInv, AnswerSubscribe \/ AnswerBind \/ Reject
  PROVE  TInv' /\ Effects(1)
<1>1. PICK m : m = Head(wire)
  OBVIOUS
<1>2. /\ wire # <<>> /\ wire' = Tail(wire)
      /\ UNCHANGED <<subscribed, bound, device, cache, connecting, handlers, current, unread, pushed, changes>>
      /\ UNCHANGED fixed /\ using' = using /\ features' = features /\ missing' = missing
      /\ m.kind \in {"subscribe", "bind", "write"}
      /\ notifies' = (IF m.kind = "subscribe" THEN notifies \cup {m.feature} ELSE notifies)
      /\ binds' = (IF m.kind = "bind" THEN binds \cup {m.feature} ELSE binds)
  BY <1>1 DEF AnswerSubscribe, AnswerBind, Reject, fixed, net
<1>3. m = wire[1] /\ 1 \in 1 .. Len(wire) /\ Posted(m) /\ (m.kind # "write" => m \in Plain)
      /\ (m \in Plain => m.kind # "write")
  BY <1>1, <1>2, HeadIs
<1>4. /\ Setting' /\ Wired' /\ Advancing' /\ Advanced /\ Follows(wire', wire, 1, Fresh)
      /\ Cardinality(WritesIn(wire)) \in Nat /\ Cardinality(WritesIn(wire')) \in Nat
      /\ Cardinality(WritesIn(wire')) <= Cardinality(WritesIn(wire))
  <2>1. UNCHANGED <<subscribed, bound, device, connecting, changes>>
    BY <1>2
  <2>2. Cardinality(WritesIn(wire')) \in Nat
    BY <1>2, HeadIs
  <2>3. /\ Setting' /\ Wired' /\ Advancing' /\ Advanced /\ Follows(wire', wire, 1, Fresh)
        /\ Cardinality(WritesIn(wire)) \in Nat
        /\ Cardinality(WritesIn(wire')) <= Cardinality(WritesIn(wire))
    BY <1>2, <2>1, TakeStep
  <2> QED  BY <2>2, <2>3
<1>5. Links'
  BY <1>2, <1>3 DEF TInv, Links, Posted
<1>6. Offered' = Offered
  BY <1>2 DEF Offered
<1>7. Versions'
  <2>1. \A fn \in Offered :
          cache'[fn] <= device'[fn] /\ device'[fn] + Cardinality(WritesIn(wire')) <= 1 + changes'
    BY <1>2, <1>4 DEF TInv, Versions
  <2> QED  BY <1>2, <1>6, <2>1 DEF TInv, Versions
<1>8. Waiting' /\ Reported' /\ Pushes'
  BY <1>2, <1>6 DEF TInv, Waiting, Reported, Pushes, Updates, Cached
<1>9. Grown
  BY <1>2 DEF Grown
<1>10. Delivered(m)
  BY <1>2, <1>3 DEF Delivered, Done
<1>11. Credited(1)
  <2> SUFFICES ASSUME NEW x \in Plain, Answered(x)', x # m
               PROVE  Answered(x)
    BY <1>3 DEF Credited
  <2>1. \/ x.kind = "subscribe" /\ x.feature \in notifies'
        \/ x.kind = "bind" /\ x.feature \in binds'
        \/ x.kind = "read" /\ Cached({x.function}) /\ x.function \notin pushed
    BY <1>2 DEF Answered, Done, Cached
  <2>2. CASE x.kind = "subscribe"
    <3>1. x = Subscribe(x.feature) /\ (m.kind = "subscribe" => m = Subscribe(m.feature))
      BY <1>2, <1>3, <2>2, PlainIs
    <3>2. x.feature \in notifies
      BY <1>2, <2>1, <2>2, <3>1
    <3> QED  BY <2>2, <3>2 DEF Answered, Done
  <2>3. CASE x.kind = "bind"
    <3>1. x = Bind(x.feature) /\ (m.kind = "bind" => m = Bind(m.feature))
      BY <1>2, <1>3, <2>3, PlainIs
    <3>2. x.feature \in binds
      BY <1>2, <2>1, <2>3, <3>1
    <3> QED  BY <2>3, <3>2 DEF Answered, Done
  <2>4. CASE x.kind = "read"
    BY <2>1, <2>4 DEF Answered, Done
  <2> QED  BY <2>1, <2>2, <2>3, <2>4
<1>12. Handling /\ Kept /\ Missed /\ Followed
  BY <1>2 DEF Handling, Kept, Missed, Followed
<1> QED  BY <1>2, <1>3, <1>4, <1>5, <1>7, <1>8, <1>9, <1>10, <1>11, <1>12 DEF TInv, Effects

\* An update waits for every use case that handles it.
LEMMA SpawnedIs ==
  ASSUME TInv, NEW fn \in FunctionTypes, NEW notified \in BOOLEAN, UNCHANGED fixed,
         handlers' = handlers (+) Spawned(fn, notified)
  PROVE  /\ IsBag(handlers') /\ DOMAIN handlers \subseteq DOMAIN handlers' /\ DOMAIN handlers' \subseteq Updates
         /\ \A h \in DOMAIN handlers' :
              h \in DOMAIN handlers \/ (h.function = fn /\ fn \in DOMAIN UseCases[h.use].handlers)
         /\ \A u \in using : fn \in DOMAIN UseCases[u].handlers => Pending(u, fn)'
<1>1. PICK new : new = {[use |-> u, function |-> fn, notified |-> notified] :
                          u \in {w \in using : fn \in DOMAIN UseCases[w].handlers}}
  OBVIOUS
<1>2. handlers' = handlers (+) SetToBag(new)
  BY <1>1 DEF Spawned
<1>3. IsBag(handlers') /\ DOMAIN handlers' = DOMAIN handlers \cup new
  BY <1>2, Added DEF TInv, Waiting
<1>4. \A h \in new : /\ h \in Updates /\ h.function = fn
                     /\ fn \in DOMAIN UseCases[h.use].handlers
  BY <1>1 DEF Updates
<1>5. ASSUME NEW u \in using, fn \in DOMAIN UseCases[u].handlers
      PROVE  Pending(u, fn)'
  <2>1. [use |-> u, function |-> fn, notified |-> notified] \in new
    BY <1>1, <1>5
  <2>2. \E h \in DOMAIN handlers' : h.use = u /\ h.function = fn
    BY <1>3, <2>1
  <2> QED  BY <2>2 DEF Pending
<1> QED  BY <1>3, <1>4, <1>5 DEF TInv, Waiting

\* An answer to a request.
LEMMA ReadStep ==
  ASSUME TInv, AnswerRead
  PROVE  TInv' /\ Effects(1)
<1>1. PICK m : m = Head(wire)
  OBVIOUS
<1>2. PICK fn : fn = m.function
  OBVIOUS
<1>3. /\ wire # <<>> /\ m.kind = "read" /\ wire' = Tail(wire)
      /\ cache' = [cache EXCEPT ![fn] = device[fn]] /\ handlers' = handlers (+) Spawned(fn, FALSE)
      /\ UNCHANGED <<subscribed, bound, notifies, binds, device, connecting, current, unread, pushed, changes>>
      /\ UNCHANGED fixed /\ using' = using /\ features' = features /\ missing' = missing
  BY <1>1, <1>2 DEF AnswerRead, fixed, net
<1>4. /\ m = wire[1] /\ 1 \in 1 .. Len(wire) /\ Posted(m) /\ m \in Plain
      /\ fn \in FunctionTypes /\ m = Read(fn) /\ m.feature = FeatureOf[fn]
  BY <1>1, <1>2, <1>3, HeadIs, PlainIs
<1>5. fn \in Offered
  BY <1>3, <1>4 DEF Posted, Readable, Offered
<1>6. /\ Setting' /\ Wired' /\ Advancing' /\ Advanced /\ Follows(wire', wire, 1, Fresh)
      /\ Cardinality(WritesIn(wire)) \in Nat /\ Cardinality(WritesIn(wire')) \in Nat
      /\ Cardinality(WritesIn(wire')) <= Cardinality(WritesIn(wire))
  <2>1. UNCHANGED <<subscribed, bound, device, connecting, changes>>
    BY <1>3
  <2>2. Cardinality(WritesIn(wire')) \in Nat
    BY <1>3, HeadIs
  <2>3. /\ Setting' /\ Wired' /\ Advancing' /\ Advanced /\ Follows(wire', wire, 1, Fresh)
        /\ Cardinality(WritesIn(wire)) \in Nat
        /\ Cardinality(WritesIn(wire')) <= Cardinality(WritesIn(wire))
    BY <1>3, <2>1, TakeStep
  <2> QED  BY <2>2, <2>3
<1>7. Offered' = Offered
  BY <1>3 DEF Offered
<1>8. /\ device \in [Offered -> Nat \ {0}] /\ cache \in [Offered -> Nat]
      /\ \A g \in Offered : cache[g] <= device[g]
  BY DEF TInv, Versions
<1>9. /\ cache' \in [Offered -> Nat] /\ cache'[fn] = device[fn] /\ cache'[fn] > 0
      /\ \A g \in Offered : g # fn => cache'[g] = cache[g]
  BY <1>3, <1>5, <1>8
<1>10. Versions'
  <2>1. \A g \in Offered :
          cache'[g] <= device'[g] /\ device'[g] + Cardinality(WritesIn(wire')) <= 1 + changes'
    <3> SUFFICES ASSUME NEW g \in Offered
                 PROVE  cache'[g] <= device'[g] /\ device'[g] + Cardinality(WritesIn(wire')) <= 1 + changes'
      OBVIOUS
    <3>1. device[g] \in Nat /\ changes \in Nat /\ device[g] + Cardinality(WritesIn(wire)) <= 1 + changes
      BY DEF TInv, Versions
    <3>2. cache'[g] <= device[g]
      BY <1>8, <1>9, <3>1
    <3> QED  BY <1>3, <1>6, <3>1, <3>2
  <2> QED  BY <1>3, <1>7, <1>8, <1>9, <2>1 DEF TInv, Versions
<1>11. Links' /\ Reported'
  BY <1>3 DEF TInv, Links, Reported
<1>12. \A g \in Offered : Cached({g}) => Cached({g})'
  BY <1>8, <1>9 DEF Cached
<1>13. Cached({fn})'
  BY <1>5, <1>9 DEF Cached
<1>14. /\ IsBag(handlers') /\ DOMAIN handlers \subseteq DOMAIN handlers' /\ DOMAIN handlers' \subseteq Updates
       /\ \A h \in DOMAIN handlers' :
            h \in DOMAIN handlers \/ (h.function = fn /\ fn \in DOMAIN UseCases[h.use].handlers)
       /\ \A u \in using : fn \in DOMAIN UseCases[u].handlers => Pending(u, fn)'
  BY <1>3, <1>4, SpawnedIs
<1>15. Waiting'
  <2>1. Updates' = Updates
    BY <1>3 DEF Updates
  <2>2. \A h \in DOMAIN handlers : h.function \in Offered /\ Cached({h.function})
    BY <1>8 DEF TInv, Waiting, Cached
  <2>3. ASSUME NEW h \in DOMAIN handlers'
        PROVE  h.function \in DOMAIN UseCases[h.use].handlers /\ Cached({h.function})'
    <3>1. CASE h \in DOMAIN handlers
      BY <1>12, <2>2, <3>1 DEF TInv, Waiting
    <3>2. CASE h.function = fn /\ fn \in DOMAIN UseCases[h.use].handlers
      BY <1>13, <3>2
    <3> QED  BY <1>14, <3>1, <3>2
  <2> QED  BY <1>14, <2>1, <2>3 DEF Waiting
<1>16. Pushes'
  BY <1>3, <1>7, <1>12 DEF TInv, Pushes
<1>17. Grown
  BY <1>3, <1>8, <1>9 DEF Grown
<1>18. Delivered(m)
  <2>1. Done(m)'
    BY <1>2, <1>3, <1>13 DEF Done
  <2> QED  BY <1>2, <1>14, <2>1 DEF Delivered
<1>19. Credited(1)
  <2> SUFFICES ASSUME NEW x \in Plain, Answered(x)', x # m
               PROVE  Answered(x)
    BY <1>4 DEF Credited
  <2>1. CASE x.kind # "read"
    BY <1>3, <2>1 DEF Answered, Done
  <2>2. CASE x.kind = "read"
    <3>1. x = Read(x.function)
      BY <2>2, PlainIs
    <3>2. x.function # fn
      BY <1>4, <3>1
    <3>3. x.function \in DOMAIN cache' /\ cache'[x.function] > 0 /\ x.function \notin pushed
      BY <1>3, <2>2 DEF Answered, Done, Cached
    <3>4. x.function \in DOMAIN cache /\ cache[x.function] > 0
      BY <1>8, <1>9, <3>2, <3>3
    <3> QED  BY <2>2, <3>3, <3>4 DEF Answered, Done, Cached
  <2> QED  BY <2>1, <2>2
<1>20. Handling
  BY <1>14 DEF Handling
<1>21. Kept /\ Missed
  BY <1>3 DEF Kept, Missed
<1>22. Followed
  BY <1>3, <1>9 DEF Followed
<1> QED  BY <1>3, <1>4, <1>6, <1>10, <1>11, <1>15, <1>16, <1>17, <1>18, <1>19, <1>20, <1>21, <1>22
         DEF TInv, Effects

\* A new version of a function at the device, which is notified to a subscriber.
LEMMA UpdateStep ==
  ASSUME TInv, NEW fn \in Offered, Update(fn), UNCHANGED fixed, UNCHANGED <<notifies, binds, unread>>
  PROVE  /\ device' \in [Offered -> Nat \ {0}] /\ cache' \in [Offered -> Nat]
         /\ \A g \in Offered : cache'[g] <= device'[g] /\ device'[g] <= device[g] + 1
         /\ Waiting' /\ Reported' /\ Pushes'
         /\ Grown /\ (\A m \in Plain : Answered(m)' => Answered(m))
         /\ Handling /\ Kept /\ Missed /\ Followed
<1>1. /\ device \in [Offered -> Nat \ {0}] /\ cache \in [Offered -> Nat]
      /\ \A g \in Offered : cache[g] <= device[g]
  BY DEF TInv, Versions
<1>2. /\ device' = [device EXCEPT ![fn] = @ + 1]
      /\ current' = {k \in current : \A t \in Declared[k[1]] : t.event = k[2] => t.function # fn}
      /\ notifies' = notifies /\ binds' = binds /\ unread' = unread
      /\ using' = using /\ features' = features /\ missing' = missing
  BY DEF Update, fixed
<1>3. /\ FeatureOf[fn] \in notifies =>
           /\ cache' = [cache EXCEPT ![fn] = device'[fn]]
           /\ handlers' = handlers (+) Spawned(fn, TRUE)
           /\ pushed' = (IF cache[fn] = 0 THEN pushed \cup {fn} ELSE pushed)
      /\ FeatureOf[fn] \notin notifies => cache' = cache /\ handlers' = handlers /\ pushed' = pushed
  BY DEF Update
<1>4. /\ device' \in [Offered -> Nat \ {0}] /\ device'[fn] = device[fn] + 1
      /\ \A g \in Offered : g # fn => device'[g] = device[g]
  BY <1>1, <1>2
<1>5. /\ cache' \in [Offered -> Nat]
      /\ \A g \in Offered : g # fn => cache'[g] = cache[g]
      /\ FeatureOf[fn] \in notifies => cache'[fn] = device'[fn]
      /\ FeatureOf[fn] \notin notifies => cache'[fn] = cache[fn]
  BY <1>1, <1>3, <1>4
<1>6. \A g \in Offered : cache'[g] <= device'[g] /\ device'[g] <= device[g] + 1
  <2> SUFFICES ASSUME NEW g \in Offered
               PROVE  cache'[g] <= device'[g] /\ device'[g] <= device[g] + 1
    OBVIOUS
  <2>1. device[g] \in Nat /\ cache[g] \in Nat /\ cache[g] <= device[g]
    BY <1>1
  <2>2. CASE g = fn
    BY <1>4, <1>5, <2>1, <2>2
  <2>3. CASE g # fn
    BY <1>4, <1>5, <2>1, <2>3
  <2> QED  BY <2>2, <2>3
<1>7. Offered' = Offered /\ Updates' = Updates
  BY <1>2 DEF Offered, Updates
<1>8. \A g \in Offered : cache[g] > 0 => cache'[g] > 0
  <2> SUFFICES ASSUME NEW g \in Offered, cache[g] > 0
               PROVE  cache'[g] > 0
    OBVIOUS
  <2>1. device[g] \in Nat \ {0} /\ cache[g] \in Nat
    BY <1>1
  <2> QED  BY <1>4, <1>5, <2>1
<1>9. \A g \in Offered : Cached({g}) => Cached({g})'
  BY <1>1, <1>5, <1>8 DEF Cached
<1>10. FeatureOf[fn] \in notifies => Cached({fn})'
  <2>1. device[fn] \in Nat
    BY <1>1
  <2>2. FeatureOf[fn] \in notifies => cache'[fn] > 0
    BY <1>4, <1>5, <2>1
  <2> QED  BY <1>5, <2>2 DEF Cached
<1>11. /\ IsBag(handlers') /\ DOMAIN handlers \subseteq DOMAIN handlers' /\ DOMAIN handlers' \subseteq Updates
       /\ \A h \in DOMAIN handlers' :
            \/ h \in DOMAIN handlers
            \/ /\ h.function = fn /\ fn \in DOMAIN UseCases[h.use].handlers
               /\ FeatureOf[fn] \in notifies
       /\ FeatureOf[fn] \in notifies =>
            \A u \in using : fn \in DOMAIN UseCases[u].handlers => Pending(u, fn)'
  <2>1. CASE FeatureOf[fn] \in notifies
    <3>1. fn \in FunctionTypes /\ TRUE \in BOOLEAN /\ handlers' = handlers (+) Spawned(fn, TRUE)
      BY <1>3, <2>1 DEF Offered
    <3>2. /\ IsBag(handlers') /\ DOMAIN handlers \subseteq DOMAIN handlers'
          /\ DOMAIN handlers' \subseteq Updates
          /\ \A h \in DOMAIN handlers' :
               h \in DOMAIN handlers \/ (h.function = fn /\ fn \in DOMAIN UseCases[h.use].handlers)
          /\ \A u \in using : fn \in DOMAIN UseCases[u].handlers => Pending(u, fn)'
      BY <3>1, SpawnedIs
    <3> QED  BY <2>1, <3>2
  <2>2. CASE FeatureOf[fn] \notin notifies
    BY <1>3, <2>2 DEF TInv, Waiting
  <2> QED  BY <2>1, <2>2
<1>12. Waiting'
  <2>1. \A h \in DOMAIN handlers : h.function \in Offered /\ Cached({h.function})
    BY <1>1 DEF TInv, Waiting, Cached
  <2>2. ASSUME NEW h \in DOMAIN handlers'
        PROVE  h.function \in DOMAIN UseCases[h.use].handlers /\ Cached({h.function})'
    <3>1. CASE h \in DOMAIN handlers
      BY <1>9, <2>1, <3>1 DEF TInv, Waiting
    <3>2. CASE /\ h.function = fn /\ fn \in DOMAIN UseCases[h.use].handlers
               /\ FeatureOf[fn] \in notifies
      BY <1>10, <3>2
    <3> QED  BY <1>11, <3>1, <3>2
  <2> QED  BY <1>7, <1>11, <2>2 DEF Waiting
<1>13. Reported'
  BY <1>2 DEF TInv, Reported
<1>14. \A g \in pushed' : g \in pushed \/ (g = fn /\ FeatureOf[fn] \in notifies)
  BY <1>3
<1>15. Pushes'
  <2>1. \A g \in pushed : g \in Offered /\ FeatureOf[g] \in notifies /\ Cached({g})'
    BY <1>9 DEF TInv, Pushes
  <2> QED  BY <1>2, <1>7, <1>10, <1>14, <2>1 DEF Pushes
<1>16. pushed \subseteq pushed'
  BY <1>3
<1>17. Grown
  BY <1>2, <1>8, <1>14, <1>16 DEF Grown
<1>18. \A m \in Plain : Answered(m)' => Answered(m)
  <2> SUFFICES ASSUME NEW m \in Plain, Answered(m)'
               PROVE  Answered(m)
    OBVIOUS
  <2>1. CASE m.kind # "read"
    BY <1>2, <2>1 DEF Answered, Done
  <2>2. CASE m.kind = "read"
    <3>1. m.function \in Offered /\ cache'[m.function] > 0 /\ m.function \notin pushed'
      BY <1>5, <2>2 DEF Answered, Done, Cached
    <3>2. m.function \notin pushed
      BY <1>16, <3>1
    <3>3. CASE m.function # fn \/ FeatureOf[fn] \notin notifies
      <4>1. cache[m.function] > 0
        BY <1>5, <3>1, <3>3
      <4> QED  BY <1>1, <2>2, <3>1, <3>2, <4>1 DEF Answered, Done, Cached
    <3>4. CASE m.function = fn /\ FeatureOf[fn] \in notifies
      <4>1. cache[fn] # 0
        BY <1>3, <3>1, <3>4
      <4>2. cache[fn] > 0
        BY <1>1, <4>1
      <4> QED  BY <1>1, <2>2, <3>1, <3>2, <3>4, <4>2 DEF Answered, Done, Cached
    <3> QED  BY <3>3, <3>4
  <2> QED  BY <2>1, <2>2
<1>19. Handling /\ Missed
  BY <1>2, <1>11 DEF Handling, Missed
<1>20. Kept
  <2> SUFFICES ASSUME NEW u \in using, NEW t \in Declared[u], <<u, t.event>> \in current,
                      <<u, t.event>> \notin current'
               PROVE  \E r \in Declared[u] :
                        /\ r.event = t.event
                        /\ FeatureOf[r.function] \in notifies /\ r.function \in DOMAIN UseCases[u].handlers
                             => Pending(u, r.function)'
    BY DEF Kept
  <2>1. PICK r \in Declared[u] : r.event = t.event /\ r.function = fn
    BY <1>2
  <2>2. FeatureOf[r.function] \in notifies /\ r.function \in DOMAIN UseCases[u].handlers
          => Pending(u, r.function)'
    BY <1>11, <2>1
  <2> QED  BY <2>1, <2>2
<1>21. Followed
  <2>1. CASE FeatureOf[fn] \in notifies
    BY <1>4, <1>5, <2>1 DEF Followed
  <2>2. CASE FeatureOf[fn] \notin notifies
    BY <1>4, <1>5, <2>2 DEF Followed
  <2> QED  BY <2>1, <2>2
<1> QED  BY <1>4, <1>5, <1>6, <1>12, <1>13, <1>15, <1>17, <1>18, <1>19, <1>20, <1>21

\* The device changes a value.
LEMMA ChangeStep ==
  ASSUME TInv, NEW fn \in DOMAIN device, Change(fn)
  PROVE  TInv' /\ Effects(0)
<1>1. /\ changes + Cardinality(missing) < MaxTrouble[using] /\ Update(fn) /\ changes' = changes + 1
      /\ UNCHANGED fixed /\ UNCHANGED <<notifies, binds, unread>>
      /\ UNCHANGED <<subscribed, bound, wire, connecting>>
      /\ using' = using /\ features' = features /\ missing' = missing
  BY DEF Change, fixed, net
<1>2. fn \in Offered
  BY DEF TInv, Versions
<1>3. /\ device' \in [Offered -> Nat \ {0}] /\ cache' \in [Offered -> Nat]
      /\ \A g \in Offered : cache'[g] <= device'[g] /\ device'[g] <= device[g] + 1
      /\ Waiting' /\ Reported' /\ Pushes'
      /\ Grown /\ (\A m \in Plain : Answered(m)' => Answered(m))
      /\ Handling /\ Kept /\ Missed /\ Followed
  BY <1>1, <1>2, UpdateStep
<1>4. Setting' /\ Links' /\ Advancing' /\ Wired'
  BY <1>1 DEF TInv, Setting, Links, Advancing, Wired, Messages, Posted, Readable
<1>5. Versions'
  <2>1. Offered' = Offered
    BY <1>1 DEF Offered
  <2>2. Cardinality(missing) \in Nat /\ changes \in Nat /\ MaxTrouble[using] \in Nat
    BY FS_CardinalityType, TroubleAssumption DEF TInv, Setting, Versions
  <2>3. changes' \in Nat /\ changes' + Cardinality(missing') <= MaxTrouble[using']
    BY <1>1, <2>2
  <2>4. Cardinality(WritesIn(wire)) \in Nat
    BY Counted DEF TInv, Wired
  <2>5. \A g \in Offered :
          cache'[g] <= device'[g] /\ device'[g] + Cardinality(WritesIn(wire')) <= 1 + changes'
    <3> SUFFICES ASSUME NEW g \in Offered
                 PROVE  cache'[g] <= device'[g] /\ device'[g] + Cardinality(WritesIn(wire')) <= 1 + changes'
      OBVIOUS
    <3>1. /\ device[g] \in Nat /\ device'[g] \in Nat /\ device'[g] <= device[g] + 1
          /\ device[g] + Cardinality(WritesIn(wire)) <= 1 + changes /\ cache'[g] <= device'[g]
      BY <1>3 DEF TInv, Versions
    <3> QED  BY <1>1, <2>2, <2>4, <3>1
  <2> QED  BY <1>3, <2>1, <2>3, <2>5 DEF Versions
<1>6. Follows(wire', wire, 0, Fresh)
  BY <1>1, FollowsSame DEF TInv, Wired
<1>7. Credited(0)
  BY <1>3 DEF Credited
<1>8. Advanced
  <2>1. \A v \in using : connecting[v] \in Nat
    BY DEF TInv, Advancing
  <2>2. \A v \in using : connecting[v] <= connecting'[v] /\ \A j \in 1 .. connecting'[v] : j <= connecting[v]
    BY <1>1, <2>1
  <2> QED  BY <1>1, <2>2 DEF Advanced
<1> QED  BY <1>1, <1>3, <1>4, <1>5, <1>6, <1>7, <1>8 DEF TInv, Effects

\* The device accepts a write.
LEMMA AcceptStep ==
  ASSUME TInv, Accept
  PROVE  TInv' /\ Effects(1)
<1>1. PICK m : m = Head(wire)
  OBVIOUS
<1>2. PICK fn : fn = m.function
  OBVIOUS
<1>3. PICK again : again = Requests(m.again)
  OBVIOUS
<1>4. /\ wire # <<>> /\ m.kind = "write" /\ Update(fn) /\ wire' = Tail(wire) \o again
      /\ UNCHANGED fixed /\ UNCHANGED <<notifies, binds, unread>>
      /\ UNCHANGED <<subscribed, bound, connecting, changes>>
      /\ using' = using /\ features' = features /\ missing' = missing
  BY <1>1, <1>2, <1>3 DEF Accept, fixed, net
<1>5. /\ m = wire[1] /\ 1 \in 1 .. Len(wire) /\ Posted(m) /\ m \in WriteMessages(using) /\ m \notin Plain
      /\ Tail(wire) \in Seq(Messages)
      /\ Cardinality(WritesIn(wire)) \in Nat /\ Cardinality(WritesIn(Tail(wire))) \in Nat
      /\ Cardinality(WritesIn(Tail(wire))) = Cardinality(WritesIn(wire)) - 1
  BY <1>1, <1>4, HeadIs
<1>6. PICK u \in using, w \in UNION {DOMAIN UseCases[v].writes : v \in using} :
        w \in DOMAIN UseCases[u].writes /\ m = WriteOf(u, w)
  BY <1>5, WriteIs
<1>7. /\ fn = UseCases[u].writes[w].function /\ m.again = UseCases[u].writes[w].again
      /\ m.feature = FeatureOf[fn]
  BY <1>2, <1>6 DEF WriteOf
<1>8. fn \in FunctionTypes /\ FeatureOf[fn] \in FeatureTypes /\ m.again \in Seq(FunctionsAt(FeatureOf[fn]))
  <2>1. WellFormed(using, u)
    BY Tables DEF TInv
  <2> QED  BY <1>6, <1>7, <2>1, Homes DEF WellFormed
<1>9. fn \in Offered
  BY <1>4, <1>5, <1>7, <1>8 DEF Offered, Posted
<1>10. /\ device' \in [Offered -> Nat \ {0}] /\ cache' \in [Offered -> Nat]
       /\ \A g \in Offered : cache'[g] <= device'[g] /\ device'[g] <= device[g] + 1
       /\ Waiting' /\ Reported' /\ Pushes'
       /\ Grown /\ (\A x \in Plain : Answered(x)' => Answered(x))
       /\ Handling /\ Kept /\ Missed /\ Followed
  BY <1>4, <1>9, UpdateStep
<1>11. /\ again \in Seq(Messages)
       /\ \A k \in 1 .. Len(again) :
            /\ again[k].kind = "read" /\ again[k] \in Plain
            /\ \E i \in DOMAIN m.again : /\ m.again[i] \in FunctionTypes /\ again[k] = Read(m.again[i])
                                         /\ Readable(Read(m.again[i]))
  BY <1>3, <1>8, RequestsRead
<1>12. /\ wire' \in Seq(Messages)
       /\ Cardinality(WritesIn(wire')) = Cardinality(WritesIn(wire)) - 1
  <2>1. \A k \in 1 .. Len(again) : again[k].kind # "write"
    BY <1>11
  <2>2. Cardinality(WritesIn(Tail(wire) \o again)) = Cardinality(WritesIn(Tail(wire)))
    BY <1>5, <1>11, <2>1, Counted
  <2> QED  BY <1>4, <1>5, <1>11, <2>2, ConcatProperties
<1>13. Wired' /\ Follows(wire', wire, 1, Fresh)
  <2>1. PICK N : N = {x \in ReadAgain(u) : PostedNext(x)}
    OBVIOUS
  <2>2. \A k \in 1 .. Len(again) : again[k] \in N
    <3> SUFFICES ASSUME NEW k \in 1 .. Len(again)
                 PROVE  again[k] \in N
      OBVIOUS
    <3>1. PICK i \in DOMAIN m.again : /\ m.again[i] \in FunctionTypes /\ again[k] = Read(m.again[i])
                                      /\ Readable(Read(m.again[i]))
      BY <1>11
    <3>2. Repeats(u, m.again[i])
      BY <1>6, <1>7, <3>1 DEF Repeats
    <3>3. again[k] \in ReadAgain(u)
      BY <3>1, <3>2 DEF ReadAgain
    <3>4. PostedNext(again[k])
      BY <1>11, <3>1 DEF PostedNext
    <3> QED  BY <2>1, <3>3, <3>4
  <2>3. wire \in Seq(Messages)
    BY DEF TInv, Wired
  <2>4. Follows(Tail(wire) \o again, wire, 1, N)
    BY <1>4, <1>11, <2>2, <2>3, FollowsTake
  <2>5. N \subseteq Fresh /\ \A x \in N : PostedNext(x)
    BY <2>1 DEF Fresh
  <2>6. 1 \in {0, 1} /\ UNCHANGED fixed /\ subscribed \subseteq subscribed' /\ bound \subseteq bound'
    BY <1>4
  <2>7. wire' = Tail(wire) \o again
    BY <1>4
  <2> QED  BY <1>12, <2>4, <2>5, <2>6, <2>7, WiredNext
<1>14. Setting' /\ Links' /\ Advancing'
  BY <1>4 DEF TInv, Setting, Links, Advancing
<1>15. Versions'
  <2>1. Offered' = Offered
    BY <1>4 DEF Offered
  <2>2. \A g \in Offered :
          cache'[g] <= device'[g] /\ device'[g] + Cardinality(WritesIn(wire')) <= 1 + changes'
    <3> SUFFICES ASSUME NEW g \in Offered
                 PROVE  cache'[g] <= device'[g] /\ device'[g] + Cardinality(WritesIn(wire')) <= 1 + changes'
      OBVIOUS
    <3>1. /\ device[g] \in Nat /\ device'[g] \in Nat /\ device'[g] <= device[g] + 1 /\ changes \in Nat
          /\ device[g] + Cardinality(WritesIn(wire)) <= 1 + changes /\ cache'[g] <= device'[g]
      BY <1>10 DEF TInv, Versions
    <3> QED  BY <1>4, <1>5, <1>12, <3>1
  <2>3. changes' \in Nat /\ changes' + Cardinality(missing') <= MaxTrouble[using']
    BY <1>4 DEF TInv, Versions
  <2> QED  BY <1>10, <2>1, <2>2, <2>3 DEF Versions
<1>16. Delivered(m)
  BY <1>4, <1>5 DEF Delivered
<1>17. Credited(1)
  BY <1>10 DEF Credited
<1>18. Advanced
  <2>1. \A v \in using : connecting[v] \in Nat
    BY DEF TInv, Advancing
  <2>2. \A v \in using : connecting[v] <= connecting'[v] /\ \A j \in 1 .. connecting'[v] : j <= connecting[v]
    BY <1>4, <2>1
  <2> QED  BY <1>4, <2>2 DEF Advanced
<1> QED  BY <1>4, <1>5, <1>10, <1>13, <1>14, <1>15, <1>16, <1>17, <1>18 DEF TInv, Effects

\* The features that are there are features.
LEMMA Existing ==
  ASSUME Setting
  PROVE  /\ features \subseteq FeatureTypes /\ Handled(using) \subseteq FunctionTypes
         /\ Offered = UNION {FunctionsOf[f] : f \in features}
<1>1. features \subseteq Clients(using)
  BY DEF Setting
<1>2. Clients(using) \subseteq FeatureTypes /\ Handled(using) \subseteq FunctionTypes
  BY Tables DEF Clients, Handled, WellFormed
<1>3. features \subseteq FeatureTypes
  BY <1>1, <1>2
<1>4. \A f \in features : FunctionsOf[f] = {fn \in FunctionTypes : FeatureOf[fn] = f}
  BY <1>3, OneHome DEF FunctionsAt
<1>5. Offered = UNION {FunctionsOf[f] : f \in features}
  BY <1>4 DEF Offered
<1> QED  BY <1>2, <1>3, <1>5

\* The type of the state holds at first.
LEMMA TypeInit == Init => TInv
<1> SUFFICES ASSUME Init
             PROVE  TInv
  OBVIOUS
<1>1. Setting /\ Cardinality(missing) \in Nat /\ Cardinality(missing) <= MaxTrouble[using]
  <2>1. /\ using \in Uses /\ features \in {Clients(using), Clients(using) \cap Required(using)}
        /\ missing \in SUBSET Handled(using) /\ Cardinality(missing) <= MaxTrouble[using]
    BY DEF Init
  <2>2. Handled(using) \subseteq FunctionTypes
    BY <2>1, TablesAssumption DEF Handled, WellFormed
  <2>3. missing \in SUBSET FunctionTypes
    BY <2>1, <2>2
  <2>4. IsFiniteSet(missing)
    BY <2>3, FewFunctions, FS_Subset
  <2> QED  BY <2>1, <2>4, FS_CardinalityType DEF Setting
<1>2. Versions
  <2>1. device = [fn \in Offered |-> 1] /\ cache = [fn \in Offered |-> 0] /\ changes = 0 /\ wire = <<>>
    BY <1>1, Existing DEF Init
  <2>2. WritesIn(wire) = {}
    BY <2>1, EmptySeq DEF WritesIn
  <2>3. Cardinality(WritesIn(wire)) = 0
    BY <2>2, FS_EmptySet
  <2> QED  BY <1>1, <2>1, <2>3 DEF Versions
<1>3. Links /\ Reported /\ Pushes
  BY DEF Init, Links, Reported, Pushes
<1>4. Wired
  BY EmptySeq DEF Init, Wired
<1>5. Advancing
  BY <1>1, Connects DEF Init, Advancing
<1>6. Waiting
  BY Empty DEF Init, Waiting
<1> QED  BY <1>1, <1>2, <1>3, <1>4, <1>5, <1>6 DEF TInv

\* What a step does.
LEMMA Steps ==
  ASSUME TInv, [Next]_vars
  PROVE  TInv' /\ \E t \in {0, 1} : Effects(t)
<1>1. CASE \E u \in using : Connected(u)
  BY <1>1, ConnectedStep
<1>2. CASE \E h \in BagToSet(handlers) : HandleEvent(h)
  BY <1>2, HandleStep DEF BagToSet
<1>3. CASE \E u \in using : \E w \in DOMAIN UseCases[u].writes : Write(u, w)
  BY <1>3, WriteStep
<1>4. CASE AnswerSubscribe \/ AnswerBind \/ Reject
  BY <1>4, LinkStep
<1>5. CASE AnswerRead
  BY <1>5, ReadStep
<1>6. CASE Accept
  BY <1>6, AcceptStep
<1>7. CASE \E fn \in DOMAIN device : Change(fn)
  BY <1>7, ChangeStep
<1>8. CASE UNCHANGED vars
  BY <1>8, Idle
<1> QED  BY <1>1, <1>2, <1>3, <1>4, <1>5, <1>6, <1>7, <1>8 DEF Next

\* The type of the state follows from it.
LEMMA TypeFollows == TInv => TypeOK
<1> SUFFICES ASSUME TInv
             PROVE  TypeOK
  OBVIOUS
<1>1. features \subseteq FeatureTypes /\ missing \subseteq FunctionTypes
  BY Existing DEF TInv, Setting
<1>2. \A fn \in DOMAIN device : device[fn] \in 1 .. (1 + MaxTrouble[using]) /\ cache[fn] \in 0 .. device[fn]
  <2>1. /\ changes \in Nat /\ Cardinality(missing) \in Nat /\ MaxTrouble[using] \in Nat
        /\ Cardinality(WritesIn(wire)) \in Nat
    BY FS_CardinalityType, TroubleAssumption, Counted DEF TInv, Setting, Versions, Wired
  <2>2. changes + Cardinality(missing) <= MaxTrouble[using]
    BY DEF TInv, Versions
  <2> SUFFICES ASSUME NEW fn \in Offered
               PROVE  device[fn] \in 1 .. (1 + MaxTrouble[using]) /\ cache[fn] \in 0 .. device[fn]
    BY DEF TInv, Versions
  <2>3. /\ device[fn] \in Nat \ {0} /\ cache[fn] \in Nat /\ cache[fn] <= device[fn]
        /\ device[fn] + Cardinality(WritesIn(wire)) <= 1 + changes
    BY DEF TInv, Versions
  <2> QED  BY <2>1, <2>2, <2>3
<1>3. pushed \subseteq DOMAIN cache
  BY DEF TInv, Versions, Pushes
<1>4. /\ notifies \subseteq subscribed /\ binds \subseteq bound
      /\ subscribed \subseteq features /\ bound \subseteq features
  BY DEF TInv, Links
<1>5. \A u \in using : connecting[u] \in 0 .. Len(UseCases[u].connected)
  BY Connects DEF TInv, Advancing
<1>6. \A h \in BagToSet(handlers) : h.function \in DOMAIN UseCases[h.use].handlers
  BY DEF TInv, Waiting, BagToSet
<1>7. current \cup unread \subseteq UNION {{<<u, t.event>> : t \in Declared[u]} : u \in using}
  BY DEF TInv, Reported
<1> QED  BY <1>1, <1>2, <1>3, <1>4, <1>5, <1>6, <1>7 DEF TypeOK

\* Every variable keeps its type: versions are bounded by the trouble there is,
\* nothing is notified or bound at the device that is not in the local lists, and
\* every update that waits has a handler (RemoteData.TypeOK).
THEOREM TypeCorrect == Spec => []TypeOK
<1>1. Init => TInv
  BY TypeInit
<1>2. TInv /\ [Next]_vars => TInv'
  BY Steps
<1> QED  BY <1>1, <1>2, TypeFollows, PTL DEF Spec

-----------------------------------------------------------------------------
\* What is sent and answered in which order.

\* What the messages about a feature are.
LEMMA LinkIs ==
  ASSUME NEW f \in FeatureTypes
  PROVE  /\ Subscribe(f) \in Plain /\ Bind(f) \in Plain /\ ReadsAt(f) \subseteq Plain
         /\ Subscribe(f).kind = "subscribe" /\ Subscribe(f).feature = f
         /\ Bind(f).kind = "bind" /\ Bind(f).feature = f
<1>1. About(f) \subseteq Plain
  BY DEF Plain
<1>2. Subscribe(f) \in About(f) /\ Bind(f) \in About(f) /\ ReadsAt(f) \subseteq About(f)
  BY DEF About
<1>3. /\ Subscribe(f).kind = "subscribe" /\ Subscribe(f).feature = f
      /\ Bind(f).kind = "bind" /\ Bind(f).feature = f
  BY DEF Subscribe, Bind, Message
<1> QED  BY <1>1, <1>2, <1>3

\* What the request of a function is.
LEMMA ReadIs ==
  ASSUME NEW fn \in FunctionTypes
  PROVE  /\ FeatureOf[fn] \in FeatureTypes
         /\ Read(fn) \in Plain /\ Read(fn) \in ReadsAt(FeatureOf[fn]) /\ Read(fn) \in About(FeatureOf[fn])
         /\ Read(fn).kind = "read" /\ Read(fn).function = fn /\ Read(fn).feature = FeatureOf[fn]
<1>1. FeatureOf[fn] \in FeatureTypes
  BY Homes
<1>2. Read(fn) \in ReadsAt(FeatureOf[fn])
  BY DEF ReadsAt, FunctionsAt
<1>3. Read(fn).kind = "read" /\ Read(fn).function = fn /\ Read(fn).feature = FeatureOf[fn]
  BY DEF Read, Message
<1> QED  BY <1>1, <1>2, <1>3 DEF About, Plain

\* What is done stays done.
LEMMA DoneStays ==
  ASSUME TInv, TInv', NEW t \in {0, 1}, Effects(t), NEW m, Done(m)
  PROVE  Done(m)'
<1>1. notifies \subseteq notifies' /\ binds \subseteq binds'
  BY DEF Effects, Grown
<1>2. Cached({m.function}) => Cached({m.function})'
  <2>1. DOMAIN cache = Offered /\ DOMAIN cache' = Offered
    BY DEF TInv, Versions, Effects, fixed, Offered
  <2> QED  BY <2>1 DEF Cached, Effects, Grown
<1> QED  BY <1>1, <1>2 DEF Done

\* A message moves on towards the device, until it is taken and done.
LEMMA OnStays ==
  ASSUME TInv, TInv', NEW t \in {0, 1}, Effects(t), NEW m \in Plain, NEW i \in 1 .. Len(wire), wire[i] = m
  PROVE  Done(m)' \/ (i > t /\ i - t \in 1 .. Len(wire') /\ wire'[i - t] = m)
<1>1. CASE i > t
  BY <1>1 DEF Effects, Follows
<1>2. CASE ~(i > t)
  <2>1. t = 1 /\ i = 1
    BY <1>2
  <2>2. Delivered(m)
    BY <2>1 DEF Effects
  <2> QED  BY <2>2 DEF Delivered
<1> QED  BY <1>1, <1>2

\* What was sent is on its way until it is done.
LEMMA SentStays ==
  ASSUME TInv, TInv', NEW t \in {0, 1}, Effects(t), NEW m \in Plain, Done(m) \/ On(m)
  PROVE  Done(m)' \/ On(m)'
<1>1. CASE Done(m)
  BY <1>1, DoneStays
<1>2. CASE On(m)
  <2>1. PICK i \in 1 .. Len(wire) : wire[i] = m
    BY <1>2 DEF On
  <2>2. Done(m)' \/ \E j \in 1 .. Len(wire') : wire'[j] = m
    BY <2>1, OnStays
  <2> QED  BY <2>2 DEF On
<1> QED  BY <1>1, <1>2

\* Every subscription and binding of the local lists is sent.
LEMMA SentStep ==
  ASSUME TInv, TInv', NEW t \in {0, 1}, Effects(t), SentInv
  PROVE  SentInv'
<1>1. features \subseteq FeatureTypes /\ features' \subseteq FeatureTypes
  BY Existing DEF TInv, Effects, fixed
<1>2. \A f \in FeatureTypes : /\ Subscribe(f) \in Plain /\ Bind(f) \in Plain
                              /\ Subscribe(f).kind = "subscribe" /\ Subscribe(f).feature = f
                              /\ Bind(f).kind = "bind" /\ Bind(f).feature = f
  BY LinkIs
<1>3. ASSUME NEW f \in subscribed'
      PROVE  f \in notifies' \/ On(Subscribe(f))'
  <2>1. f \in FeatureTypes
    BY <1>1 DEF TInv, Links
  <2>2. CASE f \in subscribed
    <3>1. Done(Subscribe(f)) \/ On(Subscribe(f))
      BY <1>2, <2>1, <2>2 DEF SentInv, Done
    <3>2. Done(Subscribe(f))' \/ On(Subscribe(f))'
      BY <1>2, <2>1, <3>1, SentStays
    <3> QED  BY <1>2, <2>1, <3>2 DEF Done
  <2>3. CASE f \notin subscribed
    BY <2>3 DEF Effects, Advanced
  <2> QED  BY <2>2, <2>3
<1>4. ASSUME NEW f \in bound'
      PROVE  f \in binds' \/ On(Bind(f))'
  <2>1. f \in FeatureTypes
    BY <1>1 DEF TInv, Links
  <2>2. CASE f \in bound
    <3>1. Done(Bind(f)) \/ On(Bind(f))
      BY <1>2, <2>1, <2>2 DEF SentInv, Done
    <3>2. Done(Bind(f))' \/ On(Bind(f))'
      BY <1>2, <2>1, <3>1, SentStays
    <3> QED  BY <1>2, <2>1, <3>2 DEF Done
  <2>3. CASE f \notin bound
    BY <2>3 DEF Effects, Advanced
  <2> QED  BY <2>2, <2>3
<1> QED  BY <1>3, <1>4 DEF SentInv

\* A connect method that is past a message that it has to send has sent it.
LEMMA PassedStays ==
  ASSUME TInv, TInv', NEW t \in {0, 1}, Effects(t), SentInv,
         NEW m \in Plain, m.feature \in features, m.kind = "read" => Readable(m),
         \A u \in using : \A j \in 1 .. connecting[u] : UseCases[u].connected[j] = m => Done(m) \/ On(m)
  PROVE  \A u \in using : \A j \in 1 .. connecting'[u] : UseCases[u].connected[j] = m => Done(m)' \/ On(m)'
<1> SUFFICES ASSUME NEW u \in using, NEW j \in 1 .. connecting'[u], UseCases[u].connected[j] = m
             PROVE  Done(m)' \/ On(m)'
  OBVIOUS
<1>1. j <= connecting[u] \/ SentFor(m)
  BY DEF Effects, Advanced
<1>2. CASE j <= connecting[u]
  <2>1. j \in 1 .. connecting[u]
    BY <1>2 DEF TInv, Advancing
  <2> QED  BY <2>1, SentStays
<1>3. CASE SentFor(m)
  <2>1. CASE m.kind = "read"
    BY <1>3, <2>1 DEF SentFor
  <2>2. CASE m.kind = "subscribe" /\ m.feature \notin subscribed
    BY <1>3, <2>2 DEF SentFor
  <2>3. CASE m.kind = "subscribe" /\ m.feature \in subscribed
    <3>1. Done(m) \/ On(m)
      BY <2>3, PlainIs DEF SentInv, Done
    <3> QED  BY <3>1, SentStays
  <2>4. CASE m.kind = "bind" /\ m.feature \notin bound
    BY <1>3, <2>4 DEF SentFor
  <2>5. CASE m.kind = "bind" /\ m.feature \in bound
    <3>1. Done(m) \/ On(m)
      BY <2>5, PlainIs DEF SentInv, Done
    <3> QED  BY <3>1, SentStays
  <2> QED  BY <2>1, <2>2, <2>3, <2>4, <2>5, PlainIs
<1> QED  BY <1>1, <1>2, <1>3

\* If every connect method sends m before the messages in later, no handler
\* requests them before m is done, and no result of a write, then m stays first.
LEMMA OrderStays ==
  ASSUME TInv, TInv', NEW t \in {0, 1}, Effects(t), SentInv,
         NEW m \in Plain, m.feature \in features, m.kind = "read" => Readable(m),
         NEW later \in SUBSET Plain, Before(using, m, later), Ordered(m, later),
         \A n \in FunctionTypes : Read(n) \in later =>
           \A v \in using : /\ ~Repeats(v, n)
                            /\ \A by \in FunctionTypes : Triggers(v, by, n) /\ Cached({by}) => Done(m)
  PROVE  Ordered(m, later)'
<1>1. \A x : x \in Fresh /\ x \in later => Done(m) \/ On(m)
  <2> SUFFICES ASSUME NEW x \in later, x \in Fresh
               PROVE  Done(m) \/ On(m)
    OBVIOUS
  <2>1. PICK u \in using : x \in NextOf(u) \cup Requested(u) \cup ReadAgain(u) \cup Writable(u)
    BY DEF Fresh
  <2>2. CASE x \in NextOf(u)
    <3>1. connecting[u] \in Nat /\ connecting[u] + 1 \in 1 .. Len(UseCases[u].connected)
          /\ x = UseCases[u].connected[connecting[u] + 1]
      BY <2>2 DEF NextOf, TInv, Advancing
    <3>2. connecting[u] + 1 \in DOMAIN UseCases[u].connected
      BY <3>1, Connects DEF TInv
    <3>3. PICK j \in 1 .. (connecting[u] + 1) - 1 : UseCases[u].connected[j] = m
      BY <3>1, <3>2 DEF Before
    <3>4. j \in 1 .. connecting[u]
      BY <3>1
    <3> QED  BY <3>3, <3>4 DEF Ordered
  <2>3. CASE x \in Requested(u)
    BY <2>3 DEF Requested
  <2>4. CASE x \in ReadAgain(u)
    BY <2>4 DEF ReadAgain
  <2>5. CASE x \in Writable(u)
    <3>1. x.kind = "write"
      BY <2>5 DEF Writable, WriteOf
    <3> QED  BY <3>1, PlainIs
  <2> QED  BY <2>1, <2>2, <2>3, <2>4, <2>5
<1>2. \A k \in 1 .. Len(wire') : wire'[k] \in later => Done(m)' \/ \E j \in 1 .. k - 1 : wire'[j] = m
  <2> SUFFICES ASSUME NEW k \in 1 .. Len(wire'), wire'[k] \in later
               PROVE  Done(m)' \/ \E j \in 1 .. k - 1 : wire'[j] = m
    OBVIOUS
  <2>1. Len(wire) \in Nat /\ Len(wire') \in Nat
    BY LenProperties DEF TInv, Wired
  <2>2. \/ k + t \in 1 .. Len(wire) /\ wire'[k] = wire[k + t]
        \/ k + t > Len(wire) /\ wire'[k] \in Fresh
    BY DEF Effects, Follows
  <2>3. Done(m) \/ \E i \in 1 .. Len(wire) : i < k + t /\ wire[i] = m
    <3>1. CASE k + t \in 1 .. Len(wire) /\ wire'[k] = wire[k + t]
      <4>1. Done(m) \/ \E i \in 1 .. (k + t) - 1 : wire[i] = m
        BY <3>1 DEF Ordered
      <4>2. \A i \in 1 .. (k + t) - 1 : i \in 1 .. Len(wire) /\ i < k + t
        BY <2>1, <3>1
      <4> QED  BY <4>1, <4>2
    <3>2. CASE k + t > Len(wire) /\ wire'[k] \in Fresh
      <4>1. Done(m) \/ On(m)
        BY <1>1, <3>2
      <4>2. \A i \in 1 .. Len(wire) : i < k + t
        BY <2>1, <3>2
      <4> QED  BY <4>1, <4>2 DEF On
    <3> QED  BY <2>2, <3>1, <3>2
  <2>4. CASE Done(m)
    BY <2>4, DoneStays
  <2>5. ASSUME NEW i \in 1 .. Len(wire), i < k + t, wire[i] = m
        PROVE  Done(m)' \/ \E j \in 1 .. k - 1 : wire'[j] = m
    <3>1. Done(m)' \/ (i > t /\ i - t \in 1 .. Len(wire') /\ wire'[i - t] = m)
      BY <2>5, OnStays
    <3>2. i > t => i - t \in 1 .. k - 1
      BY <2>1, <2>5
    <3> QED  BY <3>1, <3>2
  <2> QED  BY <2>3, <2>4, <2>5
<1>3. \A u \in using : \A j \in 1 .. connecting'[u] : UseCases[u].connected[j] = m => Done(m)' \/ On(m)'
  <2>1. \A u \in using : \A j \in 1 .. connecting[u] : UseCases[u].connected[j] = m => Done(m) \/ On(m)
    BY DEF Ordered
  <2> QED  BY <2>1, PassedStays
<1>4. ASSUME NEW x \in later, Answered(x)'
      PROVE  Done(m)'
  <2>1. CASE Answered(x)
    <3>1. Done(m)
      BY <1>4, <2>1 DEF Ordered
    <3> QED  BY <3>1, DoneStays
  <2>2. CASE t = 1 /\ x = wire[1]
    <3>1. 1 \in 1 .. Len(wire)
      BY <2>2 DEF Effects
    <3>2. Done(m) \/ \E j \in 1 .. 1 - 1 : wire[j] = m
      BY <2>2, <3>1 DEF Ordered
    <3>3. Done(m)
      BY <3>2
    <3> QED  BY <3>3, DoneStays
  <2> QED  BY <1>4, <2>1, <2>2 DEF Effects, Credited
<1>5. using' = using
  BY DEF Effects, fixed
<1> QED  BY <1>2, <1>3, <1>4, <1>5 DEF Ordered

\* What is cached was asked for or pushed, so what stays before it is done.
LEMMA CachedLed ==
  ASSUME TInv, NEW f \in FeatureTypes, NEW m, Ordered(m, About(f)),
         NEW by \in FunctionsAt(f), Cached({by})
  PROVE  Done(m)
<1>1. by \in FunctionTypes /\ FeatureOf[by] = f
  BY DEF FunctionsAt
<1>2. CASE by \in pushed
  <2>1. f \in notifies
    BY <1>1, <1>2 DEF TInv, Pushes
  <2>2. Answered(Subscribe(f)) /\ Subscribe(f) \in About(f)
    BY <2>1, LinkIs DEF Answered, Done, About
  <2> QED  BY <2>2 DEF Ordered
<1>3. CASE by \notin pushed
  <2>1. Answered(Read(by)) /\ Read(by) \in About(f)
    BY <1>1, <1>3, ReadIs DEF Answered, Done
  <2> QED  BY <2>1 DEF Ordered
<1> QED  BY <1>2, <1>3

\* So it is with the subscription that stays before the requests.
LEMMA CachedSubscribed ==
  ASSUME TInv, NEW f \in FeatureTypes, Ordered(Subscribe(f), ReadsAt(f)),
         NEW by \in FunctionsAt(f), Cached({by})
  PROVE  f \in notifies
<1>1. by \in FunctionTypes /\ FeatureOf[by] = f
  BY DEF FunctionsAt
<1>2. CASE by \in pushed
  BY <1>1, <1>2 DEF TInv, Pushes
<1>3. CASE by \notin pushed
  <2>1. Answered(Read(by)) /\ Read(by) \in ReadsAt(f)
    BY <1>1, <1>3, ReadIs DEF Answered, Done
  <2>2. Done(Subscribe(f))
    BY <2>1 DEF Ordered
  <2> QED  BY <2>2, LinkIs DEF Done
<1> QED  BY <1>2, <1>3

\* A handler asks for functions of its own feature.
LEMMA TriggersAt ==
  ASSUME Setting, NEW v \in using, NEW by, NEW n, Triggers(v, by, n)
  PROVE  /\ by \in DOMAIN UseCases[v].handlers
         /\ by \in FunctionTypes /\ n \in FunctionTypes /\ FeatureOf[n] = FeatureOf[by]
         /\ by \in FunctionsAt(FeatureOf[n])
<1>1. by \in DOMAIN UseCases[v].handlers
  BY DEF Triggers
<1>2. by \in FunctionTypes /\ UseCases[v].handlers[by].requests \in Seq(FunctionsAt(FeatureOf[by]))
  BY <1>1, HandlerRequests
<1>3. n \in FunctionsAt(FeatureOf[by])
  BY <1>2, ElementOfSeq, LenProperties DEF Triggers
<1> QED  BY <1>1, <1>2, <1>3 DEF FunctionsAt

\* A read that is about a feature is of a function of it.
LEMMA ReadAbout ==
  ASSUME NEW f \in FeatureTypes, NEW n \in FunctionTypes, Read(n) \in About(f)
  PROVE  n \in FunctionsAt(f)
<1>1. Read(n) # Subscribe(f) /\ Read(n) # Bind(f)
  BY LinkIs, ReadIs
<1>2. PICK k \in FunctionsAt(f) : Read(n) = Read(k)
  BY <1>1 DEF About, ReadsAt
<1>3. k = n
  BY <1>2, ReadIs DEF FunctionsAt
<1> QED  BY <1>2, <1>3

\* What leads a feature stays before it.
LEMMA LedStep ==
  ASSUME TInv, TInv', NEW t \in {0, 1}, Effects(t), SentInv, LedInv
  PROVE  LedInv'
<1> SUFFICES ASSUME NEW n \in FunctionTypes, NEW f \in FeatureTypes, Leads(using, n, f), Readable(Read(n))
             PROVE  Ordered(Read(n), About(f))'
  BY DEF LedInv, Effects, fixed, Readable
<1>1. Ordered(Read(n), About(f)) /\ Before(using, Read(n), About(f)) /\ ~Repeated(using, f)
  BY DEF LedInv, Leads
<1>2. Read(n) \in Plain /\ Read(n).feature \in features /\ About(f) \in SUBSET Plain
  BY ReadIs DEF Readable, Plain
<1>3. ASSUME NEW k \in FunctionTypes, Read(k) \in About(f), NEW v \in using
      PROVE  /\ ~Repeats(v, k)
             /\ \A by \in FunctionTypes : Triggers(v, by, k) /\ Cached({by}) => Done(Read(n))
  <2>1. k \in FunctionsAt(f)
    BY <1>3, ReadAbout
  <2>2. ~Repeats(v, k)
    BY <1>1, <2>1 DEF Repeated
  <2>3. ASSUME NEW by \in FunctionTypes, Triggers(v, by, k), Cached({by})
        PROVE  Done(Read(n))
    <3>1. by \in FunctionsAt(f)
      BY <2>1, <2>3, TriggersAt DEF FunctionsAt, TInv
    <3> QED  BY <1>1, <2>3, <3>1, CachedLed
  <2> QED  BY <2>2, <2>3
<1> QED  BY <1>1, <1>2, <1>3, OrderStays

\* A subscription stays before the requests.
LEMMA SubscribedStep ==
  ASSUME TInv, TInv', NEW t \in {0, 1}, Effects(t), SentInv, SubscribedInv
  PROVE  SubscribedInv'
<1> SUFFICES ASSUME NEW f \in features, Subscribed(using, f)
             PROVE  Ordered(Subscribe(f), ReadsAt(f))'
  BY DEF SubscribedInv, Effects, fixed
<1>1. f \in FeatureTypes
  BY Existing DEF TInv
<1>2. /\ Ordered(Subscribe(f), ReadsAt(f)) /\ Before(using, Subscribe(f), ReadsAt(f))
      /\ ~Repeated(using, f)
  BY DEF SubscribedInv, Subscribed
<1>3. /\ Subscribe(f) \in Plain /\ Subscribe(f).feature \in features /\ Subscribe(f).kind # "read"
      /\ ReadsAt(f) \in SUBSET Plain
  BY <1>1, LinkIs
<1>4. ASSUME NEW k \in FunctionTypes, Read(k) \in ReadsAt(f), NEW v \in using
      PROVE  /\ ~Repeats(v, k)
             /\ \A by \in FunctionTypes : Triggers(v, by, k) /\ Cached({by}) => Done(Subscribe(f))
  <2>1. k \in FunctionsAt(f)
    BY <1>1, <1>4, ReadAbout DEF About
  <2>2. ~Repeats(v, k)
    BY <1>2, <2>1 DEF Repeated
  <2>3. ASSUME NEW by \in FunctionTypes, Triggers(v, by, k), Cached({by})
        PROVE  Done(Subscribe(f))
    <3>1. by \in FunctionsAt(f)
      BY <2>1, <2>3, TriggersAt DEF FunctionsAt, TInv
    <3>2. f \in notifies
      BY <1>1, <1>2, <2>3, <3>1, CachedSubscribed
    <3> QED  BY <1>1, <3>2, LinkIs DEF Done
  <2> QED  BY <2>2, <2>3
<1> QED  BY <1>2, <1>3, <1>4, OrderStays

\* A binding stays before what is requested after it only.
LEMMA BoundStep ==
  ASSUME TInv, TInv', NEW t \in {0, 1}, Effects(t), SentInv, BoundInv
  PROVE  BoundInv'
<1> SUFFICES ASSUME NEW n \in Offered, BoundFirst(using, n)
             PROVE  Ordered(Bind(FeatureOf[n]), {Read(n)})'
  BY DEF BoundInv, Effects, fixed, Offered
<1>1. PICK f : f = FeatureOf[n]
  OBVIOUS
<1>2. n \in FunctionTypes /\ f \in features /\ f \in FeatureTypes
  BY <1>1, Homes DEF Offered
<1>3. /\ Ordered(Bind(f), {Read(n)}) /\ Before(using, Bind(f), {Read(n)})
      /\ \A v \in using : ~Repeats(v, n) /\ \A by \in FunctionTypes : ~Triggers(v, by, n)
  BY <1>1 DEF BoundInv, BoundFirst
<1>4. /\ Bind(f) \in Plain /\ Bind(f).feature \in features /\ Bind(f).kind # "read"
      /\ {Read(n)} \in SUBSET Plain
  BY <1>2, LinkIs, ReadIs
<1>5. ASSUME NEW k \in FunctionTypes, Read(k) \in {Read(n)}, NEW v \in using
      PROVE  /\ ~Repeats(v, k)
             /\ \A by \in FunctionTypes : Triggers(v, by, k) /\ Cached({by}) => Done(Bind(f))
  <2>1. k = n
    BY <1>2, <1>5, ReadIs
  <2> QED  BY <1>3, <2>1
<1>6. Ordered(Bind(f), {Read(n)})'
  BY <1>3, <1>4, <1>5, OrderStays
<1> QED  BY <1>1, <1>6

\* What is cached of a feature that is subscribed first is what the device has.
LEMMA FreshStep ==
  ASSUME TInv, TInv', NEW t \in {0, 1}, Effects(t), SubscribedInv, FreshInv
  PROVE  FreshInv'
<1> SUFFICES ASSUME NEW fn \in Offered, Subscribed(using, FeatureOf[fn]), cache'[fn] > 0
             PROVE  cache'[fn] = device'[fn]
  BY DEF FreshInv, Effects, fixed, Offered
<1>1. \/ cache'[fn] = cache[fn] /\ device'[fn] = device[fn]
      \/ cache'[fn] = device'[fn]
      \/ cache'[fn] = cache[fn] /\ FeatureOf[fn] \notin notifies
  BY DEF Effects, Followed
<1>2. CASE cache'[fn] = cache[fn] /\ device'[fn] = device[fn]
  BY <1>2 DEF FreshInv
<1>3. ASSUME cache'[fn] = cache[fn], FeatureOf[fn] \notin notifies
      PROVE  FALSE
  <2>1. fn \in FunctionTypes /\ FeatureOf[fn] \in features /\ FeatureOf[fn] \in FeatureTypes
    BY Homes DEF Offered
  <2>2. Cached({fn}) /\ fn \in FunctionsAt(FeatureOf[fn])
    BY <1>3, <2>1 DEF Cached, FunctionsAt, TInv, Versions
  <2>3. Ordered(Subscribe(FeatureOf[fn]), ReadsAt(FeatureOf[fn]))
    BY <2>1 DEF SubscribedInv
  <2> QED  BY <1>3, <2>1, <2>2, <2>3, CachedSubscribed
<1> QED  BY <1>1, <1>2, <1>3

\* A write that rests on answers is sent once its feature is bound.
LEMMA WriteInvStep ==
  ASSUME TInv, TInv', NEW t \in {0, 1}, Effects(t), BoundInv, WriteInv
  PROVE  WriteInv'
<1> SUFFICES ASSUME NEW k \in 1 .. Len(wire'), wire'[k].kind = "write", wire'[k].use \notin Unbinding,
                    wire'[k].needs \cap pushed' = {}
             PROVE  wire'[k].feature \in binds'
  BY DEF WriteInv
<1>1. pushed \subseteq pushed' /\ binds \subseteq binds'
  BY DEF Effects, Grown
<1>2. \/ k + t \in 1 .. Len(wire) /\ wire'[k] = wire[k + t]
      \/ wire'[k] \in Fresh
  BY DEF Effects, Follows
<1>3. CASE k + t \in 1 .. Len(wire) /\ wire'[k] = wire[k + t]
  <2>1. wire[k + t].needs \cap pushed = {}
    BY <1>1, <1>3
  <2> QED  BY <1>1, <1>3, <2>1 DEF WriteInv
<1>4. CASE wire'[k] \in Fresh
  <2>1. PICK u \in using : wire'[k] \in NextOf(u) \cup Requested(u) \cup ReadAgain(u) \cup Writable(u)
    BY <1>4 DEF Fresh
  <2>2. wire'[k] \notin NextOf(u)
    BY Connects, PlainIs DEF NextOf, TInv
  <2>3. wire'[k] \notin Requested(u) /\ wire'[k] \notin ReadAgain(u)
    BY ReadIs DEF Requested, ReadAgain
  <2>4. PICK w \in DOMAIN UseCases[u].writes :
          Cached(UseCases[u].writes[w].needs) /\ wire'[k] = WriteOf(u, w)
    BY <2>1, <2>2, <2>3 DEF Writable
  <2>5. /\ wire'[k].use = u /\ wire'[k].needs = UseCases[u].writes[w].needs
        /\ wire'[k].feature = FeatureOf[UseCases[u].writes[w].function]
    BY <2>4 DEF WriteOf
  <2>6. PICK n \in UseCases[u].writes[w].needs
                     \cap FunctionsAt(FeatureOf[UseCases[u].writes[w].function]) :
          BoundFirst(using, n)
    BY <2>5, BindingAssumption DEF WritesLed, TInv, Setting
  <2>7. n \in Offered /\ Cached({n}) /\ n \notin pushed
    BY <1>1, <2>4, <2>5, <2>6 DEF Cached, TInv, Versions
  <2>8. n \in FunctionTypes /\ FeatureOf[n] \in FeatureTypes /\ FeatureOf[n] = wire'[k].feature
    BY <2>5, <2>6, Homes DEF FunctionsAt
  <2>9. Answered(Read(n))
    BY <2>7, <2>8, ReadIs DEF Answered, Done
  <2>10. Done(Bind(FeatureOf[n]))
    BY <2>6, <2>7, <2>9 DEF BoundInv, Ordered
  <2> QED  BY <1>1, <2>8, <2>10, LinkIs DEF Done
<1> QED  BY <1>2, <1>3, <1>4

\* The inductive invariant of what is sent and answered in which order.
NetInv == TInv /\ SentInv /\ LedInv /\ SubscribedInv /\ BoundInv /\ FreshInv

\* Nothing is done at first, so every order holds.
LEMMA NetInit == Init => NetInv /\ WriteInv
<1> SUFFICES ASSUME Init
             PROVE  NetInv /\ WriteInv
  OBVIOUS
<1>1. TInv
  BY TypeInit
<1>2. /\ subscribed = {} /\ bound = {} /\ notifies = {} /\ binds = {} /\ wire = <<>>
      /\ connecting = [u \in using |-> 0] /\ cache = [fn \in DOMAIN device |-> 0]
  BY DEF Init
<1>3. 1 .. Len(wire) = {}
  BY <1>2, EmptySeq
<1>4. \A fn \in DOMAIN cache : cache[fn] = 0
  BY <1>2
<1>5. \A m : ~Done(m)
  BY <1>2, <1>4 DEF Done, Cached
<1>6. \A m, later : Ordered(m, later)
  <2>1. \A u \in using : 1 .. connecting[u] = {}
    BY <1>2
  <2> QED  BY <1>3, <1>5, <2>1 DEF Ordered, Answered
<1>7. SentInv /\ WriteInv
  BY <1>2, <1>3 DEF SentInv, WriteInv
<1>8. LedInv /\ SubscribedInv /\ BoundInv
  BY <1>6 DEF LedInv, SubscribedInv, BoundInv
<1>9. FreshInv
  BY <1>1, <1>4 DEF FreshInv, TInv, Versions
<1> QED  BY <1>1, <1>7, <1>8, <1>9 DEF NetInv

\* Every step keeps the orders, and the cache up to date where it is subscribed.
LEMMA NetStep == NetInv /\ [Next]_vars => NetInv'
<1> SUFFICES ASSUME NetInv, [Next]_vars
             PROVE  NetInv'
  OBVIOUS
<1>1. TInv' /\ \E t \in {0, 1} : Effects(t)
  BY Steps DEF NetInv
<1>2. PICK t \in {0, 1} : Effects(t)
  BY <1>1
<1> QED  BY <1>1, <1>2, SentStep, LedStep, SubscribedStep, BoundStep, FreshStep DEF NetInv

\* What is cached of the feature of an update shows that what leads it is there.
LEMMA Led ==
  ASSUME NetInv, NEW fn \in FunctionTypes, Cached({fn}), NEW n,
         Leads(using, n, FeatureOf[fn]), Readable(Read(n))
  PROVE  Cached({n})
<1>1. n \in FunctionTypes /\ FeatureOf[fn] \in FeatureTypes /\ fn \in FunctionsAt(FeatureOf[fn])
  BY Homes DEF Leads, FunctionsAt
<1>2. Ordered(Read(n), About(FeatureOf[fn]))
  BY <1>1 DEF NetInv, LedInv
<1>3. Done(Read(n))
  BY <1>1, <1>2, CachedLed DEF NetInv
<1> QED  BY <1>1, <1>3, ReadIs DEF Done

\* An event that is raised finds what its accessor needs.
LEMMA RaisedReadable ==
  ASSUME NetInv, NEW h \in DOMAIN handlers, NEW r \in Raised(h), <<r.use, r.event>> \notin Raced
  PROVE  Cached(r.needs)
<1>1. /\ h.use \in using /\ h.function \in FunctionTypes
      /\ h.function \in DOMAIN UseCases[h.use].handlers /\ Cached({h.function})
      /\ h.use \in DOMAIN UseCases
  BY Tables DEF NetInv, TInv, Waiting, Updates
<1>2. r \in Told[h.use][h.function] /\ Cached(r.checks) /\ r.use = h.use
  BY <1>1, Tellings DEF Raised
<1>3. ASSUME NEW n \in r.needs
      PROVE  Cached({n})
  <2>1. CASE n \in r.checks \cup {h.function}
    BY <1>1, <1>2, <2>1 DEF Cached
  <2>2. CASE n \notin r.checks \cup {h.function}
    <3>1. /\ Leads(using, n, FeatureOf[h.function]) /\ n \notin Handled(using)
          /\ FeatureOf[n] \in Clients(using)
          /\ FeatureOf[h.function] \in Required(using) => FeatureOf[n] \in Required(using)
      BY <1>1, <1>2, <2>2, ReadingAssumption DEF EventsLed, NetInv, TInv, Setting
    <3>2. n \in FunctionTypes
      BY <3>1 DEF Leads
    <3>3. FeatureOf[h.function] \in features
      BY <1>1 DEF Cached, NetInv, TInv, Versions, Offered
    <3>4. FeatureOf[n] \in features /\ n \notin missing
      BY <3>1, <3>3 DEF NetInv, TInv, Setting
    <3>5. Readable(Read(n))
      BY <3>2, <3>4, ReadIs DEF Readable
    <3> QED  BY <1>1, <3>1, <3>5, Led
  <2> QED  BY <2>1, <2>2
<1> QED  BY <1>3 DEF Cached

\* The event names an accessor that has data, whatever the order in which requests
\* of several use cases are answered and updates are handled
\* (RemoteData.ToldReadable).
THEOREM ToldEventsReadable == Spec => []ToldReadable
<1>1. Init => NetInv /\ ToldReadable
  BY NetInit DEF Init, ToldReadable
<1>2. NetInv /\ ToldReadable /\ [Next]_vars => NetInv' /\ ToldReadable'
  <2> SUFFICES ASSUME NetInv, ToldReadable, [Next]_vars
               PROVE  ToldReadable'
    BY NetStep
  <2>1. Missed
    BY Steps DEF NetInv, Effects
  <2> QED  BY <2>1, RaisedReadable DEF Missed, ToldReadable
<1> QED  BY <1>1, <1>2, PTL DEF Spec

\* A write that rests on answers reaches the device only after the binding of its
\* feature (RemoteData.WritesBound).
THEOREM WritesAreBound == Spec => []WritesBound
<1>1. Init => NetInv /\ WriteInv
  BY NetInit
<1>2. NetInv /\ WriteInv /\ [Next]_vars => NetInv' /\ WriteInv'
  <2> SUFFICES ASSUME NetInv, WriteInv, [Next]_vars
               PROVE  WriteInv'
    BY NetStep
  <2>1. PICK t \in {0, 1} : Effects(t)
    BY Steps DEF NetInv
  <2>2. TInv'
    BY Steps DEF NetInv
  <2> QED  BY <2>1, <2>2, WriteInvStep DEF NetInv
<1>3. NetInv /\ WriteInv => WritesBound
  BY HeadIs DEF NetInv, WriteInv, WritesBound
<1> QED  BY <1>1, <1>2, <1>3, PTL DEF Spec

-----------------------------------------------------------------------------
\* What comes to the application once nothing is under way.

\* A read stays on the wire until it is answered and its update waits.
LEMMA ReadStays ==
  ASSUME TInv, TInv', NEW t \in {0, 1}, Effects(t), NEW n \in FunctionTypes, On(Read(n))
  PROVE  \/ On(Read(n))'
         \/ /\ Cached({n})'
            /\ \A u \in using : n \in DOMAIN UseCases[u].handlers => Pending(u, n)'
<1>1. PICK i \in 1 .. Len(wire) : wire[i] = Read(n)
  BY DEF On
<1>2. CASE i > t
  <2>1. i - t \in 1 .. Len(wire') /\ wire'[i - t] = Read(n)
    BY <1>1, <1>2 DEF Effects, Follows
  <2> QED  BY <2>1 DEF On
<1>3. CASE ~(i > t)
  <2>1. t = 1 /\ i = 1
    BY <1>3
  <2>2. PICK m : m = wire[1] /\ Delivered(m)
    BY <2>1 DEF Effects
  <2>3. m = Read(n) /\ m \in Plain /\ m.kind = "read" /\ m.function = n
    BY <1>1, <2>1, <2>2, ReadIs
  <2>4. Cached({n})'
    BY <2>2, <2>3 DEF Delivered, Done
  <2> QED  BY <2>2, <2>3, <2>4 DEF Delivered
<1> QED  BY <1>2, <1>3

\* What will be read comes until its update waits.
LEMMA ComingStays ==
  ASSUME TInv, TInv', NEW t \in {0, 1}, Effects(t), NEW n \in FunctionTypes, Readable(Read(n)), Coming(n)
  PROVE  \/ Coming(n)'
         \/ /\ Cached({n})'
            /\ \A u \in using : n \in DOMAIN UseCases[u].handlers => Pending(u, n)'
<1>1. CASE On(Read(n))
  BY <1>1, ReadStays DEF Coming
<1>2. ASSUME NEW u \in using, NEW k \in 1 .. Len(UseCases[u].connected), k > connecting[u],
             UseCases[u].connected[k] = Read(n)
      PROVE  Coming(n)'
  <2>1. connecting[u] \in Nat /\ connecting'[u] \in Nat /\ using' = using /\ u \in using'
    BY DEF TInv, Advancing, Effects, fixed
  <2>2. CASE k > connecting'[u]
    BY <1>2, <2>1, <2>2 DEF Coming
  <2>3. CASE k <= connecting'[u]
    <3>1. k \in 1 .. connecting'[u] /\ ~(k <= connecting[u])
      BY <1>2, <2>1, <2>3
    <3>2. SentFor(UseCases[u].connected[k])
      BY <3>1 DEF Effects, Advanced
    <3>3. On(Read(n))'
      BY <1>2, <3>2, ReadIs DEF SentFor
    <3> QED  BY <3>3 DEF Coming
  <2> QED  BY <2>1, <2>2, <2>3
<1> QED  BY <1>1, <1>2 DEF Coming

\* What is cached stays cached.
LEMMA CachedStays ==
  ASSUME TInv, TInv', NEW t \in {0, 1}, Effects(t), NEW n, Cached({n})
  PROVE  Cached({n})'
<1>1. DOMAIN cache = Offered /\ DOMAIN cache' = Offered
  BY DEF TInv, Versions, Effects, fixed, Offered
<1> QED  BY <1>1 DEF Cached, Effects, Grown

\* An update waits until it is handled, and then its handler has sent its requests.
LEMMA HandlerSends ==
  ASSUME TInv, TInv', NEW t \in {0, 1}, Effects(t), NEW v \in using, NEW by, Pending(v, by),
         NEW n \in FunctionTypes, Triggers(v, by, n), Readable(Read(n))
  PROVE  Pending(v, by)' \/ (Cached({by})' /\ On(Read(n))')
<1>1. PICK h \in DOMAIN handlers : h.use = v /\ h.function = by
  BY DEF Pending
<1>2. Cached({by})
  BY <1>1 DEF TInv, Waiting
<1>3. CASE h \in DOMAIN handlers'
  BY <1>1, <1>3 DEF Pending
<1>4. CASE HandledNow(h)
  <2>1. On(Read(n))'
    BY <1>1, <1>4 DEF HandledNow
  <2> QED  BY <1>2, <2>1, CachedStays
<1> QED  BY <1>3, <1>4 DEF Effects, Handling

\* What a connect method asks for comes or is there.
LEMMA AskedStep ==
  ASSUME TInv, TInv', NEW t \in {0, 1}, Effects(t), AskedInv
  PROVE  AskedInv'
<1> SUFFICES ASSUME NEW n \in Offered \ missing, Asked(using, n)
             PROVE  Coming(n)' \/ Cached({n})'
  BY DEF AskedInv, Effects, fixed, Offered
<1>1. n \in FunctionTypes /\ Readable(Read(n))
  BY ReadIs DEF Offered, Readable
<1>2. Coming(n) \/ Cached({n})
  BY DEF AskedInv
<1> QED  BY <1>1, <1>2, ComingStays, CachedStays

\* What a handler asks for comes or is there, once what it handles has come.
LEMMA TriggeredStep ==
  ASSUME TInv, TInv', NEW t \in {0, 1}, Effects(t), TriggeredInv
  PROVE  TriggeredInv'
<1> SUFFICES ASSUME NEW by \in Offered \ missing, NEW n \in Offered \ missing, NEW v \in using,
                    Asked(using, by), Triggers(v, by, n)
             PROVE  Coming(by)' \/ Pending(v, by)' \/ On(Read(n))' \/ Cached({n})'
  BY DEF TriggeredInv, Effects, fixed, Offered
<1>1. /\ n \in FunctionTypes /\ Readable(Read(n)) /\ by \in FunctionTypes /\ Readable(Read(by))
      /\ by \in DOMAIN UseCases[v].handlers
  BY ReadIs DEF Offered, Readable, Triggers
<1>2. Coming(by) \/ Pending(v, by) \/ On(Read(n)) \/ Cached({n})
  BY DEF TriggeredInv
<1>3. CASE Coming(by)
  BY <1>1, <1>3, ComingStays
<1>4. CASE Pending(v, by)
  BY <1>1, <1>4, HandlerSends
<1>5. CASE On(Read(n))
  BY <1>1, <1>5, ReadStays
<1>6. CASE Cached({n})
  BY <1>6, CachedStays
<1> QED  BY <1>2, <1>3, <1>4, <1>5, <1>6

\* What is asked for has still to be sent at first.
LEMMA AskedFirst ==
  ASSUME Init, NEW n, Asked(using, n)
  PROVE  Coming(n)
<1>1. TInv
  BY TypeInit
<1>2. PICK u \in using : \E k \in DOMAIN UseCases[u].connected : UseCases[u].connected[k] = Read(n)
  BY DEF Asked
<1>3. PICK k \in 1 .. Len(UseCases[u].connected) : UseCases[u].connected[k] = Read(n)
  BY <1>1, <1>2, Connects DEF TInv
<1>4. connecting[u] = 0
  BY DEF Init
<1> QED  BY <1>3, <1>4 DEF Coming

\* Nothing comes and no update waits once nothing is under way.
LEMMA QuietEnds ==
  ASSUME TInv, Quiet
  PROVE  /\ \A n : ~Coming(n) /\ ~On(Read(n))
         /\ \A u, n : ~Pending(u, n)
<1>1. 1 .. Len(wire) = {} /\ DOMAIN handlers = {}
  BY Empty, EmptySeq DEF Quiet
<1>2. \A u \in using : \A k \in 1 .. Len(UseCases[u].connected) : ~(k > connecting[u])
  BY Connects DEF Quiet, TInv
<1> QED  BY <1>1, <1>2 DEF Coming, On, Pending

\* Whatever fails to be offered or is written, once nothing is under way the
\* accessors of the scenarios the entity supports have their data
\* (RemoteData.Served).
THEOREM AccessorsServed == Spec => []Served
<1>1. Init => TInv /\ AskedInv /\ TriggeredInv
  BY TypeInit, AskedFirst DEF AskedInv, TriggeredInv
<1>2. TInv /\ AskedInv /\ TriggeredInv /\ [Next]_vars => TInv' /\ AskedInv' /\ TriggeredInv'
  <2> SUFFICES ASSUME TInv, AskedInv, TriggeredInv, [Next]_vars
               PROVE  TInv' /\ AskedInv' /\ TriggeredInv'
    OBVIOUS
  <2>1. PICK t \in {0, 1} : Effects(t)
    BY Steps
  <2>2. TInv'
    BY Steps
  <2> QED  BY <2>1, <2>2, AskedStep, TriggeredStep
<1>3. TInv /\ AskedInv /\ TriggeredInv => Served
  <2> SUFFICES ASSUME TInv, AskedInv, TriggeredInv, Quiet, NEW u \in using,
                      NEW a \in DOMAIN UseCases[u].accessors, <<u, a>> \notin Unserved,
                      UseCases[u].scenarios[UseCases[u].accessors[a].scenario].features \subseteq features,
                      UseCases[u].accessors[a].needs \cap missing = {}
               PROVE  Cached(UseCases[u].accessors[a].needs)
    BY DEF Served
  <2> DEFINE needs == UseCases[u].accessors[a].needs
  <2>1. \A n \in needs :
          /\ n \in FunctionTypes
          /\ FeatureOf[n] \in UseCases[u].scenarios[UseCases[u].accessors[a].scenario].features
          /\ \/ Asked(using, n)
             \/ \E by \in needs : Asked(using, by) /\ \E v \in using : Triggers(v, by, n)
    BY ServingAssumption DEF AccessorsAsked, TInv, Setting
  <2> HIDE DEF needs
  <2>2. needs \subseteq Offered \ missing
    BY <2>1 DEF Offered, needs
  <2>3. ASSUME NEW n \in needs
        PROVE  Cached({n})
    <3>1. CASE Asked(using, n)
      BY <2>2, <3>1, QuietEnds DEF AskedInv
    <3>2. ASSUME NEW by \in needs, Asked(using, by), NEW v \in using, Triggers(v, by, n)
          PROVE  Cached({n})
      BY <2>2, <3>2, QuietEnds DEF TriggeredInv
    <3> QED  BY <2>1, <3>1, <3>2
  <2>4. Cached(needs)
    BY <2>3 DEF Cached
  <2> QED  BY <2>4 DEF needs
<1> QED  BY <1>1, <1>2, <1>3, PTL DEF Spec

\* How an event that is owed is raised.
LEMMA Telling ==
  ASSUME Setting, NEW u \in using, NEW e \in Declared[u], Owed(u, e)
  PROVE  /\ u \in DOMAIN UseCases /\ e.function \in DOMAIN UseCases[u].handlers
         /\ e.function \in FunctionTypes /\ FeatureOf[e.function] \in FeatureTypes
         /\ e \in Told[u][e.function] /\ e.use = u
         /\ \A r \in Declared[u] : r.event = e.event => r.function = e.function
         /\ Subscribed(using, FeatureOf[e.function])
<1>1. /\ e.function \in DOMAIN UseCases[u].handlers /\ e \in Told[u][e.function]
      /\ \A r \in Declared[u] : r.event = e.event => r.function = e.function
      /\ Subscribed(using, FeatureOf[e.function])
  BY TellingAssumption DEF EventsRaised, Setting, Owed
<1>2. u \in DOMAIN UseCases
  BY Tables
<1>3. e.function \in FunctionTypes /\ FeatureOf[e.function] \in FeatureTypes
  BY <1>1, HandlerRequests
<1> QED  BY <1>1, <1>2, <1>3, Tellings

\* The feature of a function that is subscribed before it is read notifies once
\* the function is cached.
LEMMA CachedNotified ==
  ASSUME NetInv, NEW fn \in FunctionTypes, Cached({fn}), Subscribed(using, FeatureOf[fn])
  PROVE  FeatureOf[fn] \in notifies /\ fn \in Offered /\ cache[fn] = device[fn]
<1>1. fn \in Offered /\ FeatureOf[fn] \in features /\ FeatureOf[fn] \in FeatureTypes
      /\ fn \in FunctionsAt(FeatureOf[fn]) /\ cache[fn] > 0
  BY Homes DEF Cached, NetInv, TInv, Versions, Offered, FunctionsAt
<1>2. Ordered(Subscribe(FeatureOf[fn]), ReadsAt(FeatureOf[fn]))
  BY <1>1 DEF NetInv, SubscribedInv
<1>3. FeatureOf[fn] \in notifies
  BY <1>1, <1>2, CachedSubscribed DEF NetInv
<1>4. cache[fn] = device[fn]
  BY <1>1 DEF NetInv, FreshInv
<1> QED  BY <1>1, <1>3, <1>4

\* When the update is handled the event is told, and its accessor has the data.
LEMMA PendingTold ==
  ASSUME NetInv, TInv', NEW t \in {0, 1}, Effects(t), NEW u \in using, NEW e \in Declared[u],
         Owed(u, e), Pending(u, e.function),
         \A n \in Looked(e) : Cached({n}) \/ n = e.function \/ Leads(using, n, FeatureOf[e.function])
  PROVE  Pending(u, e.function)' \/ Known(u, e)'
<1>1. PICK h \in DOMAIN handlers : h.use = u /\ h.function = e.function
  BY DEF Pending
<1>2. Cached({e.function})
  BY <1>1 DEF NetInv, TInv, Waiting
<1>3. CASE h \in DOMAIN handlers'
  BY <1>1, <1>3 DEF Pending
<1>4. CASE HandledNow(h)
  <2>1. /\ e.function \in FunctionTypes /\ e \in Told[u][e.function] /\ e.use = u
        /\ Subscribed(using, FeatureOf[e.function])
    BY Telling DEF NetInv, TInv
  <2>2. \A n \in Looked(e) : Cached({n})
    BY <1>2, <2>1, Led DEF Owed
  <2>3. Cached(e.checks) /\ Cached(e.needs)
    BY <2>2 DEF Looked, Cached
  <2>4. e \in Raised(h)
    BY <1>1, <2>1, <2>3 DEF Raised, Owed
  <2>5. cache[h.function] = device[h.function]
    BY <1>1, <1>2, <2>1, CachedNotified
  <2>6. <<e.use, e.event>> \in current'
    BY <1>4, <2>3, <2>4, <2>5 DEF HandledNow
  <2>7. Cached({e.function})'
    BY <1>2, CachedStays DEF NetInv
  <2> QED  BY <2>1, <2>6, <2>7 DEF Known
<1> QED  BY <1>3, <1>4 DEF Effects, Handling

\* What is known stays so until an update of it waits.
LEMMA KnownStays ==
  ASSUME NetInv, TInv', NEW t \in {0, 1}, Effects(t), NEW u \in using, NEW e \in Declared[u],
         Owed(u, e), Known(u, e)
  PROVE  Pending(u, e.function)' \/ Known(u, e)'
<1>1. Cached({e.function}) /\ <<u, e.event>> \in current
  BY DEF Known
<1>2. Cached({e.function})'
  BY <1>1, CachedStays DEF NetInv
<1>3. CASE <<u, e.event>> \in current'
  BY <1>2, <1>3 DEF Known
<1>4. ASSUME NEW r \in Declared[u], r.event = e.event,
             FeatureOf[r.function] \in notifies /\ r.function \in DOMAIN UseCases[u].handlers
               => Pending(u, r.function)'
      PROVE  Pending(u, e.function)'
  <2>1. /\ e.function \in FunctionTypes /\ e.function \in DOMAIN UseCases[u].handlers
        /\ r.function = e.function /\ Subscribed(using, FeatureOf[e.function])
    BY <1>4, Telling DEF NetInv, TInv
  <2>2. FeatureOf[e.function] \in notifies
    BY <1>1, <2>1, CachedNotified
  <2> QED  BY <1>4, <2>1, <2>2
<1> QED  BY <1>1, <1>3, <1>4 DEF Effects, Kept

\* An event that a connect method asks the data of.
LEMMA DirectStep ==
  ASSUME NetInv, TInv', NEW t \in {0, 1}, Effects(t), DirectInv
  PROVE  DirectInv'
<1> SUFFICES ASSUME NEW u \in using, NEW e \in Declared[u], Owed(u, e), Asked(using, e.function),
                    \A n \in Looked(e) : n = e.function \/ Leads(using, n, FeatureOf[e.function])
             PROVE  Coming(e.function)' \/ Pending(u, e.function)' \/ Known(u, e)'
  BY DEF DirectInv, Effects, fixed, Owed, Readable
<1>1. Coming(e.function) \/ Pending(u, e.function) \/ Known(u, e)
  BY DEF DirectInv
<1>2. /\ e.function \in FunctionTypes /\ e.function \in DOMAIN UseCases[u].handlers
      /\ Readable(Read(e.function)) /\ TInv
  BY Telling DEF NetInv, TInv, Owed, Looked
<1>3. CASE Coming(e.function)
  BY <1>2, <1>3, ComingStays
<1>4. CASE Pending(u, e.function)
  BY <1>4, PendingTold
<1>5. CASE Known(u, e)
  BY <1>5, KnownStays
<1> QED  BY <1>1, <1>3, <1>4, <1>5

\* An event that the handler of another function asks the data of.
LEMMA ChainStep ==
  ASSUME NetInv, TInv', NEW t \in {0, 1}, Effects(t), ChainInv
  PROVE  ChainInv'
<1> SUFFICES ASSUME NEW u \in using, NEW e \in Declared[u], NEW by \in Looked(e), NEW v \in using,
                    Owed(u, e), Asked(using, by), Triggers(v, by, e.function),
                    \A n \in Looked(e) :
                      n \in {by, e.function} \/ Leads(using, n, FeatureOf[e.function])
             PROVE  \/ Coming(by)' \/ Pending(v, by)'
                    \/ Cached({by})' /\ (On(Read(e.function))' \/ Pending(u, e.function)' \/ Known(u, e)')
  BY DEF ChainInv, Effects, fixed, Owed, Readable
<1>1. \/ Coming(by) \/ Pending(v, by)
      \/ Cached({by}) /\ (On(Read(e.function)) \/ Pending(u, e.function) \/ Known(u, e))
  BY DEF ChainInv
<1>2. /\ e.function \in FunctionTypes /\ e.function \in DOMAIN UseCases[u].handlers
      /\ Readable(Read(e.function)) /\ Readable(Read(by)) /\ TInv
      /\ by \in FunctionTypes /\ by \in DOMAIN UseCases[v].handlers
  BY Telling, TriggersAt DEF NetInv, TInv, Owed, Looked
<1>3. CASE Coming(by)
  BY <1>2, <1>3, ComingStays
<1>4. CASE Pending(v, by)
  BY <1>2, <1>4, HandlerSends
<1>5. CASE Cached({by}) /\ On(Read(e.function))
  BY <1>2, <1>5, CachedStays, ReadStays
<1>6. CASE Cached({by}) /\ Pending(u, e.function)
  BY <1>2, <1>6, CachedStays, PendingTold
<1>7. CASE Cached({by}) /\ Known(u, e)
  BY <1>2, <1>7, CachedStays, KnownStays
<1> QED  BY <1>1, <1>3, <1>4, <1>5, <1>6, <1>7

\* Once nothing is under way the application knows every event that is not
\* excused, with the value the device has (RemoteData.AppKnows).
THEOREM ApplicationKnows == Spec => []AppKnows
<1>1. Init => NetInv /\ DirectInv /\ ChainInv
  BY NetInit, AskedFirst DEF DirectInv, ChainInv
<1>2. NetInv /\ DirectInv /\ ChainInv /\ [Next]_vars => NetInv' /\ DirectInv' /\ ChainInv'
  <2> SUFFICES ASSUME NetInv, DirectInv, ChainInv, [Next]_vars
               PROVE  NetInv' /\ DirectInv' /\ ChainInv'
    OBVIOUS
  <2>1. PICK t \in {0, 1} : Effects(t)
    BY Steps DEF NetInv
  <2>2. TInv'
    BY Steps DEF NetInv
  <2> QED  BY <2>1, <2>2, NetStep, DirectStep, ChainStep
<1>3. NetInv /\ DirectInv /\ ChainInv => AppKnows
  <2> SUFFICES ASSUME NetInv, DirectInv, ChainInv, Quiet, NEW u \in using, NEW e \in Declared[u],
                      ~e.notified, \A fn \in Looked(e) : Readable(Read(fn)),
                      <<u, e.event>> \notin Excused
               PROVE  <<u, e.event>> \in current
    BY DEF AppKnows, Looked
  <2>1. Owed(u, e)
    BY DEF Owed
  <2>2. TInv /\ \A n : ~Coming(n) /\ ~On(Read(n)) /\ \A v : ~Pending(v, n)
    BY QuietEnds DEF NetInv
  <2> DEFINE looked == e.checks \cup e.needs
             led    == {n \in looked : Leads(using, n, FeatureOf[e.function])}
  <2>3. \/ Asked(using, e.function) /\ looked \subseteq led \cup {e.function}
        \/ \E by \in looked :
             /\ Asked(using, by) /\ \E v \in using : Triggers(v, by, e.function)
             /\ looked \subseteq led \cup {by, e.function}
    BY TellingAssumption DEF EventsRaised, NetInv, TInv, Setting
  <2>4. CASE Asked(using, e.function) /\ looked \subseteq led \cup {e.function}
    <3>1. \A n \in Looked(e) : n = e.function \/ Leads(using, n, FeatureOf[e.function])
      BY <2>4 DEF Looked
    <3> QED  BY <2>1, <2>2, <2>4, <3>1 DEF DirectInv, Known
  <2>5. ASSUME NEW by \in looked, Asked(using, by), NEW v \in using, Triggers(v, by, e.function),
               looked \subseteq led \cup {by, e.function}
        PROVE  <<u, e.event>> \in current
    <3>1. \A n \in Looked(e) : n \in {by, e.function} \/ Leads(using, n, FeatureOf[e.function])
      BY <2>5 DEF Looked
    <3>2. by \in Looked(e)
      BY DEF Looked
    <3> QED  BY <2>1, <2>2, <2>5, <3>1, <3>2 DEF ChainInv, Known
  <2> HIDE DEF looked, led
  <2> QED  BY <2>3, <2>4, <2>5
<1> QED  BY <1>1, <1>2, <1>3, PTL DEF Spec
===============================================================================
