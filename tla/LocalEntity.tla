----------------------------- MODULE LocalEntity -----------------------------
(***************************************************************************)
(* Use cases that offer data of one local entity: MPC and MGCP offer       *)
(* measurements, LPC and LPP (controllable system) a limit, failsafe       *)
(* values and a nominal maximum. All of them add descriptions to the same  *)
(* server features, whose ids they allocate from what is there already,    *)
(* and later find their data by those ids or by a filter. The application  *)
(* adds them one after the other (Service.AddUseCase), in any order.       *)
(*                                                                         *)
(* The features are in the stack, spine-go, which merges a partial update  *)
(* by the ids of its entries and replaces the list for any other. A value  *)
(* is the number of the call that wrote it.                                *)
(***************************************************************************)
EXTENDS Integers, Sequences, FiniteSets

CONSTANTS
  Configs,  \* configurations of MPC and MGCP, together
  MaxCalls  \* bound on the calls that write values

Monitors    == {"MPC", "MGCP"}
Controlled  == {"LPC", "LPP"}
UseCases    == Monitors \cup Controlled

\* High enough not to be the id of a measurement.
defaultPowerTotalMeasurementId == 50

VARIABLES
  config,          \* configuration of each monitor
  order,           \* use cases in the order of their AddFeatures
  todo,            \* what each method of the monitor being added has still to add
  noted,           \* constraints it has collected
  failed,          \* monitors whose AddFeatures returned an error
  ids,             \* measurement ids each monitor keeps, by quantity
  own,             \* its connection
  factor,          \* key id of the power limitation factor that MGCP keeps, or none
  descriptions,    \* measurement descriptions: quantity by id
  values,          \* measurement data by id
  constraints,     \* measurement constraints: records of id and quantity
  connections,     \* ids of electrical connections, all of them AC and consume
  parameters,      \* parameter descriptions by connection and parameter id
  characteristics, \* characteristics by id
  limits,          \* limit descriptions by id
  limitData,       \* limits by id
  keys,            \* key descriptions: name by id
  keyData,         \* key values by id
  written,         \* for each item of a use case the last value written through it
  call,            \* the last call: its error, and how many factors it had
  calls            \* calls so far

measurement == <<descriptions, values, constraints>>
connection  == <<connections, parameters, characteristics>>
control     == <<limits, limitData>>
keyValues   == <<keys, keyData>>
usecase     == <<order, todo, noted, failed, ids, own, factor>>
vars == <<config, usecase, measurement, connection, control, keyValues, written, call, calls>>

-----------------------------------------------------------------------------
\* Quantities and the order in which the methods of a use case add them. The
\* phases of a map come in any order.
Quantity(scope, phases) == [scope |-> scope, phases |-> phases]
Total == Quantity("ACPowerTotal", {})
Factor == "PvCurtailmentLimitFactor"
Duration == "FailsafeDurationMinimum"

\* Other things that a use case keeps a value of.
Item(name) == Quantity(name, {})

\* What the AC measurement type of the parameter says.
Kind(q) == CASE q.scope = "ACVoltage"   -> "apparent"
             [] q.scope = "ACFrequency" -> "none"
             [] OTHER                   -> "real"

If(c, q) == IF c THEN {q} ELSE {}
PerPhase(scope, phases) == {Quantity(scope, {p}) : p \in phases}

MpcMethods(c) ==
  << {Total}, PerPhase("ACPower", c.power),
     If("consumed" \in c.energy, Quantity("ACEnergyConsumed", {})),
     If("produced" \in c.energy, Quantity("ACEnergyProduced", {})),
     PerPhase("ACCurrent", c.current), {Quantity("ACVoltage", ps) : ps \in c.voltage},
     If(c.frequency, Quantity("ACFrequency", {})) >>

MgcpMethods(c) ==
  << {Total}, {Quantity("GridFeedIn", {})}, {Quantity("GridConsumption", {})},
     If({"a"} \in c.current, Quantity("ACCurrent", {"a"})),
     If({"b"} \in c.current, Quantity("ACCurrent", {"b"})),
     If({"c"} \in c.current, Quantity("ACCurrent", {"c"})),
     If({"a"} \in c.voltage, Quantity("ACVoltage", {"a"})),
     If({"b"} \in c.voltage, Quantity("ACVoltage", {"b"})),
     If({"c"} \in c.voltage, Quantity("ACVoltage", {"c"})),
     If({"a", "b"} \in c.voltage, Quantity("ACVoltage", {"a", "b"})),
     If({"b", "c"} \in c.voltage, Quantity("ACVoltage", {"b", "c"})),
     If({"c", "a"} \in c.voltage, Quantity("ACVoltage", {"c", "a"})),
     If(c.frequency, Quantity("ACFrequency", {})) >>

Methods(u) == IF u = "MPC" THEN MpcMethods(config[u]) ELSE MgcpMethods(config[u])

\* All that the two monitors of a configuration add. There are three phases,
\* so that these are fewer than the id above, which stands for none of them.
Together(methods) == UNION {methods[i] : i \in DOMAIN methods}
Offered(c) ==
  ({"MPC"} \X Together(MpcMethods(c["MPC"]))) \cup ({"MGCP"} \X Together(MgcpMethods(c["MGCP"])))

ASSUME FewQuantities ==
  \A c \in Configs : IsFiniteSet(Offered(c)) /\ Cardinality(Offered(c)) <= defaultPowerTotalMeasurementId

\* MPC refuses phases it is not connected to, MGCP a required value without source.
Refused(u, q) ==
  IF u = "MPC" THEN ~ q.phases \subseteq config[u].connected
               ELSE q.scope \in config[u].unsourced

\* Mutant: those of single phases are left out.
ConstrainedTotals(u, q) == q \in config[u].constrained /\ q.phases = {}

\* Constraints of voltages are not passed on by MPC.
Constrained(u, q) ==
  q \in config[u].constrained /\ ~(u = "MPC" /\ q.scope = "ACVoltage")

-----------------------------------------------------------------------------
\* A new id is one above the highest there is.
NextId(used) == IF used = {} THEN 0 ELSE 1 + CHOOSE i \in used : \A j \in used : j <= i

\* The one that is found, where there may be others.
AnyOf(found) == CHOOSE x \in found : TRUE

\* A partial update: entries by their ids.
Put(list, id, entry) == [i \in DOMAIN list \cup {id} |-> IF i = id THEN entry ELSE list[i]]

\* Mutant: the highest id among descriptions of the same quantity.
ReuseDescriptionId(q) == NextId({i \in DOMAIN descriptions : descriptions[i].scope = q.scope})

AddDescriptionId(q) == NextId(DOMAIN descriptions)

\* Mutant: the parameters are looked up for another connection.
ReuseParameterId(c) == NextId({k[2] : k \in {l \in DOMAIN parameters : l[1] = c - 1}})

AddParameterId(c) == NextId({k[2] : k \in {l \in DOMAIN parameters : l[1] = c}})

\* An equal description is never found, because pointers are compared.
GetOrAddIdForDescription == NextId(connections \cup {0})

\* Mutant: the first of several will do.
FirstTotalMeasurementId ==
  LET found == {i \in DOMAIN descriptions : descriptions[i] = Total}
  IN  IF found # {} THEN AnyOf(found) ELSE defaultPowerTotalMeasurementId

\* The total power measurement, its connection and its parameter, if they are unique.
GetPowerTotalMeasurementId ==
  LET found == {i \in DOMAIN descriptions : descriptions[i] = Total}
  IN  IF Cardinality(found) = 1 THEN AnyOf(found)
                                ELSE defaultPowerTotalMeasurementId

GetElectricalConnectionId ==
  IF Cardinality(connections) = 1 THEN AnyOf(connections) ELSE 0

GetParameterId(c, m) ==
  LET found == {k \in DOMAIN parameters :
                  k[1] = c /\ parameters[k] = [measurement |-> m, kind |-> "real"]}
  IN  IF Cardinality(found) = 1 THEN AnyOf(found)[2] ELSE 0

-----------------------------------------------------------------------------
Added(u) == u \in {order[i] : i \in DOMAIN order}
Idle     == \A i \in DOMAIN todo : todo[i] = {}

\* The method that runs is the first that has quantities left to add.
Runs(i) == todo[i] # {} /\ \A j \in DOMAIN todo : j < i => todo[j] = {}
Adding  == UNION {todo[i] : i \in {j \in DOMAIN todo : Runs(j)}}

\* The key of a failsafe limit is named by its use case, the limit by its
\* direction; LPC and LPP share the key of the duration.
KeysNamed(name) == {k \in DOMAIN keys : keys[k] = name}
LimitsOf(u)     == {l \in DOMAIN limits : limits[l].direction = u}

LimitId(u) == IF Cardinality(LimitsOf(u)) = 1 THEN AnyOf(LimitsOf(u)) ELSE 0

\* Characteristics are looked for at connection 0 and parameter 0.
Nominal(u) ==
  {k \in DOMAIN characteristics :
     /\ characteristics[k].connection = 0 /\ characteristics[k].parameter = 0
     /\ characteristics[k].type = u}

Plain(v) == [value |-> v, period |-> FALSE]
Success  == [error |-> FALSE, factors |-> 0]

Init ==
  /\ config \in Configs
  /\ order = <<>> /\ todo = <<>> /\ noted = {} /\ failed = {}
  /\ ids = [u \in Monitors |-> <<>>]
  /\ own = [u \in Monitors |-> 0]
  /\ factor = {}
  /\ descriptions = <<>> /\ values = <<>> /\ constraints = {}
  /\ connections = {} /\ parameters = <<>> /\ characteristics = <<>>
  /\ limits = <<>> /\ limitData = <<>>
  /\ keys = <<>> /\ keyData = <<>>
  /\ written = <<>>
  /\ call = Success
  /\ calls = 0

-----------------------------------------------------------------------------
\* AddFeatures of MPC and MGCP: the key of the factor and the connection, then
\* quantity by quantity, and with the last one the constraints, as a full list.
BeginMonitor(u) ==
  /\ Idle /\ ~Added(u)
  /\ order' = Append(order, u)
  /\ todo' = Methods(u)
  /\ noted' = {}
  /\ connections' = connections \cup {GetOrAddIdForDescription}
  /\ own' = [own EXCEPT ![u] = GetOrAddIdForDescription]
  /\ IF u = "MGCP" /\ config[u].factor
       THEN /\ keys' = Put(keys, NextId(DOMAIN keys), Factor)
            /\ factor' = {NextId(DOMAIN keys)}
       ELSE UNCHANGED <<keys, factor>>
  /\ call' = Success
  /\ UNCHANGED <<config, failed, ids, measurement, parameters, characteristics, control, keyData,
                 written, calls>>

AddQuantity(u, q) ==
  /\ ~Refused(u, q)
  /\ LET id == AddDescriptionId(q)
     IN  /\ descriptions' = Put(descriptions, id, q)
         /\ ids' = [ids EXCEPT ![u] = Put(@, q, id)]
         /\ parameters' = Put(parameters, <<own[u], AddParameterId(own[u])>>,
                              [measurement |-> id, kind |-> Kind(q)])
         /\ noted' = IF Constrained(u, q) THEN noted \cup {[measurement |-> id, quantity |-> q]}
                                          ELSE noted
  /\ todo' = [i \in DOMAIN todo |-> IF Runs(i) THEN todo[i] \ {q} ELSE todo[i]]
  /\ constraints' = IF Idle' /\ noted' # {} THEN noted' ELSE constraints
  /\ UNCHANGED <<config, order, failed, own, factor, values, connections, characteristics,
                 control, keyValues, written, call, calls>>

\* Mutant: an error takes back the descriptions, but not the ids that were kept.
FailTakesBack(u, q) ==
  /\ Refused(u, q)
  /\ todo' = <<>>
  /\ failed' = failed \cup {u}
  /\ descriptions' = [i \in DOMAIN descriptions \ {ids[u][r] : r \in DOMAIN ids[u]} |-> descriptions[i]]
  /\ UNCHANGED <<config, order, noted, ids, own, factor, values, constraints, connection, control,
                 keyValues, written, call, calls>>

\* An error leaves behind what was added.
Fail(u, q) ==
  /\ Refused(u, q)
  /\ todo' = <<>>
  /\ failed' = failed \cup {u}
  /\ UNCHANGED <<config, order, noted, ids, own, factor, measurement, connection, control,
                 keyValues, written, call, calls>>

\* AddFeatures of LPC and LPP: the limit, the keys of the failsafe values, the
\* nominal maximum. The data of both keys is set, also of a key that was there.
AddControlled(u) ==
  /\ Idle /\ ~Added(u)
  /\ order' = Append(order, u)
  /\ LET m == GetPowerTotalMeasurementId
         c == GetElectricalConnectionId
         l == NextId(DOMAIN limits)
         k == NextId(DOMAIN keys)
         named == Put(keys, k, u)
         all == IF KeysNamed(Duration) = {} THEN Put(named, NextId(DOMAIN named), Duration) ELSE named
         d == CHOOSE i \in DOMAIN all : all[i] = Duration
     IN  /\ limits' = Put(limits, l, [direction |-> u, measurement |-> m])
         /\ limitData' = Put(limitData, l, Plain(0))
         /\ keys' = all
         /\ keyData' = Put(Put(keyData, k, 0), d, 0)
         /\ characteristics' =
              Put(characteristics, NextId(DOMAIN characteristics),
                  [connection |-> c, parameter |-> GetParameterId(c, m), type |-> u, value |-> 0])
  /\ written' = Put(written, <<"device", Item(Duration)>>, Plain(0))
  /\ call' = Success
  /\ UNCHANGED <<config, todo, noted, failed, ids, own, factor, measurement, connections, parameters,
                 calls>>

-----------------------------------------------------------------------------
\* Calls of the application, and accepted writes of a remote device.
Fails == call' = [error |-> TRUE, factors |-> 0]
Calls == calls < MaxCalls /\ calls' = calls + 1
New   == calls + 1

WriteValues(u, qs) ==
  values' = [i \in DOMAIN values \cup {ids[u][q] : q \in qs} |->
               IF \E q \in qs : ids[u][q] = i THEN New ELSE values[i]]

Recorded(items, entry) ==
  written' = [i \in DOMAIN written \cup items |-> IF i \in items THEN entry ELSE written[i]]

\* Mutant: what is supported is written first.
UpdateSupported(u, qs) ==
  LET ready == qs \cap DOMAIN ids[u]
  IN  /\ WriteValues(u, ready)
      /\ Recorded({u} \X ready, Plain(New))
      /\ call' = [error |-> ready # qs, factors |-> 0]
      /\ UNCHANGED keyData

\* Update of MPC: a quantity without an id is not supported, and nothing is written.
UpdateMpc(u, qs) ==
  /\ UNCHANGED keyData
  /\ IF qs \subseteq DOMAIN ids[u]
       THEN WriteValues(u, qs) /\ Recorded({u} \X qs, Plain(New)) /\ call' = Success
       ELSE Fails /\ UNCHANGED <<values, written>>

\* Update of MGCP: measurements first, then the factor, of which there may be one.
UpdateMgcp(u, qs, factors) ==
  IF qs \subseteq DOMAIN ids[u] /\ (factors > 0 => factor # {})
    THEN /\ WriteValues(u, qs)
         /\ keyData' = IF factors = 1 THEN Put(keyData, AnyOf(factor), New) ELSE keyData
         /\ Recorded({u} \X (qs \cup (IF factors = 1 THEN {Item(Factor)} ELSE {})), Plain(New))
         /\ call' = [error |-> factors > 1, factors |-> factors]
    ELSE Fails /\ UNCHANGED <<values, keyData, written>>

Update(u, qs, factors) ==
  /\ Calls
  /\ IF u = "MPC" THEN factors = 0 /\ qs # {} /\ UpdateMpc(u, qs) ELSE UpdateMgcp(u, qs, factors)
  /\ UNCHANGED <<config, usecase, descriptions, constraints, connection, control, keys>>

\* A set value is merged into the limit, whose old time period is removed first.
Merged(old, period) == [value |-> New, period |-> period \/ old.period]
DeletePeriod(l)     == [limitData EXCEPT ![l].period = FALSE]

SetLimit(u, period) ==
  /\ Calls /\ Added(u)
  /\ LET l == LimitId(u)
     IN  limitData' = Put(limitData, l, Merged(DeletePeriod(l)[l], period))
  /\ Recorded({<<u, Item("limit")>>}, [value |-> New, period |-> period])
  /\ call' = Success
  /\ UNCHANGED <<config, usecase, measurement, connection, limits, keyValues>>

\* A device finds the limit by its direction.
RemoteLimit(u) ==
  /\ Calls
  /\ \E l \in LimitsOf(u) : limitData' = Put(limitData, l, Merged(limitData[l], TRUE))
  /\ Recorded({<<u, Item("limit")>>}, [value |-> New, period |-> TRUE])
  /\ call' = Success
  /\ UNCHANGED <<config, usecase, measurement, connection, limits, keyValues>>

\* Failsafe values are set by key name, by the application or a device.
SetKey(item, name) ==
  /\ Calls
  /\ IF Cardinality(KeysNamed(name)) = 1
       THEN /\ keyData' = Put(keyData, AnyOf(KeysNamed(name)), New)
            /\ Recorded({item}, Plain(New))
            /\ call' = Success
       ELSE Fails /\ UNCHANGED <<keyData, written>>
  /\ UNCHANGED <<config, usecase, measurement, connection, control, keys>>

SetNominalMax(u) ==
  /\ Calls
  /\ IF Nominal(u) # {}
       THEN /\ characteristics' = [characteristics EXCEPT ![AnyOf(Nominal(u))].value = New]
            /\ Recorded({<<u, Item("nominal")>>}, Plain(New))
            /\ call' = Success
       ELSE Fails /\ UNCHANGED <<characteristics, written>>
  /\ UNCHANGED <<config, usecase, measurement, connections, parameters, control, keyValues>>

Quantities(u) == Together(Methods(u))

Next ==
  \/ \E u \in Monitors : BeginMonitor(u)
  \/ \E u \in Monitors : ~Idle /\ u = order[Len(order)] /\ \E q \in Adding : AddQuantity(u, q)
  \/ \E u \in Monitors : ~Idle /\ u = order[Len(order)] /\ \E q \in Adding : Fail(u, q)
  \/ \E u \in Controlled : AddControlled(u)
  \/ \E u \in Monitors, factors \in 0 .. 2 : \E qs \in SUBSET Quantities(u) :
       Cardinality(qs) <= 2 /\ Idle /\ Update(u, qs, factors)
  \/ \E u \in Controlled, period \in BOOLEAN : Idle /\ SetLimit(u, period)
  \/ \E u \in Controlled : Idle /\ RemoteLimit(u)
  \/ \E u \in Controlled : Idle /\ SetKey(<<u, Item("failsafe")>>, u)
  \/ Idle /\ SetKey(<<"device", Item(Duration)>>, Duration)
  \/ \E u \in Controlled : Idle /\ SetNominalMax(u)

Spec == Init /\ [][Next]_vars

-----------------------------------------------------------------------------
\* The state of each variable.
TypeOK ==
  /\ \A u \in Monitors : \A q \in DOMAIN ids[u] : ids[u][q] \in DOMAIN descriptions
  /\ DOMAIN values \subseteq DOMAIN descriptions /\ DOMAIN limitData = DOMAIN limits
  /\ DOMAIN keyData \subseteq DOMAIN keys
  /\ \A k \in DOMAIN parameters : k[1] \in connections /\ parameters[k].measurement \in DOMAIN descriptions
  /\ factor \subseteq DOMAIN keys /\ failed \subseteq Monitors
  /\ ~Idle => order[Len(order)] \in Monitors

\* What an accessor of a use case reads.
Value(i, list) == IF i \in DOMAIN list THEN Plain(list[i]) ELSE Plain(0)
Read(item) ==
  LET u    == item[1]
      name == item[2].scope
  IN  CASE name = "limit"    -> IF LimitId(u) \in DOMAIN limitData THEN limitData[LimitId(u)] ELSE Plain(0)
        [] name = "nominal"  -> Value(AnyOf(Nominal(u)),
                                      [k \in DOMAIN characteristics |-> characteristics[k].value])
        [] name = "failsafe" -> Value(AnyOf(KeysNamed(u)), keyData)
        [] name = Duration   -> Value(AnyOf(KeysNamed(Duration)), keyData)
        [] name = Factor     -> Value(AnyOf(factor), keyData)
        [] OTHER             -> Value(ids[u][item[2]], values)

\* Whatever the order in which use cases were added, each reads what was last
\* written through it (or to it, by a device) and nothing another use case wrote:
\* every id it allocated or looks up is its own.
OwnValues == \A item \in DOMAIN written : Read(item) = written[item]

\* Every measurement of a monitor is described as what the monitor reports under
\* that id, with one parameter, on the connection of that monitor.
Measured ==
  \A u \in Monitors : \A q \in DOMAIN ids[u] :
    /\ descriptions[ids[u][q]] = q
    /\ \E k \in DOMAIN parameters :
         /\ k[1] = own[u] /\ parameters[k].kind = Kind(q)
         /\ {l \in DOMAIN parameters : parameters[l].measurement = ids[u][q]} = {k}

\* The limit and the nominal maximum refer to the total power that a monitor
\* offers if one was added before, as NewLPC asks for, and else to no measurement.
TotalsBefore(u) ==
  {m \in Monitors : Total \in DOMAIN ids[m]
                      /\ \E i, j \in DOMAIN order : i < j /\ order[i] = m /\ order[j] = u}
LimitMeasured ==
  \A l \in DOMAIN limits :
    LET u == limits[l].direction
    IN  IF Cardinality(TotalsBefore(u)) = 1
          THEN \A m \in TotalsBefore(u) :
                 /\ limits[l].measurement = ids[m][Total]
                 /\ Cardinality({i \in DOMAIN order : order[i] \in Monitors}) = 1 =>
                      \E k \in DOMAIN characteristics :
                        /\ characteristics[k].type = u
                        /\ characteristics[k].connection = own[m]
                        /\ \E p \in DOMAIN parameters :
                             /\ p = <<own[m], characteristics[k].parameter>>
                             /\ parameters[p].measurement = ids[m][Total]
          ELSE limits[l].measurement \notin DOMAIN descriptions

\* The constraints that the monitor added last configures are published, each
\* for the id of its own quantity; those of voltages are never passed on by MPC.
ConstraintsOfLast ==
  (Idle /\ order # <<>> /\ order[Len(order)] \in Monitors \ failed) =>
    LET u == order[Len(order)]
    IN  \A q \in config[u].constrained \cap Quantities(u) :
          (u = "MPC" /\ q.scope = "ACVoltage")
            \/ [measurement |-> ids[u][q], quantity |-> q] \in constraints

\* A call that returns an error wrote nothing, unless it had two factors, which
\* MGCP notices after it has written the measurements.
AllOrNone ==
  [][(call'.error /\ call'.factors < 2) => UNCHANGED <<values, keyData, limitData, characteristics>>]_vars

\* Once LPC or LPP is added, its nominal maximum can be set.
NominalSettable == \A u \in Controlled : Added(u) => Nominal(u) # {}
=============================================================================
