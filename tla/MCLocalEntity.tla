---------------------------- MODULE MCLocalEntity ----------------------------
(***************************************************************************)
(* Configurations of MPC and MGCP for LocalEntity: two phases in any order *)
(* and a voltage between them, phases that are refused, a required value   *)
(* without a source, with and without constraints.                         *)
(***************************************************************************)
EXTENDS LocalEntity

Q(scope, phases) == Quantity(scope, phases)

Mpc(power, voltage, frequency, constrained) ==
  [connected |-> {"a", "b"}, power |-> power, energy |-> {"produced"}, current |-> {},
   voltage |-> voltage, frequency |-> frequency, constrained |-> constrained]

Mgcp(unsourced, current, constrained) ==
  [factor |-> TRUE, unsourced |-> unsourced, current |-> current, voltage |-> {},
   frequency |-> FALSE, constrained |-> constrained]

Both ==
  [MPC  |-> [Mpc({"a", "b"}, {{"a", "b"}}, FALSE, {Q("ACPower", {"b"}), Q("ACVoltage", {"a", "b"})})
               EXCEPT !.energy = {}],
   MGCP |-> Mgcp({}, {}, {Q("GridConsumption", {})})]
PhaseRefused ==
  [MPC  |-> [Mpc({"a"}, {}, TRUE, {Total}) EXCEPT !.current = {"b", "c"}],
   MGCP |-> Mgcp({}, {{"b"}}, {Total})]
SourceMissing ==
  [MPC  |-> [Mpc({}, {}, TRUE, {}) EXCEPT !.energy = {}],
   MGCP |-> [Mgcp({"GridConsumption"}, {}, {}) EXCEPT !.factor = FALSE]]
TotalMissing ==
  [MPC  |-> [Mpc({}, {}, FALSE, {}) EXCEPT !.current = {"a"}],
   MGCP |-> Mgcp({"ACPowerTotal"}, {}, {})]

AllConfigs == {Both, PhaseRefused, SourceMissing, TotalMissing}
OneConfig  == {Both}
=============================================================================
