----------------------------- MODULE MCRemoteData -----------------------------
(***************************************************************************)
(* Combinations of use cases for RemoteData, and the events, accessors and *)
(* writes that the code does not get right, each set with its reason. The  *)
(* properties are checked for everything else.                             *)
(***************************************************************************)
EXTENDS RemoteData

\* Each use case on its own, except EVSOC, OPEV and OSCEV, which leave requests
\* to the other use cases for the same EV. Those and others that share features
\* are combined; the largest of these with a device without trouble.
Alone  == {{u} : u \in DOMAIN UseCases \ {"EVSOC", "OPEV", "OSCEV"}}
Shared == {{"EVCEM", "EVSOC"}, {"CDT", "MDT"}, {"OPEV", "OSCEV"}}
Busy   == {{"EVCC", "OPEV"}, {"CRHT", "CRHSF"}}
All    == Alone \cup Shared \cup Busy

\* With trouble twice, a device may notify a value before its feature is bound
\* and the application may write then.
Twice     == {{"OHPCF"}, {"MDT"}, {"OPEV", "OSCEV"}}
TroubleOf == [us \in All |-> IF us \in Busy THEN 0 ELSE IF us \in Twice THEN 2 ELSE 1]

\* Setpoints and their constraints are requested by the handler of the setpoint
\* descriptions, the relations to find them by with the system functions, so a
\* reply for the setpoints may be handled before the relations are there.
SetpointEvents == {"CDT", "CRHT"} \X {"DataUpdateSetpoints", "DataUpdateSetpointConstraints"}

\* The handler of the system function descriptions requests modes and overruns
\* while the connect method still has to request their descriptions.
ModeEvents ==
  {"CDSF", "MDSF"} \X {"DataUpdateOperationMode", "DataUpdateOverrun"}
    \cup {"CRHSF", "MRHSF"} \X {"DataUpdateOperationMode"}

\* Events that nothing raises, or whose data nothing requests.
NeverTold ==
  {<<"EVCC", "DataUpdateChargeState">>, <<"EVCC", "DataUpdateIsInSleepMode">>,
   <<"CEVC", "DataUpdateChargePlanConstraints">>, <<"CEVC", "DataUpdateIncentiveTable">>,
   <<"CEVC", "DataRequestedPowerLimitsAndIncentives">>}

\* The energy demand is looked up before the values it asks for have come, and
\* the event of the slot constraints reports values, not constraints.
CevcEvents == {"CEVC"} \X {"DataUpdateEnergyDemand", "DataUpdateTimeSlotConstraints"}

\* EVSECC never subscribes, so it learns of no change.
NotSubscribed == {"EVSECC"} \X {"DataUpdateManufacturerData", "DataUpdateOperatingState"}

\* Permitted values and limits are told without regard to what else the limits
\* per phase are computed from. EVCEM tells currents and powers of a vehicle that
\* has measurements, which is all EVSOC requires, but no electrical connection or
\* no parameters of it, and the accessors find no phase then.
PartialEvents == {"OPEV", "OSCEV"} \X {"DataUpdateCurrentLimits", "DataUpdateLimit"}
PhaselessEvents == {"EVCEM"} \X {"DataUpdateCurrentPerPhase", "DataUpdatePowerPerPhase"}

KnownUntold == SetpointEvents \cup ModeEvents \cup NeverTold \cup CevcEvents \cup NotSubscribed
                 \cup PartialEvents
KnownUnread == SetpointEvents \cup ModeEvents \cup PartialEvents \cup PhaselessEvents
                 \cup {<<"CEVC", "DataUpdateTimeSlotConstraints">>}

\* Accessors of data that is not requested if a handler finds nothing to ask
\* for, of incentive constraints, which are never requested, of features the
\* scenario does not require, and of limits without EVCC to request the rest.
KnownUnserved ==
  {"CDT", "CRHT"} \X {"Setpoints", "SetpointConstraints"}
    \cup {<<"CEVC", "IncentiveConstraints">>, <<"EVCC", "ChargeState">>}
    \cup {"OPEV", "OSCEV"} \X {"CurrentLimits", "LoadControlLimits"}
    \cup {"OHPCF"} \X DOMAIN UseCases["OHPCF"].accessors

\* The configuration use cases write without binding.
NeverBound == {"CDT", "CRHT", "CDSF", "CRHSF"}

-----------------------------------------------------------------------------
\* What the theorems assume of the combinations in Uses holds of all use cases
\* that can meet at an entity, not only of those a run enumerates, but for two
\* reasons: EVSOC never subscribes and leaves the requests to EVCEM, and MGCP asks
\* for the keys of a device before LPC or LPP have bound them.
Unsupported == {us \in Meeting : "EVSOC" \in us /\ "EVCEM" \notin us}
AskedFirst  == {us \in Meeting : "MGCP" \in us /\ us \cap {"LPC", "LPP"} # {}}

ASSUME CombinationsMeet == All \subseteq Meeting
ASSUME TablesReach  == \A us \in Meeting : \A u \in us : WellFormed(us, u)
ASSUME WritesReach  == {us \in Meeting : ~WritesLed(us)} = AskedFirst
ASSUME EventsReach  == \A us \in Meeting : EventsLed(us)
ASSUME RaisedReach  == {us \in Meeting : ~EventsRaised(us)} = Unsupported
ASSUME AskedReach   == {us \in Meeting : ~AccessorsAsked(us)} = Unsupported
=============================================================================
