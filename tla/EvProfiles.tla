------------------------------ MODULE EvProfiles ------------------------------
(***************************************************************************)
(* The use cases of the energy manager for electric vehicles and their     *)
(* charging stations (usecases/cem): EVCC, EVCEM, EVSECC, EVSOC, OPEV,     *)
(* OSCEV and CEVC. Several of them share the features of one EV entity:    *)
(* EVSOC and OSCEV request nothing on their own, and OPEV relies on EVCC   *)
(* for the permitted values. Tables as in MaProfiles.                      *)
(***************************************************************************)
EXTENDS FeatureData

-----------------------------------------------------------------------------
\* EVCC: EV commissioning and configuration.

EvccScenarios ==
  [n \in 1 .. 8 |-> Scenario(n \in {1, 2, 3, 8},
     CASE n \in {1, 8} -> {} [] n \in {2, 3} -> {"DeviceConfiguration"}
       [] n = 4 -> {"Identification"} [] n = 5 -> {"DeviceClassification"}
       [] n = 6 -> {"ElectricalConnection"} [] n = 7 -> {"DeviceDiagnosis"})]
EvccFeatures ==
  {"DeviceConfiguration", "Identification", "DeviceClassification", "ElectricalConnection",
   "DeviceDiagnosis"}

EvccConnected ==
  Connect("DeviceClassification", TRUE, FALSE, <<"DeviceClassificationManufacturer">>)
    \o Connect("DeviceConfiguration", TRUE, FALSE, <<"DeviceConfigurationKeyValueDescription">>)
    \o Connect("DeviceDiagnosis", TRUE, FALSE, <<"DeviceDiagnosisState">>)
    \o Connect("ElectricalConnection", TRUE, FALSE,
      <<"ElectricalConnectionParameterDescription", "ElectricalConnectionPermittedValueSet">>)
    \o Connect("Identification", TRUE, FALSE, <<"Identification">>)

\* The state of the EV has no handler: the case for it names the type of a
\* field (DeviceDiagnosisOperatingStateType), which no payload has.
EvccHandlers ==
  [DeviceConfigurationKeyValueDescription |-> Handler(<<"DeviceConfigurationKeyValue">>, {}),
   DeviceConfigurationKeyValue |-> Handler(<<>>,
     {Tell("DataUpdateCommunicationStandard", DeviceConfigurationData.Checked,
           "CommunicationStandard"),
      Tell("DataUpdateAsymmetricChargingSupport", DeviceConfigurationData.Checked,
           "AsymmetricChargingSupport")}),
   DeviceClassificationManufacturer |-> Handler(<<>>,
     {Tell("DataUpdateManufacturerData", DeviceClassificationData.Manufacturer,
           "ManufacturerData")}),
   ElectricalConnectionParameterDescription |->
     Handler(<<"ElectricalConnectionPermittedValueSet">>, {}),
   ElectricalConnectionPermittedValueSet |-> Handler(<<>>,
     {Tell("DataUpdateCurrentLimits", ElectricalConnectionChecked.PermittedValues,
           "ChargingPowerLimits")}),
   Identification |-> Handler(<<>>,
     {Tell("DataUpdateIdentifications", IdentificationData.Checked, "Identifications")})]

\* Events that are declared, and that no handler raises.
EvccUnraised ==
  {[event |-> "DataUpdateChargeState",   function |-> "DeviceDiagnosisState",
    accessor |-> "ChargeState"],
   [event |-> "DataUpdateIsInSleepMode", function |-> "DeviceDiagnosisState",
    accessor |-> "IsInSleepMode"]}

EvccChargeState   == [ChargeState |-> Reads(1, DeviceDiagnosisData.State)]
EvccSleepMode     == [IsInSleepMode |-> Reads(7, DeviceDiagnosisData.State)]
EvccConfiguration ==
  [CommunicationStandard     |-> Reads(2, DeviceConfigurationData.Data),
   AsymmetricChargingSupport |-> Reads(3, DeviceConfigurationData.Data)]
EvccIdentification ==
  [Identifications  |-> Reads(4, IdentificationData.Data),
   ManufacturerData |-> Reads(5, ManufacturerData)]
EvccPowerLimits ==
  [ChargingPowerLimits |-> Reads(6, ElectricalConnectionDescriptions.Parameters
                                      \cup ElectricalConnectionValues.PermittedValues)]

-----------------------------------------------------------------------------
\* EVCEM: measurement of electricity while charging.

EvcemScenarios == [n \in 1 .. 3 |-> Scenario(FALSE, {"ElectricalConnection", "Measurement"})]
EvcemFeatures  == {"ElectricalConnection", "Measurement"}
EvcemConnected ==
  Connect("ElectricalConnection", TRUE, FALSE,
      <<"ElectricalConnectionDescription", "ElectricalConnectionParameterDescription">>)
    \o Connect("Measurement", TRUE, FALSE, <<"MeasurementDescription", "MeasurementConstraints">>)
EvcemHandlers ==
  [ElectricalConnectionDescription |->
     Handler(<<>>, {Tell("DataUpdatePhasesConnected", {}, "PhasesConnected")}),
   MeasurementDescription |-> Handler(<<"Measurement">>, {}),
   Measurement |-> Handler(<<>>,
     {Tell("DataUpdateCurrentPerPhase", MeasurementData.Checked, "CurrentPerPhase"),
      Tell("DataUpdatePowerPerPhase",   MeasurementData.Checked, "PowerPerPhase"),
      Tell("DataUpdateEnergyCharged",   MeasurementData.Checked, "EnergyCharged")})]

\* Without the parameters a value is skipped and an empty list returned.
EvcemPhases  == [PhasesConnected |-> Reads(1, ElectricalConnectionDescriptions.Connections)]
EvcemCurrent ==
  [CurrentPerPhase |->
     Reads(1, MeasurementData.Data \cup ElectricalConnectionDescriptions.Parameters)]
EvcemPower   ==
  [PowerPerPhase |->
     Reads(2, MeasurementData.Data \cup ElectricalConnectionDescriptions.Parameters)]
EvcemEnergy  == [EnergyCharged |-> Reads(3, MeasurementData.Data)]

-----------------------------------------------------------------------------
\* EVSECC: the charging station. It reads without subscribing.

EvseccScenarios ==
  [n \in 1 .. 2 |-> IF n = 1 THEN Scenario(FALSE, {"DeviceClassification"})
                    ELSE Scenario(TRUE, {"DeviceDiagnosis"})]
EvseccFeatures  == {"DeviceClassification", "DeviceDiagnosis"}
EvseccConnected ==
  Connect("DeviceClassification", FALSE, FALSE, <<"DeviceClassificationManufacturer">>)
    \o Connect("DeviceDiagnosis", FALSE, FALSE, <<"DeviceDiagnosisState">>)

\* Mutant: every state is followed by another request of it.
EvseccHandlersAgain ==
  [DeviceClassificationManufacturer |-> Handler(<<>>, {}),
   DeviceDiagnosisState |-> Handler(<<"DeviceDiagnosisState">>,
     {Tell("DataUpdateOperatingState", DeviceDiagnosisData.State, "OperatingState")})]

EvseccHandlers ==
  [DeviceClassificationManufacturer |-> Handler(<<>>,
     {Tell("DataUpdateManufacturerData", DeviceClassificationData.Manufacturer,
           "ManufacturerData")}),
   DeviceDiagnosisState |-> Handler(<<>>,
     {Tell("DataUpdateOperatingState", DeviceDiagnosisData.State, "OperatingState")})]
EvseccManufacturer == [ManufacturerData |-> Reads(1, ManufacturerData)]
EvseccState        == [OperatingState |-> Reads(2, DeviceDiagnosisData.State)]

-----------------------------------------------------------------------------
\* EVSOC: the state of charge. What it needs is requested by EVCEM.

EvsocScenarios == [n \in {1} |-> Scenario(TRUE, {"Measurement"})]
EvsocFeatures  == {"ElectricalConnection", "Measurement"}
EvsocConnected == <<>>
EvsocHandlers  ==
  [Measurement |->
     Handler(<<>>, {Tell("DataUpdateStateOfCharge", MeasurementData.Checked, "StateOfCharge")})]
EvsocAccessors == [StateOfCharge |-> Reads(1, MeasurementData.Data)]

-----------------------------------------------------------------------------
\* OPEV: overload protection by obligations of the EV to limit its current.

OpevScenarios ==
  [n \in 1 .. 3 |-> Scenario(TRUE, IF n = 1 THEN {"LoadControl", "ElectricalConnection"} ELSE {})]
OpevFeatures  == {"LoadControl", "ElectricalConnection"}
OpevConnected ==
  Connect("LoadControl", TRUE, TRUE,
      <<"LoadControlLimitDescription", "LoadControlLimitConstraints">>)
OpevHandlers ==
  [LoadControlLimitDescription |-> Handler(<<"LoadControlLimit">>, {}),
   LoadControlLimit |->
     Handler(<<>>, {Tell("DataUpdateLimit", LoadControlData.Checked, "LoadControlLimits")}),
   ElectricalConnectionPermittedValueSet |-> Handler(<<>>,
     {Tell("DataUpdateCurrentLimits", ElectricalConnectionChecked.PermittedValues,
           "CurrentLimits")})]

\* The limits of each phase belong to the measurement of a limit description.
OpevCurrentLimits ==
  [CurrentLimits |->
     Reads(1, LoadControlData.Descriptions \cup ElectricalConnectionValues.PhaseLimits)]
OpevLimits == [LoadControlLimits |-> Reads(1, LoadControlLimits)]
OpevWrites ==
  [WriteLoadControlLimits |->
     Writes(LoadControlData.Data \cup ElectricalConnectionDescriptions.Parameters,
            "LoadControlLimit", <<>>)]

-----------------------------------------------------------------------------
\* OSCEV: self consumption by recommendations. All it needs is requested by
\* OPEV and EVCC.

OscevScenarios ==
  [n \in 1 .. 3 |-> Scenario(TRUE, IF n = 1 THEN {"LoadControl", "ElectricalConnection"} ELSE {})]
OscevFeatures  == {"LoadControl", "ElectricalConnection"}
OscevConnected == <<>>
OscevHandlers  ==
  [LoadControlLimit |->
     Handler(<<>>, {Tell("DataUpdateLimit", LoadControlData.Checked, "LoadControlLimits")}),
   ElectricalConnectionPermittedValueSet |-> Handler(<<>>,
     {Tell("DataUpdateCurrentLimits", ElectricalConnectionChecked.PermittedValues,
           "CurrentLimits")})]
OscevCurrentLimits ==
  [CurrentLimits |->
     Reads(1, LoadControlData.Descriptions \cup ElectricalConnectionValues.PhaseLimits)]
OscevLimits == [LoadControlLimits |-> Reads(1, LoadControlLimits)]
OscevWrites ==
  [WriteLoadControlLimits |->
     Writes(LoadControlData.Data \cup ElectricalConnectionDescriptions.Parameters,
            "LoadControlLimit", <<>>)]

-----------------------------------------------------------------------------
\* CEVC: coordinated charging. The EV asks for a plan by setting
\* updateRequired in its descriptions, which is taken to be set here.

CevcScenarios ==
  [n \in {1, 2, 3, 4, 6, 8} |-> Scenario(n # 1,
     IF n \in {1, 2, 4} THEN {"TimeSeries"} ELSE IF n = 3 THEN {"IncentiveTable"} ELSE {})]
CevcFeatures ==
  {"DeviceConfiguration", "TimeSeries", "IncentiveTable", "ElectricalConnection"}
CevcConnected ==
  Connect("DeviceConfiguration", TRUE, FALSE, <<"DeviceConfigurationKeyValueDescription">>)
    \o Connect("TimeSeries", TRUE, TRUE, <<"TimeSeriesDescription", "TimeSeriesConstraints">>)
    \o Connect("IncentiveTable", TRUE, TRUE, <<"IncentiveTableDescription">>)

\* The demand is looked up right after the values were requested. The case for
\* the incentive table names the type of a field (IncentiveDataType), which no
\* payload has, so its values have no handler.
CevcHandlers ==
  [TimeSeriesDescription |-> Handler(<<"TimeSeries">>,
     {Tell("DataUpdateEnergyDemand", TimeSeriesData.Data, "EnergyDemand"),
      Tell("DataRequestedPowerLimitsAndIncentives",
           TimeSeriesData.Data \cup TimeSeriesData.Constraints \cup IncentiveTableData.Constraints,
           "WriteIncentives")}),
   TimeSeries |-> Handler(<<>>,
     {Tell("DataUpdateChargePlan",          TimeSeriesData.Data, "ChargePlan"),
      Tell("DataUpdateTimeSlotConstraints", TimeSeriesData.Data, "TimeSlotConstraints")}),
   IncentiveTableDescription |-> Handler(<<"IncentiveTable">>,
     {Tell("DataRequestedIncentiveTableDescription", IncentiveTableData.Descriptions,
           "WriteIncentiveTableDescriptions")}),
   IncentiveTableConstraints |-> Handler(<<>>,
     {Tell("DataUpdateIncentiveTable", {}, "IncentiveConstraints")})]
CevcUnraised ==
  {[event |-> "DataUpdateChargePlanConstraints", function |-> "TimeSeries",
    accessor |-> "ChargePlanConstraints"]}

CevcStrategy    == [ChargeStrategy |-> Reads(1, TimeSeriesData.Data)]
CevcDemand      == [EnergyDemand |-> Reads(1, TimeSeriesData.Data)]
CevcSlots       == [TimeSlotConstraints |-> Reads(2, TimeSeriesData.Constraints)]
CevcIncentives  == [IncentiveConstraints |-> Reads(3, IncentiveTableData.Constraints)]
CevcConstraints == [ChargePlanConstraints |-> Reads(4, TimeSeriesData.Data)]
CevcPlan        == [ChargePlan |-> Reads(4, TimeSeriesData.Data)]

CevcWriteLimits ==
  [WritePowerLimits |->
     Writes(TimeSeriesData.Constraints \cup TimeSeriesData.Descriptions, "TimeSeries", <<>>)]
CevcWriteDescriptions ==
  [WriteIncentiveTableDescriptions |->
     Writes(IncentiveTableData.Descriptions, "IncentiveTableDescription", <<>>)]
CevcWriteIncentives ==
  [WriteIncentives |-> Writes(IncentiveTableData.Constraints, "IncentiveTable", <<>>)]
=============================================================================
