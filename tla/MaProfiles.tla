------------------------------ MODULE MaProfiles ------------------------------
(***************************************************************************)
(* The use cases of the Monitoring Appliance (usecases/ma): what each      *)
(* requests from an entity that was added, what an update of a function    *)
(* makes it request or tell, and what its accessors need. Their dynamics   *)
(* are in RemoteData.                                                      *)
(***************************************************************************)
EXTENDS FeatureData

-----------------------------------------------------------------------------
\* MPC: monitoring of power consumption.

MpcScenarios ==
  [n \in 1 .. 5 |-> Scenario(n = 1, {"ElectricalConnection", "Measurement"})]
MpcFeatures == {"ElectricalConnection", "Measurement"}

MpcConnected ==
  Connect("ElectricalConnection", TRUE, FALSE,
      <<"ElectricalConnectionDescription", "ElectricalConnectionParameterDescription">>)
    \o Connect("Measurement", TRUE, FALSE, <<"MeasurementDescription", "MeasurementConstraints">>)

MpcHandlers ==
  [MeasurementDescription |-> Handler(<<"Measurement">>, {}),
   Measurement |-> Handler(<<>>,
     {Tell("DataUpdatePower",            MeasurementData.Checked, "Power"),
      Tell("DataUpdatePowerPerPhase",    MeasurementData.Checked, "PowerPerPhase"),
      Tell("DataUpdateEnergyConsumed",   MeasurementData.Checked, "EnergyConsumed"),
      Tell("DataUpdateEnergyProduced",   MeasurementData.Checked, "EnergyProduced"),
      Tell("DataUpdateCurrentsPerPhase", MeasurementData.Checked, "CurrentPerPhase"),
      Tell("DataUpdateVoltagePerPhase",  MeasurementData.Checked, "VoltagePerPhase"),
      Tell("DataUpdateFrequency",        MeasurementData.Checked, "Frequency")})]

MpcPower ==
  [Power          |-> Reads(1, PhaseSpecificData(TRUE, FALSE)),
   PowerPerPhase  |-> Reads(1, PhaseSpecificData(TRUE, TRUE)),
   EnergyConsumed |-> Reads(2, MeasurementData.Data),
   EnergyProduced |-> Reads(2, MeasurementData.Data)]

MpcQuality ==
  [CurrentPerPhase |-> Reads(3, PhaseSpecificData(TRUE, TRUE)),
   VoltagePerPhase |-> Reads(4, PhaseSpecificData(FALSE, TRUE)),
   Frequency       |-> Reads(5, MeasurementData.Data)]

-----------------------------------------------------------------------------
\* MGCP: monitoring of the grid connection point.

MgcpScenarios ==
  [n \in 1 .. 7 |-> IF n = 1 THEN Scenario(FALSE, {"DeviceConfiguration"})
                    ELSE Scenario(n \in 2 .. 4, {"Measurement", "ElectricalConnection"})]
MgcpFeatures == {"DeviceConfiguration", "ElectricalConnection", "Measurement"}

MgcpConnected ==
  Connect("DeviceConfiguration", TRUE, FALSE, <<"DeviceConfigurationKeyValueDescription">>)
    \o MpcConnected

MgcpHandlers ==
  [DeviceConfigurationKeyValueDescription |-> Handler(<<"DeviceConfigurationKeyValue">>, {}),
   DeviceConfigurationKeyValue |-> Handler(<<>>,
     {Tell("DataUpdatePowerLimitationFactor", DeviceConfigurationData.Checked,
           "PowerLimitationFactor")}),
   MeasurementDescription |-> Handler(<<"Measurement">>, {}),
   Measurement |-> Handler(<<>>,
     {Tell("DataUpdatePower",           MeasurementData.Checked, "Power"),
      Tell("DataUpdateEnergyFeedIn",    MeasurementData.Checked, "EnergyFeedIn"),
      Tell("DataUpdateEnergyConsumed",  MeasurementData.Checked, "EnergyConsumed"),
      Tell("DataUpdateCurrentPerPhase", MeasurementData.Checked, "CurrentPerPhase"),
      Tell("DataUpdateVoltagePerPhase", MeasurementData.Checked, "VoltagePerPhase"),
      Tell("DataUpdateFrequency",       MeasurementData.Checked, "Frequency")})]

MgcpPower ==
  [PowerLimitationFactor |-> Reads(1, DeviceConfigurationData.Data),
   Power                 |-> Reads(2, PhaseSpecificData(TRUE, FALSE)),
   EnergyFeedIn          |-> Reads(3, MeasurementData.Data)]

MgcpQuality ==
  [EnergyConsumed  |-> Reads(4, MeasurementData.Data),
   CurrentPerPhase |-> Reads(5, PhaseSpecificData(TRUE, TRUE)),
   VoltagePerPhase |-> Reads(6, PhaseSpecificData(FALSE, TRUE)),
   Frequency       |-> Reads(7, MeasurementData.Data)]

-----------------------------------------------------------------------------
\* MDT, MOT, MRT: temperatures of hot water, outdoors and of a room. They
\* differ in the scope of the measurement only.

MdtScenarios == [n \in {1} |-> Scenario(TRUE, {"Measurement"})]
MdtFeatures  == {"Measurement"}
MdtConnected ==
  Connect("Measurement", TRUE, FALSE, <<"MeasurementDescription", "MeasurementConstraints">>)
MdtHandlers  ==
  [MeasurementDescription |-> Handler(<<"Measurement">>, {}),
   Measurement |->
     Handler(<<>>, {Tell("DataUpdateTemperature", MeasurementData.Checked, "Temperature")})]
\* The unit of the value is in its description.
MdtAccessors ==
  [Temperature |-> Reads(1, MeasurementData.Data \cup MeasurementData.Descriptions)]

MotScenarios == [n \in {1} |-> Scenario(TRUE, {"Measurement"})]
MotFeatures  == {"Measurement"}
MotConnected ==
  Connect("Measurement", TRUE, FALSE, <<"MeasurementDescription", "MeasurementConstraints">>)
MotHandlers  ==
  [MeasurementDescription |-> Handler(<<"Measurement">>, {}),
   Measurement |->
     Handler(<<>>, {Tell("DataUpdateTemperature", MeasurementData.Checked, "Temperature")})]
MotAccessors ==
  [Temperature |-> Reads(1, MeasurementData.Data \cup MeasurementData.Descriptions)]

MrtScenarios == [n \in {1} |-> Scenario(TRUE, {"Measurement"})]
MrtFeatures  == {"Measurement"}
MrtConnected ==
  Connect("Measurement", TRUE, FALSE, <<"MeasurementDescription", "MeasurementConstraints">>)
MrtHandlers  ==
  [MeasurementDescription |-> Handler(<<"Measurement">>, {}),
   Measurement |->
     Handler(<<>>, {Tell("DataUpdateTemperature", MeasurementData.Checked, "Temperature")})]
MrtAccessors ==
  [Temperature |-> Reads(1, MeasurementData.Data \cup MeasurementData.Descriptions)]

-----------------------------------------------------------------------------
\* MDSF: monitoring of the hot water system function.

MdsfScenarios == [n \in 1 .. 2 |-> Scenario(n = 1, {"Hvac"})]
MdsfFeatures  == {"Hvac"}
MdsfConnected ==
  Connect("Hvac", TRUE, FALSE,
      <<"HvacSystemFunctionDescription", "HvacOperationModeDescription",
        "HvacOverrunDescription">>)
MdsfHandlers ==
  [HvacSystemFunctionDescription |->
     Handler(<<"HvacSystemFunctionOperationModeRelation", "HvacSystemFunction", "HvacOverrun">>, {}),
   HvacSystemFunction |->
     Handler(<<>>, {Tell("DataUpdateOperationMode", HvacData.Checked, "CurrentOperationMode")}),
   HvacOverrun |-> Handler(<<>>, {Tell("DataUpdateOverrun", {}, "OverrunStatus")})]

\* The system function is found by its description first (systemFunctionId).
MdsfModes ==
  [OperationModes |-> Reads(1, HvacDescriptions.SystemFunctions
     \cup HvacDescriptions.ModeRelations \cup HvacDescriptions.OperationModes),
   CurrentOperationMode |-> Reads(1, HvacDescriptions.SystemFunctions
     \cup HvacData.SystemFunctions \cup HvacDescriptions.OperationModes)]
MdsfOverrun ==
  [IsOverrunActive |-> Reads(2, HvacDescriptions.SystemFunctions \cup HvacData.SystemFunctions),
   OverrunStatus   |-> Reads(2, HvacDescriptions.SystemFunctions
     \cup HvacData.OverrunDescriptions \cup HvacData.Overruns)]

-----------------------------------------------------------------------------
\* MRHSF: monitoring of the room heating system function.

MrhsfScenarios == [n \in {1} |-> Scenario(TRUE, {"Hvac"})]
MrhsfFeatures  == {"Hvac"}
MrhsfConnected ==
  Connect("Hvac", TRUE, FALSE,
      <<"HvacSystemFunctionDescription", "HvacOperationModeDescription">>)
MrhsfHandlers ==
  [HvacSystemFunctionDescription |->
     Handler(<<"HvacSystemFunctionOperationModeRelation", "HvacSystemFunction">>, {}),
   HvacSystemFunction |->
     Handler(<<>>, {Tell("DataUpdateOperationMode", HvacData.Checked, "CurrentOperationMode")})]
MrhsfAccessors ==
  [OperationModes |-> Reads(1, HvacDescriptions.SystemFunctions
     \cup HvacDescriptions.ModeRelations \cup HvacDescriptions.OperationModes),
   CurrentOperationMode |-> Reads(1, HvacDescriptions.SystemFunctions
     \cup HvacData.SystemFunctions \cup HvacDescriptions.OperationModes)]
=============================================================================
