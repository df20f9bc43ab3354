------------------------------ MODULE EgProfiles ------------------------------
(***************************************************************************)
(* The use cases of the Energy Guard (usecases/eg): limits of consumption  *)
(* (LPC) and production (LPP) that the guard writes, their failsafe        *)
(* values, the heartbeat and the nominal maximum. Tables as in MaProfiles. *)
(***************************************************************************)
EXTENDS FeatureData

-----------------------------------------------------------------------------
\* LPC: limitation of power consumption.

EgLpcScenarios ==
  [n \in 1 .. 4 |-> Scenario(n # 4,
     CASE n = 1 -> {"LoadControl"} [] n = 2 -> {"DeviceConfiguration"}
       [] n = 3 -> {"DeviceDiagnosis"} [] n = 4 -> {"ElectricalConnection"})]
EgLpcFeatures ==
  {"DeviceDiagnosis", "LoadControl", "DeviceConfiguration", "ElectricalConnection"}

EgLpcConnected ==
  Connect("LoadControl", TRUE, TRUE, <<"LoadControlLimitDescription">>)
    \o Connect("DeviceConfiguration", TRUE, TRUE, <<"DeviceConfigurationKeyValueDescription">>)
    \o Connect("DeviceDiagnosis", TRUE, FALSE, <<"DeviceDiagnosisHeartbeat">>)
    \o Connect("ElectricalConnection", TRUE, FALSE, <<"ElectricalConnectionCharacteristic">>)

\* Only a notified heartbeat is an event, the one that was read is not.
EgLpcHandlers ==
  [LoadControlLimitDescription            |-> Handler(<<"LoadControlLimit">>, {}),
   DeviceConfigurationKeyValueDescription |-> Handler(<<"DeviceConfigurationKeyValue">>, {}),
   LoadControlLimit |->
     Handler(<<>>, {Tell("DataUpdateLimit", LoadControlData.Checked, "ConsumptionLimit")}),
   DeviceConfigurationKeyValue |-> Handler(<<>>,
     {Tell("DataUpdateFailsafeConsumptionActivePowerLimit", DeviceConfigurationData.Checked,
           "FailsafeConsumptionActivePowerLimit"),
      Tell("DataUpdateFailsafeDurationMinimum", DeviceConfigurationData.Checked,
           "FailsafeDurationMinimum")}),
   DeviceDiagnosisHeartbeat |->
     Handler(<<>>, {TellNotified("DataUpdateHeartbeat", "IsHeartbeatWithinDuration")}),
   ElectricalConnectionCharacteristic |-> Handler(<<>>,
     {Tell("DataUpdatePowerConsumptionNominalMax", ElectricalConnectionChecked.Characteristics,
           "ConsumptionNominalMax")})]

EgLpcLimit     == [ConsumptionLimit |-> Reads(1, LoadControlData.Data)]
EgLpcFailsafe  ==
  [FailsafeConsumptionActivePowerLimit |-> Reads(2, DeviceConfigurationData.Data),
   FailsafeDurationMinimum             |-> Reads(2, DeviceConfigurationData.Data)]
EgLpcHeartbeat == [IsHeartbeatWithinDuration |-> Reads(3, DeviceDiagnosisData.Heartbeat)]
EgLpcNominal   == [ConsumptionNominalMax |-> Reads(4, ElectricalConnectionValues.Characteristics)]

\* The limit and the duration are written by changing the cached value, the
\* failsafe limit needs its description only.
EgLpcWriteLimit ==
  [WriteConsumptionLimit |-> Writes(LoadControlData.Data, "LoadControlLimit", <<>>)]
EgLpcWriteFailsafe ==
  [WriteFailsafeConsumptionActivePowerLimit |->
     Writes(DeviceConfigurationData.Descriptions, "DeviceConfigurationKeyValue", <<>>),
   WriteFailsafeDurationMinimum |->
     Writes(DeviceConfigurationData.Data, "DeviceConfigurationKeyValue", <<>>)]

-----------------------------------------------------------------------------
\* LPP: limitation of power production.

EgLppScenarios ==
  [n \in 1 .. 4 |-> Scenario(n # 4,
     CASE n = 1 -> {"LoadControl"} [] n = 2 -> {"DeviceConfiguration"}
       [] n = 3 -> {"DeviceDiagnosis"} [] n = 4 -> {"ElectricalConnection"})]
EgLppFeatures ==
  {"DeviceDiagnosis", "LoadControl", "DeviceConfiguration", "ElectricalConnection"}

EgLppConnected ==
  Connect("LoadControl", TRUE, TRUE, <<"LoadControlLimitDescription">>)
    \o Connect("DeviceConfiguration", TRUE, TRUE, <<"DeviceConfigurationKeyValueDescription">>)
    \o Connect("DeviceDiagnosis", TRUE, FALSE, <<"DeviceDiagnosisHeartbeat">>)
    \o Connect("ElectricalConnection", TRUE, FALSE, <<"ElectricalConnectionCharacteristic">>)

EgLppHandlers ==
  [LoadControlLimitDescription            |-> Handler(<<"LoadControlLimit">>, {}),
   DeviceConfigurationKeyValueDescription |-> Handler(<<"DeviceConfigurationKeyValue">>, {}),
   LoadControlLimit |->
     Handler(<<>>, {Tell("DataUpdateLimit", LoadControlData.Checked, "ProductionLimit")}),
   DeviceConfigurationKeyValue |-> Handler(<<>>,
     {Tell("DataUpdateFailsafeProductionActivePowerLimit", DeviceConfigurationData.Checked,
           "FailsafeProductionActivePowerLimit"),
      Tell("DataUpdateFailsafeDurationMinimum", DeviceConfigurationData.Checked,
           "FailsafeDurationMinimum")}),
   DeviceDiagnosisHeartbeat |->
     Handler(<<>>, {TellNotified("DataUpdateHeartbeat", "IsHeartbeatWithinDuration")}),
   ElectricalConnectionCharacteristic |-> Handler(<<>>,
     {Tell("DataUpdatePowerProductionNominalMax", ElectricalConnectionChecked.Characteristics,
           "ProductionNominalMax")})]

EgLppLimit     == [ProductionLimit |-> Reads(1, LoadControlData.Data)]
EgLppFailsafe  ==
  [FailsafeProductionActivePowerLimit |-> Reads(2, DeviceConfigurationData.Data),
   FailsafeDurationMinimum            |-> Reads(2, DeviceConfigurationData.Data)]
EgLppHeartbeat == [IsHeartbeatWithinDuration |-> Reads(3, DeviceDiagnosisData.Heartbeat)]
EgLppNominal   == [ProductionNominalMax |-> Reads(4, ElectricalConnectionValues.Characteristics)]

EgLppWriteLimit ==
  [WriteProductionLimit |-> Writes(LoadControlData.Data, "LoadControlLimit", <<>>)]
EgLppWriteFailsafe ==
  [WriteFailsafeProductionActivePowerLimit |->
     Writes(DeviceConfigurationData.Descriptions, "DeviceConfigurationKeyValue", <<>>),
   WriteFailsafeDurationMinimum |->
     Writes(DeviceConfigurationData.Data, "DeviceConfigurationKeyValue", <<>>)]
=============================================================================
