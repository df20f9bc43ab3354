------------------------------ MODULE CemProfiles ------------------------------
(***************************************************************************)
(* The use cases of the energy manager for batteries, photovoltaics and    *)
(* heat pumps (usecases/cem): VABD, VAPD and OHPCF. Tables as in           *)
(* MaProfiles.                                                             *)
(***************************************************************************)
EXTENDS FeatureData

-----------------------------------------------------------------------------
\* VABD: visualization of aggregated battery data.

VabdScenarios ==
  [n \in 1 .. 4 |-> Scenario(n \in {1, 4}, {"Measurement", "ElectricalConnection"})]
VabdFeatures  == {"DeviceConfiguration", "ElectricalConnection", "Measurement"}
VabdConnected ==
  Connect("ElectricalConnection", TRUE, FALSE,
      <<"ElectricalConnectionDescription", "ElectricalConnectionParameterDescription">>)
    \o Connect("Measurement", TRUE, FALSE, <<"MeasurementDescription", "MeasurementConstraints">>)

VabdHandlers ==
  [MeasurementDescription |-> Handler(<<"Measurement">>, {}),
   Measurement |-> Handler(<<>>,
     {Tell("DataUpdatePower",            MeasurementData.Checked, "Power"),
      Tell("DataUpdateEnergyCharged",    MeasurementData.Checked, "EnergyCharged"),
      Tell("DataUpdateEnergyDischarged", MeasurementData.Checked, "EnergyDischarged"),
      Tell("DataUpdateStateOfCharge",    MeasurementData.Checked, "StateOfCharge")})]
VabdAccessors ==
  [Power            |-> Reads(1, MeasurementData.Data),
   EnergyCharged    |-> Reads(2, MeasurementData.Data),
   EnergyDischarged |-> Reads(3, MeasurementData.Data),
   StateOfCharge    |-> Reads(4, MeasurementData.Data)]

-----------------------------------------------------------------------------
\* VAPD: visualization of aggregated photovoltaic data.

VapdScenarios ==
  [n \in 1 .. 3 |-> Scenario(TRUE, IF n = 1 THEN {"DeviceConfiguration"}
                                   ELSE {"Measurement", "ElectricalConnection"})]
VapdFeatures  == {"DeviceConfiguration", "ElectricalConnection", "Measurement"}
VapdConnected ==
  Connect("DeviceConfiguration", TRUE, FALSE, <<"DeviceConfigurationKeyValueDescription">>)
    \o Connect("ElectricalConnection", TRUE, FALSE,
      <<"ElectricalConnectionDescription", "ElectricalConnectionParameterDescription">>)
    \o Connect("Measurement", TRUE, FALSE, <<"MeasurementDescription", "MeasurementConstraints">>)
VapdHandlers ==
  [DeviceConfigurationKeyValueDescription |-> Handler(<<"DeviceConfigurationKeyValue">>, {}),
   DeviceConfigurationKeyValue |-> Handler(<<>>,
     {Tell("DataUpdatePowerNominalPeak", DeviceConfigurationData.Checked, "PowerNominalPeak")}),
   MeasurementDescription |-> Handler(<<"Measurement">>, {}),
   Measurement |-> Handler(<<>>,
     {Tell("DataUpdatePower",        MeasurementData.Checked, "Power"),
      Tell("DataUpdatePVYieldTotal", MeasurementData.Checked, "PVYieldTotal")})]
VapdAccessors ==
  [PowerNominalPeak |-> Reads(1, DeviceConfigurationData.Data),
   Power            |-> Reads(2, MeasurementData.Data),
   PVYieldTotal     |-> Reads(3, MeasurementData.Data)]

-----------------------------------------------------------------------------
\* OHPCF: optional power consumption of a heat pump's compressor. Its scenarios
\* require no feature; one function holds the offer, its state and constraints.

OhpcfScenarios == [n \in 1 .. 2 |-> Scenario(TRUE, {})]
OhpcfFeatures  == {"SmartEnergyManagementPs"}
OhpcfConnected ==
  Connect("SmartEnergyManagementPs", TRUE, TRUE, <<"SmartEnergyManagementPs">>)
OhpcfHandlers ==
  [SmartEnergyManagementPs |-> Handler(<<>>,
     {Tell("DataUpdateRequestedPowerEstimate", {}, "RequestedPowerEstimate"),
      Tell("DataUpdateRequestedPowerMax",      {}, "RequestedPowerMax"),
      Tell("DataUpdateConsumptionIsStoppable", {}, "ConsumptionIsStoppable"),
      Tell("DataUpdateConsumptionIsPausable",  {}, "ConsumptionIsPausable"),
      Tell("DataUpdateConsumptionStartTime",   {}, "PowerConsumptionProcessStartTime"),
      Tell("DataUpdateConsumptionState",       {}, "PowerConsumptionProcessState"),
      Tell("DataUpdateMinimalRunDuration",     {}, "PowerConsumptionMinimalRunDuration"),
      Tell("DataUpdateMinimalPauseDuration",   {}, "PowerConsumptionMinimalPauseDuration")})]

OhpcfOffer ==
  [a \in {"OptionalPowerConsumption", "OptionalPowerConsumptionAvailable"} |->
     Reads(1, SmartEnergyManagementPsData.Data)]
OhpcfConstraints ==
  [a \in {"RequestedPowerEstimate", "RequestedPowerMax", "ConsumptionIsStoppable",
          "ConsumptionIsPausable"} |-> Reads(1, SmartEnergyManagementPsData.Data)]
OhpcfProcess ==
  [a \in {"PowerConsumptionProcessStartTime", "PowerConsumptionProcessState",
          "PowerConsumptionMinimalRunDuration", "PowerConsumptionMinimalPauseDuration"} |->
     Reads(2, SmartEnergyManagementPsData.Data)]

\* All four need the sequence id of the offer that is cached.
OhpcfWrites ==
  [w \in {"SchedulePowerConsumptionProcess", "AbortPowerConsumptionProcess",
          "PausePowerConsumptionProcess", "ResumePowerConsumptionProcess"} |->
     Writes(OhpcfOffer.OptionalPowerConsumption.needs, "SmartEnergyManagementPs", <<>>)]
=============================================================================
