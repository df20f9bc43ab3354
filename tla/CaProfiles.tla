------------------------------ MODULE CaProfiles ------------------------------
(***************************************************************************)
(* The use cases of the Configuration Appliance (usecases/ca), which read  *)
(* and write set points and operation modes of hot water and heating:      *)
(* tables as in MaProfiles, and the methods that write.                    *)
(***************************************************************************)
EXTENDS FeatureData

-----------------------------------------------------------------------------
\* CDT: configuration of the hot water temperature.

CdtScenarios == [n \in {1} |-> Scenario(TRUE, {"Setpoint", "Hvac"})]
CdtFeatures  == {"Setpoint", "Hvac"}

CdtConnected ==
  Connect("Hvac", TRUE, FALSE,
      <<"HvacSystemFunctionDescription", "HvacOperationModeDescription">>)
    \o Connect("Setpoint", TRUE, FALSE, <<"SetpointDescription">>)

CdtHandlers ==
  [HvacSystemFunctionDescription |-> Handler(<<"HvacSystemFunctionSetPointRelation">>, {}),
   SetpointDescription           |-> Handler(<<"SetpointConstraints", "Setpoint">>, {}),
   Setpoint |->
     Handler(<<>>, {Tell("DataUpdateSetpoints", SetpointData.Checked, "Setpoints")}),
   SetpointConstraints |->
     Handler(<<>>, {Tell("DataUpdateSetpointConstraints", {}, "SetpointConstraints")})]

\* The ids of the set points are in the relations of the system function.
CdtRelations == HvacDescriptions.SystemFunctions \cup HvacData.SetpointRelations
CdtSetpointIDs == CdtRelations
CdtSetpointIDForMode == CdtRelations \cup HvacDescriptions.OperationModes

CdtAccessors ==
  [Setpoints           |-> Reads(1, CdtSetpointIDs \cup SetpointData.Data),
   SetpointConstraints |-> Reads(1, CdtSetpointIDs \cup SetpointData.Constraints)]

CdtWrites ==
  [WriteSetpoint |->
     Writes(CdtSetpointIDForMode \cup SetpointData.Data \cup SetpointData.Constraints,
            "Setpoint", <<"Setpoint">>)]

-----------------------------------------------------------------------------
\* CRHT: configuration of the room heating temperature.

CrhtScenarios == [n \in {1} |-> Scenario(TRUE, {"Setpoint", "Hvac"})]
CrhtFeatures  == {"Setpoint", "Hvac"}

CrhtConnected ==
  Connect("Hvac", TRUE, FALSE,
      <<"HvacSystemFunctionDescription", "HvacOperationModeDescription">>)
    \o Connect("Setpoint", TRUE, FALSE, <<"SetpointDescription">>)

CrhtHandlers ==
  [HvacSystemFunctionDescription |-> Handler(<<"HvacSystemFunctionSetPointRelation">>, {}),
   SetpointDescription           |-> Handler(<<"SetpointConstraints", "Setpoint">>, {}),
   Setpoint |->
     Handler(<<>>, {Tell("DataUpdateSetpoints", SetpointData.Checked, "Setpoints")}),
   SetpointConstraints |->
     Handler(<<>>, {Tell("DataUpdateSetpointConstraints", {}, "SetpointConstraints")})]

CrhtSetpointIds == HvacDescriptions.SystemFunctions \cup HvacData.SetpointRelations
CrhtSetpointIdForMode == CrhtSetpointIds \cup HvacDescriptions.OperationModes

\* The one set point of the room needs the descriptions, value and limits.
CrhtState ==
  [State |-> Reads(1, CrhtSetpointIds \cup SetpointData.Descriptions \cup SetpointData.Data
                        \cup SetpointData.Constraints)]
CrhtAccessors ==
  [Setpoints           |-> Reads(1, CrhtSetpointIds \cup SetpointData.Data),
   SetpointConstraints |-> Reads(1, CrhtSetpointIds \cup SetpointData.Constraints)]

\* For a mode the cached value is only looked at if it is there.
CrhtWrites ==
  [WriteSetpoint |-> Writes(CrhtSetpointIdForMode, "Setpoint", <<"Setpoint">>),
   WriteRoomAirTemperatureSetpoint |->
     Writes(CrhtState.State.needs, "Setpoint", <<"Setpoint">>)]

-----------------------------------------------------------------------------
\* CDSF: configuration of the hot water system function.

CdsfScenarios == [n \in 1 .. 3 |-> Scenario(FALSE, {"Hvac"})]
CdsfFeatures  == {"Hvac"}
CdsfConnected ==
  Connect("Hvac", TRUE, FALSE,
      <<"HvacSystemFunctionDescription", "HvacOperationModeDescription",
        "HvacOverrunDescription">>)
CdsfHandlers ==
  [HvacSystemFunctionDescription |->
     Handler(<<"HvacSystemFunctionOperationModeRelation", "HvacSystemFunction", "HvacOverrun">>, {}),
   HvacSystemFunction |->
     Handler(<<>>, {Tell("DataUpdateOperationMode", HvacData.Checked, "CurrentOperationMode")}),
   HvacOverrun |->
     Handler(<<>>, {Tell("DataUpdateOverrun", {}, "WriteCapabilitiesOverrun")})]

CdsfSystemFunctionId == HvacDescriptions.SystemFunctions
CdsfOverrunId == CdsfSystemFunctionId \cup HvacData.OverrunDescriptions

CdsfModes ==
  [OperationModes |-> Reads(1, CdsfSystemFunctionId
     \cup HvacDescriptions.ModeRelations \cup HvacDescriptions.OperationModes),
   CurrentOperationMode |-> Reads(1, CdsfSystemFunctionId
     \cup HvacData.SystemFunctions \cup HvacDescriptions.OperationModes)]

\* A capability is reported only if the write would find its data.
CdsfCapabilities ==
  [WriteCapabilitiesMode |->
     Reads(1, CdsfModes.OperationModes.needs \cup HvacData.SystemFunctions),
   WriteCapabilitiesOverrun |-> Reads(2, CdsfOverrunId \cup HvacData.Overruns)]

CdsfModeWrites ==
  [WriteOperationMode |->
     Writes(CdsfSystemFunctionId \cup HvacData.SystemFunctions
              \cup HvacDescriptions.ModeRelations \cup HvacDescriptions.OperationModes,
            "HvacSystemFunction", <<"HvacSystemFunction">>)]
CdsfOverrunWrites ==
  [StartOneTimeDhw |-> Writes(CdsfOverrunId, "HvacOverrun", <<"HvacOverrun">>),
   StopOneTimeDhw  |-> Writes(CdsfOverrunId, "HvacOverrun", <<"HvacOverrun">>)]

-----------------------------------------------------------------------------
\* CRHSF: configuration of the room heating system function. Unlike the
\* others it does not read again after a write.

CrhsfScenarios == [n \in {1} |-> Scenario(TRUE, {"Hvac"})]
CrhsfFeatures  == {"Hvac"}
CrhsfConnected ==
  Connect("Hvac", TRUE, FALSE,
      <<"HvacSystemFunctionDescription", "HvacOperationModeDescription">>)
CrhsfHandlers ==
  [HvacSystemFunctionDescription |->
     Handler(<<"HvacSystemFunctionOperationModeRelation", "HvacSystemFunction">>, {}),
   HvacSystemFunction |->
     Handler(<<>>, {Tell("DataUpdateOperationMode", HvacData.Checked, "CurrentOperationMode")})]
CrhsfSystemFunctionId == HvacDescriptions.SystemFunctions
CrhsfAccessors ==
  [OperationModes |-> Reads(1, CrhsfSystemFunctionId
     \cup HvacDescriptions.ModeRelations \cup HvacDescriptions.OperationModes),
   CurrentOperationMode |-> Reads(1, CrhsfSystemFunctionId
     \cup HvacData.SystemFunctions \cup HvacDescriptions.OperationModes)]
CrhsfWrites ==
  [WriteOperationMode |->
     Writes(CrhsfSystemFunctionId \cup HvacData.SystemFunctions
              \cup HvacDescriptions.ModeRelations \cup HvacDescriptions.OperationModes,
            "HvacSystemFunction", <<>>)]
=============================================================================
