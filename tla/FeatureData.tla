----------------------------- MODULE FeatureData -----------------------------
(***************************************************************************)
(* What the client features (features/client) can ask of a remote server   *)
(* feature, and which cached functions each lookup on the answers needs    *)
(* (features/internal). A lookup fails with ErrDataNotAvailable unless all *)
(* the functions it needs are cached; what it then filters and converts    *)
(* is left out, so a lookup is the set of functions it needs. The tables   *)
(* of the use cases are built from these.                                  *)
(***************************************************************************)
EXTENDS Naturals, Sequences, FiniteSets

\* What each client feature can read at its server.
LoadControlFunctions ==
  {"LoadControlLimitDescription", "LoadControlLimitConstraints", "LoadControlLimit"}
DeviceConfigurationFunctions ==
  {"DeviceConfigurationKeyValueDescription", "DeviceConfigurationKeyValue"}
ElectricalConnectionFunctions ==
  {"ElectricalConnectionDescription", "ElectricalConnectionParameterDescription",
   "ElectricalConnectionPermittedValueSet", "ElectricalConnectionCharacteristic"}
MeasurementFunctions ==
  {"MeasurementDescription", "MeasurementConstraints", "Measurement"}
DeviceDiagnosisFunctions == {"DeviceDiagnosisState", "DeviceDiagnosisHeartbeat"}
DeviceClassificationFunctions == {"DeviceClassificationManufacturer"}
IdentificationFunctions == {"Identification"}
TimeSeriesFunctions == {"TimeSeriesDescription", "TimeSeriesConstraints", "TimeSeries"}
IncentiveTableFunctions ==
  {"IncentiveTableDescription", "IncentiveTableConstraints", "IncentiveTable"}
SmartEnergyManagementPsFunctions == {"SmartEnergyManagementPs"}
HvacFunctions ==
  {"HvacSystemFunctionDescription", "HvacSystemFunction", "HvacOperationModeDescription",
   "HvacSystemFunctionOperationModeRelation", "HvacSystemFunctionSetPointRelation",
   "HvacOverrunDescription", "HvacOverrun"}
SetpointFunctions == {"SetpointDescription", "SetpointConstraints", "Setpoint"}

\* The functions of each feature, by the name of the feature.
FunctionsOf ==
  [LoadControl             |-> LoadControlFunctions,
   DeviceConfiguration     |-> DeviceConfigurationFunctions,
   ElectricalConnection    |-> ElectricalConnectionFunctions,
   Measurement             |-> MeasurementFunctions,
   DeviceDiagnosis         |-> DeviceDiagnosisFunctions,
   DeviceClassification    |-> DeviceClassificationFunctions,
   Identification          |-> IdentificationFunctions,
   TimeSeries              |-> TimeSeriesFunctions,
   IncentiveTable          |-> IncentiveTableFunctions,
   SmartEnergyManagementPs |-> SmartEnergyManagementPsFunctions,
   Hvac                    |-> HvacFunctions,
   Setpoint                |-> SetpointFunctions]

FeatureTypes  == DOMAIN FunctionsOf
FunctionTypes == UNION {FunctionsOf[f] : f \in FeatureTypes}
FeatureOf     == [fn \in FunctionTypes |-> CHOOSE f \in FeatureTypes : fn \in FunctionsOf[f]]

\* The lookups of each feature. "Checked" is what the filter of an event
\* (CheckEventPayloadDataForFilter) needs besides the payload itself.
LoadControlData ==
  [Checked      |-> {"LoadControlLimitDescription"},
   Descriptions |-> {"LoadControlLimitDescription"},
   Data         |-> {"LoadControlLimitDescription", "LoadControlLimit"}]

DeviceConfigurationData ==
  [Checked      |-> {"DeviceConfigurationKeyValueDescription"},
   Descriptions |-> {"DeviceConfigurationKeyValueDescription"},
   Data         |-> {"DeviceConfigurationKeyValueDescription", "DeviceConfigurationKeyValue"}]

MeasurementData ==
  [Checked      |-> {"MeasurementDescription"},
   Descriptions |-> {"MeasurementDescription"},
   Constraints  |-> {"MeasurementConstraints"},
   Data         |-> {"MeasurementDescription", "Measurement"}]

\* The two event filters: permitted values need the parameters, and
\* characteristics are looked up again in the cache.
ElectricalConnectionChecked ==
  [PermittedValues |-> {"ElectricalConnectionParameterDescription"},
   Characteristics |-> {"ElectricalConnectionCharacteristic"}]

ElectricalConnectionDescriptions ==
  [Connections         |-> {"ElectricalConnectionDescription"},
   Parameters          |-> {"ElectricalConnectionParameterDescription"},
   ConnectionOfParameter |->
     {"ElectricalConnectionParameterDescription", "ElectricalConnectionDescription"}]

\* Permitted values, the limits per phase and the characteristics.
ElectricalConnectionValues ==
  [PermittedValues |-> {"ElectricalConnectionPermittedValueSet"},
   PhaseLimits     |-> {"ElectricalConnectionParameterDescription",
                        "ElectricalConnectionPermittedValueSet"},
   Characteristics |-> {"ElectricalConnectionCharacteristic"}]

DeviceDiagnosisData ==
  [State |-> {"DeviceDiagnosisState"}, Heartbeat |-> {"DeviceDiagnosisHeartbeat"}]

DeviceClassificationData == [Manufacturer |-> {"DeviceClassificationManufacturer"}]

IdentificationData == [Checked |-> {}, Data |-> {"Identification"}]

TimeSeriesData ==
  [Descriptions |-> {"TimeSeriesDescription"},
   Constraints  |-> {"TimeSeriesConstraints"},
   Data         |-> {"TimeSeriesDescription", "TimeSeries"}]

IncentiveTableData ==
  [Descriptions |-> {"IncentiveTableDescription"},
   Constraints  |-> {"IncentiveTableConstraints"},
   Data         |-> {"IncentiveTable"}]

SmartEnergyManagementPsData == [Data |-> {"SmartEnergyManagementPs"}]

\* Unlike the measurements, these lookups do not go through descriptions.
HvacDescriptions ==
  [SystemFunctions |-> {"HvacSystemFunctionDescription"},
   OperationModes  |-> {"HvacOperationModeDescription"},
   ModeRelations   |-> {"HvacSystemFunctionOperationModeRelation"}]

HvacData ==
  [SystemFunctions      |-> {"HvacSystemFunction"},
   SetpointRelations    |-> {"HvacSystemFunctionSetPointRelation"},
   OverrunDescriptions  |-> {"HvacOverrunDescription"},
   Overruns             |-> {"HvacOverrun"},
   Checked              |-> {}]

SetpointData ==
  [Descriptions |-> {"SetpointDescription"},
   Data         |-> {"Setpoint"},
   Constraints  |-> {"SetpointConstraints"},
   Checked      |-> {}]

\* Measured values of an entity (usecases/internal). Values with a phase need
\* the parameters, values with a direction also the connections.
PhaseSpecificData(direction, phases) ==
  MeasurementData.Data
    \cup (IF phases THEN ElectricalConnectionDescriptions.Parameters ELSE {})
    \cup (IF direction THEN ElectricalConnectionDescriptions.ConnectionOfParameter ELSE {})

\* The limits of each phase: a limit that is not active is reported as the
\* permitted maximum. Limits of a phase are found through the parameters.
LoadControlLimits ==
  LoadControlData.Data \cup ElectricalConnectionDescriptions.Parameters
    \cup ElectricalConnectionValues.PermittedValues

ManufacturerData == DeviceClassificationData.Manufacturer

-----------------------------------------------------------------------------
\* How the tables of the use cases are written down.

\* The messages for one feature of an entity that was added: subscribe and
\* bind, which is done once, and the requests.
Message(kind, feature, function) == [kind |-> kind, feature |-> feature, function |-> function]
Read(fn) == Message("read", FeatureOf[fn], fn)
Connect(feature, subscribe, bind, requests) ==
  (IF subscribe THEN <<Message("subscribe", feature, "")>> ELSE <<>>)
    \o (IF bind THEN <<Message("bind", feature, "")>> ELSE <<>>)
    \o [i \in DOMAIN requests |-> Read(requests[i])]

\* What an update of a function makes a use case do: further requests, and
\* events for the application.
Handler(requests, tells) == [requests |-> requests, tells |-> tells]

\* An event, raised if the functions in checks are cached, after which the
\* application calls the accessor. Some are only raised by a notification.
Tell(event, checks, accessor) ==
  [event |-> event, checks |-> checks, accessor |-> accessor, notified |-> FALSE]
TellNotified(event, accessor) ==
  [event |-> event, checks |-> {}, accessor |-> accessor, notified |-> TRUE]

\* An accessor, the scenario it is listed under, and what it needs.
Reads(scenario, needs) == [scenario |-> scenario, needs |-> needs]

\* A method that writes a function once what it needs is cached, and the
\* functions it reads again when the device has accepted.
Writes(needs, function, again) == [needs |-> needs, function |-> function, again |-> again]

\* A scenario, whether it is mandatory, and the server features it requires.
Scenario(mandatory, required) == [mandatory |-> mandatory, features |-> required]
=============================================================================
