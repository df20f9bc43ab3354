------------------------------- MODULE Profiles -------------------------------
(***************************************************************************)
(* The tables of all use cases that are clients of a remote entity.        *)
(***************************************************************************)
EXTENDS MaProfiles, CaProfiles, EgProfiles, EvProfiles, CemProfiles, TLC

Profile(scenarios, clients, connected, handled, accessors, written, unraised) ==
  [scenarios |-> scenarios, features |-> clients, connected |-> connected,
   handlers |-> handled, accessors |-> accessors, writes |-> written, unraised |-> unraised]

MaUseCases ==
  [MPC   |-> Profile(MpcScenarios, MpcFeatures, MpcConnected, MpcHandlers,
                     MpcPower @@ MpcQuality, <<>>, {}),
   MGCP  |-> Profile(MgcpScenarios, MgcpFeatures, MgcpConnected, MgcpHandlers,
                     MgcpPower @@ MgcpQuality, <<>>, {}),
   MDT   |-> Profile(MdtScenarios, MdtFeatures, MdtConnected, MdtHandlers, MdtAccessors, <<>>, {}),
   MOT   |-> Profile(MotScenarios, MotFeatures, MotConnected, MotHandlers, MotAccessors, <<>>, {}),
   MRT   |-> Profile(MrtScenarios, MrtFeatures, MrtConnected, MrtHandlers, MrtAccessors, <<>>, {}),
   MDSF  |-> Profile(MdsfScenarios, MdsfFeatures, MdsfConnected, MdsfHandlers,
                     MdsfModes @@ MdsfOverrun, <<>>, {}),
   MRHSF |-> Profile(MrhsfScenarios, MrhsfFeatures, MrhsfConnected, MrhsfHandlers,
                     MrhsfAccessors, <<>>, {})]

CaUseCases ==
  [CDT   |-> Profile(CdtScenarios, CdtFeatures, CdtConnected, CdtHandlers, CdtAccessors,
                     CdtWrites, {}),
   CRHT  |-> Profile(CrhtScenarios, CrhtFeatures, CrhtConnected, CrhtHandlers,
                     CrhtState @@ CrhtAccessors, CrhtWrites, {}),
   CDSF  |-> Profile(CdsfScenarios, CdsfFeatures, CdsfConnected, CdsfHandlers,
                     CdsfModes @@ CdsfCapabilities, CdsfModeWrites @@ CdsfOverrunWrites, {}),
   CRHSF |-> Profile(CrhsfScenarios, CrhsfFeatures, CrhsfConnected, CrhsfHandlers,
                     CrhsfAccessors, CrhsfWrites, {})]

EgUseCases ==
  [LPC |-> Profile(EgLpcScenarios, EgLpcFeatures, EgLpcConnected, EgLpcHandlers,
                   EgLpcLimit @@ EgLpcFailsafe @@ EgLpcHeartbeat @@ EgLpcNominal,
                   EgLpcWriteLimit @@ EgLpcWriteFailsafe, {}),
   LPP |-> Profile(EgLppScenarios, EgLppFeatures, EgLppConnected, EgLppHandlers,
                   EgLppLimit @@ EgLppFailsafe @@ EgLppHeartbeat @@ EgLppNominal,
                   EgLppWriteLimit @@ EgLppWriteFailsafe, {})]

CemUseCases ==
  [EVCC   |-> Profile(EvccScenarios, EvccFeatures, EvccConnected, EvccHandlers,
                      EvccChargeState @@ EvccSleepMode @@ EvccConfiguration
                        @@ EvccIdentification @@ EvccPowerLimits, <<>>, EvccUnraised),
   EVCEM  |-> Profile(EvcemScenarios, EvcemFeatures, EvcemConnected, EvcemHandlers,
                      EvcemPhases @@ EvcemCurrent @@ EvcemPower @@ EvcemEnergy, <<>>, {}),
   EVSECC |-> Profile(EvseccScenarios, EvseccFeatures, EvseccConnected, EvseccHandlers,
                      EvseccManufacturer @@ EvseccState, <<>>, {}),
   EVSOC  |-> Profile(EvsocScenarios, EvsocFeatures, EvsocConnected, EvsocHandlers,
                      EvsocAccessors, <<>>, {}),
   OPEV   |-> Profile(OpevScenarios, OpevFeatures, OpevConnected, OpevHandlers,
                      OpevCurrentLimits @@ OpevLimits, OpevWrites, {}),
   OSCEV  |-> Profile(OscevScenarios, OscevFeatures, OscevConnected, OscevHandlers,
                      OscevCurrentLimits @@ OscevLimits, OscevWrites, {}),
   CEVC   |-> Profile(CevcScenarios, CevcFeatures, CevcConnected, CevcHandlers,
                      CevcStrategy @@ CevcDemand @@ CevcSlots @@ CevcIncentives
                        @@ CevcConstraints @@ CevcPlan,
                      CevcWriteLimits @@ CevcWriteDescriptions @@ CevcWriteIncentives,
                      CevcUnraised),
   VABD   |-> Profile(VabdScenarios, VabdFeatures, VabdConnected, VabdHandlers,
                      VabdAccessors, <<>>, {}),
   VAPD   |-> Profile(VapdScenarios, VapdFeatures, VapdConnected, VapdHandlers,
                      VapdAccessors, <<>>, {}),
   OHPCF  |-> Profile(OhpcfScenarios, OhpcfFeatures, OhpcfConnected, OhpcfHandlers,
                      OhpcfOffer @@ OhpcfConstraints @@ OhpcfProcess, OhpcfWrites, {})]

UseCases == MaUseCases @@ CaUseCases @@ EgUseCases @@ CemUseCases

\* The types of entities each use case handles the events of, and the use cases
\* that can meet at one entity: those that are added locally, of those it suits.
MeteredEntities == {"EVSE", "Inverter", "SmartEnergyAppliance", "SubMeterElectricity"}
ValidEntityTypes ==
  [u \in DOMAIN UseCases |->
     CASE u = "MPC" -> MeteredEntities \cup {"Compressor", "ElectricalImmersionHeater",
                                             "HeatPumpAppliance"}
       [] u = "MGCP" -> {"CEM", "GridConnectionPointOfPremises"}
       [] u = "LPC"  -> MeteredEntities \cup {"CEM", "Compressor", "HeatPumpAppliance"}
       [] u = "LPP"  -> MeteredEntities \cup {"CEM"}
       [] u \in {"MDT", "MDSF", "CDT", "CDSF"}     -> {"DHWCircuit"}
       [] u \in {"MRT", "MRHSF", "CRHT", "CRHSF"}  -> {"HvacRoom"}
       [] u = "MOT"    -> {"TemperatureSensor"}
       [] u = "EVSECC" -> {"EVSE"}
       [] u \in {"EVCC", "EVCEM", "EVSOC", "OPEV", "OSCEV", "CEVC"} -> {"EV"}
       [] u = "VABD"  -> {"BatterySystem"}
       [] u = "VAPD"  -> {"PVSystem"}
       [] u = "OHPCF" -> {"Compressor"}]
Meeting ==
  UNION {SUBSET {u \in DOMAIN UseCases : e \in ValidEntityTypes[u]} :
           e \in UNION {ValidEntityTypes[u] : u \in DOMAIN UseCases}}

\* What the accessor of an event needs, or the method it asks to be called.
Needs(u, name) ==
  IF name \in DOMAIN UseCases[u].accessors THEN UseCases[u].accessors[name].needs
  ELSE UseCases[u].writes[name].needs

\* Every event a use case declares: the function whose update it reports, the
\* functions that must be cached, and what its accessor needs.
Told == [u \in DOMAIN UseCases |-> [fn \in DOMAIN UseCases[u].handlers |->
  {[use |-> u, event |-> t.event, function |-> fn, checks |-> t.checks,
    needs |-> Needs(u, t.accessor), notified |-> t.notified] :
     t \in UseCases[u].handlers[fn].tells}]]
Declared == [u \in DOMAIN UseCases |->
  UNION {Told[u][fn] : fn \in DOMAIN UseCases[u].handlers}
    \cup {[use |-> u, event |-> t.event, function |-> t.function, checks |-> {},
           needs |-> Needs(u, t.accessor), notified |-> FALSE] : t \in UseCases[u].unraised}]
=============================================================================
