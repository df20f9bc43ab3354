\* Events handled one at a time, as published: an EVSE and its EV, connecting
\* twice, and a second device.
CONSTANTS
  s1 = s1
  s2 = s2
  s3 = s3
  evse = evse
  ev = ev
  NoAddress = NoAddress
  Sessions = {s1, s2, s3}
  Devices = {"d1", "d2"}
  DeviceOf <- TwoDevices
  Entities = {evse, ev}
  TopLevel = {evse}
  FirstChild <- EvOfEvse
  Compatible = {evse, ev}
  ValidActors = {"EV"}
  Scenarios = {1, 2}
  Required <- Needs
  Announcements <- AllAnnouncements
  FeatureCounts <- AllServers
  InOrder = TRUE
  MaxEvents = 5
SYMMETRY Interchangeable
SPECIFICATION Spec
INVARIANTS
  TypeOK
  NoGhostEntities
  ListsAnnounced
  NoPanic
  Informed
