\* Two events of one device are handled at the same time.
CONSTANTS
  s1 = s1
  s2 = s2
  s3 = s3
  evse = evse
  ev = ev
  NoAddress = NoAddress
  Sessions = {s1, s2}
  Devices = {"d1", "d2"}
  DeviceOf <- OneDevice
  Entities = {evse, ev}
  TopLevel = {evse}
  FirstChild <- EvOfEvse
  Compatible = {evse, ev}
  ValidActors = {"EV"}
  Scenarios = {1, 2}
  Required <- Needs
  Announcements <- FewAnnouncements
  FeatureCounts <- OneServer
  InOrder = FALSE
  MaxEvents = 3
SPECIFICATION Spec
INVARIANTS
  OneEntryPerEntity
\* An index out of range ends the process.
CHECK_DEADLOCK FALSE
