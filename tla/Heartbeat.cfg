\* Two connections, of one device or of two.
CONSTANTS
  Sessions = {"s1", "s2"}
  Entities = {"e1", "e2"}
  Configs <- AllConfigs
  Duration = 1
  Period = 1
  Delay = 0
  InOrder = TRUE
  MaxBindings = 1
  MaxMessages = 1
SPECIFICATION Spec
INVARIANTS
  TypeOK
  SilenceNoticed
  SameServer
PROPERTY Supervised
