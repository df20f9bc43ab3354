CONSTANTS
  Uses <- All
  MaxTrouble <- TroubleOf
  Excused <- KnownUntold
  Raced <- KnownUnread
  Unserved <- KnownUnserved
  Unbinding <- NeverBound
SPECIFICATION Spec
INVARIANTS TypeOK AppKnows ToldReadable Served WritesBound
PROPERTY Settles
CHECK_DEADLOCK FALSE
