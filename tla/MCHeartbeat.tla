----------------------------- MODULE MCHeartbeat -----------------------------
(***************************************************************************)
(* Two connections, of one device or of two, with one or several entities  *)
(* that could be watched.                                                  *)
(***************************************************************************)
EXTENDS Heartbeat, TLC

OneDevice  == "s1" :> "d1" @@ "s2" :> "d1"
TwoDevices == "s1" :> "d1" @@ "s2" :> "d2"

Servers(first, second) == "s1" :> first @@ "s2" :> second

Config(d, candidates) == [device |-> d, candidates |-> candidates]

\* A device with several servers and one with a single one, in any order; a
\* device with one or several that connects again.
AllConfigs ==
  {Config(TwoDevices, Servers({"e1", "e2"}, {"e1"})),
   Config(OneDevice,  Servers({"e1"}, {"e1"})),
   Config(OneDevice,  Servers({"e1", "e2"}, {"e1", "e2"}))}
=============================================================================
