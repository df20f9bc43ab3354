---------------------------- MODULE MCUseCaseBase ----------------------------
(***************************************************************************)
(* Instances of UseCaseBase: an EVSE with an EV, connecting twice, and one *)
(* more device.                                                            *)
(***************************************************************************)
EXTENDS UseCaseBase, TLC

CONSTANTS s1, s2, s3, evse, ev

OneDevice  == s1 :> "d1" @@ s2 :> "d1"
TwoDevices == s1 :> "d1" @@ s2 :> "d1" @@ s3 :> "d2"

EvOfEvse == evse :> ev

\* Scenario 1 needs a feature, scenario 2 needs two.
Needs == 1 :> {"LoadControl"} @@ 2 :> {"LoadControl", "Measurement"}

Servers(loadControl, measurement) ==
  "LoadControl" :> loadControl @@ "Measurement" :> measurement

Offer(actor, address, scenarios) ==
  [actor |-> actor, address |-> address, scenarios |-> scenarios]

\* An EV use case with the address of the EVSE, beside one the use case is not
\* for; and two supports for the same entity, one without an address.
AllAnnouncements ==
  {<<Offer("EnergyGuard", evse, {2}), Offer("EV", evse, {1, 2})>>,
   <<Offer("EV", ev, {1}), Offer("EV", NoAddress, {1, 2})>>}

\* Features as needed, and one too many.
AllServers == {Servers(1, 1), Servers(1, 2)}

\* The use case is announced again with fewer scenarios.
FewAnnouncements == {<<Offer("EV", NoAddress, {1, 2})>>, <<Offer("EV", ev, {1})>>}
OneServer == {Servers(1, 1)}

\* The two connections of the first device are interchangeable.
Interchangeable == Permutations({s1, s2})
=============================================================================
