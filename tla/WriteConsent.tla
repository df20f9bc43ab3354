----------------------------- MODULE WriteConsent -----------------------------
(***************************************************************************)
(* What the write approval of a Controllable System promises about one     *)
(* write, without maps, counts or goroutines: once received it is open     *)
(* until it is accepted, denied, given up by the timer or dropped with the *)
(* connection. It is accepted, and its data stored, only with the consent  *)
(* of the application for every use case the write concerns; one denial    *)
(* closes it, and a closed write stays as it is.                           *)
(***************************************************************************)
CONSTANTS
  Concerns     \* the use cases the write concerns

VARIABLES
  phase,    \* of the write
  consent,  \* the use cases the application has consented for
  stored    \* the data of the write was stored

cvars == <<phase, consent, stored>>

Phases == {"absent", "open", "accepted", "denied", "timeout", "dropped"}

ConsentInit ==
  /\ phase = "absent"
  /\ consent = {}
  /\ stored = FALSE

Submit ==
  /\ phase = "absent"
  /\ phase' = "open"
  /\ UNCHANGED <<consent, stored>>

\* The last approval closes an open write and stores its data.
Accept ==
  /\ phase = "open"
  /\ Concerns \subseteq consent'
  /\ phase' = "accepted"
  /\ stored' = TRUE

\* Consent may come when the write is open no longer: it has no effect then.
Consent(uc) ==
  /\ phase # "absent"
  /\ consent' = consent \cup {uc}
  /\ Accept \/ UNCHANGED <<phase, stored>>

\* An approval of a use case the write does not concern is no consent.
AcceptUnconcerned == Accept /\ UNCHANGED consent

Close ==
  /\ phase = "open"
  /\ phase' \in {"timeout", "dropped"} \cup (IF Concerns = {} THEN {} ELSE {"denied"})
  /\ UNCHANGED <<consent, stored>>

ConsentNext ==
  \/ Submit \/ AcceptUnconcerned \/ Close
  \/ \E uc \in Concerns : Consent(uc)

ConsentSpec == ConsentInit /\ [][ConsentNext]_cvars
=============================================================================
