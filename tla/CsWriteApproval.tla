--------------------------- MODULE CsWriteApproval ---------------------------
(***************************************************************************)
(* The write approval of the Controllable System actor: LPC and LPP        *)
(* (usecases/cs/lpc, usecases/cs/lpp) register one write approval callback *)
(* each on the LoadControl and on the DeviceConfiguration server feature   *)
(* of the local entity. A write of an Energy Guard is put on hold by the   *)
(* SPINE stack, every callback is called with it, and it is applied once   *)
(* every callback's owner has approved it. A use case the write does not   *)
(* concern approves by itself; one it concerns stores the message under    *)
(* its msgCounter and waits for the application's decision.                *)
(*                                                                         *)
(* The stack keeps a held write under (SKI, msgCounter) until it is        *)
(* decided, times out or the device disconnects. The use cases keep it     *)
(* under msgCounter alone, until the application decides.                  *)
(***************************************************************************)
EXTENDS Naturals, FiniteSets

CONSTANTS
  UseCases,       \* the use cases registered on the features, LPC and LPP
  Observed,       \* those of them constructed with an event callback
  Sessions,       \* connections of remote devices, each used at most once
  Skis,           \* the SKIs of remote devices
  SkiOf,          \* the SKI of the device behind a connection
  Counters,       \* the msgCounter values devices use
  Contents,       \* what the writes carry, members of WriteContent
  ReuseCounters,  \* may a msgCounter seen in one session come again in another
  MaxWrites       \* bound: writes received in a behaviour

Features == {"LoadControl", "DeviceConfiguration"}

\* One limit and one failsafe limit per use case, the failsafe duration both
\* share, an entry no use case knows, and an entry without an id.
LimitOf(uc)     == <<"limit", uc>>
FailsafeOf(uc)  == <<"failsafeLimit", uc>>
DurationMinimum == <<"failsafeDurationMinimum", "shared">>
Other           == <<"other", "unknown">>
NoId            == <<"other", "noId">>

Items == {LimitOf(uc) : uc \in UseCases} \cup {FailsafeOf(uc) : uc \in UseCases}
           \cup {DurationMinimum, Other, NoId}

WriteContent == [feature : Features, items : SUBSET Items]

ASSUME UseCasesAssumption == IsFiniteSet(UseCases) /\ Observed \subseteq UseCases
ASSUME SessionsAssumption == SkiOf \in [Sessions -> Skis]
ASSUME CountersAssumption == Counters \subseteq Nat
ASSUME ContentsAssumption == Contents \subseteq WriteContent
ASSUME ReuseAssumption    == ReuseCounters \in BOOLEAN
ASSUME BoundAssumption    == MaxWrites \in Nat

Message == [session : Sessions, counter : Counters, content : Contents]

VARIABLES
  opened,     \* sessions that were connected at some time
  live,       \* sessions connected now
  received,   \* every write received so far
  unchecked,  \* <<write, use case>>: the callback was called and has not run
  approving,  \* <<write, use case>>: goroutine about to approve by itself
  pending,    \* pendingLimits and pendingDeviceConfigs of each use case
  approvals,  \* the stack's count of approvals of a write
  outcome,    \* the result the stack has sent for a write
  applied,    \* writes whose data the stack has stored
  granted,    \* history: <<write, use case>> the application approved
  waived,     \* history: <<write, use case>> approved without the application
  refused,    \* history: <<write, use case>> the application denied
  crashed     \* a nil function was called

vars == <<opened, live, received, unchecked, approving, pending, approvals,
          outcome, applied, granted, waived, refused, crashed>>

stack   == <<approvals, outcome, applied>>
history == <<granted, waived, refused>>

Outcomes == {"none", "accepted", "denied", "timeout"}

TypeOK ==
  /\ opened \subseteq Sessions /\ live \subseteq opened
  /\ received \subseteq Message
  /\ unchecked \subseteq received \X UseCases
  /\ approving \subseteq received \X UseCases
  /\ pending \in [UseCases -> SUBSET received]
  /\ approvals \in [Sessions -> [Counters -> Nat]]
  /\ outcome \in [Sessions -> [Counters -> Outcomes]]
  /\ applied \subseteq received
  /\ granted \subseteq received \X UseCases
  /\ waived \subseteq received \X UseCases
  /\ refused \subseteq received \X UseCases
  /\ crashed \in BOOLEAN

Init ==
  /\ opened = {} /\ live = {} /\ received = {}
  /\ unchecked = {} /\ approving = {}
  /\ pending   = [uc \in UseCases |-> {}]
  /\ approvals = [s \in Sessions |-> [c \in Counters |-> 0]]
  /\ outcome   = [s \in Sessions |-> [c \in Counters |-> "none"]]
  /\ applied = {}
  /\ granted = {} /\ waived = {} /\ refused = {}
  /\ crashed = FALSE

-----------------------------------------------------------------------------
(* Which writes a use case looks at.                                       *)

\* What a use case asks the application about: its limit, its failsafe limit
\* and the failsafe duration.
ApprovalItems(uc, feature) ==
  IF feature = "LoadControl" THEN {LimitOf(uc)}
                             ELSE {FailsafeOf(uc), DurationMinimum}

Concerned(uc, m) ==
  m.content.items \cap ApprovalItems(uc, m.content.feature) # {}

\* The callbacks return without an answer: nothing in the list, or a
\* configuration entry without a key id.
Unusable(m) ==
  \/ m.content.items = {}
  \/ m.content.feature = "DeviceConfiguration" /\ NoId \in m.content.items

SameKey(m, w) ==
  m.counter = w.counter /\ m.content.feature = w.content.feature

\* The map has an entry for the message's counter, whoever sent it.
HasEntry(uc, m) == \E p \in pending[uc] : SameKey(p, m)

-----------------------------------------------------------------------------
(* The SPINE stack: held writes, their timer, and ApproveOrDenyWrite.      *)

OutcomeOf(m) == outcome[m.session][m.counter]

Awaiting == {m \in received : m.session \in live /\ OutcomeOf(m) = "none"}

\* The held write a call of ApproveOrDenyWrite with message m is counted for.
HeldFor(m) ==
  {w \in Awaiting : SameKey(w, m) /\ SkiOf[w.session] = SkiOf[m.session]}

SetOutcome(w, result) ==
  outcome' = [outcome EXCEPT ![w.session][w.counter] = result]

\* Mutant of Approve: the first approval is taken for all.
ApproveAny(m) ==
  IF HeldFor(m) = {}
  THEN UNCHANGED stack
  ELSE /\ \E w \in HeldFor(m) : SetOutcome(w, "accepted")
       /\ applied' = applied \cup {m}
       /\ UNCHANGED approvals

\* An approval that completes the count stores the data of the message it was
\* called with, one that does not is counted. The call names no use case.
Approve(m) ==
  IF HeldFor(m) = {}
  THEN UNCHANGED stack
  ELSE \E w \in HeldFor(m) :
         LET count == approvals[w.session][w.counter] + 1 IN
         /\ approvals' = [approvals EXCEPT ![w.session][w.counter] = count]
         /\ IF count = Cardinality(UseCases)
            THEN SetOutcome(w, "accepted") /\ applied' = applied \cup {m}
            ELSE UNCHANGED <<outcome, applied>>

\* Mutant of Deny: the error number is left at 0.
DenyWithoutError(m) == Approve(m)

Deny(m) ==
  /\ IF HeldFor(m) = {}
     THEN UNCHANGED outcome
     ELSE \E w \in HeldFor(m) : SetOutcome(w, "denied")
  /\ UNCHANGED <<approvals, applied>>

Connect(s) ==
  /\ s \notin opened
  /\ \A t \in live : SkiOf[t] # SkiOf[s]
  /\ opened' = opened \cup {s}
  /\ live' = live \cup {s}
  /\ UNCHANGED <<received, unchecked, approving, pending, crashed>>
  /\ UNCHANGED stack /\ UNCHANGED history

\* The stack forgets what it held for the device; the use cases do not.
Disconnect(s) ==
  /\ s \in live
  /\ live' = live \ {s}
  /\ UNCHANGED <<opened, received, unchecked, approving, pending, crashed>>
  /\ UNCHANGED stack /\ UNCHANGED history

\* A device counts its messages up, and starts again only in a new session.
NewInSession(m) ==
  \A w \in received : w.session = m.session => w.counter < m.counter

Receive(m) ==
  /\ m.session \in live
  /\ Cardinality(received) < MaxWrites
  /\ NewInSession(m)
  /\ ReuseCounters \/ \A w \in received : w.counter # m.counter
  /\ received' = received \cup {m}
  /\ unchecked' = unchecked \cup ({m} \X UseCases)
  /\ UNCHANGED <<opened, live, approving, pending, crashed>>
  /\ UNCHANGED stack /\ UNCHANGED history

\* The approval timer of a held write fires.
Expire(m) ==
  /\ m \in Awaiting
  /\ SetOutcome(m, "timeout")
  /\ UNCHANGED <<opened, live, received, unchecked, approving, pending,
                 approvals, applied, crashed>>
  /\ UNCHANGED history

-----------------------------------------------------------------------------
(* The use cases: loadControlWriteCB, deviceConfigurationWriteCB.          *)

\* Mutant of Store: the map gets the message without its data.
StoreEmpty(uc, m) ==
  /\ pending' = [pending EXCEPT ![uc] = @ \cup {[m EXCEPT !.content.items = {}]}]
  /\ UNCHANGED <<crashed, approving>>

Store(uc, m) ==
  /\ pending' = [pending EXCEPT ![uc] = @ \cup {m}]
  /\ crashed' = (uc \notin Observed)
  /\ UNCHANGED approving

\* Mutant of ApproveBySelf: the message is stored all the same.
ApproveAndStore(uc, m) ==
  /\ approving' = approving \cup {<<m, uc>>}
  /\ pending' = [pending EXCEPT ![uc] = @ \cup {m}]
  /\ UNCHANGED crashed

ApproveBySelf(uc, m) ==
  /\ approving' = approving \cup {<<m, uc>>}
  /\ UNCHANGED <<pending, crashed>>

Ignore == UNCHANGED <<pending, approving, crashed>>

\* Mutant of LoadControlWriteCB: the limit id is not compared.
ApproveEveryLimit(uc, m) ==
  IF Unusable(m) THEN Ignore ELSE ApproveBySelf(uc, m)

\* Mutant of LoadControlWriteCB: writes of no concern are not answered.
IgnoreOtherLimits(uc, m) ==
  IF Concerned(uc, m) /\ ~HasEntry(uc, m) THEN Store(uc, m) ELSE Ignore

\* A limit write whose counter is in the map already falls through to the
\* approval meant for writes of no concern.
LoadControlWriteCB(uc, m) ==
  IF Unusable(m)
  THEN Ignore
  ELSE IF Concerned(uc, m) /\ ~HasEntry(uc, m)
       THEN Store(uc, m)
       ELSE ApproveBySelf(uc, m)

\* Mutant of DeviceConfigurationWriteCB: writes of no concern are not answered.
IgnoreOtherConfigs(uc, m) ==
  IF Concerned(uc, m) /\ ~HasEntry(uc, m) THEN Store(uc, m) ELSE Ignore

\* A configuration write whose counter is in the map already is dropped.
DeviceConfigurationWriteCB(uc, m) ==
  IF Unusable(m) \/ (Concerned(uc, m) /\ HasEntry(uc, m))
  THEN Ignore
  ELSE IF Concerned(uc, m)
       THEN Store(uc, m)
       ELSE ApproveBySelf(uc, m)

WriteCB(uc, m) ==
  /\ <<m, uc>> \in unchecked
  /\ unchecked' = unchecked \ {<<m, uc>>}
  /\ \/ m.content.feature = "LoadControl" /\ LoadControlWriteCB(uc, m)
     \/ m.content.feature = "DeviceConfiguration" /\ DeviceConfigurationWriteCB(uc, m)
  /\ UNCHANGED <<opened, live, received>>
  /\ UNCHANGED stack /\ UNCHANGED history

\* The goroutine of a use case that approves without the application.
AutoApprove(uc, m) ==
  /\ <<m, uc>> \in approving
  /\ approving' = approving \ {<<m, uc>>}
  /\ waived' = waived \cup {<<m, uc>>}
  /\ Approve(m)
  /\ UNCHANGED <<opened, live, received, unchecked, pending, granted, refused, crashed>>

\* Mutant of Grant: a decision the stack no longer waits for leaves the entry.
GrantOnlyHeld(uc, m) ==
  /\ m \in pending[uc]
  /\ Approve(m)
  /\ pending' = [pending EXCEPT ![uc] = @ \ (Awaiting \cap {m})]
  /\ granted' = granted \cup {<<m, uc>>}
  /\ UNCHANGED <<opened, live, received, unchecked, approving, waived, refused, crashed>>

\* The application decides on an entry: ApproveOrDenyConsumptionLimit,
\* ApproveOrDenyProductionLimit, ApproveOrDenyDeviceConfiguration.
Grant(uc, m) ==
  /\ m \in pending[uc]
  /\ Approve(m)
  /\ pending' = [pending EXCEPT ![uc] = @ \ {m}]
  /\ granted' = granted \cup {<<m, uc>>}
  /\ UNCHANGED <<opened, live, received, unchecked, approving, waived, refused, crashed>>

Refuse(uc, m) ==
  /\ m \in pending[uc]
  /\ Deny(m)
  /\ pending' = [pending EXCEPT ![uc] = @ \ {m}]
  /\ refused' = refused \cup {<<m, uc>>}
  /\ UNCHANGED <<opened, live, received, unchecked, approving, granted, waived, crashed>>

-----------------------------------------------------------------------------
\* Nothing is left to do but to wait for devices.
Quiet ==
  /\ unchecked = {} /\ approving = {} /\ Awaiting = {}
  /\ \A uc \in UseCases : pending[uc] = {}
  /\ UNCHANGED vars

Step ==
  \/ \E s \in Sessions : Connect(s) \/ Disconnect(s)
  \/ \E s \in live, c \in Counters, k \in Contents :
       Receive([session |-> s, counter |-> c, content |-> k])
  \/ \E m \in received : Expire(m)
  \/ \E uc \in UseCases, m \in received :
       WriteCB(uc, m) \/ AutoApprove(uc, m) \/ Grant(uc, m) \/ Refuse(uc, m)
  \/ Quiet

\* A call of a nil function ends the process.
Next == ~crashed /\ Step

Spec == Init /\ [][Next]_vars

\* Callbacks and goroutines are scheduled, and an application that is told of
\* an entry decides on it. The timer is left out: a write is to be decided
\* without its help.
Fairness ==
  \A uc \in UseCases :
    /\ WF_vars(~crashed /\ \E m \in received : WriteCB(uc, m))
    /\ WF_vars(~crashed /\ \E m \in received : AutoApprove(uc, m))
    /\ WF_vars(~crashed /\ \E m \in received : Grant(uc, m) \/ Refuse(uc, m))

FairSpec == Spec /\ Fairness

-----------------------------------------------------------------------------
(* Properties. Several hold for a write as long as no other write with the *)
(* same counter on the same feature was received.                          *)

Unrepeated(m) == \A w \in received : SameKey(w, m) => w = m

\* The data of a write is stored only after the application has approved it
\* for every use case it concerns: a limit or a failsafe value of LPC or LPP
\* never changes behind the application's back.
AppliedWithConsent ==
  \A m \in applied, uc \in UseCases :
    Unrepeated(m) /\ Concerned(uc, m) => <<m, uc>> \in granted

\* One denial is final: what the application refused for one use case is not
\* stored, whatever the other use case says and in whatever order.
RefusedNotApplied ==
  \A d \in refused : Unrepeated(d[1]) => d[1] \notin applied

\* No use case loses a held write: as long as the stack holds a usable write,
\* each use case still has its callback or its goroutine to run, has the
\* write in its map, or has approved it.
Undecided(uc, m) ==
  \/ <<m, uc>> \in unchecked \cup approving
  \/ m \in pending[uc]

Approved(m) == {uc \in UseCases : <<m, uc>> \in granted \cup waived}

NoLostWrite ==
  \A m \in Awaiting :
    Unrepeated(m) /\ ~Unusable(m) =>
      \A uc \in UseCases : Undecided(uc, m) \/ uc \in Approved(m)

\* No use case answers a write twice, also one whose timer has fired, whose
\* device is gone or whose counter came again: what was approved or denied,
\* by the goroutine or the application, is not left to be decided again. The
\* stack counts approvals without knowing whose they are, so a second one
\* would stand for the other use case's.
EachAnswersOnce ==
  /\ granted \cap waived = {} /\ granted \cap refused = {} /\ waived \cap refused = {}
  /\ \A a \in granted \cup waived \cup refused : ~Undecided(a[2], a[1])

\* Every usable write is decided without the timer, if the application
\* decides on what it is told of.
HeldUsable(s, c) ==
  \E m \in Awaiting : m.session = s /\ m.counter = c /\ ~Unusable(m)

EveryWriteDecided ==
  \A s \in Sessions, c \in Counters : HeldUsable(s, c) ~> ~HeldUsable(s, c)

-----------------------------------------------------------------------------
(* The inductive invariant.                                                *)

\* A device numbers its writes apart within one session.
UniqueInSession ==
  \A m, w \in received :
    m.session = w.session /\ m.counter = w.counter => m = w

\* A device has one connection at a time.
OneConnection == \A s, t \in live : SkiOf[s] = SkiOf[t] => s = t

SessionsOpened == \A m \in received : m.session \in opened

\* The stack has nothing for a counter no write came with.
NothingUnreceived ==
  \A s \in Sessions, c \in Counters :
    (\A m \in received : m.session # s \/ m.counter # c)
      => outcome[s][c] = "none" /\ approvals[s][c] = 0

\* A use case handles a write once: callback, map or goroutine, decision.
HandledOnce ==
  /\ unchecked \cap (approving \cup granted \cup waived \cup refused) = {}
  /\ approving \cap (granted \cup waived \cup refused) = {}
  /\ granted \cap waived = {} /\ granted \cap refused = {} /\ waived \cap refused = {}
  /\ \A uc \in UseCases : \A m \in pending[uc] :
       <<m, uc>> \notin unchecked \cup approving \cup granted \cup waived \cup refused

\* Only use cases a write does not concern approve it by themselves.
WaivedUnconcerned(m) ==
  \A uc \in UseCases : <<m, uc>> \in approving \cup waived => ~Concerned(uc, m)

\* The stack's anonymous count is the number of use cases that approved.
CountIsApproved(m) ==
  m \in Awaiting => approvals[m.session][m.counter] = Cardinality(Approved(m))

AppliedIsApproved(m) ==
  /\ OutcomeOf(m) = "accepted" <=> m \in applied
  /\ m \in applied => Approved(m) = UseCases

RefusedIsClosed(m) ==
  \A uc \in UseCases : <<m, uc>> \in refused => m \notin Awaiting

NotLost(m) ==
  m \in Awaiting /\ ~Unusable(m) =>
    \A uc \in UseCases : Undecided(uc, m) \/ uc \in Approved(m)

WriteInv(m) ==
  /\ WaivedUnconcerned(m) /\ CountIsApproved(m)
  /\ AppliedIsApproved(m) /\ RefusedIsClosed(m) /\ NotLost(m)

StackInv == UniqueInSession /\ OneConnection /\ SessionsOpened /\ NothingUnreceived

IInv ==
  /\ TypeOK /\ StackInv /\ HandledOnce
  /\ \A m \in received : Unrepeated(m) => WriteInv(m)
-----------------------------------------------------------------------------
(* The abstract specification, as long as no device starts its msgCounter  *)
(* again (ReuseCounters = FALSE).                                          *)

PhaseOf(m) ==
  IF m \notin received THEN "absent"
  ELSE IF OutcomeOf(m) # "none" THEN OutcomeOf(m)
  ELSE IF m.session \in live THEN "open" ELSE "dropped"

Abstract(m) ==
  INSTANCE WriteConsent WITH
    Concerns <- {uc \in UseCases : Concerned(uc, m)},
    phase    <- PhaseOf(m),
    consent  <- {uc \in UseCases : <<m, uc>> \in granted},
    stored   <- m \in applied

\* For every write, every step of the stack, of the two use cases and of the
\* application is a step of WriteConsent or changes nothing there: maps,
\* counts and goroutines implement "accepted with everyone's consent".
ImplementsWriteConsent ==
  /\ \A m \in Message : Abstract(m)!ConsentInit
  /\ [][\A m \in Message : [Abstract(m)!ConsentNext]_(Abstract(m)!cvars)]_vars

-----------------------------------------------------------------------------
(* What the code does not keep.                                            *)

\* "the implementation only considers write messages for this use case and
\* approves all others" (the comment above loadControlWriteCB): a write that
\* concerns the use case is not approved without the application.
OnlyOthersWaived ==
  \A a \in waived : ~Concerned(a[2], a[1])
=============================================================================
