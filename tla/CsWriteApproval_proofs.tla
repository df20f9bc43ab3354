------------------------ MODULE CsWriteApproval_proofs ------------------------
(***************************************************************************)
(* Proofs about CsWriteApproval, for any set of use cases, connections,    *)
(* counters and contents.                                                  *)
(***************************************************************************)
EXTENDS CsWriteApproval, FiniteSetTheorems, TLAPS

-----------------------------------------------------------------------------
(* Type correctness.                                                       *)

\* The stack's tables keep their types when an approval or a denial comes.
LEMMA StackTypes ==
  ASSUME TypeOK, NEW m \in received, Approve(m) \/ Deny(m)
  PROVE  /\ approvals' \in [Sessions -> [Counters -> Nat]]
         /\ outcome' \in [Sessions -> [Counters -> Outcomes]]
         /\ applied' \subseteq received
<1>1. CASE HeldFor(m) = {}
  BY <1>1 DEF TypeOK, Approve, Deny, stack
<1>2. CASE HeldFor(m) # {} /\ Approve(m)
  <2>1. PICK w \in HeldFor(m) :
          LET count == approvals[w.session][w.counter] + 1 IN
          /\ approvals' = [approvals EXCEPT ![w.session][w.counter] = count]
          /\ IF count = Cardinality(UseCases)
             THEN SetOutcome(w, "accepted") /\ applied' = applied \cup {m}
             ELSE UNCHANGED <<outcome, applied>>
    BY <1>2 DEF Approve
  <2>2. w.session \in Sessions /\ w.counter \in Counters
    BY DEF HeldFor, Awaiting, TypeOK, Message
  <2>3. approvals' = [approvals EXCEPT ![w.session][w.counter] = @ + 1]
    BY <2>1
  <2>4. approvals' \in [Sessions -> [Counters -> Nat]]
    BY <2>2, <2>3 DEF TypeOK
  <2>5. outcome' \in [Sessions -> [Counters -> Outcomes]] /\ applied' \subseteq received
    <3>1. \/ UNCHANGED <<outcome, applied>>
          \/ SetOutcome(w, "accepted") /\ applied' = applied \cup {m}
      BY <2>1
    <3>2. ASSUME SetOutcome(w, "accepted")
          PROVE  outcome' \in [Sessions -> [Counters -> Outcomes]]
      BY <3>2, <2>2 DEF TypeOK, SetOutcome, Outcomes
    <3>3. applied' \subseteq received
      BY <3>1 DEF TypeOK
    <3>. QED
      BY <3>1, <3>2, <3>3 DEF TypeOK
  <2>. QED
    BY <2>4, <2>5
<1>3. CASE HeldFor(m) # {} /\ Deny(m)
  <2>1. PICK w \in HeldFor(m) : SetOutcome(w, "denied")
    BY <1>3 DEF Deny
  <2>2. w.session \in Sessions /\ w.counter \in Counters
    BY DEF HeldFor, Awaiting, TypeOK, Message
  <2>. QED
    BY <1>3, <2>1, <2>2 DEF TypeOK, SetOutcome, Outcomes, Deny
<1>. QED
  BY <1>1, <1>2, <1>3

LEMMA TypeInit == Init => TypeOK
<1>. SUFFICES ASSUME Init PROVE TypeOK
  OBVIOUS
<1>1. /\ approvals \in [Sessions -> [Counters -> Nat]]
      /\ outcome \in [Sessions -> [Counters -> Outcomes]]
  BY DEF Init, Outcomes
<1>2. pending \in [UseCases -> SUBSET received]
  BY DEF Init
<1>. QED
  BY <1>1, <1>2 DEF Init, TypeOK

LEMMA TypeStep == TypeOK /\ [Next]_vars => TypeOK'
<1>. SUFFICES ASSUME TypeOK, [Next]_vars PROVE TypeOK'
  OBVIOUS
<1>1. ASSUME NEW s \in Sessions, Connect(s) \/ Disconnect(s) PROVE TypeOK'
  BY <1>1 DEF TypeOK, Connect, Disconnect, stack, history
<1>2. ASSUME NEW s \in live, NEW c \in Counters, NEW k \in Contents,
             Receive([session |-> s, counter |-> c, content |-> k])
      PROVE  TypeOK'
  <2>. DEFINE m == [session |-> s, counter |-> c, content |-> k]
  <2>1. m \in Message
    BY DEF Message, TypeOK
  <2>2. received' = received \cup {m} /\ unchecked' = unchecked \cup ({m} \X UseCases)
    BY <1>2 DEF Receive
  <2>3. UNCHANGED <<opened, live, approving, pending, crashed, approvals, outcome,
                    applied, granted, waived, refused>>
    BY <1>2 DEF Receive, stack, history
  <2>. HIDE DEF m
  <2>. QED
    BY <2>1, <2>2, <2>3 DEF TypeOK
<1>3. ASSUME NEW m \in received, Expire(m) PROVE TypeOK'
  <2>1. m.session \in Sessions /\ m.counter \in Counters
    BY DEF TypeOK, Message
  <2>. QED
    BY <1>3, <2>1 DEF TypeOK, Expire, SetOutcome, Outcomes, history
<1>4. ASSUME NEW uc \in UseCases, NEW m \in received, WriteCB(uc, m) PROVE TypeOK'
  <2>1. approving' \subseteq received \X UseCases
    BY <1>4 DEF TypeOK, WriteCB, LoadControlWriteCB, DeviceConfigurationWriteCB, Store,
                ApproveBySelf, Ignore
  <2>2. \/ Store(uc, m)
        \/ UNCHANGED <<pending, crashed>>
    BY <1>4 DEF WriteCB, LoadControlWriteCB, DeviceConfigurationWriteCB,
                ApproveBySelf, Ignore
  <2>3. crashed' \in BOOLEAN
    BY <2>2 DEF TypeOK, Store
  <2>4. pending' \in [UseCases -> SUBSET received]
    BY <2>2 DEF TypeOK, Store
  <2>. QED
    BY <1>4, <2>1, <2>3, <2>4 DEF TypeOK, WriteCB, stack, history
<1>5. ASSUME NEW uc \in UseCases, NEW m \in received, AutoApprove(uc, m) PROVE TypeOK'
  BY <1>5, StackTypes DEF TypeOK, AutoApprove
<1>6. ASSUME NEW uc \in UseCases, NEW m \in received, Grant(uc, m) PROVE TypeOK'
  BY <1>6, StackTypes DEF TypeOK, Grant
<1>7. ASSUME NEW uc \in UseCases, NEW m \in received, Refuse(uc, m) PROVE TypeOK'
  BY <1>7, StackTypes DEF TypeOK, Refuse
<1>8. CASE UNCHANGED vars
  BY <1>8 DEF TypeOK, vars
<1>. QED
  BY <1>1, <1>2, <1>3, <1>4, <1>5, <1>6, <1>7, <1>8 DEF Next, Step, Quiet

\* Every variable keeps its type.
THEOREM TypeCorrect == Spec => []TypeOK
  BY TypeInit, TypeStep, PTL DEF Spec

-----------------------------------------------------------------------------
(* Facts about the stack.                                                  *)

\* Counting one more use case: how the anonymous count meets the set of use
\* cases that have approved.
LEMMA OneMore ==
  ASSUME NEW S \in SUBSET UseCases, NEW uc \in UseCases, uc \notin S
  PROVE  /\ Cardinality(S \cup {uc}) = Cardinality(S) + 1
         /\ Cardinality(S) \in Nat
         /\ Cardinality(S \cup {uc}) = Cardinality(UseCases) => S \cup {uc} = UseCases
<1>1. IsFiniteSet(S) /\ IsFiniteSet(S \cup {uc})
  BY UseCasesAssumption, FS_Subset
<1>2. Cardinality(S \cup {uc}) = Cardinality(S) + 1 /\ Cardinality(S) \in Nat
  BY <1>1, FS_AddElement, FS_CardinalityType
<1>3. Cardinality(S \cup {uc}) = Cardinality(UseCases) => S \cup {uc} = UseCases
  BY UseCasesAssumption, FS_Subset
<1>. QED
  BY <1>2, <1>3

\* For a write no other shares its key with, the stack counts exactly the
\* approvals made with that write.
LEMMA HeldIsOwn ==
  ASSUME NEW m \in received, NEW w \in received, Unrepeated(w)
  PROVE  /\ w \in HeldFor(m) => m = w
         /\ w \in Awaiting => HeldFor(w) = {w}
         /\ w \notin Awaiting => HeldFor(w) = {}
  BY DEF HeldFor, SameKey, Unrepeated, Awaiting

\* An approval or a denial leaves every write alone that it is not counted for.
LEMMA OthersUntouched ==
  ASSUME TypeOK, UniqueInSession, NEW m \in received, Approve(m) \/ Deny(m),
         NEW w \in received, w \notin HeldFor(m)
  PROVE  /\ outcome'[w.session][w.counter] = outcome[w.session][w.counter]
         /\ approvals'[w.session][w.counter] = approvals[w.session][w.counter]
<1>1. CASE HeldFor(m) = {}
  BY <1>1 DEF Approve, Deny, stack
<1>2. ASSUME NEW h \in HeldFor(m), NEW result,
             outcome' = outcome \/ SetOutcome(h, result)
      PROVE  outcome'[w.session][w.counter] = outcome[w.session][w.counter]
  <2>1. h \in received /\ h # w
    BY DEF HeldFor, Awaiting
  <2>2. w.session # h.session \/ w.counter # h.counter
    BY <2>1 DEF UniqueInSession
  <2>3. /\ w.session \in Sessions /\ w.counter \in Counters
        /\ h.session \in Sessions /\ h.counter \in Counters
    BY <2>1 DEF TypeOK, Message
  <2>. QED
    BY <1>2, <2>2, <2>3 DEF SetOutcome, TypeOK
<1>3. CASE HeldFor(m) # {} /\ Approve(m)
  <2>1. PICK h \in HeldFor(m) :
          /\ approvals' = [approvals EXCEPT ![h.session][h.counter] = @ + 1]
          /\ outcome' = outcome \/ SetOutcome(h, "accepted")
    BY <1>3 DEF Approve
  <2>2. h \in received /\ h # w
    BY DEF HeldFor, Awaiting
  <2>3. w.session # h.session \/ w.counter # h.counter
    BY <2>2 DEF UniqueInSession
  <2>4. /\ w.session \in Sessions /\ w.counter \in Counters
        /\ h.session \in Sessions /\ h.counter \in Counters
    BY <2>2 DEF TypeOK, Message
  <2>. QED
    BY <2>1, <2>3, <2>4, <1>2 DEF TypeOK
<1>4. CASE HeldFor(m) # {} /\ Deny(m)
  BY <1>4, <1>2 DEF Deny
<1>. QED
  BY <1>1, <1>3, <1>4

LEMMA AppliedOnlyOwn ==
  ASSUME NEW m \in received, Approve(m)
  PROVE  applied' \subseteq applied \cup {m} /\ applied \subseteq applied'
  BY DEF Approve, stack

-----------------------------------------------------------------------------
(* What an approval and a denial do to WriteInv.                           *)

\* After use case uc has approved m, the count and the data of every write
\* agree with the use cases that approved it.
LEMMA ApproveStep ==
  ASSUME TypeOK, UniqueInSession, UNCHANGED <<received, live>>,
         NEW m \in received, NEW uc \in UseCases, Approve(m),
         <<m, uc>> \notin granted \cup waived,
         granted' \cup waived' = granted \cup waived \cup {<<m, uc>>},
         NEW w \in received, Unrepeated(w), WriteInv(w)
  PROVE  /\ CountIsApproved(w)' /\ AppliedIsApproved(w)'
         /\ w \in Awaiting' => w \in Awaiting
<1>1. CASE w # m
  <2>1. w \notin HeldFor(m)
    BY <1>1, HeldIsOwn
  <2>2. /\ outcome'[w.session][w.counter] = outcome[w.session][w.counter]
        /\ approvals'[w.session][w.counter] = approvals[w.session][w.counter]
    BY <2>1, OthersUntouched
  <2>3. Approved(w)' = Approved(w)
    BY <1>1 DEF Approved
  <2>4. w \in applied' <=> w \in applied
    BY <1>1, AppliedOnlyOwn
  <2>. QED
    BY <2>2, <2>3, <2>4 DEF WriteInv, CountIsApproved, AppliedIsApproved, Awaiting, OutcomeOf
<1>2. CASE w = m
  <2>1. Approved(w)' = Approved(w) \cup {uc} /\ uc \notin Approved(w)
    BY <1>2 DEF Approved
  <2>2. Approved(w) \in SUBSET UseCases
    BY DEF Approved
  <2>3. w.session \in Sessions /\ w.counter \in Counters
    BY DEF TypeOK, Message
  <2>4. CASE w \notin Awaiting
    <3>1. HeldFor(w) = {}
      BY <2>4, HeldIsOwn
    <3>2. UNCHANGED stack
      BY <3>1, <1>2 DEF Approve
    <3>3. w \notin Awaiting'
      BY <2>4, <3>2 DEF Awaiting, OutcomeOf, stack
    <3>. QED
      BY <3>2, <3>3, <2>1, <2>2
         DEF WriteInv, CountIsApproved, AppliedIsApproved, OutcomeOf, stack
  <2>5. CASE w \in Awaiting
    <3>. DEFINE count == approvals[w.session][w.counter] + 1
    <3>1. HeldFor(w) = {w}
      BY <2>5, HeldIsOwn
    <3>2. /\ approvals' = [approvals EXCEPT ![w.session][w.counter] = count]
          /\ IF count = Cardinality(UseCases)
             THEN SetOutcome(w, "accepted") /\ applied' = applied \cup {w}
             ELSE UNCHANGED <<outcome, applied>>
      BY <3>1, <1>2 DEF Approve
    <3>3. OutcomeOf(w) = "none" /\ w \notin applied
      BY <2>5 DEF Awaiting, WriteInv, AppliedIsApproved, OutcomeOf
    <3>4. approvals[w.session][w.counter] = Cardinality(Approved(w))
      BY <2>5 DEF WriteInv, CountIsApproved
    <3>5. count = Cardinality(Approved(w)')
      BY <3>4, <2>1, <2>2, OneMore
    <3>6. approvals'[w.session][w.counter] = count
      BY <3>2, <2>3 DEF TypeOK
    <3>7. CASE count = Cardinality(UseCases)
      <4>1. Approved(w)' = UseCases
        BY ZenonT(60), <3>7, <3>5, <2>1, <2>2, OneMore
      <4>2. OutcomeOf(w)' = "accepted" /\ w \in applied'
        BY <3>7, <3>2, <2>3 DEF SetOutcome, OutcomeOf, TypeOK
      <4>. QED
        BY <4>1, <4>2, <2>5 DEF CountIsApproved, AppliedIsApproved, Awaiting
    <3>8. CASE count # Cardinality(UseCases)
      <4>1. UNCHANGED <<outcome, applied>>
        BY <3>8, <3>2
      <4>. QED
        BY <4>1, <3>3, <3>5, <3>6, <2>5
           DEF CountIsApproved, AppliedIsApproved, OutcomeOf
    <3>. QED
      BY <3>7, <3>8
  <2>. QED
    BY <2>4, <2>5
<1>. QED
  BY <1>1, <1>2

\* A denial closes the write it is for and changes nothing about another.
LEMMA DenyStep ==
  ASSUME TypeOK, UniqueInSession, UNCHANGED <<received, live, granted, waived>>,
         NEW m \in received, Deny(m),
         NEW w \in received, Unrepeated(w), WriteInv(w)
  PROVE  /\ CountIsApproved(w)' /\ AppliedIsApproved(w)'
         /\ w \in Awaiting' => w \in Awaiting /\ w # m
<1>. UNCHANGED <<approvals, applied>> /\ Approved(w)' = Approved(w)
  BY DEF Deny, Approved
<1>1. CASE w \notin HeldFor(m)
  <2>1. OutcomeOf(w)' = OutcomeOf(w)
    BY <1>1, OthersUntouched DEF OutcomeOf
  <2>2. w = m => w \notin Awaiting
    BY <1>1, HeldIsOwn
  <2>. QED
    BY <2>1, <2>2 DEF WriteInv, CountIsApproved, AppliedIsApproved, Awaiting, OutcomeOf
<1>2. CASE w \in HeldFor(m)
  <2>1. m = w /\ HeldFor(m) = {w} /\ w \in Awaiting
    BY <1>2, HeldIsOwn DEF HeldFor
  <2>2. SetOutcome(w, "denied")
    BY <2>1 DEF Deny
  <2>3. w.session \in Sessions /\ w.counter \in Counters
    BY DEF TypeOK, Message
  <2>4. OutcomeOf(w)' = "denied"
    BY <2>2, <2>3 DEF SetOutcome, OutcomeOf, TypeOK
  <2>5. w \notin applied
    BY <2>1 DEF WriteInv, AppliedIsApproved, Awaiting
  <2>. QED
    BY <2>4, <2>5 DEF CountIsApproved, AppliedIsApproved, Awaiting
<1>. QED
  BY <1>1, <1>2

-----------------------------------------------------------------------------
(* The invariant is inductive: one lemma per action.                       *)

LEMMA InvInit == Init => IInv
<1>. SUFFICES ASSUME Init PROVE IInv
  OBVIOUS
<1>1. TypeOK
  BY TypeInit
<1>2. StackInv
  BY DEF Init, StackInv, UniqueInSession, OneConnection, SessionsOpened, NothingUnreceived
<1>3. HandledOnce
  BY DEF Init, HandledOnce
<1>. QED
  BY <1>1, <1>2, <1>3 DEF Init, IInv

LEMMA ConnectionInv ==
  ASSUME IInv, TypeOK', NEW s \in Sessions, Connect(s) \/ Disconnect(s)
  PROVE  IInv'
<1>. UNCHANGED <<received, unchecked, approving, pending, approvals, outcome,
                 applied, granted, waived, refused>>
  BY DEF Connect, Disconnect, stack, history
<1>1. StackInv'
  <2>1. UniqueInSession' /\ NothingUnreceived'
    BY DEF IInv, StackInv, UniqueInSession, NothingUnreceived
  <2>2. OneConnection' /\ SessionsOpened'
    BY DEF IInv, StackInv, OneConnection, SessionsOpened, Connect, Disconnect
  <2>. QED
    BY <2>1, <2>2 DEF StackInv
<1>2. HandledOnce'
  BY DEF IInv, HandledOnce
<1>3. ASSUME NEW w \in received, Unrepeated(w) PROVE WriteInv(w)'
  <2>1. WriteInv(w)
    BY <1>3 DEF IInv
  <2>2. w \in Awaiting' => w \in Awaiting
    BY DEF Awaiting, OutcomeOf, Connect, Disconnect, IInv, StackInv, SessionsOpened
  <2>. QED
    BY <2>1, <2>2 DEF WriteInv, WaivedUnconcerned, CountIsApproved, AppliedIsApproved,
         RefusedIsClosed, NotLost, OutcomeOf, Undecided, Approved
<1>. QED
  BY <1>1, <1>2, <1>3 DEF IInv, Unrepeated

LEMMA ReceiveInv ==
  ASSUME IInv, TypeOK', NEW m \in Message, Receive(m)
  PROVE  IInv'
<1>. /\ received' = received \cup {m} /\ unchecked' = unchecked \cup ({m} \X UseCases)
     /\ UNCHANGED <<opened, live, approving, pending, approvals, outcome, applied,
                    granted, waived, refused>>
     /\ m.session \in live /\ NewInSession(m)
  BY DEF Receive, stack, history
<1>1. /\ m \notin received /\ m.session \in Sessions /\ m.counter \in Counters
      /\ \A w \in received : w.session # m.session \/ w.counter # m.counter
  <2>1. m.session \in Sessions /\ m.counter \in Nat
    BY CountersAssumption DEF Message
  <2>2. \A w \in received : w.session = m.session => w.counter < m.counter
    BY DEF NewInSession
  <2>3. ~(m.counter < m.counter)
    BY <2>1
  <2>. QED
    BY <2>1, <2>2, <2>3 DEF Message
<1>2. outcome[m.session][m.counter] = "none" /\ approvals[m.session][m.counter] = 0
  BY <1>1 DEF IInv, StackInv, NothingUnreceived
<1>3. StackInv'
  <2>1. UniqueInSession'
    BY <1>1 DEF IInv, StackInv, UniqueInSession
  <2>2. OneConnection' /\ SessionsOpened'
    BY DEF IInv, StackInv, OneConnection, SessionsOpened, TypeOK
  <2>3. NothingUnreceived'
    BY DEF IInv, StackInv, NothingUnreceived
  <2>. QED
    BY <2>1, <2>2, <2>3 DEF StackInv
<1>4. \A uc \in UseCases :
        /\ <<m, uc>> \notin approving \cup granted \cup waived \cup refused
        /\ m \notin pending[uc]
  BY <1>1 DEF IInv, TypeOK
<1>5. HandledOnce'
  BY <1>4 DEF IInv, HandledOnce
<1>6. ASSUME NEW w \in received, Unrepeated(w)' PROVE WriteInv(w)'
  <2>1. WriteInv(w)
    BY <1>6 DEF IInv, Unrepeated
  <2>2. w \in Awaiting' <=> w \in Awaiting
    BY DEF Awaiting, OutcomeOf
  <2>. QED
    BY <2>1, <2>2 DEF WriteInv, WaivedUnconcerned, CountIsApproved, AppliedIsApproved,
         RefusedIsClosed, NotLost, OutcomeOf, Undecided, Approved
<1>7. WriteInv(m)'
  <2>1. Approved(m)' = {} /\ m \notin applied /\ OutcomeOf(m)' = "none"
    BY <1>1, <1>2, <1>4 DEF Approved, IInv, TypeOK, OutcomeOf
  <2>2. CountIsApproved(m)'
    BY <2>1, <1>2, FS_EmptySet DEF CountIsApproved
  <2>3. AppliedIsApproved(m)'
    BY <2>1 DEF AppliedIsApproved
  <2>4. WaivedUnconcerned(m)' /\ RefusedIsClosed(m)'
    BY <1>4 DEF WaivedUnconcerned, RefusedIsClosed
  <2>5. NotLost(m)'
    BY DEF NotLost, Undecided
  <2>. QED
    BY <2>2, <2>3, <2>4, <2>5 DEF WriteInv
<1>. QED
  BY <1>3, <1>5, <1>6, <1>7 DEF IInv

LEMMA ExpireInv ==
  ASSUME IInv, TypeOK', NEW m \in received, Expire(m)
  PROVE  IInv'
<1>. /\ UNCHANGED <<opened, live, received, unchecked, approving, pending, approvals,
                    applied, granted, waived, refused>>
     /\ m \in Awaiting /\ SetOutcome(m, "timeout")
     /\ m.session \in Sessions /\ m.counter \in Counters
  BY DEF Expire, history, IInv, TypeOK, Message
<1>1. OutcomeOf(m)' = "timeout"
  BY DEF OutcomeOf, SetOutcome, IInv, TypeOK
<1>2. ASSUME NEW s \in Sessions, NEW c \in Counters, s # m.session \/ c # m.counter
      PROVE  outcome'[s][c] = outcome[s][c]
  BY <1>2 DEF SetOutcome, IInv, TypeOK
<1>3. StackInv'
  <2>1. UniqueInSession' /\ OneConnection' /\ SessionsOpened'
    BY DEF IInv, StackInv, UniqueInSession, OneConnection, SessionsOpened
  <2>2. NothingUnreceived'
    BY <1>2 DEF IInv, StackInv, NothingUnreceived
  <2>. QED
    BY <2>1, <2>2 DEF StackInv
<1>4. HandledOnce'
  BY DEF IInv, HandledOnce
<1>5. ASSUME NEW w \in received, Unrepeated(w) PROVE WriteInv(w)'
  <2>1. WriteInv(w)
    BY <1>5 DEF IInv
  <2>2. CASE w = m
    <3>1. w \notin Awaiting' /\ w \notin applied
      BY <2>1, <2>2, <1>1 DEF Awaiting, WriteInv, AppliedIsApproved
    <3>. QED
      BY <2>1, <2>2, <3>1, <1>1 DEF WriteInv, WaivedUnconcerned, CountIsApproved,
           AppliedIsApproved, RefusedIsClosed, NotLost
  <2>3. CASE w # m
    <3>1. OutcomeOf(w)' = OutcomeOf(w)
      BY <2>3, <1>2 DEF OutcomeOf, IInv, StackInv, UniqueInSession, TypeOK, Message
    <3>2. w \in Awaiting' <=> w \in Awaiting
      BY <3>1 DEF Awaiting
    <3>. QED
      BY <2>1, <3>1, <3>2 DEF WriteInv, WaivedUnconcerned, CountIsApproved,
           AppliedIsApproved, RefusedIsClosed, NotLost, Undecided, Approved
  <2>. QED
    BY <2>2, <2>3
<1>. QED
  BY <1>3, <1>4, <1>5 DEF IInv, Unrepeated

\* The callback of use case uc runs for m: the stack does not change, and m
\* moves from unchecked into the map or to the approving goroutines.
LEMMA WriteCBInv ==
  ASSUME IInv, TypeOK', NEW uc \in UseCases, NEW m \in received, WriteCB(uc, m)
  PROVE  IInv'
<1>. /\ UNCHANGED <<opened, live, received, approvals, outcome, applied,
                    granted, waived, refused>>
     /\ <<m, uc>> \in unchecked /\ unchecked' = unchecked \ {<<m, uc>>}
  BY DEF WriteCB, stack, history
<1>1. \/ Ignore /\ (Unusable(m) \/ (Concerned(uc, m) /\ HasEntry(uc, m)))
      \/ Store(uc, m)
      \/ ApproveBySelf(uc, m) /\ (Concerned(uc, m) => HasEntry(uc, m))
  BY DEF WriteCB, LoadControlWriteCB, DeviceConfigurationWriteCB
<1>2. /\ <<m, uc>> \notin approving \cup granted \cup waived \cup refused
      /\ m \notin pending[uc]
  BY DEF IInv, HandledOnce
<1>3. Unrepeated(m) => ~HasEntry(uc, m)
  BY <1>2 DEF HasEntry, Unrepeated, IInv, TypeOK
<1>4. StackInv'
  BY DEF IInv, StackInv, UniqueInSession, OneConnection, SessionsOpened, NothingUnreceived
<1>5. HandledOnce'
  <2>1. CASE Ignore
    BY <2>1 DEF Ignore, IInv, HandledOnce
  <2>2. CASE Store(uc, m)
    <3>1. \A u \in UseCases : pending'[u] = IF u = uc THEN pending[u] \cup {m} ELSE pending[u]
      BY <2>2 DEF Store, IInv, TypeOK
    <3>2. approving' = approving
      BY <2>2 DEF Store
    <3>3. \A u \in UseCases : \A w \in pending'[u] :
            <<w, u>> \notin unchecked' \cup approving \cup granted \cup waived \cup refused
      <4>1. SUFFICES ASSUME NEW u \in UseCases, NEW w \in pending'[u]
                     PROVE  <<w, u>> \notin unchecked' \cup approving \cup granted
                                             \cup waived \cup refused
        OBVIOUS
      <4>2. CASE w \in pending[u]
        BY <4>2 DEF IInv, HandledOnce
      <4>3. CASE w = m /\ u = uc
        BY <4>3, <1>2
      <4>. QED
        BY <4>2, <4>3, <3>1
    <3>. QED
      BY <3>2, <3>3 DEF IInv, HandledOnce
  <2>3. CASE ApproveBySelf(uc, m)
    BY <2>3, <1>2 DEF ApproveBySelf, IInv, HandledOnce
  <2>. QED
    BY <1>1, <2>1, <2>2, <2>3
<1>6. ASSUME NEW w \in received, Unrepeated(w) PROVE WriteInv(w)'
  <2>1. WriteInv(w)
    BY <1>6 DEF IInv
  <2>2. Approved(w)' = Approved(w) /\ OutcomeOf(w)' = OutcomeOf(w)
        /\ (w \in Awaiting' <=> w \in Awaiting)
    BY DEF Approved, OutcomeOf, Awaiting
  <2>3. CountIsApproved(w)' /\ AppliedIsApproved(w)' /\ RefusedIsClosed(w)'
    BY <2>1, <2>2 DEF WriteInv, CountIsApproved, AppliedIsApproved, RefusedIsClosed
  <2>4. WaivedUnconcerned(w)'
    <3>1. \/ approving' = approving
          \/ approving' = approving \cup {<<m, uc>>} /\ (w = m => ~Concerned(uc, m))
      BY <1>1, <1>3, <1>6 DEF Ignore, Store, ApproveBySelf
    <3>2. \A u \in UseCases : Concerned(u, w)' <=> Concerned(u, w)
      BY DEF Concerned
    <3>. QED
      BY <3>1, <3>2, <2>1 DEF WriteInv, WaivedUnconcerned
  <2>5. NotLost(w)'
    <3>1. SUFFICES ASSUME w \in Awaiting, ~Unusable(w), NEW u \in UseCases,
                          u \notin Approved(w)
                   PROVE  Undecided(u, w)'
      BY <2>2 DEF NotLost, Unusable
    <3>2. Undecided(u, w)
      BY <2>1, <3>1 DEF WriteInv, NotLost
    <3>3. CASE w = m /\ u = uc
      <4>1. Store(uc, m) \/ ApproveBySelf(uc, m)
        BY <3>3, <3>1, <1>1, <1>3, <1>6
      <4>. QED
        BY <4>1, <3>3 DEF Store, ApproveBySelf, Undecided, IInv, TypeOK
    <3>4. CASE w # m \/ u # uc
      <4>1. approving \subseteq approving' /\ pending[u] \subseteq pending'[u]
        BY <1>1 DEF Store, ApproveBySelf, Ignore, IInv, TypeOK
      <4>. QED
        BY <4>1, <3>4, <3>2 DEF Undecided
    <3>. QED
      BY <3>3, <3>4
  <2>. QED
    BY <2>3, <2>4, <2>5 DEF WriteInv
<1>. QED
  BY <1>4, <1>5, <1>6 DEF IInv, Unrepeated

\* An approval of m by uc, with or without the application.
LEMMA ApprovalInv ==
  ASSUME IInv, TypeOK', NEW uc \in UseCases, NEW m \in received,
         AutoApprove(uc, m) \/ Grant(uc, m)
  PROVE  IInv'
<1>. /\ UNCHANGED <<opened, live, received, unchecked, refused>> /\ Approve(m)
     /\ <<m, uc>> \notin granted \cup waived \cup refused
     /\ granted' \cup waived' = granted \cup waived \cup {<<m, uc>>}
  BY DEF AutoApprove, Grant, IInv, HandledOnce
<1>1. ASSUME NEW w \in received, w \notin HeldFor(m)
      PROVE  UNCHANGED <<outcome[w.session][w.counter], approvals[w.session][w.counter]>>
  BY <1>1, OthersUntouched DEF IInv, StackInv
<1>2. StackInv'
  <2>1. UniqueInSession' /\ OneConnection' /\ SessionsOpened'
    BY DEF IInv, StackInv, UniqueInSession, OneConnection, SessionsOpened
  <2>2. NothingUnreceived'
    <3>1. SUFFICES ASSUME NEW s \in Sessions, NEW c \in Counters,
                          \A w \in received : w.session # s \/ w.counter # c
                   PROVE  outcome'[s][c] = outcome[s][c] /\ approvals'[s][c] = approvals[s][c]
      BY DEF IInv, StackInv, NothingUnreceived
    <3>2. CASE UNCHANGED stack
      BY <3>2 DEF stack
    <3>3. ASSUME NEW h \in HeldFor(m),
                 approvals' = [approvals EXCEPT ![h.session][h.counter] = @ + 1],
                 \/ outcome' = outcome
                 \/ outcome' = [outcome EXCEPT ![h.session][h.counter] = "accepted"]
          PROVE  outcome'[s][c] = outcome[s][c] /\ approvals'[s][c] = approvals[s][c]
      <4>1. h.session # s \/ h.counter # c
        BY <3>1 DEF HeldFor, Awaiting
      <4>2. h.session \in Sessions /\ h.counter \in Counters
        BY DEF HeldFor, Awaiting, IInv, TypeOK, Message
      <4>. QED
        BY <3>3, <4>1, <4>2 DEF IInv, TypeOK
    <3>. QED
      BY <3>2, <3>3 DEF Approve, SetOutcome
  <2>. QED
    BY <2>1, <2>2 DEF StackInv
<1>3. HandledOnce'
  <2>1. CASE AutoApprove(uc, m)
    BY <2>1 DEF AutoApprove, IInv, HandledOnce
  <2>2. CASE Grant(uc, m)
    <3>1. \A u \in UseCases : pending'[u] = IF u = uc THEN pending[u] \ {m} ELSE pending[u]
      BY <2>2 DEF Grant, IInv, TypeOK
    <3>. QED
      BY <2>2, <3>1 DEF Grant, IInv, HandledOnce
  <2>. QED
    BY <2>1, <2>2
<1>4. ASSUME NEW w \in received, Unrepeated(w) PROVE WriteInv(w)'
  <2>1. WriteInv(w)
    BY <1>4 DEF IInv
  <2>2. /\ CountIsApproved(w)' /\ AppliedIsApproved(w)'
        /\ w \in Awaiting' => w \in Awaiting
    BY <1>4, <2>1, ApproveStep DEF IInv, StackInv
  <2>3. WaivedUnconcerned(w)'
    BY <2>1 DEF WriteInv, WaivedUnconcerned, AutoApprove, Grant, Concerned
  <2>4. RefusedIsClosed(w)'
    BY <2>1, <2>2 DEF WriteInv, RefusedIsClosed
  <2>5. NotLost(w)'
    <3>1. SUFFICES ASSUME w \in Awaiting, ~Unusable(w), NEW u \in UseCases
                   PROVE  Undecided(u, w)' \/ u \in Approved(w)'
      BY <2>2 DEF NotLost, Unusable
    <3>2. Undecided(u, w) \/ u \in Approved(w)
      BY <2>1, <3>1 DEF WriteInv, NotLost
    <3>3. CASE w = m /\ u = uc
      BY <3>3 DEF Approved
    <3>4. CASE w # m \/ u # uc
      BY <3>2, <3>4 DEF AutoApprove, Grant, Undecided, Approved, IInv, TypeOK
    <3>. QED
      BY <3>3, <3>4
  <2>. QED
    BY <2>2, <2>3, <2>4, <2>5 DEF WriteInv
<1>. QED
  BY <1>2, <1>3, <1>4 DEF IInv, Unrepeated

\* The application denies m for use case uc.
LEMMA RefuseInv ==
  ASSUME IInv, TypeOK', NEW uc \in UseCases, NEW m \in received, Refuse(uc, m)
  PROVE  IInv'
<1>. /\ UNCHANGED <<opened, live, received, unchecked, approving, granted, waived>>
     /\ UNCHANGED <<approvals, applied>> /\ Deny(m)
     /\ <<m, uc>> \notin unchecked \cup approving \cup granted \cup waived \cup refused
     /\ refused' = refused \cup {<<m, uc>>}
     /\ pending' = [pending EXCEPT ![uc] = @ \ {m}]
  BY DEF Refuse, Deny, IInv, HandledOnce
<1>1. StackInv'
  <2>1. UniqueInSession' /\ OneConnection' /\ SessionsOpened'
    BY DEF IInv, StackInv, UniqueInSession, OneConnection, SessionsOpened
  <2>2. NothingUnreceived'
    <3>1. SUFFICES ASSUME NEW s \in Sessions, NEW c \in Counters,
                          \A w \in received : w.session # s \/ w.counter # c
                   PROVE  outcome'[s][c] = outcome[s][c]
      BY DEF IInv, StackInv, NothingUnreceived
    <3>2. ASSUME NEW h \in HeldFor(m), SetOutcome(h, "denied")
          PROVE  outcome'[s][c] = outcome[s][c]
      <4>1. h.session # s \/ h.counter # c
        BY <3>1 DEF HeldFor, Awaiting
      <4>2. h.session \in Sessions /\ h.counter \in Counters
        BY DEF HeldFor, Awaiting, IInv, TypeOK, Message
      <4>. QED
        BY <3>2, <4>1, <4>2 DEF SetOutcome, IInv, TypeOK
    <3>. QED
      BY <3>2 DEF Deny
  <2>. QED
    BY <2>1, <2>2 DEF StackInv
<1>2. HandledOnce'
  <2>1. \A u \in UseCases : pending'[u] = IF u = uc THEN pending[u] \ {m} ELSE pending[u]
    BY DEF IInv, TypeOK
  <2>. QED
    BY <2>1 DEF IInv, HandledOnce
<1>3. ASSUME NEW w \in received, Unrepeated(w) PROVE WriteInv(w)'
  <2>1. WriteInv(w)
    BY <1>3 DEF IInv
  <2>2. /\ CountIsApproved(w)' /\ AppliedIsApproved(w)'
        /\ w \in Awaiting' => w \in Awaiting /\ w # m
    BY <1>3, <2>1, DenyStep DEF IInv, StackInv
  <2>3. WaivedUnconcerned(w)'
    BY <2>1 DEF WriteInv, WaivedUnconcerned, Concerned
  <2>4. RefusedIsClosed(w)'
    BY <2>1, <2>2 DEF WriteInv, RefusedIsClosed
  <2>5. NotLost(w)'
    BY <2>1, <2>2 DEF WriteInv, NotLost, Unusable, Undecided, Approved, IInv, TypeOK
  <2>. QED
    BY <2>2, <2>3, <2>4, <2>5 DEF WriteInv
<1>. QED
  BY <1>1, <1>2, <1>3 DEF IInv, Unrepeated

LEMMA InvStep == IInv /\ [Next]_vars => IInv'
<1>. SUFFICES ASSUME IInv, [Next]_vars PROVE IInv'
  OBVIOUS
<1>0. TypeOK'
  BY TypeStep DEF IInv
<1>1. ASSUME NEW s \in Sessions, Connect(s) \/ Disconnect(s) PROVE IInv'
  BY <1>0, <1>1, ConnectionInv
<1>2. ASSUME NEW s \in live, NEW c \in Counters, NEW k \in Contents,
             Receive([session |-> s, counter |-> c, content |-> k])
      PROVE  IInv'
  <2>1. [session |-> s, counter |-> c, content |-> k] \in Message
    BY DEF Message, IInv, TypeOK
  <2>. QED
    BY <1>0, <1>2, <2>1, ReceiveInv
<1>3. ASSUME NEW m \in received, Expire(m) PROVE IInv'
  BY <1>0, <1>3, ExpireInv
<1>4. ASSUME NEW uc \in UseCases, NEW m \in received, WriteCB(uc, m) PROVE IInv'
  BY <1>0, <1>4, WriteCBInv
<1>5. ASSUME NEW uc \in UseCases, NEW m \in received, AutoApprove(uc, m) \/ Grant(uc, m)
      PROVE  IInv'
  BY <1>0, <1>5, ApprovalInv
<1>6. ASSUME NEW uc \in UseCases, NEW m \in received, Refuse(uc, m) PROVE IInv'
  BY <1>0, <1>6, RefuseInv
<1>7. CASE UNCHANGED vars
  <2>1. StackInv'
    BY <1>7 DEF vars, IInv, StackInv, UniqueInSession, OneConnection, SessionsOpened,
         NothingUnreceived
  <2>2. HandledOnce'
    BY <1>7 DEF vars, IInv, HandledOnce
  <2>3. ASSUME NEW w \in received, Unrepeated(w) PROVE WriteInv(w)'
    <3>1. WriteInv(w)
      BY <2>3 DEF IInv
    <3>2. Approved(w)' = Approved(w) /\ OutcomeOf(w)' = OutcomeOf(w) /\ Awaiting' = Awaiting
      BY <1>7 DEF vars, Approved, OutcomeOf, Awaiting
    <3>. QED
      BY <1>7, <3>1, <3>2 DEF vars, WriteInv, WaivedUnconcerned, CountIsApproved,
           AppliedIsApproved, RefusedIsClosed, NotLost, Undecided
  <2>. QED
    BY <1>0, <1>7, <2>1, <2>2, <2>3 DEF vars, IInv, Unrepeated
<1>. QED
  BY <1>1, <1>2, <1>3, <1>4, <1>5, <1>6, <1>7 DEF Next, Step, Quiet

\* The stack, the two use cases' maps and goroutines, and the application's
\* decisions always agree on every write whose key no other write shares.
THEOREM Inductive == Spec => []IInv
  BY InvInit, InvStep, PTL DEF Spec

-----------------------------------------------------------------------------
(* What the invariant is for.                                              *)

\* No limit and no failsafe value is stored without the application's consent
\* for each use case it concerns.
THEOREM Consent == Spec => []AppliedWithConsent
<1>1. IInv => AppliedWithConsent
  <2>. SUFFICES ASSUME IInv, NEW m \in applied, NEW uc \in UseCases,
                       Unrepeated(m), Concerned(uc, m)
                PROVE  <<m, uc>> \in granted
    BY DEF AppliedWithConsent
  <2>1. m \in received /\ WriteInv(m)
    BY DEF IInv, TypeOK
  <2>2. uc \in Approved(m)
    BY <2>1 DEF WriteInv, AppliedIsApproved
  <2>. QED
    BY <2>1, <2>2 DEF Approved, WriteInv, WaivedUnconcerned
<1>. QED
  BY <1>1, Inductive, PTL

\* What the application denied for one use case is not stored.
THEOREM Refusal == Spec => []RefusedNotApplied
<1>1. IInv => RefusedNotApplied
  <2>. SUFFICES ASSUME IInv, NEW d \in refused, Unrepeated(d[1]), d[1] \in applied
                PROVE  FALSE
    BY DEF RefusedNotApplied
  <2>1. PICK m \in received, uc \in UseCases : d = <<m, uc>>
    BY DEF IInv, TypeOK
  <2>2. m \in applied /\ Unrepeated(m) /\ WriteInv(m)
    BY <2>1 DEF IInv
  <2>3. <<m, uc>> \in granted \cup waived
    BY <2>2 DEF WriteInv, AppliedIsApproved, Approved
  <2>. QED
    BY <2>1, <2>3 DEF IInv, HandledOnce
<1>. QED
  BY <1>1, Inductive, PTL

\* No use case loses sight of a write the stack still holds.
THEOREM Lossless == Spec => []NoLostWrite
<1>1. IInv => NoLostWrite
  BY DEF IInv, WriteInv, NotLost, NoLostWrite, Awaiting
<1>. QED
  BY <1>1, Inductive, PTL

\* No use case answers a write twice, whatever the timer, the device and its
\* counters do.
THEOREM OneAnswerEach == Spec => []EachAnswersOnce
<1>1. IInv => EachAnswersOnce
  <2>. SUFFICES ASSUME IInv, NEW a \in granted \cup waived \cup refused
                PROVE  ~Undecided(a[2], a[1])
    BY DEF EachAnswersOnce, IInv, HandledOnce
  <2>1. PICK m \in received, uc \in UseCases : a = <<m, uc>>
    BY DEF IInv, TypeOK
  <2>2. <<m, uc>> \notin unchecked \cup approving
    BY <2>1 DEF IInv, HandledOnce
  <2>3. m \notin pending[uc]
    BY <2>1 DEF IInv, HandledOnce
  <2>. QED
    BY <2>1, <2>2, <2>3 DEF Undecided
<1>. QED
  BY <1>1, Inductive, PTL

-----------------------------------------------------------------------------
(***************************************************************************)
(* CsWriteApproval implements WriteConsent for every write, as long as no  *)
(* device starts its msgCounter again: maps, counts and goroutines of any  *)
(* number of use cases amount to "accepted with the application's consent  *)
(* for every use case concerned".                                          *)
(***************************************************************************)

\* No two writes have the same counter, so none shares its key.
AllApart == \A m, w \in received : m.counter = w.counter => m = w

\* The application is asked, and decides, only about writes that concern the
\* use case.
AskedIfConcerned ==
  \A uc \in UseCases, m \in received :
    m \in pending[uc] \/ <<m, uc>> \in granted => Concerned(uc, m)

RInv == IInv /\ AllApart /\ AskedIfConcerned

\* Writes with counters of their own are not repeated.
LEMMA ApartUnrepeated ==
  ASSUME AllApart, NEW m \in received
  PROVE  Unrepeated(m)
BY DEF AllApart, Unrepeated, SameKey

\* At first nothing is received.
LEMMA RInvInit == Init => RInv
<1>1. Init => AllApart /\ AskedIfConcerned
  BY DEF Init, AllApart, AskedIfConcerned
<1> QED  BY <1>1, InvInit DEF RInv

\* While counters are not reused, every step keeps the invariant.
LEMMA RInvStep == ~ReuseCounters /\ RInv /\ [Next]_vars => RInv'
<1> SUFFICES ASSUME ~ReuseCounters, RInv, [Next]_vars PROVE RInv'
  OBVIOUS
<1>1. IInv' /\ TypeOK
  BY InvStep DEF RInv, IInv
<1>2. ASSUME NEW s \in live, NEW c \in Counters, NEW k \in Contents,
             Receive([session |-> s, counter |-> c, content |-> k])
      PROVE  AllApart' /\ AskedIfConcerned'
  <2> DEFINE m == [session |-> s, counter |-> c, content |-> k]
  <2>1. /\ received' = received \cup {m}
        /\ \A w \in received : w.counter # m.counter
        /\ UNCHANGED <<pending, granted>>
    BY <1>2 DEF Receive, history
  <2>2. \A uc \in UseCases : m \notin pending[uc] /\ <<m, uc>> \notin granted
    <3>1. m \notin received
      BY <2>1
    <3> QED  BY <3>1, <1>1 DEF TypeOK
  <2> HIDE DEF m
  <2> QED  BY <2>1, <2>2 DEF RInv, AllApart, AskedIfConcerned
<1>3. ASSUME NEW uc \in UseCases, NEW m \in received, WriteCB(uc, m)
      PROVE  AllApart' /\ AskedIfConcerned'
  <2>1. UNCHANGED <<received, granted>>
    BY <1>3 DEF WriteCB, history
  <2>2. pending' = pending \/ (Concerned(uc, m) /\ pending' = [pending EXCEPT ![uc] = @ \cup {m}])
    BY <1>3 DEF WriteCB, LoadControlWriteCB, DeviceConfigurationWriteCB, Ignore, Store, ApproveBySelf
  <2> QED  BY <2>1, <2>2, <1>1 DEF RInv, AllApart, AskedIfConcerned, TypeOK
<1>4. ASSUME NEW uc \in UseCases, NEW m \in received, Grant(uc, m) \/ Refuse(uc, m)
      PROVE  AllApart' /\ AskedIfConcerned'
  <2>1. /\ UNCHANGED received /\ m \in pending[uc]
        /\ pending' = [pending EXCEPT ![uc] = @ \ {m}]
        /\ granted' \subseteq granted \cup {<<m, uc>>}
    BY <1>4 DEF Grant, Refuse
  <2> QED  BY <2>1, <1>1 DEF RInv, AllApart, AskedIfConcerned, TypeOK
<1>5. ASSUME UNCHANGED <<received, pending, granted>>
      PROVE  AllApart' /\ AskedIfConcerned'
  BY <1>5 DEF RInv, AllApart, AskedIfConcerned
<1>6. ASSUME NEW s \in Sessions, Connect(s) \/ Disconnect(s)
      PROVE  AllApart' /\ AskedIfConcerned'
  BY <1>5, <1>6 DEF Connect, Disconnect, history
<1>7. ASSUME NEW m \in received, Expire(m)
      PROVE  AllApart' /\ AskedIfConcerned'
  BY <1>5, <1>7 DEF Expire, history
<1>8. ASSUME NEW uc \in UseCases, NEW m \in received, AutoApprove(uc, m)
      PROVE  AllApart' /\ AskedIfConcerned'
  BY <1>5, <1>8 DEF AutoApprove
<1>9. ASSUME UNCHANGED vars
      PROVE  AllApart' /\ AskedIfConcerned'
  BY <1>5, <1>9 DEF vars
<1>10. AllApart' /\ AskedIfConcerned'
  BY <1>2, <1>3, <1>4, <1>6, <1>7, <1>8, <1>9 DEF Next, Step, Quiet
<1> QED  BY <1>1, <1>10 DEF RInv

-----------------------------------------------------------------------------
(* Steps of one write.                                                     *)

ConcernedBy(m)  == {uc \in UseCases : Concerned(uc, m)}
ConsentsOf(m)   == {uc \in UseCases : <<m, uc>> \in granted}

\* The state of a write in WriteConsent is PhaseOf, ConsentsOf and whether it is
\* applied; what leaves these alone is a stutter.
SameState(m) == /\ PhaseOf(m)' = PhaseOf(m) /\ ConsentsOf(m)' = ConsentsOf(m)
                /\ (m \in applied)' = (m \in applied)

\* The steps of WriteConsent, written with the mapped state.
Accepts(m) == /\ PhaseOf(m) = "open" /\ PhaseOf(m)' = "accepted" /\ m \in applied'
              /\ ConcernedBy(m) \subseteq ConsentsOf(m)'

Closes(m) ==
  /\ PhaseOf(m) = "open"
  /\ \/ PhaseOf(m)' \in {"timeout", "dropped"}
     \/ PhaseOf(m)' = "denied" /\ ConcernedBy(m) # {}
  /\ ConsentsOf(m)' = ConsentsOf(m) /\ (m \in applied)' = (m \in applied)

Consents(m) ==
  \E uc \in ConcernedBy(m) :
    /\ PhaseOf(m) # "absent"
    /\ ConsentsOf(m)' = ConsentsOf(m) \cup {uc}
    /\ \/ Accepts(m)
       \/ PhaseOf(m)' = PhaseOf(m) /\ (m \in applied)' = (m \in applied)

Submits(m) ==
  /\ PhaseOf(m) = "absent" /\ PhaseOf(m)' = "open"
  /\ ConsentsOf(m)' = ConsentsOf(m) /\ (m \in applied)' = (m \in applied)

WriteStep(m) ==
  \/ SameState(m) \/ Submits(m) \/ Closes(m) \/ Consents(m)
  \/ Accepts(m) /\ ConsentsOf(m)' = ConsentsOf(m)

\* These are the steps that WriteConsent has.
LEMMA StepsOfConsent ==
  ASSUME NEW m, WriteStep(m)
  PROVE  [Abstract(m)!ConsentNext]_(Abstract(m)!cvars)
<1> USE DEF ConcernedBy, ConsentsOf
<1>1. CASE SameState(m)
  BY <1>1 DEF SameState, Abstract!cvars
<1>2. CASE Submits(m)
  BY <1>2 DEF Submits, Abstract!ConsentNext, Abstract!Submit
<1>3. CASE Closes(m)
  BY <1>3 DEF Closes, Abstract!ConsentNext, Abstract!Close
<1>4. CASE Consents(m)
  BY <1>4 DEF Consents, Accepts, Abstract!ConsentNext, Abstract!Consent, Abstract!Accept
<1>5. CASE Accepts(m) /\ ConsentsOf(m)' = ConsentsOf(m)
  BY <1>5 DEF Accepts, Abstract!ConsentNext, Abstract!AcceptUnconcerned, Abstract!Accept
<1> QED  BY <1>1, <1>2, <1>3, <1>4, <1>5 DEF WriteStep

-----------------------------------------------------------------------------
(* Every step is one of them, for every write.                             *)

\* What a step that leaves the results of the stack alone does to a write.
LEMMA UntouchedSame ==
  ASSUME NEW m, UNCHANGED <<received, granted, applied>>, OutcomeOf(m)' = OutcomeOf(m),
         m \in received => (m.session \in live' <=> m.session \in live)
  PROVE  SameState(m)
BY DEF SameState, PhaseOf, ConsentsOf

\* A connection made or lost leaves the decisions alone.
LEMMA ConnectionStep ==
  ASSUME RInv, NEW m \in Message, NEW s \in Sessions, Connect(s) \/ Disconnect(s)
  PROVE  WriteStep(m)
<1> UNCHANGED <<received, granted, applied, outcome>>
  BY DEF Connect, Disconnect, stack, history
<1>1. OutcomeOf(m)' = OutcomeOf(m)
  BY DEF OutcomeOf
<1>2. CASE m.session = s /\ Disconnect(s) /\ m \in received /\ OutcomeOf(m) = "none"
  <2>1. PhaseOf(m) = "open" /\ PhaseOf(m)' = "dropped"
    BY <1>1, <1>2 DEF PhaseOf, Disconnect
  <2> QED  BY <2>1 DEF WriteStep, Closes, ConsentsOf
<1>3. CASE m.session = s /\ Disconnect(s) /\ ~(m \in received /\ OutcomeOf(m) = "none")
  <2>1. PhaseOf(m)' = PhaseOf(m)
    BY <1>1, <1>3 DEF PhaseOf
  <2> QED  BY <2>1 DEF WriteStep, SameState, ConsentsOf
<1>4. CASE m.session # s \/ Connect(s)
  <2>1. m \in received => (m.session \in live' <=> m.session \in live)
    BY <1>4 DEF RInv, IInv, StackInv, SessionsOpened, TypeOK, Connect, Disconnect
  <2> QED  BY <1>1, <2>1, UntouchedSame DEF WriteStep
<1> QED  BY <1>2, <1>3, <1>4

\* A write that arrives is put to the use cases.
LEMMA ReceiveStep ==
  ASSUME RInv, NEW m \in Message, NEW w \in Message, Receive(w)
  PROVE  WriteStep(m)
<1> /\ received' = received \cup {w} /\ w.session \in live /\ NewInSession(w)
    /\ UNCHANGED <<live, outcome, applied, granted>>
  BY DEF Receive, stack, history
<1>1. OutcomeOf(m)' = OutcomeOf(m)
  BY DEF OutcomeOf
<1>2. CASE m = w /\ m \notin received
  <2>1. \A v \in received : v.session # m.session \/ v.counter # m.counter
    <3>1. m.counter \in Nat
      BY CountersAssumption DEF Message
    <3> QED  BY <1>2, <3>1 DEF NewInSession
  <2>2. m.session \in Sessions /\ m.counter \in Counters
    BY DEF Message
  <2>3. OutcomeOf(m) = "none"
    BY <2>1, <2>2 DEF OutcomeOf, RInv, IInv, StackInv, NothingUnreceived
  <2>4. PhaseOf(m) = "absent" /\ PhaseOf(m)' = "open"
    BY <1>1, <1>2, <2>3 DEF PhaseOf
  <2> QED  BY <2>4 DEF WriteStep, Submits, ConsentsOf
<1>3. CASE m # w \/ m \in received
  <2>1. m \in received' <=> m \in received
    BY <1>3
  <2>2. PhaseOf(m)' = PhaseOf(m)
    BY <1>1, <2>1 DEF PhaseOf
  <2> QED  BY <2>2 DEF WriteStep, SameState, ConsentsOf
<1> QED  BY <1>2, <1>3

\* A timeout refuses a write that waits, and no other.
LEMMA ExpireStep ==
  ASSUME RInv, NEW m \in Message, NEW w \in received, Expire(w)
  PROVE  WriteStep(m)
<1> /\ UNCHANGED <<received, live, applied, granted>>
    /\ w \in Awaiting /\ SetOutcome(w, "timeout")
  BY DEF Expire, history
<1>0. m.session \in Sessions /\ m.counter \in Counters /\ w.session \in Sessions
      /\ w.counter \in Counters
  BY DEF Message, RInv, IInv, TypeOK
<1>1. CASE m = w
  <2>1. PhaseOf(m) = "open"
    BY <1>1 DEF PhaseOf, Awaiting
  <2>2. OutcomeOf(m)' = "timeout"
    BY <1>0, <1>1 DEF OutcomeOf, SetOutcome, RInv, IInv, TypeOK
  <2>3. PhaseOf(m)' = "timeout"
    BY <1>1, <2>2 DEF PhaseOf
  <2> QED  BY <2>1, <2>3 DEF WriteStep, Closes, ConsentsOf
<1>2. CASE m # w /\ m \in received
  <2>1. m.session # w.session \/ m.counter # w.counter
    BY <1>2 DEF RInv, IInv, StackInv, UniqueInSession
  <2>2. OutcomeOf(m)' = OutcomeOf(m)
    BY <1>0, <2>1 DEF OutcomeOf, SetOutcome, RInv, IInv, TypeOK
  <2> QED  BY <2>2, UntouchedSame DEF WriteStep
<1>3. CASE m \notin received
  <2>1. PhaseOf(m)' = PhaseOf(m)
    BY <1>3 DEF PhaseOf
  <2> QED  BY <2>1 DEF WriteStep, SameState, ConsentsOf
<1> QED  BY <1>1, <1>2, <1>3

\* The callbacks change nothing but the use cases' own records.
LEMMA CallbackStep ==
  ASSUME NEW m \in Message, NEW uc \in UseCases, NEW w \in received, WriteCB(uc, w)
  PROVE  WriteStep(m)
<1>1. UNCHANGED <<received, live, granted, applied, outcome>>
  BY DEF WriteCB, stack, history
<1> QED  BY <1>1, UntouchedSame DEF WriteStep, OutcomeOf

\* An approval of a write, by the application or not: it stays open or is
\* accepted.
LEMMA ApprovedPhase ==
  ASSUME RInv, RInv', NEW m \in received, NEW uc \in UseCases, NEW w \in received,
         AutoApprove(uc, w) \/ Grant(uc, w)
  PROVE  \/ Accepts(m)
         \/ PhaseOf(m)' = PhaseOf(m) /\ (m \in applied)' = (m \in applied)
<1> UNCHANGED <<received, live>> /\ Approve(w)
  BY DEF AutoApprove, Grant
<1>1. WriteInv(m) /\ WriteInv(m)' /\ Unrepeated(m)
  BY ApartUnrepeated DEF RInv, IInv, AllApart, Unrepeated, SameKey
<1>2. m.session \in Sessions /\ m.counter \in Counters
  BY DEF RInv, IInv, TypeOK, Message
<1>3. CASE m \in HeldFor(w)
  <2>1. m = w /\ HeldFor(w) = {m} /\ m \in Awaiting
    BY <1>1, <1>3, HeldIsOwn DEF HeldFor
  <2>2. PhaseOf(m) = "open"
    BY <2>1 DEF PhaseOf, Awaiting
  <2>3. \/ UNCHANGED <<outcome, applied>>
        \/ SetOutcome(m, "accepted") /\ applied' = applied \cup {m}
    BY <2>1 DEF Approve
  <2>4. CASE UNCHANGED <<outcome, applied>>
    BY <2>4 DEF PhaseOf, OutcomeOf
  <2>5. CASE SetOutcome(m, "accepted") /\ applied' = applied \cup {m}
    <3>1. OutcomeOf(m)' = "accepted"
      BY <1>2, <2>5 DEF OutcomeOf, SetOutcome, RInv, IInv, TypeOK
    <3>2. PhaseOf(m)' = "accepted" /\ m \in applied'
      BY <2>5, <3>1 DEF PhaseOf
    \* Only use cases the write does not concern approved it by themselves.
    <3>3. ConcernedBy(m) \subseteq ConsentsOf(m)'
      BY <1>1, <3>2 DEF WriteInv, AppliedIsApproved, WaivedUnconcerned, Approved,
                        ConcernedBy, ConsentsOf, Concerned
    <3> QED  BY <2>2, <3>2, <3>3 DEF Accepts
  <2> QED  BY <2>3, <2>4, <2>5
<1>4. CASE m \notin HeldFor(w)
  <2>1. OutcomeOf(m)' = OutcomeOf(m)
    BY <1>4, OthersUntouched DEF RInv, IInv, StackInv, OutcomeOf
  <2>2. PhaseOf(m)' = PhaseOf(m)
    BY <2>1 DEF PhaseOf
  <2>3. m \in applied' <=> m \in applied
    BY <1>1, <2>1 DEF WriteInv, AppliedIsApproved
  <2> QED  BY <2>2, <2>3
<1> QED  BY <1>3, <1>4

\* An approval counts for the use case that gives it, or decides the write.
LEMMA GrantStep ==
  ASSUME RInv, RInv', NEW m \in Message, NEW uc \in UseCases, NEW w \in received,
         Grant(uc, w)
  PROVE  WriteStep(m)
<1> UNCHANGED <<received, live>> /\ granted' = granted \cup {<<w, uc>>}
    /\ w \in pending[uc]
  BY DEF Grant
<1>1. uc \in ConcernedBy(w)
  BY DEF RInv, AskedIfConcerned, ConcernedBy
<1>2. CASE m \in received
  <2>1. \/ Accepts(m)
        \/ PhaseOf(m)' = PhaseOf(m) /\ (m \in applied)' = (m \in applied)
    BY <1>2, ApprovedPhase
  <2>2. PhaseOf(m) # "absent"
    <3>1. m.session \in Sessions /\ m.counter \in Counters
      BY DEF Message
    <3>2. OutcomeOf(m) \in Outcomes
      BY <3>1 DEF OutcomeOf, RInv, IInv, TypeOK
    <3> QED  BY <1>2, <3>2 DEF PhaseOf, Outcomes
  <2>3. CASE m = w
    <3>1. ConsentsOf(m)' = ConsentsOf(m) \cup {uc}
      BY <2>3 DEF ConsentsOf
    <3> QED  BY <1>1, <2>1, <2>2, <2>3, <3>1 DEF WriteStep, Consents
  <2>4. CASE m # w
    <3>1. ConsentsOf(m)' = ConsentsOf(m)
      BY <2>4 DEF ConsentsOf
    <3> QED  BY <2>1, <3>1 DEF WriteStep, SameState
  <2> QED  BY <2>3, <2>4
<1>3. CASE m \notin received
  <2>1. PhaseOf(m)' = PhaseOf(m) /\ ConsentsOf(m)' = ConsentsOf(m)
    BY <1>3 DEF PhaseOf, ConsentsOf
  <2>2. m \notin applied /\ m \notin applied'
    BY <1>3 DEF RInv, IInv, TypeOK
  <2> QED  BY <2>1, <2>2 DEF WriteStep, SameState
<1> QED  BY <1>2, <1>3

\* So does the approval of a use case the write is not for.
LEMMA AutoApproveStep ==
  ASSUME RInv, RInv', NEW m \in Message, NEW uc \in UseCases, NEW w \in received,
         AutoApprove(uc, w)
  PROVE  WriteStep(m)
<1> UNCHANGED <<received, live, granted>>
  BY DEF AutoApprove
<1>1. ConsentsOf(m)' = ConsentsOf(m)
  BY DEF ConsentsOf
<1>2. CASE m \in received
  BY <1>1, <1>2, ApprovedPhase DEF WriteStep, SameState
<1>3. CASE m \notin received
  <2>1. PhaseOf(m)' = PhaseOf(m)
    BY <1>3 DEF PhaseOf
  <2>2. m \notin applied /\ m \notin applied'
    BY <1>3 DEF RInv, IInv, TypeOK
  <2> QED  BY <1>1, <2>1, <2>2 DEF WriteStep, SameState
<1> QED  BY <1>2, <1>3

\* A refusal decides the write it is for, and no other.
LEMMA RefuseStep ==
  ASSUME RInv, NEW m \in Message, NEW uc \in UseCases, NEW w \in received,
         Refuse(uc, w)
  PROVE  WriteStep(m)
<1> UNCHANGED <<received, live, granted, applied>> /\ Deny(w) /\ w \in pending[uc]
  BY DEF Refuse, Deny
<1>1. ConsentsOf(m)' = ConsentsOf(m)
  BY DEF ConsentsOf
<1>2. m \in received => Unrepeated(m)
  BY ApartUnrepeated DEF RInv
<1>3. CASE m \in received /\ m \in HeldFor(w)
  <2>1. m = w /\ HeldFor(w) = {m} /\ m \in Awaiting
    BY <1>2, <1>3, HeldIsOwn DEF HeldFor
  <2>2. PhaseOf(m) = "open" /\ SetOutcome(m, "denied")
    BY <2>1 DEF PhaseOf, Awaiting, Deny
  <2>3. m.session \in Sessions /\ m.counter \in Counters
    BY DEF Message
  <2>4. OutcomeOf(m)' = "denied"
    BY <2>2, <2>3 DEF OutcomeOf, SetOutcome, RInv, IInv, TypeOK
  <2>5. PhaseOf(m)' = "denied"
    BY <1>3, <2>4 DEF PhaseOf
  <2>6. uc \in ConcernedBy(m)
    BY <2>1 DEF RInv, AskedIfConcerned, ConcernedBy
  <2> QED  BY <1>1, <2>2, <2>5, <2>6 DEF WriteStep, Closes
<1>4. CASE m \in received /\ m \notin HeldFor(w)
  <2>1. OutcomeOf(m)' = OutcomeOf(m)
    BY <1>4, OthersUntouched DEF RInv, IInv, StackInv, OutcomeOf
  <2> QED  BY <2>1, UntouchedSame DEF WriteStep
<1>5. CASE m \notin received
  <2>1. PhaseOf(m)' = PhaseOf(m)
    BY <1>5 DEF PhaseOf
  <2> QED  BY <1>1, <2>1 DEF WriteStep, SameState
<1> QED  BY <1>3, <1>4, <1>5

\* Every step of the code is a step, or none, of what was promised for a write.
LEMMA EveryStep ==
  ASSUME ~ReuseCounters, RInv, [Next]_vars, NEW m \in Message
  PROVE  WriteStep(m)
<1>0. RInv'
  BY RInvStep
<1>1. ASSUME NEW s \in live, NEW c \in Counters, NEW k \in Contents,
             Receive([session |-> s, counter |-> c, content |-> k])
      PROVE  WriteStep(m)
  <2>1. [session |-> s, counter |-> c, content |-> k] \in Message
    BY DEF Message, RInv, IInv, TypeOK
  <2> QED  BY <1>1, <2>1, ReceiveStep
<1>2. ASSUME UNCHANGED vars PROVE WriteStep(m)
  BY <1>2, UntouchedSame DEF vars, WriteStep, OutcomeOf
<1> QED
  BY <1>0, <1>1, <1>2, ConnectionStep, ExpireStep, CallbackStep, GrantStep,
     AutoApproveStep, RefuseStep DEF Next, Step, Quiet

\* A write that has not come yet is where WriteConsent starts.
LEMMA ConsentStart ==
  ASSUME Init, NEW m \in Message
  PROVE  Abstract(m)!ConsentInit
BY DEF Init, PhaseOf, Abstract!ConsentInit

\* CsWriteApproval implements WriteConsent for every write, whatever the use
\* cases, their number, the connections, counters and contents.
THEOREM Implements == ASSUME ~ReuseCounters PROVE Spec => ImplementsWriteConsent
<1>1. Init => RInv
  BY RInvInit
<1>2. RInv /\ [Next]_vars => RInv'
  BY RInvStep
<1>3. Init => \A m \in Message : Abstract(m)!ConsentInit
  BY ConsentStart
<1>4. RInv /\ [Next]_vars
        => [\A m \in Message : [Abstract(m)!ConsentNext]_(Abstract(m)!cvars)]_vars
  BY EveryStep, StepsOfConsent
<1> QED
  BY <1>1, <1>2, <1>3, <1>4, PTL DEF Spec, ImplementsWriteConsent
=============================================================================
