---------------------------- MODULE ListWrite_proofs ----------------------------
(***************************************************************************)
(* Proofs about ListWrite, for any number of entries and of calls: the     *)
(* values a device comes to hold, the entries a write touches and the      *)
(* results callers are told, however calls, device and results interleave. *)
(***************************************************************************)
EXTENDS ListWrite, SequenceLemmas

-----------------------------------------------------------------------------
(* Type correctness.                                                       *)

\* What a request holds.
LEMMA RequestTypes ==
  ASSUME NEW m \in Requests
  PROVE  /\ m.kind \in {"write", "read"}
         /\ m.kind = "write" => m.call \in Calls /\ m.list \in Lists
BY DEF Requests

\* What a response holds.
LEMMA ResponseTypes ==
  ASSUME NEW m \in Responses
  PROVE  /\ m.kind \in {"list", "result"}
         /\ m.kind = "list" => m.data \in Data
         /\ m.kind = "result" => m.call \in Calls /\ m.result \in Results
BY DEF Responses

\* A merged list has the type of lists.
LEMMA UpdateTypes ==
  ASSUME NEW c \in Calls, NEW list \in Lists
  PROVE  Update(c, list) \in Lists /\ Nothing \in Lists
BY DEF Update, Lists, Entries, Nothing

\* What the device does with a write: a write that is rejected changes nothing,
\* one that is accepted makes the list anew, and the result comes back.
LEMMA AnswerEffect ==
  ASSUME TypeOK, NEW m \in Requests, m.kind = "write", AnswerWrite(m)
  PROVE  \E result \in Results :
           /\ remote' = IF result = "rejected" THEN remote ELSE Changed(Written(m.list))
           /\ remote' \in Data
           /\ answered' = [answered EXCEPT ![m.call] = result]
           /\ stored' = [stored EXCEPT ![m.call] = remote'.version]
           /\ inbox' \in Seq(Responses)
           /\ \A k \in 1 .. Len(inbox') :
                \/ k \in 1 .. Len(inbox) /\ inbox'[k] = inbox[k]
                \/ inbox'[k] = [kind |-> "result", call |-> m.call, result |-> result]
                \/ inbox'[k] = ListOf(remote')
<1>1. PICK result \in Results :
        LET reply == <<[kind |-> "result", call |-> m.call, result |-> result]>>
            data  == IF result = "rejected" THEN remote ELSE Changed(Written(m.list))
            news  == IF result = "rejected" THEN <<>> ELSE Notice(data)
        IN  /\ remote' = data
            /\ \E both \in {reply \o news, news \o reply} : inbox' = inbox \o both
            /\ answered' = [answered EXCEPT ![m.call] = result]
            /\ stored' = [stored EXCEPT ![m.call] = data.version]
  BY DEF AnswerWrite
<1>2. m.call \in Calls /\ m.list \in Lists
  BY RequestTypes
<1>3. remote' \in Data
  <2>1. Written(m.list) \in Lists
    BY <1>2 DEF Written, Lists, TypeOK, Data
  <2> QED  BY <1>1, <2>1 DEF Changed, TypeOK, Data
<1>4. ASSUME NEW r, r = [kind |-> "result", call |-> m.call, result |-> result],
             NEW n, n = ListOf(remote')
      PROVE  /\ inbox' \in Seq(Responses)
             /\ \A k \in 1 .. Len(inbox') :
                  \/ k \in 1 .. Len(inbox) /\ inbox'[k] = inbox[k]
                  \/ inbox'[k] = r \/ inbox'[k] = n
  <2>1. r \in Responses /\ n \in Responses
    BY <1>2, <1>3, <1>4 DEF Responses, ListOf
  <2>2. PICK news \in {<<>>, <<n>>} : inbox' = inbox \o (<<r>> \o news)
                                     \/ inbox' = inbox \o (news \o <<r>>)
    BY <1>1, <1>4 DEF Notice
  <2>3. <<r>> \in Seq({r, n}) /\ news \in Seq({r, n})
    BY Short
  <2>4. PICK both \in Seq({r, n}) : inbox' = inbox \o both
    BY <2>2, <2>3, ConcatProperties
  <2>5. both \in Seq(Responses) /\ \A j \in 1 .. Len(both) : both[j] \in {r, n}
    BY <2>1, ElementOfSeq, SeqMonotonic
  <2>6. inbox \in Seq(Responses)
    BY DEF TypeOK
  <2> QED  BY <2>4, <2>5, <2>6, Queued
<1>5. remote' = IF result = "rejected" THEN remote ELSE Changed(Written(m.list))
  BY <1>1
<1>6. /\ answered' = [answered EXCEPT ![m.call] = result]
      /\ stored' = [stored EXCEPT ![m.call] = remote'.version]
  BY <1>1
<1>7. /\ inbox' \in Seq(Responses)
      /\ \A k \in 1 .. Len(inbox') :
           \/ k \in 1 .. Len(inbox) /\ inbox'[k] = inbox[k]
           \/ inbox'[k] = [kind |-> "result", call |-> m.call, result |-> result]
           \/ inbox'[k] = ListOf(remote')
  BY <1>4
<1> QED  BY <1>3, <1>5, <1>6, <1>7

\* A change at the device is sent to the client.
LEMMA ChangeEffect ==
  ASSUME TypeOK, NEW i \in Ids, Change(i)
  PROVE  /\ remote' = Changed([remote.list EXCEPT ![i] = Device]) /\ remote' \in Data
         /\ inbox' \in Seq(Responses)
         /\ \A k \in 1 .. Len(inbox') :
              \/ k \in 1 .. Len(inbox) /\ inbox'[k] = inbox[k]
              \/ inbox'[k] = ListOf(remote')
<1>1. /\ remote' = Changed([remote.list EXCEPT ![i] = Device])
      /\ inbox' = inbox \o Notice(remote')
  BY DEF Change
<1>2. remote' \in Data
  BY <1>1 DEF Changed, TypeOK, Data, Lists, Entries
<1>3. ASSUME NEW n, n = ListOf(remote')
      PROVE  /\ inbox' \in Seq(Responses)
             /\ \A k \in 1 .. Len(inbox') :
                  \/ k \in 1 .. Len(inbox) /\ inbox'[k] = inbox[k]
                  \/ inbox'[k] = n
  <2>1. n \in Responses
    BY <1>2, <1>3 DEF Responses, ListOf
  <2>2. PICK news \in {<<>>, <<n>>} : inbox' = inbox \o news
    BY <1>1, <1>3 DEF Notice
  <2>3. news \in Seq({n})
    BY <2>2, Short
  <2>4. news \in Seq(Responses) /\ \A j \in 1 .. Len(news) : news[j] = n
    BY <2>1, <2>3, ElementOfSeq, SeqMonotonic
  <2>5. inbox \in Seq(Responses)
    BY DEF TypeOK
  <2> QED  BY <2>2, <2>4, <2>5, Queued
<1> QED  BY <1>1, <1>2, <1>3

\* At first nothing is sent.
LEMMA TypeInit == Init => TypeOK
<1> SUFFICES ASSUME Init PROVE TypeOK
  OBVIOUS
<1>1. remote \in Data /\ cache \in Data
  BY DEF Init, Data, Lists, Entries
<1>2. Nothing \in Lists
  BY DEF Nothing, Lists, Entries
<1>3. outbox \in Seq(Requests) /\ inbox \in Seq(Responses)
  BY EmptySeq DEF Init
<1> QED  BY <1>1, <1>2, <1>3 DEF Init, TypeOK, Steps

\* Every step keeps the types.
LEMMA TypeStep == TypeOK /\ [Next]_vars => TypeOK'
<1> SUFFICES ASSUME TypeOK, [Next]_vars PROVE TypeOK'
  OBVIOUS
<1>1. ASSUME NEW c \in Calls, Begin(c) PROVE TypeOK'
  <2>1. PICK S \in SUBSET Ids : Check(c, S)
    BY <1>1 DEF Begin, WriteLoadControlLimit, WriteLoadControlPhaseLimits, WriteSetpoint
  <2> QED  BY <2>1 DEF Check, TypeOK, Steps, setting, history
<1>2. ASSUME NEW c \in Calls, Prepare(c) PROVE TypeOK'
  <2>1. Partial(c) \in Lists /\ Merged(c) \in Lists
    BY UpdateTypes DEF Partial, Merged, TypeOK, Data
  <2>2. /\ \/ pc' = [pc EXCEPT ![c] = "prepared"]
           \/ pc' = [pc EXCEPT ![c] = "failed"]
        /\ cache' = cache
    BY <1>2 DEF Prepare, WriteLimitData, PrepareListWrite, KeepCopy
  <2>3. PICK list \in Lists : payload' = [payload EXCEPT ![c] = list] \/ payload' = payload
    BY <1>2, <2>1 DEF Prepare, WriteLimitData, PrepareListWrite
  <2>4. pc' \in [Calls -> Steps] /\ payload' \in [Calls -> Lists]
    <3>1. pc \in [Calls -> Steps] /\ payload \in [Calls -> Lists]
      BY DEF TypeOK
    <3>2. pc' \in [Calls -> Steps]
      BY <2>2, <3>1 DEF Steps
    <3>3. payload' \in [Calls -> Lists]
      BY <2>3, <3>1
    <3> QED  BY <3>2, <3>3
  <2> QED  BY <1>2, <2>2, <2>4 DEF Prepare, TypeOK, Data, setting, history
<1>3. ASSUME NEW c \in Calls, Send(c) PROVE TypeOK'
  <2>1. [kind |-> "write", call |-> c, list |-> payload[c]] \in Requests
    BY DEF TypeOK, Requests
  <2>2. outbox' \in Seq(Requests)
    BY <1>3, <2>1, Appended DEF Send, TypeOK
  <2> QED  BY <1>3, <2>2 DEF Send, TypeOK, Steps, setting, history
<1>4. ASSUME NEW c \in Calls, Register(c) PROVE TypeOK'
  BY <1>4 DEF Register, TypeOK, Steps, setting, history
<1>5. ASSUME Answer PROVE TypeOK'
  <2>1. outbox' \in Seq(Requests) /\ Head(outbox) \in Requests
    BY <1>5, Taken DEF Answer, TypeOK
  <2>2. CASE AnswerWrite(Head(outbox)) /\ Head(outbox).kind = "write"
    <3>1. /\ remote' \in Data /\ inbox' \in Seq(Responses)
          /\ answered' \in [Calls -> Results \cup {"none"}] /\ stored' \in [Calls -> Nat]
      <4>1. Head(outbox).call \in Calls
        BY <2>1, <2>2, RequestTypes
      <4>2. PICK result \in Results :
              /\ remote' \in Data /\ inbox' \in Seq(Responses)
              /\ answered' = [answered EXCEPT ![Head(outbox).call] = result]
              /\ stored' = [stored EXCEPT ![Head(outbox).call] = remote'.version]
        BY <2>1, <2>2, AnswerEffect
      <4> QED  BY <4>1, <4>2 DEF TypeOK, Data
    <3> QED  BY <1>5, <2>1, <3>1 DEF Answer, TypeOK, setting, callVars
  <2>3. CASE AnswerRead(Head(outbox))
    <3>1. ListOf(remote) \in Responses
      BY DEF ListOf, Responses, TypeOK
    <3>2. inbox' \in Seq(Responses)
      BY <2>3, <3>1, Appended DEF AnswerRead, TypeOK
    <3> QED  BY <1>5, <2>1, <2>3, <3>2 DEF Answer, AnswerRead, TypeOK, setting, callVars, history
  <2> QED  BY <1>5, <2>2, <2>3 DEF Answer
<1>6. ASSUME NEW i \in Ids, Change(i) PROVE TypeOK'
  BY <1>6, ChangeEffect DEF Change, TypeOK, setting, callVars, history
<1>7. ASSUME Process PROVE TypeOK'
  <2>1. inbox' \in Seq(Responses) /\ Head(inbox) \in Responses
    BY <1>7, Taken DEF Process, TypeOK
  <2>2. [kind |-> "read"] \in Requests
    BY DEF Requests
  <2>3. PICK m \in Requests : outbox' = outbox \/ outbox' = Append(outbox, m)
    BY <1>7, <2>2 DEF Process, ProcessList, ProcessResult, Refresh
  <2>4. outbox' \in Seq(Requests)
    <3>1. outbox \in Seq(Requests)
      BY DEF TypeOK
    <3> QED  BY <2>3, <3>1, Appended
  <2>5. cache' \in Data /\ callbacks' \subseteq Calls /\ processed' \subseteq Calls
    BY <1>7, <2>1, ResponseTypes DEF Process, ProcessList, ProcessResult, TypeOK
  <2>6. told' \in [Calls -> Results \cup {"none"}]
    BY <1>7, <2>1, ResponseTypes DEF Process, ProcessList, ProcessResult, Tell, TypeOK
  <2> QED  BY <1>7, <2>1, <2>4, <2>5, <2>6 DEF Process, TypeOK, setting, callVars, history
<1>8. ASSUME UNCHANGED vars PROVE TypeOK'
  BY <1>8 DEF TypeOK, vars, setting, callVars, history
<1> QED  BY <1>1, <1>2, <1>3, <1>4, <1>5, <1>6, <1>7, <1>8 DEF Next, Idle

\* Every variable keeps its type: only whole messages travel, and lists have
\* known values only.
THEOREM TypeCorrect == Spec => []TypeOK
  BY TypeInit, TypeStep, PTL DEF Spec

-----------------------------------------------------------------------------
(* The results.                                                            *)

OnTheWay == {"sent", "returned"}

\* A write on its way to the device carries the list its call has prepared,
\* is not answered, and no other write of the call is on its way.
WritesOnTheWay ==
  \A k \in 1 .. Len(outbox) : outbox[k].kind = "write" =>
    LET c == outbox[k].call
    IN  /\ pc[c] \in OnTheWay /\ answered[c] = "none" /\ outbox[k].list = payload[c]
        /\ \A j \in 1 .. Len(outbox) : outbox[j].kind = "write" /\ outbox[j].call = c => j = k

\* The device answers only what was sent, and a result on its way back is its
\* answer.
ResultsAreAnswers ==
  /\ \A c \in Calls : answered[c] # "none" => pc[c] \in OnTheWay
  /\ \A k \in 1 .. Len(inbox) :
       inbox[k].kind = "result" => inbox[k].result = answered[inbox[k].call]

ResultInv == TypeOK /\ WritesOnTheWay /\ ResultsAreAnswers /\ OwnResult

\* At first no result is on its way.
LEMMA ResultInit == Init => ResultInv
<1> SUFFICES ASSUME Init PROVE ResultInv
  OBVIOUS
<1>1. Len(outbox) = 0 /\ Len(inbox) = 0
  BY DEF Init
<1> QED
  BY <1>1, TypeInit DEF Init, ResultInv, WritesOnTheWay, ResultsAreAnswers, OwnResult

\* Steps of a call before it sends, which the queues do not notice.
LEMMA ResultUnsent ==
  ASSUME ResultInv, TypeOK', NEW c \in Calls, pc[c] \notin OnTheWay,
         \A d \in Calls \ {c} : pc'[d] = pc[d] /\ payload'[d] = payload[d],
         UNCHANGED <<outbox, inbox, answered, told>>
  PROVE  ResultInv'
<1>1. \A k \in 1 .. Len(outbox) : outbox[k].kind = "write" =>
         outbox[k].call \in Calls /\ outbox[k].call # c
  BY RequestTypes, ElementOfSeq DEF ResultInv, WritesOnTheWay, TypeOK
<1>2. WritesOnTheWay'
  BY <1>1 DEF ResultInv, WritesOnTheWay
<1>3. ResultsAreAnswers'
  BY DEF ResultInv, ResultsAreAnswers
<1> QED  BY <1>2, <1>3 DEF ResultInv, OwnResult

\* A write that is sent has no result yet.
LEMMA ResultSend ==
  ASSUME ResultInv, TypeOK', NEW c \in Calls, Send(c)
  PROVE  ResultInv'
<1>1. PICK m \in Requests :
        /\ m.kind = "write" /\ m.call = c /\ m.list = payload[c]
        /\ outbox' = Append(outbox, m)
  <2>1. [kind |-> "write", call |-> c, list |-> payload[c]] \in Requests
    BY DEF ResultInv, TypeOK, Requests
  <2> QED  BY <2>1 DEF Send
<1>2. /\ UNCHANGED <<payload, inbox, answered, told>>
      /\ pc[c] = "prepared" /\ pc' = [pc EXCEPT ![c] = "sent"]
  BY DEF Send, history
<1>3. \A k \in 1 .. Len(outbox') :
         \/ k \in 1 .. Len(outbox) /\ outbox'[k] = outbox[k]
         \/ k = Len(outbox) + 1 /\ outbox'[k] = m
  BY <1>1, Appended DEF ResultInv, TypeOK
<1>4. answered[c] = "none"
  BY <1>2 DEF ResultInv, ResultsAreAnswers, OnTheWay
<1>5. \A k \in 1 .. Len(outbox) : outbox[k].kind = "write" =>
         outbox[k].call \in Calls /\ outbox[k].call # c
  BY <1>2, RequestTypes, ElementOfSeq DEF ResultInv, WritesOnTheWay, TypeOK, OnTheWay
<1>6. \A d \in Calls : pc[d] \in OnTheWay => pc'[d] \in OnTheWay
  BY <1>2 DEF ResultInv, TypeOK, OnTheWay
<1>7. pc'[c] \in OnTheWay
  BY <1>2 DEF ResultInv, TypeOK, OnTheWay
<1>8. WritesOnTheWay'
  BY <1>1, <1>2, <1>3, <1>4, <1>5, <1>6, <1>7 DEF ResultInv, WritesOnTheWay
<1>9. ResultsAreAnswers'
  BY <1>2, <1>6 DEF ResultInv, ResultsAreAnswers
<1> QED  BY <1>2, <1>8, <1>9 DEF ResultInv, OwnResult

\* To register a callback changes no result.
LEMMA ResultRegister ==
  ASSUME ResultInv, TypeOK', NEW c \in Calls, Register(c)
  PROVE  ResultInv'
<1>1. /\ UNCHANGED <<payload, outbox, inbox, answered, told>>
      /\ pc' = [pc EXCEPT ![c] = "returned"]
  BY DEF Register, history
<1>2. \A d : pc[d] \in OnTheWay /\ d \in Calls => pc'[d] \in OnTheWay
  BY <1>1 DEF ResultInv, TypeOK, OnTheWay
<1>3. \A k \in 1 .. Len(outbox) : outbox[k].kind = "write" => outbox[k].call \in Calls
  BY RequestTypes, ElementOfSeq DEF ResultInv, TypeOK
<1>4. WritesOnTheWay' /\ ResultsAreAnswers'
  BY <1>1, <1>2, <1>3 DEF ResultInv, WritesOnTheWay, ResultsAreAnswers
<1> QED  BY <1>1, <1>4 DEF ResultInv, OwnResult

\* The device answers the first message: no other write of the same call is
\* left, and nobody was told of a result of it before.
LEMMA ResultAnswer ==
  ASSUME ResultInv, TypeOK', Answer
  PROVE  ResultInv'
<1>1. /\ outbox # <<>> /\ outbox' = Tail(outbox) /\ UNCHANGED <<pc, payload, told>>
      /\ outbox \in Seq(Requests) /\ inbox \in Seq(Responses)
  BY DEF Answer, callVars, ResultInv, TypeOK
<1>2. /\ Head(outbox) = outbox[1] /\ outbox[1] \in Requests /\ 1 \in 1 .. Len(outbox)
      /\ \A k \in 1 .. Len(outbox') :
           k + 1 \in 1 .. Len(outbox) /\ outbox'[k] = outbox[k + 1] /\ k + 1 # 1
  <2>1. \A k \in 1 .. Len(outbox') : k + 1 # 1
    OBVIOUS
  <2> QED  BY <1>1, <2>1, Taken
<1>3. \A j, k \in 1 .. Len(outbox') : j + 1 = k + 1 => j = k
  OBVIOUS
<1>4. CASE outbox[1].kind = "write" /\ AnswerWrite(outbox[1])
  <2>1. PICK m \in Requests : m = outbox[1] /\ m.kind = "write" /\ AnswerWrite(m)
    BY <1>2, <1>4
  <2>2. PICK c \in Calls : c = m.call /\ c = outbox[1].call
    BY <2>1, RequestTypes
  <2>3. PICK result \in Results :
          /\ answered' = [answered EXCEPT ![m.call] = result]
          /\ \A k \in 1 .. Len(inbox') :
               \/ k \in 1 .. Len(inbox) /\ inbox'[k] = inbox[k]
               \/ inbox'[k] = [kind |-> "result", call |-> m.call, result |-> result]
               \/ inbox'[k] = ListOf(remote')
    <3>1. TypeOK
      BY DEF ResultInv
    <3> QED  BY <2>1, <3>1, AnswerEffect
  <2>4. pc[c] \in OnTheWay /\ answered[c] = "none" /\ result # "none"
    BY <1>2, <1>4, <2>2 DEF ResultInv, WritesOnTheWay, Results
  <2>5. answered'[c] = result /\ \A d \in Calls \ {c} : answered'[d] = answered[d]
    BY <2>2, <2>3 DEF ResultInv, TypeOK
  <2>6. WritesOnTheWay'
    <3>1. SUFFICES ASSUME NEW k \in 1 .. Len(outbox'), outbox'[k].kind = "write"
                   PROVE  /\ pc'[outbox'[k].call] \in OnTheWay
                          /\ answered'[outbox'[k].call] = "none"
                          /\ outbox'[k].list = payload'[outbox'[k].call]
                          /\ \A j \in 1 .. Len(outbox') :
                               outbox'[j].kind = "write" /\ outbox'[j].call = outbox'[k].call => j = k
      BY DEF WritesOnTheWay
    <3>2. outbox'[k].call \in Calls /\ outbox'[k].call # c
      <4>1. outbox[k + 1] \in Requests
        BY <1>1, <1>2, ElementOfSeq
      <4>2. outbox[k + 1].call # c
        BY <1>2, <1>4, <2>2, <3>1 DEF ResultInv, WritesOnTheWay
      <4> QED  BY <1>2, <3>1, <4>1, <4>2, RequestTypes
    <3> QED  BY <1>1, <1>2, <1>3, <2>5, <3>1, <3>2 DEF ResultInv, WritesOnTheWay
  <2>7. ResultsAreAnswers'
    <3>1. \A k \in 1 .. Len(inbox) :
             inbox[k].kind = "result" => inbox[k].call \in Calls /\ inbox[k].call # c
      <4>1. \A k \in 1 .. Len(inbox) : inbox[k] \in Responses
        BY <1>1, ElementOfSeq
      <4> QED  BY <2>4, <4>1, ResponseTypes DEF ResultInv, ResultsAreAnswers, Results
    <3>2. \A k \in 1 .. Len(inbox') :
             inbox'[k].kind = "result" => inbox'[k].result = answered'[inbox'[k].call]
      BY <2>2, <2>3, <2>5, <3>1 DEF ResultInv, ResultsAreAnswers, ListOf
    <3>3. \A d \in Calls : answered'[d] # "none" => pc'[d] \in OnTheWay
      BY <1>1, <2>4, <2>5 DEF ResultInv, ResultsAreAnswers
    <3> QED  BY <3>2, <3>3 DEF ResultsAreAnswers
  <2>8. OwnResult'
    BY <1>1, <2>4, <2>5 DEF ResultInv, OwnResult
  <2> QED  BY <2>6, <2>7, <2>8 DEF ResultInv
<1>5. CASE AnswerRead(outbox[1])
  <2>1. UNCHANGED answered /\ inbox' = Append(inbox, ListOf(remote))
    BY <1>5 DEF AnswerRead, history
  <2>2. ListOf(remote) \in Responses
    BY DEF ResultInv, TypeOK, ListOf, Responses
  <2>3. \A k \in 1 .. Len(inbox') :
           (k \in 1 .. Len(inbox) /\ inbox'[k] = inbox[k]) \/ inbox'[k] = ListOf(remote)
    BY <1>1, <2>1, <2>2, Appended
  <2>4. WritesOnTheWay'
    BY <1>1, <1>2, <1>3, <2>1 DEF ResultInv, WritesOnTheWay
  <2>5. ResultsAreAnswers'
    BY <1>1, <2>1, <2>3 DEF ResultInv, ResultsAreAnswers, ListOf
  <2> QED  BY <1>1, <2>1, <2>4, <2>5 DEF ResultInv, OwnResult
<1> QED  BY <1>2, <1>4, <1>5 DEF Answer

\* A change at the device brings no result.
LEMMA ResultChange ==
  ASSUME ResultInv, TypeOK', NEW i \in Ids, Change(i)
  PROVE  ResultInv'
<1>1. UNCHANGED <<pc, payload, outbox, answered, told>>
  BY DEF Change, callVars, history
<1>2. \A k \in 1 .. Len(inbox') :
         (k \in 1 .. Len(inbox) /\ inbox'[k] = inbox[k]) \/ inbox'[k] = ListOf(remote')
  BY ChangeEffect DEF ResultInv
<1>3. WritesOnTheWay'
  BY <1>1 DEF ResultInv, WritesOnTheWay
<1>4. ResultsAreAnswers'
  BY <1>1, <1>2 DEF ResultInv, ResultsAreAnswers, ListOf
<1> QED  BY <1>1, <1>3, <1>4 DEF ResultInv, OwnResult

\* A result processed is told to the call it answers.
LEMMA ResultProcess ==
  ASSUME ResultInv, TypeOK', Process
  PROVE  ResultInv'
<1>1. /\ inbox # <<>> /\ inbox' = Tail(inbox) /\ UNCHANGED <<pc, payload, answered>>
      /\ outbox \in Seq(Requests) /\ inbox \in Seq(Responses)
  BY DEF Process, callVars, history, ResultInv, TypeOK
<1>2. /\ Head(inbox) = inbox[1] /\ inbox[1] \in Responses /\ 1 \in 1 .. Len(inbox)
      /\ \A k \in 1 .. Len(inbox') : k + 1 \in 1 .. Len(inbox) /\ inbox'[k] = inbox[k + 1]
  BY <1>1, Taken
<1>3. WritesOnTheWay'
  <2>1. PICK m \in Requests : m.kind = "read" /\ (outbox' = outbox \/ outbox' = Append(outbox, m))
    <3>1. [kind |-> "read"] \in Requests
      BY DEF Requests
    <3> QED  BY <3>1 DEF Process, ProcessList, ProcessResult, Refresh
  <2>2. \A k \in 1 .. Len(outbox') : outbox'[k].kind = "write" =>
           k \in 1 .. Len(outbox) /\ outbox'[k] = outbox[k]
    BY <1>1, <2>1, Appended
  <2> QED  BY <1>1, <2>2 DEF ResultInv, WritesOnTheWay
<1>4. ResultsAreAnswers'
  BY <1>1, <1>2 DEF ResultInv, ResultsAreAnswers
<1>5. OwnResult'
  <2>1. CASE told' = told
    BY <1>1, <2>1 DEF ResultInv, OwnResult
  <2>2. CASE inbox[1].kind = "result" /\ Tell(inbox[1])
    <3>1. inbox[1].call \in Calls /\ inbox[1].result = answered[inbox[1].call]
      BY <1>2, <2>2, ResponseTypes DEF ResultInv, ResultsAreAnswers
    <3> QED  BY <1>1, <2>2, <3>1 DEF Tell, ResultInv, OwnResult, TypeOK
  <2> QED  BY <1>2, <2>1, <2>2 DEF Process, ProcessList, ProcessResult
<1> QED  BY <1>3, <1>4, <1>5 DEF ResultInv

\* Every step keeps the results apart.
LEMMA ResultStep == ResultInv /\ [Next]_vars => ResultInv'
<1> SUFFICES ASSUME ResultInv, [Next]_vars PROVE ResultInv'
  OBVIOUS
<1>1. TypeOK'
  BY TypeStep DEF ResultInv
<1>2. ASSUME NEW c \in Calls, Begin(c) \/ Prepare(c) PROVE ResultInv'
  <2>1. pc[c] \notin OnTheWay /\ UNCHANGED <<outbox, inbox, answered, told>>
    BY <1>2 DEF Begin, WriteLoadControlLimit, WriteLoadControlPhaseLimits, WriteSetpoint,
                Check, Prepare, OnTheWay, history
  <2>2. \A d \in Calls \ {c} : pc'[d] = pc[d]
    BY <1>2 DEF Begin, WriteLoadControlLimit, WriteLoadControlPhaseLimits, WriteSetpoint,
                Check, Prepare, WriteLimitData, PrepareListWrite, ResultInv, TypeOK
  <2>3. \A d \in Calls \ {c} : payload'[d] = payload[d]
    BY <1>2 DEF Begin, WriteLoadControlLimit, WriteLoadControlPhaseLimits, WriteSetpoint,
                Check, Prepare, WriteLimitData, PrepareListWrite, ResultInv, TypeOK
  <2> QED  BY <1>1, <2>1, <2>2, <2>3, ResultUnsent
<1>3. ASSUME UNCHANGED vars PROVE ResultInv'
  BY <1>1, <1>3 DEF vars, callVars, history, ResultInv, WritesOnTheWay, ResultsAreAnswers,
                    OwnResult
<1> QED
  BY <1>1, <1>2, <1>3, ResultSend, ResultRegister, ResultAnswer, ResultChange,
     ResultProcess DEF Next, Idle

\* A caller hears the device's answer to its own write, and no other.
THEOREM ToldOwnResult == Spec => []OwnResult
<1>1. ResultInv => OwnResult
  BY DEF ResultInv
<1> QED  BY <1>1, ResultInit, ResultStep, PTL DEF Spec

-----------------------------------------------------------------------------
(* The lists.                                                              *)

Begun == {"prepared", "sent", "returned"}

\* Every value of a call is in an entry the call was for, and accepted.
Consented(list) ==
  \A i \in Ids : list[i] \in Calls => i \in ids[list[i]] /\ Accepted(list[i])

\* A copy of the device's list is one of its earlier lists: none of its values
\* is of a write that was rejected, and its version tells whether it is out of
\* date.
CopyOf(data) ==
  /\ Consented(data.list)
  /\ data.version <= remote.version
  /\ data.version = remote.version => data.list = remote.list

Copies ==
  /\ Consented(remote.list) /\ CopyOf(cache)
  /\ \A k \in 1 .. Len(inbox) : inbox[k].kind = "list" => CopyOf(inbox[k].data)

\* What a call sends has its own value in its own entries only; the values of
\* other calls in it were accepted.
OwnValues(c) ==
  \A i \in Ids : payload[c][i] \in Calls =>
    /\ i \in ids[payload[c][i]]
    /\ payload[c][i] = c \/ Accepted(payload[c][i])

\* And the rest of it is left out, or is the device's list as of the version it
\* was merged from.
RestKept(c) ==
  /\ basis[c] <= remote.version
  /\ \A i \in Ids \ ids[c] :
       /\ partial => payload[c][i] = Absent
       /\ ~partial /\ Current(c) => payload[c][i] = remote.list[i]

Payloads == \A c \in Calls : pc[c] \in Begun => OwnValues(c) /\ RestKept(c)

ListInv == ResultInv /\ Copies /\ Payloads

\* At first the copy is the list of the device.
LEMMA ListInit == Init => ListInv
<1> SUFFICES ASSUME Init PROVE ListInv
  OBVIOUS
<1>1. Len(inbox) = 0 /\ remote.version = 0 /\ cache = remote
  BY DEF Init
<1>2. \A i \in Ids : remote.list[i] \notin Calls
  BY CallsAssumption DEF Init
<1>3. Copies
  BY <1>1, <1>2 DEF Copies, CopyOf, Consented
<1>4. Payloads
  BY DEF Init, Payloads, Begun
<1> QED  BY <1>3, <1>4, ResultInit DEF ListInv

\* No value of a call that has not begun is anywhere.
LEMMA ListCheck ==
  ASSUME ListInv, ResultInv', NEW c \in Calls, NEW S \in SUBSET Ids, Check(c, S)
  PROVE  ListInv'
<1>1. /\ pc[c] = "idle" /\ answered[c] = "none"
      /\ UNCHANGED <<feature, partial, remote, cache, payload, basis, inbox, answered>>
      /\ \A d \in Calls \ {c} : ids'[d] = ids[d] /\ pc'[d] = pc[d]
      /\ pc'[c] \notin Begun
  BY DEF Check, setting, history, ListInv, ResultInv, ResultsAreAnswers, TypeOK, OnTheWay, Begun
<1>2. ~Accepted(c) /\ \A d \in Calls : Accepted(d)' <=> Accepted(d)
  BY <1>1 DEF Accepted
<1>3. ASSUME NEW list, Consented(list) PROVE Consented(list)'
  BY <1>1, <1>2, <1>3 DEF Consented
<1>4. ASSUME NEW data, CopyOf(data) PROVE CopyOf(data)'
  <2>1. Consented(data.list)'
    BY <1>3, <1>4 DEF CopyOf
  <2> QED  BY <1>1, <1>4, <2>1 DEF CopyOf
<1>5. Copies'
  <2>1. Consented(remote.list)'
    BY <1>1, <1>2 DEF ListInv, Copies, Consented
  <2>2. CopyOf(cache)'
    BY <1>1, <1>4 DEF ListInv, Copies
  <2>3. ASSUME NEW k \in 1 .. Len(inbox'), inbox'[k].kind = "list"
        PROVE  CopyOf(inbox[k].data)'
    BY <1>1, <1>2, <2>3 DEF ListInv, Copies, CopyOf, Consented
  <2> QED  BY <2>1, <2>2, <2>3 DEF Copies
<1>6. ASSUME NEW d \in Calls, pc'[d] \in Begun PROVE OwnValues(d)' /\ RestKept(d)'
  <2>1. d # c /\ OwnValues(d) /\ RestKept(d)
    BY <1>1, <1>6 DEF ListInv, Payloads
  <2>2. OwnValues(d)'
    BY <1>1, <1>2, <2>1 DEF OwnValues
  <2>3. RestKept(d)'
    BY <1>1, <2>1 DEF RestKept, Current
  <2> QED  BY <2>2, <2>3
<1> QED  BY <1>5, <1>6 DEF ListInv, Payloads

\* The list is merged from the copy, as of its version.
LEMMA ListPrepare ==
  ASSUME ListInv, ResultInv', NEW c \in Calls, Prepare(c)
  PROVE  ListInv'
<1>1. /\ UNCHANGED <<feature, partial, remote, cache, ids, inbox, answered>>
      /\ basis' = [basis EXCEPT ![c] = cache.version]
      /\ \A d \in Calls \ {c} : payload'[d] = payload[d] /\ pc'[d] = pc[d]
  <2>1. cache' = cache
    BY DEF Prepare, WriteLimitData, PrepareListWrite, KeepCopy
  <2>2. \A d \in Calls \ {c} : payload'[d] = payload[d] /\ pc'[d] = pc[d]
    BY DEF Prepare, WriteLimitData, PrepareListWrite, ListInv, ResultInv, TypeOK
  <2> QED  BY <2>1, <2>2 DEF Prepare, setting, history
<1>2. Copies'
  BY <1>1 DEF ListInv, Copies, CopyOf, Consented, Accepted
<1>3. ASSUME NEW d \in Calls \ {c}, pc'[d] \in Begun PROVE OwnValues(d)' /\ RestKept(d)'
  <2>1. OwnValues(d) /\ RestKept(d) /\ basis'[d] = basis[d]
    BY <1>1, <1>3 DEF ListInv, Payloads, ResultInv, TypeOK
  <2> QED  BY <1>1, <2>1 DEF OwnValues, RestKept, Current, Accepted
<1>4. ASSUME pc'[c] \in Begun PROVE OwnValues(c)' /\ RestKept(c)'
  <2>1. /\ basis'[c] = cache.version
        /\ \/ payload'[c] = Partial(c) /\ (partial \/ feature = "LoadControl")
           \/ payload'[c] = Merged(c) /\ ~partial
    <3>1. c \in DOMAIN payload /\ c \in DOMAIN basis /\ c \in DOMAIN pc
      BY DEF ListInv, ResultInv, TypeOK
    <3> QED  BY <1>4, <3>1 DEF Prepare, WriteLimitData, PrepareListWrite, Begun
  <2>2. \A i \in Ids \ ids[c] :
           payload'[c][i] = IF payload'[c] = Partial(c) THEN Absent ELSE cache.list[i]
    BY <2>1 DEF Partial, Merged, Update, Nothing
  <2>3. \A i \in ids[c] : i \in Ids => payload'[c][i] = c
    BY <2>1 DEF Partial, Merged, Update
  <2>4. OwnValues(c)'
    <3>1. SUFFICES ASSUME NEW i \in Ids, payload'[c][i] \in Calls
                   PROVE  /\ i \in ids[payload'[c][i]]
                          /\ payload'[c][i] = c \/ Accepted(payload'[c][i])
      BY <1>1 DEF OwnValues, Accepted
    <3>2. CASE i \in ids[c]
      BY <2>3, <3>2
    <3>3. CASE i \notin ids[c]
      BY <2>2, <3>1, <3>3, CallsAssumption DEF ListInv, Copies, CopyOf, Consented
    <3> QED  BY <3>2, <3>3
  <2>5. RestKept(c)'
    <3>1. basis'[c] <= remote'.version
      BY <1>1, <2>1 DEF ListInv, Copies, CopyOf
    <3>2. ASSUME NEW i \in Ids \ ids[c], partial PROVE payload'[c][i] = Absent
      BY <2>1, <3>2 DEF Partial, Update, Nothing
    <3>3. ASSUME NEW i \in Ids \ ids[c], ~partial, feature = "Setpoint",
                 cache.version = remote.version
          PROVE  payload'[c][i] = remote.list[i]
      BY <2>1, <3>3 DEF Merged, Update, ListInv, Copies, CopyOf
    <3> QED  BY <1>1, <2>1, <3>1, <3>2, <3>3 DEF RestKept, Current
  <2> QED  BY <2>4, <2>5
<1> QED  BY <1>2, <1>3, <1>4 DEF ListInv, Payloads

\* Sending and registering the callback leave all lists as they are.
LEMMA ListSend ==
  ASSUME ListInv, ResultInv', NEW c \in Calls, Send(c) \/ Register(c)
  PROVE  ListInv'
<1>1. /\ UNCHANGED <<feature, partial, remote, cache, ids, payload, basis, inbox, answered>>
      /\ \A d \in Calls : pc'[d] \in Begun => pc[d] \in Begun
  BY DEF Send, Register, setting, history, ListInv, ResultInv, TypeOK, Begun
<1>2. Copies'
  BY <1>1 DEF ListInv, Copies, CopyOf, Consented, Accepted
<1>3. ASSUME NEW d \in Calls, pc'[d] \in Begun PROVE OwnValues(d)' /\ RestKept(d)'
  <2>1. OwnValues(d) /\ RestKept(d)
    BY <1>1, <1>3 DEF ListInv, Payloads
  <2> QED  BY <1>1, <2>1 DEF OwnValues, RestKept, Current, Accepted
<1> QED  BY <1>2, <1>3 DEF ListInv, Payloads

\* A new list of the device, with a version of its own, puts all copies out of
\* date.
LEMMA ListRenewed ==
  ASSUME ListInv, ResultInv',
         UNCHANGED <<feature, partial, cache, ids, pc, payload, basis>>,
         remote' \in Data, remote'.version = remote.version + 1, Consented(remote.list)',
         \A d \in Calls : Accepted(d) => Accepted(d)',
         \A k \in 1 .. Len(inbox') :
           \/ k \in 1 .. Len(inbox) /\ inbox'[k] = inbox[k]
           \/ inbox'[k].kind = "result"
           \/ inbox'[k].data = remote'
  PROVE  ListInv'
<1>0. remote.version \in Nat /\ cache.version \in Nat /\ \A c \in Calls : basis[c] \in Nat
  BY DEF ListInv, ResultInv, TypeOK, Data
<1>1. ASSUME NEW data \in Data, CopyOf(data) PROVE CopyOf(data)'
  <2>1. data.version \in Nat
    BY DEF Data
  <2> QED  BY <1>0, <1>1, <2>1 DEF CopyOf, Consented
<1>2. CopyOf(remote)'
  BY <1>0 DEF CopyOf, Data
<1>3. Copies'
  <2>1. CopyOf(cache)'
    BY <1>1 DEF ListInv, Copies, ResultInv, TypeOK
  <2>2. ASSUME NEW k \in 1 .. Len(inbox'), inbox'[k].kind = "list"
        PROVE  CopyOf(inbox[k].data)'
    <3>1. CASE k \in 1 .. Len(inbox) /\ inbox'[k] = inbox[k]
      <4>1. inbox[k] \in Responses
        BY <3>1, ElementOfSeq DEF ListInv, ResultInv, TypeOK
      <4>2. inbox[k].data \in Data /\ CopyOf(inbox[k].data)
        BY <2>2, <3>1, <4>1, ResponseTypes DEF ListInv, Copies
      <4> QED  BY <1>0, <3>1, <4>2 DEF CopyOf, Consented, Data
    <3>2. CASE inbox'[k].data = remote'
      BY <1>2, <3>2 DEF CopyOf, Consented
    <3> QED  BY <2>2, <3>1, <3>2
  <2> QED  BY <2>1, <2>2 DEF Copies
<1>4. ASSUME NEW d \in Calls, pc'[d] \in Begun PROVE OwnValues(d)' /\ RestKept(d)'
  <2>1. OwnValues(d) /\ RestKept(d)
    BY <1>4 DEF ListInv, Payloads
  <2>2. OwnValues(d)'
    BY <2>1 DEF OwnValues
  <2>3. RestKept(d)'
    BY <1>0, <2>1 DEF RestKept, Current
  <2> QED  BY <2>2, <2>3
<1> QED  BY <1>3, <1>4 DEF ListInv, Payloads

\* Steps that change no list of the device nor what it has answered, except
\* with a rejection.
LEMMA ListKept ==
  ASSUME ListInv, ResultInv',
         UNCHANGED <<feature, partial, remote, ids, pc, payload, basis>>,
         \A d \in Calls : Accepted(d) => Accepted(d)',
         CopyOf(cache'),
         \A k \in 1 .. Len(inbox') : inbox'[k].kind = "list" => CopyOf(inbox'[k].data)
  PROVE  ListInv'
<1>1. Copies'
  BY DEF ListInv, Copies, CopyOf, Consented
<1>2. ASSUME NEW d \in Calls, pc'[d] \in Begun PROVE OwnValues(d)' /\ RestKept(d)'
  <2>1. OwnValues(d) /\ RestKept(d)
    BY <1>2 DEF ListInv, Payloads
  <2> QED  BY <2>1 DEF OwnValues, RestKept, Current
<1> QED  BY <1>1, <1>2 DEF ListInv, Payloads

\* The write at the head of the queue, and what the device does with it.
LEMMA HeadWrite ==
  ASSUME ListInv, Answer, Head(outbox).kind = "write"
  PROVE  \E c \in Calls, result \in Results :
           /\ pc[c] \in OnTheWay /\ answered[c] = "none"
           /\ answered' = [answered EXCEPT ![c] = result]
           /\ remote' = IF result = "rejected" THEN remote ELSE Changed(Written(payload[c]))
           /\ remote' \in Data
           /\ \A k \in 1 .. Len(inbox') :
                \/ k \in 1 .. Len(inbox) /\ inbox'[k] = inbox[k]
                \/ inbox'[k].kind = "result"
                \/ inbox'[k] = ListOf(remote')
<1>1. outbox \in Seq(Requests) /\ outbox # <<>> /\ TypeOK
  BY DEF Answer, ListInv, ResultInv, TypeOK
<1>2. PICK m \in Requests : m = Head(outbox) /\ m = outbox[1] /\ 1 \in 1 .. Len(outbox)
  BY <1>1, Taken
<1>3. m.kind = "write" /\ AnswerWrite(m)
  BY <1>2 DEF Answer
<1>4. PICK c \in Calls : c = m.call
  BY <1>3, RequestTypes
<1>5. pc[c] \in OnTheWay /\ answered[c] = "none" /\ m.list = payload[c]
  BY <1>2, <1>3, <1>4 DEF ListInv, ResultInv, WritesOnTheWay
<1>6. PICK result \in Results :
        /\ remote' = IF result = "rejected" THEN remote ELSE Changed(Written(m.list))
        /\ remote' \in Data
        /\ answered' = [answered EXCEPT ![m.call] = result]
        /\ \A k \in 1 .. Len(inbox') :
             \/ k \in 1 .. Len(inbox) /\ inbox'[k] = inbox[k]
             \/ inbox'[k] = [kind |-> "result", call |-> m.call, result |-> result]
             \/ inbox'[k] = ListOf(remote')
  BY <1>1, <1>3, AnswerEffect
<1>7. \A k \in 1 .. Len(inbox') :
        \/ k \in 1 .. Len(inbox) /\ inbox'[k] = inbox[k]
        \/ inbox'[k].kind = "result"
        \/ inbox'[k] = ListOf(remote')
  BY <1>6
<1>8. answered' = [answered EXCEPT ![c] = result]
  BY <1>4, <1>6
<1>9. remote' = IF result = "rejected" THEN remote ELSE Changed(Written(payload[c]))
  BY <1>5, <1>6
<1> QED  BY <1>5, <1>6, <1>7, <1>8, <1>9

\* A list sent as an answer is a copy of the device's.
LEMMA ListAnswer ==
  ASSUME ListInv, ResultInv', Answer
  PROVE  ListInv'
<1>1. UNCHANGED <<feature, partial, cache, ids, pc, payload, basis>>
  BY DEF Answer, setting, callVars
<1>2. CASE Head(outbox).kind = "write"
  <2>1. PICK c \in Calls, result \in Results :
           /\ pc[c] \in OnTheWay /\ answered[c] = "none"
           /\ answered' = [answered EXCEPT ![c] = result]
           /\ remote' = IF result = "rejected" THEN remote ELSE Changed(Written(payload[c]))
           /\ remote' \in Data
           /\ \A k \in 1 .. Len(inbox') :
                \/ k \in 1 .. Len(inbox) /\ inbox'[k] = inbox[k]
                \/ inbox'[k].kind = "result"
                \/ inbox'[k] = ListOf(remote')
    BY <1>2, HeadWrite
  <2>2. /\ answered'[c] = result
        /\ \A d \in Calls : Accepted(d) => Accepted(d)'
    BY <2>1 DEF Accepted, ListInv, ResultInv, TypeOK
  <2>3. CASE result = "rejected"
    <3>1. remote' = remote /\ CopyOf(remote)
      BY <2>1, <2>3 DEF ListInv, Copies, CopyOf, ResultInv, TypeOK, Data
    <3>2. \A k \in 1 .. Len(inbox') : inbox'[k].kind = "list" => CopyOf(inbox'[k].data)
      BY <2>1, <3>1 DEF ListInv, Copies, ListOf
    <3>3. CopyOf(cache')
      BY <1>1 DEF ListInv, Copies
    <3> QED  BY <1>1, <2>2, <3>1, <3>2, <3>3, ListKept
  <2>4. CASE result # "rejected"
    <3>1. remote'.version = remote.version + 1 /\ remote'.list = Written(payload[c])
      BY <2>1, <2>4 DEF Changed
    <3>2. OwnValues(c) /\ Accepted(c)'
      BY <2>1, <2>2, <2>4 DEF ListInv, Payloads, OnTheWay, Begun, Accepted, Results
    <3>3. \A i \in Ids : remote'.list[i] \in {payload[c][i], remote.list[i]}
      BY <3>1 DEF Written
    <3>4. Consented(remote.list)'
      <4>1. SUFFICES ASSUME NEW i \in Ids, remote'.list[i] \in Calls
                     PROVE  i \in ids'[remote'.list[i]] /\ Accepted(remote.list[i])'
        BY DEF Consented
      <4>2. CASE remote'.list[i] = payload[c][i]
        BY <1>1, <2>2, <3>2, <4>1, <4>2 DEF OwnValues
      <4>3. CASE remote'.list[i] = remote.list[i]
        BY <1>1, <2>2, <4>1, <4>3 DEF ListInv, Copies, Consented
      <4> QED  BY <3>3, <4>2, <4>3
    <3>5. \A k \in 1 .. Len(inbox') :
            \/ k \in 1 .. Len(inbox) /\ inbox'[k] = inbox[k]
            \/ inbox'[k].kind = "result"
            \/ inbox'[k].data = remote'
      BY <2>1 DEF ListOf
    <3> QED  BY <1>1, <2>1, <2>2, <3>1, <3>4, <3>5, ListRenewed
  <2> QED  BY <2>3, <2>4
<1>3. CASE AnswerRead(Head(outbox))
  <2>1. UNCHANGED <<remote, answered>> /\ inbox' = Append(inbox, ListOf(remote))
    BY <1>3 DEF AnswerRead, history
  <2>2. CopyOf(remote) /\ ListOf(remote) \in Responses
    BY DEF ListInv, Copies, CopyOf, ResultInv, TypeOK, Data, ListOf, Responses
  <2>3. \A k \in 1 .. Len(inbox') :
           (k \in 1 .. Len(inbox) /\ inbox'[k] = inbox[k]) \/ inbox'[k] = ListOf(remote)
    <3>1. inbox \in Seq(Responses)
      BY DEF ListInv, ResultInv, TypeOK
    <3> QED  BY <2>1, <2>2, <3>1, Appended
  <2>4. \A k \in 1 .. Len(inbox') : inbox'[k].kind = "list" => CopyOf(inbox'[k].data)
    BY <2>2, <2>3 DEF ListInv, Copies, ListOf
  <2>5. CopyOf(cache') /\ \A d \in Calls : Accepted(d) => Accepted(d)'
    BY <1>1, <2>1 DEF ListInv, Copies, Accepted
  <2> QED  BY <1>1, <2>1, <2>4, <2>5, ListKept
<1> QED  BY <1>2, <1>3 DEF Answer

\* The device may change an entry at any time: earlier lists are then older copies.
LEMMA ListChange ==
  ASSUME ListInv, ResultInv', NEW i \in Ids, Change(i)
  PROVE  ListInv'
<1>1. UNCHANGED <<feature, partial, cache, ids, pc, payload, basis, answered>>
  BY DEF Change, setting, callVars, history
<1>2. /\ remote' = Changed([remote.list EXCEPT ![i] = Device]) /\ remote' \in Data
      /\ \A k \in 1 .. Len(inbox') :
           \/ k \in 1 .. Len(inbox) /\ inbox'[k] = inbox[k]
           \/ inbox'[k] = ListOf(remote')
  BY ChangeEffect DEF ListInv, ResultInv
<1>3. /\ remote'.version = remote.version + 1
      /\ \A j \in Ids : remote'.list[j] \in {remote.list[j], Device}
  BY <1>2 DEF Changed, ListInv, ResultInv, TypeOK, Data, Lists
<1>4. Consented(remote.list)'
  BY <1>1, <1>3, CallsAssumption DEF ListInv, Copies, Consented, Accepted
<1>5. \A k \in 1 .. Len(inbox') :
        \/ k \in 1 .. Len(inbox) /\ inbox'[k] = inbox[k]
        \/ inbox'[k].data = remote'
  BY <1>2 DEF ListOf
<1>6. \A d \in Calls : Accepted(d) => Accepted(d)'
  BY <1>1 DEF Accepted
<1> QED  BY <1>1, <1>2, <1>3, <1>4, <1>5, <1>6, ListRenewed

\* A list processed becomes the copy; a result is told to the caller.
LEMMA ListProcess ==
  ASSUME ListInv, ResultInv', Process
  PROVE  ListInv'
<1>1. /\ inbox # <<>> /\ inbox' = Tail(inbox) /\ inbox \in Seq(Responses)
      /\ UNCHANGED <<feature, partial, remote, ids, pc, payload, basis, answered>>
  BY DEF Process, setting, callVars, history, ListInv, ResultInv, TypeOK
<1>2. /\ Head(inbox) = inbox[1] /\ 1 \in 1 .. Len(inbox)
      /\ \A k \in 1 .. Len(inbox') : k + 1 \in 1 .. Len(inbox) /\ inbox'[k] = inbox[k + 1]
  BY <1>1, Taken
<1>3. \A k \in 1 .. Len(inbox') : inbox'[k].kind = "list" => CopyOf(inbox'[k].data)
  BY <1>2 DEF ListInv, Copies
<1>4. CopyOf(cache')
  <2>1. CASE inbox[1].kind = "list" /\ cache' = inbox[1].data
    BY <1>2, <2>1 DEF ListInv, Copies
  <2>2. CASE cache' = cache
    BY <2>2 DEF ListInv, Copies
  <2> QED  BY <1>2, <2>1, <2>2 DEF Process, ProcessList, ProcessResult
<1>5. \A d \in Calls : Accepted(d) => Accepted(d)'
  BY <1>1 DEF Accepted
<1> QED  BY <1>1, <1>3, <1>4, <1>5, ListKept

\* Every step keeps the copies and payloads.
LEMMA ListStep == ListInv /\ [Next]_vars => ListInv'
<1> SUFFICES ASSUME ListInv, [Next]_vars PROVE ListInv'
  OBVIOUS
<1>1. ResultInv'
  BY ResultStep DEF ListInv
<1>2. ASSUME NEW c \in Calls, Begin(c) PROVE ListInv'
  <2>1. PICK S \in SUBSET Ids : Check(c, S)
    BY <1>2 DEF Begin, WriteLoadControlLimit, WriteLoadControlPhaseLimits, WriteSetpoint
  <2> QED  BY <1>1, <2>1, ListCheck
<1>3. ASSUME UNCHANGED vars PROVE ListInv'
  <2>1. /\ CopyOf(cache') /\ \A d \in Calls : Accepted(d) => Accepted(d)'
        /\ \A k \in 1 .. Len(inbox') : inbox'[k].kind = "list" => CopyOf(inbox'[k].data)
    BY <1>3 DEF vars, history, ListInv, Copies, Accepted
  <2> QED  BY <1>1, <1>3, <2>1, ListKept DEF vars, setting, callVars
<1> QED
  BY <1>1, <1>2, <1>3, ListPrepare, ListSend, ListAnswer, ListChange, ListProcess
     DEF Next, Idle

\* The device never holds a value anywhere but in an entry its call was for,
\* and never one it rejected.
THEOREM HeldWasAccepted == Spec => []OnlyAccepted
<1>1. ListInv => OnlyAccepted
  BY DEF ListInv, Copies, Consented, OnlyAccepted
<1> QED  BY <1>1, ListInit, ListStep, PTL DEF Spec

\* A write that is partial, and the write of a setpoint that was merged from the
\* device's list as it is when the write arrives, touch no entry but their own.
THEOREM OthersUntouched == Spec => TouchesOwnEntries
<1> DEFINE Touches ==
      \A c \in Calls : \A i \in Ids \ ids[c] :
        answered[c] # answered'[c] /\ (partial \/ Current(c))
          => remote'.list[i] = remote.list[i]
<1>1. ASSUME ListInv, [Next]_vars PROVE [Touches]_vars
  <2>1. SUFFICES ASSUME NEW c \in Calls, NEW i \in Ids \ ids[c],
                        answered[c] # answered'[c], partial \/ Current(c)
                 PROVE  remote'.list[i] = remote.list[i]
    OBVIOUS
  <2>2. Answer
    BY <1>1, <2>1 DEF Next, Idle, vars, history, Begin, WriteLoadControlLimit,
         WriteLoadControlPhaseLimits, WriteSetpoint, Check, Prepare, Send, Register,
         Change, Process
  <2>3. Head(outbox).kind = "write"
    BY <2>1, <2>2 DEF Answer, AnswerRead, history
  <2>4. PICK d \in Calls, result \in Results :
           /\ pc[d] \in OnTheWay
           /\ answered' = [answered EXCEPT ![d] = result]
           /\ remote' = IF result = "rejected" THEN remote ELSE Changed(Written(payload[d]))
    BY <1>1, <2>2, <2>3, HeadWrite
  <2>5. d = c
    BY <1>1, <2>1, <2>4 DEF ListInv, ResultInv, TypeOK
  <2>6. RestKept(c)
    BY <1>1, <2>4, <2>5 DEF ListInv, Payloads, OnTheWay, Begun
  <2>7. CASE result = "rejected"
    BY <2>4, <2>7
  <2>8. CASE result # "rejected"
    <3>1. remote'.list = Written(payload[c])
      BY <2>4, <2>5, <2>8 DEF Changed
    <3>2. partial => payload[c][i] = Absent
      BY <2>6 DEF RestKept
    <3>3. ~partial => payload[c][i] = remote.list[i]
      BY <2>1, <2>6 DEF RestKept
    <3> QED  BY <3>1, <3>2, <3>3 DEF Written
  <2> QED  BY <2>7, <2>8
<1> QED  BY <1>1, ListInit, ListStep, PTL DEF Spec, TouchesOwnEntries
=============================================================================
