------------------------------ MODULE ListWrite ------------------------------
(***************************************************************************)
(* Writes of entries of a list a remote device keeps: load control limits  *)
(* (EG LPC and LPP, CEM OPEV and OSCEV, usecases/internal/loadcontrol.go)  *)
(* and setpoints (usecases/ca/crht), with the client features under them.  *)
(*                                                                         *)
(* The application calls a use case from any goroutine. The call reads the *)
(* stack's copy of the list, prepares the message, sends it and then       *)
(* registers a callback for the result. A device that supports partial     *)
(* writes gets the entries of the call. To any other the whole list is     *)
(* sent, merged from the copy. Results and new lists come back in order,   *)
(* and meet whatever step the calls are at.                                *)
(*                                                                         *)
(* The value a call writes is the call, and so is its msgCounter: both     *)
(* tell the calls apart and nothing else of them matters.                  *)
(***************************************************************************)
EXTENDS Naturals, Sequences

CONSTANTS
  Ids,        \* the ids of entries
  Calls,      \* calls of the application
  Features,   \* the features to consider, of LoadControl and Setpoint
  Fixed,      \* entries whose isChangeable flag is false
  MaxChanges  \* bound: the version after which the device makes no change by itself

Absent   == "absent"
Original == "original"
Device   == "device"

ASSUME CallsAssumption   == Calls \cap {Absent, Original, Device} = {}
ASSUME FeatureAssumption == Features \subseteq {"LoadControl", "Setpoint"}
ASSUME FixedAssumption   == Fixed \subseteq Ids
ASSUME ChangesAssumption == MaxChanges \in Nat

Entries == Calls \cup {Absent, Original, Device}
Lists   == [Ids -> Entries]
Data    == [list : Lists, version : Nat]

\* A result carries error number 0, no error number, or another one.
Results == {"accepted", "acceptedBare", "rejected"}

Requests  == [kind : {"write"}, call : Calls, list : Lists] \cup [kind : {"read"}]
Responses == [kind : {"list"}, data : Data]
               \cup [kind : {"result"}, call : Calls, result : Results]

VARIABLES
  feature,    \* the feature that has the list
  partial,    \* does the device support partial writes of the list
  notifies,   \* does the device send the list when it has changed
  remote,     \* the list of the device, and how often it was changed
  cache,      \* the stack's copy, as of one of these versions
  pc,         \* the next step of each call
  ids,        \* the entries a call writes
  payload,    \* the list it sends
  basis,      \* history: the version of the copy the list was merged from
  outbox,     \* messages on the way to the device
  inbox,      \* messages on the way back
  callbacks,  \* calls with a response callback registered
  answered,   \* the device's result for each call
  stored,     \* history: the version that stored the call's value
  processed,  \* calls whose result the stack has processed
  told        \* the result passed to the caller

setting  == <<feature, partial, notifies>>
callVars == <<pc, ids, payload, basis>>
history  == <<answered, stored>>
vars == <<setting, remote, cache, callVars, outbox, inbox, callbacks, history,
          processed, told>>

Steps == {"idle", "checked", "prepared", "sent", "returned", "failed"}

TypeOK ==
  /\ feature \in Features /\ partial \in BOOLEAN /\ notifies \in BOOLEAN
  /\ remote \in Data /\ cache \in Data
  /\ pc \in [Calls -> Steps]
  /\ ids \in [Calls -> SUBSET Ids]
  /\ payload \in [Calls -> Lists]
  /\ basis \in [Calls -> Nat]
  /\ outbox \in Seq(Requests) /\ inbox \in Seq(Responses)
  /\ callbacks \subseteq Calls
  /\ answered \in [Calls -> Results \cup {"none"}]
  /\ stored \in [Calls -> Nat]
  /\ processed \subseteq Calls
  /\ told \in [Calls -> Results \cup {"none"}]

Nothing == [i \in Ids |-> Absent]

\* The list was read when the device was connected.
Init ==
  /\ feature \in Features /\ partial \in BOOLEAN /\ notifies \in BOOLEAN
  /\ remote \in [list : [Ids -> {Absent, Original}], version : {0}]
  /\ cache = remote
  /\ pc      = [c \in Calls |-> "idle"]
  /\ ids     = [c \in Calls |-> {}]
  /\ payload = [c \in Calls |-> Nothing]
  /\ basis   = [c \in Calls |-> 0]
  /\ outbox = <<>> /\ inbox = <<>>
  /\ callbacks = {} /\ processed = {}
  /\ answered = [c \in Calls |-> "none"]
  /\ stored   = [c \in Calls |-> 0]
  /\ told     = [c \in Calls |-> "none"]

-----------------------------------------------------------------------------
(* A call: check, prepare, send, register.                                 *)

Known == {i \in Ids : cache.list[i] # Absent}

\* The call goes on with the given entries or returns an error.
Check(c, S) ==
  /\ pc[c] = "idle"
  /\ pc'  = [pc EXCEPT ![c] = IF S = {} THEN "failed" ELSE "checked"]
  /\ ids' = [ids EXCEPT ![c] = S]
  /\ UNCHANGED <<setting, remote, cache, payload, basis, outbox, inbox,
                 callbacks, processed, told>>
  /\ UNCHANGED history

\* One limit, known and changeable.
WriteLoadControlLimit(c, i) == Check(c, {i} \cap (Known \ Fixed))

\* Those of the limits of the phases that are known and changeable.
WriteLoadControlPhaseLimits(c, S) == Check(c, S \cap (Known \ Fixed))

\* A setpoint, unless the copy has it and says it is fixed.
WriteSetpoint(c, i) == Check(c, {i} \ (Known \cap Fixed))

Begin(c) ==
  \/ feature = "LoadControl" /\ \E i \in Ids : WriteLoadControlLimit(c, i)
  \/ feature = "LoadControl" /\ \E S \in SUBSET Ids : WriteLoadControlPhaseLimits(c, S)
  \/ feature = "Setpoint" /\ \E i \in Ids : WriteSetpoint(c, i)

\* Mutant of Update: the rest of the list is left out.
UpdateOnly(c, list) == [i \in ids[c] |-> c]

\* What the call asks for, put into a list.
Update(c, list) == [i \in Ids |-> IF i \in ids[c] THEN c ELSE list[i]]

Partial(c) == Update(c, Nothing)
Merged(c)  == Update(c, cache.list)

\* Mutant of KeepCopy: the merge keeps the update before it is accepted.
KeepMerged(c) == cache' = [cache EXCEPT !.list = Merged(c)]

\* The stack merges the update into a copy of its copy.
KeepCopy(c) == UNCHANGED cache

\* Without partial support the list is merged from the copy. If that fails,
\* what the call asks for is sent as if it were the whole list.
WriteLimitData(c) ==
  /\ pc' = [pc EXCEPT ![c] = "prepared"]
  /\ \/ payload' = [payload EXCEPT ![c] = Partial(c)] /\ UNCHANGED cache
     \/ ~partial /\ payload' = [payload EXCEPT ![c] = Merged(c)] /\ KeepCopy(c)

\* Mutant of PrepareListWrite: a failed merge does not abort the write.
PrepareAnyway(c) == WriteLimitData(c)

\* The same for setpoints, but a failed merge aborts the write.
PrepareListWrite(c) ==
  \/ /\ partial
     /\ pc' = [pc EXCEPT ![c] = "prepared"]
     /\ payload' = [payload EXCEPT ![c] = Partial(c)]
     /\ UNCHANGED cache
  \/ /\ ~partial
     /\ pc' = [pc EXCEPT ![c] = "prepared"]
     /\ payload' = [payload EXCEPT ![c] = Merged(c)]
     /\ KeepCopy(c)
  \/ /\ ~partial
     /\ pc' = [pc EXCEPT ![c] = "failed"]
     /\ UNCHANGED <<payload, cache>>

Prepare(c) ==
  /\ pc[c] = "checked"
  /\ basis' = [basis EXCEPT ![c] = cache.version]
  /\ \/ feature = "LoadControl" /\ WriteLimitData(c)
     \/ feature = "Setpoint" /\ PrepareListWrite(c)
  /\ UNCHANGED <<setting, remote, ids, outbox, inbox, callbacks, processed, told>>
  /\ UNCHANGED history

\* The sender gives the message its msgCounter and hands it to the connection.
Send(c) ==
  /\ pc[c] = "prepared"
  /\ pc' = [pc EXCEPT ![c] = "sent"]
  /\ outbox' = Append(outbox, [kind |-> "write", call |-> c, list |-> payload[c]])
  /\ UNCHANGED <<setting, remote, cache, ids, payload, basis, inbox, callbacks,
                 processed, told>>
  /\ UNCHANGED history

\* The callback is registered under the msgCounter the sender returned.
Register(c) ==
  /\ pc[c] = "sent"
  /\ pc' = [pc EXCEPT ![c] = "returned"]
  /\ callbacks' = callbacks \cup {c}
  /\ UNCHANGED <<setting, remote, cache, ids, payload, basis, outbox, inbox,
                 processed, told>>
  /\ UNCHANGED history

-----------------------------------------------------------------------------
(* The device.                                                             *)

ListOf(data) == [kind |-> "list", data |-> data]

\* Messages of a changed list, if the device sends them.
Notice(data) == IF notifies THEN <<ListOf(data)>> ELSE <<>>

Changed(list) == [list |-> list, version |-> remote.version + 1]

\* Entries of a partial write replace those of the list, any other write
\* replaces the list.
Written(list) ==
  IF partial THEN [i \in Ids |-> IF list[i] = Absent THEN remote.list[i] ELSE list[i]]
             ELSE list

\* A notice may go before or after the result of the write.
AnswerWrite(m) ==
  \E result \in Results :
    LET reply == <<[kind |-> "result", call |-> m.call, result |-> result]>>
        data  == IF result = "rejected" THEN remote ELSE Changed(Written(m.list))
        news  == IF result = "rejected" THEN <<>> ELSE Notice(data)
    IN  /\ remote' = data
        /\ \E both \in {reply \o news, news \o reply} : inbox' = inbox \o both
        /\ answered' = [answered EXCEPT ![m.call] = result]
        /\ stored' = [stored EXCEPT ![m.call] = data.version]

AnswerRead(m) ==
  /\ inbox' = Append(inbox, ListOf(remote))
  /\ UNCHANGED remote /\ UNCHANGED history

Answer ==
  /\ outbox # <<>>
  /\ outbox' = Tail(outbox)
  /\ \/ Head(outbox).kind = "write" /\ AnswerWrite(Head(outbox))
     \/ Head(outbox).kind = "read" /\ AnswerRead(Head(outbox))
  /\ UNCHANGED <<setting, cache, callbacks, processed, told>>
  /\ UNCHANGED callVars

\* The device sets an entry, a new one possibly.
Change(i) ==
  /\ remote.version < MaxChanges
  /\ \E data \in {Changed([remote.list EXCEPT ![i] = Device])} :
       remote' = data /\ inbox' = inbox \o Notice(data)
  /\ UNCHANGED <<setting, cache, outbox, callbacks, processed, told>>
  /\ UNCHANGED callVars /\ UNCHANGED history

-----------------------------------------------------------------------------
(* The stack processes what comes back.                                    *)

ProcessList(m) ==
  /\ cache' = m.data
  /\ UNCHANGED <<outbox, callbacks, processed, told>>

\* Mutant of Refresh: a result without an error number is taken for an error.
RefreshIfNumbered(m) ==
  outbox' = IF feature = "Setpoint" /\ m.result = "accepted"
            THEN Append(outbox, [kind |-> "read"]) ELSE outbox

\* After an accepted write of a setpoint the list is read again.
Refresh(m) ==
  outbox' = IF feature = "Setpoint" /\ m.result # "rejected"
            THEN Append(outbox, [kind |-> "read"]) ELSE outbox

\* Mutant of Tell: every caller is told, as with AddResultCallback.
TellAll(m) == told' = [c \in Calls |-> IF c \in callbacks THEN m.result ELSE told[c]]

Tell(m) == told' = [told EXCEPT ![m.call] = m.result]

\* A result finds the callback of its msgCounter, or nobody hears of it.
ProcessResult(m) ==
  /\ processed' = processed \cup {m.call}
  /\ callbacks' = callbacks \ {m.call}
  /\ IF m.call \in callbacks THEN Refresh(m) /\ Tell(m) ELSE UNCHANGED <<outbox, told>>
  /\ UNCHANGED cache

Process ==
  /\ inbox # <<>>
  /\ inbox' = Tail(inbox)
  /\ \/ Head(inbox).kind = "list" /\ ProcessList(Head(inbox))
     \/ Head(inbox).kind = "result" /\ ProcessResult(Head(inbox))
  /\ UNCHANGED <<setting, remote>>
  /\ UNCHANGED callVars /\ UNCHANGED history

-----------------------------------------------------------------------------
\* The application need not call.
Idle == outbox = <<>> /\ inbox = <<>> /\ UNCHANGED vars

Next ==
  \/ \E c \in Calls : Begin(c) \/ Prepare(c) \/ Send(c) \/ Register(c)
  \/ Answer
  \/ \E i \in Ids : Change(i)
  \/ Process
  \/ Idle

Spec == Init /\ [][Next]_vars

\* The connection delivers, and the device answers. Calls owe nothing.
FairSpec == Spec /\ WF_vars(Answer) /\ WF_vars(Process)

-----------------------------------------------------------------------------
(* Properties.                                                             *)

Accepted(c) == answered[c] \in {"accepted", "acceptedBare"}

\* The device never holds a value anywhere but in an entry its call was for,
\* and never one it rejected: not even when another call sends the whole list
\* merged from the stack's copy.
OnlyAccepted ==
  \A i \in Ids : remote.list[i] \in Calls =>
    i \in ids[remote.list[i]] /\ Accepted(remote.list[i])

Current(c) == feature = "Setpoint" /\ basis[c] = remote.version

\* A write that is partial touches no entry but its own, nor does the write of
\* a setpoint that was merged from the list as it is when the write arrives.
TouchesOwnEntries ==
  [][\A c \in Calls : \A i \in Ids \ ids[c] :
       answered[c] # answered'[c] /\ (partial \/ Current(c))
         => remote'.list[i] = remote.list[i]]_vars

\* A caller hears the device's answer to its own write, and no other.
OwnResult == \A c \in Calls : told[c] \in {"none", answered[c]}

Seen(c) == cache.version >= stored[c]

\* When a caller was told its write was accepted, readers come to see a list
\* that has it, or a later one: by a notice of the device or, for setpoints,
\* without one.
ToldAccepted(c) == told[c] \in {"accepted", "acceptedBare"}

AcceptedIsSeen ==
  \A c \in Calls : ToldAccepted(c) /\ (notifies \/ feature = "Setpoint") ~> Seen(c)

-----------------------------------------------------------------------------
(* What the code does not keep.                                            *)

\* "callback function for handling the result response" (the comments above
\* WriteLoadControlLimit and WriteLoadControlPhaseLimits): a result that came
\* was handed to it, once the call has returned.
EveryResultTold ==
  \A c \in Calls : pc[c] = "returned" /\ c \in processed => told[c] # "none"
=============================================================================
