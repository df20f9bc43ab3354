------------------------------ MODULE Heartbeat ------------------------------
(***************************************************************************)
(* How LPC and LPP of a controllable system supervise the heartbeat of the *)
(* energy guard (usecases/cs/lpc and lpp, events.go). A use case watches   *)
(* one device diagnosis server: the only one of a device that connects     *)
(* or, of a device with several (the KEO workaround), the one whose entity *)
(* binds to the limits. It subscribes to it and asks for its heartbeat     *)
(* once, and the application asks whether the last one is young enough.    *)
(*                                                                         *)
(* The stack publishes an event to both use cases, which handle it in      *)
(* goroutines of their own. They share the local client feature and its    *)
(* subscriptions, which the stack clears when the device disconnects. Time *)
(* passes in ticks; the clocks of the devices agree.                       *)
(***************************************************************************)
EXTENDS Integers, Sequences, FiniteSets, SequencesExt

CONSTANTS
  Sessions,     \* connections of remote devices, each used at most once
  Entities,     \* the entities of a type the use cases are for
  Configs,      \* the device of each session, and which entities have the server
  Duration,     \* the age the application accepts (two minutes)
  Period,       \* a device in time sends a heartbeat within a period
  Delay,        \* and it is received within a delay
  InOrder,      \* are the handlers of a use case run one after the other, as published
  MaxBindings,  \* bound: bindings in a behaviour
  MaxMessages   \* bound: messages of a connection on their way

ASSUME ConfigAssumption ==
  \A c \in Configs : DOMAIN c.device = Sessions /\ c.candidates \in [Sessions -> SUBSET Entities]
ASSUME EntityAssumption == IsFiniteSet(Entities)
ASSUME TimeAssumption   == {Duration, Period, Delay, MaxBindings, MaxMessages} \subseteq Nat
ASSUME OrderAssumption  == InOrder \in BOOLEAN

UseCases == {"LPC", "LPP"}

VARIABLES
  config,                  \* one of them
  history,                 \* sessions in the order they connected or bound
  live,                    \* those connected now
  bound,                   \* entities that have bound to the limits, by session
  handlers,                \* running HandleEvent calls of each use case, oldest first
  heartbeatDiag,           \* session and entity a use case watches, or none
  heartbeatKeoWorkaround,  \* was there a device with several servers
  subscribed,              \* subscriptions of the local feature: device and entity
  asked,                   \* heartbeats asked for and not answered
  wire,                    \* heartbeats on their way: entities and age
  received,                \* age of the last heartbeat in the copy, by session and entity
  made                     \* age of the last heartbeat a device has made

device == <<history, live, bound>>
local  == <<heartbeatDiag, heartbeatKeoWorkaround>>
vars   == <<config, history, live, bound, handlers, heartbeatDiag,
            heartbeatKeoWorkaround, subscribed, asked, wire, received, made>>

\* Ages above the one accepted are alike.
Old == Duration + 1
Older(age) == IF age = Old THEN Old ELSE age + 1

DeviceOf(s)   == config.device[s]
Candidates(s) == config.candidates[s]

Feature(s, e) == <<s, e>>

Init ==
  /\ config \in Configs
  /\ history = <<>> /\ live = {}
  /\ bound = [s \in Sessions |-> {}]
  /\ handlers = [u \in UseCases |-> <<>>]
  /\ heartbeatDiag = [u \in UseCases |-> {}]
  /\ heartbeatKeoWorkaround = [u \in UseCases |-> FALSE]
  /\ subscribed = {} /\ asked = {}
  /\ wire = [s \in Sessions |-> <<>>]
  /\ received = [s \in Sessions |-> [e \in Entities |-> Old]]
  /\ made = [s \in Sessions |-> Old]

-----------------------------------------------------------------------------
(* Remote devices.                                                         *)

\* An event for both use cases; the entity is the one that binds.
Publish(s, entity) ==
  handlers' = [u \in UseCases |->
                Append(handlers[u], [session |-> s, entity |-> entity, phase |-> "begin"])]

Connect(s) ==
  /\ s \notin ToSet(history)
  /\ \A t \in live : DeviceOf(t) # DeviceOf(s)
  /\ history' = Append(history, s) /\ live' = live \cup {s}
  /\ made' = [made EXCEPT ![s] = 0]
  /\ Publish(s, {})
  /\ UNCHANGED <<config, bound, local, subscribed, asked, wire, received>>

\* A binding to the server feature of the limits.
Bind(s, e) ==
  /\ s \in live /\ e \notin bound[s]
  /\ Cardinality({x \in Sessions \X Entities : x[2] \in bound[x[1]]}) < MaxBindings
  /\ bound' = [bound EXCEPT ![s] = @ \cup {e}]
  /\ history' = Append(history, s)
  /\ Publish(s, {e})
  /\ UNCHANGED <<config, live, local, subscribed, asked, wire, received, made>>

\* The stack drops the subscriptions to the device; its features stay as they are.
Disconnect(s) ==
  /\ s \in live
  /\ live' = live \ {s}
  /\ subscribed' = {x \in subscribed : x[1] # DeviceOf(s)}
  /\ asked' = {x \in asked : x[1] # s}
  /\ wire' = [wire EXCEPT ![s] = <<>>]
  /\ UNCHANGED <<config, history, bound, handlers, local, received, made>>

Send(s, es, age) == wire' = [wire EXCEPT ![s] = Append(@, [entities |-> es, age |-> age])]

\* A heartbeat is made, and the local device notified of it if it has subscribed.
Beat(s) ==
  LET es == {e \in Candidates(s) : <<DeviceOf(s), e>> \in subscribed}
  IN  /\ s \in live /\ Len(wire[s]) < MaxMessages
      /\ made' = [made EXCEPT ![s] = 0]
      /\ IF es # {} THEN Send(s, es, 0) ELSE UNCHANGED wire
      /\ UNCHANGED <<config, device, handlers, local, subscribed, asked, received>>

Answer(s, e) ==
  /\ Feature(s, e) \in asked /\ Len(wire[s]) < MaxMessages
  /\ asked' = asked \ {Feature(s, e)}
  /\ Send(s, {e}, made[s])
  /\ UNCHANGED <<config, device, handlers, local, subscribed, received, made>>

Receive(s) ==
  /\ wire[s] # <<>>
  /\ wire' = [wire EXCEPT ![s] = Tail(@)]
  /\ received' = [received EXCEPT ![s] =
                   [e \in Entities |-> IF e \in Head(wire[s]).entities THEN Head(wire[s]).age ELSE @[e]]]
  /\ UNCHANGED <<config, device, handlers, local, subscribed, asked, made>>

Tick ==
  /\ made' = [s \in Sessions |-> Older(made[s])]
  /\ received' = [s \in Sessions |-> [e \in Entities |-> Older(received[s][e])]]
  /\ wire' = [s \in Sessions |->
               [i \in DOMAIN wire[s] |-> [wire[s][i] EXCEPT !.age = Older(@)]]]
  /\ UNCHANGED <<config, device, handlers, local, subscribed, asked>>

-----------------------------------------------------------------------------
(* HandleEvent.                                                            *)

\* Mutant: the entity that binds is taken whatever features it has.
BoundEntity(u, h) == IF heartbeatKeoWorkaround[u] THEN h.entity ELSE {}

\* subscribeHeartbeatWorkaround: an entity without the server is an error.
Workaround(u, h) == IF heartbeatKeoWorkaround[u] THEN h.entity \cap Candidates(h.session) ELSE {}

\* deviceConnected: the only candidate.
OnlyCandidate(h) == IF Cardinality(Candidates(h.session)) = 1 THEN Candidates(h.session) ELSE {}

\* Mutant: a device with several candidates is left alone.
NeverSeveral(h) == FALSE

Several(h) == h.entity = {} /\ Cardinality(Candidates(h.session)) > 1

HasSubscription(s, e) == <<DeviceOf(s), e>> \in subscribed

Finish(u, i)      == handlers' = [handlers EXCEPT ![u] = RemoveAt(@, i)]
Continue(u, i, h) == handlers' = [handlers EXCEPT ![u][i] = h]

\* Mutant: a server the other use case has subscribed to is left to it.
WatchOnce(u, s, e) ==
  heartbeatDiag' = IF HasSubscription(s, e) THEN heartbeatDiag
                                            ELSE [heartbeatDiag EXCEPT ![u] = {Feature(s, e)}]

Watch(u, s, e) == heartbeatDiag' = [heartbeatDiag EXCEPT ![u] = {Feature(s, e)}]

\* The client feature of the chosen entity, and whether there is a subscription.
Begin(u, i, h) ==
  LET chosen == IF h.entity = {} THEN OnlyCandidate(h) ELSE Workaround(u, h)
  IN  /\ h.phase = "begin"
      /\ heartbeatKeoWorkaround' = [heartbeatKeoWorkaround EXCEPT ![u] = @ \/ Several(h)]
      /\ \/ chosen = {} /\ Finish(u, i) /\ UNCHANGED heartbeatDiag
         \/ \E e \in chosen :
              /\ Watch(u, h.session, e)
              /\ Continue(u, i, [h EXCEPT !.entity = {e},
                   !.phase = IF HasSubscription(h.session, e) THEN "request" ELSE "subscribe"])
      /\ UNCHANGED <<subscribed, asked>>

\* Both calls fail when the device is gone.
Subscribe(u, i, h) ==
  /\ h.phase = "subscribe"
  /\ subscribed' = IF \E s \in live : DeviceOf(s) = DeviceOf(h.session)
                     THEN subscribed \cup ({DeviceOf(h.session)} \X h.entity) ELSE subscribed
  /\ Continue(u, i, [h EXCEPT !.phase = "request"])
  /\ UNCHANGED <<local, asked>>

RequestHeartbeat(u, i, h) ==
  /\ h.phase = "request"
  /\ asked' = IF h.session \in live THEN asked \cup ({h.session} \X h.entity) ELSE asked
  /\ Finish(u, i)
  /\ UNCHANGED <<local, subscribed>>

HandleEvent(u, i) ==
  /\ LET h == handlers[u][i]
     IN  Begin(u, i, h) \/ Subscribe(u, i, h) \/ RequestHeartbeat(u, i, h)
  /\ UNCHANGED <<config, device, wire, received, made>>

\* Mutant: one tick more.
WithinLongerDuration(u) == \E f \in heartbeatDiag[u] : received[f[1]][f[2]] <= Duration + 1

IsHeartbeatWithinDuration(u) == \E f \in heartbeatDiag[u] : received[f[1]][f[2]] <= Duration

Running(u) == IF InOrder THEN DOMAIN handlers[u] \cap {1} ELSE DOMAIN handlers[u]
Run(u) == \E i \in Running(u) : HandleEvent(u, i)

Next ==
  \/ \E s \in Sessions : Connect(s) \/ Disconnect(s) \/ Beat(s) \/ Receive(s)
  \/ \E s \in Sessions, e \in Entities : Bind(s, e) \/ Answer(s, e)
  \/ \E u \in UseCases : Run(u)
  \/ Tick

Fairness ==
  /\ \A u \in UseCases : WF_vars(Run(u))
  /\ \A s \in Sessions : WF_vars(Receive(s))
  /\ WF_vars(Tick)

Spec == Init /\ [][Next]_vars /\ Fairness

-----------------------------------------------------------------------------
(* Properties.                                                             *)

Age == 0 .. Old

\* The state of each variable; only device diagnosis servers are watched.
TypeOK ==
  /\ live \subseteq ToSet(history)
  /\ \A u \in UseCases : \A f \in heartbeatDiag[u] : f[2] \in Candidates(f[1])
  /\ \A x \in asked : x[1] \in live /\ x[2] \in Candidates(x[1])
  /\ subscribed \subseteq {DeviceOf(s) : s \in Sessions} \X Entities
  /\ received \in [Sessions -> [Entities -> Age]] /\ made \in [Sessions -> Age]
  /\ \A s \in Sessions : wire[s] # <<>> => s \in live

\* A use case that says the heartbeat is there watches a device that made one no
\* longer ago than the duration: silence, and a connection that is gone, are
\* noticed in time, however long messages and handlers were delayed.
SilenceNoticed ==
  \A u \in UseCases : IsHeartbeatWithinDuration(u) =>
    \E f \in heartbeatDiag[u] : made[f[1]] <= Duration

\* LPC and LPP watch the same server once both have handled the same events, in
\* order: neither is kept from it by what the other has done already.
SameServer ==
  (InOrder /\ \A u \in UseCases : handlers[u] = <<>>) => heartbeatDiag["LPC"] = heartbeatDiag["LPP"]

\* The heartbeat of the only device left that sends in time is seen in time from
\* some point on, also after other devices and earlier connections: of a device
\* with one server if no other has connected or bound since, of one with several
\* if it has bound and was the last to do anything.
InTime(s) == made[s] <= Period /\ \A i \in DOMAIN wire[s] : wire[s][i].age <= Delay
Watchable(s) ==
  /\ live = {s}
  /\ IF Cardinality(Candidates(s)) = 1
       THEN \A i, j \in DOMAIN history : (i < j /\ history[i] = s) => history[j] = s
       ELSE Last(history) = s /\ bound[s] # {} /\ bound[s] \subseteq Candidates(s)
Supervised ==
  \A s \in Sessions, u \in UseCases :
    <>[](Watchable(s) /\ InTime(s) /\ InOrder) => <>[]IsHeartbeatWithinDuration(u)
=============================================================================
