---------------------------- MODULE Heartbeat_proofs ----------------------------
(***************************************************************************)
(* Proofs about Heartbeat, for any connections, entities and durations,    *)
(* and for handlers that run in any order: what is watched, and how old a  *)
(* heartbeat is. For handlers in order, that both use cases come to watch  *)
(* the same server.                                                        *)
(***************************************************************************)
EXTENDS Heartbeat, SequenceLemmas, FiniteSetTheorems

-----------------------------------------------------------------------------
(* The inductive invariant, in parts of different variables.               *)

Handlers   == [session : Sessions, entity : SUBSET Entities, phase : {"begin", "subscribe", "request"}]
Heartbeats == [entities : SUBSET Entities, age : Age]

\* A handler that has chosen an entity, and a use case that watches one, have a
\* device diagnosis server.
Watched ==
  /\ config \in Configs
  /\ handlers \in [UseCases -> Seq(Handlers)]
  /\ heartbeatDiag \in [UseCases -> SUBSET (Sessions \X Entities)]
  /\ heartbeatKeoWorkaround \in [UseCases -> BOOLEAN]
  /\ \A u \in UseCases :
       /\ \A f \in heartbeatDiag[u] : f[2] \in Candidates(f[1])
       /\ \A k \in 1 .. Len(handlers[u]) :
            handlers[u][k].phase # "begin" =>
              handlers[u][k].entity \subseteq Candidates(handlers[u][k].session)

\* What is asked for or on its way belongs to a connection that is there.
Connected ==
  /\ history \in Seq(Sessions) /\ live \subseteq Sessions /\ live \subseteq ToSet(history)
  /\ asked \subseteq Sessions \X Entities
  /\ \A x \in asked : x[1] \in live /\ x[2] \in Candidates(x[1])
  /\ subscribed \subseteq {DeviceOf(s) : s \in Sessions} \X Entities
  /\ wire \in [Sessions -> Seq(Heartbeats)]
  /\ \A s \in Sessions : wire[s] # <<>> => s \in live

\* No heartbeat looks younger than the last one the device has made.
Ages ==
  /\ received \in [Sessions -> [Entities -> Age]] /\ made \in [Sessions -> Age]
  /\ \A s \in Sessions :
       /\ \A e \in Entities : made[s] <= received[s][e]
       /\ \A i \in 1 .. Len(wire[s]) : made[s] <= wire[s][i].age

HeartbeatInv == Watched /\ Connected /\ Ages

\* Ages are numbers up to that of a heartbeat too old to count.
LEMMA AgeFacts ==
  /\ Duration \in Nat /\ Old = Duration + 1 /\ Old \in Age /\ 0 \in Age
  /\ \A a \in Age : a \in Int /\ 0 <= a /\ a <= Old /\ Older(a) \in Age
  /\ \A a, b \in Age : a <= b => Older(a) <= Older(b)
BY TimeAssumption DEF Age, Old, Older

\* At first nothing is watched, on its way or received.
LEMMA InvInit == Init => HeartbeatInv
<1> SUFFICES ASSUME Init PROVE HeartbeatInv
  OBVIOUS
<1>1. Watched
  BY EmptySeq DEF Init, Watched
<1>2. Connected
  BY EmptySeq DEF Init, Connected
<1>3. Ages
  BY AgeFacts DEF Init, Ages
<1> QED  BY <1>1, <1>2, <1>3 DEF HeartbeatInv

\* Who handles events only, and what only passes time or messages.
LEMMA WatchedKept ==
  ASSUME Watched, UNCHANGED <<config, handlers, heartbeatDiag, heartbeatKeoWorkaround>>
  PROVE  Watched'
BY DEF Watched, Candidates

\* Ages depend on messages only.
LEMMA AgesKept ==
  ASSUME Ages, UNCHANGED <<wire, received, made>>
  PROVE  Ages'
BY DEF Ages

\* An event published leaves the watched features as they are.
LEMMA PublishWatched ==
  ASSUME Watched, NEW s \in Sessions, NEW entity \in SUBSET Entities, Publish(s, entity),
         UNCHANGED <<config, heartbeatDiag, heartbeatKeoWorkaround>>
  PROVE  Watched'
<1>1. PICK h \in Handlers : h = [session |-> s, entity |-> entity, phase |-> "begin"]
  BY DEF Handlers
<1>2. handlers' = [u \in UseCases |-> Append(handlers[u], h)]
  BY <1>1 DEF Publish
<1>3. ASSUME NEW u \in UseCases
      PROVE  /\ handlers'[u] \in Seq(Handlers)
             /\ \A k \in 1 .. Len(handlers'[u]) :
                  (k \in 1 .. Len(handlers[u]) /\ handlers'[u][k] = handlers[u][k])
                    \/ handlers'[u][k].phase = "begin"
  <2>1. handlers[u] \in Seq(Handlers) /\ handlers'[u] = Append(handlers[u], h)
    BY <1>2 DEF Watched
  <2>2. /\ handlers'[u] \in Seq(Handlers)
        /\ \A k \in 1 .. Len(handlers'[u]) :
             (k \in 1 .. Len(handlers[u]) /\ handlers'[u][k] = handlers[u][k])
               \/ handlers'[u][k] = h
    BY <2>1, Appended
  <2> QED  BY <1>1, <2>2
<1>4. handlers' \in [UseCases -> Seq(Handlers)]
  BY <1>2, <1>3
<1> QED  BY <1>3, <1>4 DEF Watched, Candidates

\* A message that is sent is of a connection and not younger than the last
\* heartbeat made.
LEMMA SendKeeps ==
  ASSUME HeartbeatInv, NEW s \in live, NEW es \in SUBSET Entities, NEW age \in Age,
         Send(s, es, age), made'[s] <= age,
         UNCHANGED <<config, history, live, subscribed, received>>,
         asked' \subseteq asked, made' \in [Sessions -> Age],
         \A t \in Sessions : made'[t] <= made[t]
  PROVE  Connected' /\ Ages'
<1> s \in Sessions
  BY DEF HeartbeatInv, Connected
<1>1. PICK m \in Heartbeats : m = [entities |-> es, age |-> age]
  BY DEF Heartbeats
<1>2. /\ wire'[s] = Append(wire[s], m) /\ wire[s] \in Seq(Heartbeats)
      /\ \A t \in Sessions \ {s} : wire'[t] = wire[t]
      /\ wire' = [wire EXCEPT ![s] = Append(wire[s], m)]
  BY <1>1 DEF Send, HeartbeatInv, Connected
<1>3. /\ wire'[s] \in Seq(Heartbeats)
      /\ \A k \in 1 .. Len(wire'[s]) :
           (k \in 1 .. Len(wire[s]) /\ wire'[s][k] = wire[s][k]) \/ wire'[s][k] = m
  BY <1>2, Appended
<1>4. Connected'
  <2>1. wire' \in [Sessions -> Seq(Heartbeats)]
    BY <1>2, <1>3 DEF HeartbeatInv, Connected
  <2>2. \A t \in Sessions : wire'[t] # <<>> => t \in live
    BY <1>2 DEF HeartbeatInv, Connected
  <2> QED  BY <2>1, <2>2 DEF HeartbeatInv, Connected, DeviceOf, Candidates
<1>5. Ages'
  <2>1. ASSUME NEW t \in Sessions, NEW i \in 1 .. Len(wire'[t])
        PROVE  made'[t] <= wire'[t][i].age
    <3>1. made'[t] <= made[t] /\ made[t] \in Int /\ made'[t] \in Int
      BY AgeFacts DEF HeartbeatInv, Ages
    <3>2. CASE t = s /\ wire'[t][i] = m
      BY <1>1, <3>2
    <3>3. CASE i \in 1 .. Len(wire[t]) /\ wire'[t][i] = wire[t][i]
      <4>1. made[t] <= wire[t][i].age /\ wire[t][i] \in Heartbeats
        BY <3>3, ElementOfSeq DEF HeartbeatInv, Ages, Connected
      <4>2. wire[t][i].age \in Int
        BY <4>1, AgeFacts DEF Heartbeats
      <4> QED  BY <3>1, <3>3, <4>1, <4>2
    <3> QED  BY <1>2, <1>3, <2>1, <3>2, <3>3
  <2>2. ASSUME NEW t \in Sessions, NEW e \in Entities PROVE made'[t] <= received'[t][e]
    <3>1. /\ made'[t] <= made[t] /\ made[t] \in Int /\ made'[t] \in Int
          /\ made[t] <= received[t][e] /\ received[t][e] \in Int
      BY AgeFacts DEF HeartbeatInv, Ages
    <3> QED  BY <3>1
  <2> QED  BY <2>1, <2>2 DEF HeartbeatInv, Ages
<1> QED  BY <1>4, <1>5

\* Time passes for all alike.
LEMMA TickKeeps ==
  ASSUME HeartbeatInv, Tick
  PROVE  HeartbeatInv'
<1>1. Watched'
  BY WatchedKept DEF HeartbeatInv, Tick, local
<1>2. ASSUME NEW s \in Sessions
      PROVE  /\ wire'[s] \in Seq(Heartbeats) /\ Len(wire'[s]) = Len(wire[s])
             /\ \A i \in 1 .. Len(wire[s]) : wire'[s][i].age = Older(wire[s][i].age)
  <2>1. /\ wire[s] \in Seq(Heartbeats) /\ Len(wire[s]) \in Nat
        /\ DOMAIN wire[s] = 1 .. Len(wire[s])
    BY LenProperties DEF HeartbeatInv, Connected
  <2>2. wire'[s] = [i \in 1 .. Len(wire[s]) |-> [wire[s][i] EXCEPT !.age = Older(@)]]
    BY <2>1 DEF Tick
  <2>3. ASSUME NEW i \in 1 .. Len(wire[s])
        PROVE  /\ wire'[s][i] \in Heartbeats
               /\ wire'[s][i].age = Older(wire[s][i].age)
    <3>1. wire[s][i] \in Heartbeats
      BY <2>1, ElementOfSeq
    <3>2. wire'[s][i] = [wire[s][i] EXCEPT !.age = Older(@)]
      BY <2>2
    <3> QED  BY <3>1, <3>2, AgeFacts DEF Heartbeats
  <2>4. wire'[s] \in [1 .. Len(wire[s]) -> Heartbeats]
    BY <2>2, <2>3
  <2> QED  BY <2>1, <2>3, <2>4, FunctionIsSeq
<1>3. Connected'
  <2>1. wire' \in [Sessions -> Seq(Heartbeats)]
    BY <1>2 DEF Tick
  <2>2. \A s \in Sessions : wire'[s] # <<>> => s \in live
    <3>1. \A s \in Sessions : wire[s] = <<>> => Len(wire'[s]) = 0
      BY <1>2
    <3> QED  BY <1>2, <3>1, EmptySeq DEF HeartbeatInv, Connected
  <2> QED  BY <2>1, <2>2 DEF Tick, device, local, HeartbeatInv, Connected, DeviceOf, Candidates
<1>4. Ages'
  <2>1. /\ made' = [s \in Sessions |-> Older(made[s])]
        /\ received' = [s \in Sessions |-> [e \in Entities |-> Older(received[s][e])]]
    BY DEF Tick
  <2>2. ASSUME NEW s \in Sessions, NEW i \in 1 .. Len(wire'[s])
        PROVE  made'[s] <= wire'[s][i].age
    <3>1. /\ i \in 1 .. Len(wire[s]) /\ wire'[s][i].age = Older(wire[s][i].age)
          /\ made[s] <= wire[s][i].age
      BY <1>2 DEF HeartbeatInv, Ages
    <3>2. wire[s][i].age \in Age /\ made[s] \in Age
      <4>1. wire[s][i] \in Heartbeats
        BY <3>1, ElementOfSeq DEF HeartbeatInv, Connected
      <4> QED  BY <4>1 DEF HeartbeatInv, Ages, Heartbeats
    <3> QED  BY <2>1, <3>1, <3>2, AgeFacts
  <2> QED  BY <2>1, <2>2, AgeFacts DEF HeartbeatInv, Ages
<1> QED  BY <1>1, <1>3, <1>4 DEF HeartbeatInv

\* A heartbeat received was not younger on the wire than the last one made.
LEMMA ReceiveKeeps ==
  ASSUME HeartbeatInv, NEW s \in Sessions, Receive(s)
  PROVE  HeartbeatInv'
<1>1. Watched'
  BY WatchedKept DEF HeartbeatInv, Receive, local
<1>2. /\ wire[s] \in Seq(Heartbeats) /\ wire[s] # <<>>
      /\ wire' = [wire EXCEPT ![s] = Tail(wire[s])]
  BY DEF Receive, HeartbeatInv, Connected
<1>3. /\ Head(wire[s]) = wire[s][1] /\ 1 \in 1 .. Len(wire[s]) /\ Head(wire[s]) \in Heartbeats
      /\ Tail(wire[s]) \in Seq(Heartbeats)
      /\ \A k \in 1 .. Len(Tail(wire[s])) :
           k + 1 \in 1 .. Len(wire[s]) /\ Tail(wire[s])[k] = wire[s][k + 1]
  <2>1. Len(wire[s]) \in Nat /\ Len(wire[s]) # 0
    BY <1>2, EmptySeq, LenProperties
  <2> QED  BY <1>2, <2>1, HeadTailProperties
<1>4. /\ wire'[s] = Tail(wire[s]) /\ \A t \in Sessions \ {s} : wire'[t] = wire[t]
      /\ wire' \in [Sessions -> Seq(Heartbeats)]
  BY <1>2, <1>3 DEF HeartbeatInv, Connected
<1>5. Connected'
  BY <1>2, <1>4 DEF Receive, device, local, HeartbeatInv, Connected, DeviceOf, Candidates
<1>6. Ages'
  <2>1. /\ made' = made
        /\ received' = [received EXCEPT ![s] =
             [e \in Entities |-> IF e \in Head(wire[s]).entities THEN Head(wire[s]).age
                                                                 ELSE received[s][e]]]
    BY DEF Receive, HeartbeatInv, Ages
  <2>2. Head(wire[s]).age \in Age /\ made[s] <= Head(wire[s]).age
    BY <1>3 DEF HeartbeatInv, Ages, Heartbeats
  <2>3. /\ received' \in [Sessions -> [Entities -> Age]]
        /\ \A t \in Sessions, e \in Entities : made[t] <= received'[t][e]
    BY <2>1, <2>2 DEF HeartbeatInv, Ages
  <2>4. ASSUME NEW t \in Sessions, NEW i \in 1 .. Len(wire'[t])
        PROVE  made[t] <= wire'[t][i].age
    <3>1. CASE t = s
      BY ZenonT(60), <1>3, <1>4, <3>1 DEF HeartbeatInv, Ages
    <3>2. CASE t # s
      BY <1>4, <3>2 DEF HeartbeatInv, Ages
    <3> QED  BY <3>1, <3>2
  <2> QED  BY <2>1, <2>3, <2>4 DEF HeartbeatInv, Ages
<1> QED  BY <1>1, <1>5, <1>6 DEF HeartbeatInv

\* A connection starts a handler that has yet to choose, and a heartbeat is made.
LEMMA ConnectKeeps ==
  ASSUME HeartbeatInv, NEW s \in Sessions, Connect(s)
  PROVE  HeartbeatInv'
<1>1. Watched'
  BY PublishWatched DEF HeartbeatInv, Connect, local
<1>2. Connected'
  <2>1. /\ history' \in Seq(Sessions) /\ ToSet(history') = ToSet(history) \cup {s}
    <3>1. history \in Seq(Sessions) /\ history' = Append(history, s)
      BY DEF Connect, HeartbeatInv, Connected
    <3> QED  BY <3>1, Appended
  <2> QED  BY <2>1 DEF Connect, HeartbeatInv, Connected, DeviceOf, Candidates
<1>3. Ages'
  <2>1. /\ UNCHANGED <<wire, received>> /\ made' = [made EXCEPT ![s] = 0]
    BY DEF Connect
  <2>2. ASSUME NEW t \in Sessions, NEW i \in 1 .. Len(wire[t])
        PROVE  wire[t][i].age \in Age
    <3>1. wire[t][i] \in Heartbeats
      BY ElementOfSeq DEF HeartbeatInv, Connected
    <3> QED  BY <3>1 DEF Heartbeats
  <2> QED  BY <2>1, <2>2, AgeFacts DEF HeartbeatInv, Ages
<1> QED  BY <1>1, <1>2, <1>3 DEF HeartbeatInv

\* A binding starts a handler for the entity bound.
LEMMA BindKeeps ==
  ASSUME HeartbeatInv, NEW s \in Sessions, NEW e \in Entities, Bind(s, e)
  PROVE  HeartbeatInv'
<1>1. Watched'
  BY PublishWatched DEF HeartbeatInv, Bind, local
<1>2. Connected'
  <2>1. /\ history' \in Seq(Sessions) /\ ToSet(history') = ToSet(history) \cup {s}
    <3>1. history \in Seq(Sessions) /\ history' = Append(history, s)
      BY DEF Bind, HeartbeatInv, Connected
    <3> QED  BY <3>1, Appended
  <2> QED  BY <2>1 DEF Bind, HeartbeatInv, Connected, DeviceOf, Candidates
<1>3. Ages'
  BY AgesKept DEF HeartbeatInv, Bind
<1> QED  BY <1>1, <1>2, <1>3 DEF HeartbeatInv

\* A connection lost takes its messages with it.
LEMMA DisconnectKeeps ==
  ASSUME HeartbeatInv, NEW s \in Sessions, Disconnect(s)
  PROVE  HeartbeatInv'
<1>1. Watched'
  BY WatchedKept DEF HeartbeatInv, Disconnect, local
<1>2. /\ wire'[s] = <<>> /\ \A t \in Sessions \ {s} : wire'[t] = wire[t]
      /\ wire' \in [Sessions -> Seq(Heartbeats)]
  BY EmptySeq DEF Disconnect, HeartbeatInv, Connected
<1>3. Connected'
  BY <1>2 DEF Disconnect, HeartbeatInv, Connected, DeviceOf, Candidates
<1>4. Ages'
  <2>1. Len(wire'[s]) = 0
    BY <1>2
  <2> QED  BY <1>2, <2>1 DEF Disconnect, HeartbeatInv, Ages
<1> QED  BY <1>1, <1>3, <1>4 DEF HeartbeatInv

\* A new heartbeat is the youngest.
LEMMA BeatKeeps ==
  ASSUME HeartbeatInv, NEW s \in Sessions, Beat(s)
  PROVE  HeartbeatInv'
<1>1. Watched'
  BY WatchedKept DEF HeartbeatInv, Beat, local
<1>2. PICK es \in SUBSET Entities : (es # {} /\ Send(s, es, 0)) \/ UNCHANGED wire
  <2>1. Candidates(s) \subseteq Entities
    BY ConfigAssumption DEF HeartbeatInv, Watched, Candidates
  <2> QED  BY <2>1 DEF Beat
<1>3. /\ s \in live /\ made' = [made EXCEPT ![s] = 0]
      /\ UNCHANGED <<config, history, live, subscribed, asked, received>>
  BY DEF Beat, device
<1>4. /\ made' \in [Sessions -> Age] /\ made'[s] = 0
      /\ \A t \in Sessions : made'[t] <= made[t]
  <2>1. made' \in [Sessions -> Age] /\ \A t \in Sessions : made'[t] \in {0, made[t]}
    BY <1>3, AgeFacts DEF HeartbeatInv, Ages
  <2>2. s \in Sessions
    BY <1>3 DEF HeartbeatInv, Connected
  <2>3. ASSUME NEW t \in Sessions PROVE made'[t] <= made[t]
    <3>1. made[t] \in Int /\ 0 <= made[t]
      BY AgeFacts DEF HeartbeatInv, Ages
    <3> QED  BY <2>1, <3>1
  <2> QED  BY <1>3, <2>1, <2>2, <2>3 DEF HeartbeatInv, Ages
<1>5. CASE Send(s, es, 0)
  <2>1. Connected' /\ Ages'
    BY <1>3, <1>4, <1>5, AgeFacts, SendKeeps
  <2> QED  BY <1>1, <2>1 DEF HeartbeatInv
<1>6. CASE UNCHANGED wire
  <2>1. Connected'
    BY <1>3, <1>6 DEF HeartbeatInv, Connected, DeviceOf, Candidates
  <2>2. ASSUME NEW t \in Sessions, NEW i \in 1 .. Len(wire[t])
        PROVE  wire[t][i].age \in Age
    <3>1. wire[t][i] \in Heartbeats
      BY ElementOfSeq DEF HeartbeatInv, Connected
    <3> QED  BY <3>1 DEF Heartbeats
  <2>3. Ages'
    BY <1>3, <1>6, <2>2, AgeFacts DEF HeartbeatInv, Ages
  <2> QED  BY <1>1, <2>1, <2>3 DEF HeartbeatInv
<1> QED  BY <1>2, <1>5, <1>6

\* An answer is as old as the last one made.
LEMMA AnswerKeeps ==
  ASSUME HeartbeatInv, NEW s \in Sessions, NEW e \in Entities, Answer(s, e)
  PROVE  HeartbeatInv'
<1>1. Watched'
  BY WatchedKept DEF HeartbeatInv, Answer, local
<1>2. s \in live /\ made[s] \in Age /\ {e} \in SUBSET Entities
  BY DEF Answer, Feature, HeartbeatInv, Connected, Ages
<1>3. /\ Send(s, {e}, made[s]) /\ asked' \subseteq asked
      /\ UNCHANGED <<config, history, live, subscribed, received, made>>
  BY DEF Answer, device
<1>4. \A t \in Sessions : made[t] <= made[t]
  <2>1. \A t \in Sessions : made[t] \in Int
    BY AgeFacts DEF HeartbeatInv, Ages
  <2> QED  BY <2>1
<1>5. Connected' /\ Ages'
  BY <1>2, <1>3, <1>4, SendKeeps DEF HeartbeatInv, Ages, Connected
<1> QED  BY <1>1, <1>5 DEF HeartbeatInv

\* A handler goes on, or ends: the others stay.
LEMMA HandlersAfter ==
  ASSUME Watched, NEW u \in UseCases, NEW i \in 1 .. Len(handlers[u]), NEW h \in Handlers,
         Finish(u, i) \/ (Continue(u, i, h) /\ h.entity \subseteq Candidates(h.session))
  PROVE  /\ handlers' \in [UseCases -> Seq(Handlers)]
         /\ \A v \in UseCases \ {u} : handlers'[v] = handlers[v]
         /\ \A k \in 1 .. Len(handlers'[u]) :
              handlers'[u][k].phase # "begin" =>
                handlers'[u][k].entity \subseteq Candidates(handlers'[u][k].session)
<1>1. handlers[u] \in Seq(Handlers) /\ handlers \in [UseCases -> Seq(Handlers)]
  BY DEF Watched
<1>2. CASE Finish(u, i)
  <2>1. PICK q : q = RemoveAt(handlers[u], i)
    OBVIOUS
  <2>2. /\ q \in Seq(Handlers)
        /\ \A k \in 1 .. Len(q) : \E j \in 1 .. Len(handlers[u]) : q[k] = handlers[u][j]
    <3>1. /\ q \in Seq(Handlers)
          /\ \A k \in 1 .. Len(q) :
               /\ k < i => k \in 1 .. Len(handlers[u]) /\ q[k] = handlers[u][k]
               /\ k >= i => k + 1 \in 1 .. Len(handlers[u]) /\ q[k] = handlers[u][k + 1]
      BY <1>1, <2>1, Removed
    <3>2. i \in Int /\ \A k \in 1 .. Len(q) : k < i \/ k >= i
      BY <1>1, LenProperties
    <3> QED  BY <3>1, <3>2
  <2>3. handlers' = [handlers EXCEPT ![u] = q]
    BY <1>2, <2>1 DEF Finish
  <2>4. /\ handlers'[u] = q /\ \A v \in UseCases \ {u} : handlers'[v] = handlers[v]
        /\ handlers' \in [UseCases -> Seq(Handlers)]
    BY <1>1, <2>2, <2>3
  <2>5. \A k \in 1 .. Len(q) : q[k].phase # "begin" => q[k].entity \subseteq Candidates(q[k].session)
    BY <2>2 DEF Watched
  <2> QED  BY <2>4, <2>5
<1>3. CASE Continue(u, i, h) /\ h.entity \subseteq Candidates(h.session)
  <2>1. handlers'[u] = [handlers[u] EXCEPT ![i] = h]
    BY <1>1, <1>3 DEF Continue
  <2>2. /\ handlers'[u] \in Seq(Handlers) /\ Len(handlers'[u]) = Len(handlers[u])
        /\ \A k \in 1 .. Len(handlers[u]) : handlers'[u][k] = IF k = i THEN h ELSE handlers[u][k]
    BY <1>1, <2>1, ExceptSeq
  <2>3. handlers' \in [UseCases -> Seq(Handlers)] /\ \A v \in UseCases \ {u} : handlers'[v] = handlers[v]
    BY <1>1, <1>3, <2>2 DEF Continue
  <2> QED  BY <1>3, <2>2, <2>3 DEF Watched
<1> QED  BY <1>2, <1>3

\* The handler that has chosen entities.
LEMMA ChosenHandler ==
  ASSUME NEW h \in Handlers, NEW es \in SUBSET Entities, NEW phase \in {"request", "subscribe"}
  PROVE  \E g \in Handlers : /\ g = [h EXCEPT !.entity = es, !.phase = phase]
                             /\ g.entity = es /\ g.session = h.session
<1> DEFINE g == [session |-> h.session, entity |-> es, phase |-> phase]
<1>1. [h EXCEPT !.entity = es] = [session |-> h.session, entity |-> es, phase |-> h.phase]
  BY DEF Handlers
<1>2. [[session |-> h.session, entity |-> es, phase |-> h.phase] EXCEPT !.phase = phase] = g
  OBVIOUS
<1>3. g = [h EXCEPT !.entity = es, !.phase = phase]
  BY <1>1, <1>2
<1>4. g \in Handlers /\ g.entity = es /\ g.session = h.session
  BY DEF Handlers
<1> QED  BY <1>3, <1>4

\* Only device diagnosis servers are chosen, subscribed to and asked.
LEMMA HandleEventKeeps ==
  ASSUME HeartbeatInv, NEW u \in UseCases, NEW i \in DOMAIN handlers[u], HandleEvent(u, i)
  PROVE  HeartbeatInv'
<1>1. handlers[u] \in Seq(Handlers) /\ i \in 1 .. Len(handlers[u])
  BY LenProperties DEF HeartbeatInv, Watched
<1>2. PICK h \in Handlers :
        /\ h = handlers[u][i]
        /\ Begin(u, i, h) \/ Subscribe(u, i, h) \/ RequestHeartbeat(u, i, h)
  BY <1>1, ElementOfSeq DEF HandleEvent
<1>3. UNCHANGED <<config, history, live, bound, wire, received, made>>
  BY DEF HandleEvent, device
<1>4. h.session \in Sessions /\ h.entity \in SUBSET Entities
  BY DEF Handlers
<1>5. h.phase # "begin" => h.entity \subseteq Candidates(h.session)
  BY <1>1, <1>2 DEF HeartbeatInv, Watched
<1>6. Ages'
  BY <1>3, AgesKept DEF HeartbeatInv
<1>7. CASE Begin(u, i, h)
  <2>1. UNCHANGED <<subscribed, asked>>
    BY <1>7 DEF Begin
  <2>2. Connected'
    BY <1>3, <2>1 DEF HeartbeatInv, Connected, DeviceOf, Candidates
  <2>3. PICK g \in Handlers :
          /\ Finish(u, i) \/ (Continue(u, i, g) /\ g.entity \subseteq Candidates(g.session))
          /\ \/ UNCHANGED heartbeatDiag
             \/ \E e \in Entities : /\ heartbeatDiag' = [heartbeatDiag EXCEPT ![u] = {<<h.session, e>>}]
                                    /\ e \in Candidates(h.session)
    <3>1. CASE Finish(u, i) /\ UNCHANGED heartbeatDiag
      BY <1>2, <3>1
    <3>2. ASSUME NEW e \in Candidates(h.session), Watch(u, h.session, e),
                 NEW phase \in {"request", "subscribe"},
                 Continue(u, i, [h EXCEPT !.entity = {e}, !.phase = phase])
          PROVE  \E g \in Handlers :
                   /\ Continue(u, i, g) /\ g.entity \subseteq Candidates(g.session)
                   /\ heartbeatDiag' = [heartbeatDiag EXCEPT ![u] = {<<h.session, e>>}]
                   /\ e \in Entities
      <4>1. e \in Entities
        BY <1>4, <3>2, ConfigAssumption DEF HeartbeatInv, Watched, Candidates
      <4>2. PICK es \in SUBSET Entities : es = {e}
        BY <4>1
      <4>3. PICK g \in Handlers : /\ g = [h EXCEPT !.entity = es, !.phase = phase]
                                  /\ g.entity = es /\ g.session = h.session
        BY <3>2, ChosenHandler
      <4>4. Continue(u, i, g) /\ g.entity \subseteq Candidates(g.session)
        BY <3>2, <4>2, <4>3
      <4> QED  BY <3>2, <4>1, <4>3, <4>4 DEF Watch, Feature
    <3>3. \/ Finish(u, i) /\ UNCHANGED heartbeatDiag
          \/ \E e \in Candidates(h.session) :
               /\ Watch(u, h.session, e)
               /\ \E phase \in {"request", "subscribe"} :
                    Continue(u, i, [h EXCEPT !.entity = {e}, !.phase = phase])
      BY <1>7 DEF Begin, OnlyCandidate, Workaround
    <3> QED  BY <3>1, <3>2, <3>3
  <2>4. /\ heartbeatDiag' \in [UseCases -> SUBSET (Sessions \X Entities)]
        /\ \A v \in UseCases : \A f \in heartbeatDiag'[v] : f[2] \in Candidates(f[1])
    <3>1. CASE UNCHANGED heartbeatDiag
      BY <3>1 DEF HeartbeatInv, Watched
    <3>2. ASSUME NEW e \in Entities, e \in Candidates(h.session),
                 heartbeatDiag' = [heartbeatDiag EXCEPT ![u] = {<<h.session, e>>}]
          PROVE  /\ heartbeatDiag' \in [UseCases -> SUBSET (Sessions \X Entities)]
                 /\ \A v \in UseCases : \A f \in heartbeatDiag'[v] : f[2] \in Candidates(f[1])
      <4>1. {<<h.session, e>>} \in SUBSET (Sessions \X Entities)
        BY <1>4
      <4>2. /\ heartbeatDiag'[u] = {<<h.session, e>>}
            /\ \A v \in UseCases \ {u} : heartbeatDiag'[v] = heartbeatDiag[v]
            /\ heartbeatDiag' \in [UseCases -> SUBSET (Sessions \X Entities)]
        BY <3>2, <4>1 DEF HeartbeatInv, Watched
      <4>3. \A f \in heartbeatDiag'[u] : f[2] \in Candidates(f[1])
        BY <3>2, <4>2
      <4> QED  BY <4>2, <4>3 DEF HeartbeatInv, Watched
    <3> QED  BY <2>3, <3>1, <3>2
  <2>5. heartbeatKeoWorkaround' \in [UseCases -> BOOLEAN]
    <3>1. Several(h) \in BOOLEAN
      BY DEF Several
    <3>2. (heartbeatKeoWorkaround[u] \/ Several(h)) \in BOOLEAN
      OBVIOUS
    <3> QED  BY <1>7, <3>2 DEF Begin, HeartbeatInv, Watched
  <2>6. Watched'
    <3>1. /\ handlers' \in [UseCases -> Seq(Handlers)]
          /\ \A v \in UseCases \ {u} : handlers'[v] = handlers[v]
          /\ \A k \in 1 .. Len(handlers'[u]) :
               handlers'[u][k].phase # "begin" =>
                 handlers'[u][k].entity \subseteq Candidates(handlers'[u][k].session)
      BY <1>1, <2>3, HandlersAfter DEF HeartbeatInv
    <3> QED  BY <1>3, <2>4, <2>5, <3>1 DEF HeartbeatInv, Watched, Candidates
  <2> QED  BY <1>6, <2>2, <2>6 DEF HeartbeatInv
<1>8. ASSUME h.phase # "begin", NEW g \in Handlers,
             Finish(u, i) \/ (Continue(u, i, g) /\ g.entity = h.entity /\ g.session = h.session),
             UNCHANGED local
      PROVE  Watched'
  <2>1. /\ handlers' \in [UseCases -> Seq(Handlers)]
        /\ \A v \in UseCases \ {u} : handlers'[v] = handlers[v]
        /\ \A k \in 1 .. Len(handlers'[u]) :
             handlers'[u][k].phase # "begin" =>
               handlers'[u][k].entity \subseteq Candidates(handlers'[u][k].session)
    BY <1>1, <1>5, <1>8, HandlersAfter DEF HeartbeatInv
  <2> QED  BY <1>3, <1>8, <2>1 DEF local, HeartbeatInv, Watched, Candidates
<1>9. CASE Subscribe(u, i, h)
  <2>1. PICK g \in Handlers : g = [h EXCEPT !.phase = "request"]
    BY DEF Handlers
  <2>2. Continue(u, i, g) /\ g.entity = h.entity /\ g.session = h.session
    BY <1>9, <2>1 DEF Subscribe, Handlers
  <2>3. h.phase # "begin" /\ UNCHANGED local
    BY <1>9 DEF Subscribe
  <2>4. Watched'
    BY <1>8, <2>2, <2>3
  <2>5. UNCHANGED asked /\ subscribed' \subseteq subscribed \cup ({DeviceOf(h.session)} \X h.entity)
    BY <1>9 DEF Subscribe
  <2>6. Connected'
    BY <1>3, <1>4, <2>5 DEF HeartbeatInv, Connected, DeviceOf, Candidates
  <2> QED  BY <1>6, <2>4, <2>6 DEF HeartbeatInv
<1>10. CASE RequestHeartbeat(u, i, h)
  <2>1. Finish(u, i) /\ UNCHANGED local /\ h.phase # "begin" /\ UNCHANGED subscribed
    BY <1>10 DEF RequestHeartbeat
  <2>2. Watched'
    BY <1>8, <2>1
  <2>3. asked' = asked \/ (h.session \in live /\ asked' = asked \cup ({h.session} \X h.entity))
    BY <1>10 DEF RequestHeartbeat
  <2>4. Connected'
    BY <1>3, <1>4, <1>5, <2>1, <2>3 DEF HeartbeatInv, Connected, DeviceOf, Candidates
  <2> QED  BY <1>6, <2>2, <2>4 DEF HeartbeatInv
<1> QED  BY <1>2, <1>7, <1>9, <1>10

\* Every step keeps the invariant.
LEMMA InvStep == HeartbeatInv /\ [Next]_vars => HeartbeatInv'
<1> SUFFICES ASSUME HeartbeatInv, [Next]_vars PROVE HeartbeatInv'
  OBVIOUS
<1>1. ASSUME NEW u \in UseCases, Run(u) PROVE HeartbeatInv'
  BY <1>1, HandleEventKeeps DEF Run, Running
<1>2. ASSUME UNCHANGED vars PROVE HeartbeatInv'
  BY <1>2 DEF vars, HeartbeatInv, Watched, Connected, Ages, Candidates, DeviceOf
<1> QED
  BY <1>1, <1>2, ConnectKeeps, DisconnectKeeps, BeatKeeps, ReceiveKeeps, BindKeeps,
     AnswerKeeps, TickKeeps DEF Next

\* Only device diagnosis servers of connections are watched and asked, and
\* nothing is on its way from a device that is gone.
THEOREM TypeCorrect == Spec => []TypeOK
<1>1. HeartbeatInv => TypeOK
  BY DEF HeartbeatInv, Watched, Connected, Ages, TypeOK
<1> QED  BY <1>1, InvInit, InvStep, PTL DEF Spec

\* A use case that says the heartbeat is there watches a device that made one no
\* longer ago than the duration.
THEOREM SilenceIsNoticed == Spec => []SilenceNoticed
<1>1. ASSUME HeartbeatInv PROVE SilenceNoticed
  <2>1. SUFFICES ASSUME NEW u \in UseCases, NEW f \in heartbeatDiag[u],
                        received[f[1]][f[2]] <= Duration
                 PROVE  made[f[1]] <= Duration
    BY DEF SilenceNoticed, IsHeartbeatWithinDuration
  <2>2. f[1] \in Sessions /\ f[2] \in Entities
    BY <1>1 DEF HeartbeatInv, Watched
  <2>3. /\ made[f[1]] <= received[f[1]][f[2]]
        /\ made[f[1]] \in Age /\ received[f[1]][f[2]] \in Age
    BY <1>1, <2>2 DEF HeartbeatInv, Ages
  <2>4. /\ made[f[1]] \in Int /\ received[f[1]][f[2]] \in Int /\ Duration \in Int
    BY <2>3, TimeAssumption DEF Age, Old
  <2> QED  BY <2>1, <2>3, <2>4
<1> QED  BY <1>1, InvInit, InvStep, PTL DEF Spec

-----------------------------------------------------------------------------
(* Handlers in order. The events published so far are one sequence for both *)
(* use cases, and the state of a use case is a function of how many of them *)
(* it has handled: diag and keo say which, for every number.                *)

Events == {h \in Handlers : h.phase = "begin" /\ (h.entity = {} \/ \E e \in Entities : h.entity = {e})}

\* What an event offers to watch: the only candidate of a device that connects,
\* the server of an entity that binds.
Offer(h) == IF h.entity = {} THEN OnlyCandidate(h) ELSE h.entity \cap Candidates(h.session)

Servers(h) == {Feature(h.session, e) : e \in Offer(h)}

\* Event k leads from the state before it to the state after it.
Course(events, diag, keo) ==
  \A k \in 1 .. Len(events) :
    /\ diag[k + 1] = IF Offer(events[k]) # {} /\ (events[k].entity = {} \/ k \in keo)
                     THEN Servers(events[k]) ELSE diag[k]
    /\ k + 1 \in keo <=> k \in keo \/ Several(events[k])

\* A use case is before event k, and has those from k on queued. If busy is 1
\* the first handler of its queue has begun already, and is that of event k - 1.
Before(u, k, busy, events, diag, keo) ==
  /\ heartbeatDiag[u] = diag[k] /\ (heartbeatKeoWorkaround[u] <=> k \in keo)
  /\ Len(handlers[u]) = Len(events) + 1 - k + busy
  /\ busy = 1 => handlers[u][1].phase # "begin"
  /\ \A j \in 1 .. Len(handlers[u]) :
       j > busy => k + j - 1 - busy \in 1 .. Len(events) /\ handlers[u][j] = events[k + j - 1 - busy]

OnCourse(events, diag, keo) ==
  /\ Course(events, diag, keo)
  /\ \A u \in UseCases : \E k \in 1 .. Len(events) + 1, busy \in {0, 1} :
       Before(u, k, busy, events, diag, keo)

SameCourse ==
  \E events \in Seq(Events) :
    \E diag \in [1 .. Len(events) + 1 -> SUBSET (Sessions \X Entities)],
       keo \in SUBSET (1 .. Len(events) + 1) : OnCourse(events, diag, keo)

OrderInv == HeartbeatInv /\ (InOrder => SameCourse)

\* At first there are no events, and both use cases watch nothing.
LEMMA OrderInit == Init => OrderInv
<1> SUFFICES ASSUME Init PROVE SameCourse
  BY InvInit DEF OrderInv
<1> DEFINE none == [i \in 1 .. Len(<<>>) + 1 |-> {}]
<1>1. <<>> \in Seq(Events) /\ Len(<<>>) = 0
  OBVIOUS
<1>2. none \in [1 .. Len(<<>>) + 1 -> SUBSET (Sessions \X Entities)] /\ none[1] = {}
  BY <1>1
<1> HIDE DEF none
<1>3. ASSUME NEW u \in UseCases PROVE Before(u, 1, 0, <<>>, none, {})
  BY <1>1, <1>2, <1>3 DEF Init, Before
<1>4. 1 \in 1 .. Len(<<>>) + 1
  BY <1>1
<1>5. Course(<<>>, none, {})
  BY <1>1 DEF Course
<1>6. OnCourse(<<>>, none, {})
  BY <1>3, <1>4, <1>5 DEF OnCourse
<1> QED  BY <1>1, <1>2, <1>6 DEF SameCourse

\* The course of the handlers depends on these alone.
LEMMA OrderKept ==
  ASSUME SameCourse, UNCHANGED <<config, handlers, heartbeatDiag, heartbeatKeoWorkaround>>
  PROVE  SameCourse'
<1>1. PICK events \in Seq(Events) :
        \E diag \in [1 .. Len(events) + 1 -> SUBSET (Sessions \X Entities)],
           keo \in SUBSET (1 .. Len(events) + 1) : OnCourse(events, diag, keo)
  BY DEF SameCourse
<1>2. PICK diag \in [1 .. Len(events) + 1 -> SUBSET (Sessions \X Entities)],
           keo \in SUBSET (1 .. Len(events) + 1) : OnCourse(events, diag, keo)
  BY <1>1
<1>3. Course(events, diag, keo)'
  BY <1>2 DEF OnCourse, Course, Offer, Servers, OnlyCandidate, Several, Candidates
<1>4. ASSUME NEW u \in UseCases, NEW k, NEW busy, Before(u, k, busy, events, diag, keo)
      PROVE  Before(u, k, busy, events, diag, keo)'
  BY <1>4 DEF Before
<1>5. OnCourse(events, diag, keo)'
  <2>1. ASSUME NEW u \in UseCases
        PROVE  \E k \in 1 .. Len(events) + 1, busy \in {0, 1} :
                 Before(u, k, busy, events, diag, keo)'
    BY <1>2, <1>4 DEF OnCourse
  <2> QED  BY <1>3, <2>1 DEF OnCourse
<1> QED  BY <1>5 DEF SameCourse

\* A new event is queued for both use cases and lengthens the course by its
\* outcome.
LEMMA OrderPublish ==
  ASSUME HeartbeatInv, SameCourse, NEW s \in Sessions, NEW entity \in SUBSET Entities,
         entity = {} \/ \E e \in Entities : entity = {e}, Publish(s, entity),
         UNCHANGED <<config, heartbeatDiag, heartbeatKeoWorkaround>>
  PROVE  SameCourse'
<1>1. PICK events \in Seq(Events) :
        \E diag \in [1 .. Len(events) + 1 -> SUBSET (Sessions \X Entities)],
           keo \in SUBSET (1 .. Len(events) + 1) : OnCourse(events, diag, keo)
  BY DEF SameCourse
<1>2. PICK diag \in [1 .. Len(events) + 1 -> SUBSET (Sessions \X Entities)],
           keo \in SUBSET (1 .. Len(events) + 1) : OnCourse(events, diag, keo)
  BY <1>1
<1>3. PICK h \in Events : h = [session |-> s, entity |-> entity, phase |-> "begin"]
  BY DEF Events, Handlers
<1>4. PICK n \in Nat : n = Len(events)
  BY LenProperties
<1>5. PICK after : after = IF Offer(h) # {} /\ (h.entity = {} \/ n + 1 \in keo)
                           THEN Servers(h) ELSE diag[n + 1]
  OBVIOUS
<1>6. after \in SUBSET (Sessions \X Entities)
  <2>1. Candidates(h.session) \subseteq Entities
    BY <1>3, ConfigAssumption DEF HeartbeatInv, Watched, Candidates
  <2>2. Servers(h) \in SUBSET (Sessions \X Entities)
    BY <1>3, <2>1 DEF Servers, Offer, OnlyCandidate, Feature
  <2>3. diag[n + 1] \in SUBSET (Sessions \X Entities)
    BY <1>2, <1>4
  <2> QED  BY <1>5, <2>2, <2>3
<1>7. PICK events2 \in Seq(Events) :
        /\ Len(events2) = n + 1 /\ events2[n + 1] = h
        /\ \A k \in 1 .. n : events2[k] = events[k]
  <2>1. /\ Append(events, h) \in Seq(Events) /\ Len(Append(events, h)) = Len(events) + 1
        /\ \A k \in 1 .. Len(events) : Append(events, h)[k] = events[k]
        /\ Append(events, h)[Len(events) + 1] = h
    BY <1>1, <1>3, AppendProperties
  <2> QED  BY <1>4, <2>1
<1>8. PICK diag2 \in [1 .. Len(events2) + 1 -> SUBSET (Sessions \X Entities)] :
        diag2[n + 2] = after /\ \A k \in 1 .. n + 1 : diag2[k] = diag[k]
  <2> DEFINE f == [k \in 1 .. n + 2 |-> IF k = n + 2 THEN after ELSE diag[k]]
  <2>1. f \in [1 .. n + 2 -> SUBSET (Sessions \X Entities)]
    BY <1>4, <1>6
  <2>2. f[n + 2] = after /\ \A k \in 1 .. n + 1 : f[k] = diag[k]
    BY <1>4
  <2>3. Len(events2) + 1 = n + 2
    BY <1>4, <1>7
  <2> HIDE DEF f
  <2> QED  BY <2>1, <2>2, <2>3
<1>9. PICK keo2 \in SUBSET (1 .. Len(events2) + 1) :
        /\ n + 2 \in keo2 <=> n + 1 \in keo \/ Several(h)
        /\ \A k \in 1 .. n + 1 : k \in keo2 <=> k \in keo
  <2> DEFINE K == IF n + 1 \in keo \/ Several(h) THEN keo \cup {n + 2} ELSE keo
  <2>1. K \in SUBSET (1 .. Len(events2) + 1)
    <3>1. keo \subseteq 1 .. n + 1 /\ Len(events2) + 1 = n + 2
      BY <1>4, <1>7
    <3>2. n + 2 \in 1 .. n + 2 /\ 1 .. n + 1 \subseteq 1 .. n + 2
      BY <1>4
    <3> QED  BY <3>1, <3>2
  <2>2. n + 2 \notin keo /\ n + 2 \notin 1 .. n + 1
    BY <1>4
  <2>3. /\ n + 2 \in K <=> n + 1 \in keo \/ Several(h)
        /\ \A k \in 1 .. n + 1 : k \in K <=> k \in keo
    BY <2>2
  <2> HIDE DEF K
  <2> QED  BY <2>1, <2>3
<1>10. Course(events2, diag2, keo2)'
  <2>1. SUFFICES ASSUME NEW k \in 1 .. n + 1
                 PROVE  /\ diag2[k + 1] = IF Offer(events2[k]) # {} /\ (events2[k].entity = {} \/ k \in keo2)
                                          THEN Servers(events2[k]) ELSE diag2[k]
                        /\ k + 1 \in keo2 <=> k \in keo2 \/ Several(events2[k])
    BY <1>7 DEF Course, Offer, Servers, OnlyCandidate, Several, Candidates
  <2>2. CASE k \in 1 .. n
    <3>1. k \in 1 .. n + 1 /\ k + 1 \in 1 .. n + 1
      BY <1>4, <2>2
    <3>2. /\ diag[k + 1] = IF Offer(events[k]) # {} /\ (events[k].entity = {} \/ k \in keo)
                           THEN Servers(events[k]) ELSE diag[k]
          /\ k + 1 \in keo <=> k \in keo \/ Several(events[k])
      BY <1>2, <1>4, <2>2 DEF OnCourse, Course
    <3> QED  BY <1>7, <1>8, <1>9, <2>2, <3>1, <3>2
  <2>3. CASE k = n + 1
    <3>1. k + 1 = n + 2
      BY <1>4, <2>3
    <3> QED  BY <1>5, <1>7, <1>8, <1>9, <2>3, <3>1
  <2>4. k \in 1 .. n \/ k = n + 1
    BY <1>4
  <2> QED  BY <2>2, <2>3, <2>4
<1>11. ASSUME NEW u \in UseCases
       PROVE  \E k \in 1 .. Len(events2) + 1, busy \in {0, 1} :
                Before(u, k, busy, events2, diag2, keo2)'
  <2>1. PICK k \in 1 .. n + 1, busy \in {0, 1} : Before(u, k, busy, events, diag, keo)
    BY <1>2, <1>4 DEF OnCourse
  <2>2. /\ handlers[u] \in Seq(Handlers) /\ h \in Handlers
        /\ handlers'[u] = Append(handlers[u], h)
    BY <1>3 DEF Publish, HeartbeatInv, Watched, Events
  <2>3. /\ Len(handlers'[u]) = Len(handlers[u]) + 1 /\ Len(handlers[u]) \in Nat
        /\ \A j \in 1 .. Len(handlers[u]) : handlers'[u][j] = handlers[u][j]
        /\ handlers'[u][Len(handlers[u]) + 1] = h
    BY <2>2, AppendProperties, LenProperties
  <2>4. Len(handlers[u]) = n + 1 - k + busy
    BY <1>4, <2>1 DEF Before
  <2>5. heartbeatDiag'[u] = diag2[k] /\ (heartbeatKeoWorkaround'[u] <=> k \in keo2)
    BY <1>8, <1>9, <2>1 DEF Before
  <2>6. Len(handlers'[u]) = Len(events2) + 1 - k + busy
    BY <1>4, <1>7, <2>3, <2>4
  <2>7. busy = 1 => handlers'[u][1].phase # "begin"
    <3>1. busy = 1 => 1 \in 1 .. Len(handlers[u])
      BY <1>4, <2>3, <2>4
    <3> QED  BY <2>1, <2>3, <3>1 DEF Before
  <2>8. ASSUME NEW j \in 1 .. Len(handlers'[u]), j > busy
        PROVE  /\ k + j - 1 - busy \in 1 .. Len(events2)
               /\ handlers'[u][j] = events2[k + j - 1 - busy]
    <3>1. CASE j \in 1 .. Len(handlers[u])
      <4>1. /\ k + j - 1 - busy \in 1 .. n
            /\ handlers[u][j] = events[k + j - 1 - busy]
        BY <1>4, <2>1, <2>8, <3>1 DEF Before
      <4>2. k + j - 1 - busy \in 1 .. n + 1
        BY <1>4, <4>1
      <4> QED  BY <1>7, <2>3, <3>1, <4>1, <4>2
    <3>2. CASE j = Len(handlers[u]) + 1
      <4>1. k + j - 1 - busy = n + 1
        BY <1>4, <2>4, <3>2
      <4>2. n + 1 \in 1 .. n + 1
        BY <1>4
      <4> QED  BY <1>7, <2>3, <3>2, <4>1, <4>2
    <3>3. j \in 1 .. Len(handlers[u]) \/ j = Len(handlers[u]) + 1
      BY <2>3, <2>8
    <3> QED  BY <3>1, <3>2, <3>3
  <2>9. Before(u, k, busy, events2, diag2, keo2)'
    BY <2>5, <2>6, <2>7, <2>8 DEF Before
  <2>10. k \in 1 .. Len(events2) + 1
    BY <1>4, <1>7
  <2> QED  BY <2>9, <2>10
<1>12. OnCourse(events2, diag2, keo2)'
  BY <1>10, <1>11 DEF OnCourse
<1> QED  BY <1>12 DEF SameCourse

\* What the first event of a queue does to what a use case watches.
LEMMA BeginOutcome ==
  ASSUME HeartbeatInv, NEW u \in UseCases, NEW i, NEW h \in Events, Begin(u, i, h)
  PROVE  /\ heartbeatDiag'[u] = IF Offer(h) # {} /\ (h.entity = {} \/ heartbeatKeoWorkaround[u])
                                THEN Servers(h) ELSE heartbeatDiag[u]
         /\ heartbeatKeoWorkaround'[u] <=> heartbeatKeoWorkaround[u] \/ Several(h)
         /\ \A v \in UseCases \ {u} : /\ heartbeatDiag'[v] = heartbeatDiag[v]
                                      /\ heartbeatKeoWorkaround'[v] = heartbeatKeoWorkaround[v]
         /\ Finish(u, i) \/ \E g \in Handlers : Continue(u, i, g) /\ g.phase # "begin"
<1>0. h \in Handlers /\ h.session \in Sessions
  BY DEF Events, Handlers
<1>1. Offer(h) = {} \/ \E e \in Entities : Offer(h) = {e}
  <2>1. Candidates(h.session) \subseteq Entities
    BY <1>0, ConfigAssumption DEF HeartbeatInv, Watched, Candidates
  <2>2. IsFiniteSet(Candidates(h.session))
    BY <2>1, EntityAssumption, FS_Subset
  <2>3. CASE h.entity = {}
    <3>1. Cardinality(Candidates(h.session)) = 1 => \E e : Candidates(h.session) = {e}
      BY <2>2, FS_Singleton
    <3> QED  BY <2>1, <2>3, <3>1 DEF Offer, OnlyCandidate
  <2>4. CASE h.entity # {}
    BY <2>4 DEF Offer, Events
  <2> QED  BY <2>3, <2>4
<1>2. LET chosen == IF h.entity = {} THEN OnlyCandidate(h) ELSE Workaround(u, h)
      IN  chosen = IF h.entity = {} \/ heartbeatKeoWorkaround[u] THEN Offer(h) ELSE {}
  BY DEF Offer, Workaround
<1>3. /\ heartbeatKeoWorkaround'[u] <=> heartbeatKeoWorkaround[u] \/ Several(h)
      /\ \A v \in UseCases \ {u} : heartbeatKeoWorkaround'[v] = heartbeatKeoWorkaround[v]
  <2>1. heartbeatKeoWorkaround' = [heartbeatKeoWorkaround EXCEPT ![u] = @ \/ Several(h)]
    BY DEF Begin
  <2>2. heartbeatKeoWorkaround \in [UseCases -> BOOLEAN]
    BY DEF HeartbeatInv, Watched
  <2> QED  BY <2>1, <2>2
<1>4. heartbeatDiag \in [UseCases -> SUBSET (Sessions \X Entities)]
  BY DEF HeartbeatInv, Watched
<1>5. CASE (h.entity = {} \/ heartbeatKeoWorkaround[u]) /\ Offer(h) # {}
  <2>1. PICK e \in Entities : Offer(h) = {e}
    BY <1>1, <1>5
  <2>2. /\ Watch(u, h.session, e)
        /\ \E phase \in {"request", "subscribe"} :
             Continue(u, i, [h EXCEPT !.entity = {e}, !.phase = phase])
    BY <1>2, <1>5, <2>1 DEF Begin
  <2>3. heartbeatDiag' = [heartbeatDiag EXCEPT ![u] = Servers(h)]
    BY <2>1, <2>2 DEF Watch, Servers
  <2>4. \E g \in Handlers : Continue(u, i, g) /\ g.phase # "begin"
    <3>1. PICK phase \in {"request", "subscribe"} :
            Continue(u, i, [h EXCEPT !.entity = {e}, !.phase = phase])
      BY <2>2
    <3>2. PICK es \in SUBSET Entities : es = {e}
      OBVIOUS
    <3>3. PICK g \in Handlers : /\ g = [h EXCEPT !.entity = es, !.phase = phase]
                                /\ g.entity = es /\ g.session = h.session
      BY <1>0, ChosenHandler
    <3>4. Continue(u, i, g)
      BY <3>1, <3>2, <3>3
    <3>5. g.phase = phase
      BY <3>3 DEF Handlers
    <3> QED  BY <3>4, <3>5
  <2> QED  BY <1>3, <1>4, <1>5, <2>3, <2>4
<1>6. CASE ~((h.entity = {} \/ heartbeatKeoWorkaround[u]) /\ Offer(h) # {})
  <2>1. Finish(u, i) /\ UNCHANGED heartbeatDiag
    BY <1>2, <1>6 DEF Begin
  <2> QED  BY <1>3, <1>6, <2>1
<1> QED  BY <1>5, <1>6

\* In order, only the first handler of a queue runs: it moves its use case on
\* by one event, or ends.
LEMMA OrderHandle ==
  ASSUME HeartbeatInv, SameCourse, NEW u \in UseCases, 1 \in DOMAIN handlers[u], HandleEvent(u, 1)
  PROVE  SameCourse'
<1>1. PICK events \in Seq(Events) :
        \E diag \in [1 .. Len(events) + 1 -> SUBSET (Sessions \X Entities)],
           keo \in SUBSET (1 .. Len(events) + 1) : OnCourse(events, diag, keo)
  BY DEF SameCourse
<1>2. PICK diag \in [1 .. Len(events) + 1 -> SUBSET (Sessions \X Entities)],
           keo \in SUBSET (1 .. Len(events) + 1) : OnCourse(events, diag, keo)
  BY <1>1
<1>3. PICK n \in Nat : n = Len(events)
  BY LenProperties
<1>4. PICK k \in 1 .. n + 1, busy \in {0, 1} : Before(u, k, busy, events, diag, keo)
  BY <1>2, <1>3 DEF OnCourse
<1>5. /\ handlers[u] \in Seq(Handlers) /\ 1 \in 1 .. Len(handlers[u]) /\ Len(handlers[u]) \in Nat
      /\ Len(handlers[u]) = n + 1 - k + busy
  BY <1>3, <1>4, LenProperties DEF HeartbeatInv, Watched, Before
<1>6. PICK h \in Handlers :
        /\ h = handlers[u][1]
        /\ Begin(u, 1, h) \/ Subscribe(u, 1, h) \/ RequestHeartbeat(u, 1, h)
  BY <1>5, ElementOfSeq DEF HandleEvent
<1>7. UNCHANGED config
  BY DEF HandleEvent
<1>8. busy = 0 => k \in 1 .. n /\ h = events[k] /\ h \in Events /\ h.phase = "begin"
  <2>1. ASSUME busy = 0 PROVE k + 1 - 1 - busy \in 1 .. n /\ h = events[k + 1 - 1 - busy]
    BY <1>3, <1>4, <1>5, <1>6, <2>1 DEF Before
  <2>2. ASSUME busy = 0 PROVE k + 1 - 1 - busy = k
    BY <1>3, <2>2
  <2>3. ASSUME busy = 0 PROVE k \in 1 .. n /\ h = events[k]
    BY <2>1, <2>2, <2>3
  <2> QED  BY <1>1, <1>3, <2>3, ElementOfSeq DEF Events
<1>9. busy = 1 => h.phase # "begin"
  BY <1>4, <1>6 DEF Before
<1> DEFINE Others == \A v \in UseCases \ {u} : /\ handlers'[v] = handlers[v]
                                               /\ heartbeatDiag'[v] = heartbeatDiag[v]
                                               /\ heartbeatKeoWorkaround'[v] = heartbeatKeoWorkaround[v]
<1>10. ASSUME NEW m \in 1 .. n + 1, NEW left \in {0, 1},
              heartbeatDiag'[u] = diag[m], heartbeatKeoWorkaround'[u] <=> m \in keo,
              Len(handlers'[u]) = n + 1 - m + left,
              left = 1 => handlers'[u][1].phase # "begin",
              \A j \in 1 .. Len(handlers'[u]) : j > left =>
                /\ m + j - 1 - left \in 1 .. n
                /\ handlers'[u][j] = events[m + j - 1 - left],
              Others
       PROVE  SameCourse'
  <2>1. Course(events, diag, keo)'
    BY <1>2, <1>7 DEF OnCourse, Course, Offer, Servers, OnlyCandidate, Several, Candidates
  <2>2. Before(u, m, left, events, diag, keo)'
    BY <1>3, <1>10 DEF Before
  <2>3. ASSUME NEW v \in UseCases \ {u}
        PROVE  \E l \in 1 .. Len(events) + 1, b \in {0, 1} : Before(v, l, b, events, diag, keo)'
    <3>1. PICK l \in 1 .. Len(events) + 1, b \in {0, 1} : Before(v, l, b, events, diag, keo)
      BY <1>2 DEF OnCourse
    <3>2. Before(v, l, b, events, diag, keo)'
      BY <1>10, <3>1 DEF Before
    <3> QED  BY <3>2
  <2>4. OnCourse(events, diag, keo)'
    BY <1>3, <2>1, <2>2, <2>3 DEF OnCourse
  <2> QED  BY <2>4 DEF SameCourse
\* The queue without its first handler, and the queue whose first handler goes on.
<1>11. ASSUME Finish(u, 1)
       PROVE  /\ Len(handlers'[u]) = Len(handlers[u]) - 1
              /\ \A j \in 1 .. Len(handlers'[u]) :
                   j + 1 \in 1 .. Len(handlers[u]) /\ handlers'[u][j] = handlers[u][j + 1]
              /\ \A v \in UseCases \ {u} : handlers'[v] = handlers[v]
  <2>1. PICK q : q = RemoveAt(handlers[u], 1)
    OBVIOUS
  <2>2. /\ q \in Seq(Handlers) /\ Len(q) = Len(handlers[u]) - 1
        /\ \A j \in 1 .. Len(q) :
             j >= 1 => j + 1 \in 1 .. Len(handlers[u]) /\ q[j] = handlers[u][j + 1]
    BY <1>5, <2>1, Removed
  <2>3. handlers'[u] = q /\ \A v \in UseCases \ {u} : handlers'[v] = handlers[v]
    BY <1>11, <2>1 DEF Finish, HeartbeatInv, Watched
  <2>4. \A j \in 1 .. Len(q) : j >= 1
    OBVIOUS
  <2> QED  BY <2>2, <2>3, <2>4
<1>12. ASSUME NEW g \in Handlers, Continue(u, 1, g)
       PROVE  /\ Len(handlers'[u]) = Len(handlers[u]) /\ handlers'[u][1] = g
              /\ \A j \in 1 .. Len(handlers[u]) : j > 1 => handlers'[u][j] = handlers[u][j]
              /\ \A v \in UseCases \ {u} : handlers'[v] = handlers[v]
  <2>1. /\ handlers'[u] = [handlers[u] EXCEPT ![1] = g]
        /\ \A v \in UseCases \ {u} : handlers'[v] = handlers[v]
    BY <1>12 DEF Continue, HeartbeatInv, Watched
  <2>2. /\ Len(handlers'[u]) = Len(handlers[u])
        /\ \A j \in 1 .. Len(handlers[u]) : handlers'[u][j] = IF j = 1 THEN g ELSE handlers[u][j]
    BY <1>5, <2>1, ExceptSeq
  <2> QED  BY <1>5, <2>1, <2>2
\* Busy or not, the rest of the queue is the events from there on.
<1>13. ASSUME NEW j \in 1 .. Len(handlers[u]), j > 1
       PROVE  k + j - 1 - busy \in 1 .. n /\ handlers[u][j] = events[k + j - 1 - busy]
  <2>1. j > busy
    BY <1>13, <1>5
  <2> QED  BY <1>3, <1>4, <1>13, <2>1 DEF Before
<1>14. CASE Begin(u, 1, h)
  <2>1. busy = 0 /\ k \in 1 .. n /\ h = events[k] /\ h \in Events
    BY <1>8, <1>9, <1>14 DEF Begin
  <2>2. k + 1 \in 1 .. n + 1
    BY <1>3, <2>1
  <2>3. /\ heartbeatDiag'[u] = IF Offer(h) # {} /\ (h.entity = {} \/ heartbeatKeoWorkaround[u])
                               THEN Servers(h) ELSE heartbeatDiag[u]
        /\ heartbeatKeoWorkaround'[u] <=> heartbeatKeoWorkaround[u] \/ Several(h)
        /\ \A v \in UseCases \ {u} : /\ heartbeatDiag'[v] = heartbeatDiag[v]
                                     /\ heartbeatKeoWorkaround'[v] = heartbeatKeoWorkaround[v]
        /\ Finish(u, 1) \/ \E g \in Handlers : Continue(u, 1, g) /\ g.phase # "begin"
    BY <1>14, <2>1, BeginOutcome
  <2>4. heartbeatDiag[u] = diag[k] /\ (heartbeatKeoWorkaround[u] <=> k \in keo)
    BY <1>4 DEF Before
  <2>5. /\ diag[k + 1] = IF Offer(h) # {} /\ (h.entity = {} \/ k \in keo)
                         THEN Servers(h) ELSE diag[k]
        /\ k + 1 \in keo <=> k \in keo \/ Several(h)
    BY <1>2, <1>3, <2>1 DEF OnCourse, Course
  <2>6. heartbeatDiag'[u] = diag[k + 1] /\ (heartbeatKeoWorkaround'[u] <=> k + 1 \in keo)
    BY <2>3, <2>4, <2>5
  <2>7. CASE Finish(u, 1)
    <3>1. Len(handlers'[u]) = n + 1 - (k + 1) + 0
      BY <1>3, <1>5, <1>11, <2>1, <2>7
    <3>2. ASSUME NEW j \in 1 .. Len(handlers'[u])
          PROVE  /\ (k + 1) + j - 1 - 0 \in 1 .. n
                 /\ handlers'[u][j] = events[(k + 1) + j - 1 - 0]
      <4>1. j + 1 \in 1 .. Len(handlers[u]) /\ j + 1 > 1 /\ handlers'[u][j] = handlers[u][j + 1]
        BY SMTT(30), <1>11, <2>7
      <4>2. k + (j + 1) - 1 - busy \in 1 .. n /\ handlers[u][j + 1] = events[k + (j + 1) - 1 - busy]
        BY <1>13, <4>1
      <4>3. k + (j + 1) - 1 - busy = (k + 1) + j - 1 - 0
        BY <1>3, <2>1, <3>2
      <4> QED  BY <4>1, <4>2, <4>3
    <3>3. Others
      BY <1>11, <2>3, <2>7
    <3>4. \A j \in 1 .. Len(handlers'[u]) : j > 0 =>
            /\ (k + 1) + j - 1 - 0 \in 1 .. n
            /\ handlers'[u][j] = events[(k + 1) + j - 1 - 0]
      BY <3>2
    <3>5. 0 \in {0, 1} /\ (0 = 1 => handlers'[u][1].phase # "begin")
      OBVIOUS
    <3> HIDE DEF Others
    <3> QED  BY <1>10, <2>2, <2>6, <3>1, <3>3, <3>4, <3>5, Zenon
  <2>8. ASSUME NEW g \in Handlers, Continue(u, 1, g), g.phase # "begin"
        PROVE  SameCourse'
    <3>1. Len(handlers'[u]) = n + 1 - (k + 1) + 1
      BY <1>3, <1>5, <1>12, <2>1, <2>8
    <3>2. ASSUME NEW j \in 1 .. Len(handlers'[u]), j > 1
          PROVE  /\ (k + 1) + j - 1 - 1 \in 1 .. n
                 /\ handlers'[u][j] = events[(k + 1) + j - 1 - 1]
      <4>1. j \in 1 .. Len(handlers[u]) /\ handlers'[u][j] = handlers[u][j]
        BY <1>12, <2>8, <3>2
      <4>2. k + j - 1 - busy \in 1 .. n /\ handlers[u][j] = events[k + j - 1 - busy]
        BY <1>13, <3>2, <4>1
      <4>3. k + j - 1 - busy = (k + 1) + j - 1 - 1
        BY <1>3, <2>1, <3>2
      <4> QED  BY <4>1, <4>2, <4>3
    <3>3. handlers'[u][1].phase # "begin"
      BY <1>12, <2>8
    <3>4. Others
      BY <1>12, <2>3, <2>8
    <3>5. \A j \in 1 .. Len(handlers'[u]) : j > 1 =>
            /\ (k + 1) + j - 1 - 1 \in 1 .. n
            /\ handlers'[u][j] = events[(k + 1) + j - 1 - 1]
      BY <3>2
    <3>6. 1 \in {0, 1}
      OBVIOUS
    <3> HIDE DEF Others
    <3> QED  BY <1>10, <2>2, <2>6, <3>1, <3>3, <3>4, <3>5, <3>6, Zenon
  <2> QED  BY <2>3, <2>7, <2>8
<1>15. ASSUME h.phase # "begin", UNCHANGED local
       PROVE  /\ busy = 1 /\ heartbeatDiag'[u] = diag[k]
              /\ heartbeatKeoWorkaround'[u] <=> k \in keo
  BY <1>4, <1>8, <1>15 DEF Before, local
<1>16. CASE Subscribe(u, 1, h)
  <2>1. h.phase # "begin" /\ UNCHANGED local
    BY <1>16 DEF Subscribe
  <2>2. PICK g \in Handlers : g = [h EXCEPT !.phase = "request"]
    BY DEF Handlers
  <2>3. Continue(u, 1, g) /\ g.phase = "request"
    BY <1>16, <2>2 DEF Subscribe, Handlers
  <2>4. /\ busy = 1 /\ heartbeatDiag'[u] = diag[k]
        /\ heartbeatKeoWorkaround'[u] <=> k \in keo
    BY <1>15, <2>1
  <2>5. Len(handlers'[u]) = n + 1 - k + 1 /\ handlers'[u][1].phase # "begin"
    BY <1>5, <1>12, <2>3, <2>4
  <2>6. ASSUME NEW j \in 1 .. Len(handlers'[u]), j > 1
        PROVE  k + j - 1 - 1 \in 1 .. n /\ handlers'[u][j] = events[k + j - 1 - 1]
    <3>1. j \in 1 .. Len(handlers[u]) /\ handlers'[u][j] = handlers[u][j]
      BY <1>12, <2>3, <2>6
    <3>2. k + j - 1 - busy \in 1 .. n /\ handlers[u][j] = events[k + j - 1 - busy]
      BY <1>13, <2>6, <3>1
    <3> QED  BY <2>4, <3>1, <3>2
  <2>7. \A j \in 1 .. Len(handlers'[u]) : j > 1 =>
          k + j - 1 - 1 \in 1 .. n /\ handlers'[u][j] = events[k + j - 1 - 1]
    BY <2>6
  <2>8. Others /\ 1 \in {0, 1}
    BY <1>12, <2>1, <2>3 DEF local
  <2> HIDE DEF Others
  <2> QED  BY <1>4, <1>10, <2>4, <2>5, <2>7, <2>8, Zenon
<1>17. CASE RequestHeartbeat(u, 1, h)
  <2>1. h.phase # "begin" /\ UNCHANGED local /\ Finish(u, 1)
    BY <1>17 DEF RequestHeartbeat
  <2>2. /\ busy = 1 /\ heartbeatDiag'[u] = diag[k]
        /\ heartbeatKeoWorkaround'[u] <=> k \in keo
    BY <1>15, <2>1
  <2>3. Len(handlers'[u]) = n + 1 - k + 0
    BY <1>3, <1>5, <1>11, <2>1, <2>2
  <2>4. ASSUME NEW j \in 1 .. Len(handlers'[u])
        PROVE  k + j - 1 - 0 \in 1 .. n /\ handlers'[u][j] = events[k + j - 1 - 0]
    <3>1. j + 1 \in 1 .. Len(handlers[u]) /\ j + 1 > 1 /\ handlers'[u][j] = handlers[u][j + 1]
      BY <1>11, <2>1
    <3>2. k + (j + 1) - 1 - busy \in 1 .. n /\ handlers[u][j + 1] = events[k + (j + 1) - 1 - busy]
      BY <1>13, <3>1
    <3>3. k + (j + 1) - 1 - busy = k + j - 1 - 0
      BY <1>3, <2>2, <2>4
    <3> QED  BY <3>1, <3>2, <3>3
  <2>5. \A j \in 1 .. Len(handlers'[u]) : j > 0 =>
          k + j - 1 - 0 \in 1 .. n /\ handlers'[u][j] = events[k + j - 1 - 0]
    BY <2>4
  <2>6. Others /\ 0 \in {0, 1} /\ (0 = 1 => handlers'[u][1].phase # "begin")
    BY <1>11, <2>1 DEF local
  <2> HIDE DEF Others
  <2> QED  BY <1>4, <1>10, <2>2, <2>3, <2>5, <2>6, Zenon
<1> QED  BY <1>6, <1>14, <1>16, <1>17

\* Every step keeps both use cases on the same course.
LEMMA OrderStep == OrderInv /\ [Next]_vars => OrderInv'
<1> SUFFICES ASSUME OrderInv, [Next]_vars, InOrder, SameCourse PROVE SameCourse'
  BY InvStep DEF OrderInv
<1>1. ASSUME NEW s \in Sessions, Connect(s) PROVE SameCourse'
  BY <1>1, OrderPublish DEF Connect, local, OrderInv
<1>2. ASSUME NEW s \in Sessions, NEW e \in Entities, Bind(s, e) PROVE SameCourse'
  BY <1>2, OrderPublish DEF Bind, local, OrderInv
<1>3. ASSUME UNCHANGED <<config, handlers, heartbeatDiag, heartbeatKeoWorkaround>> PROVE SameCourse'
  BY <1>3, OrderKept
<1>4. ASSUME NEW s \in Sessions, Disconnect(s) \/ Beat(s) \/ Receive(s) PROVE SameCourse'
  BY <1>3, <1>4 DEF Disconnect, Beat, Receive, local
<1>5. ASSUME NEW s \in Sessions, NEW e \in Entities, Answer(s, e) PROVE SameCourse'
  BY <1>3, <1>5 DEF Answer, local
<1>6. ASSUME NEW u \in UseCases, Run(u) PROVE SameCourse'
  BY <1>6, OrderHandle DEF Run, Running, OrderInv
<1>7. ASSUME Tick \/ UNCHANGED vars PROVE SameCourse'
  BY <1>3, <1>7 DEF Tick, vars, local
<1> QED  BY <1>1, <1>2, <1>4, <1>5, <1>6, <1>7 DEF Next

\* LPC and LPP watch the same server once both have handled the same events, in
\* order.
THEOREM SameServerWatched == Spec => []SameServer
<1>1. ASSUME OrderInv PROVE SameServer
  <2>1. SUFFICES ASSUME InOrder, \A u \in UseCases : handlers[u] = <<>>
                 PROVE  heartbeatDiag["LPC"] = heartbeatDiag["LPP"]
    BY DEF SameServer
  <2>2. PICK events \in Seq(Events) :
          \E diag \in [1 .. Len(events) + 1 -> SUBSET (Sessions \X Entities)],
             keo \in SUBSET (1 .. Len(events) + 1) : OnCourse(events, diag, keo)
    BY <1>1, <2>1 DEF OrderInv, SameCourse
  <2>3. PICK diag, keo : OnCourse(events, diag, keo)
    BY <2>2
  <2>4. ASSUME NEW u \in UseCases PROVE heartbeatDiag[u] = diag[Len(events) + 1]
    <3>1. PICK k \in 1 .. Len(events) + 1, busy \in {0, 1} :
            Before(u, k, busy, events, diag, keo)
      BY <2>3 DEF OnCourse
    <3>2. Len(handlers[u]) = 0
      BY <2>1
    <3>3. Len(events) \in Nat
      BY LenProperties
    <3>4. k = Len(events) + 1
      BY <3>1, <3>2, <3>3 DEF Before
    <3> QED  BY <3>1, <3>4 DEF Before
  <2> QED  BY <2>4 DEF UseCases
<1> QED  BY <1>1, OrderInit, OrderStep, PTL DEF Spec
=============================================================================
