------------------------------ MODULE RemoteData ------------------------------
(***************************************************************************)
(* How the use cases that act as clients learn the data of one remote      *)
(* entity. When the entity is added, every use case subscribes, binds and  *)
(* sends its first requests in a goroutine of its own. Each reply or       *)
(* notification updates the cache of the remote feature, and then one      *)
(* goroutine per use case handles the update: it sends further requests,   *)
(* or tells the application, which calls the accessor of that event. What  *)
(* is requested, handled and looked up is in the tables of the profiles.   *)
(*                                                                         *)
(* The connection and the cache belong to spine-go: messages to the device *)
(* are handled in order, and its answer updates the cache in that step.    *)
(***************************************************************************)
EXTENDS ProfileOrder, Integers, Bags

CONSTANTS
  Uses,        \* the combinations of use cases that are looked at
  MaxTrouble,  \* for each of them, how many functions of its features the device does
               \* not offer, values it changes and writes of the application, together
  Excused,     \* pairs of use case and event that AppKnows leaves out
  Raced,       \* pairs of use case and event that ToldReadable leaves out
  Unserved,    \* pairs of use case and accessor that Served leaves out
  Unbinding    \* use cases that WritesBound leaves out

VARIABLES
  using,      \* the use cases added to the local entity
  features,   \* server features of the entity that a use case has a client for
  missing,    \* functions of those features that cannot be read
  device,     \* version of each function at the device
  cache,      \* version the local cache holds, 0 if none
  subscribed, \* features in the local list of subscriptions
  bound,      \* features in the local list of bindings
  notifies,   \* features whose subscription the device has handled
  binds,      \* features whose binding the device has handled
  wire,       \* messages on their way to the device
  connecting, \* how many of its first messages each use case has dealt with
  handlers,   \* bag of updates a use case has still to handle
  current,    \* events told, whose accessor then gave what the device has
  unread,     \* events told once, whose accessor then gave an error
  pushed,     \* functions whose first value was a notification, not an answer
  changes     \* changes of the device on its own, and writes

net   == <<subscribed, bound, notifies, binds>>
fixed == <<using, features, missing>>
vars  == <<fixed, net, device, cache, wire, connecting, handlers, current, unread, pushed,
           changes>>

-----------------------------------------------------------------------------
\* Nothing is subscribed, bound, requested or looked up without the features on
\* both sides; a request also needs a function that can be read.
Readable(m) == m.feature \in features /\ m.function \notin missing
Cached(fns) == \A fn \in fns : fn \in DOMAIN cache /\ cache[fn] > 0

\* Mutant: a feature that is subscribed is taken to be bound.
SentOnce(m) ==
  CASE m.kind = "subscribe" -> m.feature \in features \ subscribed
    [] m.kind = "bind"      -> m.feature \in features \ subscribed
    [] OTHER                -> Readable(m)

\* The messages that are sent now: nothing is subscribed or bound twice.
Sent(m) ==
  CASE m.kind = "subscribe" -> m.feature \in features \ subscribed
    [] m.kind = "bind"      -> m.feature \in features \ bound
    [] OTHER                -> Readable(m)

\* Mutant: only the first is requested.
RequestsFirst(fns) ==
  IF fns # <<>> /\ Readable(Read(Head(fns))) THEN <<Read(Head(fns))>> ELSE <<>>

\* The requests for those of fns that can be read, one after the other.
Requests(fns) ==
  LET sent   == {i \in DOMAIN fns : Sent(Read(fns[i]))}
      nth(k) == CHOOSE i \in sent : Cardinality({j \in sent : j <= i}) = k
  IN  [k \in 1 .. Cardinality(sent) |-> Read(fns[nth(k)])]

\* Mutant: every use case handles it.
SpawnedForAll(fn, notified) ==
  SetToBag({[use |-> u, function |-> fn, notified |-> notified] : u \in using})

\* An update of a function is handled by every use case that has a case for it.
Spawned(fn, notified) ==
  SetToBag({[use |-> u, function |-> fn, notified |-> notified] :
              u \in {w \in using : fn \in DOMAIN UseCases[w].handlers}})

\* Mutant: an event is told whether or not its data checks out.
RaisedUnchecked(h) == {t \in Told[h.use][h.function] : t.notified => h.notified}

\* The events whose data checks out once an update is handled.
Raised(h) ==
  {t \in Told[h.use][h.function] : Cached(t.checks) /\ (t.notified => h.notified)}

\* A write needs something that is only requested after the feature was bound.
WritesLed(us) ==
  \A u \in us \ Unbinding : \A w \in DOMAIN UseCases[u].writes :
    \E n \in UseCases[u].writes[w].needs \cap FunctionsAt(FeatureOf[UseCases[u].writes[w].function]) :
      BoundFirst(us, n)

\* What the accessor of an event needs has been checked, is the update itself, or
\* is requested before anything else about the feature and always there with it.
EventsLed(us) ==
  \A u \in us : \A fn \in DOMAIN UseCases[u].handlers : \A t \in Told[u][fn] :
    <<u, t.event>> \notin Raced =>
      \A n \in t.needs \ (t.checks \cup {fn}) :
        /\ Leads(us, n, FeatureOf[fn])
        /\ n \notin Handled(us) /\ FeatureOf[n] \in Clients(us)
        /\ FeatureOf[fn] \in Required(us) => FeatureOf[n] \in Required(us)

\* Every event that is not excused is raised by one function, which is read after
\* its feature was subscribed: either a connect method requests it, or the
\* handler of a function that the event looks at. Whatever else it looks at leads
\* the feature.
EventsRaised(us) ==
  \A u \in us : \A t \in Declared[u] :
    (~t.notified /\ <<u, t.event>> \notin Excused) =>
      LET looked == t.checks \cup t.needs
          led    == {n \in looked : Leads(us, n, FeatureOf[t.function])}
      IN  /\ t.function \in DOMAIN UseCases[u].handlers /\ t \in Told[u][t.function]
          /\ \A r \in Declared[u] : r.event = t.event => r.function = t.function
          /\ Subscribed(us, FeatureOf[t.function])
          /\ \/ Asked(us, t.function) /\ looked \subseteq led \cup {t.function}
             \/ \E by \in looked :
                  /\ Asked(us, by) /\ \E v \in us : Triggers(v, by, t.function)
                  /\ looked \subseteq led \cup {by, t.function}

\* What an accessor needs belongs to the features its scenario requires, and a
\* connect method requests it or something else the accessor needs leads to it.
AccessorsAsked(us) ==
  \A u \in us : \A a \in DOMAIN UseCases[u].accessors :
    <<u, a>> \notin Unserved =>
      LET r == UseCases[u].accessors[a]
      IN  \A n \in r.needs :
            /\ n \in FunctionTypes
            /\ FeatureOf[n] \in UseCases[u].scenarios[r.scenario].features
            /\ \/ Asked(us, n)
               \/ \E by \in r.needs : Asked(us, by) /\ \E v \in us : Triggers(v, by, n)

\* What the tables say of each combination that is looked at.
ASSUME TroubleAssumption == MaxTrouble \in [Uses -> Nat]
ASSUME TablesAssumption ==
  \A us \in Uses : us \subseteq DOMAIN UseCases /\ \A u \in us : WellFormed(us, u)
ASSUME BindingAssumption == \A us \in Uses : WritesLed(us)
ASSUME ReadingAssumption == \A us \in Uses : EventsLed(us)
ASSUME TellingAssumption == \A us \in Uses : EventsRaised(us)
ASSUME ServingAssumption == \A us \in Uses : AccessorsAsked(us)

Init ==
  /\ using \in Uses
  /\ features \in {Clients(using), Clients(using) \cap Required(using)}
  /\ missing \in {m \in SUBSET {fn \in Handled(using) : FeatureOf[fn] \in features} :
                    Cardinality(m) <= MaxTrouble[using]}
  /\ device = [fn \in UNION {FunctionsOf[f] : f \in features} |-> 1]
  /\ cache = [fn \in DOMAIN device |-> 0]
  /\ subscribed = {} /\ bound = {} /\ notifies = {} /\ binds = {}
  /\ wire = <<>>
  /\ connecting = [u \in using |-> 0]
  /\ handlers = EmptyBag
  /\ current = {} /\ unread = {} /\ pushed = {}
  /\ changes = 0

-----------------------------------------------------------------------------
\* One call of the connect method of a use case: a check whether the feature is
\* subscribed or bound and the message, or a request. Errors are only logged.
Connected(u) ==
  /\ connecting[u] < Len(UseCases[u].connected)
  /\ LET m == UseCases[u].connected[connecting[u] + 1]
     IN  /\ wire' = IF Sent(m) THEN Append(wire, m) ELSE wire
         /\ subscribed' = IF Sent(m) /\ m.kind = "subscribe"
                            THEN subscribed \cup {m.feature} ELSE subscribed
         /\ bound' = IF Sent(m) /\ m.kind = "bind" THEN bound \cup {m.feature} ELSE bound
  /\ connecting' = [connecting EXCEPT ![u] = @ + 1]
  /\ UNCHANGED <<fixed, notifies, binds, device, cache, handlers, current, unread, pushed, changes>>

\* A use case handles an update: the requests of its handler, and the events
\* whose data checks out. The application calls the accessor in the event.
HandleEvent(h) ==
  /\ BagIn(h, handlers)
  /\ handlers' = handlers (-) SetToBag({h})
  /\ wire' = wire \o Requests(UseCases[h.use].handlers[h.function].requests)
  /\ current' = current \cup
       {<<t.use, t.event>> :
          t \in {r \in Raised(h) : Cached(r.needs) /\ cache[h.function] = device[h.function]}}
  /\ unread' = unread \cup {<<t.use, t.event>> : t \in {r \in Raised(h) : ~Cached(r.needs)}}
  /\ UNCHANGED <<fixed, net, device, cache, connecting, pushed, changes>>

\* The message of a method that writes, with what it is sent on.
WriteOf(u, w) ==
  LET method == UseCases[u].writes[w]
  IN  [kind |-> "write", feature |-> FeatureOf[method.function], function |-> method.function,
       again |-> method.again, needs |-> method.needs, use |-> u]

\* The application writes through a use case that finds what it needs.
Write(u, w) ==
  /\ changes + Cardinality(missing) < MaxTrouble[using]
  /\ Cached(UseCases[u].writes[w].needs)
  /\ wire' = Append(wire, WriteOf(u, w))
  /\ changes' = changes + 1
  /\ UNCHANGED <<fixed, net, device, cache, connecting, handlers, current, unread, pushed>>

-----------------------------------------------------------------------------
\* Mutant: an update by a notification is not handled.
UpdateUnhandled(fn) ==
  /\ device' = [device EXCEPT ![fn] = @ + 1]
  /\ current' = {k \in current : \A t \in Declared[k[1]] : t.event = k[2] => t.function # fn}
  /\ IF FeatureOf[fn] \in notifies
       THEN /\ cache' = [cache EXCEPT ![fn] = device'[fn]]
            /\ pushed' = IF cache[fn] = 0 THEN pushed \cup {fn} ELSE pushed
            /\ UNCHANGED handlers
       ELSE UNCHANGED <<cache, handlers, pushed>>

\* The device. A new version of a function is notified to a subscriber, and
\* what the application read last is no longer what the device has.
Update(fn) ==
  /\ device' = [device EXCEPT ![fn] = @ + 1]
  /\ current' = {k \in current : \A t \in Declared[k[1]] : t.event = k[2] => t.function # fn}
  /\ IF FeatureOf[fn] \in notifies
       THEN /\ cache' = [cache EXCEPT ![fn] = device'[fn]]
            /\ handlers' = handlers (+) Spawned(fn, TRUE)
            /\ pushed' = IF cache[fn] = 0 THEN pushed \cup {fn} ELSE pushed
       ELSE UNCHANGED <<cache, handlers, pushed>>

AnswerSubscribe ==
  /\ wire # <<>> /\ Head(wire).kind = "subscribe"
  /\ notifies' = notifies \cup {Head(wire).feature}
  /\ wire' = Tail(wire)
  /\ UNCHANGED <<fixed, subscribed, bound, binds, device, cache, connecting, handlers, current,
                 unread, pushed, changes>>

AnswerBind ==
  /\ wire # <<>> /\ Head(wire).kind = "bind"
  /\ binds' = binds \cup {Head(wire).feature}
  /\ wire' = Tail(wire)
  /\ UNCHANGED <<fixed, subscribed, bound, notifies, device, cache, connecting, handlers, current,
                 unread, pushed, changes>>

AnswerRead ==
  /\ wire # <<>> /\ Head(wire).kind = "read"
  /\ LET fn == Head(wire).function
     IN  /\ cache' = [cache EXCEPT ![fn] = device[fn]]
         /\ handlers' = handlers (+) Spawned(fn, FALSE)
  /\ wire' = Tail(wire)
  /\ UNCHANGED <<fixed, net, device, connecting, current, unread, pushed, changes>>

\* An accepted write changes the function. Its result makes some methods read
\* the function again.
Accept ==
  /\ wire # <<>> /\ Head(wire).kind = "write"
  /\ Update(Head(wire).function)
  /\ wire' = Tail(wire) \o Requests(Head(wire).again)
  /\ UNCHANGED <<fixed, net, connecting, unread, changes>>

Reject ==
  /\ wire # <<>> /\ Head(wire).kind = "write"
  /\ wire' = Tail(wire)
  /\ UNCHANGED <<fixed, net, device, cache, connecting, handlers, current, unread, pushed, changes>>

\* The device changes a value on its own.
Change(fn) ==
  /\ changes + Cardinality(missing) < MaxTrouble[using]
  /\ fn \in Handled(using) \ missing
  /\ Update(fn)
  /\ changes' = changes + 1
  /\ UNCHANGED <<fixed, net, wire, connecting, unread>>

\* Nothing is under way.
Quiet ==
  /\ wire = <<>> /\ handlers = EmptyBag
  /\ \A u \in using : connecting[u] = Len(UseCases[u].connected)

Client == (\E u \in using : Connected(u)) \/ (\E h \in BagToSet(handlers) : HandleEvent(h))
Device == AnswerSubscribe \/ AnswerBind \/ AnswerRead \/ Accept \/ Reject

Next ==
  \/ \E u \in using : Connected(u)
  \/ \E h \in BagToSet(handlers) : HandleEvent(h)
  \/ \E u \in using : \E w \in DOMAIN UseCases[u].writes : Write(u, w)
  \/ AnswerSubscribe \/ AnswerBind \/ AnswerRead \/ Accept \/ Reject
  \/ \E fn \in DOMAIN device : Change(fn)

\* Goroutines run and the device answers.
Spec == Init /\ [][Next]_vars /\ WF_vars(Client) /\ WF_vars(Device)

-----------------------------------------------------------------------------
\* The state of each variable.
TypeOK ==
  /\ features \subseteq FeatureTypes /\ missing \subseteq FunctionTypes
  /\ \A fn \in DOMAIN device : device[fn] \in 1 .. (1 + MaxTrouble[using]) /\ cache[fn] \in 0 .. device[fn]
  /\ pushed \subseteq DOMAIN cache
  /\ notifies \subseteq subscribed /\ binds \subseteq bound
  /\ subscribed \subseteq features /\ bound \subseteq features
  /\ \A u \in using : connecting[u] \in 0 .. Len(UseCases[u].connected)
  /\ \A h \in BagToSet(handlers) : h.function \in DOMAIN UseCases[h.use].handlers
  /\ current \cup unread \subseteq
       UNION {{<<u, t.event>> : t \in Declared[u]} : u \in using}

\* Once nothing is under way, the application was told every event whose data
\* the device offers after the data last changed, and found the device's value
\* in the accessor the event names (types.go of each use case). A heartbeat is
\* an event only if it comes as a notification.
AppKnows ==
  Quiet => \A u \in using : \A t \in Declared[u] :
    (/\ ~t.notified
     /\ \A fn \in {t.function} \cup t.checks \cup t.needs : Readable(Read(fn)))
      => <<u, t.event>> \in current \cup Excused

\* Whenever the application is told an event, the accessor the event names has
\* data to return.
ToldReadable == unread \subseteq Raced

\* Once nothing is under way, the accessors of every scenario whose server
\* features the entity has (which is what makes the scenario available) find
\* their data, unless the device does not offer a function they need.
Served ==
  Quiet => \A u \in using : \A a \in DOMAIN UseCases[u].accessors :
    LET r == UseCases[u].accessors[a]
    IN  (/\ UseCases[u].scenarios[r.scenario].features \subseteq features
         /\ r.needs \cap missing = {})
          => Cached(r.needs) \/ <<u, a>> \in Unserved

\* A write that rests on answers to requests reaches the device only after the
\* binding of its feature. One that rests on a notification may come earlier: the
\* device may notify a value between the subscription and the binding.
WritesBound ==
  (/\ wire # <<>> /\ Head(wire).kind = "write" /\ Head(wire).use \notin Unbinding
   /\ Head(wire).needs \cap pushed = {})
    => Head(wire).feature \in binds

\* Requests that answers make a use case send come to an end.
Settles == <>[]Quiet
=============================================================================
