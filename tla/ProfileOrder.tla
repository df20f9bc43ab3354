----------------------------- MODULE ProfileOrder -----------------------------
(***************************************************************************)
(* In which order the use cases of one entity learn its data, as far as    *)
(* the tables of the profiles decide it: what is sent before what, and     *)
(* what asks for what. RemoteData assumes these facts of the combinations  *)
(* of use cases it is about, TLC evaluates them, and the proofs rest on    *)
(* nothing else in the tables.                                             *)
(***************************************************************************)
EXTENDS Profiles

\* The messages about a feature that need no content.
FunctionsAt(f) == {fn \in FunctionTypes : FeatureOf[fn] = f}
Subscribe(f)   == Message("subscribe", f, "")
Bind(f)        == Message("bind", f, "")
ReadsAt(f)     == {Read(fn) : fn \in FunctionsAt(f)}
About(f)       == {Subscribe(f), Bind(f)} \cup ReadsAt(f)

\* The features the use cases have clients for, those a mandatory scenario
\* requires, and the functions whose updates are handled.
Required(us) ==
  UNION {UNION {UseCases[u].scenarios[n].features :
                  n \in {s \in DOMAIN UseCases[u].scenarios : UseCases[u].scenarios[s].mandatory}} :
           u \in us}
Handled(us) == UNION {DOMAIN UseCases[u].handlers : u \in us}
Clients(us) == UNION {UseCases[u].features : u \in us}

\* The tables speak of existing features and functions. Handlers, and the
\* results of writes, request functions of their feature only. The feature that
\* is written is there: it is required, or the write needs data of it.
WellFormed(us, u) ==
  /\ UseCases[u].features \subseteq FeatureTypes
  /\ UseCases[u].connected \in Seq(UNION {About(f) : f \in FeatureTypes})
  /\ DOMAIN UseCases[u].handlers \subseteq FunctionTypes
  /\ \A fn \in DOMAIN UseCases[u].handlers :
       UseCases[u].handlers[fn].requests \in Seq(FunctionsAt(FeatureOf[fn]))
  /\ \A w \in DOMAIN UseCases[u].writes :
       LET f == FeatureOf[UseCases[u].writes[w].function]
       IN  /\ UseCases[u].writes[w].function \in FunctionTypes
           /\ UseCases[u].writes[w].needs \subseteq FunctionTypes
           /\ UseCases[u].writes[w].again \in Seq(FunctionsAt(f))
           /\ \/ f \in Clients(us) \cap Required(us)
              \/ UseCases[u].writes[w].needs \cap FunctionsAt(f) # {}

\* The functions that connect methods request, that the handlers of an update of
\* another function request, and that are read again after a write.
Asked(us, fn) ==
  \E u \in us : \E k \in DOMAIN UseCases[u].connected : UseCases[u].connected[k] = Read(fn)
Triggers(u, by, fn) ==
  /\ by \in DOMAIN UseCases[u].handlers
  /\ \E i \in DOMAIN UseCases[u].handlers[by].requests : UseCases[u].handlers[by].requests[i] = fn
Repeats(u, fn) ==
  \E w \in DOMAIN UseCases[u].writes :
    \E i \in DOMAIN UseCases[u].writes[w].again : UseCases[u].writes[w].again[i] = fn

\* A connect method that sends one of the messages in later has sent m before.
Before(us, m, later) ==
  \A u \in us : \A k \in DOMAIN UseCases[u].connected :
    UseCases[u].connected[k] \in later =>
      \E j \in 1 .. k - 1 : UseCases[u].connected[j] = m

\* Function n is requested before anything else is asked of feature f, and f is
\* subscribed before anything of it is read, by results of writes as well.
Repeated(us, f) == \E u \in us : \E fn \in FunctionsAt(f) : Repeats(u, fn)
Leads(us, n, f) == n \in FunctionTypes /\ Before(us, Read(n), About(f)) /\ ~Repeated(us, f)
Subscribed(us, f) == Before(us, Subscribe(f), ReadsAt(f)) /\ ~Repeated(us, f)

\* Function n is requested after its feature was bound, by connect methods only.
BoundFirst(us, n) ==
  /\ Before(us, Bind(FeatureOf[n]), {Read(n)})
  /\ \A v \in us : ~Repeats(v, n) /\ \A by \in FunctionTypes : ~Triggers(v, by, n)
=============================================================================
