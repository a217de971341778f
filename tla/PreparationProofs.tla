-------------------------- MODULE PreparationProofs --------------------------
(***************************************************************************)
(* For every application, deploy target and host, however often its files  *)
(* change and whatever fails: a stage closes what it opened, shows the     *)
(* secret it was given or none, loads what the files declare and nothing   *)
(* else, refuses only what cannot be loaded, and to Deployment it is one   *)
(* step of Begin.                                                          *)
(***************************************************************************)
EXTENDS Preparation, SequenceTheorems, TLAPS

\* Where the stage stands decides which clients are open, and which of them its
\* return will close.
OpenWhere ==
    /\ pc \in {"called", "connect", "connectRegistry", "connected", "load", "list",
               "listing", "planning", "returned"}
    /\ pc \in {"called", "connect"} => open = {} /\ deferred = {}
    /\ pc = "connectRegistry" => open = {"cluster"} /\ deferred = {}
    /\ pc \in {"connected", "load", "list", "planning"} =>
          open = {"cluster"} /\ deferred = {"cluster"}
    /\ pc = "listing" => open = {"cluster", "listing"} /\ deferred = {"cluster"}
    /\ pc = "returned" => open = {}

\* What each client may show is a function of the config alone.
ShownInv == DOMAIN shown = Clients /\ NamedSecretIsShown

Stepping ==
    \/ Check \/ ConnectCluster \/ ConnectRegistry \/ ConnectRegistryFails
    \/ ConnectWithoutRegistry
    \/ ReadApplication \/ ReadEntry \/ TakeDocument \/ CheckOwnership
    \/ DialListing \/ EndListing \/ EndStage \/ ClientFails \/ Rotate

LEMMA StepsOfNext == Next <=> Stepping
BY DEF Next, Stage, Stepping

-----------------------------------------------------------------------------
(***************************************************************************)
(* Closing.                                                                *)
(***************************************************************************)
LEMMA OpenInit == Init => OpenWhere
BY DEF Init, OpenWhere

LEMMA OpenStep == OpenWhere /\ [Next]_vars => OpenWhere'
<1> SUFFICES ASSUME OpenWhere, [Next]_vars PROVE OpenWhere'
    OBVIOUS
<1> USE DEF OpenWhere, Return, GoTo
<1>1. CASE Check BY <1>1 DEF Check
<1>2. CASE ConnectCluster BY <1>2 DEF ConnectCluster
<1>3. CASE ConnectRegistry BY <1>3 DEF ConnectRegistry
<1>4. CASE ConnectRegistryFails BY <1>4 DEF ConnectRegistryFails, RegistryFails
<1>5. CASE ConnectWithoutRegistry BY <1>5 DEF ConnectWithoutRegistry
<1>6. CASE ReadApplication BY <1>6 DEF ReadApplication
<1>7. CASE ReadEntry BY <1>7 DEF ReadEntry
<1>8. CASE TakeDocument BY <1>8 DEF TakeDocument
<1>9. CASE CheckOwnership BY <1>9 DEF CheckOwnership
<1>10. CASE DialListing BY <1>10 DEF DialListing
<1>11. CASE EndListing BY <1>11 DEF EndListing
<1>12. CASE EndStage BY <1>12 DEF EndStage
<1>13. CASE ClientFails BY <1>13 DEF ClientFails
<1>14. CASE Rotate BY <1>14 DEF Rotate
<1>15. CASE UNCHANGED vars BY <1>15 DEF vars
<1> QED
    BY <1>1, <1>2, <1>3, <1>4, <1>5, <1>6, <1>7, <1>8, <1>9, <1>10, <1>11, <1>12, <1>13,
       <1>14, <1>15, StepsOfNext DEF Stepping

\* Whatever fails between connecting and returning, no client stays open.
THEOREM StageClosesItsClients == Spec => []ClientsAreClosed
<1>1. OpenWhere => ClientsAreClosed BY DEF OpenWhere, ClientsAreClosed
<1> QED BY <1>1, OpenInit, OpenStep, PTL DEF Spec

-----------------------------------------------------------------------------
(***************************************************************************)
(* What the clients show.                                                  *)
(***************************************************************************)
LEMMA BrokerClientShows ==
    ASSUME NEW config, NEW h, BrokerClient(config, h) # "error"
    PROVE  BrokerClient(config, h) = IF config.sasl = None THEN "nothing" ELSE "secret"
BY DEF BrokerClient, ResolveSecret

LEMMA RegistryClientShows ==
    ASSUME NEW c, NEW h, RegistryClient(c, h) # "error"
    PROVE  RegistryClient(c, h) = "secret" <=> NamesSecret(c)
BY DEF RegistryClient, ResolveSecret

LEMMA ShownInit == Init => ShownInv
BY DEF Init, ShownInv, NamedSecretIsShown, Clients

LEMMA ShownStep == ShownInv /\ [Next]_vars => ShownInv'
<1> SUFFICES ASSUME ShownInv, [Next]_vars PROVE ShownInv'
    OBVIOUS
<1> USE DEF ShownInv, NamedSecretIsShown
<1>1. CASE UNCHANGED <<request, shown>>
    BY <1>1
<1>2. CASE ConnectCluster
    <2>1. CASE BrokerClient(request.config, host) = "error"
        BY <1>2, <2>1 DEF ConnectCluster
    <2>2. CASE BrokerClient(request.config, host) # "error"
        BY <1>2, <2>2, BrokerClientShows DEF ConnectCluster, Clients
    <2> QED BY <2>1, <2>2
<1>3. CASE ConnectRegistry
    BY <1>3, RegistryClientShows DEF ConnectRegistry, Clients
<1>4. CASE DialListing
    <2>1. CASE BrokerClient(request.config, host) = "error"
        BY <1>4, <2>1 DEF DialListing
    <2>2. CASE BrokerClient(request.config, host) # "error"
        BY <1>4, <2>2, BrokerClientShows DEF DialListing, Clients
    <2> QED BY <2>1, <2>2
<1>5. ASSUME Next, ~ConnectCluster, ~ConnectRegistry, ~DialListing
      PROVE  UNCHANGED <<request, shown>>
    BY <1>5, StepsOfNext
       DEF Stepping, Check, ConnectRegistryFails, ConnectWithoutRegistry, ReadApplication,
           ReadEntry, TakeDocument, CheckOwnership, EndListing, EndStage, ClientFails, Rotate
<1> QED BY <1>1, <1>2, <1>3, <1>4, <1>5 DEF vars

\* A client is made with the secret its config names or not at all, and shows no
\* secret when it names none, although the files are read again and again while
\* they change.
THEOREM NamedSecretsAreShown == Spec => []NamedSecretIsShown
<1>1. ShownInv => NamedSecretIsShown BY DEF ShownInv
<1> QED BY <1>1, ShownInit, ShownStep, PTL DEF Spec

-----------------------------------------------------------------------------
(***************************************************************************)
(* Loading, as a relation between the documents taken so far, whichever    *)
(* they are, and the topics loaded.                                        *)
(***************************************************************************)
Fine(app, p) ==
    LET d == DocumentAt(app, p) IN Validate(d) /\ SchemaLoads(d, app)

NameAt(app, p) == DocumentAt(app, p).name

LoadedFrom(app, topics, C) ==
    /\ topics \in [Topics -> Topic \union {None}]
    /\ \A p \in C : Fine(app, p) /\ topics[NameAt(app, p)] = TopicOf(DocumentAt(app, p), app)
    /\ \A p, q \in C : NameAt(app, p) = NameAt(app, q) => p = q
    /\ \A t \in Topics : topics[t] # None => \E p \in C : NameAt(app, p) = t

LEMMA EntryFacts ==
    ASSUME NEW app \in Application, app.entries # None
    PROVE  /\ app.entries \in Seq(Entry)
           /\ DOMAIN app.entries = 1..Len(app.entries)
           /\ \A i \in DOMAIN app.entries :
                /\ app.entries[i].yaml \in BOOLEAN /\ app.entries[i].readable \in BOOLEAN
                /\ app.entries[i].documents \in Seq(Document)
                /\ DOMAIN app.entries[i].documents = 1..Len(app.entries[i].documents)
                /\ \A j \in DOMAIN app.entries[i].documents :
                     app.entries[i].documents[j] \in Document
<1>1. app.entries \in Seq(Entry)
  BY DEF Application
<1>2. \A i \in DOMAIN app.entries : app.entries[i] \in Entry
  BY <1>1
<1>3. \A i \in DOMAIN app.entries : app.entries[i].documents \in Seq(Document)
  BY <1>2 DEF Entry
<1> QED
  BY <1>1, <1>2, <1>3 DEF Entry

LEMMA PlaceFacts ==
    ASSUME NEW app \in Application, app.entries # None
    PROVE  /\ \A i, j : <<i, j>> \in Places(app)
                <=> /\ i \in Files(app) /\ j \in DOMAIN app.entries[i].documents
                    /\ Stated(app.entries[i].documents[j])
           /\ \A p \in Places(app) :
                /\ p = <<p[1], p[2]>>
                /\ p[1] \in 1..Len(app.entries) /\ app.entries[p[1]].yaml
                /\ p[2] \in 1..Len(app.entries[p[1]].documents)
                /\ app.entries[p[1]].documents[p[2]] \in Document
<1> DEFINE here(i) == {j \in DOMAIN app.entries[i].documents : Stated(app.entries[i].documents[j])}
<1>1. Places(app) = UNION {{i} \X here(i) : i \in Files(app)}
  BY DEF Places
<1>2. \A i, j : <<i, j>> \in Places(app) <=> i \in Files(app) /\ j \in here(i)
  <2> HIDE DEF here
  <2> QED
    BY <1>1
<1>3. \A p \in Places(app) : p = <<p[1], p[2]>> /\ p[1] \in Files(app) /\ p[2] \in here(p[1])
  <2> HIDE DEF here
  <2> QED
    BY <1>1
<1> QED
  BY <1>2, <1>3, EntryFacts DEF Files

\* A document that passed its checks is a topic with a name.
LEMMA FineIsTopic ==
    ASSUME NEW app \in Application, app.entries # None, NEW p \in Places(app), Fine(app, p)
    PROVE  /\ NameAt(app, p) \in Topics
           /\ TopicOf(DocumentAt(app, p), app) \in Topic
<1> DEFINE raw == app.entries[p[1]].documents[p[2]]
           d   == DocumentAt(app, p)
<1>1. raw \in Document /\ d = ApplyDefaults(raw, app.defaults)
  BY PlaceFacts DEF DocumentAt
<1>2. /\ d.name = raw.name /\ d.schema = raw.schema
      /\ d.config = [k \in Keys |-> IF raw.config # None /\ raw.config[k] # None
                                    THEN raw.config[k] ELSE app.defaults.config[k]]
  <2> HIDE DEF raw, d
  <2> QED
    BY <1>1 DEF ApplyDefaults, Document
<1>3. d.config \in Config
  <2>1. app.defaults.config \in Config /\ (raw.config # None => raw.config \in Config)
    BY <1>1 DEF Application, Defaults, Document
  <2> QED
    BY <1>2, <2>1 DEF Config
<1>4. Validate(d) /\ SchemaLoads(d, app)
  BY DEF Fine
<1>5. d.name \in Topics /\ d.partitions \in Positive /\ d.replicationFactor \in Positive
  BY <1>1, <1>2, <1>4 DEF Validate, Document
<1>6. d.schema # None
      => [subject |-> d.schema.subject, body |-> app.schemas[d.schema.file]] \in Schema
  <2> SUFFICES ASSUME d.schema # None
               PROVE  [subject |-> d.schema.subject, body |-> app.schemas[d.schema.file]] \in Schema
    OBVIOUS
  <2>1. /\ d.schema.subject \in Subjects \union {None}
        /\ d.schema.file \in SchemaFiles \union {None}
    BY <1>1, <1>2 DEF Document
  <2>2. d.schema.subject \in Subjects /\ d.schema.file \in SchemaFiles
    BY <1>4, <2>1 DEF Validate
  <2>3. app.schemas[d.schema.file] \in Bodies
    BY <1>4, <2>2 DEF SchemaLoads, Application
  <2> QED
    BY <2>2, <2>3 DEF Schema
<1> QED
  BY <1>3, <1>5, <1>6 DEF TopicOf, Topic, NameAt

LEMMA TakenIsLoaded ==
    ASSUME NEW app \in Application, app.entries # None, NEW topics,
           NEW C \in SUBSET Places(app), LoadedFrom(app, topics, C),
           NEW p \in Places(app) \ C, TakesDocument(DocumentAt(app, p), topics, app)
    PROVE  LoadedFrom(app, [topics EXCEPT ![NameAt(app, p)] = TopicOf(DocumentAt(app, p), app)],
                      C \union {p})
<1> DEFINE name  == NameAt(app, p)
           topic == TopicOf(DocumentAt(app, p), app)
           after == [topics EXCEPT ![name] = topic]
<1>1. Fine(app, p) /\ topics[name] = None
  BY DEF TakesDocument, Fine, NameAt
<1>2. name \in Topics /\ topic \in Topic
  BY <1>1, FineIsTopic
<1>3. after \in [Topics -> Topic \union {None}] /\ after[name] = topic
      /\ \A t \in Topics \ {name} : after[t] = topics[t]
  BY <1>2 DEF LoadedFrom
<1>4. \A q \in C : NameAt(app, q) # name /\ NameAt(app, q) \in Topics
  <2> SUFFICES ASSUME NEW q \in C PROVE NameAt(app, q) # name /\ NameAt(app, q) \in Topics
    OBVIOUS
  <2>1. Fine(app, q) /\ topics[NameAt(app, q)] = TopicOf(DocumentAt(app, q), app)
    BY DEF LoadedFrom
  <2>2. NameAt(app, q) \in Topics /\ TopicOf(DocumentAt(app, q), app) \in Topic
    BY <2>1, FineIsTopic
  <2> QED
    BY <1>1, <2>1, <2>2, ProviderAssumption
<1> HIDE DEF name, topic, after
<1>5. \A q \in C \union {p} : Fine(app, q)
                              /\ after[NameAt(app, q)] = TopicOf(DocumentAt(app, q), app)
  BY <1>1, <1>3, <1>4 DEF LoadedFrom, name, topic
<1>6. \A q, u \in C \union {p} : NameAt(app, q) = NameAt(app, u) => q = u
  BY <1>4 DEF LoadedFrom, name
<1>7. \A t \in Topics : after[t] # None => \E q \in C \union {p} : NameAt(app, q) = t
  BY <1>3 DEF LoadedFrom, name
<1> QED
  BY <1>3, <1>5, <1>6, <1>7 DEF LoadedFrom, name, topic, after

\* A document that cannot be taken makes the files unloadable.
LEMMA RefusedIsUnloadable ==
    ASSUME NEW app \in Application, app.entries # None, NEW topics,
           NEW C \in SUBSET Places(app), LoadedFrom(app, topics, C),
           NEW p \in Places(app) \ C, ~TakesDocument(DocumentAt(app, p), topics, app)
    PROVE  ~Loadable(app)
<1> SUFFICES ASSUME Loadable(app) PROVE FALSE
  OBVIOUS
<1>1. Fine(app, p)
  BY DEF Loadable, Fine
<1>2. topics[NameAt(app, p)] # None
  BY <1>1 DEF TakesDocument, Fine, NameAt
<1>3. NameAt(app, p) \in Topics
  BY <1>1, FineIsTopic
<1>4. PICK q \in C : NameAt(app, q) = NameAt(app, p)
  BY <1>2, <1>3 DEF LoadedFrom
<1> QED
  BY <1>4 DEF Loadable, NameAt

\* Once all are taken and owned, the topics loaded are those declared.
LEMMA AllIsLoaded ==
    ASSUME NEW app \in Application, app.entries # None, app.specReadable, NEW topics,
           LoadedFrom(app, topics, Places(app)),
           \A i \in Files(app) : app.entries[i].readable,
           \A t \in Topics : topics[t] # None => t \in app.ownership
    PROVE  Loadable(app) /\ topics = TopicsDeclared(app) /\ AsRevision(app) \in Revision
<1>1. ASSUME NEW p \in Places(app)
      PROVE  /\ Fine(app, p) /\ NameAt(app, p) \in Topics
             /\ topics[NameAt(app, p)] = TopicOf(DocumentAt(app, p), app)
             /\ NameAt(app, p) \in app.ownership
  <2>1. Fine(app, p) /\ topics[NameAt(app, p)] = TopicOf(DocumentAt(app, p), app)
    BY DEF LoadedFrom
  <2>2. NameAt(app, p) \in Topics /\ TopicOf(DocumentAt(app, p), app) \in Topic
    BY <2>1, FineIsTopic
  <2> QED
    BY <2>1, <2>2, ProviderAssumption
<1>2. Loadable(app)
  BY <1>1 DEF Loadable, LoadedFrom, Fine, NameAt
<1>3. ASSUME NEW t \in Topics
      PROVE  topics[t] = TopicsDeclared(app)[t]
  <2>1. CASE \E p \in Places(app) : NameAt(app, p) = t
    <3> DEFINE q == CHOOSE p \in Places(app) : DocumentAt(app, p).name = t
    <3>1. q \in Places(app) /\ NameAt(app, q) = t
      BY <2>1 DEF NameAt
    <3>2. TopicsDeclared(app)[t] = TopicOf(DocumentAt(app, q), app)
      BY <2>1 DEF TopicsDeclared, NameAt
    <3> HIDE DEF q
    <3> QED
      BY <1>1, <3>1, <3>2
  <2>2. CASE ~\E p \in Places(app) : NameAt(app, p) = t
    <3>1. topics[t] = None
      BY <2>2 DEF LoadedFrom
    <3>2. TopicsDeclared(app)[t] = None
      BY <2>2 DEF TopicsDeclared, NameAt
    <3> QED
      BY <3>1, <3>2
  <2> QED
    BY <2>1, <2>2
<1>4. topics = TopicsDeclared(app)
  <2>1. topics = [t \in Topics |-> topics[t]]
    BY DEF LoadedFrom
  <2>2. TopicsDeclared(app) = [t \in Topics |-> TopicsDeclared(app)[t]]
    BY DEF TopicsDeclared
  <2> QED
    BY <1>3, <2>1, <2>2
<1>5. AsRevision(app) = [topics |-> topics, ownership |-> app.ownership, loads |-> TRUE]
  BY <1>2, <1>4 DEF AsRevision
<1>6. topics \in [Topics -> Topic \union {None}] /\ app.ownership \in SUBSET Topics
  BY DEF LoadedFrom, Application
<1> QED
  BY <1>2, <1>4, <1>5, <1>6 DEF Revision

-----------------------------------------------------------------------------
(***************************************************************************)
(* The two loops of LoadTopics: entries and documents are what is left of  *)
(* the application's, and the topics loaded are those of the documents     *)
(* before.                                                                 *)
(***************************************************************************)
App   == request.app
Read  == Len(App.entries) - Len(entries)   \* the entries read, the one in hand included
InHand == App.entries[Read].documents
Taken == Len(InHand) - Len(documents)

ToCome(p) == p[1] > Read \/ (p[1] = Read /\ p[2] > Taken)
Come      == {p \in Places(App) : ~ToCome(p)}

Remaining ==
    /\ App.specReadable /\ App.entries # None
    /\ entries \in Seq(Entry) /\ Len(entries) <= Len(App.entries)
    /\ \A i \in 1..Len(entries) : entries[i] = App.entries[Read + i]
    /\ documents \in Seq(Document)
    /\ documents # <<>> =>
          /\ Read > 0 /\ App.entries[Read].yaml /\ Len(documents) <= Len(InHand)
          /\ \A j \in 1..Len(documents) : documents[j] = InHand[Taken + j]
    /\ \A i \in 1..Read : App.entries[i].yaml => App.entries[i].readable

LoadInv ==
    /\ request \in Request
    /\ loaded \in [Topics -> Topic \union {None}]
    /\ pc \in {"called", "connect", "connectRegistry", "connected"} =>
          loaded = NoTopics /\ documents = <<>>
    /\ pc = "load" => Remaining /\ LoadedFrom(App, loaded, Come)
    /\ LoadsWhatIsDeclared

LEMMA LoadInit == Init => LoadInv
BY PreparationAssumption DEF Init, LoadInv, NoTopics, LoadsWhatIsDeclared

LEMMA RequestFacts ==
    ASSUME request \in Request
    PROVE  App \in Application
BY DEF Request, App

\* Between two files, the places to come are those of the files to come.
LEMMA ComeBetweenFiles ==
    ASSUME request \in Request, Remaining, documents = <<>>
    PROVE  Come = {p \in Places(App) : p[1] <= Read}
<1>1. Len(documents) = 0 /\ Read \in Int
  BY EntryFacts, RequestFacts DEF Remaining, Read
<1>2. ASSUME NEW p \in Places(App)
      PROVE  ToCome(p) <=> ~(p[1] <= Read)
  <2>1. /\ p[1] \in Int /\ p[2] \in Int /\ p[2] <= Len(App.entries[p[1]].documents)
        /\ Len(App.entries[p[1]].documents) \in Int
    BY PlaceFacts, EntryFacts, RequestFacts DEF Remaining
  <2>2. p[1] = Read => Taken = Len(App.entries[p[1]].documents)
    BY <1>1, <2>1 DEF Taken, InHand
  <2> QED
    BY <1>1, <2>1, <2>2 DEF ToCome
<1> QED
  BY <1>2 DEF Come

LEMMA ReadApplicationLoads == ASSUME LoadInv, ReadApplication PROVE LoadInv'
<1>1. /\ request' = request /\ App' = App /\ loaded' = loaded /\ documents' = documents
      /\ pc = "connected" /\ pc' \in {"load", "returned"}
      /\ loaded = NoTopics /\ documents = <<>> /\ App \in Application
  BY RequestFacts DEF ReadApplication, Return, GoTo, LoadInv, App
<1>2. ASSUME pc' = "load"
      PROVE  Remaining' /\ LoadedFrom(App, loaded, Come)'
  <2>1. App.specReadable /\ App.entries # None /\ entries' = App.entries
    BY <1>1, <1>2 DEF ReadApplication, Return, App
  <2>2. entries' \in Seq(Entry) /\ Len(entries') \in Nat /\ Read' = 0
    BY <1>1, <2>1, EntryFacts DEF Read
  <2>3. Remaining'
    BY <1>1, <2>1, <2>2, EmptySeq DEF Remaining
  <2>4. Come' = {}
    <3>1. \A p \in Places(App) : p[1] \in Nat /\ p[1] > 0
      BY <1>1, <2>1, PlaceFacts
    <3> QED
      BY <1>1, <2>2, <3>1 DEF Come, ToCome
  <2>5. LoadedFrom(App, NoTopics, {})
    BY DEF LoadedFrom, NoTopics
  <2> QED
    BY <1>1, <2>3, <2>4, <2>5
<1> QED
  BY <1>1, <1>2 DEF LoadInv, LoadsWhatIsDeclared

LEMMA ReadEntryLoads == ASSUME LoadInv, ReadEntry PROVE LoadInv'
<1>1. /\ request' = request /\ App' = App /\ loaded' = loaded /\ entries' = Tail(entries)
      /\ pc = "load" /\ pc' \in {"load", "returned"} /\ documents = <<>> /\ entries # <<>>
      /\ Remaining /\ LoadedFrom(App, loaded, Come) /\ App \in Application
      /\ App.entries # None
  BY RequestFacts DEF ReadEntry, Return, LoadInv, App, Remaining
<1>2. /\ entries \in Seq(Entry) /\ Len(entries) \in Nat /\ Len(entries) > 0
      /\ Len(App.entries) \in Nat /\ Len(entries) <= Len(App.entries)
      /\ entries' \in Seq(Entry) /\ Len(entries') = Len(entries) - 1
      /\ \A i \in 1..Len(entries') : entries'[i] = entries[i + 1]
      /\ Head(entries) = entries[1]
  BY <1>1, HeadTailProperties, EntryFacts DEF Remaining
<1>3. Read \in Nat /\ Read' = Read + 1 /\ Read' \in 1..Len(App.entries)
  BY <1>1, <1>2 DEF Read
<1>4. Head(entries) = App.entries[Read']
  BY <1>1, <1>2, <1>3 DEF Remaining
<1>5. ASSUME pc' = "load"
      PROVE  Remaining' /\ LoadedFrom(App, loaded, Come)'
  <2>1. App.entries[Read'].yaml => App.entries[Read'].readable
    BY <1>1, <1>4, <1>5 DEF ReadEntry, Return
  <2>2. /\ documents' \in Seq(Document)
        /\ documents' # <<>> => App.entries[Read'].yaml /\ documents' = InHand'
        /\ App.entries[Read'].yaml => documents' = InHand'
    <3>1. App.entries[Read'].documents \in Seq(Document)
      BY <1>1, <1>3, EntryFacts
    <3> QED
      BY <1>1, <1>4, <1>5, <3>1, EmptySeq DEF ReadEntry, Return, InHand
  <2>3. Remaining'
    <3>1. ASSUME NEW i \in 1..Len(entries') PROVE entries'[i] = App.entries[Read' + i]
      <4>1. i + 1 \in 1..Len(entries) /\ Read + (i + 1) = Read' + i
        BY <1>2, <1>3
      <4>2. entries[i + 1] = App.entries[Read + (i + 1)]
        BY <1>1, <4>1 DEF Remaining
      <4> QED
        BY <1>2, <4>1, <4>2
    <3>2. \A i \in 1..Read' : App.entries[i].yaml => App.entries[i].readable
      BY <1>1, <1>3, <2>1 DEF Remaining
    <3>3. documents' # <<>> =>
             /\ Read' > 0 /\ App.entries[Read'].yaml /\ Len(documents') <= Len(InHand')
             /\ \A j \in 1..Len(documents') : documents'[j] = InHand'[Taken' + j]
      <4> SUFFICES ASSUME documents' # <<>>
                   PROVE  /\ Read' > 0 /\ App.entries[Read'].yaml
                          /\ Len(documents') <= Len(InHand')
                          /\ \A j \in 1..Len(documents') : documents'[j] = InHand'[Taken' + j]
        OBVIOUS
      <4>1. documents' = InHand' /\ Len(documents') \in Nat
        BY <2>2, LenProperties
      <4>2. Taken' = 0
        BY <4>1 DEF Taken
      <4> QED
        BY <1>3, <2>2, <4>1, <4>2
    <3> QED
      BY <1>1, <1>2, <1>3, <2>2, <3>1, <3>2, <3>3 DEF Remaining
  <2>4. Come' = Come
    <3>1. Come = {p \in Places(App) : p[1] <= Read}
      BY <1>1, ComeBetweenFiles DEF LoadInv
    <3>2. ASSUME NEW p \in Places(App)
          PROVE  ToCome(p)' <=> ~(p[1] <= Read)
      <4>1. /\ p[1] \in Nat /\ p[2] \in Nat /\ p[2] > 0 /\ App.entries[p[1]].yaml
        BY <1>1, PlaceFacts
      <4>2. p[1] = Read' => Taken' = 0
        <5>1. p[1] = Read' => documents' = InHand' /\ Len(documents') \in Nat
          BY <2>2, <4>1, LenProperties
        <5> QED
          BY <5>1 DEF Taken
      <4> QED
        BY <1>3, <4>1, <4>2 DEF ToCome
    <3> QED
      BY <1>1, <3>1, <3>2 DEF Come
  <2> QED
    BY <1>1, <2>3, <2>4
<1> QED
  BY <1>1, <1>5 DEF LoadInv, LoadsWhatIsDeclared

\* What there is to know of the document that is taken or stepped over.
LEMMA DocumentInHand ==
    ASSUME LoadInv, pc = "load", documents # <<>>
    PROVE  LET here == <<Read, Taken + 1>>
           IN  /\ Read \in 1..Len(App.entries) /\ Taken \in Nat
               /\ Taken + 1 \in 1..Len(InHand) /\ App.entries[Read].yaml
               /\ Head(documents) = InHand[Taken + 1]
               /\ Len(documents) \in Nat /\ Len(documents) > 0
               /\ Tail(documents) \in Seq(Document)
               /\ Len(Tail(documents)) = Len(documents) - 1
               /\ \A j \in 1..Len(Tail(documents)) : Tail(documents)[j] = documents[j + 1]
               /\ here \in Places(App) <=> ~IsZero(Head(documents))
               /\ here \notin Come
               /\ ApplyDefaults(Head(documents), App.defaults) = DocumentAt(App, here)
<1> DEFINE here == <<Read, Taken + 1>>
<1>1. /\ Remaining /\ App \in Application /\ App.entries # None
      /\ Read > 0 /\ App.entries[Read].yaml /\ Len(documents) <= Len(InHand)
      /\ \A j \in 1..Len(documents) : documents[j] = InHand[Taken + j]
      /\ documents \in Seq(Document) /\ entries \in Seq(Entry)
      /\ Len(entries) <= Len(App.entries)
  BY RequestFacts DEF LoadInv, Remaining
<1>2. /\ Len(entries) \in Nat /\ Len(App.entries) \in Nat
      /\ Len(documents) \in Nat /\ Len(documents) > 0
  BY <1>1, EntryFacts, EmptySeq, LenProperties
<1>3. Read \in 1..Len(App.entries)
  BY <1>1, <1>2 DEF Read
<1>4. /\ InHand \in Seq(Document) /\ Len(InHand) \in Nat /\ DOMAIN InHand = 1..Len(InHand)
      /\ Read \in Files(App)
  BY <1>1, <1>3, EntryFacts DEF InHand, Files
<1>5. Taken \in Nat /\ Taken + 1 \in 1..Len(InHand)
  BY <1>1, <1>2, <1>4 DEF Taken
<1>6. Head(documents) = InHand[Taken + 1]
  BY <1>1, <1>2
<1>7. /\ Tail(documents) \in Seq(Document) /\ Len(Tail(documents)) = Len(documents) - 1
      /\ \A j \in 1..Len(Tail(documents)) : Tail(documents)[j] = documents[j + 1]
  BY <1>1, HeadTailProperties
<1>8. here \in Places(App) <=> ~IsZero(Head(documents))
  <2>1. here \in Places(App)
        <=> /\ Read \in Files(App) /\ Taken + 1 \in DOMAIN App.entries[Read].documents
            /\ Stated(App.entries[Read].documents[Taken + 1])
    BY <1>1, PlaceFacts
  <2> QED
    BY <1>4, <1>5, <1>6, <2>1 DEF Stated, InHand
<1>9. here \notin Come
  <2>1. here[1] = Read /\ here[2] = Taken + 1
    OBVIOUS
  <2>2. ToCome(here)
    BY <1>5, <2>1 DEF ToCome
  <2> QED
    BY <2>2 DEF Come
<1>10. ApplyDefaults(Head(documents), App.defaults) = DocumentAt(App, here)
  BY <1>6 DEF DocumentAt, InHand
<1> QED
  BY <1>1, <1>2, <1>3, <1>5, <1>6, <1>7, <1>8, <1>9, <1>10

LEMMA TakeDocumentLoads == ASSUME LoadInv, TakeDocument PROVE LoadInv'
<1> DEFINE here == <<Read, Taken + 1>>
           d    == DocumentAt(App, here)
<1>1. /\ request' = request /\ App' = App /\ entries' = entries
      /\ documents' = Tail(documents) /\ documents # <<>>
      /\ pc = "load" /\ pc' \in {"load", "returned"}
      /\ Remaining /\ LoadedFrom(App, loaded, Come) /\ App \in Application
      /\ App.entries # None
  BY RequestFacts DEF TakeDocument, Return, LoadInv, App, Remaining
<1>2. /\ Read \in 1..Len(App.entries) /\ Taken \in Nat
      /\ Taken + 1 \in 1..Len(InHand) /\ App.entries[Read].yaml
      /\ Len(documents) \in Nat /\ Len(documents) > 0
      /\ documents' \in Seq(Document) /\ Len(documents') = Len(documents) - 1
      /\ \A j \in 1..Len(documents') : documents'[j] = documents[j + 1]
      /\ here \in Places(App) <=> ~IsZero(Head(documents))
      /\ here \notin Come
      /\ ApplyDefaults(Head(documents), App.defaults) = d
  BY <1>1, DocumentInHand
<1>3. Read' = Read /\ InHand' = InHand
  BY <1>1 DEF Read, InHand
<1>4. Len(InHand) \in Nat
  BY <1>1, <1>2, EntryFacts, LenProperties DEF InHand
<1>5. Taken' = Taken + 1
  BY <1>2, <1>3, <1>4 DEF Taken
<1>6. Remaining'
  <2>1. \A j \in 1..Len(documents') : documents'[j] = InHand[Taken' + j]
    BY <1>1, <1>2, <1>5 DEF Remaining
  <2> QED
    BY <1>1, <1>2, <1>3, <2>1 DEF Remaining
<1>7. Come' = IF here \in Places(App) THEN Come \union {here} ELSE Come
  <2>1. ASSUME NEW p \in Places(App)
        PROVE  ToCome(p)' <=> ToCome(p) /\ p # here
    <3>1. p = <<p[1], p[2]>> /\ p[1] \in Nat /\ p[2] \in Nat
      BY <1>1, PlaceFacts
    <3>2. p = here <=> p[1] = Read /\ p[2] = Taken + 1
      BY <3>1
    <3> QED
      BY <1>2, <1>3, <1>5, <3>1, <3>2 DEF ToCome
  <2> QED
    BY <1>1, <1>2, <2>1 DEF Come
<1>8. CASE IsZero(Head(documents))
  <2>1. loaded' = loaded /\ Come' = Come
    BY <1>2, <1>7, <1>8 DEF TakeDocument, StepsOver
  <2> QED
    BY <1>1, <1>6, <2>1 DEF LoadInv, LoadsWhatIsDeclared
<1>9. CASE ~IsZero(Head(documents)) /\ TakesDocument(d, loaded, App)
  <2>1. loaded' = [loaded EXCEPT ![NameAt(App, here)] = TopicOf(d, App)]
    BY <1>2, <1>9 DEF TakeDocument, StepsOver, App, NameAt
  <2>2. Come' = Come \union {here} /\ here \in Places(App) \ Come /\ Come \subseteq Places(App)
    BY <1>2, <1>7, <1>9 DEF Come
  <2>3. LoadedFrom(App, loaded, Come)'
    BY <1>1, <1>9, <2>1, <2>2, TakenIsLoaded
  <2> QED
    BY <1>1, <1>6, <2>3 DEF LoadInv, LoadsWhatIsDeclared, LoadedFrom
<1>10. CASE ~IsZero(Head(documents)) /\ ~TakesDocument(d, loaded, App)
  <2>1. loaded' = loaded /\ pc' = "returned"
    BY <1>2, <1>10 DEF TakeDocument, StepsOver, Return, App
  <2> QED
    BY <1>1, <2>1 DEF LoadInv, LoadsWhatIsDeclared
<1> QED
  BY <1>8, <1>9, <1>10

\* With no entry and no document left, every document has been come to.
LEMMA AllHaveCome ==
    ASSUME LoadInv, pc = "load", entries = <<>>, documents = <<>>
    PROVE  /\ App \in Application /\ App.entries # None /\ App.specReadable
           /\ LoadedFrom(App, loaded, Places(App))
           /\ \A i \in Files(App) : App.entries[i].readable
<1>1. /\ Remaining /\ LoadedFrom(App, loaded, Come) /\ App \in Application
      /\ App.entries # None /\ App.specReadable
  BY RequestFacts DEF LoadInv, Remaining
<1>2. Read = Len(App.entries) /\ Len(App.entries) \in Nat
  BY <1>1, EntryFacts DEF Read
<1>3. Come = Places(App)
  <2>1. \A p \in Places(App) : p[1] <= Read
    BY <1>1, <1>2, PlaceFacts
  <2>2. Come = {p \in Places(App) : p[1] <= Read}
    BY <1>1, ComeBetweenFiles DEF LoadInv
  <2> QED
    BY <2>1, <2>2
<1>4. \A i \in Files(App) : App.entries[i].readable
  BY <1>1, <1>2, EntryFacts DEF Files, Remaining
<1> QED
  BY <1>1, <1>3, <1>4

LEMMA CheckOwnershipLoads == ASSUME LoadInv, CheckOwnership PROVE LoadInv'
<1>1. /\ request' = request /\ loaded' = loaded /\ pc' \in {"list", "returned"}
      /\ pc' = "list" => \A t \in Topics : loaded[t] # None => t \in App.ownership
  BY DEF CheckOwnership, Return, GoTo, App, files
<1>2. pc' = "list" => /\ Loadable(App) /\ loaded = TopicsDeclared(App)
                      /\ AsRevision(App) \in Revision
  BY <1>1, AllHaveCome, AllIsLoaded DEF CheckOwnership
<1> QED
  BY <1>1, <1>2 DEF LoadInv, LoadsWhatIsDeclared, App

LEMMA OtherLoads ==
    ASSUME LoadInv, \/ Check \/ ConnectCluster \/ ConnectRegistry \/ ConnectRegistryFails
                    \/ ConnectWithoutRegistry \/ DialListing \/ EndListing \/ EndStage
                    \/ ClientFails \/ Rotate \/ UNCHANGED vars
    PROVE  LoadInv'
<1>1. CASE UNCHANGED <<request, files, pc>>
  BY <1>1 DEF LoadInv, LoadsWhatIsDeclared, Remaining, Come, ToCome, Taken, InHand, Read, App,
              files
<1>2. ASSUME \/ Check \/ ConnectCluster \/ ConnectRegistry \/ ConnectRegistryFails
             \/ ConnectWithoutRegistry \/ DialListing \/ EndListing \/ EndStage
             \/ ClientFails
      PROVE  /\ UNCHANGED <<request, entries, documents, loaded>>
             /\ \/ /\ pc \in {"called", "connect", "connectRegistry"}
                   /\ pc' \in {"connect", "connectRegistry", "connected"}
                \/ pc \in {"list", "listing", "planning"} /\ pc' \in {"listing", "planning"}
                \/ pc' = "returned"
  BY <1>2 DEF Check, ConnectCluster, ConnectRegistry, ConnectRegistryFails, RegistryFails,
              ConnectWithoutRegistry, DialListing, EndListing, EndStage, ClientFails, Return,
              GoTo, files
<1>3. CASE Rotate BY <1>1, <1>3 DEF Rotate, files
<1>4. CASE UNCHANGED vars BY <1>1, <1>4 DEF vars
<1> QED
  BY <1>2, <1>3, <1>4 DEF LoadInv, LoadsWhatIsDeclared

LEMMA LoadStep == LoadInv /\ [Next]_vars => LoadInv'
BY ReadApplicationLoads, ReadEntryLoads, TakeDocumentLoads, CheckOwnershipLoads, OtherLoads,
   StepsOfNext DEF Stepping

\* What LoadTopics returns is what the files declare, for any number of files and
\* documents in any order.
THEOREM WhatIsDeclaredIsLoaded == Spec => []LoadsWhatIsDeclared
<1>1. LoadInv => LoadsWhatIsDeclared
  BY DEF LoadInv
<1> QED
  BY <1>1, LoadInit, LoadStep, PTL DEF Spec

\* Nothing is refused for the order in which it was come to.
LEMMA RefusalIsDeserved ==
    ASSUME LoadInv, Next, pc = "load", pc' = "returned"
    PROVE  ~Loadable(App)
<1>1. ReadEntry \/ TakeDocument \/ CheckOwnership
  BY StepsOfNext DEF Stepping, Check, ConnectCluster, ConnectRegistry, ConnectRegistryFails,
     RegistryFails, ConnectWithoutRegistry, ReadApplication, DialListing, EndListing, EndStage,
     ClientFails, Rotate
<1>2. CASE ReadEntry
  <2>1. /\ Head(entries).yaml /\ ~Head(entries).readable /\ entries # <<>>
    BY <1>2 DEF ReadEntry
  <2>2. Remaining /\ App \in Application /\ App.entries # None
    BY RequestFacts DEF LoadInv, Remaining
  <2>3. /\ Len(entries) \in Nat /\ Len(entries) > 0 /\ Head(entries) = entries[1]
        /\ Len(App.entries) \in Nat /\ Len(entries) <= Len(App.entries)
    BY <2>1, <2>2, EntryFacts, HeadTailProperties DEF Remaining
  <2>4. Read + 1 \in 1..Len(App.entries) /\ entries[1] = App.entries[Read + 1]
    BY <2>2, <2>3 DEF Remaining, Read
  <2>5. Read + 1 \in Files(App)
    BY <2>1, <2>2, <2>3, <2>4, EntryFacts DEF Files
  <2> QED
    BY <2>1, <2>3, <2>4, <2>5 DEF Loadable
<1>3. CASE TakeDocument
  <2> DEFINE here == <<Read, Taken + 1>>
  <2>1. documents # <<>> /\ LoadedFrom(App, loaded, Come) /\ App \in Application
        /\ App.entries # None
    BY <1>3, RequestFacts DEF LoadInv, Remaining, TakeDocument
  <2>2. /\ here \in Places(App) <=> ~IsZero(Head(documents))
        /\ here \notin Come
        /\ ApplyDefaults(Head(documents), App.defaults) = DocumentAt(App, here)
    BY <2>1, DocumentInHand
  <2>3. ~IsZero(Head(documents)) /\ ~TakesDocument(DocumentAt(App, here), loaded, App)
    BY <1>3, <2>2 DEF TakeDocument, StepsOver, App
  <2>4. Come \in SUBSET Places(App) /\ here \in Places(App) \ Come
    BY <2>2, <2>3 DEF Come
  <2> QED
    BY <2>1, <2>3, <2>4, RefusedIsUnloadable
<1>4. CASE CheckOwnership
  <2>1. entries = <<>> /\ documents = <<>>
    BY <1>4 DEF CheckOwnership
  <2>2. PICK t \in Topics : loaded[t] # None /\ t \notin App.ownership
    BY <1>4 DEF CheckOwnership, GoTo, App
  <2>3. PICK p \in Places(App) : NameAt(App, p) = t
    BY <2>1, <2>2, AllHaveCome DEF LoadedFrom
  <2> QED
    BY <2>2, <2>3 DEF Loadable, NameAt
<1> QED
  BY <1>1, <1>2, <1>3, <1>4

\* LoadTopics gives up only on files that are wrong whatever the order of the
\* directory and of the documents in them.
THEOREM OnlyTheUnloadableIsRefused == Spec => RefusesOnlyTheUnloadable
<1>1. LoadInv /\ [Next]_vars
      => [pc = "load" /\ pc' = "returned" => ~Loadable(request.app)]_vars
  BY RefusalIsDeserved DEF App
<1> QED
  BY <1>1, LoadInit, LoadStep, PTL DEF Spec, RefusesOnlyTheUnloadable

-----------------------------------------------------------------------------
(***************************************************************************)
(* A stage begins as Deployment says.                                      *)
(***************************************************************************)
\* What was found before the files were read still holds.
BeginInv ==
    /\ pc # "called" /\ pc # "returned" /\ request.stage = "KAFKA_ROLLBACK" => request.running
    /\ pc = "load" =>
          ~(request.stage = "KAFKA_REGISTER_SCHEMA" /\ request.config.schemaRegistry = None)

LEMMA BeginInit == Init => BeginInv
BY DEF Init, BeginInv

LEMMA BeginStep == BeginInv /\ [Next]_vars => BeginInv'
<1> SUFFICES ASSUME BeginInv, [Next]_vars PROVE BeginInv'
    OBVIOUS
<1>1. CASE UNCHANGED <<request, pc>> BY <1>1 DEF BeginInv
<1>2. CASE Check BY <1>2 DEF BeginInv, Check, Return, GoTo
<1>3. CASE ReadApplication BY <1>3 DEF BeginInv, ReadApplication, Return, GoTo
<1>4. ASSUME Next, ~Check, ~ReadApplication, ~UNCHANGED <<request, pc>>
      PROVE  /\ request' = request /\ pc \notin {"called", "returned"}
             /\ pc' # "called" /\ (pc' = "load" => pc = "load")
    BY <1>4, StepsOfNext
       DEF Stepping, ConnectCluster, ConnectRegistry, ConnectRegistryFails, RegistryFails,
           ConnectWithoutRegistry, ReadEntry, TakeDocument, CheckOwnership, DialListing,
           EndListing, EndStage, ClientFails, Rotate, Return, GoTo
<1> QED BY <1>1, <1>2, <1>3, <1>4 DEF BeginInv, vars

LEMMA BeginsSo ==
    ASSUME LoadInv, LoadInv', BeginInv, Next, Began = "begin", Began' # "begin"
    PROVE  D!Begin \/ (D!Asking /\ D!Return("failure"))
<1>1. /\ pc \in {"called", "connect", "connectRegistry", "connected", "load"}
      /\ request' = request
  BY StepsOfNext
     DEF Began, Stepping, Check, ConnectCluster, ConnectRegistry, ConnectRegistryFails,
         RegistryFails, ConnectWithoutRegistry, ReadApplication, ReadEntry, TakeDocument,
         CheckOwnership, DialListing, EndListing, EndStage, ClientFails, Rotate
<1>2. CASE pc' = "returned" /\ verdict' = "failure"
  BY <1>2 DEF Began, D!Asking, D!Return
<1>3. CASE pc' = "returned" /\ verdict' = "success"
           /\ \/ request.stage = "KAFKA_ROLLBACK" /\ ~request.running
              \/ request.stage = "KAFKA_REGISTER_SCHEMA"
                 /\ request.config.schemaRegistry = None
  <2>1. D!NothingToRestore \/ D!NothingToRegister
    BY <1>3 DEF D!NothingToRestore, D!NothingToRegister
  <2> QED
    BY <1>1, <1>3, <2>1
       DEF Began, D!Begin, D!Return, D!world, D!piped, D!run
<1>4. CASE CheckOwnership /\ pc' = "list" /\ verdict' = verdict
  <2>1. /\ AsRevision(request.app) \in Revision /\ AsRevision(request.app) # None
        /\ Loadable(request.app)
    BY <1>1, <1>4, PreparationAssumption DEF LoadInv, LoadsWhatIsDeclared
  <2>2. pc = "load" /\ ~D!NothingToRestore /\ ~D!NothingToRegister
    BY <1>4, <2>1 DEF CheckOwnership, BeginInv, D!NothingToRestore, D!NothingToRegister
  <2>3. D!Source = AsRevision(request.app)
    BY <2>2 DEF D!Source, BeginInv
  <2>4. D!Source.loads
    BY <2>1, <2>3 DEF AsRevision
  <2> QED
    BY <1>1, <1>4, <2>2, <2>4
       DEF Began, D!Begin, D!Return, D!world, D!piped, D!run
<1>5. \/ pc' = "returned" /\ verdict' = "failure"
      \/ /\ pc' = "returned" /\ verdict' = "success"
         /\ \/ request.stage = "KAFKA_ROLLBACK" /\ ~request.running
            \/ request.stage = "KAFKA_REGISTER_SCHEMA" /\ request.config.schemaRegistry = None
      \/ CheckOwnership /\ pc' = "list" /\ verdict' = verdict
  BY <1>1, StepsOfNext
     DEF Began, Stepping, Check, ConnectCluster, ConnectRegistry, ConnectRegistryFails,
         RegistryFails, ConnectWithoutRegistry, ReadApplication, ReadEntry, TakeDocument,
         CheckOwnership, DialListing, EndListing, EndStage, ClientFails, Rotate, Return, GoTo
<1> QED
  BY <1>2, <1>3, <1>4, <1>5

\* However long a stage takes to begin and whatever it finds, to Deployment it is
\* one step of Begin, or a read that fails.
THEOREM StageBeginsAsDeployment == Spec => BeginsAsDeployment
<1>1. LoadInv /\ LoadInv' /\ BeginInv /\ [Next]_vars
      => [Began = "begin" /\ Began' # "begin"
          => D!Begin \/ (D!Asking /\ D!Return("failure"))]_vars
  BY BeginsSo
<1> QED
  BY <1>1, LoadInit, LoadStep, BeginInit, BeginStep, PTL DEF Spec, BeginsAsDeployment

-----------------------------------------------------------------------------
(***************************************************************************)
(* Types.                                                                  *)
(***************************************************************************)
TypeInv == OpenWhere /\ LoadInv /\ TypeOK

LEMMA TypeInit == Init => TypeOK
<1> SUFFICES ASSUME Init PROVE TypeOK
    OBVIOUS
<1>1. request \in Request /\ host \in Host
    BY PreparationAssumption DEF Init
<1>2. MaxRotations \in Nat /\ MaxFaults \in Nat
    BY PreparationAssumption
<1> QED
    BY <1>1, <1>2 DEF Init, TypeOK, Request, NoTopics

LEMMA ClientsShow ==
    /\ \A config, h : BrokerClient(config, h) \in {"error", "nothing", "secret"}
    /\ \A c, h : RegistryClient(c, h) \in {"error", "nothing", "blank", "secret"}
BY DEF BrokerClient, RegistryClient, ResolveSecret

LEMMA TypeStep ==
    ASSUME TypeOK, OpenWhere, OpenWhere', LoadInv', [Next]_vars
    PROVE  TypeOK'
<1>1. request' = request
  BY StepsOfNext
     DEF Stepping, Check, ConnectCluster, ConnectRegistry, ConnectRegistryFails,
         RegistryFails, ConnectWithoutRegistry, ReadApplication, ReadEntry, TakeDocument,
         CheckOwnership, DialListing, EndListing, EndStage, ClientFails, Rotate, vars
<1>2. loaded' \in [Topics -> Topic \union {None}]
  BY DEF LoadInv
<1>3. /\ pc' \in {"called", "connect", "connectRegistry", "connected", "load", "list",
                  "listing", "planning", "returned"}
      /\ open' \subseteq {"cluster", "listing"}
  BY DEF OpenWhere
<1>4. deferred' \subseteq {"cluster"}
  BY StepsOfNext
     DEF TypeOK, Stepping, Check, ConnectCluster, ConnectRegistry, ConnectRegistryFails,
         RegistryFails, ConnectWithoutRegistry, ReadApplication, ReadEntry, TakeDocument,
         CheckOwnership, DialListing, EndListing, EndStage, ClientFails, Rotate, vars
<1>5. verdict' \in {"success", "exited", "failure", None}
  BY StepsOfNext
     DEF TypeOK, Stepping, Check, ConnectCluster, ConnectRegistry, ConnectRegistryFails,
         RegistryFails, ConnectWithoutRegistry, ReadApplication, ReadEntry, TakeDocument,
         CheckOwnership, DialListing, EndListing, EndStage, ClientFails, Rotate, Return, GoTo,
         vars
<1>6. host' \in Host
  <2>1. CASE Rotate
    <3>1. PICK f \in Named(request.config), s \in FileStates : host' = [host EXCEPT ![f] = s]
      BY <2>1 DEF Rotate
    <3> QED
      BY <3>1 DEF TypeOK, Host
  <2>2. CASE ~Rotate
    BY <2>2, StepsOfNext
       DEF TypeOK, Stepping, Check, ConnectCluster, ConnectRegistry, ConnectRegistryFails,
           RegistryFails, ConnectWithoutRegistry, ReadApplication, ReadEntry, TakeDocument,
           CheckOwnership, DialListing, EndListing, EndStage, ClientFails, vars
  <2> QED
    BY <2>1, <2>2
<1>7. budget' \in [rotations: Nat, faults: Nat]
  <2>1. budget' = budget \/ Spend("rotations") \/ Spend("faults")
    BY StepsOfNext
       DEF Stepping, Check, ConnectCluster, ConnectRegistry, ConnectRegistryFails,
           RegistryFails, ConnectWithoutRegistry, ReadApplication, ReadEntry, TakeDocument,
           CheckOwnership, DialListing, EndListing, EndStage, ClientFails, Rotate, vars
  <2>2. budget \in [rotations: Nat, faults: Nat]
    BY DEF TypeOK
  <2> QED
    BY <2>1, <2>2 DEF Spend
<1>8. shown' \in [Clients -> {"nothing", "blank", "secret", None}]
  <2>1. \/ shown' = shown
        \/ \E c \in Clients, s \in {"nothing", "blank", "secret"} :
              shown' = [shown EXCEPT ![c] = s]
    <3>1. CASE ConnectCluster
      BY <3>1, ClientsShow DEF ConnectCluster, Clients
    <3>2. CASE ConnectRegistry
      BY <3>2, ClientsShow DEF ConnectRegistry, Clients
    <3>3. CASE DialListing
      BY <3>3, ClientsShow DEF DialListing, Clients
    <3>4. ASSUME ~ConnectCluster, ~ConnectRegistry, ~DialListing
          PROVE  shown' = shown
      BY <3>4, StepsOfNext
         DEF Stepping, Check, ConnectRegistryFails, RegistryFails, ConnectWithoutRegistry,
             ReadApplication, ReadEntry, TakeDocument, CheckOwnership, EndListing, EndStage,
             ClientFails, Rotate, vars
    <3> QED
      BY <3>1, <3>2, <3>3, <3>4
  <2>2. shown \in [Clients -> {"nothing", "blank", "secret", None}]
    BY DEF TypeOK
  <2> QED
    BY <2>1, <2>2
<1>9. request.stage \in Stages
  BY DEF TypeOK
<1> QED
  BY <1>1, <1>2, <1>3, <1>4, <1>5, <1>6, <1>7, <1>8, <1>9 DEF TypeOK

\* Every variable of a stage has its type; for the topics loaded this is what
\* Validate is for.
THEOREM PreparationTypeCorrect == Spec => []TypeOK
<1>1. Init => TypeInv
  BY OpenInit, LoadInit, TypeInit DEF TypeInv
<1>2. TypeInv /\ [Next]_vars => TypeInv'
  BY OpenStep, LoadStep, TypeStep DEF TypeInv
<1>3. TypeInv => TypeOK
  BY DEF TypeInv
<1> QED
  BY <1>1, <1>2, <1>3, PTL DEF Spec
=============================================================================
