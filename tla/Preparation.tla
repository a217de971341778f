----------------------------- MODULE Preparation -----------------------------
(***************************************************************************)
(* ExecuteStage from its call to the end of its first listing: the checks  *)
(* of the deploy target, the early successes, the clients it makes and     *)
(* closes, and LoadTopics document by document.                            *)
(*                                                                         *)
(* The application directory is the stage's own; the secrets and           *)
(* certificates lie on piped's host, where somebody may replace them       *)
(* between any two steps.  ListTopics makes a client of its own from them. *)
(***************************************************************************)
EXTENDS Loading, Connecting

CONSTANTS
    Requests,      \* the calls of ExecuteStage, with their deploy target and application
    Hosts,         \* the states the host's files may start in
    MaxRotations, MaxFaults   \* bounds of a behaviour

Stages == {"KAFKA_PLAN", "KAFKA_REGISTER_SCHEMA", "KAFKA_APPLY", "KAFKA_ROLLBACK"}

\* "app" is the application at the revision the stage works from, "running" that
\* there is a revision to go back to.
Request == [stage: Stages, targets: 0..2, config: TargetConfig, optionsDecode: BOOLEAN,
            running: BOOLEAN, app: Application]

ASSUME PreparationAssumption ==
    /\ Requests \subseteq Request /\ Hosts \subseteq Host
    /\ {MaxRotations, MaxFaults} \subseteq Nat
    /\ None \notin Revision

VARIABLES
    request, host,
    pc,         \* where the stage stands
    verdict,    \* what it returned
    shown,      \* per client, what it was made to show for a password
    open,       \* the broker clients that are open
    deferred,   \* those that are closed when the stage returns
    entries, documents,  \* the directory entries, and documents of the one in hand, to come
    loaded,     \* the topics loaded so far
    budget      \* what is left of the bounds

files == <<entries, documents, loaded>>
vars  == <<request, host, pc, verdict, shown, open, deferred, files, budget>>

Clients == {"cluster", "registry", "listing"}
Spend(kind) == budget[kind] > 0 /\ budget' = [budget EXCEPT ![kind] = @ - 1]

Init ==
    /\ request \in Requests
    /\ host \in {h \in Hosts : \A f \in FileNames \ Named(request.config) : h[f] = "good"}
    /\ pc = "called" /\ verdict = None
    /\ shown = [c \in Clients |-> None] /\ open = {} /\ deferred = {}
    /\ entries = <<>> /\ documents = <<>> /\ loaded = NoTopics
    /\ budget = [rotations |-> MaxRotations, faults |-> MaxFaults]

-----------------------------------------------------------------------------
\* Returning runs the deferred calls of Close.
Return(v) == pc' = "returned" /\ verdict' = v /\ open' = open \ deferred

GoTo(place) == pc' = place /\ UNCHANGED verdict

\* singleTarget, Validate, and what a stage does before it connects.
Check ==
    /\ pc = "called"
    /\ IF request.targets # 1 \/ ~ValidConfig(request.config) THEN Return("failure")
       ELSE IF request.stage = "KAFKA_ROLLBACK"
       THEN IF request.running THEN GoTo("connect") /\ UNCHANGED open ELSE Return("success")
       ELSE IF request.optionsDecode THEN GoTo("connect") /\ UNCHANGED open
       ELSE Return("failure")
    /\ UNCHANGED <<request, host, shown, deferred, files, budget>>

ConnectCluster ==
    /\ pc = "connect"
    /\ LET client == BrokerClient(request.config, host)
       IN  IF client = "error"
           THEN Return("failure") /\ UNCHANGED shown
           ELSE /\ GoTo("connectRegistry")
                /\ open' = open \union {"cluster"}
                /\ shown' = [shown EXCEPT !["cluster"] = client]
    /\ UNCHANGED <<request, host, deferred, files, budget>>

ConnectRegistry ==
    /\ pc = "connectRegistry" /\ request.config.schemaRegistry # None
    /\ LET client == RegistryClient(request.config.schemaRegistry, host)
       IN  /\ client # "error"
           /\ shown' = [shown EXCEPT !["registry"] = client]
    /\ GoTo("connected")
    /\ deferred' = {"cluster"}
    /\ UNCHANGED <<request, host, open, files, budget>>

RegistryFails ==
    /\ pc = "connectRegistry" /\ request.config.schemaRegistry # None
    /\ \/ /\ RegistryClient(request.config.schemaRegistry, host) = "error"
          /\ UNCHANGED budget
       \/ Spend("faults")

\* Mutant: a failure leaves the cluster's client behind.
ConnectRegistryLeaks ==
    /\ RegistryFails
    /\ Return("failure")
    /\ UNCHANGED <<request, host, shown, deferred, files>>

\* connect closes the cluster itself when there is no registry client to be had;
\* only once it returned is closing deferred.
ConnectRegistryFails ==
    /\ RegistryFails
    /\ pc' = "returned" /\ verdict' = "failure"
    /\ open' = open \ {"cluster"}
    /\ UNCHANGED <<request, host, shown, deferred, files>>

ConnectWithoutRegistry ==
    /\ pc = "connectRegistry" /\ request.config.schemaRegistry = None
    /\ GoTo("connected")
    /\ deferred' = {"cluster"}
    /\ UNCHANGED <<request, host, shown, open, files, budget>>

\* buildPlan begins: the application config, and the topics directory.
ReadApplication ==
    /\ pc = "connected"
    /\ IF request.stage = "KAFKA_REGISTER_SCHEMA" /\ request.config.schemaRegistry = None
       THEN Return("success") /\ UNCHANGED entries
       ELSE IF ~request.app.specReadable \/ request.app.entries = None
       THEN Return("failure") /\ UNCHANGED entries
       ELSE GoTo("load") /\ entries' = request.app.entries /\ UNCHANGED open
    /\ UNCHANGED <<request, host, shown, deferred, documents, loaded, budget>>

\* Mutant: an entry that is no YAML file is not stepped over.
ReadEntryYAMLOnly ==
    /\ pc = "load" /\ documents = <<>> /\ entries # <<>>
    /\ IF ~Head(entries).yaml THEN UNCHANGED <<pc, verdict, open, documents, entries>>
       ELSE /\ entries' = Tail(entries)
            /\ IF ~Head(entries).readable THEN Return("failure") /\ UNCHANGED documents
               ELSE documents' = Head(entries).documents /\ UNCHANGED <<pc, verdict, open>>
    /\ UNCHANGED <<request, host, shown, deferred, loaded, budget>>

ReadEntry ==
    /\ pc = "load" /\ documents = <<>> /\ entries # <<>>
    /\ entries' = Tail(entries)
    /\ IF ~Head(entries).yaml THEN UNCHANGED <<pc, verdict, open, documents>>
       ELSE IF ~Head(entries).readable THEN Return("failure") /\ UNCHANGED documents
       ELSE documents' = Head(entries).documents /\ UNCHANGED <<pc, verdict, open>>
    /\ UNCHANGED <<request, host, shown, deferred, loaded, budget>>

TakeDocument ==
    /\ pc = "load" /\ documents # <<>>
    /\ documents' = Tail(documents)
    /\ LET d == ApplyDefaults(Head(documents), request.app.defaults)
       IN  IF StepsOver(Head(documents)) THEN UNCHANGED <<pc, verdict, open, loaded>>
           ELSE IF TakesDocument(d, loaded, request.app)
           THEN /\ loaded' = [loaded EXCEPT ![d.name] = TopicOf(d, request.app)]
                /\ UNCHANGED <<pc, verdict, open>>
           ELSE Return("failure") /\ UNCHANGED loaded
    /\ UNCHANGED <<request, host, shown, deferred, entries, budget>>

\* Mutant: a topic outside the ownership patterns is loaded like any other.
CheckNothing ==
    /\ pc = "load" /\ documents = <<>> /\ entries = <<>>
    /\ GoTo("list") /\ UNCHANGED open
    /\ UNCHANGED <<request, host, shown, deferred, files, budget>>

CheckOwnership ==
    /\ pc = "load" /\ documents = <<>> /\ entries = <<>>
    /\ IF \A t \in Topics : loaded[t] # None => t \in request.app.ownership
       THEN GoTo("list") /\ UNCHANGED open
       ELSE Return("failure")
    /\ UNCHANGED <<request, host, shown, deferred, files, budget>>

\* ListTopics makes a client from the same config and the files as they are now ...
DialListing ==
    /\ pc = "list"
    /\ LET client == BrokerClient(request.config, host)
       IN  IF client = "error"
           THEN Return("failure") /\ UNCHANGED shown
           ELSE /\ GoTo("listing")
                /\ open' = open \union {"listing"}
                /\ shown' = [shown EXCEPT !["listing"] = client]
    /\ UNCHANGED <<request, host, deferred, files, budget>>

\* ... and closes it however the requests end.
EndListing ==
    /\ pc = "listing"
    /\ \/ GoTo("planning") /\ open' = open \ {"listing"} /\ UNCHANGED budget
       \/ /\ Spend("faults")
          /\ pc' = "returned" /\ verdict' = "failure"
          /\ open' = open \ ({"listing"} \union deferred)
    /\ UNCHANGED <<request, host, shown, deferred, files>>

\* The plan and its changes are Deployment's.
EndStage ==
    /\ pc = "planning"
    /\ \E v \in {"success", "exited", "failure"} : Return(v)
    /\ UNCHANGED <<request, host, shown, deferred, files, budget>>

\* A library refuses to make a client from what it was given.
ClientFails ==
    /\ pc \in {"connect", "list"}
    /\ Spend("faults")
    /\ Return("failure")
    /\ UNCHANGED <<request, host, shown, deferred, files>>

\* Somebody replaces, empties or removes a file the deploy target names.
Rotate ==
    /\ pc # "returned" /\ Spend("rotations")
    /\ \E f \in Named(request.config), s \in FileStates :
          s # host[f] /\ host' = [host EXCEPT ![f] = s]
    /\ UNCHANGED <<request, pc, verdict, shown, open, deferred, files>>

Stage ==
    \/ Check \/ ConnectCluster \/ ConnectRegistry \/ ConnectRegistryFails
    \/ ConnectWithoutRegistry
    \/ ReadApplication \/ ReadEntry \/ TakeDocument \/ CheckOwnership
    \/ DialListing \/ EndListing \/ EndStage

Next == Stage \/ ClientFails \/ Rotate

Spec == Init /\ [][Next]_vars /\ WF_vars(Stage)
-----------------------------------------------------------------------------
TypeOK ==
    /\ request.stage \in Stages /\ host \in Host
    /\ pc \in {"called", "connect", "connectRegistry", "connected", "load", "list",
               "listing", "planning", "returned"}
    /\ verdict \in {"success", "exited", "failure", None}
    /\ shown \in [Clients -> {"nothing", "blank", "secret", None}]
    /\ open \subseteq {"cluster", "listing"} /\ deferred \subseteq {"cluster"}
    /\ loaded \in [Topics -> Topic \union {None}]
    /\ budget \in [rotations: Nat, faults: Nat]

\* What LoadTopics returns is what the files declare, whichever file and place
\* each document has: every YAML document that states anything became one topic
\* that is valid, owned and declared once.
LoadsWhatIsDeclared ==
    pc \in {"list", "listing", "planning"} =>
        /\ Loadable(request.app) /\ loaded = TopicsDeclared(request.app)
        /\ AsRevision(request.app) \in Revision

\* LoadTopics gives up only on files that are wrong as a whole, never because of
\* the order it came to them.
RefusesOnlyTheUnloadable ==
    [][pc = "load" /\ pc' = "returned" => ~Loadable(request.app)]_vars

\* Every client that was opened is closed when the stage has returned, whichever
\* step failed.
ClientsAreClosed == pc = "returned" => open = {}

\* A client is made with the secret its config names or not at all, although the
\* files are read after the config was validated, twice, and may change in
\* between.  Nothing is promised of a registry for which only a username is
\* configured, except that it is shown no secret.
NamedSecretIsShown ==
    LET config == request.config
    IN  /\ \A c \in {"cluster", "listing"} :
              shown[c] # None =>
                  shown[c] = IF config.sasl = None THEN "nothing" ELSE "secret"
        /\ shown["registry"] # None =>
              (shown["registry"] = "secret" <=> NamesSecret(config.schemaRegistry))

\* A stage returns, however often the files change.
PreparedStageReturns == pc = "called" ~> pc = "returned"

-----------------------------------------------------------------------------
(***************************************************************************)
(* Deployment has all of this in one step, Begin, or in a read that fails. *)
(***************************************************************************)
Began == IF pc \in {"called", "connect", "connectRegistry", "connected", "load"} THEN "begin"
         ELSE IF pc = "returned" THEN "returned" ELSE "list"

D == INSTANCE Deployment WITH
    Revisions <- {}, Targets <- {}, Pipelines <- {}, Options <- {}, ForeignStates <- {},
    MaxDeployments <- 0, MaxOthers <- 0, MaxFaults <- 0, MaxRestarts <- 0,
    cluster <- NoTopics, registry <- <<>>,
    target <- [allowTopicDeletion |-> FALSE, allowPartitionIncrease |-> FALSE,
               protectedTopics |-> {},
               schemaRegistry |-> request.config.schemaRegistry # None],
    running <- IF request.running THEN AsRevision(request.app) ELSE None,
    revision <- AsRevision(request.app), pipeline <- None, position <- 1,
    stage <- request.stage, outcome <- None, pc <- Began, verdict <- verdict,
    actual <- NoTopics, unplanned <- {}, latest <- None, changes <- {}, blocked <- {},
    todo <- {}, failed <- {}, quiet <- FALSE, budget <- 0

\* A stage goes on to the cluster, or returns, only as Deployment's Begin lets it
\* or because something could not be read: it succeeds early only when there is
\* nothing to restore or to register, and lists only with a revision that loads.
BeginsAsDeployment ==
    [][Began = "begin" /\ Began' # "begin"
       => D!Begin \/ (D!Asking /\ D!Return("failure"))]_vars

\* "A topic in a.yaml has no name": a document that declares something is never
\* dropped for want of a name.  Not true of the code.
NamelessIsRefused ==
    pc \in {"list", "listing", "planning"} =>
        \A i \in Files(request.app) : \A j \in DOMAIN request.app.entries[i].documents :
            LET d == request.app.entries[i].documents[j]
            IN  d.replicationFactor # 0 \/ d.schema # None => d.name # None
=============================================================================
