------------------------------ MODULE Livestate ------------------------------
(***************************************************************************)
(* GetLivestate: on a timer, outside any deployment, piped asks for what   *)
(* is on the cluster and whether it is as the repository declares.         *)
(*                                                                         *)
(* One report is a sequence of reads.  The cluster is listed once, and     *)
(* both halves of the answer are made from that listing; the registry is   *)
(* asked twice, once for the resources and once for the plan.  Deployments *)
(* and everybody else go on changing both services in between.             *)
(***************************************************************************)
EXTENDS Conformance

CONSTANTS
    Revisions,      \* the commits that may be deployed
    Targets,        \* the deploy-target configs
    ForeignStates,  \* the states in which a topic may be left
    MaxOthers, MaxFaults   \* bounds of one report

ASSUME LivestateAssumption ==
    /\ Revisions \subseteq Revision
    /\ Targets \subseteq Target
    /\ ForeignStates \subseteq TopicState
    /\ {MaxOthers, MaxFaults} \subseteq Nat

VARIABLES
    cluster, registry,  \* the two services
    revision, target,   \* what piped asks about
    drift,      \* driftDetectionEnabled
    pc,         \* where the report stands
    actual,     \* the cluster as listed
    unread,     \* declared topics whose subject is still to be read
    resources,  \* the live state
    unplanned,  \* declared topics Build has not come to yet
    latest,     \* the subject's latest body, between LatestSchema and CheckCompatibility
    plan,       \* what Build has planned so far
    status,     \* the sync state
    quiet,      \* history: has nobody changed anything since the listing began?
    moved,      \* history: the subjects somebody has changed since then
    budget      \* what is left of the bounds

world   == <<cluster, registry>>
request == <<revision, target, drift>>
vars == <<world, request, pc, actual, unread, resources, unplanned, latest, plan,
          status, quiet, moved, budget>>

Places   == {"idle", "list", "describe", "load", "subjects", "plan", "check",
             "reported", "failed"}
Statuses == {"synced", "outOfSync", "unknown", "invalidConfig"}
NoPlan   == [changes |-> {}, blocked |-> {}]

Spend(kind) == budget[kind] > 0 /\ budget' = [budget EXCEPT ![kind] = @ - 1]

IsFirst(t, rest) == t \in rest /\ \A u \in rest : t <= u
-----------------------------------------------------------------------------
(***************************************************************************)
(* The resources shown.  "noted" marks a topic described as no longer      *)
(* declared in the repository.                                             *)
(***************************************************************************)
\* Mutant: the live state is taken from a listing of its own.
TopicResourceListedAgain(t, declared) ==
    [kind |-> "Topic", topic |-> t,
     health |-> IF cluster[t] = None THEN "unhealthy" ELSE "healthy",
     noted |-> t \notin declared]

TopicResource(t, declared) ==
    [kind |-> "Topic", topic |-> t,
     health |-> IF actual[t] = None THEN "unhealthy" ELSE "healthy",
     noted |-> t \notin declared]

\* A resource for every declared topic and every owned topic on the cluster.
TopicResources(declared, ownership) ==
    {TopicResource(t, declared) :
        t \in declared \union {u \in ownership : actual[u] # None}}

SubjectResource(t, health) ==
    [kind |-> "SchemaSubject", topic |-> t, health |-> health, noted |-> FALSE]

SubjectHealth(subject) ==
    IF target.schemaRegistry /\ LatestSchema(registry, subject) # None
    THEN "healthy" ELSE "unhealthy"

WithSchema(r) == {t \in Declared(r) : r.topics[t].schema # None}
-----------------------------------------------------------------------------
Init ==
    /\ cluster \in [Topics -> ForeignStates \union {None}]
    /\ registry \in Registries
    /\ revision \in Revisions /\ target \in Targets /\ drift \in BOOLEAN
    /\ pc = "idle" /\ actual = NoTopics /\ unread = {} /\ resources = {}
    /\ unplanned = {} /\ latest = None /\ plan = NoPlan /\ status = None
    /\ quiet = FALSE /\ moved = {}
    /\ budget = [others |-> MaxOthers, faults |-> MaxFaults]

\* piped asks.
GetLivestate ==
    /\ pc = "idle"
    /\ pc' = "list"
    /\ UNCHANGED <<world, request, actual, unread, resources, unplanned, latest, plan,
                   status, quiet, moved, budget>>

\* Not one deploy target, one that Validate refuses, or no client to be had.
CannotConnect ==
    /\ pc = "idle"
    /\ pc' = "failed"
    /\ UNCHANGED <<world, request, actual, unread, resources, unplanned, latest, plan,
                   status, quiet, moved, budget>>

List ==
    /\ pc = "list"
    /\ actual' = ListedTopics(cluster)
    /\ pc' = IF cluster = NoTopics THEN "load" ELSE "describe"
    /\ quiet' = TRUE /\ moved' = {}
    /\ UNCHANGED <<world, request, unread, resources, unplanned, latest, plan, status,
                   budget>>

Describe ==
    /\ pc = "describe"
    /\ IF DescribeAccepted(cluster, actual)
       THEN pc' = "load" /\ actual' = WithConfigs(cluster, actual)
       ELSE pc' = "failed" /\ UNCHANGED actual
    /\ UNCHANGED <<world, request, unread, resources, unplanned, latest, plan, status,
                   quiet, moved, budget>>

Report(s) == pc' = "reported" /\ status' = s

\* An application config that cannot be read names no ownership; topic files
\* that cannot be read leave it in force.  Neither leaves anything declared.
LoadFails ==
    /\ pc = "load" /\ ~revision.loads
    /\ \E ownership \in {{}, revision.ownership} :
          resources' = TopicResources({}, ownership)
    /\ Report("invalidConfig")
    /\ UNCHANGED <<world, request, actual, unread, unplanned, latest, plan, quiet, moved,
                   budget>>

Load ==
    /\ pc = "load" /\ revision.loads
    /\ resources' = TopicResources(Declared(revision), revision.ownership)
    /\ unread' = WithSchema(revision)
    /\ unplanned' = Declared(revision)
    /\ pc' = "subjects"
    /\ UNCHANGED <<world, request, actual, latest, plan, status, quiet, moved, budget>>

\* subjectResource: the first time a subject's latest version is read.
ReadSubject(t) ==
    /\ pc = "subjects" /\ IsFirst(t, unread)
    /\ \/ /\ resources' = resources \union
                {SubjectResource(t, SubjectHealth(revision.topics[t].schema.subject))}
          /\ UNCHANGED budget
       \/ /\ target.schemaRegistry /\ Spend("faults")
          /\ resources' = resources \union {SubjectResource(t, "unknown")}
    /\ unread' = unread \ {t}
    /\ UNCHANGED <<world, request, pc, actual, unplanned, latest, plan, status, quiet,
                   moved>>

\* The live state is complete; the comparison follows, unless it is disabled.
Compare ==
    /\ pc = "subjects" /\ unread = {}
    /\ IF drift THEN pc' = "plan" /\ UNCHANGED status ELSE Report("unknown")
    /\ UNCHANGED <<world, request, actual, unread, resources, unplanned, latest, plan,
                   quiet, moved, budget>>
-----------------------------------------------------------------------------
(***************************************************************************)
(* Build, on the listing the resources were made from.                     *)
(***************************************************************************)
Extended(more) == [changes |-> plan.changes \union more.changes,
                   blocked |-> plan.blocked \union more.blocked]

PlanNextTopic(t) ==
    /\ pc = "plan" /\ IsFirst(t, unplanned)
    /\ LET topic   == revision.topics[t]
           planned == HasSchemaToPlan(t, topic, target)
           found   == LatestSchema(registry, topic.schema.subject)
       IN  /\ plan' = Extended(PlanTopic(t, topic, actual[t], target))
           /\ IF planned /\ ~target.schemaRegistry
              THEN Report("unknown") /\ UNCHANGED <<unplanned, latest>>
              ELSE IF planned /\ SchemaDiffers(topic, found)
              THEN pc' = "check" /\ latest' = found /\ UNCHANGED <<status, unplanned>>
              ELSE unplanned' = unplanned \ {t} /\ UNCHANGED <<pc, status, latest>>
    /\ UNCHANGED <<world, request, actual, unread, resources, quiet, moved, budget>>

CheckNextSchema(t) ==
    /\ pc = "check" /\ IsFirst(t, unplanned)
    /\ LET schema == revision.topics[t].schema
       IN  plan' = Extended(PlanSchema(t, revision.topics[t], latest,
                        CheckCompatibility(registry, schema.subject, schema.body)))
    /\ unplanned' = unplanned \ {t} /\ latest' = None
    /\ pc' = "plan"
    /\ UNCHANGED <<world, request, actual, unread, resources, status, quiet, moved,
                   budget>>

\* Mutant: a plan that is only blocked is taken for no drift.
SyncStateOfChanges(built) == IF built.changes = {} THEN "synced" ELSE "outOfSync"

\* A blocked change is still drift.
SyncState(built) == IF Empty(built) THEN "synced" ELSE "outOfSync"

Decide ==
    /\ pc = "plan" /\ unplanned = {}
    /\ plan' = Extended(PlanDeletions(revision, actual, target))
    /\ Report(SyncState(plan'))
    /\ UNCHANGED <<world, request, actual, unread, resources, unplanned, latest, quiet,
                   moved, budget>>

\* The registry cannot be asked while the plan is built: the status is unknown.
RegistryFails ==
    /\ Spend("faults")
    /\ \/ pc = "check"
       \/ /\ pc = "plan" /\ target.schemaRegistry
          /\ \E t \in unplanned : /\ IsFirst(t, unplanned)
                                  /\ HasSchemaToPlan(t, revision.topics[t], target)
    /\ Report("unknown")
    /\ UNCHANGED <<world, request, actual, unread, resources, unplanned, latest, plan,
                   quiet, moved>>

\* Without the cluster's own view there is nothing to report.
ClusterFails ==
    /\ Spend("faults")
    /\ pc \in {"list", "describe"} /\ pc' = "failed"
    /\ UNCHANGED <<world, request, actual, unread, resources, unplanned, latest, plan,
                   status, quiet, moved>>
-----------------------------------------------------------------------------
\* Deployments and everybody else, between the reads of a report: what they did
\* before the first is any state to start from.
Others ==
    /\ pc \in {"describe", "load", "subjects", "plan", "check"} /\ Spend("others")
    /\ \/ /\ \E t \in Topics, s \in ForeignStates \union {None} :
                s # cluster[t] /\ cluster' = [cluster EXCEPT ![t] = s]
          /\ UNCHANGED <<registry, moved>>
       \/ /\ \E s \in Subjects, versions \in Subject :
                /\ versions # registry[s]
                /\ registry' = [registry EXCEPT ![s] = versions]
                /\ moved' = moved \union {s}
          /\ UNCHANGED cluster
    /\ quiet' = FALSE
    /\ UNCHANGED <<request, pc, actual, unread, resources, unplanned, latest, plan, status>>

Next ==
    \/ GetLivestate \/ CannotConnect \/ List \/ Describe \/ LoadFails \/ Load \/ Compare \/ Decide
    \/ \E t \in Topics : ReadSubject(t) \/ PlanNextTopic(t) \/ CheckNextSchema(t)
    \/ RegistryFails \/ ClusterFails
    \/ Others

Spec == Init /\ [][Next]_vars
-----------------------------------------------------------------------------
TypeOK ==
    /\ cluster \in Clusters /\ registry \in Registries
    /\ revision \in Revision /\ target \in Target /\ drift \in BOOLEAN
    /\ pc \in Places /\ status \in Statuses \union {None}
    /\ actual \in Clusters /\ unread \subseteq Topics /\ unplanned \subseteq Topics
    /\ resources \subseteq [kind: {"Topic", "SchemaSubject"}, topic: Topics,
                            health: {"healthy", "unhealthy", "unknown"}, noted: BOOLEAN]
    /\ latest \in Bodies \union {None}
    /\ plan.changes \subseteq Change /\ plan.blocked \subseteq [topic: Topics, reason: Reasons]
    /\ quiet \in BOOLEAN /\ moved \subseteq Subjects /\ budget \in [others: Nat, faults: Nat]

Reported(s) == pc = "reported" /\ status = s

\* An undisturbed report is right whatever fails meanwhile: synced only if both
\* services are as declared, and out of sync only if they are not, so that a
\* registry that cannot be asked never raises a false alarm.
StatusIsTrue ==
    quiet =>
        /\ Reported("synced") => InSync(revision, cluster, target, registry)
        /\ Reported("outOfSync") => ~InSync(revision, cluster, target, registry)

\* Whoever interferes, a report that says synced shows no missing topic, and no
\* topic as left behind unless the deploy target protects it: both halves are of
\* one listing.  Subjects are read once for each half, so one may be shown as not
\* registered beside it, but only one that somebody changed in between.
SyncedShowsNoDrift ==
    Reported("synced") =>
        \A r \in resources :
            \/ /\ r.kind = "Topic" /\ r.health = "healthy"
               /\ r.noted => r.topic \in target.protectedTopics
            \/ /\ r.kind = "SchemaSubject"
               /\ r.health = "unhealthy" => revision.topics[r.topic].schema.subject \in moved
=============================================================================
