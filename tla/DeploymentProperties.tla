------------------------ MODULE DeploymentProperties ------------------------
(***************************************************************************)
(* What the deployment plugin gets right, whoever interferes and whatever  *)
(* fails.                                                                  *)
(***************************************************************************)
EXTENDS Deployment, Conformance

Pipeline == [stages: Seq(StageNames), rollback: BOOLEAN, with: StageOptions]
Verdicts == {"success", "exited", "failure"}

\* Every variable has its type: a record or function of the sets of Provider
\* and Plan, or None.
TypeOK ==
    /\ cluster \in Clusters /\ registry \in Registries
    /\ target \in Target
    /\ running \in Revisions \union {None} /\ revision \in Revisions \union {None}
    /\ pipeline \in Pipeline \union {None} /\ position \in Nat
    /\ stage \in StageNames \union {None}
    /\ outcome \in {"success", "failure", None}
    /\ pc \in Steps /\ verdict \in Verdicts \union {None}
    /\ actual \in Clusters /\ unplanned \subseteq Topics
    /\ latest \in Bodies \union {None}
    /\ changes \subseteq Change /\ blocked \subseteq [topic: Topics, reason: Reasons]
    /\ todo \subseteq Change /\ failed \subseteq Change
    /\ quiet \in [run: BOOLEAN, deployment: BOOLEAN]
    /\ budget \in [deployments: Nat, others: Nat, faults: Nat, restarts: Nat]

-----------------------------------------------------------------------------
(***************************************************************************)
(* Success means what it says.  These are stated against the cluster, not  *)
(* against a plan.                                                         *)
(***************************************************************************)
TopicsConform(r)  == TopicsAsDeclared(r, cluster, target)
SchemasConform(r) == SchemasAsDeclared(r, registry)

\* The forward stages of the deployment.
RequestedStages == {pipeline.stages[i] : i \in DOMAIN pipeline.stages}

Returned(s, v) == pc = "returned" /\ stage = s /\ verdict = v

\* The source of a stage, when no count of it is narrowed on the way.
Faithful == Source # None /\ CountsFit(Source)

\* KAFKA_APPLY reports success only if every declared topic is as declared and
\* nothing is left to delete, when nobody else changed anything since it
\* listed the cluster; lost requests, lost answers, a stage cut off and
\* interrupted earlier attempts make no difference.
ApplySuccessMeansConverged ==
    Returned("KAFKA_APPLY", "success") /\ quiet.run /\ Faithful => TopicsConform(revision)

\* KAFKA_ROLLBACK reports success only if every topic is as the running
\* revision declares it ("The cluster matches the previously running
\* revision"): what it skipped or was refused makes it a failure.
RollbackSuccessMeansRestored ==
    Returned("KAFKA_ROLLBACK", "success") /\ quiet.run /\ Faithful
        => TopicsConform(running)

\* KAFKA_REGISTER_SCHEMA reports success only if the registry knows every
\* declared body as a version of its subject, although several topics may
\* name one subject and each registration is planned before the first is made.
RegisterSuccessMeansRegistered ==
    Returned("KAFKA_REGISTER_SCHEMA", "success") /\ quiet.run =>
        \A t \in Declared(revision) :
            HasSchemaToPlan(t, revision.topics[t], target) =>
                revision.topics[t].schema.body
                    \in Versions(registry, revision.topics[t].schema.subject)

\* A deployment that ran both KAFKA_REGISTER_SCHEMA and KAFKA_APPLY, or was
\* ended early by exitOnNoChanges, and succeeded undisturbed leaves topics and
\* schemas as declared, although each stage made a plan of its own.
SuccessfulDeploymentIsSynced ==
    (/\ pc = "idle" /\ outcome = "success" /\ quiet.deployment
     /\ {"KAFKA_REGISTER_SCHEMA", "KAFKA_APPLY"} \subseteq RequestedStages
     /\ DistinctSubjects(revision) /\ NothingReverted(revision, registry) /\ CountsFit(revision))
        => TopicsConform(revision) /\ SchemasConform(revision)

-----------------------------------------------------------------------------
(***************************************************************************)
(* Re-planning: each stage, and each attempt at a stage, plans anew.       *)
(***************************************************************************)
\* While KAFKA_APPLY is at work undisturbed, a fresh plan would hold every
\* change it has left and otherwise only changes that failed: an apply that is
\* interrupted here and executed again picks up exactly what is missing.
ApplyCanBeResumed ==
    pc = "execute" /\ stage = "KAFKA_APPLY" /\ quiet.run /\ Faithful
        => LET now == TopicChanges(Build(revision, cluster, target, registry).changes)
           IN  todo \subseteq now /\ now \subseteq todo \union failed

\* The cluster accepts every topic change a stage has left, in whatever order
\* the changes before it went, unless somebody else changed the cluster.
PlannedChangesAreAcceptable ==
    pc = "execute" /\ quiet.run /\ Faithful
        => \A c \in TopicChanges(todo) : Accepted(cluster, registry, c)

\* An undisturbed KAFKA_APPLY deletes a topic only once every declared topic is as
\* declared, unless it continues on errors and a change failed; what failed in an
\* earlier attempt makes no difference.
DeletionsComeLast ==
    [][\A t \in Topics :
          (/\ stage = "KAFKA_APPLY" /\ pc = "execute"
           /\ StopsAtFailure \/ failed = {}
           /\ quiet.run /\ quiet'.run /\ Faithful
           /\ cluster[t] # None /\ cluster'[t] = None)
          => \A u \in Declared(revision) :
                cluster[u] = DesiredState(revision.topics[u])]_vars

\* Once KAFKA_PLAN has found a plan applicable, no later stage of an
\* undisturbed deployment finds anything blocked.
ApplicablePlanStaysApplicable ==
    (/\ pipeline # None /\ position > 1 /\ pipeline.stages[1] = "KAFKA_PLAN"
     /\ stage \in {"KAFKA_REGISTER_SCHEMA", "KAFKA_APPLY"}
     /\ quiet.deployment /\ DistinctSubjects(revision) /\ CountsFit(revision))
        => blocked = {}

\* A forward stage changes nothing at all when its plan has a blocked change.
BlockedPlanIsNotApplied ==
    [][/\ world' # world /\ budget'.others = budget.others
       /\ stage \in {"KAFKA_REGISTER_SCHEMA", "KAFKA_APPLY"}
       => blocked = {}]_vars

-----------------------------------------------------------------------------
(***************************************************************************)
(* Why the plugin stays in custody: the parts of an inductive invariant.   *)
(***************************************************************************)
Planning == {"describe", "plan", "check"}
Busy     == Planning \union {"list", "execute"}

\* Inside a deployment there is a revision, and a stage of its pipeline.
InDeployment ==
    pc # "idle" =>
        /\ revision \in Revision /\ pipeline \in Pipeline /\ stage \in StageNames
        /\ position \in 1..Len(pipeline.stages)

\* A stage that has come past its beginning has a revision that loads, and
\* Build only comes to topics that revision declares.
HasSource ==
    /\ pc \in Busy => Source \in Revision
    /\ pc \in Planning => unplanned \subseteq Declared(Source)

\* Between the two requests of planSchema, the topic in hand has a schema to
\* plan and there is a registry to ask.
ChecksSchema ==
    pc = "check" =>
        /\ target.schemaRegistry
        /\ \A t \in unplanned : IsNextTopic(t) => HasSchemaToPlan(t, Source.topics[t], target)

\* The changes each stage may carry out.
StageDoes(c) ==
    CASE stage = "KAFKA_PLAN" -> FALSE
      [] stage = "KAFKA_REGISTER_SCHEMA" -> c.kind = "RegisterSchema"
      [] stage = "KAFKA_APPLY" -> c.kind # "RegisterSchema"
      [] stage = "KAFKA_ROLLBACK" -> c.kind \in {"CreateTopic", "UpdateTopicConfig"}

PlanIsWarranted ==
    /\ pc \in {"begin", "list"} => changes = {}
    /\ pc \in Planning \union {"execute"} => \A c \in changes : Warranted(c, Source, target)
    /\ pc = "execute" => /\ todo \subseteq changes
                         /\ \A c \in todo : StageDoes(c)
                         /\ stage # "KAFKA_ROLLBACK" => blocked = {}

\* While a stage runs it acts only on a plan warranted by the revision it works
\* towards, the deploy target it was started with, and its own name.
CustodyInvariant ==
    TypeOK /\ InDeployment /\ HasSource /\ ChecksSchema /\ PlanIsWarranted

-----------------------------------------------------------------------------
\* Whatever the plugin changes, it was given custody of: see Custody.
Mandate == [stage |-> stage, target |-> target, source |-> Source]

PluginCustody == INSTANCE Custody WITH
    cluster <- cluster, registry <- registry,
    mandate <- Mandate, work <- <<pc, verdict, run>>

StaysInCustody == PluginCustody!Spec

-----------------------------------------------------------------------------
(***************************************************************************)
(* What comments of the repository say of plans and stages.  None of these *)
(* holds of the code.                                                      *)
(***************************************************************************)
\* "Deletions last: a topic is only deleted once everything else has landed."
\* With continueOnError it is deleted although something else failed.
DeletedOnlyOnceAllElseLanded ==
    stage = "KAFKA_APPLY" /\ pc = "execute" =>
        ((\E c \in TopicChanges(changes) : Deletes(c) /\ c \notin todo \union failed)
            => \A c \in failed : Deletes(c))

\* "Compatibility overrides the compatibility level checked against, for every
\* subject in this application."  No change to register fails that level.
OverrideDecidesCompatibility ==
    (/\ stage = "KAFKA_REGISTER_SCHEMA" /\ pc = "execute"
     /\ pipeline.with.compatibility # None)
        => \A c \in SchemaChanges(changes) :
              \/ c.replaces = None
              \/ <<c.replaces, c.body>> \in CompatibleAt[pipeline.with.compatibility]

\* KAFKA_APPLY "creates, updates and deletes topics to match the desired state",
\* whatever counts are declared.
AppliedCountsAreDeclared ==
    Returned("KAFKA_APPLY", "success") /\ quiet.run => TopicsConform(revision)

-----------------------------------------------------------------------------
\* A stage that piped starts returns, and a deployment ends.
StageReturns == pc = "begin" ~> pc = "returned"
DeploymentEnds == pc # "idle" ~> pc = "idle"
=============================================================================
