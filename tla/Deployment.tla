----------------------------- MODULE Deployment -----------------------------
(***************************************************************************)
(* The deployment plugin at work: piped runs the stages of one deployment  *)
(* after another, and a stage is a sequence of requests to a cluster and a *)
(* registry that other people change at the same time.                     *)
(*                                                                         *)
(* A step is one request, or the plugin's own computation between two of   *)
(* them.  A request may fail, or take effect and lose its answer; piped    *)
(* may be restarted anywhere, with another deploy-target config, and then  *)
(* executes the interrupted stage again from its beginning.                *)
(***************************************************************************)
EXTENDS Apply, Sequences

CONSTANTS
    Revisions,       \* the commits that may be deployed
    Targets,         \* the deploy-target configs piped may be started with
    Pipelines,       \* the stage lists an application config may request
    Options,         \* the stage options an application config may give
    ForeignStates,   \* the states in which other people may leave a topic
    MaxDeployments, MaxOthers, MaxFaults, MaxRestarts   \* bounds of a behaviour

StageNames == {"KAFKA_PLAN", "KAFKA_REGISTER_SCHEMA", "KAFKA_APPLY", "KAFKA_ROLLBACK"}

StageOptions == [exitOnNoChanges: BOOLEAN, continueOnError: BOOLEAN,
                 compatibility: Levels \union {None}]
NoOptions == [exitOnNoChanges |-> FALSE, continueOnError |-> FALSE,
              compatibility |-> None]

ASSUME DeploymentAssumption ==
    /\ Revisions \subseteq Revision
    /\ Targets \subseteq Target
    /\ Pipelines \subseteq Seq(StageNames \ {"KAFKA_ROLLBACK"}) \ {<<>>}
    /\ Options \subseteq StageOptions
    /\ ForeignStates \subseteq TopicState
    /\ {MaxDeployments, MaxOthers, MaxFaults, MaxRestarts} \subseteq Nat
    /\ None \notin Revision /\ None \notin {"success", "failure"}

VARIABLES
    cluster, registry,  \* the two services
    target,     \* the deploy-target config piped runs with
    running,    \* the revision last deployed successfully, None before the first
    revision,   \* the revision being deployed
    pipeline,   \* the stages built for this deployment, and their options
    position,   \* how many forward stages have been started
    stage,      \* the stage being executed, None outside a deployment
    outcome,    \* how the last deployment ended
    pc,         \* where the stage stands
    verdict,    \* what the stage returned
    actual,     \* the cluster as the stage listed it
    unplanned,  \* declared topics Build has not come to yet
    latest,     \* the subject's latest body, between LatestSchema and CheckCompatibility
    changes, blocked,  \* the plan
    todo,       \* the changes this stage has yet to carry out
    failed,     \* the changes it tried that answered with an error
    quiet,      \* history: has nobody else changed anything meanwhile?
    budget      \* what is left of the bounds

world == <<cluster, registry>>
piped == <<target, running, revision, pipeline, position, stage, outcome>>
run   == <<actual, unplanned, latest, changes, blocked, todo, failed>>
vars  == <<world, piped, pc, verdict, run, quiet, budget>>

Steps == {"idle", "begin", "list", "describe", "plan", "check", "execute", "returned"}

\* The revision a stage plans from: a rollback goes back to the running one.
Source == IF stage = "KAFKA_ROLLBACK" THEN running ELSE revision

Spend(kind) == budget[kind] > 0 /\ budget' = [budget EXCEPT ![kind] = @ - 1]

\* The next declared topic of Build's first loop.
IsNextTopic(t) == t \in unplanned /\ \A u \in unplanned : t <= u
-----------------------------------------------------------------------------
Init ==
    /\ cluster \in [Topics -> ForeignStates \union {None}]
    /\ registry \in Registries
    /\ target \in Targets
    /\ running = None /\ revision = None /\ pipeline = None /\ position = 0
    /\ stage = None /\ outcome = None /\ pc = "idle" /\ verdict = None
    /\ actual = NoTopics /\ unplanned = {} /\ latest = None
    /\ changes = {} /\ blocked = {} /\ todo = {} /\ failed = {}
    /\ quiet = [run |-> FALSE, deployment |-> FALSE]
    /\ budget = [deployments |-> MaxDeployments, others |-> MaxOthers,
                 faults |-> MaxFaults, restarts |-> MaxRestarts]

(***************************************************************************)
(* piped.  A pipeline sync runs the requested stages and, when there is    *)
(* one at all, has a rollback stage; a quick sync registers schemas and    *)
(* applies, and has a rollback stage only when piped asks for one.         *)
(***************************************************************************)
BuildPipelineSyncStages(requested, options) ==
    [stages |-> requested, rollback |-> requested # <<>>, with |-> options]

BuildQuickSyncStages(rollback) ==
    [stages |-> <<"KAFKA_REGISTER_SCHEMA", "KAFKA_APPLY">>,
     rollback |-> rollback, with |-> NoOptions]

ForgetRun ==
    /\ verdict' = None
    /\ actual' = NoTopics /\ unplanned' = {} /\ latest' = None
    /\ changes' = {} /\ blocked' = {} /\ todo' = {} /\ failed' = {}

StartDeployment ==
    /\ pc = "idle"
    /\ Spend("deployments")
    /\ revision' \in Revisions
    /\ pipeline' \in {BuildPipelineSyncStages(p, o) : p \in Pipelines, o \in Options}
                     \union {BuildQuickSyncStages(b) : b \in BOOLEAN}
    /\ position' = 1
    /\ stage' = pipeline'.stages[1]
    /\ outcome' = None
    /\ pc' = "begin"
    /\ quiet' = [run |-> FALSE, deployment |-> TRUE]
    /\ ForgetRun
    /\ UNCHANGED <<world, target, running>>

\* The stage succeeded and another one follows.
NextStage ==
    /\ pc = "returned" /\ stage # "KAFKA_ROLLBACK"
    /\ verdict = "success" /\ position < Len(pipeline.stages)
    /\ position' = position + 1
    /\ stage' = pipeline.stages[position']
    /\ pc' = "begin"
    /\ quiet' = [quiet EXCEPT !.run = FALSE]
    /\ ForgetRun
    /\ UNCHANGED <<world, target, running, revision, pipeline, outcome, budget>>

\* The last stage succeeded, or a stage ended the deployment as exited.
Complete ==
    /\ pc = "returned" /\ stage # "KAFKA_ROLLBACK"
    /\ \/ verdict = "success" /\ position = Len(pipeline.stages)
       \/ verdict = "exited"
    /\ running' = revision
    /\ outcome' = "success"
    /\ stage' = None /\ pc' = "idle"
    /\ ForgetRun
    /\ UNCHANGED <<world, target, revision, pipeline, position, quiet, budget>>

\* A stage failed, and the deployment has a rollback stage.
StartRollback ==
    /\ pc = "returned" /\ stage # "KAFKA_ROLLBACK"
    /\ verdict = "failure" /\ pipeline.rollback
    /\ stage' = "KAFKA_ROLLBACK"
    /\ pc' = "begin"
    /\ quiet' = [quiet EXCEPT !.run = FALSE]
    /\ ForgetRun
    /\ UNCHANGED <<world, target, running, revision, pipeline, position, outcome, budget>>

\* The rollback stage is over, or a stage failed and there is none.
GiveUp ==
    /\ pc = "returned"
    /\ stage = "KAFKA_ROLLBACK" \/ (verdict = "failure" /\ ~pipeline.rollback)
    /\ outcome' = "failure"
    /\ stage' = None /\ pc' = "idle"
    /\ ForgetRun
    /\ UNCHANGED <<world, target, running, revision, pipeline, position, quiet, budget>>

\* piped restarts, perhaps with another deploy-target config, and executes the
\* interrupted stage again.
Restart ==
    /\ Spend("restarts")
    /\ target' \in Targets
    /\ quiet' = [run |-> FALSE, deployment |-> quiet.deployment /\ target' = target]
    /\ \/ pc \in {"idle", "returned"} /\ UNCHANGED <<pc, verdict, run>>
       \/ pc \notin {"idle", "returned"} /\ pc' = "begin" /\ ForgetRun
    /\ UNCHANGED <<world, running, revision, pipeline, position, stage, outcome>>
-----------------------------------------------------------------------------
(***************************************************************************)
(* Everybody else on the shared cluster and registry.                      *)
(***************************************************************************)
Others ==
    /\ Spend("others")
    /\ \/ /\ \E t \in Topics, s \in ForeignStates \union {None} :
                /\ s # cluster[t]
                /\ cluster' = [cluster EXCEPT ![t] = s]
          /\ UNCHANGED registry
       \/ /\ \E s \in Subjects, versions \in Subject :
                /\ versions # registry[s]
                /\ registry' = [registry EXCEPT ![s] = versions]
          /\ UNCHANGED cluster
    /\ quiet' = [run |-> FALSE, deployment |-> FALSE]
    /\ UNCHANGED <<piped, pc, verdict, run>>

(***************************************************************************)
(* ExecuteStage.                                                           *)
(***************************************************************************)
Return(v) == pc' = "returned" /\ verdict' = v

NothingToRestore == stage = "KAFKA_ROLLBACK" /\ running = None
NothingToRegister == stage = "KAFKA_REGISTER_SCHEMA" /\ ~target.schemaRegistry

\* Up to the first request: the early successes, and loading the desired state.
Begin ==
    /\ pc = "begin"
    /\ IF NothingToRestore \/ NothingToRegister THEN Return("success")
       ELSE IF ~Source.loads THEN Return("failure")
       ELSE pc' = "list" /\ UNCHANGED verdict
    /\ UNCHANGED <<world, piped, run, quiet, budget>>

\* ListTopics asks for the topics first ...
List ==
    /\ pc = "list"
    /\ actual' = ListedTopics(cluster)
    /\ unplanned' = Declared(Source)
    /\ pc' = IF cluster = NoTopics THEN "plan" ELSE "describe"
    /\ quiet' = [quiet EXCEPT !.run = TRUE]
    /\ UNCHANGED <<world, piped, verdict, latest, changes, blocked, todo, failed, budget>>

\* Mutant: the second request is never made.
DescribeWithoutConfigs ==
    /\ pc = "describe" /\ pc' = "plan"
    /\ UNCHANGED <<world, piped, verdict, run, quiet, budget>>

\* ... and then for the configs of those it was told of.
Describe ==
    /\ pc = "describe"
    /\ IF DescribeAccepted(cluster, actual)
       THEN pc' = "plan" /\ actual' = WithConfigs(cluster, actual) /\ UNCHANGED verdict
       ELSE Return("failure") /\ UNCHANGED actual
    /\ UNCHANGED <<world, piped, unplanned, latest, changes, blocked, todo, failed,
                   quiet, budget>>

\* Build's first loop: a declared topic against the listing, then its subject's
\* latest version.
PlanNextTopic(t) ==
    /\ pc = "plan" /\ IsNextTopic(t)
    /\ LET topic   == Source.topics[t]
           plan    == PlanTopic(t, topic, actual[t], target)
           planned == HasSchemaToPlan(t, topic, target)
           found   == LatestSchema(registry, topic.schema.subject)
       IN  /\ changes' = changes \union plan.changes
           /\ blocked' = blocked \union plan.blocked
           /\ IF planned /\ ~target.schemaRegistry
              THEN Return("failure") /\ UNCHANGED <<unplanned, latest>>
              ELSE IF planned /\ SchemaDiffers(topic, found)
              THEN pc' = "check" /\ latest' = found /\ UNCHANGED <<verdict, unplanned>>
              ELSE unplanned' = unplanned \ {t} /\ UNCHANGED <<pc, verdict, latest>>
    /\ UNCHANGED <<world, piped, actual, todo, failed, quiet, budget>>

\* Mutant: an incompatible schema is asked about again.
CheckNextSchemaUntilCompatible(t) ==
    /\ pc = "check" /\ IsNextTopic(t)
    /\ LET topic == Source.topics[t]
           plan  == PlanSchema(t, topic, latest,
                        CheckCompatibility(registry, topic.schema.subject,
                                           topic.schema.body))
       IN  /\ changes' = changes \union plan.changes
           /\ blocked' = blocked \union plan.blocked
           /\ unplanned' = IF plan.blocked = {} THEN unplanned \ {t} ELSE unplanned
    /\ latest' = None /\ pc' = "plan"
    /\ UNCHANGED <<world, piped, verdict, actual, todo, failed, quiet, budget>>

\* The second request of planSchema.  The override of the stage's options is
\* passed along to Build and not used by it.
CheckNextSchema(t) ==
    /\ pc = "check" /\ IsNextTopic(t)
    /\ LET topic == Source.topics[t]
           plan  == PlanSchema(t, topic, latest,
                        CheckCompatibility(registry, topic.schema.subject,
                                           topic.schema.body))
       IN  /\ changes' = changes \union plan.changes
           /\ blocked' = blocked \union plan.blocked
    /\ unplanned' = unplanned \ {t} /\ latest' = None
    /\ pc' = "plan"
    /\ UNCHANGED <<world, piped, verdict, actual, todo, failed, quiet, budget>>

(***************************************************************************)
(* What a stage makes of its finished plan: the deletions have been added, *)
(* and it returns at once or starts carrying out the changes that are its  *)
(* own.                                                                    *)
(***************************************************************************)
FinishedPlan ==
    LET deletions == PlanDeletions(Source, actual, target)
    IN  [changes |-> changes \union deletions.changes,
         blocked |-> blocked \union deletions.blocked]

\* Mutant: exits when no topic changes, although a schema does.
PlanVerdictForTopicsOnly(plan) ==
    IF HasBlocked(plan) THEN "failure"
    ELSE IF TopicChanges(plan.changes) = {} /\ pipeline.with.exitOnNoChanges THEN "exited"
    ELSE "success"

\* Mutant: a blocked plan is reported and passes.
PlanVerdictIgnoresBlocked(plan) ==
    IF Empty(plan) /\ pipeline.with.exitOnNoChanges THEN "exited" ELSE "success"

PlanVerdict(plan) ==
    IF HasBlocked(plan) THEN "failure"
    ELSE IF Empty(plan) /\ pipeline.with.exitOnNoChanges THEN "exited"
    ELSE "success"

\* Mutant: a rollback undoes whatever its plan says.
RestorableIsEverything(plan) == TopicChanges(plan.changes)

Restorable(plan) == TopicChanges(plan.changes) \ Irreversible(plan.changes)
Skipped(plan)    == TopicChanges(plan.changes) \intersect Irreversible(plan.changes)

\* Mutant: applies what is not blocked of a blocked plan.
WorkAroundBlocked(plan) ==
    CASE stage = "KAFKA_PLAN" -> {}
      [] stage = "KAFKA_REGISTER_SCHEMA" -> SchemaChanges(plan.changes)
      [] stage = "KAFKA_APPLY" -> TopicChanges(plan.changes)
      [] stage = "KAFKA_ROLLBACK" -> Restorable(plan)

\* The changes the stage carries out.
Work(plan) ==
    CASE stage = "KAFKA_PLAN" -> {}
      [] stage = "KAFKA_REGISTER_SCHEMA" ->
            IF HasBlocked(plan) THEN {} ELSE SchemaChanges(plan.changes)
      [] stage = "KAFKA_APPLY" ->
            IF HasBlocked(plan) THEN {} ELSE TopicChanges(plan.changes)
      [] stage = "KAFKA_ROLLBACK" -> Restorable(plan)

\* Mutant: a rollback is silent about what it skipped.
VerdictIgnoresSkipped(plan) ==
    IF stage = "KAFKA_PLAN" THEN PlanVerdict(plan)
    ELSE IF HasBlocked(plan) THEN "failure" ELSE "success"

\* What a stage answers when all its changes were carried out, none included.
Verdict(plan) ==
    CASE stage = "KAFKA_PLAN" -> PlanVerdict(plan)
      [] stage \in {"KAFKA_REGISTER_SCHEMA", "KAFKA_APPLY"} ->
            IF HasBlocked(plan) THEN "failure" ELSE "success"
      [] stage = "KAFKA_ROLLBACK" ->
            IF Skipped(plan) # {} \/ HasBlocked(plan) THEN "failure" ELSE "success"

Decide ==
    /\ pc = "plan" /\ unplanned = {}
    /\ changes' = FinishedPlan.changes
    /\ blocked' = FinishedPlan.blocked
    /\ todo' = Work(FinishedPlan)
    /\ IF todo' = {}
       THEN Return(Verdict(FinishedPlan))
       ELSE pc' = "execute" /\ UNCHANGED verdict
    /\ UNCHANGED <<world, piped, actual, unplanned, latest, failed, quiet, budget>>

(***************************************************************************)
(* Carrying out the changes one by one, in the plan's order.               *)
(***************************************************************************)
StopsAtFailure ==
    \/ stage = "KAFKA_REGISTER_SCHEMA"
    \/ stage = "KAFKA_APPLY" /\ ~pipeline.with.continueOnError

Try(c) ==
    /\ pc = "execute" /\ IsNext(c, todo)
    /\ todo' = todo \ {c}
    /\ UNCHANGED <<piped, actual, unplanned, latest, changes, blocked, quiet>>

TakesEffect(c) ==
    /\ Accepted(cluster, registry, c)
    /\ cluster' = ClusterAfter(cluster, c)
    /\ registry' = RegistryAfter(registry, c)

\* Mutant: a stage that continues on errors forgets them.
AnswersErrorUnnoticed(c) ==
    IF StopsAtFailure
    THEN failed' = failed \union {c} /\ Return("failure")
    ELSE UNCHANGED <<failed, pc, verdict>>

AnswersError(c) ==
    /\ failed' = failed \union {c}
    /\ IF StopsAtFailure THEN Return("failure") ELSE UNCHANGED <<pc, verdict>>

Perform(c) ==
    /\ Try(c)
    /\ TakesEffect(c)
    /\ UNCHANGED <<pc, verdict, failed, budget>>

\* Mutant: a change that was refused stays the next one.
RefusedAgainAndAgain(c) ==
    /\ pc = "execute" /\ IsNext(c, todo)
    /\ ~Accepted(cluster, registry, c)
    /\ AnswersError(c)
    /\ UNCHANGED <<world, piped, actual, unplanned, latest, changes, blocked, todo,
                   quiet, budget>>

Refused(c) ==
    /\ Try(c)
    /\ ~Accepted(cluster, registry, c)
    /\ AnswersError(c)
    /\ UNCHANGED <<world, budget>>

\* The request, or the answer to it, is lost: both are an error to the plugin.
RequestLost(c) ==
    /\ Spend("faults")
    /\ Try(c)
    /\ AnswersError(c)
    /\ UNCHANGED world

AnswerLost(c) ==
    /\ Spend("faults")
    /\ Try(c)
    /\ TakesEffect(c)
    /\ AnswersError(c)

\* The stage's context ends, by a deadline or because the deployment is
\* cancelled: a stage that continues on errors fails at each change it has left.
CutOff ==
    /\ Spend("faults")
    /\ pc = "execute" /\ todo # {} /\ ~StopsAtFailure
    /\ failed' = failed \union todo
    /\ todo' = {}
    /\ UNCHANGED <<world, piped, pc, verdict, actual, unplanned, latest, changes, blocked,
                   quiet>>

Finish ==
    /\ pc = "execute" /\ todo = {}
    /\ Return(IF failed = {} THEN Verdict([changes |-> changes, blocked |-> blocked])
              ELSE "failure")
    /\ UNCHANGED <<world, piped, run, quiet, budget>>

\* A read that fails: the deploy target's config and secrets or the stage's
\* options, connecting, listing, describing, or asking the registry.
Asking ==
    \/ pc \in {"begin", "list", "describe", "check"}
    \/ /\ pc = "plan" /\ target.schemaRegistry
       /\ \E t \in unplanned : /\ IsNextTopic(t)
                               /\ HasSchemaToPlan(t, Source.topics[t], target)

ReadFails ==
    /\ Spend("faults")
    /\ Asking
    /\ Return("failure")
    /\ UNCHANGED <<world, piped, run, quiet>>

-----------------------------------------------------------------------------
Piped == StartDeployment \/ NextStage \/ Complete \/ StartRollback \/ GiveUp

\* The plugin's steps when every request is answered.
Plugin ==
    \/ Begin \/ List \/ Describe \/ Decide \/ Finish
    \/ \E t \in Topics : PlanNextTopic(t) \/ CheckNextSchema(t)
    \/ \E c \in todo : Perform(c) \/ Refused(c)

Faults == ReadFails \/ CutOff \/ \E c \in todo : RequestLost(c) \/ AnswerLost(c)

Next == Piped \/ Plugin \/ Faults \/ Others \/ Restart

Spec == Init /\ [][Next]_vars

\* piped drives a stage that returned to the next one, and the plugin's own
\* goroutine runs on.  Nobody has to start a deployment.
EndsStage == NextStage \/ Complete \/ StartRollback \/ GiveUp

FairSpec == Spec /\ WF_vars(Plugin) /\ WF_vars(EndsStage)
=============================================================================
