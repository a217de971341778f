---------------------------- MODULE PipelineProofs ----------------------------
(***************************************************************************)
(* Proofs, for any topics, keys, revisions, targets, pipelines and bounds, *)
(* about a deployment as a whole: each of its stages plans anew, and what  *)
(* one stage has achieved is still so when a later one plans and acts, as  *)
(* long as nobody else changes anything since the deployment began.        *)
(***************************************************************************)
EXTENDS DeploymentHistory, StageProofs

Forward == pc # "idle" /\ stage # "KAFKA_ROLLBACK"

InPlace ==
    /\ IF pc = "idle" THEN stage = None ELSE outcome = None
    /\ outcome = "success" => revision # None
    /\ Forward => stage = pipeline.stages[position]

\* A stage of this kind has succeeded in this deployment.
Past(s) == \E i \in 1..(position - 1) : pipeline.stages[i] = s
PlanIsPast     == Past("KAFKA_PLAN")
RegisterIsPast == Past("KAFKA_REGISTER_SCHEMA")
ApplyIsPast    == Past("KAFKA_APPLY")

\* What the success of each kind of stage leaves behind.
Checked ==
    DistinctSubjects(revision) =>
        /\ TopicRefusals(revision, cluster, target) = {}
        /\ SchemaRefusals(revision, registry, target) = {}
RegistryKnows == target.schemaRegistry => AllRegistered(revision)
Converged ==
    /\ ~BuildFails(revision, target)
    /\ TopicNeeds(revision, cluster, target) = {}
    /\ TopicRefusals(revision, cluster, target) = {}

StagesAreDone ==
    quiet.deployment /\ Forward /\ CountsFit(revision) =>
        /\ PlanIsPast => Checked
        /\ RegisterIsPast => RegistryKnows
        /\ ApplyIsPast => Converged

PipelineInvariant ==
    /\ InPlace /\ StagesAreDone
    /\ ApplicablePlanStaysApplicable
    /\ SuccessfulDeploymentIsSynced

-----------------------------------------------------------------------------
(***************************************************************************)
(* The steps of a stage.                                                   *)
(***************************************************************************)
\* The plugin's own steps, answered or not, keep to the stage piped has started.
LEMMA PluginKeepsItsPlace ==
    ASSUME CustodyInvariant, Plugin \/ Faults
    PROVE  /\ pc # "idle" /\ pc' # "idle" /\ pc # "returned"
           /\ UNCHANGED piped /\ quiet'.deployment = quiet.deployment
<1> USE DEF Return
<1>1. CASE Begin \/ Describe \/ Decide \/ Finish \/ ReadFails \/ CutOff
  BY <1>1 DEF Begin, Describe, Decide, Finish, ReadFails, CutOff, Asking
<1>2. CASE List
  BY <1>2 DEF List, CustodyInvariant, TypeOK
<1>3. CASE \E t \in Topics : PlanNextTopic(t) \/ CheckNextSchema(t)
  BY <1>3 DEF PlanNextTopic, CheckNextSchema
<1>4. CASE \E c \in todo : Perform(c) \/ Refused(c) \/ RequestLost(c) \/ AnswerLost(c)
  BY <1>4 DEF Perform, Refused, RequestLost, AnswerLost, AnswersError, Try
<1> QED
  BY <1>1, <1>2, <1>3, <1>4 DEF Plugin, Faults

\* What earlier stages have achieved outlasts every change a later one makes.
LEMMA WhatIsDoneStays ==
    ASSUME CustodyInvariant, StageInvariant, quiet.deployment, Forward, CountsFit(revision),
           UNCHANGED <<target, revision>>,
           UNCHANGED world \/ \E c \in todo : Try(c) /\ TakesEffect(c)
    PROVE  /\ Checked => Checked'
           /\ RegistryKnows => RegistryKnows'
           /\ Converged => Converged'
<1>1. CASE UNCHANGED world
  BY <1>1 DEF world, Checked, RegistryKnows, AllRegistered, Knows, Converged
<1>2. CASE \E c \in todo : Try(c) /\ TakesEffect(c)
  <2>1. PICK c \in todo : Try(c) /\ TakesEffect(c)
    BY <1>2
  <2>2. /\ Source = revision /\ revision \in Revision /\ pc = "execute"
        /\ c \in Change /\ Warranted(c, revision, target)
        /\ registry \in Registries /\ registry' = RegistryAfter(registry, c)
        /\ Undisturbed
    BY <2>1 DEF Forward, Source, CustodyInvariant, TypeOK, InDeployment, PlanIsWarranted, Try,
                TakesEffect, Undisturbed
  <2>3. /\ TopicNeeds(revision, cluster', target') \subseteq TopicNeeds(revision, cluster, target)
        /\ TopicRefusals(revision, cluster', target')
              = TopicRefusals(revision, cluster, target)
    <3>1. Needs' = Needs \ {c} /\ Refusals' = Refusals
      BY <2>1, <2>2, EffectMeetsNeed
    <3>2. Source' = revision
      BY <2>1, <2>2 DEF Try, Source, piped
    <3> QED
      BY <2>2, <3>1, <3>2 DEF Needs, Refusals
  <2>4. ASSUME DistinctSubjects(revision)
        PROVE  SchemaRefusals(revision, registry', target')
                  \subseteq SchemaRefusals(revision, registry, target)
    <3>1. CASE c.kind # "RegisterSchema"
      BY <2>2, <3>1 DEF RegistryAfter
    <3>2. CASE c.kind = "RegisterSchema"
      <4>1. /\ c.topic \in Declared(revision)
            /\ revision.topics[c.topic].schema = [subject |-> c.subject, body |-> c.body]
        BY <2>2, <3>2, RevisionFacts DEF Warranted, Declared
      <4> QED
        BY <2>2, <2>4, <3>2, <4>1, OtherSchemasStay
    <3> QED
      BY <3>1, <3>2
  <2>5. Checked => Checked'
    BY <2>3, <2>4 DEF Checked
  <2>6. RegistryKnows => RegistryKnows'
    <3> SUFFICES ASSUME RegistryKnows, target.schemaRegistry,
                        NEW t \in Declared(revision),
                        HasSchemaToPlan(t, revision.topics[t], target)
                 PROVE  revision.topics[t].schema.body
                           \in Versions(registry', revision.topics[t].schema.subject)
      BY DEF RegistryKnows, AllRegistered, Knows
    <3>1. revision.topics[t].schema \in Schema
      BY <2>2, RevisionFacts DEF HasSchemaToPlan, Topic
    <3>2. revision.topics[t].schema.body
             \in Versions(registry, revision.topics[t].schema.subject)
      BY DEF RegistryKnows, AllRegistered, Knows
    <3> QED
      BY <2>1, <3>1, <3>2, EffectKeepsVersions DEF Schema
  <2>7. Converged => Converged'
    BY <2>3 DEF Converged
  <2> QED
    BY <2>5, <2>6, <2>7
<1> QED
  BY <1>1, <1>2

\* What succeeds is done.
LEMMA SuccessIsDone ==
    ASSUME CustodyInvariant, StageInvariant, quiet.deployment, Forward, CountsFit(revision),
           pc = "returned", verdict = "success"
    PROVE  /\ stage = "KAFKA_PLAN" => Checked
           /\ stage = "KAFKA_REGISTER_SCHEMA" => RegistryKnows
           /\ stage = "KAFKA_APPLY" => Converged
<1>1. Source = revision /\ revision \in Revision
  BY DEF Forward, Source, CustodyInvariant, InDeployment
<1>2. SuccessIsTrue /\ Faithful
  BY <1>1, DeploymentAssumption DEF StageInvariant, Undisturbed, Faithful
<1> QED
  BY <1>1, <1>2 DEF SuccessIsTrue, Checked, RegistryKnows, Converged, Needs, Refusals

\* The stages before the next one are those before this one, and this one.
LEMMA PastGrows ==
    ASSUME CustodyInvariant, InPlace, NextStage
    PROVE  /\ PlanIsPast' => PlanIsPast \/ stage = "KAFKA_PLAN"
           /\ RegisterIsPast' => RegisterIsPast \/ stage = "KAFKA_REGISTER_SCHEMA"
           /\ ApplyIsPast' => ApplyIsPast \/ stage = "KAFKA_APPLY"
<1>1. position \in Nat /\ position' = position + 1 /\ pipeline' = pipeline
      /\ stage = pipeline.stages[position]
  BY DEF NextStage, CustodyInvariant, TypeOK, InPlace, Forward
<1> QED
  BY <1>1 DEF Past, PlanIsPast, RegisterIsPast, ApplyIsPast

LEMMA StagesStayDone ==
    ASSUME CustodyInvariant, StageInvariant, InPlace, StagesAreDone, [Next]_vars
    PROVE  InPlace' /\ StagesAreDone'
<1>1. CASE StartDeployment
  <2>1. /\ position' = 1 /\ stage' = pipeline'.stages[1] /\ pc' = "begin" /\ outcome' = None
        /\ outcome' # "success"
    BY <1>1, DeploymentAssumption DEF StartDeployment
  <2>2. ~PlanIsPast' /\ ~RegisterIsPast' /\ ~ApplyIsPast'
    BY <2>1 DEF Past, PlanIsPast, RegisterIsPast, ApplyIsPast
  <2> QED
    BY <2>1, <2>2 DEF InPlace, StagesAreDone, Forward
<1>2. CASE NextStage
  <2>1. InPlace'
    BY <1>2 DEF NextStage, InPlace, Forward
  <2>2. ASSUME quiet'.deployment, CountsFit(revision')
        PROVE  /\ PlanIsPast' => Checked'
               /\ RegisterIsPast' => RegistryKnows'
               /\ ApplyIsPast' => Converged'
    <3>1. /\ quiet.deployment /\ Forward /\ CountsFit(revision)
          /\ pc = "returned" /\ verdict = "success"
          /\ UNCHANGED <<cluster, registry, target, revision>>
      BY <1>2, <2>2 DEF NextStage, Forward, CustodyInvariant, TypeOK, world
    <3>2. /\ PlanIsPast \/ stage = "KAFKA_PLAN" => Checked
          /\ RegisterIsPast \/ stage = "KAFKA_REGISTER_SCHEMA" => RegistryKnows
          /\ ApplyIsPast \/ stage = "KAFKA_APPLY" => Converged
      BY <3>1, SuccessIsDone DEF StagesAreDone
    <3>3. /\ Checked => Checked'
          /\ RegistryKnows => RegistryKnows'
          /\ Converged => Converged'
      BY <3>1 DEF Checked, RegistryKnows, AllRegistered, Knows, Converged
    <3> QED
      BY <1>2, <3>2, <3>3, PastGrows
  <2> QED
    BY <2>1, <2>2 DEF StagesAreDone
<1>3. CASE Complete \/ GiveUp
  <2>1. revision # None
    BY <1>3, DeploymentAssumption DEF Complete, GiveUp, CustodyInvariant, InDeployment
  <2> QED
    BY <1>3, <2>1 DEF Complete, GiveUp, InPlace, StagesAreDone, Forward
<1>4. CASE StartRollback
  BY <1>4 DEF StartRollback, InPlace, StagesAreDone, Forward
<1>5. CASE Restart
  <2>1. /\ UNCHANGED <<cluster, registry, revision, pipeline, position, stage, outcome>>
        /\ quiet'.deployment => quiet.deployment /\ target' = target
        /\ pc = "idle" <=> pc' = "idle"
    BY <1>5 DEF Restart, world
  <2>2. Forward' = Forward
    BY <2>1 DEF Forward
  <2> QED
    BY <2>1, <2>2 DEF InPlace, StagesAreDone, Past, PlanIsPast, RegisterIsPast, ApplyIsPast,
                      Checked, RegistryKnows, AllRegistered, Knows, Converged
<1>6. CASE Others
  <2>1. ~quiet'.deployment /\ UNCHANGED <<revision, pipeline, position, stage, outcome, pc>>
    BY <1>6 DEF Others, piped
  <2> QED
    BY <2>1 DEF InPlace, StagesAreDone, Forward
<1>7. CASE Plugin \/ Faults
  <2>1. /\ UNCHANGED <<revision, pipeline, position, stage, outcome, target>>
        /\ pc # "idle" /\ pc' # "idle" /\ quiet'.deployment = quiet.deployment
    BY <1>7, PluginKeepsItsPlace DEF piped
  <2>2. InPlace' /\ Forward' = Forward
    BY <2>1 DEF InPlace, Forward
  <2>3. ASSUME quiet'.deployment, Forward', CountsFit(revision')
        PROVE  /\ PlanIsPast' => Checked'
               /\ RegisterIsPast' => RegistryKnows'
               /\ ApplyIsPast' => Converged'
    <3>1. UNCHANGED world \/ \E c \in todo : Try(c) /\ TakesEffect(c)
      BY <2>3, WhoChangesTheWorld DEF Others
    <3>2. /\ Checked => Checked'
          /\ RegistryKnows => RegistryKnows'
          /\ Converged => Converged'
      BY <2>1, <2>2, <2>3, <3>1, WhatIsDoneStays
    <3>3. /\ PlanIsPast' => PlanIsPast
          /\ RegisterIsPast' => RegisterIsPast
          /\ ApplyIsPast' => ApplyIsPast
      BY <2>1 DEF Past, PlanIsPast, RegisterIsPast, ApplyIsPast
    <3> QED
      BY <2>1, <2>2, <2>3, <3>2, <3>3 DEF StagesAreDone
  <2> QED
    BY <2>2, <2>3 DEF StagesAreDone
<1>8. CASE UNCHANGED vars
  BY <1>8 DEF vars, world, piped, InPlace, StagesAreDone, Forward, Past, PlanIsPast,
              RegisterIsPast, ApplyIsPast, Checked, RegistryKnows, AllRegistered, Knows, Converged
<1> QED
  BY <1>1, <1>2, <1>3, <1>4, <1>5, <1>6, <1>7, <1>8 DEF Next, Piped

-----------------------------------------------------------------------------
(***************************************************************************)
(* An applicable plan stays applicable.                                    *)
(***************************************************************************)
\* What an undisturbed stage finds blocked is what Build refuses.
LEMMA BlocksWhatIsRefused ==
    ASSUME CustodyInvariant, StageInvariant, Undisturbed, Plugin \/ Faults
    PROVE  blocked' \subseteq (blocked \union Refusals)
                              \union SchemaRefusals(Source, registry, target)
<1>1. CASE \E t \in Topics : PlanNextTopic(t)
  <2>1. PICK t \in Topics : PlanNextTopic(t)
    BY <1>1
  <2>2. /\ Source \in Revision /\ t \in Declared(Source) /\ pc = "plan"
        /\ blocked' = blocked \union PlanTopic(t, Source.topics[t], actual[t], target).blocked
    BY <2>1 DEF PlanNextTopic, CustodyInvariant, HasSource, Planning, Busy, IsNextTopic
  <2>3. actual[t] = cluster[t]
    BY <2>2, RevisionFacts DEF StageInvariant, ListingIsTrue
  <2>4. PlanTopic(t, Source.topics[t], actual[t], target).blocked
           = RefusalsOf(Source, target, t, cluster[t])
    BY <2>2, <2>3 DEF RefusalsOf
  <2>5. RefusalsOf(Source, target, t, cluster[t]) \subseteq Refusals
    BY DEF Refusals, TopicRefusals
  <2> QED
    BY <2>2, <2>4, <2>5
<1>2. CASE \E t \in Topics : CheckNextSchema(t)
  <2>1. PICK t \in Topics : CheckNextSchema(t)
    BY <1>2
  <2> DEFINE topic == Source.topics[t]
             plan  == PlanSchema(t, topic, latest,
                         CheckCompatibility(registry, topic.schema.subject, topic.schema.body))
  <2>2. /\ Lacks(Source, registry, target, t) /\ t \in Declared(Source)
        /\ latest = LatestSchema(registry, topic.schema.subject)
        /\ blocked' = blocked \union plan.blocked
    BY <2>1 DEF CheckNextSchema, StageInvariant, PlanIsTrue, CustodyInvariant, HasSource, Planning,
                IsNextTopic
  <2>3. plan = SchemaPlan(t, topic, target, registry)
    BY <2>2, SchemaPlanCases
  <2>4. SchemaPlan(t, topic, target, registry).blocked
           \subseteq SchemaRefusals(Source, registry, target)
    BY <2>2 DEF SchemaRefusals
  <2> QED
    BY <2>2, <2>3, <2>4
<1>3. CASE Decide
  BY <1>3, FinishedPlanIsBuild DEF Decide
<1>4. CASE Begin \/ List \/ Describe \/ Finish \/ ReadFails \/ CutOff
  BY <1>4 DEF Begin, List, Describe, Finish, ReadFails, CutOff, run
<1>5. CASE \E c \in todo : Perform(c) \/ Refused(c) \/ RequestLost(c) \/ AnswerLost(c)
  BY <1>5 DEF Perform, Refused, RequestLost, AnswerLost, Try
<1> QED
  BY <1>1, <1>2, <1>3, <1>4, <1>5 DEF Plugin, Faults

LEMMA StaysApplicable ==
    ASSUME CustodyInvariant, StageInvariant, InPlace, StagesAreDone,
           ApplicablePlanStaysApplicable, [Next]_vars
    PROVE  ApplicablePlanStaysApplicable'
<1>1. CASE Piped
  BY <1>1 DEF Piped, StartDeployment, NextStage, Complete, StartRollback, GiveUp, ForgetRun,
              ApplicablePlanStaysApplicable
<1>2. CASE Restart
  <2>1. /\ blocked' = {} \/ blocked' = blocked
        /\ UNCHANGED <<revision, pipeline, position, stage>>
        /\ quiet'.deployment => quiet.deployment
    BY <1>2 DEF Restart, ForgetRun, run
  <2> QED
    BY <2>1 DEF ApplicablePlanStaysApplicable
<1>3. CASE Others
  BY <1>3 DEF Others, ApplicablePlanStaysApplicable
<1>4. CASE Plugin \/ Faults
  <2>1. /\ UNCHANGED <<revision, pipeline, position, stage, target>>
        /\ pc # "idle" /\ quiet'.deployment = quiet.deployment
    BY <1>4, PluginKeepsItsPlace DEF piped
  <2> SUFFICES ASSUME pipeline # None, position > 1, pipeline.stages[1] = "KAFKA_PLAN",
                      stage \in {"KAFKA_REGISTER_SCHEMA", "KAFKA_APPLY"},
                      quiet.deployment, DistinctSubjects(revision), CountsFit(revision)
               PROVE  blocked' = {}
    BY <2>1 DEF ApplicablePlanStaysApplicable
  <2>2. Forward /\ Undisturbed /\ Source = revision
    BY <2>1 DEF Forward, Undisturbed, Source
  <2>3. PlanIsPast
    <3>1. position \in Nat
      BY DEF CustodyInvariant, TypeOK
    <3> QED
      BY <3>1 DEF PlanIsPast, Past
  <2>4. Refusals = {} /\ SchemaRefusals(Source, registry, target) = {}
    BY <2>2, <2>3 DEF StagesAreDone, Checked, Refusals
  <2>5. blocked = {}
    BY DEF ApplicablePlanStaysApplicable
  <2> QED
    BY <1>4, <2>2, <2>4, <2>5, BlocksWhatIsRefused
<1>5. CASE UNCHANGED vars
  BY <1>5 DEF vars, piped, run, ApplicablePlanStaysApplicable
<1> QED
  BY <1>1, <1>2, <1>3, <1>4, <1>5 DEF Next

-----------------------------------------------------------------------------
(***************************************************************************)
(* A successful deployment is synced.                                      *)
(***************************************************************************)
\* A topic that is not protected and has a schema has one to plan.
LEMMA KnownAndNotReverted ==
    ASSUME CustodyInvariant, revision \in Revision, AllRegistered(revision),
           NothingReverted(revision, registry),
           Declared(revision) \intersect target.protectedTopics = {}
    PROVE  SchemasConform(revision)
<1> SUFFICES ASSUME NEW t \in Declared(revision), revision.topics[t].schema # None
             PROVE  LatestSchema(registry, revision.topics[t].schema.subject)
                       = revision.topics[t].schema.body
  BY DEF SchemasConform, SchemasAsDeclared
<1> DEFINE schema == revision.topics[t].schema
<1>1. HasSchemaToPlan(t, revision.topics[t], target)
  BY DEF HasSchemaToPlan
<1>2. schema.body \in Versions(registry, schema.subject)
  BY <1>1 DEF AllRegistered, Knows
<1>3. schema.body \notin registry[schema.subject].older
  BY DEF NothingReverted
<1> QED
  BY <1>2, <1>3 DEF Versions, LatestSchema

\* The stages that have been requested are past when the last one succeeds.
LEMMA CompleteIsDone ==
    ASSUME CustodyInvariant, StageInvariant, InPlace, StagesAreDone, Complete,
           quiet.deployment, CountsFit(revision), verdict = "success",
           {"KAFKA_REGISTER_SCHEMA", "KAFKA_APPLY"} \subseteq RequestedStages
    PROVE  /\ RegistryKnows /\ Converged
           /\ RegisterIsPast \/ stage = "KAFKA_REGISTER_SCHEMA"
<1>1. /\ Forward /\ pc = "returned" /\ position = Len(pipeline.stages)
      /\ stage = pipeline.stages[position]
      /\ pipeline \in Pipeline
  BY DEF Complete, Forward, InPlace, CustodyInvariant, InDeployment
<1>2. /\ pipeline.stages \in Seq(StageNames) /\ position \in Nat
      /\ DOMAIN pipeline.stages = 1..position
  BY <1>1 DEF Pipeline
<1>3. \A i \in DOMAIN pipeline.stages : i = position \/ i \in 1..(position - 1)
  BY <1>2
<1>4. RegisterIsPast \/ stage = "KAFKA_REGISTER_SCHEMA"
  BY <1>1, <1>3 DEF RequestedStages, RegisterIsPast, Past
<1>5. ApplyIsPast \/ stage = "KAFKA_APPLY"
  BY <1>1, <1>3 DEF RequestedStages, ApplyIsPast, Past
<1> QED
  BY <1>1, <1>4, <1>5, SuccessIsDone DEF StagesAreDone

LEMMA SuccessIsSynced ==
    ASSUME CustodyInvariant, StageInvariant, InPlace, StagesAreDone,
           SuccessfulDeploymentIsSynced, [Next]_vars
    PROVE  SuccessfulDeploymentIsSynced'
<1>1. CASE Complete
  <2> SUFFICES ASSUME quiet.deployment,
                      {"KAFKA_REGISTER_SCHEMA", "KAFKA_APPLY"} \subseteq RequestedStages,
                      NothingReverted(revision, registry), CountsFit(revision)
               PROVE  TopicsConform(revision) /\ SchemasConform(revision)
    <3>1. UNCHANGED <<cluster, registry, target, revision, pipeline, quiet>>
      BY <1>1 DEF Complete, world
    <3> QED
      BY <3>1 DEF SuccessfulDeploymentIsSynced, RequestedStages, TopicsConform, SchemasConform
  <2>1. /\ pc = "returned" /\ verdict \in {"success", "exited"} /\ Undisturbed
        /\ revision \in Revision /\ target \in Target /\ cluster \in Clusters
    BY <1>1 DEF Complete, CustodyInvariant, TypeOK, InDeployment, Undisturbed
  <2>2. CASE verdict = "exited"
    BY <2>1, <2>2 DEF StageInvariant, SuccessIsTrue, InSync, TopicsConform, SchemasConform
  <2>3. CASE verdict = "success"
    <3>1. RegistryKnows /\ Converged
      BY <1>1, <2>3, CompleteIsDone
    <3>2. /\ TopicsAsDeclared(revision, cluster, target)
          /\ Declared(revision) \intersect target.protectedTopics = {}
      BY <2>1, <3>1, NoTopicNeeds DEF Converged
    <3>3. AllRegistered(revision)
      BY <3>1 DEF RegistryKnows, Converged, BuildFails, AllRegistered
    <3> QED
      BY <2>1, <3>2, <3>3, KnownAndNotReverted DEF TopicsConform
  <2> QED
    BY <2>1, <2>2, <2>3
<1>2. CASE GiveUp
  BY <1>2 DEF GiveUp, SuccessfulDeploymentIsSynced
<1>3. CASE StartDeployment \/ NextStage \/ StartRollback
  BY <1>3 DEF StartDeployment, NextStage, StartRollback, SuccessfulDeploymentIsSynced
<1>4. CASE Restart
  <2>1. /\ UNCHANGED <<cluster, registry, revision, pipeline, outcome>>
        /\ pc' = "idle" => pc = "idle"
        /\ quiet'.deployment => quiet.deployment /\ target' = target
    BY <1>4 DEF Restart, world
  <2> QED
    BY <2>1 DEF SuccessfulDeploymentIsSynced, RequestedStages, TopicsConform, SchemasConform
<1>5. CASE Others
  BY <1>5 DEF Others, SuccessfulDeploymentIsSynced
<1>6. CASE Plugin \/ Faults
  BY <1>6, PluginKeepsItsPlace DEF SuccessfulDeploymentIsSynced
<1>7. CASE UNCHANGED vars
  BY <1>7 DEF vars, world, piped, SuccessfulDeploymentIsSynced, RequestedStages, TopicsConform,
              SchemasConform
<1> QED
  BY <1>1, <1>2, <1>3, <1>4, <1>5, <1>6, <1>7 DEF Next, Piped

LEMMA InitPipelineInvariant ==
    ASSUME Init
    PROVE  PipelineInvariant
BY DeploymentAssumption
DEF Init, PipelineInvariant, InPlace, StagesAreDone, Forward,
       ApplicablePlanStaysApplicable, SuccessfulDeploymentIsSynced

LEMMA NextPipelineInvariant ==
    ASSUME CustodyInvariant, StageInvariant, PipelineInvariant, [Next]_vars
    PROVE  PipelineInvariant'
<1>1. InPlace' /\ StagesAreDone'
  BY StagesStayDone DEF PipelineInvariant
<1>2. ApplicablePlanStaysApplicable'
  BY StaysApplicable DEF PipelineInvariant
<1>3. SuccessfulDeploymentIsSynced'
  BY SuccessIsSynced DEF PipelineInvariant
<1> QED
  BY <1>1, <1>2, <1>3 DEF PipelineInvariant

\* While somebody else is at work elsewhere, what the deployment has achieved
\* stays as it is.
LEMMA ElsewhereKeepsPipeline ==
    ASSUME CustodyInvariant, PipelineInvariant, Elsewhere
    PROVE  PipelineInvariant'
<1>1. UNCHANGED <<target, revision, pipeline, position, stage, outcome, pc, blocked, quiet>>
  BY DEF Elsewhere, piped, run
<1>2. Forward' = Forward /\ InPlace'
  BY <1>1 DEF PipelineInvariant, InPlace, Forward
<1>3. /\ PlanIsPast' = PlanIsPast /\ RegisterIsPast' = RegisterIsPast
      /\ ApplyIsPast' = ApplyIsPast
  BY <1>1 DEF PlanIsPast, RegisterIsPast, ApplyIsPast, Past
<1>4. ASSUME Forward
      PROVE  /\ Checked => Checked'
             /\ RegistryKnows => RegistryKnows'
             /\ Converged => Converged'
  <2>1. revision \in Revisions
    BY <1>4, WorksTowardsOurs DEF Forward
  <2>2. TopicNeeds(revision, cluster', target) = TopicNeeds(revision, cluster, target)
    BY <2>1, ElsewhereLeaves
  <2>3. TopicRefusals(revision, cluster', target) = TopicRefusals(revision, cluster, target)
    BY <2>1, ElsewhereLeaves
  <2>4. SchemaRefusals(revision, registry', target) = SchemaRefusals(revision, registry, target)
    BY <2>1, ElsewhereLeaves
  <2>5. \A t \in Declared(revision) : HasSchemaToPlan(t, revision.topics[t], target) =>
            registry'[revision.topics[t].schema.subject]
               = registry[revision.topics[t].schema.subject]
    BY <2>1, ElsewhereLeaves DEF HasSchemaToPlan
  <2>6. RegistryKnows => RegistryKnows'
    BY <1>1, <2>5 DEF RegistryKnows, AllRegistered, Knows, Versions
  <2> QED
    BY <1>1, <2>2, <2>3, <2>4, <2>6 DEF Checked, Converged
<1>5. StagesAreDone'
  BY <1>1, <1>2, <1>3, <1>4 DEF PipelineInvariant, StagesAreDone
<1>6. ApplicablePlanStaysApplicable'
  BY <1>1 DEF PipelineInvariant, ApplicablePlanStaysApplicable
<1>7. SuccessfulDeploymentIsSynced'
  <2> SUFFICES ASSUME pc = "idle", outcome = "success", quiet.deployment,
                      {"KAFKA_REGISTER_SCHEMA", "KAFKA_APPLY"} \subseteq RequestedStages,
                      DistinctSubjects(revision), NothingReverted(revision, registry'),
                      CountsFit(revision)
               PROVE  /\ TopicsAsDeclared(revision, cluster', target)
                      /\ SchemasAsDeclared(revision, registry')
    BY <1>1 DEF SuccessfulDeploymentIsSynced, RequestedStages, TopicsConform, SchemasConform
  <2>1. revision \in Revisions /\ revision \in Revision
    BY DeploymentAssumption
    DEF PipelineInvariant, InPlace, CustodyInvariant, TypeOK
  <2>2. /\ \A t \in revision.ownership : cluster'[t] = cluster[t]
        /\ \A s \in SubjectsOf(revision) : registry'[s] = registry[s]
    BY <2>1 DEF Elsewhere, LeavesAlone
  <2>3. TopicsAsDeclared(revision, cluster', target)
           <=> TopicsAsDeclared(revision, cluster, target)
    BY <2>1, <2>2, OnlyOwnTopicsCount
  <2>4. /\ SchemasAsDeclared(revision, registry') <=> SchemasAsDeclared(revision, registry)
        /\ NothingReverted(revision, registry') <=> NothingReverted(revision, registry)
    BY <2>2, OnlyOwnSubjectsCount
  <2> QED
    BY <2>3, <2>4 DEF PipelineInvariant, SuccessfulDeploymentIsSynced, TopicsConform, SchemasConform
<1> QED
  BY <1>2, <1>5, <1>6, <1>7 DEF PipelineInvariant

\* Whatever fails, and wherever piped restarts: in a deployment nobody
\* interferes with, what a stage has achieved is still so in the later ones.
THEOREM PipelineInvariantHolds == Spec => []PipelineInvariant
<1>1. Init => PipelineInvariant
  BY InitPipelineInvariant
<1>2. CustodyInvariant /\ StageInvariant /\ PipelineInvariant /\ [Next]_vars
         => PipelineInvariant'
  BY NextPipelineInvariant
<1> QED
  BY <1>1, <1>2, StageInvariantHolds, PTL DEF Spec

\* Once KAFKA_PLAN has found the plan of an undisturbed deployment applicable,
\* no later stage finds anything blocked.
THEOREM PlanStaysApplicable == Spec => []ApplicablePlanStaysApplicable
<1>1. PipelineInvariant => ApplicablePlanStaysApplicable
  BY DEF PipelineInvariant
<1> QED
  BY <1>1, PipelineInvariantHolds, PTL

\* A deployment that ran KAFKA_REGISTER_SCHEMA and KAFKA_APPLY, or was ended
\* early because its plan was empty, and succeeded undisturbed leaves topics
\* and schemas as declared.
THEOREM DeploymentIsSynced == Spec => []SuccessfulDeploymentIsSynced
<1>1. PipelineInvariant => SuccessfulDeploymentIsSynced
  BY DEF PipelineInvariant
<1> QED
  BY <1>1, PipelineInvariantHolds, PTL

-----------------------------------------------------------------------------
(***************************************************************************)
(* A deployment changes what its KAFKA_PLAN has shown.  What was shown is  *)
(* what has landed since together with what is still needed, and needed    *)
(* registrations are on their way until they have landed, also those of    *)
(* bodies that are needed for ever because they are old versions.          *)
(***************************************************************************)
SchemasNeeded == SchemaNeeds(revision, registry, target)
StillNeeded   == TopicNeeds(revision, cluster, target) \union SchemasNeeded

Settled == quiet.deployment /\ PlansFirst /\ DistinctSubjects(revision) /\ CountsFit(revision)

ReportIsTrue ==
    Forward /\ Settled =>
        /\ stage = "KAFKA_PLAN" => landed = {}
        /\ reported # None => reported = landed \union StillNeeded

RegistrationsLand ==
    Forward /\ Settled =>
        /\ pc = "execute" => SchemaChanges(todo) \subseteq SchemasNeeded
        /\ pc = "execute" /\ stage = "KAFKA_REGISTER_SCHEMA"
              => SchemasNeeded \subseteq (todo \union failed) \union landed
        /\ (/\ pc = "returned" /\ verdict = "success" /\ stage = "KAFKA_REGISTER_SCHEMA"
            /\ target.schemaRegistry) => SchemasNeeded \subseteq landed
        /\ RegisterIsPast /\ target.schemaRegistry => SchemasNeeded \subseteq landed

HistoryInvariant == ReportIsTrue /\ RegistrationsLand /\ DeploysWhatWasReported

-----------------------------------------------------------------------------
LandsNow(c) == Try(c) /\ TakesEffect(c)
SomethingLands == \E c \in todo : LandsNow(c)

\* How the history variables follow a step.
LEMMA HistorySteps ==
    ASSUME CustodyInvariant, HNext
    PROVE  /\ StartDeployment => reported' = None /\ landed' = {}
           /\ ~StartDeployment /\ ~SomethingLands => landed' = landed
           /\ ~StartDeployment /\ ~(Decide /\ stage = "KAFKA_PLAN") => reported' = reported
           /\ Decide /\ stage = "KAFKA_PLAN" => reported' = changes'
           /\ pc # "idle" /\ ~Forward => landed' = landed
           /\ \A c \in todo : LandsNow(c) /\ Forward => landed' = landed \union {c}
<1>1. Starts <=> StartDeployment
  <2>1. StartDeployment => Starts
    BY DEF Starts, StartDeployment
  <2>2. ASSUME Starts, ~StartDeployment
        PROVE  FALSE
    <3>1. CASE Piped
      BY <2>2, <3>1 DEF Piped, NextStage, Complete, StartRollback, GiveUp, Starts
    <3>2. CASE Restart \/ Others
      BY <2>2, <3>2 DEF Restart, Others, Starts
    <3>3. CASE Plugin \/ Faults
      BY <2>2, <3>3, PluginKeepsItsPlace DEF Starts
    <3> QED
      BY <2>2, <3>1, <3>2, <3>3 DEF HNext, Next
  <2> QED
    BY <2>1, <2>2
<1>2. Decide => ~StartDeployment
  BY DEF Decide, StartDeployment
<1>3. pc # "idle" => ~Starts
  BY DEF Starts
<1>4. ASSUME NEW c \in todo, LandsNow(c), Forward
      PROVE  landed' = landed \union {c}
  <2>1. todo \ todo' = {c} /\ pc # "idle"
    BY <1>4 DEF LandsNow, Try
  <2>2. ~Starts
    BY <2>1 DEF Starts
  <2> QED
    BY <1>4, <2>1, <2>2 DEF HNext, Forward, LandsNow
<1>5. /\ StartDeployment => reported' = None /\ landed' = {}
      /\ ~StartDeployment /\ ~(Decide /\ stage = "KAFKA_PLAN") => reported' = reported
      /\ Decide /\ stage = "KAFKA_PLAN" => reported' = changes'
  BY <1>1, <1>2 DEF HNext
<1>6. /\ ~StartDeployment /\ ~SomethingLands => landed' = landed
      /\ pc # "idle" /\ ~Forward => landed' = landed
  BY <1>1, <1>3 DEF HNext, SomethingLands, LandsNow, Forward
<1> QED
  BY <1>4, <1>5, <1>6

\* The steps of a stage by which nothing lands.
LEMMA NothingLands ==
    ASSUME Plugin \/ Faults, ~SomethingLands
    PROVE  /\ UNCHANGED world
           /\ Decide \/ (pc' = "execute" => /\ pc = "execute" /\ todo' \subseteq todo
                                           /\ todo \union failed \subseteq todo' \union failed')
           /\ Decide \/ (pc' = "returned" /\ verdict' = "success" =>
                            \/ NothingToRegister \/ stage = "KAFKA_ROLLBACK"
                            \/ pc = "execute" /\ todo = {} /\ failed = {})
<1> USE DEF Return
<1>1. CASE Begin
  BY <1>1 DEF Begin, NothingToRestore
<1>2. CASE List \/ Describe \/ Decide \/ ReadFails
  BY <1>2 DEF List, Describe, Decide, ReadFails
<1>3. CASE Finish
  BY <1>3 DEF Finish
<1>4. CASE CutOff
  BY <1>4 DEF CutOff
<1>5. CASE \E t \in Topics : PlanNextTopic(t) \/ CheckNextSchema(t)
  BY <1>5 DEF PlanNextTopic, CheckNextSchema
<1>6. CASE \E c \in todo : Refused(c) \/ RequestLost(c)
  BY <1>6 DEF Refused, RequestLost, AnswersError, Try
<1> QED
  BY <1>1, <1>2, <1>3, <1>4, <1>5, <1>6
  DEF Plugin, Faults, Perform, AnswerLost, SomethingLands, LandsNow

\* A change that lands was needed, and leaves the others needed.
LEMMA LandingMeetsNeed ==
    ASSUME CustodyInvariant, StageInvariant, Forward, Settled, RegistrationsLand,
           NEW c \in todo, LandsNow(c)
    PROVE  /\ SchemasNeeded' \subseteq SchemasNeeded
           /\ StillNeeded' \subseteq StillNeeded
           /\ c \in StillNeeded
           /\ StillNeeded \subseteq StillNeeded' \union {c}
           /\ SchemaChanges(todo') \subseteq SchemasNeeded'
<1>1. /\ Source = revision /\ revision \in Revision /\ pc = "execute"
      /\ Source' = revision /\ revision' = revision /\ target' = target /\ todo' = todo \ {c}
      /\ c \in Change /\ Warranted(c, revision, target)
      /\ registry \in Registries /\ registry' = RegistryAfter(registry, c)
      /\ Undisturbed /\ CountsFit(revision) /\ DistinctSubjects(revision)
  BY DEF LandsNow, Forward, Source, CustodyInvariant, TypeOK, InDeployment, PlanIsWarranted, Try,
         TakesEffect, Undisturbed, Settled, piped
<1>2. /\ TopicNeeds(revision, cluster', target) = TopicNeeds(revision, cluster, target) \ {c}
      /\ c.kind # "RegisterSchema" => c \in TopicNeeds(revision, cluster, target)
  BY <1>1, EffectMeetsNeed DEF Needs, LandsNow
<1>3. SchemaChanges(todo) \subseteq SchemasNeeded
  BY <1>1 DEF RegistrationsLand
<1>4. CASE c.kind # "RegisterSchema"
  <2>1. SchemasNeeded' = SchemasNeeded
    BY <1>1, <1>4 DEF SchemasNeeded, RegistryAfter
  <2>2. SchemaChanges(todo') \subseteq SchemaChanges(todo)
    BY <1>1 DEF SchemaChanges
  <2> QED
    BY <1>1, <1>2, <1>3, <1>4, <2>1, <2>2 DEF StillNeeded
<1>5. CASE c.kind = "RegisterSchema"
  <2>1. /\ c.topic \in Declared(revision)
        /\ revision.topics[c.topic].schema = [subject |-> c.subject, body |-> c.body]
    BY <1>1, <1>5, RevisionFacts DEF Warranted, Declared
  <2>2. /\ SchemasNeeded' \subseteq SchemasNeeded
        /\ \A d \in SchemasNeeded : d.topic # c.topic => d \in SchemasNeeded'
    BY <1>1, <1>5, <2>1, OtherSchemasStay DEF SchemasNeeded
  <2>3. c \in SchemasNeeded
    BY <1>3, <1>5 DEF SchemaChanges
  <2>4. \A d \in SchemasNeeded : d.topic = c.topic => d = c
    BY <2>3, SchemaNeedsAre DEF SchemasNeeded, Registration, RegisterSchema
  <2>5. SchemaChanges(todo') = SchemaChanges(todo) \ {c}
    BY <1>1 DEF SchemaChanges
  <2>6. c \notin TopicNeeds(revision, cluster, target)
    BY <1>1, <1>5, NeedsAreOfTopics DEF Needs
  <2> QED
    BY <1>1, <1>2, <1>3, <2>2, <2>3, <2>4, <2>5, <2>6 DEF StillNeeded
<1> QED
  BY <1>4, <1>5

LEMMA LandingLeaves ==
    ASSUME Plugin \/ Faults, NEW c \in todo, LandsNow(c)
    PROVE  /\ pc = "execute" /\ failed \subseteq failed'
           /\ pc' = "execute" \/ (pc' = "returned" /\ verdict' = "failure")
<1>1. pc = "execute" /\ todo' = todo \ {c}
  BY DEF LandsNow, Try
<1>2. CASE \E d \in todo : Perform(d) \/ Refused(d) \/ RequestLost(d) \/ AnswerLost(d)
  BY <1>1, <1>2 DEF Perform, Refused, RequestLost, AnswerLost, AnswersError, Return
<1>3. CASE CutOff
  BY <1>1, <1>3 DEF CutOff
<1>4. CASE ReadFails \/ Finish
  BY <1>1, <1>4 DEF ReadFails, Asking, Finish
<1>5. CASE \/ Begin \/ List \/ Describe \/ Decide
           \/ \E t \in Topics : PlanNextTopic(t) \/ CheckNextSchema(t)
  BY <1>1, <1>5 DEF Begin, List, Describe, Decide, PlanNextTopic, CheckNextSchema
<1> QED
  BY <1>2, <1>3, <1>4, <1>5 DEF Plugin, Faults

\* What a forward stage has to do once it has planned.
LEMMA DecidedWork ==
    ASSUME CustodyInvariant, StageInvariant, Forward, quiet.deployment, Decide
    PROVE  /\ changes' = StillNeeded
           /\ SchemaChanges(todo') \subseteq SchemasNeeded
           /\ stage = "KAFKA_REGISTER_SCHEMA" =>
                 /\ pc' = "execute" => SchemasNeeded \subseteq todo'
                 /\ pc' = "returned" /\ verdict' = "success" => SchemasNeeded = {}
<1>1. Source = revision /\ revision \in Revision /\ Undisturbed /\ stage \in StageNames
  BY DEF Forward, Source, CustodyInvariant, InDeployment, Undisturbed
<1>2. /\ FinishedPlan = Build(revision, cluster, target, registry)
      /\ SchemaChanges(FinishedPlan.changes) = SchemasNeeded
  BY <1>1, FinishedPlanIsBuild DEF SchemasNeeded
<1>3. changes' = StillNeeded
  BY <1>1, <1>2, BuildByTopic DEF Decide, StillNeeded, SchemasNeeded
<1>4. SchemaChanges(todo') \subseteq SchemasNeeded
  <2>1. todo' \subseteq FinishedPlan.changes
    BY <1>1 DEF Decide, Work, Restorable, SchemaChanges, TopicChanges, StageNames
  <2> QED
    BY <1>2, <2>1 DEF SchemaChanges
<1>5. ASSUME stage = "KAFKA_REGISTER_SCHEMA"
      PROVE  /\ pc' = "execute" => SchemasNeeded \subseteq todo'
             /\ pc' = "returned" /\ verdict' = "success" => SchemasNeeded = {}
  <2>1. todo' = IF HasBlocked(FinishedPlan) THEN {} ELSE SchemasNeeded
    BY <1>2, <1>5 DEF Decide, Work
  <2>2. pc' = "execute" => todo' # {}
    BY DEF Decide, Return
  <2>3. pc' = "returned" => /\ todo' = {}
                            /\ verdict' = "success" => ~HasBlocked(FinishedPlan)
    BY <1>5 DEF Decide, Return, Verdict
  <2> QED
    BY <2>1, <2>2, <2>3
<1> QED
  BY <1>3, <1>4, <1>5

LEMMA PluginKeepsHistory ==
    ASSUME CustodyInvariant, StageInvariant, ReportIsTrue, RegistrationsLand,
           HNext, Plugin \/ Faults
    PROVE  ReportIsTrue' /\ RegistrationsLand'
<1>1. /\ UNCHANGED <<revision, pipeline, position, stage, target>>
      /\ pc # "idle" /\ pc' # "idle" /\ pc # "returned" /\ quiet'.deployment = quiet.deployment
  BY PluginKeepsItsPlace DEF piped
<1>2. /\ Forward' = Forward /\ Settled' = Settled
      /\ RegisterIsPast' => RegisterIsPast
  BY <1>1 DEF Forward, Settled, PlansFirst, RegisterIsPast, Past
<1> SUFFICES ASSUME Forward, Settled
             PROVE  ReportIsTrue' /\ RegistrationsLand'
  BY <1>2 DEF ReportIsTrue, RegistrationsLand
<1>3. /\ stage = "KAFKA_PLAN" => landed = {}
      /\ reported # None => reported = landed \union StillNeeded
      /\ pc = "execute" => SchemaChanges(todo) \subseteq SchemasNeeded
      /\ pc = "execute" /\ stage = "KAFKA_REGISTER_SCHEMA"
            => SchemasNeeded \subseteq (todo \union failed) \union landed
      /\ RegisterIsPast /\ target.schemaRegistry => SchemasNeeded \subseteq landed
  BY DEF ReportIsTrue, RegistrationsLand
<1>4. ~StartDeployment
  BY <1>1 DEF StartDeployment
<1>5. CASE SomethingLands
  <2>1. PICK c \in todo : LandsNow(c)
    BY <1>5 DEF SomethingLands
  <2>2. /\ pc = "execute" /\ failed \subseteq failed'
        /\ pc' = "execute" \/ (pc' = "returned" /\ verdict' = "failure")
    BY <2>1, LandingLeaves
  <2>3. /\ stage # "KAFKA_PLAN" /\ ~Decide /\ todo' = todo \ {c}
    BY <2>1, <2>2 DEF StageInvariant, StartsAfresh, Decide, LandsNow, Try
  <2>4. /\ landed' = landed \union {c} /\ reported' = reported
    BY <1>4, <2>1, <2>3, HistorySteps
  <2>5. /\ SchemasNeeded' \subseteq SchemasNeeded
        /\ StillNeeded' \subseteq StillNeeded /\ c \in StillNeeded
        /\ StillNeeded \subseteq StillNeeded' \union {c}
        /\ SchemaChanges(todo') \subseteq SchemasNeeded'
    BY <2>1, LandingMeetsNeed
  <2>6. reported # None => reported' = landed' \union StillNeeded'
    BY <1>3, <2>4, <2>5
  <2>7. ReportIsTrue'
    BY <1>1, <2>3, <2>4, <2>6 DEF ReportIsTrue
  <2>8. stage = "KAFKA_REGISTER_SCHEMA"
           => SchemasNeeded' \subseteq (todo' \union failed') \union landed'
    BY <1>3, <2>2, <2>3, <2>4, <2>5
  <2>9. RegisterIsPast /\ target.schemaRegistry => SchemasNeeded' \subseteq landed'
    BY <1>3, <2>4, <2>5
  <2> QED
    BY <1>1, <1>2, <2>2, <2>5, <2>7, <2>8, <2>9 DEF RegistrationsLand
<1>6. CASE ~SomethingLands
  <2>1. /\ UNCHANGED world
        /\ Decide \/ (pc' = "execute" => /\ pc = "execute" /\ todo' \subseteq todo
                                        /\ todo \union failed \subseteq todo' \union failed')
        /\ Decide \/ (pc' = "returned" /\ verdict' = "success" =>
                         \/ NothingToRegister \/ stage = "KAFKA_ROLLBACK"
                         \/ pc = "execute" /\ todo = {} /\ failed = {})
    BY <1>6, NothingLands
  <2>2. /\ SchemasNeeded' = SchemasNeeded /\ StillNeeded' = StillNeeded
        /\ landed' = landed
    BY <1>1, <1>4, <1>6, <2>1, HistorySteps DEF world, SchemasNeeded, StillNeeded
  <2>3. Decide => /\ changes' = StillNeeded
                  /\ SchemaChanges(todo') \subseteq SchemasNeeded
                  /\ stage = "KAFKA_REGISTER_SCHEMA" =>
                       /\ pc' = "execute" => SchemasNeeded \subseteq todo'
                       /\ pc' = "returned" /\ verdict' = "success" => SchemasNeeded = {}
    BY DecidedWork DEF Settled
  <2>4. ReportIsTrue'
    <3>1. CASE Decide /\ stage = "KAFKA_PLAN"
      <4>1. reported' = StillNeeded /\ landed' = {}
        BY <1>3, <2>2, <2>3, <3>1, HistorySteps
      <4> QED
        BY <1>1, <2>2, <4>1 DEF ReportIsTrue
    <3>2. CASE ~(Decide /\ stage = "KAFKA_PLAN")
      <4>1. reported' = reported
        BY <1>4, <3>2, HistorySteps
      <4> QED
        BY <1>1, <1>3, <2>2, <4>1 DEF ReportIsTrue
    <3> QED
      BY <3>1, <3>2
  <2>5. pc' = "execute" => SchemaChanges(todo') \subseteq SchemasNeeded'
    <3>1. CASE Decide
      BY <2>2, <2>3, <3>1
    <3>2. CASE ~Decide
      BY <1>3, <2>1, <2>2, <3>2 DEF SchemaChanges
    <3> QED
      BY <3>1, <3>2
  <2>6. pc' = "execute" /\ stage' = "KAFKA_REGISTER_SCHEMA"
           => SchemasNeeded' \subseteq (todo' \union failed') \union landed'
    <3>1. CASE Decide
      BY <1>1, <2>2, <2>3, <3>1
    <3>2. CASE ~Decide
      BY <1>1, <1>3, <2>1, <2>2, <3>2
    <3> QED
      BY <3>1, <3>2
  <2>7. (/\ pc' = "returned" /\ verdict' = "success" /\ stage' = "KAFKA_REGISTER_SCHEMA"
         /\ target'.schemaRegistry) => SchemasNeeded' \subseteq landed'
    <3>1. CASE Decide
      BY <1>1, <2>2, <2>3, <3>1
    <3>2. CASE ~Decide
      BY <1>1, <1>3, <2>1, <2>2, <3>2 DEF NothingToRegister, Forward
    <3> QED
      BY <3>1, <3>2
  <2> QED
    BY <1>1, <1>2, <1>3, <2>2, <2>4, <2>5, <2>6, <2>7 DEF RegistrationsLand
<1> QED
  BY <1>5, <1>6

\* A restart, or a step between stages, lands and reports nothing.
LEMMA OthersLeaveHistory ==
    ASSUME CustodyInvariant, HNext,
           NextStage \/ Complete \/ StartRollback \/ GiveUp \/ Restart
    PROVE  landed' = landed /\ reported' = reported
<1>1. ~StartDeployment /\ ~Decide
  BY DEF NextStage, Complete, StartRollback, GiveUp, Restart, StartDeployment, Decide, Return
<1>2. ASSUME NEW c \in todo, LandsNow(c)
      PROVE  FALSE
  <2>1. pc = "execute" /\ changes' = changes /\ c \in changes
    BY <1>2 DEF LandsNow, Try, CustodyInvariant, PlanIsWarranted
  <2> QED
    BY <2>1 DEF NextStage, Complete, StartRollback, GiveUp, Restart, ForgetRun
<1> QED
  BY <1>1, <1>2, HistorySteps DEF SomethingLands

\* The first stage of a pipeline is not its second.
LEMMA PlansOnlyOnce ==
    ASSUME CustodyInvariant, NextStage, PlansFirst
    PROVE  stage' # "KAFKA_PLAN"
<1>1. /\ pipeline \in Pipeline /\ position \in 1..Len(pipeline.stages)
      /\ position' = position + 1 /\ position < Len(pipeline.stages)
      /\ stage' = pipeline.stages[position']
  BY DEF NextStage, CustodyInvariant, InDeployment
<1>2. position' \in DOMAIN pipeline.stages /\ position' # 1
  BY <1>1 DEF Pipeline
<1> QED
  BY <1>1, <1>2 DEF PlansFirst

LEMMA HistoryStays ==
    ASSUME CustodyInvariant, StageInvariant, PipelineInvariant, ReportIsTrue, RegistrationsLand,
           [HNext]_hvars
    PROVE  ReportIsTrue' /\ RegistrationsLand'
<1>1. CASE HNext /\ StartDeployment
  <2>1. /\ reported' = None /\ landed' = {} /\ pc' = "begin" /\ position' = 1
    BY <1>1, HistorySteps DEF StartDeployment
  <2>2. ~RegisterIsPast'
    BY <2>1 DEF RegisterIsPast, Past
  <2> QED
    BY <2>1, <2>2 DEF ReportIsTrue, RegistrationsLand
<1>2. CASE HNext /\ NextStage
  <2>1. /\ landed' = landed /\ reported' = reported
        /\ UNCHANGED <<cluster, registry, target, revision, pipeline>>
        /\ pc = "returned" /\ verdict = "success" /\ pc' = "begin" /\ Forward
        /\ quiet'.deployment = quiet.deployment
    BY <1>2, OthersLeaveHistory DEF NextStage, world, Forward, CustodyInvariant, TypeOK
  <2>2. Settled' = Settled /\ SchemasNeeded' = SchemasNeeded /\ StillNeeded' = StillNeeded
    BY <2>1 DEF Settled, PlansFirst, SchemasNeeded, StillNeeded
  <2>3. RegisterIsPast' => RegisterIsPast \/ stage = "KAFKA_REGISTER_SCHEMA"
    BY <1>2, PastGrows DEF PipelineInvariant
  <2>4. Settled => stage' # "KAFKA_PLAN"
    BY <1>2, PlansOnlyOnce DEF Settled
  <2>5. ReportIsTrue'
    BY <2>1, <2>2, <2>4 DEF ReportIsTrue
  <2>6. RegistrationsLand'
    BY <2>1, <2>2, <2>3 DEF RegistrationsLand
  <2> QED
    BY <2>5, <2>6
<1>3. CASE HNext /\ (Complete \/ GiveUp \/ StartRollback)
  BY <1>3 DEF Complete, GiveUp, StartRollback, ReportIsTrue, RegistrationsLand, Forward
<1>4. CASE HNext /\ Restart
  <2>1. /\ landed' = landed /\ reported' = reported
        /\ UNCHANGED <<cluster, registry, revision, pipeline, position, stage>>
        /\ pc' = "begin" \/ UNCHANGED <<pc, verdict>>
        /\ pc = "idle" <=> pc' = "idle"
        /\ quiet'.deployment => quiet.deployment /\ target' = target
        /\ pc' # "execute"
    BY <1>4, OthersLeaveHistory DEF Restart, world
  <2>2. Settled' => /\ Settled /\ target' = target
                    /\ SchemasNeeded' = SchemasNeeded /\ StillNeeded' = StillNeeded
    BY <2>1 DEF Settled, PlansFirst, SchemasNeeded, StillNeeded
  <2>3. Forward' = Forward /\ RegisterIsPast' = RegisterIsPast
    BY <2>1 DEF Forward, RegisterIsPast, Past
  <2>4. ReportIsTrue'
    BY <2>1, <2>2, <2>3 DEF ReportIsTrue
  <2>5. RegistrationsLand'
    BY <2>1, <2>2, <2>3 DEF RegistrationsLand
  <2> QED
    BY <2>4, <2>5
<1>5. CASE Others
  BY <1>5 DEF Others, ReportIsTrue, RegistrationsLand, Settled
<1>6. CASE HNext /\ (Plugin \/ Faults)
  BY <1>6, PluginKeepsHistory
<1>7. CASE UNCHANGED hvars
  <2>1. /\ UNCHANGED <<cluster, registry, target, revision, pipeline, position, stage>>
        /\ UNCHANGED <<pc, verdict, todo, failed, quiet, reported, landed>>
    BY <1>7 DEF hvars, vars, world, piped, run
  <2>2. /\ Forward' = Forward /\ Settled' = Settled /\ RegisterIsPast' = RegisterIsPast
        /\ SchemasNeeded' = SchemasNeeded /\ StillNeeded' = StillNeeded
    BY <2>1 DEF Forward, Settled, PlansFirst, RegisterIsPast, Past, SchemasNeeded, StillNeeded
  <2>3. ReportIsTrue'
    BY <2>1, <2>2 DEF ReportIsTrue
  <2>4. RegistrationsLand'
    BY <2>1, <2>2 DEF RegistrationsLand
  <2> QED
    BY <2>3, <2>4
<1> QED
  BY <1>1, <1>2, <1>3, <1>4, <1>5, <1>6, <1>7 DEF HNext, Next, Piped

\* A deployment that completes has landed all that was reported.
LEMMA CompleteLandsAll ==
    ASSUME CustodyInvariant, StageInvariant, PipelineInvariant, ReportIsTrue, RegistrationsLand,
           Complete, Settled, reported # None,
           {"KAFKA_REGISTER_SCHEMA", "KAFKA_APPLY"} \subseteq RequestedStages
    PROVE  landed = reported
<1>1. /\ pc = "returned" /\ verdict \in {"success", "exited"} /\ Forward /\ Undisturbed
      /\ quiet.deployment /\ CountsFit(revision)
      /\ revision \in Revision /\ target \in Target /\ cluster \in Clusters
  BY DEF Complete, Forward, CustodyInvariant, TypeOK, InDeployment, Undisturbed, Settled
<1>2. reported = landed \union StillNeeded
  BY <1>1 DEF ReportIsTrue
<1>3. CASE verdict = "exited"
  <2>1. Empty(Build(revision, cluster, target, registry))
    BY <1>1, <1>3, EmptyPlanIsSync DEF StageInvariant, SuccessIsTrue
  <2>2. StillNeeded = {}
    BY <1>1, <2>1, BuildByTopic DEF Empty, StillNeeded, SchemasNeeded
  <2> QED
    BY <1>2, <2>2
<1>4. CASE verdict = "success"
  <2>1. Converged /\ (RegisterIsPast \/ stage = "KAFKA_REGISTER_SCHEMA")
    BY <1>1, <1>4, CompleteIsDone DEF PipelineInvariant
  <2>2. CASE target.schemaRegistry
    BY <1>1, <1>2, <1>4, <2>1, <2>2 DEF RegistrationsLand, Converged, StillNeeded
  <2>3. CASE ~target.schemaRegistry
    <3>1. SchemasNeeded = {}
      BY <2>1, <2>3, SchemaNeedsAre DEF Converged, BuildFails, SchemasNeeded, Lacks
    <3> QED
      BY <1>2, <2>1, <3>1 DEF Converged, StillNeeded
  <2> QED
    BY <2>2, <2>3
<1> QED
  BY <1>1, <1>3, <1>4

LEMMA ReportStays ==
    ASSUME CustodyInvariant, StageInvariant, PipelineInvariant, HistoryInvariant,
           InPlace', ReportIsTrue', [HNext]_hvars
    PROVE  DeploysWhatWasReported'
<1> SUFFICES ASSUME reported' # None, Settled'
             PROVE  /\ landed' \subseteq reported'
                    /\ (/\ outcome' = "success"
                        /\ {"KAFKA_REGISTER_SCHEMA", "KAFKA_APPLY"} \subseteq RequestedStages')
                          => landed' = reported'
  BY DEF DeploysWhatWasReported, Settled
<1>1. CASE HNext /\ StartDeployment
  BY <1>1, HistorySteps
<1>2. CASE HNext /\ (NextStage \/ StartRollback)
  <2>1. /\ landed' = landed /\ reported' = reported /\ pc' # "idle"
        /\ UNCHANGED <<revision, pipeline>> /\ quiet'.deployment = quiet.deployment
    BY <1>2, OthersLeaveHistory DEF NextStage, StartRollback, CustodyInvariant, TypeOK
  <2>2. outcome' # "success"
    BY <2>1, DeploymentAssumption DEF InPlace
  <2>3. Settled
    BY <2>1 DEF Settled, PlansFirst
  <2> QED
    BY <2>1, <2>2, <2>3 DEF HistoryInvariant, DeploysWhatWasReported, Settled
<1>3. CASE HNext /\ Complete
  <2>1. /\ landed' = landed /\ reported' = reported
        /\ UNCHANGED <<revision, pipeline, quiet>>
    BY <1>3, OthersLeaveHistory DEF Complete
  <2>2. Settled /\ RequestedStages' = RequestedStages
    BY <2>1 DEF Settled, PlansFirst, RequestedStages
  <2>3. landed \subseteq reported
    BY <2>1, <2>2 DEF HistoryInvariant, DeploysWhatWasReported, Settled
  <2> QED
    BY <1>3, <2>1, <2>2, <2>3, CompleteLandsAll DEF HistoryInvariant
<1>4. CASE HNext /\ GiveUp
  <2>1. /\ landed' = landed /\ reported' = reported /\ outcome' = "failure"
        /\ UNCHANGED <<revision, pipeline, quiet>>
    BY <1>4, OthersLeaveHistory DEF GiveUp
  <2>2. Settled
    BY <2>1 DEF Settled, PlansFirst
  <2> QED
    BY <2>1, <2>2 DEF HistoryInvariant, DeploysWhatWasReported, Settled
<1>5. CASE HNext /\ Restart
  <2>1. /\ landed' = landed /\ reported' = reported
        /\ UNCHANGED <<revision, pipeline, outcome>>
        /\ quiet'.deployment => quiet.deployment
    BY <1>5, OthersLeaveHistory DEF Restart
  <2>2. Settled /\ RequestedStages' = RequestedStages
    BY <2>1 DEF Settled, PlansFirst, RequestedStages
  <2> QED
    BY <2>1, <2>2 DEF HistoryInvariant, DeploysWhatWasReported, Settled
<1>6. CASE Others
  BY <1>6 DEF Others, Settled
<1>7. CASE HNext /\ (Plugin \/ Faults)
  <2>1. /\ UNCHANGED <<revision, pipeline, stage>>
        /\ pc # "idle" /\ pc' # "idle" /\ quiet'.deployment = quiet.deployment
    BY <1>7, PluginKeepsItsPlace DEF piped
  <2>2. outcome' # "success" /\ Settled
    BY <2>1, DeploymentAssumption DEF InPlace, Settled, PlansFirst
  <2>3. CASE Forward
    <3>1. reported' = landed' \union StillNeeded'
      BY <2>1, <2>3 DEF ReportIsTrue, Forward
    <3> QED
      BY <2>2, <3>1
  <2>4. CASE ~Forward
    <3>1. landed' = landed /\ reported' = reported
      BY <1>7, <2>1, <2>4, HistorySteps DEF Forward, StartDeployment
    <3> QED
      BY <2>2, <3>1 DEF HistoryInvariant, DeploysWhatWasReported, Settled
  <2> QED
    BY <2>3, <2>4
<1>8. CASE UNCHANGED hvars
  <2>1. UNCHANGED <<revision, pipeline, outcome, quiet, reported, landed>>
    BY <1>8 DEF hvars, vars, piped
  <2>2. Settled /\ RequestedStages' = RequestedStages
    BY <2>1 DEF Settled, PlansFirst, RequestedStages
  <2> QED
    BY <2>1, <2>2 DEF HistoryInvariant, DeploysWhatWasReported, Settled
<1> QED
  BY <1>1, <1>2, <1>3, <1>4, <1>5, <1>6, <1>7, <1>8 DEF HNext, Next, Piped

\* What an undisturbed deployment changes is part of what its KAFKA_PLAN showed,
\* although every later stage plans again; and all of it when it succeeds
\* through KAFKA_REGISTER_SCHEMA and KAFKA_APPLY.
THEOREM DeploymentDoesWhatWasReported == HSpec => []DeploysWhatWasReported
<1>1. HSpec => Spec
  <2>1. HInit => Init
    BY DEF HInit
  <2>2. [HNext]_hvars => [Next]_vars
    BY DEF HNext, hvars
  <2> QED
    BY <2>1, <2>2, PTL DEF HSpec, Spec
<1>2. ASSUME HInit
      PROVE  HistoryInvariant
  BY <1>2 DEF HInit, Init, HistoryInvariant, ReportIsTrue, RegistrationsLand, Forward,
              DeploysWhatWasReported
<1>3. ASSUME CustodyInvariant, StageInvariant, PipelineInvariant, PipelineInvariant',
             HistoryInvariant, [HNext]_hvars
      PROVE  HistoryInvariant'
  <2>1. ReportIsTrue' /\ RegistrationsLand'
    BY <1>3, HistoryStays DEF HistoryInvariant
  <2>2. DeploysWhatWasReported'
    BY <1>3, <2>1, ReportStays DEF PipelineInvariant
  <2> QED
    BY <2>1, <2>2 DEF HistoryInvariant
<1>4. HInit => HistoryInvariant
  BY <1>2
<1>5. CustodyInvariant /\ StageInvariant /\ PipelineInvariant /\ PipelineInvariant'
         /\ HistoryInvariant /\ [HNext]_hvars => HistoryInvariant'
  BY <1>3
<1>6. HistoryInvariant => DeploysWhatWasReported
  BY DEF HistoryInvariant
<1> QED
  BY <1>1, <1>4, <1>5, <1>6, StageInvariantHolds, PipelineInvariantHolds, PTL DEF HSpec
=============================================================================
