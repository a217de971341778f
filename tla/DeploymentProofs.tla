-------------------------- MODULE DeploymentProofs --------------------------
(***************************************************************************)
(* Proofs, for any topics, keys, revisions, targets, pipelines and bounds, *)
(* that the plugin's variables keep their types and that it stays in       *)
(* custody.  The invariant both rest on is CustodyInvariant.               *)
(***************************************************************************)
EXTENDS DeploymentProperties, PlanProofs

LEMMA SpendType ==
    ASSUME TypeOK, NEW kind \in {"deployments", "others", "faults", "restarts"}, Spend(kind)
    PROVE  budget' \in [deployments: Nat, others: Nat, faults: Nat, restarts: Nat]
BY DEF TypeOK, Spend

(***************************************************************************)
(* The inductive invariant, one lemma for each kind of step.               *)
(***************************************************************************)
LEMMA InitInvariant == Init => CustodyInvariant
<1> SUFFICES ASSUME Init PROVE CustodyInvariant
  OBVIOUS
<1>1. TypeOK
  <2>1. cluster \in Clusters /\ actual \in Clusters
    BY DeploymentAssumption DEF Init, Clusters, NoTopics
  <2>2. target \in Target
    BY DeploymentAssumption DEF Init
  <2>3. budget \in [deployments: Nat, others: Nat, faults: Nat, restarts: Nat]
    BY DeploymentAssumption DEF Init
  <2> QED
    BY <2>1, <2>2, <2>3 DEF Init, TypeOK, Steps
<1>2. pc = "idle"
  BY DEF Init
<1> QED
  BY <1>1, <1>2 DEF CustodyInvariant, InDeployment, HasSource, ChecksSchema,
                    PlanIsWarranted, Busy, Planning

\* Outside a stage's planning and acting there is little to keep.
LEMMA NotBusy ==
    ASSUME TypeOK', InDeployment', pc' \notin Busy, pc' = "begin" => changes' = {}
    PROVE  CustodyInvariant'
BY DEF CustodyInvariant, HasSource, ChecksSchema, PlanIsWarranted, Busy, Planning

\* A stage's memory is emptied between stages.
LEMMA ForgetType ==
    ASSUME ForgetRun
    PROVE  /\ verdict' = None /\ actual' \in Clusters /\ unplanned' \subseteq Topics
           /\ latest' = None /\ changes' = {} /\ todo' \subseteq Change
           /\ failed' \subseteq Change /\ blocked' \subseteq BlockedTypes
BY DEF ForgetRun, NoTopics, Clusters

LEMMA StartDeploymentStep ==
    ASSUME CustodyInvariant, StartDeployment
    PROVE  CustodyInvariant'
<1>1. revision' \in Revision
  BY DeploymentAssumption DEF StartDeployment
<1>2. /\ pipeline' \in Pipeline /\ position' \in 1..Len(pipeline'.stages)
      /\ stage' \in StageNames
  <2>1. CASE \E p \in Pipelines, o \in Options :
                pipeline' = BuildPipelineSyncStages(p, o)
    <3>1. PICK p \in Pipelines, o \in Options :
                pipeline' = BuildPipelineSyncStages(p, o)
      BY <2>1
    <3>2. p \in Seq(StageNames) /\ p # <<>> /\ o \in StageOptions
      BY DeploymentAssumption
    <3>3. pipeline' \in Pipeline /\ pipeline'.stages = p
      BY <3>1, <3>2 DEF BuildPipelineSyncStages, Pipeline
    <3>4. 1 \in 1..Len(p) /\ p[1] \in StageNames
      BY <3>2
    <3> QED
      BY <3>3, <3>4 DEF StartDeployment
  <2>2. CASE \E b \in BOOLEAN : pipeline' = BuildQuickSyncStages(b)
    <3>1. PICK b \in BOOLEAN : pipeline' = BuildQuickSyncStages(b)
      BY <2>2
    <3> DEFINE p == <<"KAFKA_REGISTER_SCHEMA", "KAFKA_APPLY">>
    <3>2. p \in Seq(StageNames) /\ Len(p) = 2 /\ p[1] \in StageNames
      BY DEF StageNames
    <3>3. NoOptions \in StageOptions
      BY DEF NoOptions, StageOptions
    <3>4. pipeline' \in Pipeline /\ pipeline'.stages = p
      BY <3>1, <3>2, <3>3 DEF BuildQuickSyncStages, Pipeline
    <3> QED
      BY <3>2, <3>4 DEF StartDeployment
  <2> QED
    BY <2>1, <2>2 DEF StartDeployment
<1>3. TypeOK'
  <2>1. budget' \in [deployments: Nat, others: Nat, faults: Nat, restarts: Nat]
    BY SpendType DEF StartDeployment, CustodyInvariant
  <2>2. ForgetRun
    BY DEF StartDeployment
  <2> QED
    BY <1>1, <1>2, <2>1, <2>2, ForgetType
    DEF StartDeployment, CustodyInvariant, TypeOK, world, Steps,
        BlockedTypes
<1>4. InDeployment' /\ pc' \notin Busy
  BY <1>1, <1>2 DEF StartDeployment, InDeployment, Busy, Planning
<1> QED
  BY <1>3, <1>4, ForgetType, NotBusy DEF StartDeployment

LEMMA NextStageStep ==
    ASSUME CustodyInvariant, NextStage
    PROVE  CustodyInvariant'
<1>1. /\ pipeline' = pipeline /\ pipeline \in Pipeline
      /\ position' \in 1..Len(pipeline.stages) /\ stage' \in StageNames
  <2>1. pipeline \in Pipeline /\ position \in 1..Len(pipeline.stages)
    BY DEF CustodyInvariant, InDeployment, NextStage
  <2>2. pipeline.stages \in Seq(StageNames)
    BY <2>1 DEF Pipeline
  <2> QED
    BY <2>1, <2>2 DEF NextStage
<1>2. TypeOK'
  <2>1. ForgetRun
    BY DEF NextStage
  <2>2. position' \in Nat
    BY DEF NextStage, CustodyInvariant, TypeOK
  <2>3. quiet' \in [run: BOOLEAN, deployment: BOOLEAN]
    BY DEF NextStage, CustodyInvariant, TypeOK
  <2> QED
    BY <1>1, <2>1, <2>2, <2>3, ForgetType
    DEF NextStage, CustodyInvariant, TypeOK, world, Steps, BlockedTypes
<1>3. InDeployment' /\ pc' \notin Busy
  BY <1>1 DEF NextStage, CustodyInvariant, InDeployment, Busy, Planning
<1> QED
  BY <1>2, <1>3, ForgetType, NotBusy DEF NextStage

LEMMA EndsStep ==
    ASSUME CustodyInvariant, Complete \/ GiveUp
    PROVE  CustodyInvariant'
<1>1. ForgetRun /\ pc' = "idle"
  BY DEF Complete, GiveUp
<1>2. TypeOK'
  <2>1. CASE Complete
    BY <1>1, <2>1, ForgetType
    DEF Complete, CustodyInvariant, TypeOK, world, Steps, BlockedTypes
  <2>2. CASE GiveUp
    BY <1>1, <2>2, ForgetType
    DEF GiveUp, CustodyInvariant, TypeOK, world, Steps, BlockedTypes
  <2> QED
    BY <2>1, <2>2
<1>3. InDeployment' /\ pc' \notin Busy
  BY <1>1 DEF InDeployment, Busy, Planning
<1> QED
  BY <1>1, <1>2, <1>3, NotBusy

LEMMA StartRollbackStep ==
    ASSUME CustodyInvariant, StartRollback
    PROVE  CustodyInvariant'
<1>1. ForgetRun
  BY DEF StartRollback
<1>2. quiet' \in [run: BOOLEAN, deployment: BOOLEAN]
  BY DEF StartRollback, CustodyInvariant, TypeOK
<1>3. TypeOK'
  BY <1>1, <1>2, ForgetType
  DEF StartRollback, CustodyInvariant, TypeOK, world, Steps, StageNames, BlockedTypes
<1>4. InDeployment' /\ pc' \notin Busy
  BY DEF StartRollback, CustodyInvariant, InDeployment, Busy, Planning, StageNames
<1> QED
  BY <1>3, <1>4, ForgetType, NotBusy DEF StartRollback

LEMMA RestartStep ==
    ASSUME CustodyInvariant, Restart
    PROVE  CustodyInvariant'
<1>1. target' \in Target
  BY DeploymentAssumption DEF Restart
<1>2. budget' \in [deployments: Nat, others: Nat, faults: Nat, restarts: Nat]
  BY SpendType DEF Restart, CustodyInvariant
<1>3. quiet' \in [run: BOOLEAN, deployment: BOOLEAN]
  BY DEF Restart, CustodyInvariant, TypeOK
<1>4. CASE pc \in {"idle", "returned"} /\ UNCHANGED <<pc, verdict, run>>
  <2>1. TypeOK'
    BY <1>1, <1>2, <1>3, <1>4 DEF Restart, CustodyInvariant, TypeOK, world, run
  <2>2. InDeployment' /\ pc' \notin Busy
    BY <1>4 DEF Restart, CustodyInvariant, InDeployment, Busy, Planning
  <2> QED
    BY <1>4, <2>1, <2>2, NotBusy
<1>5. CASE pc \notin {"idle", "returned"} /\ pc' = "begin" /\ ForgetRun
  <2>1. TypeOK'
    BY <1>1, <1>2, <1>3, <1>5, ForgetType
    DEF Restart, CustodyInvariant, TypeOK, world, Steps, BlockedTypes
  <2>2. InDeployment' /\ pc' \notin Busy
    BY <1>5 DEF Restart, CustodyInvariant, InDeployment, Busy, Planning
  <2> QED
    BY <1>5, <2>1, <2>2, ForgetType, NotBusy
<1> QED
  BY <1>4, <1>5 DEF Restart

LEMMA OthersStep ==
    ASSUME CustodyInvariant, Others
    PROVE  CustodyInvariant'
<1>1. cluster' \in Clusters /\ registry' \in Registries
  BY DeploymentAssumption DEF Others, CustodyInvariant, TypeOK, Clusters, Registries
<1>2. budget' \in [deployments: Nat, others: Nat, faults: Nat, restarts: Nat]
  BY SpendType DEF Others, CustodyInvariant
<1>3. TypeOK'
  BY <1>1, <1>2 DEF Others, CustodyInvariant, TypeOK, piped, run
<1>4. UNCHANGED <<piped, pc, run>>
  BY DEF Others
<1> QED
  BY <1>3, <1>4
  DEF CustodyInvariant, InDeployment, HasSource, ChecksSchema, PlanIsWarranted,
      StageDoes, Source, IsNextTopic, piped, run

\* A stage that returns leaves planning and acting.
LEMMA ReturnStep ==
    ASSUME CustodyInvariant, NEW v \in Verdicts, Return(v),
           UNCHANGED <<world, piped, quiet>>,
           actual' \in Clusters, unplanned' \subseteq Topics,
           latest' \in Bodies \union {None}, changes' \subseteq Change,
           blocked' \subseteq BlockedTypes, todo' \subseteq Change, failed' \subseteq Change,
           budget' \in [deployments: Nat, others: Nat, faults: Nat, restarts: Nat],
           pc # "idle"
    PROVE  CustodyInvariant'
<1>1. TypeOK'
  BY DEF CustodyInvariant, TypeOK, Return, world, piped, Steps, BlockedTypes
<1>2. InDeployment' /\ pc' \notin Busy
  BY DEF CustodyInvariant, InDeployment, Return, piped, Busy, Planning
<1> QED
  BY <1>1, <1>2, NotBusy DEF Return

\* ... and keeps its memory when it returns for another reason than its plan.
LEMMA ReturnUnchangedStep ==
    ASSUME CustodyInvariant, NEW v \in Verdicts, Return(v),
           UNCHANGED <<world, piped, run, quiet>>,
           budget' \in [deployments: Nat, others: Nat, faults: Nat, restarts: Nat],
           pc # "idle"
    PROVE  CustodyInvariant'
BY ReturnStep DEF CustodyInvariant, TypeOK, run, BlockedTypes

LEMMA BeginStep ==
    ASSUME CustodyInvariant, Begin
    PROVE  CustodyInvariant'
<1>1. budget' \in [deployments: Nat, others: Nat, faults: Nat, restarts: Nat]
  BY DEF Begin, CustodyInvariant, TypeOK
<1>2. CASE \E v \in Verdicts : Return(v)
  BY <1>1, <1>2, ReturnUnchangedStep DEF Begin
<1>3. CASE ~NothingToRestore /\ pc' = "list" /\ UNCHANGED verdict
  <2>1. TypeOK'
    BY <1>3 DEF Begin, CustodyInvariant, TypeOK, world, piped, run, Steps
  <2>2. InDeployment'
    BY DEF Begin, CustodyInvariant, InDeployment, piped
  <2>3. HasSource'
    BY <1>3, DeploymentAssumption
    DEF Begin, CustodyInvariant, TypeOK, InDeployment, HasSource, Source,
        NothingToRestore, piped, Planning
  <2>4. ChecksSchema'
    BY <1>3 DEF ChecksSchema
  <2>5. PlanIsWarranted'
    BY <1>3 DEF Begin, CustodyInvariant, PlanIsWarranted, Planning, run
  <2> QED
    BY <2>1, <2>2, <2>3, <2>4, <2>5 DEF CustodyInvariant
<1> QED
  BY <1>2, <1>3 DEF Begin, Verdicts

LEMMA ListStep ==
    ASSUME CustodyInvariant, List
    PROVE  CustodyInvariant'
<1>1. Source \in Revision /\ Declared(Source) \subseteq Topics
  BY RevisionFacts DEF List, CustodyInvariant, HasSource, Busy
<1>2. actual' \in Clusters
  <2>1. ASSUME NEW t \in Topics, cluster[t] # None
        PROVE  [cluster[t] EXCEPT !.config = NoConfig] \in TopicState
    <3>1. cluster[t] \in TopicState
      BY <2>1 DEF CustodyInvariant, TypeOK, Clusters
    <3>2. NoConfig \in Config
      BY DEF NoConfig, Config
    <3> QED
      BY <3>1, <3>2 DEF TopicState
  <2> QED
    BY <2>1 DEF List, ListedTopics, Clusters
<1>3. TypeOK'
  <2>1. quiet' \in [run: BOOLEAN, deployment: BOOLEAN]
    BY DEF List, CustodyInvariant, TypeOK
  <2> QED
    BY <1>1, <1>2, <2>1 DEF List, CustodyInvariant, TypeOK, world, piped, Steps
<1>4. InDeployment'
  BY DEF List, CustodyInvariant, InDeployment, piped
<1>5. HasSource'
  BY <1>1 DEF List, HasSource, Source, piped, Declared
<1>6. ChecksSchema'
  BY DEF List, ChecksSchema
<1>7. PlanIsWarranted'
  BY DEF List, CustodyInvariant, PlanIsWarranted
<1> QED
  BY <1>3, <1>4, <1>5, <1>6, <1>7 DEF CustodyInvariant

LEMMA DescribeStep ==
    ASSUME CustodyInvariant, Describe
    PROVE  CustodyInvariant'
<1>1. CASE Return("failure") /\ UNCHANGED actual
  <2>1. UNCHANGED run /\ pc # "idle" /\ budget' = budget
    BY <1>1 DEF Describe, run
  <2>2. budget' \in [deployments: Nat, others: Nat, faults: Nat, restarts: Nat]
    BY <2>1 DEF CustodyInvariant, TypeOK
  <2> QED
    BY <1>1, <2>1, <2>2, ReturnUnchangedStep DEF Describe, Verdicts
<1>2. CASE /\ DescribeAccepted(cluster, actual)
           /\ pc' = "plan" /\ UNCHANGED verdict
           /\ actual' = WithConfigs(cluster, actual)
  <2>1. actual' \in Clusters
    <3>1. ASSUME NEW t \in Topics, actual[t] # None
          PROVE  [actual[t] EXCEPT !.config = cluster[t].config] \in TopicState
      <4>1. actual[t] \in TopicState /\ cluster[t] \in TopicState
        BY <1>2, <3>1 DEF DescribeAccepted, CustodyInvariant, TypeOK, Clusters
      <4> QED
        BY <4>1 DEF TopicState
    <3> QED
      BY <1>2, <3>1 DEF WithConfigs, Clusters
  <2>2. TypeOK'
    BY <1>2, <2>1 DEF Describe, CustodyInvariant, TypeOK, world, piped, Steps
  <2>3. InDeployment'
    BY DEF Describe, CustodyInvariant, InDeployment, piped
  <2>4. HasSource'
    BY <1>2 DEF Describe, CustodyInvariant, HasSource, Source, piped, Busy, Planning
  <2>5. ChecksSchema'
    BY <1>2 DEF ChecksSchema
  <2>6. PlanIsWarranted'
    BY <1>2 DEF Describe, CustodyInvariant, PlanIsWarranted, Source, piped, Planning
  <2> QED
    BY <2>2, <2>3, <2>4, <2>5, <2>6 DEF CustodyInvariant
<1> QED
  BY <1>1, <1>2 DEF Describe

LEMMA PlanNextTopicStep ==
    ASSUME CustodyInvariant, NEW t \in Topics, PlanNextTopic(t)
    PROVE  CustodyInvariant'
<1> DEFINE topic   == Source.topics[t]
           plan    == PlanTopic(t, topic, actual[t], target)
           planned == HasSchemaToPlan(t, topic, target)
           found   == LatestSchema(registry, topic.schema.subject)
<1>1. /\ Source \in Revision /\ target \in Target /\ actual[t] \in TopicState \union {None}
      /\ t \in Declared(Source) /\ topic \in Topic /\ IsNextTopic(t) /\ pc = "plan"
  BY RevisionFacts DEF PlanNextTopic, CustodyInvariant, HasSource, TypeOK, Clusters, Busy,
                       Planning, IsNextTopic
<1>2. /\ changes' = changes \union plan.changes
      /\ blocked' = blocked \union plan.blocked
      /\ UNCHANGED <<world, piped, actual, todo, failed, quiet, budget>>
  BY DEF PlanNextTopic
<1>3. /\ plan.changes \subseteq Change /\ plan.blocked \subseteq BlockedTypes
      /\ \A c \in plan.changes : Warranted(c, Source, target)
  BY <1>1, PlanTopicWarranted
<1>4. changes' \subseteq Change /\ blocked' \subseteq BlockedTypes
  BY <1>2, <1>3 DEF CustodyInvariant, TypeOK, BlockedTypes
<1>5. Source' = Source /\ target' = target
  BY <1>2 DEF Source, piped
<1>6. \A c \in changes' : Warranted(c, Source', target')
  BY <1>1, <1>2, <1>3, <1>5 DEF CustodyInvariant, PlanIsWarranted, Planning
<1>7. InDeployment'
  BY <1>1, <1>2 DEF CustodyInvariant, InDeployment, piped
<1>8. CASE Return("failure") /\ UNCHANGED <<unplanned, latest>>
  <2>1. /\ actual' \in Clusters /\ unplanned' \subseteq Topics /\ todo' \subseteq Change
        /\ latest' \in Bodies \union {None} /\ failed' \subseteq Change
        /\ budget' \in [deployments: Nat, others: Nat, faults: Nat, restarts: Nat]
    BY <1>2, <1>8 DEF CustodyInvariant, TypeOK
  <2> QED
    BY <1>1, <1>2, <1>4, <1>8, <2>1, ReturnStep DEF Verdicts
<1>9. CASE /\ planned /\ target.schemaRegistry
           /\ pc' = "check" /\ latest' = found /\ UNCHANGED <<verdict, unplanned>>
  <2>1. latest' \in Bodies \union {None}
    <3>1. topic.schema \in Schema
      BY <1>1, <1>9 DEF HasSchemaToPlan, Topic
    <3> QED
      BY <1>9, <3>1
      DEF LatestSchema, Schema, CustodyInvariant, TypeOK, Registries, Subject
  <2>2. TypeOK'
    BY <1>2, <1>4, <1>9, <2>1
    DEF CustodyInvariant, TypeOK, world, piped, Steps, BlockedTypes
  <2>3. HasSource'
    BY <1>1, <1>5, <1>9 DEF CustodyInvariant, HasSource, Planning
  <2>4. ChecksSchema'
    <3>1. ASSUME NEW u \in unplanned, IsNextTopic(u)
          PROVE  u = t
      BY <1>1, <3>1, ProviderAssumption DEF IsNextTopic, CustodyInvariant, TypeOK
    <3>2. unplanned' = unplanned
      BY <1>9
    <3> QED
      BY <1>5, <1>9, <3>1, <3>2 DEF ChecksSchema, IsNextTopic
  <2>5. PlanIsWarranted'
    BY <1>6, <1>9 DEF PlanIsWarranted
  <2> QED
    BY <1>7, <2>2, <2>3, <2>4, <2>5 DEF CustodyInvariant
<1>10. CASE unplanned' = unplanned \ {t} /\ UNCHANGED <<pc, verdict, latest>>
  <2>1. TypeOK'
    BY <1>2, <1>4, <1>10 DEF CustodyInvariant, TypeOK, world, piped, BlockedTypes
  <2>2. HasSource'
    BY <1>1, <1>5, <1>10 DEF CustodyInvariant, HasSource, Planning
  <2>3. ChecksSchema'
    BY <1>1, <1>10 DEF ChecksSchema
  <2>4. PlanIsWarranted'
    BY <1>1, <1>6, <1>10 DEF PlanIsWarranted
  <2> QED
    BY <1>7, <2>1, <2>2, <2>3, <2>4 DEF CustodyInvariant
<1> QED
  BY <1>8, <1>9, <1>10 DEF PlanNextTopic

LEMMA CheckNextSchemaStep ==
    ASSUME CustodyInvariant, NEW t \in Topics, CheckNextSchema(t)
    PROVE  CustodyInvariant'
<1> DEFINE topic == Source.topics[t]
           plan  == PlanSchema(t, topic, latest,
                       CheckCompatibility(registry, topic.schema.subject,
                                          topic.schema.body))
<1>1. /\ Source \in Revision /\ target \in Target /\ latest \in Bodies \union {None}
      /\ t \in Declared(Source) /\ HasSchemaToPlan(t, topic, target)
      /\ target.schemaRegistry /\ pc = "check"
  BY RevisionFacts DEF CheckNextSchema, CustodyInvariant, HasSource, ChecksSchema, TypeOK,
                       Busy, Planning, IsNextTopic
<1>2. /\ changes' = changes \union plan.changes
      /\ blocked' = blocked \union plan.blocked
      /\ unplanned' = unplanned \ {t} /\ latest' = None /\ pc' = "plan"
      /\ UNCHANGED <<world, piped, verdict, actual, todo, failed, quiet, budget>>
  BY DEF CheckNextSchema
<1>3. /\ plan.changes \subseteq Change /\ plan.blocked \subseteq BlockedTypes
      /\ \A c \in plan.changes : Warranted(c, Source, target)
  BY <1>1, PlanSchemaWarranted
<1>4. Source' = Source /\ target' = target
  BY <1>2 DEF Source, piped
<1>5. TypeOK'
  BY <1>2, <1>3 DEF CustodyInvariant, TypeOK, world, piped, Steps, BlockedTypes
<1>6. InDeployment'
  BY <1>1, <1>2 DEF CustodyInvariant, InDeployment, piped
<1>7. HasSource'
  BY <1>1, <1>2, <1>4 DEF CustodyInvariant, HasSource, Planning
<1>8. ChecksSchema'
  BY <1>2 DEF ChecksSchema
<1>9. PlanIsWarranted'
  BY <1>1, <1>2, <1>3, <1>4 DEF CustodyInvariant, PlanIsWarranted, Planning
<1> QED
  BY <1>5, <1>6, <1>7, <1>8, <1>9 DEF CustodyInvariant

\* The changes a stage takes up are of the plan, and its own.
LEMMA WorkIsTheStages ==
    ASSUME NEW plan, stage \in StageNames, plan.changes \subseteq Change
    PROVE  /\ Work(plan) \subseteq plan.changes
           /\ \A c \in Work(plan) : StageDoes(c)
           /\ Work(plan) # {} /\ stage # "KAFKA_ROLLBACK" => plan.blocked = {}
<1>1. CASE stage = "KAFKA_PLAN"
  BY <1>1 DEF Work
<1>2. CASE stage = "KAFKA_REGISTER_SCHEMA"
  BY <1>2 DEF Work, StageDoes, SchemaChanges, HasBlocked
<1>3. CASE stage = "KAFKA_APPLY"
  BY <1>3 DEF Work, StageDoes, TopicChanges, HasBlocked
<1>4. CASE stage = "KAFKA_ROLLBACK"
  BY <1>4 DEF Work, StageDoes, Restorable, TopicChanges, Irreversible, Reversible
<1> QED
  BY <1>1, <1>2, <1>3, <1>4 DEF StageNames

LEMMA DecideStep ==
    ASSUME CustodyInvariant, Decide
    PROVE  CustodyInvariant'
<1> DEFINE deletions == PlanDeletions(Source, actual, target)
           plan      == FinishedPlan
<1>1. /\ Source \in Revision /\ target \in Target /\ stage \in StageNames
      /\ pc = "plan" /\ unplanned = {}
  BY DEF Decide, CustodyInvariant, HasSource, InDeployment, TypeOK, Busy, Planning
<1>2. /\ plan.changes = changes \union deletions.changes
      /\ plan.blocked = blocked \union deletions.blocked
  BY DEF FinishedPlan
<1>3. /\ deletions.changes \subseteq Change /\ deletions.blocked \subseteq BlockedTypes
      /\ \A c \in deletions.changes : Warranted(c, Source, target)
  BY <1>1, PlanDeletionsWarranted
<1>4. /\ plan.changes \subseteq Change /\ plan.blocked \subseteq BlockedTypes
      /\ \A c \in plan.changes : Warranted(c, Source, target)
  BY <1>1, <1>2, <1>3
  DEF CustodyInvariant, TypeOK, PlanIsWarranted, Planning, BlockedTypes
<1>5. /\ changes' = plan.changes /\ blocked' = plan.blocked /\ todo' = Work(plan)
      /\ UNCHANGED <<world, piped, actual, unplanned, latest, failed, quiet, budget>>
  BY DEF Decide
<1>6. /\ Work(plan) \subseteq plan.changes
      /\ \A c \in Work(plan) : StageDoes(c)
      /\ Work(plan) # {} /\ stage # "KAFKA_ROLLBACK" => plan.blocked = {}
  BY <1>1, <1>4, WorkIsTheStages
<1>7. CASE todo' = {} /\ Return(Verdict(plan))
  <2>1. Verdict(plan) \in Verdicts
    BY <1>1 DEF Verdict, PlanVerdict, Verdicts, StageNames
  <2>2. /\ actual' \in Clusters /\ unplanned' \subseteq Topics
        /\ latest' \in Bodies \union {None} /\ failed' \subseteq Change
        /\ budget' \in [deployments: Nat, others: Nat, faults: Nat, restarts: Nat]
    BY <1>5 DEF CustodyInvariant, TypeOK
  <2> QED
    BY <1>1, <1>4, <1>5, <1>7, <2>1, <2>2, ReturnStep
<1>8. CASE todo' # {} /\ pc' = "execute" /\ UNCHANGED verdict
  <2>1. TypeOK'
    BY <1>4, <1>5, <1>6, <1>8
    DEF CustodyInvariant, TypeOK, world, piped, Steps, BlockedTypes
  <2>2. InDeployment'
    BY <1>1, <1>5 DEF CustodyInvariant, InDeployment, piped
  <2>3. Source' = Source /\ target' = target /\ stage' = stage
    BY <1>5 DEF Source, piped
  <2>4. HasSource'
    BY <1>1, <1>8, <2>3 DEF HasSource, Planning
  <2>5. ChecksSchema'
    BY <1>8 DEF ChecksSchema
  <2>6. PlanIsWarranted'
    BY <1>4, <1>5, <1>6, <1>8, <2>3 DEF PlanIsWarranted, StageDoes
  <2> QED
    BY <2>1, <2>2, <2>4, <2>5, <2>6 DEF CustodyInvariant
<1> QED
  BY <1>7, <1>8 DEF Decide

\* Carrying out changes keeps the plan they are taken from.
LEMMA TryStep ==
    ASSUME CustodyInvariant, NEW c \in todo, Try(c),
           cluster' \in Clusters, registry' \in Registries,
           budget' \in [deployments: Nat, others: Nat, faults: Nat, restarts: Nat],
           \/ UNCHANGED <<pc, verdict, failed>>
           \/ AnswersError(c)
    PROVE  CustodyInvariant'
<1>1. /\ pc = "execute" /\ todo' = todo \ {c}
      /\ UNCHANGED <<piped, actual, unplanned, latest, changes, blocked, quiet>>
  BY DEF Try
<1>2. c \in Change /\ todo' \subseteq Change /\ failed' \subseteq Change
  BY <1>1 DEF CustodyInvariant, TypeOK, AnswersError
<1>3. (pc' = "execute" /\ verdict' = verdict) \/ (pc' = "returned" /\ verdict' = "failure")
  BY <1>1 DEF AnswersError, Return
<1>4. TypeOK'
  BY <1>1, <1>2, <1>3 DEF CustodyInvariant, TypeOK, piped, Steps, Verdicts
<1>5. InDeployment'
  BY <1>1, <1>3 DEF CustodyInvariant, InDeployment, piped
<1>6. Source' = Source /\ target' = target /\ stage' = stage
  BY <1>1 DEF Source, piped
<1>7. HasSource' /\ ChecksSchema'
  BY <1>1, <1>3, <1>6 DEF CustodyInvariant, HasSource, ChecksSchema, Busy, Planning
<1>8. PlanIsWarranted'
  BY <1>1, <1>3, <1>6 DEF CustodyInvariant, PlanIsWarranted, StageDoes, Planning
<1> QED
  BY <1>4, <1>5, <1>7, <1>8 DEF CustodyInvariant

LEMMA PerformStep ==
    ASSUME CustodyInvariant, NEW c \in todo, Perform(c) \/ Refused(c)
    PROVE  CustodyInvariant'
<1>1. /\ Try(c)
      /\ budget' \in [deployments: Nat, others: Nat, faults: Nat, restarts: Nat]
      /\ UNCHANGED <<pc, verdict, failed>> \/ AnswersError(c)
  BY DEF Perform, Refused, CustodyInvariant, TypeOK
<1>2. cluster' \in Clusters /\ registry' \in Registries
  BY ApplyType DEF Perform, Refused, TakesEffect, CustodyInvariant, TypeOK, world
<1> QED
  BY <1>1, <1>2, TryStep

LEMMA LostStep ==
    ASSUME CustodyInvariant, NEW c \in todo, RequestLost(c) \/ AnswerLost(c)
    PROVE  CustodyInvariant'
<1>1. Spend("faults") /\ Try(c) /\ AnswersError(c)
  BY DEF RequestLost, AnswerLost
<1>2. cluster' \in Clusters /\ registry' \in Registries
  BY ApplyType DEF RequestLost, AnswerLost, TakesEffect, CustodyInvariant, TypeOK, world
<1>3. budget' \in [deployments: Nat, others: Nat, faults: Nat, restarts: Nat]
  BY <1>1, SpendType DEF CustodyInvariant
<1> QED
  BY <1>1, <1>2, <1>3, TryStep

LEMMA CutOffStep ==
    ASSUME CustodyInvariant, CutOff
    PROVE  CustodyInvariant'
<1>1. /\ pc = "execute" /\ pc' = pc /\ todo' = {} /\ failed' = failed \union todo
      /\ UNCHANGED <<world, piped, verdict, actual, unplanned, latest, changes, blocked, quiet>>
  BY DEF CutOff
<1>2. budget' \in [deployments: Nat, others: Nat, faults: Nat, restarts: Nat]
  BY SpendType DEF CutOff, CustodyInvariant
<1>3. TypeOK'
  BY <1>1, <1>2 DEF CustodyInvariant, TypeOK, world, piped
<1>4. InDeployment'
  BY <1>1 DEF CustodyInvariant, InDeployment, piped
<1>5. Source' = Source /\ target' = target /\ stage' = stage
  BY <1>1 DEF Source, piped
<1>6. HasSource' /\ ChecksSchema'
  BY <1>1, <1>5 DEF CustodyInvariant, HasSource, ChecksSchema, Busy, Planning
<1>7. PlanIsWarranted'
  BY <1>1, <1>5 DEF CustodyInvariant, PlanIsWarranted, Planning
<1> QED
  BY <1>3, <1>4, <1>6, <1>7 DEF CustodyInvariant

LEMMA FinishStep ==
    ASSUME CustodyInvariant, Finish
    PROVE  CustodyInvariant'
<1> DEFINE plan == [changes |-> changes, blocked |-> blocked]
<1>1. stage \in StageNames
  BY DEF Finish, CustodyInvariant, InDeployment
<1>2. Verdict(plan) \in Verdicts
  BY <1>1 DEF Verdict, PlanVerdict, Verdicts, StageNames
<1>3. \E v \in Verdicts : Return(v)
  BY <1>2 DEF Finish, Verdicts
<1>4. budget' \in [deployments: Nat, others: Nat, faults: Nat, restarts: Nat]
  BY DEF Finish, CustodyInvariant, TypeOK
<1> QED
  BY <1>3, <1>4, ReturnUnchangedStep DEF Finish

LEMMA ReadFailsStep ==
    ASSUME CustodyInvariant, ReadFails
    PROVE  CustodyInvariant'
<1>1. budget' \in [deployments: Nat, others: Nat, faults: Nat, restarts: Nat]
  BY SpendType DEF ReadFails, CustodyInvariant
<1>2. pc # "idle"
  BY DEF ReadFails, Asking
<1> QED
  BY <1>1, <1>2, ReturnUnchangedStep DEF ReadFails, Verdicts

LEMMA StutterStep ==
    ASSUME CustodyInvariant, UNCHANGED vars
    PROVE  CustodyInvariant'
<1>1. UNCHANGED <<cluster, registry, piped, pc, verdict, run, quiet, budget>>
  BY DEF vars, world
<1>2. TypeOK'
  BY <1>1 DEF CustodyInvariant, TypeOK, piped, run
<1>3. InDeployment'
  BY <1>1 DEF CustodyInvariant, InDeployment, piped
<1>4. Source' = Source /\ target' = target /\ stage' = stage
  BY <1>1 DEF Source, piped
<1>5. HasSource'
  BY <1>1, <1>4 DEF CustodyInvariant, HasSource, run
<1>6. ChecksSchema'
  BY <1>1, <1>4 DEF CustodyInvariant, ChecksSchema, IsNextTopic, run
<1>7. PlanIsWarranted'
  BY <1>1, <1>4 DEF CustodyInvariant, PlanIsWarranted, StageDoes, run
<1> QED
  BY <1>2, <1>3, <1>5, <1>6, <1>7 DEF CustodyInvariant

\* Every step keeps the invariant.
LEMMA NextInvariant ==
    ASSUME CustodyInvariant, [Next]_vars
    PROVE  CustodyInvariant'
<1>1. CASE StartDeployment
  BY <1>1, StartDeploymentStep
<1>2. CASE NextStage
  BY <1>2, NextStageStep
<1>3. CASE Complete \/ GiveUp
  BY <1>3, EndsStep
<1>4. CASE StartRollback
  BY <1>4, StartRollbackStep
<1>5. CASE Restart
  BY <1>5, RestartStep
<1>6. CASE Others
  BY <1>6, OthersStep
<1>7. CASE Begin
  BY <1>7, BeginStep
<1>8. CASE List
  BY <1>8, ListStep
<1>9. CASE Describe
  BY <1>9, DescribeStep
<1>10. CASE \E t \in Topics : PlanNextTopic(t)
  BY <1>10, PlanNextTopicStep
<1>11. CASE \E t \in Topics : CheckNextSchema(t)
  BY <1>11, CheckNextSchemaStep
<1>12. CASE Decide
  BY <1>12, DecideStep
<1>13. CASE \E c \in todo : Perform(c) \/ Refused(c)
  BY <1>13, PerformStep
<1>14. CASE \E c \in todo : RequestLost(c) \/ AnswerLost(c)
  BY <1>14, LostStep
<1>15. CASE Finish
  BY <1>15, FinishStep
<1>16. CASE ReadFails
  BY <1>16, ReadFailsStep
<1>17. CASE CutOff
  BY <1>17, CutOffStep
<1>18. CASE UNCHANGED vars
  BY <1>18, StutterStep
<1>19. CASE Piped
  BY <1>1, <1>2, <1>3, <1>4, <1>19 DEF Piped
<1>20. CASE Plugin
  BY <1>7, <1>8, <1>9, <1>10, <1>11, <1>12, <1>13, <1>15, <1>20 DEF Plugin
<1>21. CASE Faults
  BY <1>14, <1>16, <1>17, <1>21 DEF Faults
<1> QED
  BY <1>5, <1>6, <1>18, <1>19, <1>20, <1>21 DEF Next

(***************************************************************************)
(* The theorems.                                                           *)
(***************************************************************************)
\* A stage acts only on a plan that the revision it works towards, the deploy
\* target it was started with and its own name warrant, at every moment of
\* every behaviour, whoever interferes and whatever fails.
THEOREM CustodyInvariantHolds == Spec => []CustodyInvariant
<1>1. Init => CustodyInvariant
  BY InitInvariant
<1>2. CustodyInvariant /\ [Next]_vars => CustodyInvariant'
  BY NextInvariant
<1> QED
  BY <1>1, <1>2, PTL DEF Spec

\* Every variable of the plugin, of piped and of the two services keeps its type.
THEOREM TypeCorrect == Spec => []TypeOK
<1>1. CustodyInvariant => TypeOK
  BY DEF CustodyInvariant
<1> QED
  BY <1>1, CustodyInvariantHolds, PTL

(***************************************************************************)
(* Who changes the two services: somebody else, or a stage carrying out a  *)
(* change of its plan.                                                     *)
(***************************************************************************)
LEMMA WhatADeploymentChanges ==
    ASSUME Piped \/ Plugin \/ Faults \/ Restart
    PROVE  UNCHANGED world \/ \E c \in todo : Try(c) /\ TakesEffect(c)
<1>1. CASE Piped
  BY <1>1 DEF Piped, StartDeployment, NextStage, Complete, StartRollback, GiveUp
<1>2. CASE Restart
  BY <1>2 DEF Restart
<1>3. CASE Plugin
  <2>1. CASE \E c \in todo : Perform(c) \/ Refused(c)
    BY <2>1 DEF Perform, Refused
  <2>2. CASE Begin \/ List \/ Describe \/ Decide \/ Finish
    BY <2>2 DEF Begin, List, Describe, Decide, Finish
  <2>3. CASE \E t \in Topics : PlanNextTopic(t) \/ CheckNextSchema(t)
    BY <2>3 DEF PlanNextTopic, CheckNextSchema
  <2> QED
    BY <1>3, <2>1, <2>2, <2>3 DEF Plugin
<1>4. CASE Faults
  BY <1>4 DEF Faults, ReadFails, CutOff, RequestLost, AnswerLost
<1> QED
  BY <1>1, <1>2, <1>3, <1>4

LEMMA WhoChangesTheWorld ==
    ASSUME [Next]_vars
    PROVE  \/ UNCHANGED world
           \/ Others
           \/ \E c \in todo : Try(c) /\ TakesEffect(c)
BY WhatADeploymentChanges DEF Next, vars

\* Neither KAFKA_REGISTER_SCHEMA nor KAFKA_APPLY changes anything at all when
\* its plan has a blocked change.
THEOREM BlockedPlanIsNeverApplied == Spec => BlockedPlanIsNotApplied
<1> DEFINE OnlyUnblocked ==
      /\ world' # world /\ budget'.others = budget.others
      /\ stage \in {"KAFKA_REGISTER_SCHEMA", "KAFKA_APPLY"}
      => blocked = {}
<1>1. ASSUME CustodyInvariant, [Next]_vars
      PROVE  OnlyUnblocked
  <2>1. CASE UNCHANGED world
    BY <2>1
  <2>2. CASE Others
    BY <1>1, <2>2 DEF Others, Spend, CustodyInvariant, TypeOK
  <2>3. CASE \E c \in todo : Try(c) /\ TakesEffect(c)
    BY <1>1, <2>3 DEF Try, CustodyInvariant, PlanIsWarranted
  <2> QED
    BY <1>1, <2>1, <2>2, <2>3, WhoChangesTheWorld
<1>2. CustodyInvariant /\ [Next]_vars => [OnlyUnblocked]_vars
  BY <1>1
<1> QED
  BY <1>2, CustodyInvariantHolds, PTL DEF Spec, BlockedPlanIsNotApplied

(***************************************************************************)
(* The plugin implements Custody.                                          *)
(***************************************************************************)
\* A change of the plan moves one topic, or one subject, as the mandate lets it.
LEMMA TryActs ==
    ASSUME CustodyInvariant, NEW c \in todo, Try(c), TakesEffect(c)
    PROVE  PluginCustody!Act
<1> DEFINE declared == Source.topics[c.topic]
<1>1. /\ c \in Change /\ Source \in Revision /\ target \in Target
      /\ cluster \in Clusters /\ registry \in Registries /\ stage \in StageNames
      /\ Warranted(c, Source, target) /\ StageDoes(c)
  BY DEF Try, CustodyInvariant, TypeOK, HasSource, InDeployment, PlanIsWarranted, Busy
<1>2. UNCHANGED Mandate
  BY DEF Try, Mandate, Source, piped
<1>3. <<pc, verdict, run>>' # <<pc, verdict, run>>
  BY DEF Try, run
<1>4. /\ Accepted(cluster, registry, c)
      /\ cluster' = ClusterAfter(cluster, c) /\ registry' = RegistryAfter(registry, c)
  BY DEF TakesEffect
<1>5. c.topic \in Topics /\ c.topic \in Source.ownership /\ c.topic \notin target.protectedTopics
  BY <1>1, RevisionFacts DEF Warranted
<1>6. ASSUME c.kind # "RegisterSchema",
             cluster' = [cluster EXCEPT ![c.topic] = cluster'[c.topic]],
             PluginCustody!MayMoveTopic(Mandate, c.topic, cluster[c.topic], cluster'[c.topic])
      PROVE  PluginCustody!Act
  BY <1>2, <1>3, <1>4, <1>5, <1>6 DEF PluginCustody!Act, RegistryAfter
<1>7. c.kind # "RegisterSchema" => stage \in {"KAFKA_APPLY", "KAFKA_ROLLBACK"}
  BY <1>1 DEF StageDoes, StageNames
<1>8. CASE c.kind = "CreateTopic"
  <2>1. /\ cluster' = [cluster EXCEPT ![c.topic] = Requested(c.desired)]
        /\ cluster[c.topic] = None
    BY <1>4, <1>8 DEF ClusterAfter, Created, Accepted, CreateAccepted
  <2>2. cluster'[c.topic] = Requested(DesiredState(declared)) /\ declared # None
    BY <1>1, <1>5, <1>8, <2>1 DEF Warranted, Clusters
  <2>3. PluginCustody!MayCreate(declared, cluster[c.topic], cluster'[c.topic])
    BY <2>1, <2>2
    DEF PluginCustody!MayCreate, PluginCustody!StateOf, DesiredState,
        PluginCustody!Requested, Requested, PluginCustody!Asked, Asked,
        PluginCustody!Narrowed, Narrowed
  <2> QED
    BY <1>5, <1>6, <1>7, <1>8, <2>1, <2>2, <2>3 DEF PluginCustody!MayMoveTopic, Mandate, Clusters
<1>9. CASE c.kind = "UpdateTopicConfig"
  <2> DEFINE config0 == Alter(cluster[c.topic].config, c.set, c.delete)
  <2>1. /\ cluster' = [cluster EXCEPT ![c.topic].config = config0]
        /\ cluster[c.topic] \in TopicState /\ cluster[c.topic] # None
    BY <1>1, <1>4, <1>5, <1>9
    DEF ClusterAfter, Altered, Accepted, AlterAccepted, Clusters
  <2>2. cluster'[c.topic] = [cluster[c.topic] EXCEPT !.config = config0]
    BY <1>1, <1>5, <2>1 DEF Clusters
  <2>3. /\ \A k \in DOMAIN c.set : c.set[k] = declared.config[k]
        /\ \A k \in c.delete : declared.config[k] = None /\ declared # None
    BY <1>1, <1>9 DEF Warranted
  <2>4. config0 \in Config /\ cluster'[c.topic].config = config0
    <3>1. c.set \in UNION {[K -> Values] : K \in SUBSET Keys}
      BY <1>1, <1>9 DEF Change
    <3>2. cluster[c.topic].config \in Config
      BY <2>1 DEF TopicState
    <3> QED
      BY <2>1, <2>2, <3>1, <3>2, AlterType DEF TopicState
  <2>5. \A k \in Keys : config0[k] \in {cluster[c.topic].config[k], declared.config[k]}
    BY <2>3 DEF Alter
  <2>6. cluster'[c.topic] \in TopicState /\ cluster'[c.topic] # None
    BY <2>1, <2>2, <2>4, ProviderAssumption DEF TopicState
  <2>7. PluginCustody!MayAlter(declared, cluster[c.topic], cluster'[c.topic])
    BY <2>1, <2>2, <2>4, <2>5, <2>6 DEF PluginCustody!MayAlter
  <2>8. declared # None
    BY <1>1, <1>9 DEF Warranted
  <2>9. cluster' = [cluster EXCEPT ![c.topic] = cluster'[c.topic]]
    BY <1>1, <1>5, <2>1, <2>2 DEF Clusters
  <2> QED
    BY <1>5, <1>6, <1>7, <1>9, <2>7, <2>8, <2>9 DEF PluginCustody!MayMoveTopic, Mandate
<1>10. CASE c.kind = "IncreasePartitions"
  <2> DEFINE count == Narrowed(c.to, MaxPartitions)
  <2>1. /\ cluster' = [cluster EXCEPT ![c.topic].partitions = count]
        /\ cluster[c.topic] # None /\ count > cluster[c.topic].partitions
    BY <1>4, <1>10
    DEF ClusterAfter, Increased, Accepted, IncreaseAccepted
  <2>2. /\ cluster'[c.topic] = [cluster[c.topic] EXCEPT !.partitions = count]
        /\ cluster'[c.topic].partitions = count
    BY <1>1, <1>5, <2>1 DEF Clusters, TopicState
  <2>3. c.to = declared.partitions /\ declared # None /\ target.allowPartitionIncrease
    BY <1>1, <1>10 DEF Warranted
  <2>4. PluginCustody!MayGrow(declared, cluster[c.topic], cluster'[c.topic])
    BY <2>1, <2>2, <2>3 DEF PluginCustody!MayGrow, PluginCustody!Narrowed, Narrowed
  <2>5. cluster' = [cluster EXCEPT ![c.topic] = cluster'[c.topic]]
    BY <1>1, <1>5, <2>1, <2>2 DEF Clusters
  <2>6. stage = "KAFKA_APPLY"
    BY <1>1, <1>10 DEF StageDoes, StageNames
  <2> QED
    BY <1>5, <1>6, <1>10, <2>3, <2>4, <2>5, <2>6 DEF PluginCustody!MayMoveTopic, Mandate
<1>11. CASE c.kind = "DeleteTopic"
  <2>1. cluster' = [cluster EXCEPT ![c.topic] = None] /\ cluster'[c.topic] = None
    BY <1>1, <1>4, <1>5, <1>11 DEF ClusterAfter, Deleted, Clusters
  <2>2. declared = None /\ target.allowTopicDeletion
    BY <1>1, <1>11 DEF Warranted
  <2>3. stage = "KAFKA_APPLY"
    BY <1>1, <1>11 DEF StageDoes, StageNames
  <2> QED
    BY <1>5, <1>6, <1>11, <2>1, <2>2, <2>3 DEF PluginCustody!MayMoveTopic, Mandate
<1>12. CASE c.kind = "RegisterSchema"
  <2>1. cluster' = cluster /\ registry' = Registered(registry, c.subject, c.body)
    BY <1>4, <1>12 DEF ClusterAfter, RegistryAfter
  <2>2. /\ declared # None /\ target.schemaRegistry
        /\ declared.schema = [subject |-> c.subject, body |-> c.body]
        /\ c.subject \in Subjects
    BY <1>1, <1>12 DEF Warranted, Change
  <2>3. CASE c.body \in Versions(registry, c.subject)
    BY <1>2, <1>3, <2>1, <2>3 DEF PluginCustody!Act, Registered
  <2>4. CASE c.body \notin Versions(registry, c.subject)
    <3>1. /\ registry' = [registry EXCEPT ![c.subject] = registry'[c.subject]]
          /\ registry'[c.subject] = [latest |-> c.body,
                                     older |-> Versions(registry, c.subject)]
      BY <1>1, <2>1, <2>2, <2>4 DEF Registered, Registries
    <3>2. stage = "KAFKA_REGISTER_SCHEMA"
      BY <1>1, <1>12 DEF StageDoes, StageNames
    <3>3. PluginCustody!MayRegister(Mandate, c.subject, registry[c.subject],
                                    registry'[c.subject])
      BY <1>5, <2>2, <3>1, <3>2 DEF PluginCustody!MayRegister, Mandate, Versions
    <3> QED
      BY <1>2, <1>3, <2>1, <2>2, <3>1, <3>3 DEF PluginCustody!Act
  <2> QED
    BY <2>3, <2>4
<1> QED
  BY <1>1, <1>8, <1>9, <1>10, <1>11, <1>12 DEF Change

\* The plugin implements Custody: at any moment it only moves a topic or a
\* subject it was given custody of towards the revision the stage works towards,
\* within what the deploy target permits and what the stage is for.
THEOREM PluginStaysInCustody == Spec => StaysInCustody
<1>1. ASSUME CustodyInvariant, [Next]_vars
      PROVE  [PluginCustody!Next]_(PluginCustody!cvars)
  <2>1. CASE UNCHANGED world
    BY <2>1 DEF PluginCustody!Next, PluginCustody!Act, PluginCustody!NewMandate,
                PluginCustody!cvars, world
  <2>2. CASE Others
    <3>1. UNCHANGED <<Mandate, <<pc, verdict, run>>>>
      BY <2>2 DEF Others, Mandate, Source, piped
    <3> QED
      BY <3>1 DEF PluginCustody!Next, PluginCustody!Others
  <2>3. CASE \E c \in todo : Try(c) /\ TakesEffect(c)
    BY <1>1, <2>3, TryActs DEF PluginCustody!Next
  <2> QED
    BY <1>1, <2>1, <2>2, <2>3, WhoChangesTheWorld
<1>2. Init => PluginCustody!Init
  BY DEF PluginCustody!Init
<1>3. CustodyInvariant /\ [Next]_vars => [PluginCustody!Next]_(PluginCustody!cvars)
  BY <1>1
<1> QED
  BY <1>2, <1>3, CustodyInvariantHolds, PTL DEF Spec, StaysInCustody, PluginCustody!Spec

-----------------------------------------------------------------------------
(***************************************************************************)
(* Who shares the services with another application: what a deployment     *)
(* leaves alone, and what it keeps while others leave its own alone.       *)
(***************************************************************************)
\* The step changes no topic the revision owns, and no subject it names.
LeavesAlone(r) ==
    /\ \A t \in r.ownership : cluster'[t] = cluster[t]
    /\ \A s \in SubjectsOf(r) : registry'[s] = registry[s]

\* Since it stays in custody, a deployment changes at most what one of its
\* revisions owns and names.
LEMMA ChangesOnlyItsOwn ==
    ASSUME CustodyInvariant, Piped \/ Plugin \/ Faults \/ Restart, world' # world
    PROVE  \E r \in Revisions :
              /\ \A t \in Topics \ r.ownership : cluster'[t] = cluster[t]
              /\ \A s \in Subjects \ SubjectsOf(r) : registry'[s] = registry[s]
<1>1. PICK c \in todo : Try(c) /\ TakesEffect(c)
  BY WhatADeploymentChanges
<1>2. /\ Source \in Revisions /\ Source \in Revision
      /\ cluster \in Clusters /\ registry \in Registries
  <2>1. /\ Source \in Revisions \union {None} /\ Source \in Revision
        /\ cluster \in Clusters /\ registry \in Registries
    BY <1>1 DEF Try, CustodyInvariant, TypeOK, HasSource, Busy, Source
  <2> QED
    BY <2>1, DeploymentAssumption
<1>3. CASE c.kind = "RegisterSchema"
  <2>1. c \in Change /\ Warranted(c, Source, target)
    BY <1>1 DEF Try, CustodyInvariant, TypeOK, PlanIsWarranted
  <2>2. /\ c.topic \in Declared(Source) /\ c.subject \in Subjects /\ c.body \in Bodies
        /\ Source.topics[c.topic].schema = [subject |-> c.subject, body |-> c.body]
    BY <1>2, <1>3, <2>1, RevisionFacts DEF Warranted, Declared, Change
  <2>3. Source.topics[c.topic].schema # None
    BY <2>2, ProviderAssumption DEF Schema
  <2>4. c.subject \in SubjectsOf(Source)
    BY <2>2, <2>3 DEF SubjectsOf
  <2>5. cluster' = cluster /\ registry' = Registered(registry, c.subject, c.body)
    BY <1>1, <1>3 DEF TakesEffect, ClusterAfter, RegistryAfter
  <2>6. \A s \in Subjects \ {c.subject} : registry'[s] = registry[s]
    BY <1>2, <2>2, <2>5, VersionsStay
  <2> QED
    BY <1>2, <2>4, <2>5, <2>6
<1>4. CASE c.kind # "RegisterSchema"
  <2>1. registry' = registry
    BY <1>1, <1>4 DEF TakesEffect, RegistryAfter
  <2>2. PluginCustody!Act /\ cluster' # cluster
    BY <1>1, <2>1, TryActs DEF world
  <2>3. PICK t \in Topics : /\ cluster' = [cluster EXCEPT ![t] = cluster'[t]]
                            /\ PluginCustody!MayMoveTopic(Mandate, t, cluster[t], cluster'[t])
    BY <2>2 DEF PluginCustody!Act
  <2>4. t \in Source.ownership
    BY <2>3 DEF PluginCustody!MayMoveTopic, Mandate
  <2> QED
    BY <1>2, <2>1, <2>3, <2>4 DEF Clusters
<1> QED
  BY <1>3, <1>4

\* Somebody else takes a step that this application has no part in.
Elsewhere ==
    /\ cluster' \in Clusters /\ registry' \in Registries
    /\ \A r \in Revisions : LeavesAlone(r)
    /\ UNCHANGED <<piped, pc, verdict, run, quiet, budget>>

LEMMA ElsewhereKeepsCustody ==
    ASSUME CustodyInvariant, Elsewhere
    PROVE  CustodyInvariant'
<1> USE DEF Elsewhere, piped, run
<1>1. TypeOK'
  BY DEF CustodyInvariant, TypeOK
<1>2. InDeployment'
  BY DEF CustodyInvariant, InDeployment
<1>3. HasSource' /\ ChecksSchema'
  BY DEF CustodyInvariant, HasSource, ChecksSchema, Source, IsNextTopic
<1>4. PlanIsWarranted'
  BY DEF CustodyInvariant, PlanIsWarranted, StageDoes, Source
<1> QED
  BY <1>1, <1>2, <1>3, <1>4 DEF CustodyInvariant
=============================================================================
