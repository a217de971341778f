--------------------------- MODULE TenancyProofs ---------------------------
(***************************************************************************)
(* Proofs, for any topics, keys, revisions, targets, pipelines and bounds, *)
(* that two applications which share a cluster and a registry leave each   *)
(* other's stages and deployments intact.                                  *)
(*                                                                         *)
(* All that is proved of one deployment is proved of the neighbour's too:  *)
(* Theirs instances the proofs.  What is left is that a step of one is no  *)
(* disturbance to the other: it changes only what a revision of its own    *)
(* owns or names, and neither plans anything outside that.                 *)
(***************************************************************************)
EXTENDS Tenancy, PipelineProofs

OurInvariant == CustodyInvariant /\ StageInvariant /\ PipelineInvariant
TheirInvariant ==
    Theirs!CustodyInvariant /\ Theirs!StageInvariant /\ Theirs!PipelineInvariant

\* What either has custody of, has listed, planned, left to do and done is what
\* it takes it for, whatever the other does between its requests.
BothInvariants == OurInvariant /\ TheirInvariant

-----------------------------------------------------------------------------
(***************************************************************************)
(* The neighbour's proofs, about the same services in its own names.       *)
(***************************************************************************)
LEMMA TheirTerms ==
    /\ Theirs!Positive = Positive /\ Theirs!TopicState = TopicState
    /\ Theirs!Topic = Topic /\ Theirs!Schema = Schema
    /\ Theirs!Revision = Revision /\ Theirs!Target = Target
    /\ Theirs!Clusters = Clusters
    /\ Theirs!StageNames = StageNames /\ Theirs!StageOptions = StageOptions
BY DEF Theirs!Revision, Revision, Theirs!Topic, Topic, Theirs!Config, Config,
       Theirs!Positive, Positive, Theirs!Schema, Schema, Theirs!Target, Target,
       Theirs!TopicState, TopicState, Theirs!StageNames, StageNames,
       Theirs!StageOptions, StageOptions, Theirs!Clusters, Clusters

LEMMA TheirRegistries == Theirs!Registries = Registries
BY DEF Theirs!Registries, Registries, Theirs!Subject, Subject

LEMMA TheirSubjects == \A r : Theirs!SubjectsOf(r) = SubjectsOf(r)
BY DEF Theirs!SubjectsOf, SubjectsOf, Theirs!Declared, Declared

\* What their proofs assume of the constants.
LEMMA TheirAssumptions ==
    /\ Topics \subseteq Nat
    /\ SubjectLevel \in [Subjects -> Levels]
    /\ CompatibleAt \in [Levels -> SUBSET (Bodies \X Bodies)]
    /\ None \notin Values \union Bodies
    /\ None \notin Theirs!TopicState /\ None \notin Theirs!Topic /\ None \notin Theirs!Schema
    /\ {MaxPartitions, MaxReplicas, DefaultCount} \subseteq Theirs!Positive
    /\ TheirRevisions \subseteq Theirs!Revision
    /\ Targets \subseteq Theirs!Target
    /\ Pipelines \subseteq Seq(Theirs!StageNames \ {"KAFKA_ROLLBACK"}) \ {<<>>}
    /\ Options \subseteq Theirs!StageOptions
    /\ ForeignStates \subseteq Theirs!TopicState
    /\ {TheirDeployments, MaxOthers, TheirFaults, MaxRestarts} \subseteq Nat
    /\ None \notin Theirs!Revision /\ None \notin {"success", "failure"}
BY TheirTerms, ProviderAssumption, DeploymentAssumption, TenancyAssumption

-----------------------------------------------------------------------------
(***************************************************************************)
(* Neither application disturbs the other.                                 *)
(***************************************************************************)
\* A revision owns topics, and names subjects of the registry.
LEMMA OwnsAndNames ==
    ASSUME NEW r \in Revision
    PROVE  r.ownership \subseteq Topics /\ SubjectsOf(r) \subseteq Subjects
<1>1. ASSUME NEW t \in Declared(r), r.topics[t].schema # None
      PROVE  r.topics[t].schema.subject \in Subjects
  BY <1>1, RevisionFacts DEF Topic, Schema
<1> QED
  BY <1>1, RevisionFacts DEF SubjectsOf

\* What one changes is none of the other's.
LEMMA WhatIsApart ==
    ASSUME NEW r \in Revisions, NEW s \in TheirRevisions
    PROVE  /\ s.ownership \subseteq Topics \ r.ownership
           /\ r.ownership \subseteq Topics \ s.ownership
           /\ SubjectsOf(s) \subseteq Subjects \ SubjectsOf(r)
           /\ SubjectsOf(r) \subseteq Subjects \ SubjectsOf(s)
<1>1. /\ r.ownership \subseteq Topics /\ SubjectsOf(r) \subseteq Subjects
      /\ s.ownership \subseteq Topics /\ SubjectsOf(s) \subseteq Subjects
  BY OwnsAndNames, DeploymentAssumption, TenancyAssumption
<1>2. /\ r.ownership \intersect s.ownership = {}
      /\ SubjectsOf(r) \intersect SubjectsOf(s) = {}
  BY TenancyAssumption
<1> QED
  BY <1>1, <1>2

LEMMA OurStepIsElsewhere ==
    ASSUME CustodyInvariant, CustodyInvariant', OurStep, UNCHANGED theirs
    PROVE  Theirs!Elsewhere
<1>1. /\ cluster' \in Theirs!Clusters /\ registry' \in Theirs!Registries
  BY TheirTerms, TheirRegistries DEF CustodyInvariant, TypeOK
<1>2. ASSUME NEW s \in TheirRevisions
      PROVE  /\ \A t \in s.ownership : cluster'[t] = cluster[t]
             /\ \A u \in SubjectsOf(s) : registry'[u] = registry[u]
  <2>1. CASE UNCHANGED world
    BY <2>1 DEF world
  <2>2. CASE world' # world
    <3>1. PICK r \in Revisions :
             /\ \A t \in Topics \ r.ownership : cluster'[t] = cluster[t]
             /\ \A u \in Subjects \ SubjectsOf(r) : registry'[u] = registry[u]
      BY <2>2, ChangesOnlyItsOwn DEF OurStep
    <3> QED
      BY <3>1, WhatIsApart
  <2> QED
    BY <2>1, <2>2
<1>3. \A s \in TheirRevisions : Theirs!LeavesAlone(s)
  BY <1>2, TheirSubjects DEF Theirs!LeavesAlone
<1> QED
  BY <1>1, <1>3 DEF Theirs!Elsewhere, theirs, Theirs!piped, Theirs!run

LEMMA TheirStepIsElsewhere ==
    ASSUME Theirs!CustodyInvariant, Theirs!CustodyInvariant', TheirStep, UNCHANGED ours
    PROVE  Elsewhere
<1>1. /\ cluster' \in Clusters /\ registry' \in Registries
  BY TheirTerms, TheirRegistries DEF Theirs!CustodyInvariant, Theirs!TypeOK
<1>2. ASSUME NEW r \in Revisions
      PROVE  LeavesAlone(r)
  <2>1. CASE UNCHANGED <<cluster, registry>>
    BY <2>1 DEF LeavesAlone
  <2>2. CASE <<cluster, registry>>' # <<cluster, registry>>
    <3>1. Theirs!world' # Theirs!world
      BY <2>2 DEF Theirs!world
    <3>2. PICK s \in TheirRevisions :
             /\ \A t \in Topics \ s.ownership : cluster'[t] = cluster[t]
             /\ \A u \in Subjects \ Theirs!SubjectsOf(s) : registry'[u] = registry[u]
      BY <3>1, TheirAssumptions, Theirs!ChangesOnlyItsOwn DEF TheirStep
    <3> QED
      BY <3>2, WhatIsApart, TheirSubjects DEF LeavesAlone
  <2> QED
    BY <2>1, <2>2
<1> QED
  BY <1>1, <1>2 DEF Elsewhere, ours

-----------------------------------------------------------------------------
(***************************************************************************)
(* What is proved of each deployment alone holds of both together.         *)
(***************************************************************************)
LEMMA OurInvariantStays ==
    ASSUME OurInvariant, [Next]_vars
    PROVE  OurInvariant'
BY NextInvariant, NextStageInvariant, NextPipelineInvariant DEF OurInvariant

LEMMA TheirInvariantStays ==
    ASSUME TheirInvariant, [Theirs!Next]_Theirs!vars
    PROVE  TheirInvariant'
<1>1. Theirs!CustodyInvariant'
  BY TheirAssumptions, Theirs!NextInvariant DEF TheirInvariant
<1>2. Theirs!StageInvariant'
  BY TheirAssumptions, Theirs!NextStageInvariant DEF TheirInvariant
<1>3. Theirs!PipelineInvariant'
  BY TheirAssumptions, Theirs!NextPipelineInvariant DEF TheirInvariant
<1> QED
  BY <1>1, <1>2, <1>3 DEF TheirInvariant

LEMMA BothStartWell ==
    ASSUME TInit
    PROVE  OurInvariant /\ TheirInvariant
<1>1. OurInvariant
  BY InitInvariant, InitStageInvariant, InitPipelineInvariant DEF TInit, OurInvariant
<1>2. Theirs!CustodyInvariant
  BY TheirAssumptions, Theirs!InitInvariant DEF TInit
<1>3. Theirs!StageInvariant
  BY TheirAssumptions, Theirs!InitStageInvariant DEF TInit
<1>4. Theirs!PipelineInvariant
  BY TheirAssumptions, Theirs!InitPipelineInvariant DEF TInit
<1> QED
  BY <1>1, <1>2, <1>3, <1>4 DEF TheirInvariant

LEMMA BothStayWell ==
    ASSUME OurInvariant, TheirInvariant, [CrowdedNext]_<<world, ours, theirs>>
    PROVE  OurInvariant' /\ TheirInvariant'
<1>1. CASE OurStep /\ UNCHANGED theirs
  <2>1. OurInvariant'
    BY <1>1, OurInvariantStays DEF OurStep, Next
  <2>2. Theirs!Elsewhere
    BY <1>1, <2>1, OurStepIsElsewhere DEF OurInvariant
  <2>3. Theirs!CustodyInvariant'
    BY <2>2, TheirAssumptions, Theirs!ElsewhereKeepsCustody DEF TheirInvariant
  <2>4. Theirs!StageInvariant'
    BY <2>2, TheirAssumptions, Theirs!ElsewhereKeepsStage DEF TheirInvariant
  <2>5. Theirs!PipelineInvariant'
    BY <2>2, TheirAssumptions, Theirs!ElsewhereKeepsPipeline DEF TheirInvariant
  <2> QED
    BY <2>1, <2>3, <2>4, <2>5 DEF TheirInvariant
<1>2. CASE TheirStep /\ UNCHANGED ours
  <2>1. TheirInvariant'
    BY <1>2, TheirInvariantStays DEF TheirStep, Theirs!Next
  <2>2. Elsewhere
    BY <1>2, <2>1, TheirStepIsElsewhere DEF TheirInvariant
  <2>3. OurInvariant'
    BY <2>2, ElsewhereKeepsCustody, ElsewhereKeepsStage, ElsewhereKeepsPipeline DEF OurInvariant
  <2> QED
    BY <2>1, <2>3
<1>3. CASE Others /\ Theirs!Others
  BY <1>3, OurInvariantStays, TheirInvariantStays DEF Next, Theirs!Next
<1>4. CASE UNCHANGED <<world, ours, theirs>>
  <2>1. UNCHANGED vars
    BY <1>4 DEF vars, world, ours
  <2>2. UNCHANGED Theirs!vars
    BY <1>4 DEF world, theirs, Theirs!vars, Theirs!world, Theirs!piped, Theirs!run
  <2> QED
    BY <2>1, <2>2, OurInvariantStays, TheirInvariantStays
<1> QED
  BY <1>1, <1>2, <1>3, <1>4 DEF CrowdedNext, TNext

\* Whatever fails, wherever either piped restarts and whatever third parties do,
\* each of two applications that share the services keeps what it has found and
\* done while the other is at work.
THEOREM BothInvariantsHold == CrowdedSpec => []BothInvariants
<1>1. TInit => OurInvariant /\ TheirInvariant
  BY BothStartWell
<1>2. OurInvariant /\ TheirInvariant /\ [CrowdedNext]_<<world, ours, theirs>>
         => OurInvariant' /\ TheirInvariant'
  BY BothStayWell
<1> QED
  BY <1>1, <1>2, PTL DEF CrowdedSpec, BothInvariants

-----------------------------------------------------------------------------
(***************************************************************************)
(* What that means for the two of them.                                    *)
(***************************************************************************)
\* A stage's success means what it says, though the other application has made
\* changes of its own since the listing.
THEOREM EachApplicationConverges == CrowdedSpec => []EachConverges
<1>1. ASSUME OurInvariant, TheirInvariant
      PROVE  EachConverges
  <2>1. ApplySuccessMeansConverged /\ RollbackSuccessMeansRestored
    BY <1>1, ApplySuccessIsTrue, RollbackSuccessIsTrue DEF OurInvariant
  <2>2. Theirs!ApplySuccessMeansConverged
    BY <1>1, TheirAssumptions, Theirs!ApplySuccessIsTrue DEF TheirInvariant
  <2>3. Theirs!RollbackSuccessMeansRestored
    BY <1>1, TheirAssumptions, Theirs!RollbackSuccessIsTrue DEF TheirInvariant
  <2> QED
    BY <2>1, <2>2, <2>3 DEF EachConverges
<1>2. OurInvariant /\ TheirInvariant => EachConverges
  BY <1>1
<1> QED
  BY <1>2, BothInvariantsHold, PTL DEF BothInvariants

\* A deployment that succeeded undisturbed by third parties stays as declared
\* while the other application deploys or rolls back.
THEOREM SuccessfulDeploymentsStand == CrowdedSpec => []DeploymentsStand
<1>1. OurInvariant /\ TheirInvariant => DeploymentsStand
  BY DEF OurInvariant, TheirInvariant, PipelineInvariant, Theirs!PipelineInvariant,
         DeploymentsStand
<1> QED
  BY <1>1, BothInvariantsHold, PTL DEF BothInvariants

\* What a plan has left to do stays acceptable to the cluster, and just what
\* planning anew would find, whatever the other application does.
THEOREM PlansDoNotGoStale == CrowdedSpec => []NoPlanGoesStale
<1>1. ASSUME OurInvariant, TheirInvariant
      PROVE  NoPlanGoesStale
  <2>1. PlannedChangesAreAcceptable /\ ApplyCanBeResumed
    BY <1>1, WorkIsAcceptable, WorkCanBeResumed DEF OurInvariant
  <2>2. Theirs!PlannedChangesAreAcceptable
    BY <1>1, TheirAssumptions, Theirs!WorkIsAcceptable DEF TheirInvariant
  <2>3. Theirs!ApplyCanBeResumed
    BY <1>1, TheirAssumptions, Theirs!WorkCanBeResumed DEF TheirInvariant
  <2> QED
    BY <2>1, <2>2, <2>3 DEF NoPlanGoesStale
<1>2. OurInvariant /\ TheirInvariant => NoPlanGoesStale
  BY <1>1
<1> QED
  BY <1>2, BothInvariantsHold, PTL DEF BothInvariants

-----------------------------------------------------------------------------
(***************************************************************************)
(* What can fail a stage.                                                  *)
(***************************************************************************)
BudgetIsLeft == budget.faults <= MaxFaults

AtWork == pc = "execute" /\ quiet.run /\ stage # "KAFKA_ROLLBACK"

\* Schemas that are left to register are still needed.
RegistrationsAreNeeded ==
    AtWork /\ DistinctSubjects(revision)
        => SchemaChanges(todo) \subseteq SchemaNeeds(revision, registry, target)

\* Until a request is lost, nothing a stage does has failed.
NothingFailed ==
    AtWork /\ Deployable(revision) /\ budget.faults = MaxFaults => failed = {}

\* What is gone between the two requests of a listing is the neighbour's.
GoneIsTheirs ==
    pc = "describe" /\ quiet.run =>
        \A t \in Topics : actual[t] # None /\ cluster[t] = None =>
            \E r \in TheirRevisions : t \in r.ownership

WorkInvariant == BudgetIsLeft /\ RegistrationsAreNeeded /\ NothingFailed /\ GoneIsTheirs

LEMMA WorksTowardsRevision ==
    ASSUME CustodyInvariant, pc # "idle", stage # "KAFKA_ROLLBACK"
    PROVE  Source = revision /\ revision \in Revision
BY DEF Source, CustodyInvariant, InDeployment

\* Whatever a stage has left is accepted.
LEMMA TodoIsAccepted ==
    ASSUME CustodyInvariant, StageInvariant, RegistrationsAreNeeded, AtWork,
           Deployable(revision), NEW c \in todo
    PROVE  Accepted(cluster, registry, c)
<1>1. Source = revision /\ revision \in Revision /\ registry \in Registries
  BY WorksTowardsRevision DEF AtWork, CustodyInvariant, TypeOK
<1>2. CASE c.kind = "RegisterSchema"
  <2>1. c \in SchemaNeeds(revision, registry, target)
    BY <1>2 DEF Deployable, RegistrationsAreNeeded, SchemaChanges
  <2> QED
    BY <1>1, <2>1, RegistrationAccepted
<1>3. CASE c.kind # "RegisterSchema"
  <2>1. Faithful /\ c \in TopicChanges(todo)
    BY <1>1, <1>3, DeploymentAssumption DEF Faithful, Deployable, TopicChanges
  <2> QED
    BY <2>1, WorkIsAcceptable DEF AtWork, PlannedChangesAreAcceptable
<1> QED
  BY <1>2, <1>3

\* A fault is paid for.
LEMMA FaultsAreSpent ==
    ASSUME CustodyInvariant, [Next]_vars
    PROVE  /\ budget'.faults \in Nat /\ budget.faults \in Nat
           /\ budget'.faults <= budget.faults
           /\ Faults => budget'.faults < budget.faults
<1>1. /\ Piped => UNCHANGED budget \/ Spend("deployments")
      /\ Restart => Spend("restarts")
      /\ Others => Spend("others")
      /\ Faults => Spend("faults")
      /\ Plugin => UNCHANGED budget
      /\ UNCHANGED vars => UNCHANGED budget
  <2>1. Piped => UNCHANGED budget \/ Spend("deployments")
    BY DEF Piped, StartDeployment, NextStage, Complete, StartRollback, GiveUp
  <2>2. (Restart => Spend("restarts")) /\ (Others => Spend("others"))
    BY DEF Restart, Others
  <2>3. Faults => Spend("faults")
    BY DEF Faults, ReadFails, CutOff, RequestLost, AnswerLost
  <2>4. Plugin => UNCHANGED budget
    BY DEF Plugin, Begin, List, Describe, Decide, Finish, PlanNextTopic, CheckNextSchema,
           Perform, Refused
  <2>5. UNCHANGED vars => UNCHANGED budget
    BY DEF vars
  <2> QED
    BY <2>1, <2>2, <2>3, <2>4, <2>5
<1>2. budget \in [deployments: Nat, others: Nat, faults: Nat, restarts: Nat]
  BY DEF CustodyInvariant, TypeOK
<1>3. /\ Spend("deployments") => budget'.faults = budget.faults
      /\ Spend("others") => budget'.faults = budget.faults
      /\ Spend("restarts") => budget'.faults = budget.faults
      /\ Spend("faults") => budget'.faults = budget.faults - 1 /\ budget.faults > 0
  BY <1>2 DEF Spend
<1>4. \/ UNCHANGED budget
      \/ Spend("deployments") \/ Spend("others") \/ Spend("restarts") \/ Spend("faults")
  BY <1>1 DEF Next
<1>5. budget.faults \in Nat /\ budget'.faults \in Nat
  BY <1>2, <1>3, <1>4
<1> QED
  BY <1>1, <1>3, <1>4, <1>5

\* How a stage comes to be at work, or goes on with it.
LEMMA ComesToWork ==
    ASSUME CustodyInvariant, [Next]_vars, AtWork'
    PROVE  \/ Decide
           \/ /\ AtWork /\ UNCHANGED <<target, revision>>
              /\ \/ CutOff
                 \/ \E c \in todo : Perform(c) \/ Refused(c) \/ RequestLost(c) \/ AnswerLost(c)
                 \/ UNCHANGED <<world, todo, failed, budget>>
<1>1. CASE Piped
  BY <1>1 DEF Piped, StartDeployment, NextStage, Complete, StartRollback, GiveUp, AtWork
<1>2. CASE Restart \/ Others
  BY <1>2 DEF Restart, Others, AtWork
<1>3. CASE \/ Begin \/ List \/ Describe \/ Finish \/ ReadFails
           \/ \E t \in Topics : PlanNextTopic(t) \/ CheckNextSchema(t)
  BY <1>3 DEF Begin, List, Describe, Finish, ReadFails, PlanNextTopic, CheckNextSchema, Return,
              AtWork
<1>4. CASE CutOff
  BY <1>4 DEF CutOff, AtWork, piped
<1>5. CASE \E c \in todo : Perform(c) \/ Refused(c) \/ RequestLost(c) \/ AnswerLost(c)
  BY <1>5 DEF Perform, Refused, RequestLost, AnswerLost, Try, AtWork, piped
<1>6. CASE UNCHANGED vars
  BY <1>6 DEF vars, piped, run, AtWork
<1> QED
  BY <1>1, <1>2, <1>3, <1>4, <1>5, <1>6 DEF Next, Plugin, Faults

LEMMA RegistrationsStayNeeded ==
    ASSUME CustodyInvariant, StageInvariant, RegistrationsAreNeeded, [Next]_vars
    PROVE  RegistrationsAreNeeded'
<1> SUFFICES ASSUME AtWork', DistinctSubjects(revision')
             PROVE  SchemaChanges(todo') \subseteq SchemaNeeds(revision', registry', target')
  BY DEF RegistrationsAreNeeded
<1>1. CASE Decide
  <2>1. /\ UNCHANGED <<registry, target, revision, stage>> /\ Undisturbed /\ pc # "idle"
        /\ todo' = Work(FinishedPlan)
    BY <1>1 DEF Decide, world, piped, AtWork, Undisturbed
  <2>2. /\ Source = revision /\ stage \in StageNames
        /\ SchemaChanges(FinishedPlan.changes) = SchemaNeeds(revision, registry, target)
    BY <1>1, <2>1, WorksTowardsRevision, FinishedPlanIsBuild
    DEF AtWork, CustodyInvariant, InDeployment
  <2>3. todo' \subseteq FinishedPlan.changes
    BY <2>1, <2>2 DEF Work, Restorable, SchemaChanges, TopicChanges, StageNames
  <2> QED
    BY <2>1, <2>2, <2>3 DEF SchemaChanges
<1>2. CASE AtWork /\ UNCHANGED <<target, revision, registry>> /\ todo' \subseteq todo
  BY <1>2 DEF RegistrationsAreNeeded, SchemaChanges
<1>3. ASSUME NEW c \in todo, Try(c), TakesEffect(c), AtWork, UNCHANGED <<target, revision>>
      PROVE  SchemaChanges(todo') \subseteq SchemaNeeds(revision, registry', target)
  <2>1. /\ Source = revision /\ revision \in Revision /\ registry \in Registries
        /\ c \in Change /\ Warranted(c, revision, target)
        /\ todo' = todo \ {c} /\ registry' = RegistryAfter(registry, c)
    BY <1>3, WorksTowardsRevision
    DEF AtWork, CustodyInvariant, TypeOK, PlanIsWarranted, Try, TakesEffect
  <2>2. SchemaChanges(todo) \subseteq SchemaNeeds(revision, registry, target)
    BY <1>3 DEF RegistrationsAreNeeded
  <2>3. CASE c.kind # "RegisterSchema"
    BY <2>1, <2>2, <2>3 DEF RegistryAfter, SchemaChanges
  <2>4. CASE c.kind = "RegisterSchema"
    <3>1. /\ c.topic \in Declared(revision)
          /\ revision.topics[c.topic].schema = [subject |-> c.subject, body |-> c.body]
      BY <2>1, <2>4, RevisionFacts DEF Warranted, Declared
    <3>2. \A d \in SchemaNeeds(revision, registry, target) :
             d.topic # c.topic => d \in SchemaNeeds(revision, registry', target)
      BY <1>3, <2>1, <2>4, <3>1, OtherSchemasStay
    <3>3. c \in SchemaNeeds(revision, registry, target)
      BY <2>2, <2>4 DEF SchemaChanges
    <3>4. \A d \in SchemaNeeds(revision, registry, target) : d.topic = c.topic => d = c
      BY <3>3, SchemaNeedsAre DEF Registration, RegisterSchema
    <3> QED
      BY <2>1, <2>2, <3>2, <3>4 DEF SchemaChanges
  <2> QED
    BY <2>3, <2>4
<1>4. CASE AtWork /\ UNCHANGED <<target, revision>>
           /\ \E c \in todo : Perform(c) \/ Refused(c) \/ RequestLost(c) \/ AnswerLost(c)
  <2>1. PICK c \in todo : Perform(c) \/ Refused(c) \/ RequestLost(c) \/ AnswerLost(c)
    BY <1>4
  <2>2. CASE Perform(c) \/ AnswerLost(c)
    BY <1>3, <1>4, <2>2 DEF Perform, AnswerLost
  <2>3. CASE Refused(c) \/ RequestLost(c)
    BY <1>2, <1>4, <2>3 DEF Refused, RequestLost, Try, world
  <2> QED
    BY <2>1, <2>2, <2>3
<1> QED
  BY <1>1, <1>2, <1>4, ComesToWork DEF CutOff, world

LEMMA NothingFails ==
    ASSUME CustodyInvariant, StageInvariant, BudgetIsLeft, RegistrationsAreNeeded, NothingFailed,
           [Next]_vars
    PROVE  NothingFailed'
<1> SUFFICES ASSUME AtWork', Deployable(revision)', budget'.faults = MaxFaults
             PROVE  failed' = {}
  BY DEF NothingFailed
<1>1. ~Faults /\ budget.faults = MaxFaults
  BY FaultsAreSpent, DeploymentAssumption DEF BudgetIsLeft
<1>2. CASE Decide
  BY <1>2 DEF Decide, StageInvariant, StartsAfresh, Planning
<1>3. CASE AtWork /\ UNCHANGED <<target, revision>>
  <2>1. Deployable(revision) /\ failed = {}
    BY <1>1, <1>3 DEF Deployable, NothingFailed
  <2>2. ASSUME NEW c \in todo, Refused(c)
        PROVE  FALSE
    BY <1>3, <2>1, <2>2, TodoIsAccepted DEF Refused
  <2>3. ASSUME NEW c \in todo, Perform(c)
        PROVE  failed' = {}
    BY <2>1, <2>3 DEF Perform
  <2> QED
    BY <1>1, <2>1, <2>2, <2>3, ComesToWork DEF Faults, Decide, AtWork
<1> QED
  BY <1>2, <1>3, ComesToWork

LEMMA OurStepKeepsWork ==
    ASSUME CustodyInvariant, StageInvariant, WorkInvariant, [Next]_vars
    PROVE  WorkInvariant'
<1>1. BudgetIsLeft'
  BY FaultsAreSpent, DeploymentAssumption DEF WorkInvariant, BudgetIsLeft
<1>2. RegistrationsAreNeeded' /\ NothingFailed'
  BY RegistrationsStayNeeded, NothingFails DEF WorkInvariant
<1>3. ASSUME pc' = "describe", quiet'.run
      PROVE  \/ \A t \in Topics : actual'[t] # None => cluster'[t] # None
             \/ /\ pc = "describe" /\ quiet.run /\ UNCHANGED <<world, actual>>
  <2>1. CASE Piped
    BY <1>3, <2>1 DEF Piped, StartDeployment, NextStage, Complete, StartRollback, GiveUp
  <2>2. CASE Restart \/ Others
    BY <1>3, <2>2 DEF Restart, Others
  <2>3. CASE List
    BY <2>3 DEF List, ListedTopics, world
  <2>4. CASE Begin \/ Describe \/ Decide \/ Finish \/ ReadFails \/ CutOff
    BY <1>3, <2>4 DEF Begin, Describe, Decide, Finish, ReadFails, CutOff, Return
  <2>5. CASE \E t \in Topics : PlanNextTopic(t) \/ CheckNextSchema(t)
    BY <1>3, <2>5 DEF PlanNextTopic, CheckNextSchema, Return
  <2>6. CASE \E c \in todo : Perform(c) \/ Refused(c) \/ RequestLost(c) \/ AnswerLost(c)
    BY <1>3, <2>6 DEF Perform, Refused, RequestLost, AnswerLost, AnswersError, Try, Return
  <2>7. CASE UNCHANGED vars
    BY <1>3, <2>7 DEF vars, run
  <2> QED
    BY <2>1, <2>2, <2>3, <2>4, <2>5, <2>6, <2>7 DEF Next, Plugin, Faults
<1>4. GoneIsTheirs'
  BY <1>3 DEF WorkInvariant, GoneIsTheirs, world
<1> QED
  BY <1>1, <1>2, <1>4 DEF WorkInvariant

LEMMA TheirStepKeepsWork ==
    ASSUME CustodyInvariant, Theirs!CustodyInvariant, WorkInvariant, Elsewhere, TheirStep
    PROVE  WorkInvariant'
<1>1. /\ UNCHANGED <<target, revision, stage, pc, quiet, budget, actual, todo, failed>>
  BY DEF Elsewhere, piped, run
<1>2. BudgetIsLeft' /\ NothingFailed'
  BY <1>1 DEF WorkInvariant, BudgetIsLeft, NothingFailed, AtWork, Deployable
<1>3. RegistrationsAreNeeded'
  <2>1. pc # "idle" => SchemaNeeds(revision, registry', target)
                         = SchemaNeeds(revision, registry, target)
    BY WorksTowardsOurs, ElsewhereLeaves
  <2> QED
    BY <1>1, <2>1 DEF WorkInvariant, RegistrationsAreNeeded, AtWork
<1>4. ASSUME NEW t \in Topics, cluster'[t] # cluster[t]
      PROVE  \E r \in TheirRevisions : t \in r.ownership
  <2>1. Theirs!world' # Theirs!world
    BY <1>4 DEF Theirs!world
  <2> QED
    BY <1>4, <2>1, TheirAssumptions, Theirs!ChangesOnlyItsOwn DEF TheirStep
<1>5. GoneIsTheirs'
  BY <1>1, <1>4 DEF WorkInvariant, GoneIsTheirs
<1> QED
  BY <1>2, <1>3, <1>5 DEF WorkInvariant

LEMMA WorkInvariantStays ==
    ASSUME OurInvariant, TheirInvariant, TheirInvariant', WorkInvariant,
           [CrowdedNext]_<<world, ours, theirs>>
    PROVE  WorkInvariant'
<1>1. CASE [Next]_vars
  BY <1>1, OurStepKeepsWork DEF OurInvariant
<1>2. CASE TheirStep /\ UNCHANGED ours
  <2>1. Elsewhere
    BY <1>2, TheirStepIsElsewhere DEF TheirInvariant
  <2> QED
    BY <1>2, <2>1, TheirStepKeepsWork DEF OurInvariant, TheirInvariant
<1>3. CASE UNCHANGED <<world, ours, theirs>>
  BY <1>1, <1>3 DEF vars, world, ours
<1> QED
  BY <1>1, <1>2, <1>3 DEF CrowdedNext, TNext, OurStep, Next

\* The one step that fails a stage.
LEMMA HowAStageFails ==
    ASSUME CustodyInvariant, StageInvariant, WorkInvariant, [Next]_vars,
           pc # "returned", pc' = "returned", verdict' = "failure", stage # "KAFKA_ROLLBACK",
           quiet.run, blocked' = {}, budget'.faults = MaxFaults, Deployable(revision)
    PROVE  pc = "describe" /\ \E t \in Topics : actual[t] # None /\ cluster[t] = None
<1>1. ~Faults /\ budget.faults = MaxFaults
  BY FaultsAreSpent, DeploymentAssumption DEF WorkInvariant, BudgetIsLeft
<1>2. ~Piped /\ ~Restart /\ ~Others /\ ~UNCHANGED vars
  BY DEF Piped, StartDeployment, NextStage, Complete, StartRollback, GiveUp, Restart, Others, vars
<1>3. ~Begin /\ ~List
  BY DEF Begin, List, StageInvariant, StartsAfresh
<1>4. ASSUME NEW t \in Topics, PlanNextTopic(t) \/ CheckNextSchema(t)
      PROVE  FALSE
  <2>1. /\ t \in Declared(Source) /\ HasSchemaToPlan(t, Source.topics[t], target)
        /\ ~target.schemaRegistry /\ pc # "idle"
    BY <1>4 DEF PlanNextTopic, CheckNextSchema, Return, CustodyInvariant, HasSource, Planning,
                IsNextTopic
  <2> QED
    BY <2>1, WorksTowardsRevision DEF Deployable, BuildFails
<1>5. CASE Decide
  <2>1. blocked' = FinishedPlan.blocked /\ verdict' = Verdict(FinishedPlan) /\ pc # "idle"
    BY <1>5 DEF Decide, Return
  <2>2. Verdict(FinishedPlan) # "failure"
    BY <2>1 DEF Verdict, PlanVerdict, HasBlocked, CustodyInvariant, InDeployment, StageNames
  <2> QED
    BY <2>1, <2>2
<1>6. CASE Finish
  <2>1. /\ failed = {} /\ blocked = {} /\ stage \in {"KAFKA_REGISTER_SCHEMA", "KAFKA_APPLY"}
    BY <1>1, <1>6 DEF Finish, run, WorkInvariant, NothingFailed, AtWork, StageInvariant,
                      StartsAfresh, CustodyInvariant, InDeployment, StageNames
  <2> QED
    BY <1>6, <2>1 DEF Finish, Return, Verdict, HasBlocked
<1>7. ASSUME NEW c \in todo, Perform(c) \/ Refused(c)
      PROVE  FALSE
  <2>1. AtWork /\ Refused(c)
    BY <1>7 DEF Perform, Refused, Try, AtWork
  <2> QED
    BY <2>1, TodoIsAccepted DEF Refused, WorkInvariant
<1>8. CASE Describe
  BY <1>8 DEF Describe, DescribeAccepted
<1> QED
  BY <1>1, <1>2, <1>3, <1>4, <1>5, <1>6, <1>7, <1>8 DEF Next, Plugin

\* Without a lost request, and unless its own plan is blocked or its revision
\* asks for what cannot be, only one thing fails a stage that has listed the
\* topics: the neighbour's deletion between the two requests of ListTopics.
THEOREM OnlyTheListingCanFail == CrowdedSpec => OnlyAListingCanFail
<1>1. ASSUME TInit
      PROVE  WorkInvariant
  BY <1>1, DeploymentAssumption
  DEF TInit, Init, WorkInvariant, BudgetIsLeft, RegistrationsAreNeeded, NothingFailed,
      GoneIsTheirs, AtWork
<1>2. TInit => WorkInvariant
  BY <1>1
<1>3. OurInvariant /\ TheirInvariant /\ TheirInvariant' /\ WorkInvariant
         /\ [CrowdedNext]_<<world, ours, theirs>> => WorkInvariant'
  BY WorkInvariantStays
<1> DEFINE Fails ==
       /\ pc # "returned" /\ pc' = "returned" /\ verdict' = "failure"
       /\ stage # "KAFKA_ROLLBACK" /\ quiet.run /\ blocked' = {} /\ budget'.faults = MaxFaults
       /\ Deployable(revision)
<1>4. ASSUME OurInvariant, WorkInvariant, CrowdedNext, Fails
      PROVE  /\ pc = "describe"
             /\ \E t \in Topics, r \in TheirRevisions :
                   /\ t \in r.ownership
                   /\ actual[t] # None /\ cluster[t] = None
  <2>1. CASE [Next]_vars
    BY <1>4, <2>1, HowAStageFails DEF OurInvariant, WorkInvariant, GoneIsTheirs
  <2>2. CASE TheirStep /\ UNCHANGED ours
    BY <1>4, <2>2 DEF ours
  <2> QED
    BY <1>4, <2>1, <2>2 DEF CrowdedNext, TNext, OurStep, Next
<1>5. OurInvariant /\ WorkInvariant /\ CrowdedNext =>
         (Fails => /\ pc = "describe"
                   /\ \E t \in Topics, r \in TheirRevisions :
                         /\ t \in r.ownership
                         /\ actual[t] # None /\ cluster[t] = None)
  BY <1>4
<1> QED
  BY <1>2, <1>3, <1>5, BothInvariantsHold, PTL
  DEF CrowdedSpec, BothInvariants, OnlyAListingCanFail

\* All of this holds of two applications with nobody else about.
THEOREM WithoutThirdParties ==
    TSpec => /\ []EachConverges /\ []DeploymentsStand /\ []NoPlanGoesStale
             /\ OnlyAListingCanFail
<1>1. TNext => CrowdedNext
  BY DEF CrowdedNext
<1>2. TSpec => CrowdedSpec
  BY <1>1, PTL DEF TSpec, CrowdedSpec
<1> QED
  BY <1>2, EachApplicationConverges, SuccessfulDeploymentsStand, PlansDoNotGoStale,
     OnlyTheListingCanFail
=============================================================================
