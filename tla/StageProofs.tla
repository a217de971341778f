----------------------------- MODULE StageProofs -----------------------------
(***************************************************************************)
(* Proofs, for any topics, keys, revisions, targets, pipelines and bounds, *)
(* that the success of a stage means what it says, and that a stage can be *)
(* taken up again where it was left, as long as nobody else changes        *)
(* anything meanwhile.  Faults and restarts are not kept out.              *)
(*                                                                         *)
(* While a stage plans, it holds just what Build would have planned by     *)
(* then, from the two services as they are; while it acts, what a fresh    *)
(* plan would hold is in its plan, and is yet to do or has failed.         *)
(***************************************************************************)
EXTENDS DeploymentProofs

\* Since the stage listed the cluster, or since the deployment began, nobody
\* else changed the services, and the deploy target stayed the same.
Undisturbed == quiet.run \/ quiet.deployment

Planned(D) == PlannedFor(Source, cluster, target, registry, D)

\* What the topics of the source still need, and are refused.
Needs    == TopicNeeds(Source, cluster, target)
Refusals == TopicRefusals(Source, cluster, target)

\* A stage starts with nothing planned or refused and with no listing to rely
\* on, has failed at nothing before it acts, and does not act when all it does
\* is plan.
StartsAfresh ==
    /\ pc \in {"begin", "list"} \union Planning => failed = {}
    /\ pc \in {"begin", "list", "describe"} => changes = {} /\ blocked = {}
    /\ pc \in {"begin", "list"} => ~quiet.run
    /\ pc = "describe" => unplanned = Declared(Source)
    /\ pc = "execute" => stage # "KAFKA_PLAN"

\* Build only comes past a schema to plan when there is a registry.
HasRegistry ==
    /\ pc \in {"plan", "check"} =>
          \A t \in Declared(Source) \ unplanned :
              HasSchemaToPlan(t, Source.topics[t], target) => target.schemaRegistry
    /\ pc = "execute" => ~BuildFails(Source, target)

\* What the stage was told of the topics it may touch; the others may belong to
\* somebody who is at work too.
ListingIsTrue ==
    /\ pc = "describe" => \A t \in Source.ownership : actual[t] = ListedTopics(cluster)[t]
    /\ pc \in {"plan", "check"} => \A t \in Source.ownership : actual[t] = cluster[t]

\* The plan so far is the one Build has come to, which at "check" is half
\* way through the topic in hand.
PlanIsTrue ==
    /\ pc = "plan" =>
          /\ changes = Planned(Declared(Source) \ unplanned).changes
          /\ blocked = Planned(Declared(Source) \ unplanned).blocked
    /\ pc = "check" => \A t \in unplanned : IsNextTopic(t) =>
          /\ Lacks(Source, registry, target, t)
          /\ latest = LatestSchema(registry, Source.topics[t].schema.subject)
          /\ changes = Planned(Declared(Source) \ unplanned).changes
                       \union NeedsOf(Source, target, t, cluster[t])
          /\ blocked = Planned(Declared(Source) \ unplanned).blocked
                       \union RefusalsOf(Source, target, t, cluster[t])

\* What is left to do is needed; what is needed was planned, and is left to do
\* or has failed if the stage does such changes; and what is refused is known.
WorkIsNeeded ==
    pc = "execute" /\ CountsFit(Source) =>
        /\ TopicChanges(todo) \subseteq Needs
        /\ Needs \subseteq changes
        /\ \A c \in Needs : StageDoes(c) => c \in todo \union failed
        /\ Refusals \subseteq blocked

Knows(topic) == topic.schema.body \in Versions(registry, topic.schema.subject)

\* The registry knows every body there was to plan, or is yet to be told.
RegistrationIsLeft ==
    pc = "execute" /\ stage = "KAFKA_REGISTER_SCHEMA" =>
        \A t \in Declared(Source) :
            HasSchemaToPlan(t, Source.topics[t], target) =>
                \/ Knows(Source.topics[t])
                \/ \E c \in todo \union failed :
                      /\ c.kind = "RegisterSchema"
                      /\ c.subject = Source.topics[t].schema.subject
                      /\ c.body = Source.topics[t].schema.body

AllRegistered(r) ==
    \A t \in Declared(r) : HasSchemaToPlan(t, r.topics[t], target) => Knows(r.topics[t])

\* What the success of each stage means.
SuccessIsTrue ==
    pc = "returned" =>
        /\ verdict = "exited" =>
              stage = "KAFKA_PLAN" /\ InSync(revision, cluster, target, registry)
        /\ verdict = "success" =>
              /\ stage = "KAFKA_PLAN" =>
                    Refusals = {} /\ SchemaRefusals(revision, registry, target) = {}
              /\ stage = "KAFKA_REGISTER_SCHEMA" /\ (target.schemaRegistry \/ quiet.run) =>
                    AllRegistered(revision)
              /\ stage = "KAFKA_APPLY" => ~BuildFails(revision, target)
              /\ stage \in {"KAFKA_APPLY", "KAFKA_ROLLBACK"} /\ Faithful =>
                    Needs = {} /\ Refusals = {}

StageInvariant ==
    /\ StartsAfresh /\ HasRegistry
    /\ Undisturbed => /\ ListingIsTrue /\ PlanIsTrue
                      /\ WorkIsNeeded /\ RegistrationIsLeft /\ SuccessIsTrue

-----------------------------------------------------------------------------
(***************************************************************************)
(* The steps before a stage plans, and after it returned.                  *)
(***************************************************************************)
\* Between stages, and before the listing, there is little to keep.
LEMMA NothingAtWork ==
    ASSUME pc' \in {"idle", "begin", "list"},
           pc' # "idle" => failed' = {} /\ changes' = {} /\ blocked' = {} /\ ~quiet'.run
    PROVE  StageInvariant'
BY DEF StageInvariant, StartsAfresh, HasRegistry, ListingIsTrue, PlanIsTrue, WorkIsNeeded,
       RegistrationIsLeft, SuccessIsTrue, Planning

\* Nor is there when a stage has failed.
LEMMA NothingInFailure ==
    ASSUME pc' = "returned", verdict' = "failure"
    PROVE  StageInvariant'
BY DEF StageInvariant, StartsAfresh, HasRegistry, ListingIsTrue, PlanIsTrue, WorkIsNeeded,
       RegistrationIsLeft, SuccessIsTrue, Planning

LEMMA PipedKeeps ==
    ASSUME CustodyInvariant, Piped
    PROVE  StageInvariant'
<1>1. /\ pc' \in {"idle", "begin"}
      /\ failed' = {} /\ changes' = {} /\ blocked' = {}
      /\ pc' = "idle" \/ ~quiet'.run
  BY DEF Piped, StartDeployment, NextStage, Complete, StartRollback, GiveUp, ForgetRun,
         CustodyInvariant, TypeOK
<1> QED
  BY <1>1, NothingAtWork

LEMMA OthersKeep ==
    ASSUME StageInvariant, Others
    PROVE  StageInvariant'
<1>1. /\ ~Undisturbed'
      /\ UNCHANGED <<piped, pc, verdict, run>>
  BY DEF Others, Undisturbed
<1>2. Source' = Source /\ target' = target /\ stage' = stage
  BY <1>1 DEF Source, piped
<1>3. StartsAfresh'
  BY <1>1, <1>2 DEF StageInvariant, StartsAfresh, run, Undisturbed
<1>4. HasRegistry'
  BY <1>1, <1>2 DEF StageInvariant, HasRegistry, run
<1> QED
  BY <1>1, <1>3, <1>4 DEF StageInvariant

\* What a stage that returned has achieved stays as it is for as long as the
\* services and the deploy target do.
LEMMA ReturnedStays ==
    ASSUME StageInvariant, pc = "returned",
           UNCHANGED <<world, running, revision, stage, pc, verdict>>,
           Undisturbed' => Undisturbed /\ target' = target, quiet'.run => quiet.run
    PROVE  StageInvariant'
<1>1. Source' = Source
  BY DEF Source
<1>2. Undisturbed' => SuccessIsTrue'
  BY <1>1 DEF StageInvariant, SuccessIsTrue, Faithful, Needs, Refusals, AllRegistered, Knows, world
<1> QED
  BY <1>2 DEF StageInvariant, StartsAfresh, HasRegistry, ListingIsTrue, PlanIsTrue, WorkIsNeeded,
              RegistrationIsLeft, Planning

LEMMA RestartKeeps ==
    ASSUME CustodyInvariant, StageInvariant, Restart
    PROVE  StageInvariant'
<1>1. CASE pc = "idle" /\ UNCHANGED pc
  BY <1>1, NothingAtWork
<1>2. CASE pc = "returned" /\ UNCHANGED <<pc, verdict, run>>
  <2>1. (Undisturbed' => Undisturbed /\ target' = target) /\ ~quiet'.run
    BY DEF Restart, Undisturbed
  <2> QED
    BY <1>2, <2>1, ReturnedStays DEF Restart
<1>3. CASE pc' = "begin" /\ ForgetRun
  BY <1>3, NothingAtWork DEF ForgetRun, Restart
<1> QED
  BY <1>1, <1>2, <1>3 DEF Restart

LEMMA BeginKeeps ==
    ASSUME CustodyInvariant, StageInvariant, Begin
    PROVE  StageInvariant'
<1>1. CASE NothingToRestore /\ Return("success")
  <2>1. pc' = "returned" /\ Source' = None /\ stage' = "KAFKA_ROLLBACK"
        /\ verdict' = "success"
    BY <1>1 DEF Begin, NothingToRestore, Return, Source, piped
  <2> QED
    BY <2>1 DEF StageInvariant, StartsAfresh, HasRegistry, ListingIsTrue, PlanIsTrue,
                WorkIsNeeded, RegistrationIsLeft, SuccessIsTrue, Faithful, Planning
<1>2. CASE NothingToRegister /\ Return("success")
  <2>1. pc' = "returned" /\ stage' = "KAFKA_REGISTER_SCHEMA" /\ ~target'.schemaRegistry
        /\ verdict' = "success" /\ ~quiet'.run
    BY <1>2 DEF Begin, NothingToRegister, Return, piped, StageInvariant, StartsAfresh
  <2> QED
    BY <2>1 DEF StageInvariant, StartsAfresh, HasRegistry, ListingIsTrue, PlanIsTrue,
                WorkIsNeeded, RegistrationIsLeft, SuccessIsTrue, Planning
<1>3. CASE Return("failure")
  BY <1>3, NothingInFailure DEF Return
<1>4. CASE pc' = "list"
  <2>1. failed' = {} /\ changes' = {} /\ blocked' = {} /\ ~quiet'.run
    BY DEF Begin, StageInvariant, StartsAfresh, run
  <2> QED
    BY <1>4, <2>1, NothingAtWork
<1> QED
  BY <1>1, <1>2, <1>3, <1>4 DEF Begin

-----------------------------------------------------------------------------
(***************************************************************************)
(* Planning: what Build has come to.                                       *)
(***************************************************************************)
LEMMA ListKeeps ==
    ASSUME CustodyInvariant, StageInvariant, List
    PROVE  StageInvariant'
<1>1. /\ cluster \in Clusters /\ Declared(Source) \ unplanned' = {}
      /\ Source' = Source /\ unplanned' = Declared(Source)
      /\ actual' = ListedTopics(cluster) /\ cluster' = cluster
      /\ failed' = {} /\ changes' = {} /\ blocked' = {}
  BY DEF List, CustodyInvariant, TypeOK, StageInvariant, StartsAfresh, Source, piped, world
<1>2. CASE pc' = "describe"
  BY <1>1, <1>2 DEF StageInvariant, StartsAfresh, HasRegistry, ListingIsTrue, PlanIsTrue,
                    WorkIsNeeded, RegistrationIsLeft, SuccessIsTrue
<1>3. CASE pc' = "plan" /\ cluster = NoTopics
  <2>1. actual' = cluster'
    BY <1>1, <1>3, ListingIsTheCluster
  <2>2. /\ Planned(Declared(Source) \ unplanned).changes' = {}
        /\ Planned(Declared(Source) \ unplanned).blocked' = {}
    BY <1>1, PlanStarts DEF Planned
  <2>3. StartsAfresh' /\ HasRegistry'
    BY <1>1, <1>3 DEF StartsAfresh, HasRegistry, Planning
  <2>4. ListingIsTrue' /\ PlanIsTrue'
    BY <1>1, <1>3, <2>1, <2>2 DEF ListingIsTrue, PlanIsTrue
  <2> QED
    BY <1>3, <2>3, <2>4 DEF StageInvariant, WorkIsNeeded, RegistrationIsLeft, SuccessIsTrue
<1> QED
  BY <1>2, <1>3 DEF List

LEMMA DescribeKeeps ==
    ASSUME CustodyInvariant, StageInvariant, Describe
    PROVE  StageInvariant'
<1>1. CASE Return("failure")
  BY <1>1, NothingInFailure DEF Return
<1>2. CASE pc' = "plan" /\ actual' = WithConfigs(cluster, actual)
  <2>1. /\ cluster \in Clusters /\ Declared(Source) \ unplanned = {}
        /\ Source' = Source /\ unplanned' = unplanned /\ cluster' = cluster
        /\ failed' = {} /\ changes' = {} /\ blocked' = {}
        /\ Undisturbed' = Undisturbed
    BY DEF Describe, CustodyInvariant, TypeOK, StageInvariant, StartsAfresh, Source, piped,
           world, Planning, Undisturbed
  <2>2. ASSUME Undisturbed, NEW t \in Source.ownership
        PROVE  actual'[t] = cluster'[t]
    <3>1. t \in Topics
      BY RevisionFacts DEF Describe, CustodyInvariant, HasSource, Busy, Planning
    <3>2. actual[t] = ListedTopics(cluster)[t]
      BY <2>2 DEF Describe, StageInvariant, ListingIsTrue
    <3> QED
      BY <1>2, <2>1, <3>1, <3>2, ListingIsTheTopic
  <2>3. /\ Planned(Declared(Source) \ unplanned).changes' = {}
        /\ Planned(Declared(Source) \ unplanned).blocked' = {}
    BY <2>1, PlanStarts DEF Planned
  <2>4. StartsAfresh' /\ HasRegistry'
    BY <1>2, <2>1 DEF StartsAfresh, HasRegistry, Planning
  <2>5. Undisturbed => ListingIsTrue' /\ PlanIsTrue'
    BY <1>2, <2>1, <2>2, <2>3 DEF ListingIsTrue, PlanIsTrue
  <2> QED
    BY <1>2, <2>1, <2>4, <2>5
    DEF StageInvariant, WorkIsNeeded, RegistrationIsLeft, SuccessIsTrue
<1> QED
  BY <1>1, <1>2 DEF Describe


\* Nobody comes between the steps of a stage that plans or acts.
StageOnly == UNCHANGED <<world, piped, quiet>>

LEMMA StageOnlyFacts ==
    ASSUME StageOnly
    PROVE  /\ cluster' = cluster /\ registry' = registry /\ target' = target
           /\ Source' = Source /\ stage' = stage /\ revision' = revision
           /\ Undisturbed' = Undisturbed
           /\ Needs' = Needs /\ Refusals' = Refusals
           /\ \A D : Planned(D)' = PlannedFor(Source, cluster, target, registry, D)
BY DEF StageOnly, world, piped, Source, Undisturbed, Needs, Refusals, Planned

\* There is only one next topic.
LEMMA OneNextTopic ==
    ASSUME CustodyInvariant, NEW t, NEW u, IsNextTopic(t), IsNextTopic(u)
    PROVE  t = u
BY ProviderAssumption DEF IsNextTopic, CustodyInvariant, TypeOK

\* The plan so far with one topic more.
LEMMA PlannedGrows ==
    ASSUME NEW D, NEW t
    PROVE  LET schema == SchemaPlan(t, Source.topics[t], target, registry)
           IN  /\ Planned(D \union {t}).changes
                    = (Planned(D).changes \union NeedsOf(Source, target, t, cluster[t]))
                      \union schema.changes
               /\ Planned(D \union {t}).blocked
                    = (Planned(D).blocked \union RefusalsOf(Source, target, t, cluster[t]))
                      \union schema.blocked
<1> DEFINE schema == SchemaPlan(t, Source.topics[t], target, registry)
           topic  == TopicPlan(Source, cluster, target, t)
<1>1. Planned(D \union {t}) = Joined(Joined(Planned(D), topic), schema)
  BY PlanGrows DEF Planned
<1>2. Planned(D \union {t}).changes = (Planned(D).changes \union topic.changes) \union schema.changes
  BY <1>1, JoinedTwice
<1>3. Planned(D \union {t}).blocked = (Planned(D).blocked \union topic.blocked) \union schema.blocked
  BY <1>1, JoinedTwice
<1>4. /\ topic.changes = NeedsOf(Source, target, t, cluster[t])
      /\ topic.blocked = RefusalsOf(Source, target, t, cluster[t])
  BY DEF TopicPlan
<1> HIDE DEF topic, schema
<1>5. Planned(D \union {t}).changes
        = (Planned(D).changes \union NeedsOf(Source, target, t, cluster[t])) \union schema.changes
  BY <1>2, <1>4
<1>6. Planned(D \union {t}).blocked
        = (Planned(D).blocked \union RefusalsOf(Source, target, t, cluster[t])) \union schema.blocked
  BY <1>3, <1>4
<1> QED
  BY <1>5, <1>6 DEF schema

LEMMA PlanNextTopicKeeps ==
    ASSUME CustodyInvariant, StageInvariant, NEW t \in Topics, PlanNextTopic(t)
    PROVE  StageInvariant'
<1> DEFINE topic   == Source.topics[t]
           plan    == PlanTopic(t, topic, actual[t], target)
           planned == HasSchemaToPlan(t, topic, target)
           found   == LatestSchema(registry, topic.schema.subject)
           come    == Declared(Source) \ unplanned
<1>1. /\ pc = "plan" /\ IsNextTopic(t) /\ t \in unplanned /\ unplanned \subseteq Declared(Source)
      /\ Source \in Revision /\ t \in Declared(Source)
      /\ changes' = changes \union plan.changes
      /\ blocked' = blocked \union plan.blocked
      /\ actual' = actual /\ failed' = failed /\ todo' = todo
      /\ StageOnly
  BY DEF PlanNextTopic, CustodyInvariant, HasSource, Busy, Planning, IsNextTopic, StageOnly
<1>2. /\ cluster' = cluster /\ registry' = registry /\ target' = target
      /\ Source' = Source /\ stage' = stage /\ Undisturbed' = Undisturbed
      /\ \A D : Planned(D)' = Planned(D)
  BY <1>1, StageOnlyFacts DEF Planned
<1>3. failed = {}
  BY <1>1 DEF StageInvariant, StartsAfresh, Planning
<1>4. ASSUME Undisturbed
      PROVE  /\ \A u \in Source.ownership : actual[u] = cluster[u]
             /\ changes = Planned(come).changes /\ blocked = Planned(come).blocked
             /\ plan.changes = NeedsOf(Source, target, t, cluster[t])
             /\ plan.blocked = RefusalsOf(Source, target, t, cluster[t])
  <2>1. /\ \A u \in Source.ownership : actual[u] = cluster[u]
        /\ changes = Planned(come).changes /\ blocked = Planned(come).blocked
    BY <1>1, <1>4 DEF StageInvariant, ListingIsTrue, PlanIsTrue
  <2>2. actual[t] = cluster[t]
    BY <1>1, <2>1, RevisionFacts
  <2> QED
    BY <1>1, <2>1, <2>2 DEF NeedsOf, RefusalsOf
<1>5. CASE Return("failure")
  BY <1>5, NothingInFailure DEF Return
<1>6. CASE /\ planned /\ target.schemaRegistry /\ SchemaDiffers(topic, found)
           /\ pc' = "check" /\ latest' = found /\ unplanned' = unplanned
  <2>1. StartsAfresh'
    BY <1>1, <1>3, <1>6 DEF StartsAfresh
  <2>2. HasRegistry'
    BY <1>2, <1>6 DEF HasRegistry
  <2>3. ASSUME Undisturbed
        PROVE  PlanIsTrue'
    <3>1. \A u \in unplanned' : IsNextTopic(u)' => u = t
      BY <1>1, <1>6, OneNextTopic DEF IsNextTopic
    <3>2. Lacks(Source, registry, target, t)
      BY <1>6 DEF Lacks
    <3>3. /\ changes' = Planned(come).changes \union NeedsOf(Source, target, t, cluster[t])
          /\ blocked' = Planned(come).blocked \union RefusalsOf(Source, target, t, cluster[t])
      BY <1>1, <1>4, <2>3
    <3> QED
      BY <1>2, <1>6, <3>1, <3>2, <3>3 DEF PlanIsTrue
  <2>4. Undisturbed => ListingIsTrue'
    BY <1>1, <1>2, <1>4, <1>6 DEF ListingIsTrue
  <2> QED
    BY <1>2, <1>6, <2>1, <2>2, <2>3, <2>4
    DEF StageInvariant, WorkIsNeeded, RegistrationIsLeft, SuccessIsTrue
<1>7. CASE /\ ~(planned /\ SchemaDiffers(topic, found)) /\ ~(planned /\ ~target.schemaRegistry)
           /\ pc' = pc /\ unplanned' = unplanned \ {t}
  <2>1. StartsAfresh'
    BY <1>1, <1>3, <1>7 DEF StartsAfresh
  <2>2. Declared(Source) \ unplanned' = come \union {t}
    BY <1>1, <1>7
  <2>3. HasRegistry'
    BY <1>1, <1>2, <1>7, <2>2 DEF StageInvariant, HasRegistry
  <2>4. ASSUME Undisturbed
        PROVE  PlanIsTrue'
    <3>1. ~Lacks(Source, registry, target, t)
      BY <1>7 DEF Lacks
    <3>2. SchemaPlan(t, Source.topics[t], target, registry) = [changes |-> {}, blocked |-> {}]
      BY <3>1, SchemaPlanCases
    <3>3. changes' = Planned(come \union {t}).changes
      <4>1. Planned(come \union {t}).changes
              = (Planned(come).changes \union NeedsOf(Source, target, t, cluster[t]))
                \union SchemaPlan(t, Source.topics[t], target, registry).changes
        BY PlannedGrows
      <4>2. changes' = (changes \union plan.changes) \union {}
        BY <1>1
      <4>3. /\ changes = Planned(come).changes
            /\ plan.changes = NeedsOf(Source, target, t, cluster[t])
        BY <1>4, <2>4
      <4>4. SchemaPlan(t, Source.topics[t], target, registry).changes = {}
        BY <3>2
      <4> HIDE DEF plan, come
      <4> QED
        BY <4>1, <4>2, <4>3, <4>4
    <3>4. blocked' = Planned(come \union {t}).blocked
      <4>1. Planned(come \union {t}).blocked
              = (Planned(come).blocked \union RefusalsOf(Source, target, t, cluster[t]))
                \union SchemaPlan(t, Source.topics[t], target, registry).blocked
        BY PlannedGrows
      <4>2. blocked' = (blocked \union plan.blocked) \union {}
        BY <1>1
      <4>3. /\ blocked = Planned(come).blocked
            /\ plan.blocked = RefusalsOf(Source, target, t, cluster[t])
        BY <1>4, <2>4
      <4>4. SchemaPlan(t, Source.topics[t], target, registry).blocked = {}
        BY <3>2
      <4> HIDE DEF plan, come
      <4> QED
        BY <4>1, <4>2, <4>3, <4>4
    <3> QED
      BY <1>1, <1>2, <1>7, <2>2, <3>3, <3>4 DEF PlanIsTrue
  <2>5. Undisturbed => ListingIsTrue'
    BY <1>1, <1>2, <1>4, <1>7 DEF ListingIsTrue
  <2> QED
    BY <1>1, <1>2, <1>7, <2>1, <2>3, <2>4, <2>5
    DEF StageInvariant, WorkIsNeeded, RegistrationIsLeft, SuccessIsTrue
<1> QED
  BY <1>5, <1>6, <1>7 DEF PlanNextTopic

LEMMA CheckNextSchemaKeeps ==
    ASSUME CustodyInvariant, StageInvariant, NEW t \in Topics, CheckNextSchema(t)
    PROVE  StageInvariant'
<1> DEFINE topic == Source.topics[t]
           plan  == PlanSchema(t, topic, latest,
                       CheckCompatibility(registry, topic.schema.subject,
                                          topic.schema.body))
           come  == Declared(Source) \ unplanned
<1>1. /\ pc = "check" /\ pc' = "plan" /\ IsNextTopic(t)
      /\ t \in unplanned /\ unplanned \subseteq Declared(Source)
      /\ target.schemaRegistry
      /\ changes' = changes \union plan.changes
      /\ blocked' = blocked \union plan.blocked
      /\ unplanned' = unplanned \ {t}
      /\ actual' = actual /\ failed' = failed /\ todo' = todo
      /\ StageOnly
  BY DEF CheckNextSchema, CustodyInvariant, HasSource, ChecksSchema, Busy, Planning, IsNextTopic,
         StageOnly
<1>2. /\ cluster' = cluster /\ registry' = registry /\ target' = target
      /\ Source' = Source /\ stage' = stage /\ Undisturbed' = Undisturbed
      /\ \A D : Planned(D)' = Planned(D)
  BY <1>1, StageOnlyFacts DEF Planned
<1>3. Declared(Source) \ unplanned' = come \union {t}
  BY <1>1
<1>4. StartsAfresh'
  BY <1>1 DEF StageInvariant, StartsAfresh, Planning
<1>5. HasRegistry'
  BY <1>1, <1>2 DEF HasRegistry
<1>6. ASSUME Undisturbed
      PROVE  PlanIsTrue'
  <2>1. /\ Lacks(Source, registry, target, t)
        /\ latest = LatestSchema(registry, topic.schema.subject)
        /\ changes = Planned(come).changes \union NeedsOf(Source, target, t, cluster[t])
        /\ blocked = Planned(come).blocked \union RefusalsOf(Source, target, t, cluster[t])
    BY <1>1, <1>6 DEF StageInvariant, PlanIsTrue
  <2>2. plan = SchemaPlan(t, topic, target, registry)
    BY <2>1, SchemaPlanCases
  <2>3. Planned(come \union {t}).changes = changes \union plan.changes
    BY <2>1, <2>2, PlannedGrows
  <2>4. Planned(come \union {t}).blocked = blocked \union plan.blocked
    BY <2>1, <2>2, PlannedGrows
  <2> QED
    BY <1>1, <1>2, <1>3, <2>3, <2>4 DEF PlanIsTrue
<1>7. Undisturbed => ListingIsTrue'
  BY <1>1, <1>2 DEF StageInvariant, ListingIsTrue
<1> QED
  BY <1>1, <1>2, <1>4, <1>5, <1>6, <1>7
  DEF StageInvariant, WorkIsNeeded, RegistrationIsLeft, SuccessIsTrue


\* Two sets of changes: those of topics, and those of schemas.
LEMMA NeedsAreOfTopics ==
    ASSUME NEW c \in Needs, Source \in Revision
    PROVE  c.kind # "RegisterSchema"
BY NeedsNameTheirTopic DEF Needs, TopicNeeds

\* A schema to plan that Build found nothing to do about is known.
LEMMA NothingLacking ==
    ASSUME CustodyInvariant, Source \in Revision, NEW t \in Declared(Source),
           HasSchemaToPlan(t, Source.topics[t], target), ~Lacks(Source, registry, target, t)
    PROVE  Knows(Source.topics[t])
<1> DEFINE schema == Source.topics[t].schema
<1>1. schema \in Schema
  BY RevisionFacts DEF HasSchemaToPlan, Topic
<1>2. registry[schema.subject].latest = schema.body /\ schema.body # None
  BY <1>1, ProviderAssumption DEF Lacks, SchemaDiffers, LatestSchema, Schema
<1> QED
  BY <1>2 DEF Knows, Versions

\* The finished plan of an undisturbed stage is what Build makes of the two
\* services as they are.
LEMMA FinishedPlanIsBuild ==
    ASSUME CustodyInvariant, StageInvariant, Undisturbed, Decide
    PROVE  /\ FinishedPlan = Build(Source, cluster, target, registry)
           /\ TopicChanges(FinishedPlan.changes) = Needs
           /\ SchemaChanges(FinishedPlan.changes) = SchemaNeeds(Source, registry, target)
           /\ FinishedPlan.blocked = Refusals \union SchemaRefusals(Source, registry, target)
<1>1. /\ pc = "plan" /\ Source \in Revision /\ Declared(Source) \ unplanned = Declared(Source)
  BY DEF Decide, CustodyInvariant, HasSource, Busy, Planning
<1>2. /\ \A t \in Source.ownership : actual[t] = cluster[t]
      /\ changes = Planned(Declared(Source)).changes
      /\ blocked = Planned(Declared(Source)).blocked
  BY <1>1 DEF StageInvariant, ListingIsTrue, PlanIsTrue
<1>3. PlanDeletions(Source, actual, target) = PlanDeletions(Source, cluster, target)
  BY <1>1, <1>2, OnlyOwnTopicsCount
<1>4. FinishedPlan = Build(Source, cluster, target, registry)
  BY <1>1, <1>2, <1>3, PlanEnds DEF FinishedPlan, Planned
<1> QED
  BY <1>1, <1>4, BuildParts, BuildByTopic DEF Needs, Refusals

LEMMA DecideKeeps ==
    ASSUME CustodyInvariant, StageInvariant, Decide
    PROVE  StageInvariant'
<1> DEFINE plan    == FinishedPlan
           schemas == SchemaNeeds(Source, registry, target)
           refusedSchemas == SchemaRefusals(Source, registry, target)
<1>1. /\ pc = "plan" /\ unplanned = {} /\ stage \in StageNames
      /\ Source \in Revision /\ target \in Target
      /\ cluster \in Clusters /\ registry \in Registries
      /\ failed' = failed /\ failed = {} /\ StageOnly
      /\ changes' = plan.changes /\ blocked' = plan.blocked /\ todo' = Work(plan)
  BY DEF Decide, CustodyInvariant, HasSource, InDeployment, TypeOK, Busy, Planning,
         StageInvariant, StartsAfresh, StageOnly
<1>2. /\ cluster' = cluster /\ registry' = registry /\ target' = target
      /\ Source' = Source /\ stage' = stage /\ revision' = revision
      /\ Undisturbed' = Undisturbed /\ Needs' = Needs /\ Refusals' = Refusals
  BY <1>1, StageOnlyFacts
<1>3. ~BuildFails(Source, target)
  BY <1>1 DEF StageInvariant, HasRegistry, BuildFails
<1>4. stage # "KAFKA_ROLLBACK" => Source = revision
  BY DEF Source
<1>5. CASE Work(plan) # {} /\ pc' = "execute"
  <2>1. StartsAfresh' /\ HasRegistry'
    BY <1>2, <1>3, <1>5 DEF StartsAfresh, HasRegistry, Planning, Work
  <2>2. ASSUME Undisturbed
        PROVE  WorkIsNeeded' /\ RegistrationIsLeft'
    <3>1. /\ TopicChanges(plan.changes) = Needs /\ SchemaChanges(plan.changes) = schemas
          /\ plan.blocked = Refusals \union refusedSchemas
      BY <2>2, FinishedPlanIsBuild
    <3>2. TopicChanges(todo') \subseteq Needs
      <4>1. Work(plan) \subseteq plan.changes
        BY <1>1 DEF Work, SchemaChanges, TopicChanges, Restorable, StageNames
      <4> QED
        BY <1>1, <3>1, <4>1 DEF TopicChanges
    <3>3. Needs \subseteq changes'
      BY <1>1, <3>1 DEF TopicChanges
    <3>4. ASSUME NEW c \in Needs, StageDoes(c)
          PROVE  c \in todo'
      <4>1. c.kind # "RegisterSchema" /\ c \in TopicChanges(plan.changes)
        BY <1>1, <3>1, <3>4, NeedsAreOfTopics
      <4>2. CASE stage = "KAFKA_APPLY"
        BY <1>1, <1>5, <4>1, <4>2 DEF Work
      <4>3. CASE stage = "KAFKA_ROLLBACK"
        BY <1>1, <3>4, <4>1, <4>3 DEF Work, Restorable, Irreversible, Reversible, StageDoes
      <4> QED
        BY <1>1, <3>4, <4>1, <4>2, <4>3 DEF StageDoes, StageNames
    <3>5. Refusals \subseteq blocked'
      BY <1>1, <3>1
    <3>6. WorkIsNeeded'
      BY <1>2, <3>2, <3>3, <3>4, <3>5 DEF WorkIsNeeded, StageDoes
    <3>7. ASSUME stage = "KAFKA_REGISTER_SCHEMA", NEW t \in Declared(Source),
                 HasSchemaToPlan(t, Source.topics[t], target)
          PROVE  \/ Knows(Source.topics[t])
                 \/ \E c \in todo' : /\ c.kind = "RegisterSchema"
                                     /\ c.subject = Source.topics[t].schema.subject
                                     /\ c.body = Source.topics[t].schema.body
      <4>1. refusedSchemas = {} /\ todo' = schemas
        BY <1>1, <1>5, <3>1, <3>7 DEF Work, HasBlocked
      <4>2. CASE ~Lacks(Source, registry, target, t)
        BY <1>1, <3>7, <4>2, NothingLacking
      <4>3. CASE Lacks(Source, registry, target, t)
        <5>1. Fits(Source, registry, t)
          BY <4>1, <4>3, SchemaNeedsAre
        <5>2. Registration(Source, registry, t) \in todo'
          BY <4>1, <4>3, <5>1, SchemaNeedsAre
        <5> QED
          BY <1>1, <4>3, <5>2, RegistrationFacts
      <4> QED
        BY <4>2, <4>3
    <3>8. RegistrationIsLeft'
      BY <1>2, <3>7 DEF RegistrationIsLeft, Knows
    <3> QED
      BY <3>6, <3>8
  <2> QED
    BY <1>2, <1>5, <2>1, <2>2 DEF StageInvariant, ListingIsTrue, PlanIsTrue, SuccessIsTrue
<1>6. CASE Work(plan) = {} /\ pc' = "returned" /\ verdict' = Verdict(plan)
  <2>1. StartsAfresh' /\ HasRegistry'
    BY <1>6 DEF StartsAfresh, HasRegistry, Planning
  <2>2. ASSUME Undisturbed
        PROVE  SuccessIsTrue'
    <3>1. /\ plan = Build(Source, cluster, target, registry)
          /\ TopicChanges(plan.changes) = Needs /\ SchemaChanges(plan.changes) = schemas
          /\ plan.blocked = Refusals \union refusedSchemas
      BY <2>2, FinishedPlanIsBuild
    <3>2. CASE stage = "KAFKA_PLAN"
      <4>1. verdict' = "exited" => Empty(plan)
        BY <1>6, <3>2 DEF Verdict, PlanVerdict
      <4>2. Empty(plan) => InSync(revision, cluster, target, registry)
        BY <1>1, <1>4, <3>1, <3>2, EmptyPlanIsSync
      <4>3. verdict' = "success" => Refusals = {} /\ refusedSchemas = {}
        BY <1>6, <3>1, <3>2 DEF Verdict, PlanVerdict, HasBlocked
      <4> QED
        BY <1>2, <1>4, <3>2, <4>1, <4>2, <4>3 DEF SuccessIsTrue
    <3>3. CASE stage = "KAFKA_REGISTER_SCHEMA"
      <4>1. verdict' # "exited" /\ (verdict' = "success" => plan.blocked = {})
        BY <1>6, <3>3 DEF Verdict, HasBlocked
      <4>2. ASSUME verdict' = "success"
            PROVE  AllRegistered(revision)
        <5>1. schemas = {} /\ refusedSchemas = {}
          BY <1>6, <3>1, <3>3, <4>1, <4>2 DEF Work, HasBlocked
        <5>2. \A t \in Declared(Source) : ~Lacks(Source, registry, target, t)
          BY <5>1, NoSchemaNeeds
        <5> QED
          BY <1>1, <1>4, <3>3, <5>2, NothingLacking DEF AllRegistered
      <4> QED
        BY <1>2, <3>3, <4>1, <4>2 DEF SuccessIsTrue, AllRegistered, Knows
    <3>4. CASE stage = "KAFKA_APPLY"
      <4>1. verdict' # "exited" /\ (verdict' = "success" => plan.blocked = {})
        BY <1>6, <3>4 DEF Verdict, HasBlocked
      <4>2. verdict' = "success" => Needs = {} /\ Refusals = {}
        BY <1>6, <3>1, <3>4, <4>1 DEF Work, HasBlocked
      <4> QED
        BY <1>2, <1>3, <1>4, <3>4, <4>1, <4>2 DEF SuccessIsTrue
    <3>5. CASE stage = "KAFKA_ROLLBACK"
      <4>1. /\ verdict' # "exited"
            /\ verdict' = "success" => plan.blocked = {} /\ Skipped(plan) = {}
        BY <1>6, <3>5 DEF Verdict, HasBlocked
      <4>2. TopicChanges(plan.changes) = Restorable(plan) \union Skipped(plan)
        BY DEF Restorable, Skipped
      <4>3. verdict' = "success" => Needs = {} /\ Refusals = {}
        BY <1>6, <3>1, <3>5, <4>1, <4>2 DEF Work
      <4> QED
        BY <1>2, <3>5, <4>1, <4>3 DEF SuccessIsTrue
    <3> QED
      BY <1>1, <3>2, <3>3, <3>4, <3>5 DEF StageNames
  <2> QED
    BY <1>2, <1>6, <2>1, <2>2
    DEF StageInvariant, ListingIsTrue, PlanIsTrue, WorkIsNeeded, RegistrationIsLeft
<1> QED
  BY <1>1, <1>5, <1>6 DEF Decide, Return


-----------------------------------------------------------------------------
(***************************************************************************)
(* Acting: every change that takes effect is one that was needed.          *)
(***************************************************************************)
\* What a change of the plan that takes effect leaves to do.
LEMMA EffectMeetsNeed ==
    ASSUME CustodyInvariant, StageInvariant, Undisturbed, NEW c \in todo,
           Try(c), TakesEffect(c), CountsFit(Source)
    PROVE  /\ Needs' = Needs \ {c} /\ Refusals' = Refusals
           /\ c.kind # "RegisterSchema" => c \in Needs
<1>1. /\ pc = "execute" /\ Source \in Revision /\ target \in Target /\ cluster \in Clusters
      /\ target' = target /\ Source' = Source
      /\ cluster' = ClusterAfter(cluster, c)
  BY DEF Try, TakesEffect, CustodyInvariant, TypeOK, HasSource, Busy, Source, piped
<1>2. CASE c.kind = "RegisterSchema"
  <2>1. cluster' = cluster
    BY <1>1, <1>2 DEF ClusterAfter
  <2>2. c \notin Needs
    BY <1>1, <1>2, NeedsAreOfTopics
  <2> QED
    BY <1>1, <1>2, <2>1, <2>2 DEF Needs, Refusals
<1>3. CASE c.kind # "RegisterSchema"
  <2>1. c \in Needs
    BY <1>1, <1>3 DEF StageInvariant, WorkIsNeeded, TopicChanges
  <2>2. /\ TopicNeeds(Source, ClusterAfter(cluster, c), target)
              = TopicNeeds(Source, cluster, target) \ {c}
        /\ TopicRefusals(Source, ClusterAfter(cluster, c), target)
              = TopicRefusals(Source, cluster, target)
    BY <1>1, <2>1, TopicNeedsAreMet DEF Needs
  <2> QED
    BY <1>1, <1>3, <2>1, <2>2 DEF Needs, Refusals
<1> QED
  BY <1>2, <1>3

\* What the registry knows it goes on knowing, and it knows what it was told.
LEMMA EffectKeepsVersions ==
    ASSUME CustodyInvariant, NEW c \in todo, Try(c), TakesEffect(c)
    PROVE  /\ \A s \in Subjects : Versions(registry, s) \subseteq Versions(registry', s)
           /\ c.kind = "RegisterSchema" => c.body \in Versions(registry', c.subject)
<1>1. /\ c \in Change /\ registry \in Registries /\ registry' = RegistryAfter(registry, c)
  BY DEF Try, TakesEffect, CustodyInvariant, TypeOK
<1>2. CASE c.kind # "RegisterSchema"
  BY <1>1, <1>2 DEF RegistryAfter
<1>3. CASE c.kind = "RegisterSchema"
  <2>1. c.subject \in Subjects /\ c.body \in Bodies
    BY <1>1, <1>3 DEF Change
  <2>2. registry' = Registered(registry, c.subject, c.body)
    BY <1>1, <1>3 DEF RegistryAfter
  <2> QED
    BY <1>1, <2>1, <2>2, VersionsStay
<1> QED
  BY <1>2, <1>3

LEMMA ActingOutside ==
    ASSUME StageInvariant, pc = "execute", pc' = "execute",
           UNCHANGED <<piped, unplanned, changes, blocked, quiet>>
    PROVE  /\ StartsAfresh' /\ HasRegistry'
           /\ ListingIsTrue' /\ PlanIsTrue' /\ SuccessIsTrue'
<1>1. Source' = Source /\ target' = target /\ stage' = stage
  BY DEF Source, piped
<1>2. StartsAfresh'
  BY <1>1 DEF StageInvariant, StartsAfresh, Planning
<1>3. HasRegistry'
  BY <1>1 DEF StageInvariant, HasRegistry
<1> QED
  BY <1>2, <1>3 DEF ListingIsTrue, PlanIsTrue, SuccessIsTrue

LEMMA EffectKeeps ==
    ASSUME CustodyInvariant, StageInvariant, NEW c \in todo, Try(c), TakesEffect(c),
           pc' = "execute", failed \subseteq failed'
    PROVE  StageInvariant'
<1>1. /\ pc = "execute" /\ Source \in Revision
      /\ todo' = todo \ {c} /\ changes' = changes /\ blocked' = blocked
      /\ target' = target /\ Source' = Source /\ stage' = stage
      /\ Undisturbed' = Undisturbed
  BY DEF Try, CustodyInvariant, HasSource, Busy, Source, piped, Undisturbed
<1>2. /\ StartsAfresh' /\ HasRegistry'
      /\ ListingIsTrue' /\ PlanIsTrue' /\ SuccessIsTrue'
  BY <1>1, ActingOutside DEF Try
<1>3. ASSUME Undisturbed
      PROVE  WorkIsNeeded'
  <2> SUFFICES ASSUME CountsFit(Source)
               PROVE  /\ TopicChanges(todo') \subseteq Needs'
                      /\ Needs' \subseteq changes'
                      /\ \A d \in Needs' : StageDoes(d) => d \in todo' \union failed'
                      /\ Refusals' \subseteq blocked'
    BY <1>1 DEF WorkIsNeeded, StageDoes
  <2>1. Needs' = Needs \ {c} /\ Refusals' = Refusals
    BY <1>3, EffectMeetsNeed
  <2>2. /\ TopicChanges(todo) \subseteq Needs
        /\ Needs \subseteq changes
        /\ \A d \in Needs : StageDoes(d) => d \in todo \union failed
        /\ Refusals \subseteq blocked
    BY <1>1, <1>3 DEF StageInvariant, WorkIsNeeded
  <2>3. TopicChanges(todo') = TopicChanges(todo) \ {c}
    BY <1>1 DEF TopicChanges
  <2> QED
    BY <1>1, <2>1, <2>2, <2>3
<1>4. ASSUME Undisturbed
      PROVE  RegistrationIsLeft'
  <2> SUFFICES ASSUME stage = "KAFKA_REGISTER_SCHEMA", NEW t \in Declared(Source),
                      HasSchemaToPlan(t, Source.topics[t], target)
               PROVE  LET schema == Source.topics[t].schema
                      IN  \/ schema.body \in Versions(registry', schema.subject)
                          \/ \E d \in todo' \union failed' : /\ d.kind = "RegisterSchema"
                                                             /\ d.subject = schema.subject
                                                             /\ d.body = schema.body
    BY <1>1 DEF RegistrationIsLeft, Knows
  <2> DEFINE schema == Source.topics[t].schema
  <2>1. schema.subject \in Subjects
    BY <1>1, RevisionFacts DEF HasSchemaToPlan, Topic, Schema
  <2>2. CASE Knows(Source.topics[t])
    BY <2>1, <2>2, EffectKeepsVersions DEF Knows
  <2>3. CASE \E d \in todo \union failed : /\ d.kind = "RegisterSchema"
                                           /\ d.subject = schema.subject
                                           /\ d.body = schema.body
    <3>1. PICK d \in todo \union failed : /\ d.kind = "RegisterSchema"
                                          /\ d.subject = schema.subject
                                          /\ d.body = schema.body
      BY <2>3
    <3>2. CASE d = c
      BY <3>1, <3>2, EffectKeepsVersions
    <3>3. CASE d # c
      BY <1>1, <3>1, <3>3
    <3> QED
      BY <3>2, <3>3
  <2> QED
    BY <1>1, <1>4, <2>2, <2>3 DEF StageInvariant, RegistrationIsLeft
<1> QED
  BY <1>1, <1>2, <1>3, <1>4 DEF StageInvariant

\* A change that fails without effect is no longer to do, and counted as failed.
LEMMA NoEffectKeeps ==
    ASSUME CustodyInvariant, StageInvariant, pc = "execute", pc' = "execute",
           UNCHANGED <<world, piped, unplanned, changes, blocked, quiet>>,
           todo' \subseteq todo, todo \union failed \subseteq todo' \union failed'
    PROVE  StageInvariant'
<1>1. /\ registry' = registry /\ target' = target /\ Source' = Source /\ stage' = stage
      /\ Undisturbed' = Undisturbed /\ Needs' = Needs /\ Refusals' = Refusals
  BY StageOnlyFacts DEF StageOnly
<1>2. /\ StartsAfresh' /\ HasRegistry'
      /\ ListingIsTrue' /\ PlanIsTrue' /\ SuccessIsTrue'
  BY ActingOutside
<1>3. Undisturbed => WorkIsNeeded'
  BY <1>1 DEF StageInvariant, WorkIsNeeded, TopicChanges, StageDoes
<1>4. Undisturbed => RegistrationIsLeft'
  BY <1>1 DEF StageInvariant, RegistrationIsLeft, Knows
<1> QED
  BY <1>1, <1>2, <1>3, <1>4 DEF StageInvariant

LEMMA TryKeeps ==
    ASSUME CustodyInvariant, StageInvariant,
           NEW c \in todo, Perform(c) \/ Refused(c) \/ RequestLost(c) \/ AnswerLost(c)
    PROVE  StageInvariant'
<1>1. /\ Try(c) /\ pc = "execute"
      /\ TakesEffect(c) \/ (UNCHANGED world /\ failed' = failed \union {c})
      /\ UNCHANGED <<pc, verdict, failed>> \/ AnswersError(c)
  BY DEF Perform, Refused, RequestLost, AnswerLost, Try, AnswersError
<1>2. failed \subseteq failed' /\ (pc' = "execute" \/ Return("failure"))
  BY <1>1 DEF AnswersError
<1>3. CASE Return("failure")
  BY <1>3, NothingInFailure DEF Return
<1>4. CASE pc' = "execute" /\ TakesEffect(c)
  BY <1>1, <1>2, <1>4, EffectKeeps
<1>5. CASE pc' = "execute" /\ UNCHANGED world /\ failed' = failed \union {c}
  BY <1>1, <1>5, NoEffectKeeps DEF Try
<1> QED
  BY <1>1, <1>2, <1>3, <1>4, <1>5

LEMMA CutOffKeeps ==
    ASSUME CustodyInvariant, StageInvariant, CutOff
    PROVE  StageInvariant'
BY NoEffectKeeps DEF CutOff

LEMMA FinishKeeps ==
    ASSUME CustodyInvariant, StageInvariant, Finish
    PROVE  StageInvariant'
<1> DEFINE plan == [changes |-> changes, blocked |-> blocked]
<1>1. /\ pc = "execute" /\ todo = {} /\ pc' = "returned" /\ StageOnly
      /\ Source \in Revision /\ stage \in StageNames /\ stage # "KAFKA_PLAN"
      /\ ~BuildFails(Source, target)
  BY DEF Finish, Return, StageOnly, CustodyInvariant, HasSource, InDeployment, Busy,
         StageInvariant, StartsAfresh, HasRegistry
<1>2. /\ cluster' = cluster /\ registry' = registry /\ target' = target
      /\ Source' = Source /\ stage' = stage /\ revision' = revision
      /\ Undisturbed' = Undisturbed /\ Needs' = Needs /\ Refusals' = Refusals
  BY <1>1, StageOnlyFacts
<1>3. StartsAfresh' /\ HasRegistry'
  BY <1>1 DEF StartsAfresh, HasRegistry, Planning
<1>4. verdict' = "failure" \/ (failed = {} /\ verdict' = Verdict(plan))
  BY DEF Finish, Return
<1>5. stage # "KAFKA_ROLLBACK" => Source = revision
  BY DEF Source
<1>6. ASSUME Undisturbed, failed = {}, verdict' = Verdict(plan)
      PROVE  SuccessIsTrue'
  <2>1. CASE stage = "KAFKA_REGISTER_SCHEMA"
    <3>1. verdict' # "exited"
      BY <1>6, <2>1 DEF Verdict
    <3>2. AllRegistered(revision)
      BY <1>1, <1>5, <1>6, <2>1 DEF StageInvariant, RegistrationIsLeft, AllRegistered
    <3> QED
      BY <1>2, <2>1, <3>1, <3>2 DEF SuccessIsTrue, AllRegistered, Knows
  <2>2. CASE stage = "KAFKA_APPLY"
    <3>1. verdict' # "exited" /\ (verdict' = "success" => blocked = {})
      BY <1>6, <2>2 DEF Verdict, HasBlocked
    <3>2. ASSUME verdict' = "success", CountsFit(Source)
          PROVE  Needs = {} /\ Refusals = {}
      <4>1. Refusals = {}
        BY <1>1, <1>6, <3>1, <3>2 DEF StageInvariant, WorkIsNeeded
      <4>2. \A c \in Needs : StageDoes(c)
        BY <1>1, <2>2, NeedsAreOfTopics DEF StageDoes
      <4> QED
        BY <1>1, <1>6, <3>2, <4>1, <4>2 DEF StageInvariant, WorkIsNeeded
    <3> QED
      BY <1>1, <1>2, <1>5, <2>2, <3>1, <3>2 DEF SuccessIsTrue, Faithful
  <2>3. CASE stage = "KAFKA_ROLLBACK"
    <3>1. /\ verdict' # "exited"
          /\ verdict' = "success" => blocked = {} /\ Skipped(plan) = {}
      BY <1>6, <2>3 DEF Verdict, HasBlocked
    <3>2. ASSUME verdict' = "success", CountsFit(Source)
          PROVE  Needs = {} /\ Refusals = {}
      <4>1. /\ Refusals \subseteq blocked /\ Needs \subseteq changes
            /\ \A c \in Needs : ~StageDoes(c)
        BY <1>1, <1>6, <3>2 DEF StageInvariant, WorkIsNeeded
      <4>2. ASSUME NEW c \in Needs
            PROVE  FALSE
        <5>1. c \in changes /\ c.kind # "RegisterSchema"
          BY <1>1, <4>1, <4>2, NeedsAreOfTopics
        <5>2. ~Reversible(c.kind)
          BY <2>3, <4>1, <4>2, <5>1 DEF StageDoes, Reversible
        <5>3. c \in Skipped(plan)
          BY <5>1, <5>2 DEF Skipped, TopicChanges, Irreversible
        <5> QED
          BY <3>1, <3>2, <5>3
      <4> QED
        BY <3>1, <3>2, <4>1, <4>2
    <3> QED
      BY <1>1, <1>2, <2>3, <3>1, <3>2 DEF SuccessIsTrue, Faithful
  <2> QED
    BY <1>1, <2>1, <2>2, <2>3 DEF StageNames
<1>7. Undisturbed => SuccessIsTrue'
  BY <1>4, <1>6 DEF SuccessIsTrue
<1> QED
  BY <1>1, <1>2, <1>3, <1>7
  DEF StageInvariant, ListingIsTrue, PlanIsTrue, WorkIsNeeded, RegistrationIsLeft

LEMMA ReadFailsKeep ==
    ASSUME ReadFails
    PROVE  StageInvariant'
BY NothingInFailure DEF ReadFails, Return

LEMMA StutterKeeps ==
    ASSUME StageInvariant, UNCHANGED vars
    PROVE  StageInvariant'
<1>1. /\ UNCHANGED <<cluster, registry, target, running, revision, stage, pc, verdict>>
      /\ UNCHANGED <<actual, unplanned, latest, changes, blocked, todo, failed, quiet>>
      /\ Source' = Source
  BY DEF vars, world, piped, run, Source
<1>2. Needs' = Needs /\ Refusals' = Refusals /\ Undisturbed' = Undisturbed
  BY <1>1 DEF Needs, Refusals, Undisturbed
<1>3. StartsAfresh' /\ HasRegistry' /\ (ListingIsTrue => ListingIsTrue')
  BY <1>1 DEF StageInvariant, StartsAfresh, HasRegistry, ListingIsTrue
<1>4. PlanIsTrue => PlanIsTrue'
  BY <1>1 DEF PlanIsTrue, Planned, IsNextTopic
<1>5. WorkIsNeeded => WorkIsNeeded'
  BY <1>1, <1>2 DEF WorkIsNeeded, StageDoes
<1>6. RegistrationIsLeft => RegistrationIsLeft'
  BY <1>1 DEF RegistrationIsLeft, Knows
<1>7. SuccessIsTrue => SuccessIsTrue'
  BY <1>1, <1>2 DEF SuccessIsTrue, AllRegistered, Knows, Faithful
<1> QED
  BY <1>2, <1>3, <1>4, <1>5, <1>6, <1>7 DEF StageInvariant

-----------------------------------------------------------------------------
(***************************************************************************)
(* Somebody else at work elsewhere is no disturbance.                      *)
(***************************************************************************)
\* What a stage works towards is one of the revisions that may be deployed.
LEMMA WorksTowardsOurs ==
    ASSUME CustodyInvariant
    PROVE  /\ pc # "idle" => revision \in Revisions
           /\ Source \in Revision => Source \in Revisions
           /\ Source # None => Source \in Revisions
BY DeploymentAssumption DEF CustodyInvariant, TypeOK, InDeployment, Source

\* A step elsewhere makes no difference to what a revision needs.
LEMMA ElsewhereLeaves ==
    ASSUME Elsewhere, NEW r \in Revisions, NEW g
    PROVE  /\ TopicNeeds(r, cluster', g) = TopicNeeds(r, cluster, g)
           /\ TopicRefusals(r, cluster', g) = TopicRefusals(r, cluster, g)
           /\ SchemaNeeds(r, registry', g) = SchemaNeeds(r, registry, g)
           /\ SchemaRefusals(r, registry', g) = SchemaRefusals(r, registry, g)
           /\ InSync(r, cluster', g, registry') <=> InSync(r, cluster, g, registry)
           /\ \A t \in Topics :
                 /\ NeedsOf(r, g, t, cluster'[t]) = NeedsOf(r, g, t, cluster[t])
                 /\ RefusalsOf(r, g, t, cluster'[t]) = RefusalsOf(r, g, t, cluster[t])
           /\ \A t \in Declared(r) :
                 /\ Lacks(r, registry', g, t) <=> Lacks(r, registry, g, t)
                 /\ r.topics[t].schema # None =>
                       registry'[r.topics[t].schema.subject]
                          = registry[r.topics[t].schema.subject]
           /\ \A D \in SUBSET Declared(r) :
                 PlannedFor(r, cluster', g, registry', D) = PlannedFor(r, cluster, g, registry, D)
<1>1. /\ r \in Revision
      /\ \A t \in r.ownership : cluster'[t] = cluster[t]
      /\ \A s \in SubjectsOf(r) : registry'[s] = registry[s]
  BY DeploymentAssumption DEF Elsewhere, LeavesAlone
<1>2. /\ TopicNeeds(r, cluster', g) = TopicNeeds(r, cluster, g)
      /\ TopicRefusals(r, cluster', g) = TopicRefusals(r, cluster, g)
      /\ \A t \in Topics :
            /\ NeedsOf(r, g, t, cluster'[t]) = NeedsOf(r, g, t, cluster[t])
            /\ RefusalsOf(r, g, t, cluster'[t]) = RefusalsOf(r, g, t, cluster[t])
  <2>1. TopicNeeds(r, cluster', g) = TopicNeeds(r, cluster, g)
    BY <1>1, OnlyOwnTopicsCount
  <2>2. TopicRefusals(r, cluster', g) = TopicRefusals(r, cluster, g)
    BY <1>1, OnlyOwnTopicsCount
  <2>3. ASSUME NEW t \in Topics
        PROVE  /\ NeedsOf(r, g, t, cluster'[t]) = NeedsOf(r, g, t, cluster[t])
               /\ RefusalsOf(r, g, t, cluster'[t]) = RefusalsOf(r, g, t, cluster[t])
    BY <1>1, ForeignTopicsDoNotCount
  <2> QED
    BY <2>1, <2>2, <2>3
<1>3. /\ SchemaRefusals(r, registry', g) = SchemaRefusals(r, registry, g)
      /\ \A t \in Declared(r) :
            /\ Lacks(r, registry', g, t) <=> Lacks(r, registry, g, t)
            /\ r.topics[t].schema # None =>
                  registry'[r.topics[t].schema.subject] = registry[r.topics[t].schema.subject]
  BY <1>1, OnlyOwnSubjectsCount
<1>4. /\ InSync(r, cluster', g, registry') <=> InSync(r, cluster, g, registry)
      /\ \A D \in SUBSET Declared(r) :
            PlannedFor(r, cluster', g, registry', D) = PlannedFor(r, cluster, g, registry, D)
  BY <1>1, OnlyItsOwnCounts
<1>5. SchemaNeeds(r, registry', g) = SchemaNeeds(r, registry, g)
  BY <1>1, OnlyOwnSubjectsCount
<1> QED
  BY <1>2, <1>3, <1>4, <1>5

LEMMA ElsewhereKeepsPlan ==
    ASSUME CustodyInvariant, Elsewhere, pc \in {"describe", "plan", "check"}
    PROVE  /\ ListingIsTrue => ListingIsTrue'
           /\ PlanIsTrue => PlanIsTrue'
<1>1. /\ UNCHANGED <<target, stage, pc, actual, unplanned, latest, changes, blocked>>
      /\ Source' = Source
  BY DEF Elsewhere, piped, run, Source
<1>2. /\ Source \in Revision /\ Source \in Revisions /\ unplanned \subseteq Declared(Source)
      /\ Source.ownership \subseteq Topics
      /\ \A t \in Source.ownership : cluster'[t] = cluster[t]
  BY WorksTowardsOurs, RevisionFacts
  DEF CustodyInvariant, HasSource, Busy, Planning, Elsewhere, LeavesAlone
<1>3. ListingIsTrue => ListingIsTrue'
  BY <1>1, <1>2 DEF ListingIsTrue, ListedTopics
<1>4. ASSUME PlanIsTrue
      PROVE  PlanIsTrue'
  <2> DEFINE come == Declared(Source) \ unplanned
  <2>1. come \in SUBSET Declared(Source)
    OBVIOUS
  <2>2. PlannedFor(Source, cluster', target, registry', come)
           = PlannedFor(Source, cluster, target, registry, come)
    BY <1>2, <2>1, ElsewhereLeaves
  <2>3. ASSUME pc = "plan"
        PROVE  changes = Planned(come).changes' /\ blocked = Planned(come).blocked'
    BY <1>1, <1>4, <2>2, <2>3 DEF PlanIsTrue, Planned
  <2>4. ASSUME pc = "check", NEW t \in unplanned, IsNextTopic(t)
        PROVE  /\ Lacks(Source, registry', target, t)
               /\ latest = LatestSchema(registry', Source.topics[t].schema.subject)
               /\ changes = Planned(come).changes' \union NeedsOf(Source, target, t, cluster'[t])
               /\ blocked = Planned(come).blocked' \union RefusalsOf(Source, target, t, cluster'[t])
    <3>1. /\ Lacks(Source, registry, target, t)
          /\ latest = LatestSchema(registry, Source.topics[t].schema.subject)
          /\ changes = Planned(come).changes \union NeedsOf(Source, target, t, cluster[t])
          /\ blocked = Planned(come).blocked \union RefusalsOf(Source, target, t, cluster[t])
      BY <1>4, <2>4 DEF PlanIsTrue
    <3>2. t \in Declared(Source) /\ t \in Topics /\ Source.topics[t].schema # None
      BY <1>2, <3>1, RevisionFacts DEF Lacks, HasSchemaToPlan
    <3>3. /\ NeedsOf(Source, target, t, cluster'[t]) = NeedsOf(Source, target, t, cluster[t])
          /\ RefusalsOf(Source, target, t, cluster'[t]) = RefusalsOf(Source, target, t, cluster[t])
          /\ Lacks(Source, registry', target, t) <=> Lacks(Source, registry, target, t)
          /\ registry'[Source.topics[t].schema.subject]
                = registry[Source.topics[t].schema.subject]
      BY <1>2, <3>2, ElsewhereLeaves
    <3>4. Planned(come)' = Planned(come)
      BY <1>1, <2>2 DEF Planned
    <3>5. latest = LatestSchema(registry', Source.topics[t].schema.subject)
      BY <3>1, <3>3 DEF LatestSchema
    <3> HIDE DEF come
    <3> QED
      BY <3>1, <3>3, <3>4, <3>5
  <2> QED
    BY <1>1, <2>3, <2>4 DEF PlanIsTrue, IsNextTopic
<1> QED
  BY <1>3, <1>4

LEMMA ElsewhereKeepsWork ==
    ASSUME CustodyInvariant, Elsewhere, pc = "execute"
    PROVE  /\ WorkIsNeeded => WorkIsNeeded'
           /\ RegistrationIsLeft => RegistrationIsLeft'
<1>1. /\ UNCHANGED <<target, stage, pc, changes, blocked, todo, failed>>
      /\ Source' = Source
  BY DEF Elsewhere, piped, run, Source
<1>2. Source \in Revision /\ Source \in Revisions
  BY WorksTowardsOurs DEF CustodyInvariant, HasSource, Busy
<1>3. Needs' = Needs /\ Refusals' = Refusals
  BY <1>1, <1>2, ElsewhereLeaves DEF Needs, Refusals
<1>4. WorkIsNeeded => WorkIsNeeded'
  BY <1>1, <1>3 DEF WorkIsNeeded, StageDoes
<1>5. \A t \in Declared(Source) : HasSchemaToPlan(t, Source.topics[t], target) =>
          registry'[Source.topics[t].schema.subject] = registry[Source.topics[t].schema.subject]
  BY <1>2, ElsewhereLeaves DEF HasSchemaToPlan
<1>6. RegistrationIsLeft => RegistrationIsLeft'
  BY <1>1, <1>5 DEF RegistrationIsLeft, Knows, Versions
<1> QED
  BY <1>4, <1>6

LEMMA ElsewhereKeepsSuccess ==
    ASSUME CustodyInvariant, Elsewhere, pc = "returned", SuccessIsTrue
    PROVE  SuccessIsTrue'
<1>1. /\ UNCHANGED <<target, stage, revision, pc, verdict, quiet>>
      /\ Source' = Source
  BY DEF Elsewhere, piped, run, Source
<1>2. revision \in Revisions
  BY WorksTowardsOurs
<1>3. /\ InSync(revision, cluster', target, registry')
            <=> InSync(revision, cluster, target, registry)
      /\ SchemaRefusals(revision, registry', target) = SchemaRefusals(revision, registry, target)
      /\ TopicRefusals(revision, cluster', target) = TopicRefusals(revision, cluster, target)
  BY <1>2, ElsewhereLeaves
<1>4. AllRegistered(revision) => AllRegistered(revision)'
  <2>1. \A t \in Declared(revision) : HasSchemaToPlan(t, revision.topics[t], target) =>
            registry'[revision.topics[t].schema.subject]
               = registry[revision.topics[t].schema.subject]
    BY <1>2, ElsewhereLeaves DEF HasSchemaToPlan
  <2> QED
    BY <1>1, <2>1 DEF AllRegistered, Knows, Versions
<1>5. Source # None => Needs' = Needs /\ Refusals' = Refusals
  BY <1>1, WorksTowardsOurs, ElsewhereLeaves DEF Needs, Refusals
<1>6. /\ stage = "KAFKA_PLAN" => Source = revision
      /\ Faithful' <=> Faithful
      /\ Faithful => Source # None
      /\ revision # None
  BY <1>1, <1>2, DeploymentAssumption DEF Source, Faithful
<1> QED
  BY <1>1, <1>3, <1>4, <1>5, <1>6 DEF SuccessIsTrue

\* While somebody else is at work elsewhere, a stage keeps to all it has found
\* and done.
LEMMA ElsewhereKeepsStage ==
    ASSUME CustodyInvariant, StageInvariant, Elsewhere
    PROVE  StageInvariant'
<1>1. /\ UNCHANGED <<target, stage, pc, quiet, unplanned, changes, blocked, failed>>
      /\ Source' = Source /\ Undisturbed' = Undisturbed
  BY DEF Elsewhere, piped, run, Source, Undisturbed
<1>2. StartsAfresh' /\ HasRegistry'
  BY <1>1 DEF StageInvariant, StartsAfresh, HasRegistry
<1>3. ASSUME Undisturbed
      PROVE  ListingIsTrue' /\ PlanIsTrue'
  BY <1>1, <1>3, ElsewhereKeepsPlan DEF StageInvariant, ListingIsTrue, PlanIsTrue
<1>4. ASSUME Undisturbed
      PROVE  WorkIsNeeded' /\ RegistrationIsLeft'
  BY <1>1, <1>4, ElsewhereKeepsWork DEF StageInvariant, WorkIsNeeded, RegistrationIsLeft
<1>5. ASSUME Undisturbed
      PROVE  SuccessIsTrue'
  BY <1>1, <1>5, ElsewhereKeepsSuccess DEF StageInvariant, SuccessIsTrue
<1> QED
  BY <1>1, <1>2, <1>3, <1>4, <1>5 DEF StageInvariant

-----------------------------------------------------------------------------
(***************************************************************************)
(* Every step keeps what a stage has found and done.                       *)
(***************************************************************************)
LEMMA NextStageInvariant ==
    ASSUME CustodyInvariant, StageInvariant, [Next]_vars
    PROVE  StageInvariant'
<1>1. CASE Piped
  BY <1>1, PipedKeeps
<1>2. CASE Restart
  BY <1>2, RestartKeeps
<1>3. CASE Others
  BY <1>3, OthersKeep
<1>4. CASE Begin
  BY <1>4, BeginKeeps
<1>5. CASE List
  BY <1>5, ListKeeps
<1>6. CASE Describe
  BY <1>6, DescribeKeeps
<1>7. CASE \E t \in Topics : PlanNextTopic(t)
  BY <1>7, PlanNextTopicKeeps
<1>8. CASE \E t \in Topics : CheckNextSchema(t)
  BY <1>8, CheckNextSchemaKeeps
<1>9. CASE Decide
  BY <1>9, DecideKeeps
<1>10. CASE \E c \in todo : Perform(c) \/ Refused(c) \/ RequestLost(c) \/ AnswerLost(c)
  BY <1>10, TryKeeps
<1>11. CASE Finish
  BY <1>11, FinishKeeps
<1>12. CASE ReadFails
  BY <1>12, ReadFailsKeep
<1>13. CASE CutOff
  BY <1>13, CutOffKeeps
<1>14. CASE UNCHANGED vars
  BY <1>14, StutterKeeps
<1>15. CASE Plugin
  BY <1>4, <1>5, <1>6, <1>7, <1>8, <1>9, <1>10, <1>11, <1>15 DEF Plugin
<1>16. CASE Faults
  BY <1>10, <1>12, <1>13, <1>16 DEF Faults
<1> QED
  BY <1>1, <1>2, <1>3, <1>14, <1>15, <1>16 DEF Next

LEMMA InitStageInvariant ==
    ASSUME Init
    PROVE  StageInvariant
BY DEF Init, StageInvariant, StartsAfresh, HasRegistry, ListingIsTrue, PlanIsTrue,
       WorkIsNeeded, RegistrationIsLeft, SuccessIsTrue, Planning

\* Whatever fails, and wherever piped restarts: a stage nobody interferes with
\* has planned what Build would plan, has what is needed left to do, and what it
\* returns as a success is one.
THEOREM StageInvariantHolds == Spec => [](CustodyInvariant /\ StageInvariant)
<1>1. Init => StageInvariant
  BY InitStageInvariant
<1>2. CustodyInvariant /\ StageInvariant /\ [Next]_vars => StageInvariant'
  BY NextStageInvariant
<1> QED
  BY <1>1, <1>2, CustodyInvariantHolds, PTL DEF Spec

-----------------------------------------------------------------------------
(***************************************************************************)
(* What a stage promises.                                                  *)
(***************************************************************************)
LEMMA ApplySuccessIsTrue ==
    ASSUME CustodyInvariant, StageInvariant
    PROVE  ApplySuccessMeansConverged
<1> SUFFICES ASSUME Returned("KAFKA_APPLY", "success"), quiet.run, Faithful
             PROVE  TopicsConform(revision)
  BY DEF ApplySuccessMeansConverged
<1>1. Source = revision /\ revision \in Revision /\ target \in Target /\ cluster \in Clusters
  BY DEF Source, Returned, CustodyInvariant, TypeOK, InDeployment
<1>2. Needs = {} /\ Refusals = {}
  BY DEF StageInvariant, Undisturbed, SuccessIsTrue, Returned
<1> QED
  BY <1>1, <1>2, NoTopicNeeds DEF Needs, Refusals, TopicsConform

\* KAFKA_APPLY reports success only if, for as long as nobody else changes
\* anything, every declared topic is as declared and nothing is left to delete.
THEOREM ApplySuccessHolds == Spec => []ApplySuccessMeansConverged
<1>1. CustodyInvariant /\ StageInvariant => ApplySuccessMeansConverged
  BY ApplySuccessIsTrue
<1> QED
  BY <1>1, StageInvariantHolds, PTL

LEMMA RollbackSuccessIsTrue ==
    ASSUME CustodyInvariant, StageInvariant
    PROVE  RollbackSuccessMeansRestored
<1> SUFFICES ASSUME Returned("KAFKA_ROLLBACK", "success"), quiet.run, Faithful
             PROVE  TopicsConform(running)
  BY DEF RollbackSuccessMeansRestored
<1>1. Source = running /\ running \in Revision /\ target \in Target /\ cluster \in Clusters
  BY DeploymentAssumption
  DEF Source, Returned, CustodyInvariant, TypeOK, Faithful
<1>2. Needs = {} /\ Refusals = {}
  BY DEF StageInvariant, Undisturbed, SuccessIsTrue, Returned
<1> QED
  BY <1>1, <1>2, NoTopicNeeds DEF Needs, Refusals, TopicsConform

\* KAFKA_ROLLBACK reports success only if every topic is as the running revision
\* declares it: what it left alone, or was refused, makes it a failure.
THEOREM RollbackSuccessHolds == Spec => []RollbackSuccessMeansRestored
<1>1. CustodyInvariant /\ StageInvariant => RollbackSuccessMeansRestored
  BY RollbackSuccessIsTrue
<1> QED
  BY <1>1, StageInvariantHolds, PTL

\* KAFKA_REGISTER_SCHEMA reports success only if the registry knows every
\* declared body, although each registration was planned before the first.
THEOREM RegisterSuccessHolds == Spec => []RegisterSuccessMeansRegistered
<1>1. StageInvariant => RegisterSuccessMeansRegistered
  BY DEF StageInvariant, Undisturbed, SuccessIsTrue, Returned, AllRegistered, Knows,
         RegisterSuccessMeansRegistered
<1> QED
  BY <1>1, StageInvariantHolds, PTL

LEMMA WorkCanBeResumed ==
    ASSUME CustodyInvariant, StageInvariant
    PROVE  ApplyCanBeResumed
<1> SUFFICES ASSUME pc = "execute", stage = "KAFKA_APPLY", quiet.run, Faithful
             PROVE  LET now == TopicChanges(Build(revision, cluster, target, registry).changes)
                    IN  todo \subseteq now /\ now \subseteq todo \union failed
  BY DEF ApplyCanBeResumed
<1>1. Source = revision /\ revision \in Revision
  BY DEF Source, CustodyInvariant, InDeployment
<1>2. TopicChanges(Build(revision, cluster, target, registry).changes) = Needs
  BY <1>1, BuildParts DEF Needs
<1>3. /\ TopicChanges(todo) \subseteq Needs
      /\ \A c \in Needs : StageDoes(c) => c \in todo \union failed
  BY DEF StageInvariant, WorkIsNeeded, Undisturbed, Faithful
<1>4. \A c \in Needs : StageDoes(c)
  BY <1>1, NeedsAreOfTopics DEF StageDoes
<1>5. todo = TopicChanges(todo)
  BY DEF CustodyInvariant, PlanIsWarranted, StageDoes, TopicChanges
<1> QED
  BY <1>2, <1>3, <1>4, <1>5

\* While KAFKA_APPLY is at work undisturbed, a fresh plan would hold what it has
\* left, and otherwise only what failed: it may be interrupted anywhere and
\* executed again.
THEOREM ApplyResumes == Spec => []ApplyCanBeResumed
<1>1. CustodyInvariant /\ StageInvariant => ApplyCanBeResumed
  BY WorkCanBeResumed
<1> QED
  BY <1>1, StageInvariantHolds, PTL

LEMMA WorkIsAcceptable ==
    ASSUME CustodyInvariant, StageInvariant
    PROVE  PlannedChangesAreAcceptable
<1> SUFFICES ASSUME pc = "execute", quiet.run, Faithful, NEW c \in TopicChanges(todo)
             PROVE  Accepted(cluster, registry, c)
  BY DEF PlannedChangesAreAcceptable
<1>1. /\ Source \in Revision /\ target \in Target /\ cluster \in Clusters
      /\ CountsFit(Source)
  BY DEF CustodyInvariant, TypeOK, HasSource, Busy, Faithful
<1>2. c \in Needs
  BY <1>1 DEF StageInvariant, WorkIsNeeded, Undisturbed
<1> QED
  BY <1>1, <1>2, TopicNeedsAreMet DEF Needs

\* The cluster accepts every topic change an undisturbed stage has left, in
\* whatever order the others go.
THEOREM PlannedChangesAccepted == Spec => []PlannedChangesAreAcceptable
<1>1. CustodyInvariant /\ StageInvariant => PlannedChangesAreAcceptable
  BY WorkIsAcceptable
<1> QED
  BY <1>1, StageInvariantHolds, PTL

-----------------------------------------------------------------------------
(***************************************************************************)
(* The order of an apply.                                                  *)
(***************************************************************************)
\* A stage that stops at its first failure is not at work after one.
NoFailureYet == pc = "execute" /\ StopsAtFailure => failed = {}

LEMMA NoFailureYetStays ==
    ASSUME StageInvariant, NoFailureYet, [Next]_vars
    PROVE  NoFailureYet'
<1>1. CASE pc' # "execute"
  BY <1>1 DEF NoFailureYet
<1>2. CASE Decide
  BY <1>2 DEF Decide, StageInvariant, StartsAfresh, Planning, NoFailureYet
<1>3. CASE \E c \in todo : Perform(c) \/ Refused(c) \/ RequestLost(c) \/ AnswerLost(c)
  <2>1. PICK c \in todo : Perform(c) \/ Refused(c) \/ RequestLost(c) \/ AnswerLost(c)
    BY <1>3
  <2>2. /\ pc = "execute" /\ UNCHANGED piped
        /\ failed' = failed \/ AnswersError(c)
    BY <2>1 DEF Perform, Refused, RequestLost, AnswerLost, Try
  <2>3. AnswersError(c) => pc' # "execute" \/ ~StopsAtFailure
    BY DEF AnswersError, Return
  <2> QED
    BY <2>2, <2>3 DEF NoFailureYet, StopsAtFailure, piped
<1>4. CASE CutOff
  BY <1>4 DEF CutOff, NoFailureYet, StopsAtFailure, piped
<1>5. CASE Others \/ UNCHANGED vars
  BY <1>5 DEF Others, vars, run, piped, NoFailureYet, StopsAtFailure
<1>6. CASE Piped \/ Restart
  BY <1>6 DEF Piped, StartDeployment, NextStage, Complete, StartRollback, GiveUp, Restart,
              NoFailureYet, StopsAtFailure
<1>7. CASE \/ Begin \/ List \/ Describe \/ Finish \/ ReadFails
           \/ \E t \in Topics : PlanNextTopic(t) \/ CheckNextSchema(t)
  <2>1. pc' # "execute"
    BY <1>7 DEF Begin, List, Describe, Finish, ReadFails, PlanNextTopic, CheckNextSchema, Return
  <2> QED
    BY <1>1, <2>1
<1> QED
  BY <1>1, <1>2, <1>3, <1>4, <1>5, <1>6, <1>7 DEF Next, Plugin, Faults

\* Only a deletion takes a topic off the cluster.
LEMMA OnlyDeletionsDelete ==
    ASSUME CustodyInvariant, NEW c \in todo, TakesEffect(c), NEW t \in Topics,
           cluster[t] # None, cluster'[t] = None
    PROVE  Deletes(c)
<1>1. /\ c \in Change /\ cluster \in Clusters /\ Accepted(cluster, registry, c)
      /\ cluster' = ClusterAfter(cluster, c) /\ cluster[t] \in TopicState
  BY DEF TakesEffect, CustodyInvariant, TypeOK, Clusters
<1>2. CASE c.kind = "CreateTopic"
  <2>1. cluster[c.topic] = None /\ cluster' = [cluster EXCEPT ![c.topic] = Requested(c.desired)]
    BY <1>1, <1>2 DEF Accepted, CreateAccepted, ClusterAfter, Created
  <2> QED
    BY <1>1, <2>1 DEF Clusters
<1>3. CASE c.kind = "UpdateTopicConfig"
  <2>1. c.topic \in Topics /\ c.set \in UNION {[K -> Values] : K \in SUBSET Keys}
    BY <1>1, <1>3 DEF Change
  <2> DEFINE altered == Alter(cluster[t].config, c.set, c.delete)
  <2>2. altered \in Config
    BY <1>1, <2>1, AlterType DEF TopicState
  <2>3. [cluster[t] EXCEPT !.config = altered] \in TopicState
    BY <1>1, <2>2 DEF TopicState
  <2>4. t = c.topic => cluster'[t] = [cluster[t] EXCEPT !.config = altered]
    BY <1>1, <1>3 DEF ClusterAfter, Altered, Clusters
  <2>5. t # c.topic => cluster'[t] = cluster[t]
    BY <1>1, <1>3 DEF ClusterAfter, Altered, Clusters
  <2> QED
    BY <2>3, <2>4, <2>5, ProviderAssumption
<1>4. CASE c.kind = "IncreasePartitions"
  <2>1. cluster' = [cluster EXCEPT ![c.topic].partitions = Narrowed(c.to, MaxPartitions)]
    BY <1>1, <1>4 DEF ClusterAfter, Increased
  <2>2. c.to \in Positive
    BY <1>1, <1>4 DEF Change
  <2>3. Narrowed(c.to, MaxPartitions) > cluster[c.topic].partitions
    BY <1>1, <1>4 DEF Accepted, IncreaseAccepted
  <2>4. Narrowed(c.to, MaxPartitions) \in Int
    BY <2>2, NarrowedType, ProviderAssumption DEF Positive
  <2>5. t = c.topic => [cluster[t] EXCEPT !.partitions = Narrowed(c.to, MaxPartitions)]
                         \in TopicState
    BY <1>1, <2>3, <2>4 DEF TopicState, Positive
  <2>6. t = c.topic => cluster'[t]
                         = [cluster[t] EXCEPT !.partitions = Narrowed(c.to, MaxPartitions)]
    BY <1>1, <2>1 DEF Clusters
  <2>7. t # c.topic => cluster'[t] = cluster[t]
    BY <1>1, <2>1 DEF Clusters
  <2> QED
    BY <2>5, <2>6, <2>7, ProviderAssumption
<1>5. CASE c.kind = "RegisterSchema"
  BY <1>1, <1>5 DEF ClusterAfter
<1> QED
  BY <1>1, <1>2, <1>3, <1>4, <1>5 DEF Change, Deletes

\* When a deletion is next, and nothing has failed, no declared topic needs or is
\* refused anything.
LEMMA OnlyDeletionsAreLeft ==
    ASSUME CustodyInvariant, StageInvariant, stage = "KAFKA_APPLY", pc = "execute",
           quiet.run, Faithful, failed = {},
           NEW c \in todo, IsNext(c, todo), Deletes(c), NEW u \in Declared(revision)
    PROVE  cluster[u] = DesiredState(revision.topics[u])
<1>1. /\ Source = revision /\ revision \in Revision /\ target \in Target
      /\ cluster \in Clusters /\ u \in Topics
  BY RevisionFacts DEF Source, CustodyInvariant, InDeployment, TypeOK
<1>2. \A d \in todo : Deletes(d)
  BY DEF IsNext, Before
<1>3. /\ \A d \in Needs : StageDoes(d) => d \in todo
      /\ Refusals \subseteq blocked /\ blocked = {}
  BY DEF StageInvariant, Undisturbed, WorkIsNeeded, Faithful, CustodyInvariant, PlanIsWarranted
<1>4. \A d \in Needs : Deletes(d)
  BY <1>1, <1>2, <1>3, NeedsAreOfTopics DEF StageDoes
<1>5. \A d \in NeedsOf(Source, target, u, cluster[u]) : ~Deletes(d)
  BY <1>1 DEF NeedsOf, PlanTopic, CompareExisting, ConfigChanges, When, CreateTopic,
              IncreasePartitions, UpdateTopicConfig, Deletes
<1>6. /\ NeedsOf(Source, target, u, cluster[u]) \subseteq Needs
      /\ RefusalsOf(Source, target, u, cluster[u]) \subseteq Refusals
  BY <1>1 DEF Needs, Refusals, TopicNeeds, TopicRefusals
<1>7. /\ NeedsOf(Source, target, u, cluster[u]) = {}
      /\ RefusalsOf(Source, target, u, cluster[u]) = {}
  BY <1>3, <1>4, <1>5, <1>6
<1>8. cluster[u] \in TopicState \union {None}
  BY <1>1 DEF Clusters
<1> QED
  BY <1>1, <1>7, <1>8, NothingNeeded

LEMMA StepDeletesLast ==
    ASSUME CustodyInvariant, StageInvariant, NoFailureYet, Next, NEW t \in Topics,
           stage = "KAFKA_APPLY", pc = "execute", StopsAtFailure \/ failed = {},
           quiet.run, quiet'.run, Faithful, cluster[t] # None, cluster'[t] = None,
           NEW u \in Declared(revision)
    PROVE  cluster[u] = DesiredState(revision.topics[u])
<1>1. cluster' # cluster
  OBVIOUS
<1>2. PICK c \in todo : Try(c) /\ TakesEffect(c)
  <2>1. ~Piped /\ ~Restart
    BY <1>1 DEF Piped, StartDeployment, NextStage, Complete, StartRollback, GiveUp, Restart, world
  <2>2. ~Others
    BY DEF Others
  <2>3. ~Begin /\ ~List /\ ~Describe /\ ~Decide /\ ~Finish /\ ~ReadFails /\ ~CutOff
    BY <1>1 DEF Begin, List, Describe, Decide, Finish, ReadFails, CutOff, world
  <2>4. \A v \in Topics : ~PlanNextTopic(v) /\ ~CheckNextSchema(v)
    BY DEF PlanNextTopic, CheckNextSchema
  <2>5. \A d \in todo : ~Refused(d) /\ ~RequestLost(d)
    BY <1>1 DEF Refused, RequestLost, world
  <2> QED
    BY <2>1, <2>2, <2>3, <2>4, <2>5 DEF Next, Plugin, Faults, Perform, AnswerLost
<1>3. Deletes(c)
  BY <1>2, OnlyDeletionsDelete
<1>4. IsNext(c, todo) /\ failed = {}
  BY <1>2 DEF Try, NoFailureYet
<1> QED
  BY <1>3, <1>4, OnlyDeletionsAreLeft

\* An undisturbed apply deletes a topic only once every declared topic is as
\* declared, unless it continues on errors and a change failed.
THEOREM DeletionsAreLast == Spec => DeletionsComeLast
<1>1. Init => NoFailureYet
  BY DEF Init, NoFailureYet
<1>2. CustodyInvariant /\ StageInvariant /\ NoFailureYet /\ [Next]_vars => NoFailureYet'
  BY NoFailureYetStays
<1> DEFINE deletesLast ==
      \A t \in Topics :
          (/\ stage = "KAFKA_APPLY" /\ pc = "execute"
           /\ StopsAtFailure \/ failed = {}
           /\ quiet.run /\ quiet'.run /\ Faithful
           /\ cluster[t] # None /\ cluster'[t] = None)
          => \A u \in Declared(revision) :
                cluster[u] = DesiredState(revision.topics[u])
<1>3. CustodyInvariant /\ StageInvariant /\ NoFailureYet /\ [Next]_vars => [deletesLast]_vars
  BY StepDeletesLast
<1> QED
  BY <1>1, <1>2, <1>3, StageInvariantHolds, PTL DEF Spec, DeletionsComeLast
=============================================================================
