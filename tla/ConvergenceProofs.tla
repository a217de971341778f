------------------------- MODULE ConvergenceProofs -------------------------
(***************************************************************************)
(* Proofs, for any declaration and any state of the two services, that an  *)
(* empty plan means there is nothing to do, that a plan which has been     *)
(* carried out in part is what building it again yields the rest of, and   *)
(* that the services accept all of that rest.                              *)
(***************************************************************************)
EXTENDS Convergence, PlanProofs

\* What Build yields is of the type of a plan.
LEMMA BuildType ==
    ASSUME NEW r \in Revision, NEW g \in Target, NEW clu \in Clusters,
           NEW reg \in Registries, ~BuildFails(r, g)
    PROVE  LET plan == Build(r, clu, g, reg)
           IN  plan.changes \subseteq Change /\ plan.blocked \subseteq BlockedTypes
<1> DEFINE topic(t)  == PlanTopic(t, r.topics[t], clu[t], g)
           schema(t) == SchemaPlan(t, r.topics[t], g, reg)
           deletions == PlanDeletions(r, clu, g)
<1>1. ASSUME NEW t \in Declared(r)
      PROVE  topic(t).changes \subseteq Change /\ topic(t).blocked \subseteq BlockedTypes
  <2>1. clu[t] \in TopicState \union {None}
    BY RevisionFacts DEF Clusters
  <2> QED
    BY <2>1, PlanTopicWarranted
<1>2. ASSUME NEW t \in Declared(r)
      PROVE  schema(t).changes \subseteq Change /\ schema(t).blocked \subseteq BlockedTypes
  <2> DEFINE latest == LatestSchema(reg, r.topics[t].schema.subject)
             compatible == CheckCompatibility(reg, r.topics[t].schema.subject,
                                              r.topics[t].schema.body)
  <2>1. CASE Lacks(r, reg, g, t)
    <3>1. schema(t) = PlanSchema(t, r.topics[t], latest, compatible)
      BY <2>1 DEF SchemaPlan, Lacks
    <3>2. HasSchemaToPlan(t, r.topics[t], g) /\ g.schemaRegistry
      BY <2>1 DEF Lacks, BuildFails
    <3>3. latest \in Bodies \union {None}
      <4>1. r.topics[t].schema.subject \in Subjects
        BY <2>1, RegistrationFacts
      <4> QED
        BY <4>1 DEF LatestSchema, Registries, Subject
    <3> QED
      BY <3>1, <3>2, <3>3, PlanSchemaWarranted
  <2>2. CASE ~Lacks(r, reg, g, t)
    BY <2>2 DEF SchemaPlan, Lacks
  <2> QED
    BY <2>1, <2>2
<1>3. deletions.changes \subseteq Change /\ deletions.blocked \subseteq BlockedTypes
  BY PlanDeletionsWarranted
<1>4. /\ Build(r, clu, g, reg).changes
            = (UNION {topic(t).changes \union schema(t).changes : t \in Declared(r)})
              \union deletions.changes
      /\ Build(r, clu, g, reg).blocked
            = (UNION {topic(t).blocked \union schema(t).blocked : t \in Declared(r)})
              \union deletions.blocked
  BY DEF Build
<1> HIDE DEF topic, schema, deletions
<1> QED
  BY <1>1, <1>2, <1>3, <1>4

LEMMA InitHolds == Init => TypeOK /\ RebuildingYieldsTheRest
<1> SUFFICES ASSUME Init PROVE TypeOK /\ RebuildingYieldsTheRest
  OBVIOUS
<1>1. /\ revision \in Revision /\ target \in Target
      /\ cluster \in Clusters /\ registry \in Registries
  BY ConvergenceAssumption DEF Init
<1>2. refused \subseteq BlockedTypes /\ todo \subseteq Change
  BY <1>1, BuildType DEF Init
<1>3. Build(revision, cluster, target, registry) = [changes |-> todo, blocked |-> refused]
  BY DEF Init, Build
<1> QED
  BY <1>1, <1>2, <1>3 DEF TypeOK, BlockedTypes, RebuildingYieldsTheRest

\* A body never leaves the older versions of its subject, so that what has not
\* been reverted after a change was not before it.
LEMMA RevertedStays ==
    ASSUME NEW r \in Revision, NEW reg \in Registries, NEW c \in Change,
           NothingReverted(r, RegistryAfter(reg, c))
    PROVE  NothingReverted(r, reg)
<1> SUFFICES ASSUME NEW t \in Declared(r), r.topics[t].schema # None
             PROVE  r.topics[t].schema.body \notin reg[r.topics[t].schema.subject].older
  BY DEF NothingReverted
<1> DEFINE subject == r.topics[t].schema.subject
<1>1. subject \in Subjects
  BY RevisionFacts DEF Topic, Schema
<1>2. reg[subject].older \subseteq RegistryAfter(reg, c)[subject].older
  <2>1. CASE c.kind = "RegisterSchema"
    <3>1. c.subject \in Subjects /\ c.body \in Bodies
      BY <2>1 DEF Change
    <3>2. \A u \in Subjects : reg[u].older \subseteq Registered(reg, c.subject, c.body)[u].older
      BY <3>1, VersionsStay
    <3> QED
      BY <1>1, <2>1, <3>2 DEF RegistryAfter
  <2>2. CASE c.kind # "RegisterSchema"
    BY <2>2 DEF RegistryAfter
  <2> QED
    BY <2>1, <2>2
<1> QED
  BY <1>2 DEF NothingReverted

LEMMA ApplyChangeHolds ==
    ASSUME TypeOK, RebuildingYieldsTheRest, NEW c \in todo, ApplyChange(c)
    PROVE  TypeOK' /\ RebuildingYieldsTheRest'
<1>1. /\ c \in Change /\ Accepted(cluster, registry, c)
      /\ cluster' = ClusterAfter(cluster, c) /\ registry' = RegistryAfter(registry, c)
      /\ todo' = todo \ {c} /\ refused' = refused
      /\ revision' = revision /\ target' = target
      /\ revision \in Revision /\ target \in Target
      /\ cluster \in Clusters /\ registry \in Registries
  BY DEF TypeOK, ApplyChange
<1>2. TypeOK'
  <2>1. cluster' \in Clusters /\ registry' \in Registries
    BY <1>1, ApplyType
  <2> QED
    BY <1>1, <2>1 DEF TypeOK
<1>3. ASSUME DistinctSubjects(revision), CountsFit(revision), NothingReverted(revision, registry')
      PROVE  Build(revision, cluster', target, registry')
               = [changes |-> todo \ {c}, blocked |-> refused]
  <2>1. NothingReverted(revision, registry)
    BY <1>1, <1>3, RevertedStays
  <2>2. Build(revision, cluster, target, registry) = [changes |-> todo, blocked |-> refused]
    BY <1>3, <2>1 DEF RebuildingYieldsTheRest
  <2> DEFINE topics  == TopicNeeds(revision, cluster, target)
             schemas == SchemaNeeds(revision, registry, target)
             topicsAfter  == TopicNeeds(revision, cluster', target)
             schemasAfter == SchemaNeeds(revision, registry', target)
  <2>3. /\ todo = topics \union schemas
        /\ refused = TopicRefusals(revision, cluster, target)
                     \union SchemaRefusals(revision, registry, target)
    BY <1>1, <2>2, BuildByTopic
  <2>4. /\ \A d \in topics : d.kind # "RegisterSchema"
        /\ \A d \in schemas : d.kind = "RegisterSchema"
    <3>1. \A d \in topics : d.kind # "RegisterSchema"
      BY <1>1, <1>3, TopicNeedsAreMet
    <3>2. \A d \in schemas : d.kind = "RegisterSchema"
      BY <1>1, RegistrationAccepted
    <3> QED
      BY <3>1, <3>2
  <2>5. /\ topicsAfter = topics \ {c} /\ schemasAfter = schemas \ {c}
        /\ TopicRefusals(revision, cluster', target) = TopicRefusals(revision, cluster, target)
        /\ SchemaRefusals(revision, registry', target) = SchemaRefusals(revision, registry, target)
    <3>1. CASE c \in topics
      <4>1. registry' = registry /\ c \notin schemas
        BY <1>1, <2>4, <3>1 DEF RegistryAfter
      <4>2. /\ TopicNeeds(revision, ClusterAfter(cluster, c), target) = topics \ {c}
            /\ TopicRefusals(revision, ClusterAfter(cluster, c), target)
                  = TopicRefusals(revision, cluster, target)
        BY <1>1, <1>3, <3>1, TopicNeedsAreMet
      <4> QED
        BY <1>1, <4>1, <4>2
    <3>2. CASE c \in schemas
      <4>1. c.kind = "RegisterSchema" /\ c \notin topics
        BY <2>4, <3>2
      <4>2. cluster' = cluster
        BY <1>1, <4>1 DEF ClusterAfter
      <4>3. c.body \notin registry[c.subject].older
        <5>1. PICK t \in Declared(revision) :
                    c = Registration(revision, registry, t) /\ Lacks(revision, registry, target, t)
          BY <3>2, SchemaNeedsAre
        <5>2. c.subject = revision.topics[t].schema.subject /\ c.body = revision.topics[t].schema.body
          BY <1>1, <5>1, RegistrationFacts
        <5>3. revision.topics[t].schema # None
          BY <5>1 DEF Lacks, HasSchemaToPlan
        <5> QED
          BY <2>1, <5>2, <5>3 DEF NothingReverted
      <4>4. /\ SchemaNeeds(revision, RegistryAfter(registry, c), target) = schemas \ {c}
            /\ SchemaRefusals(revision, RegistryAfter(registry, c), target)
                  = SchemaRefusals(revision, registry, target)
        BY <1>1, <1>3, <3>2, <4>3, SchemaNeedsAreMet
      <4> QED
        BY <1>1, <4>1, <4>2, <4>4
    <3> QED
      BY <2>3, <3>1, <3>2
  <2>6. /\ Build(revision, cluster', target, registry').changes = topicsAfter \union schemasAfter
        /\ Build(revision, cluster', target, registry').blocked
              = TopicRefusals(revision, cluster', target)
                \union SchemaRefusals(revision, registry', target)
    BY <1>1, BuildByTopic
  <2> HIDE DEF topics, schemas, topicsAfter, schemasAfter
  <2>7. /\ Build(revision, cluster', target, registry').changes = todo \ {c}
        /\ Build(revision, cluster', target, registry').blocked = refused
    BY <2>3, <2>5, <2>6
  <2> QED
    BY <2>7 DEF Build
<1> QED
  BY <1>1, <1>2, <1>3 DEF RebuildingYieldsTheRest

-----------------------------------------------------------------------------
(***************************************************************************)
(* What is left of the plan, change by change.                             *)
(***************************************************************************)
\* What is left for the topics is what they need, what is left for the schemas
\* is acceptable, and no two registrations are of one subject.
RestIsNeeded ==
    CountsFit(revision) => TopicChanges(todo) \subseteq TopicNeeds(revision, cluster, target)

RestIsCompatible ==
    DistinctSubjects(revision) =>
        /\ \A c \in SchemaChanges(todo) : RegisterAccepted(registry, c.subject, c.body)
        /\ \A c, d \in SchemaChanges(todo) : c.subject = d.subject => c = d

LEMMA RestInit == TypeOK /\ Init => RestIsNeeded /\ RestIsCompatible
<1> SUFFICES ASSUME TypeOK, Init PROVE RestIsNeeded /\ RestIsCompatible
  OBVIOUS
<1> DEFINE schemas == SchemaNeeds(revision, registry, target)
<1>1. /\ TopicChanges(todo) = TopicNeeds(revision, cluster, target)
      /\ SchemaChanges(todo) = schemas
  BY BuildParts DEF TypeOK, Init
<1>2. ASSUME NEW c \in schemas
      PROVE  RegisterAccepted(registry, c.subject, c.body)
  BY RegistrationAccepted DEF TypeOK, Accepted
<1>3. ASSUME DistinctSubjects(revision), NEW c \in schemas, NEW d \in schemas,
             c.subject = d.subject
      PROVE  c = d
  <2>1. PICK t \in Declared(revision) :
              c = Registration(revision, registry, t) /\ Lacks(revision, registry, target, t)
    BY SchemaNeedsAre
  <2>2. PICK u \in Declared(revision) :
              d = Registration(revision, registry, u) /\ Lacks(revision, registry, target, u)
    BY SchemaNeedsAre
  <2>3. /\ c.subject = revision.topics[t].schema.subject
        /\ d.subject = revision.topics[u].schema.subject
    BY <2>1, <2>2, RegistrationFacts DEF TypeOK
  <2>4. revision.topics[t].schema # None /\ revision.topics[u].schema # None
    BY <2>1, <2>2 DEF Lacks, HasSchemaToPlan
  <2>5. t = u
    BY <1>3, <2>3, <2>4 DEF DistinctSubjects
  <2> QED
    BY <2>1, <2>2, <2>5
<1> HIDE DEF schemas
<1> QED
  BY <1>1, <1>2, <1>3 DEF RestIsNeeded, RestIsCompatible

LEMMA RestStays ==
    ASSUME TypeOK, RestIsNeeded, RestIsCompatible, NEW c \in todo, ApplyChange(c)
    PROVE  RestIsNeeded' /\ RestIsCompatible'
<1>1. /\ c \in Change
      /\ cluster' = ClusterAfter(cluster, c) /\ registry' = RegistryAfter(registry, c)
      /\ todo' = todo \ {c} /\ revision' = revision /\ target' = target
      /\ revision \in Revision /\ target \in Target
      /\ cluster \in Clusters /\ registry \in Registries
  BY DEF TypeOK, ApplyChange
<1>2. CASE c.kind # "RegisterSchema"
  <2>1. registry' = registry
    BY <1>1, <1>2 DEF RegistryAfter
  <2>2. RestIsCompatible'
    BY <1>1, <2>1 DEF RestIsCompatible, SchemaChanges
  <2>3. ASSUME CountsFit(revision)
        PROVE  TopicNeeds(revision, cluster', target)
                 = TopicNeeds(revision, cluster, target) \ {c}
    <3>1. c \in TopicNeeds(revision, cluster, target)
      BY <1>2, <2>3 DEF RestIsNeeded, TopicChanges
    <3> QED
      BY <1>1, <2>3, <3>1, TopicNeedsAreMet
  <2>4. RestIsNeeded'
    BY <1>1, <2>3 DEF RestIsNeeded, TopicChanges
  <2> QED
    BY <2>2, <2>4
<1>3. CASE c.kind = "RegisterSchema"
  <2>1. c.subject \in Subjects /\ c.body \in Bodies
    BY <1>1, <1>3 DEF Change
  <2>2. cluster' = cluster /\ registry' = Registered(registry, c.subject, c.body)
    BY <1>1, <1>3 DEF ClusterAfter, RegistryAfter
  <2>3. RestIsNeeded'
    BY <1>1, <2>2 DEF RestIsNeeded, TopicChanges
  <2>4. ASSUME DistinctSubjects(revision), NEW d \in SchemaChanges(todo')
        PROVE  RegisterAccepted(registry', d.subject, d.body)
    <3>1. /\ c \in SchemaChanges(todo) /\ d \in SchemaChanges(todo) /\ d # c
          /\ d.subject \in Subjects
      BY <1>1, <1>3, <2>4 DEF SchemaChanges, TypeOK, Change
    <3>2. d.subject # c.subject /\ RegisterAccepted(registry, d.subject, d.body)
      BY <2>4, <3>1 DEF RestIsCompatible
    <3>3. registry'[d.subject] = registry[d.subject]
      BY <1>1, <2>1, <2>2, <3>1, <3>2, VersionsStay
    <3> QED
      BY <3>2, <3>3 DEF RegisterAccepted, CheckCompatibility, Versions, LatestSchema
  <2>5. RestIsCompatible'
    BY <1>1, <2>4 DEF RestIsCompatible, SchemaChanges
  <2> QED
    BY <2>3, <2>5
<1> QED
  BY <1>2, <1>3

LEMMA RestIsAccepted == TypeOK /\ RestIsNeeded /\ RestIsCompatible => NothingIsRefused
<1> SUFFICES ASSUME TypeOK, RestIsNeeded, RestIsCompatible,
                    DistinctSubjects(revision), CountsFit(revision), NEW c \in todo
             PROVE  Accepted(cluster, registry, c)
  BY DEF NothingIsRefused
<1>1. CASE c.kind = "RegisterSchema"
  BY <1>1 DEF RestIsCompatible, SchemaChanges, Accepted
<1>2. CASE c.kind # "RegisterSchema"
  <2>1. c \in TopicNeeds(revision, cluster, target)
    BY <1>2 DEF RestIsNeeded, TopicChanges
  <2> QED
    BY <2>1, TopicNeedsAreMet DEF TypeOK
<1> QED
  BY <1>1, <1>2

-----------------------------------------------------------------------------
PlannerInvariant ==
    TypeOK /\ RebuildingYieldsTheRest /\ RestIsNeeded /\ RestIsCompatible

LEMMA InvariantHolds == Spec => []PlannerInvariant
<1>1. Init => PlannerInvariant
  BY InitHolds, RestInit DEF PlannerInvariant
<1>2. PlannerInvariant /\ [Next]_vars => PlannerInvariant'
  <2> SUFFICES ASSUME PlannerInvariant, [Next]_vars
               PROVE  PlannerInvariant'
    OBVIOUS
  <2>1. CASE Next
    BY <2>1, ApplyChangeHolds, RestStays DEF Next, PlannerInvariant
  <2>2. CASE UNCHANGED vars
    BY <2>2 DEF vars, PlannerInvariant, TypeOK, RebuildingYieldsTheRest, RestIsNeeded,
                RestIsCompatible
  <2> QED
    BY <2>1, <2>2
<1> QED
  BY <1>1, <1>2, PTL DEF Spec

\* What is left of a plan, and the two services, keep their types.
THEOREM PlannerTypeCorrect == Spec => []TypeOK
<1>1. PlannerInvariant => TypeOK
  BY DEF PlannerInvariant
<1> QED
  BY <1>1, InvariantHolds, PTL

\* However far a plan has been carried out, building it again yields just the
\* rest of it and the same refusals.
THEOREM RebuildingHolds == Spec => []RebuildingYieldsTheRest
<1>1. PlannerInvariant => RebuildingYieldsTheRest
  BY DEF PlannerInvariant
<1> QED
  BY <1>1, InvariantHolds, PTL

\* However far a plan has been carried out, the services accept each of the
\* changes left.
THEOREM NothingRefusedHolds == Spec => []NothingIsRefused
<1>1. PlannerInvariant => NothingIsRefused
  BY RestIsAccepted DEF PlannerInvariant
<1> QED
  BY <1>1, InvariantHolds, PTL

\* In every state the planner can be in, its plan is empty exactly when topics
\* and schemas are as declared.
THEOREM EmptyPlansHold == Spec => []EmptyPlanMeansInSync
<1>1. PlannerInvariant => EmptyPlanMeansInSync
  BY EmptyPlanIsSync DEF PlannerInvariant, TypeOK, EmptyPlanMeansInSync
<1> QED
  BY <1>1, InvariantHolds, PTL
=============================================================================
