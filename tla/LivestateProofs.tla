--------------------------- MODULE LivestateProofs ---------------------------
(***************************************************************************)
(* What a drift report says, for every application and deploy target: its  *)
(* two halves agree with each other, whatever others do between its reads, *)
(* and its status is the truth when nobody does anything.                  *)
(***************************************************************************)
EXTENDS Livestate, PlanProofs

Comparing == {"subjects", "plan", "check"}

\* Every topic shown is one of the listing, seen through the declarations.
ShownFromListing ==
    pc \in Comparing => \A r \in resources :
        r.kind = "Topic" => r \in TopicResources(Declared(revision), revision.ownership)

\* As long as the plan is empty, each declared topic Build has come to is there.
PlannedFromListing ==
    /\ pc = "subjects" => unplanned = Declared(revision)
    /\ pc \in {"plan", "check"} /\ Empty(plan) =>
          \A t \in Declared(revision) \ unplanned : actual[t] # None

\* What a report that says synced shows of topics.
SyncedShowsTopics ==
    Reported("synced") => \A r \in resources : r.kind = "Topic" =>
        /\ r.health = "healthy"
        /\ r.noted => r.topic \in target.protectedTopics

ReportInv ==
    /\ revision \in Revision
    /\ ShownFromListing /\ PlannedFromListing
    /\ SyncedShowsTopics

LEMMA ReportInit == Init => ReportInv
BY LivestateAssumption
   DEF Init, ReportInv, ShownFromListing, PlannedFromListing, SyncedShowsTopics, Comparing,
       Reported

-----------------------------------------------------------------------------
(***************************************************************************)
(* What an empty plan says.                                                *)
(***************************************************************************)
LEMMA ExtendedEmpty ==
    ASSUME NEW more, Empty(Extended(more))
    PROVE  Empty(plan) /\ Empty(more)
BY DEF Empty, Extended

LEMMA NothingToPlanForTopic ==
    ASSUME NEW t, NEW topic, NEW a, NEW g, Empty(PlanTopic(t, topic, a, g))
    PROVE  a # None
BY DEF Empty, PlanTopic

LEMMA SchemaPlanIsNotEmpty ==
    ASSUME NEW t, NEW topic, NEW found, NEW compatible
    PROVE  ~Empty(PlanSchema(t, topic, found, compatible))
BY DEF Empty, PlanSchema

LEMMA NothingToDelete ==
    ASSUME NEW r, NEW a, NEW g, Empty(PlanDeletions(r, a, g))
    PROVE  Undeclared(r, a, g) = {}
<1> SUFFICES ASSUME NEW t \in Undeclared(r, a, g) PROVE FALSE
    OBVIOUS
<1> DEFINE gone == Undeclared(r, a, g)
<1>1. PlanDeletions(r, a, g)
        = [changes |-> {DeleteTopic(u) : u \in {v \in gone : g.allowTopicDeletion}},
           blocked |-> {Blocked(u, "deletion") : u \in {v \in gone : ~g.allowTopicDeletion}}]
    BY DEF PlanDeletions
<1>2. CASE g.allowTopicDeletion
    <2>1. DeleteTopic(t) \in PlanDeletions(r, a, g).changes BY <1>1, <1>2
    <2> QED BY <2>1 DEF Empty
<1>3. CASE ~g.allowTopicDeletion
    <2>1. Blocked(t, "deletion") \in PlanDeletions(r, a, g).blocked BY <1>1, <1>3
    <2> QED BY <2>1 DEF Empty
<1> QED BY <1>2, <1>3

-----------------------------------------------------------------------------
(***************************************************************************)
(* The steps that matter: what is shown, what is planned, what is decided. *)
(***************************************************************************)
LEMMA LoadStep == ReportInv /\ Load => ReportInv'
<1> SUFFICES ASSUME ReportInv, Load PROVE ReportInv'
    OBVIOUS
<1> QED
    BY DEF Load, ReportInv, ShownFromListing, PlannedFromListing, SyncedShowsTopics,
           Comparing, Reported, TopicResources, TopicResource, request, world

LEMMA ReadSubjectStep == ASSUME NEW t, ReportInv, ReadSubject(t) PROVE ReportInv'
<1>1. /\ pc = "subjects" /\ pc' = "subjects"
      /\ UNCHANGED <<revision, target, actual, unplanned, plan, status>>
    BY DEF ReadSubject, request
<1>2. \A r \in resources' : r \in resources \/ r.kind = "SchemaSubject"
    BY DEF ReadSubject, SubjectResource
<1>3. ShownFromListing'
    <2> SUFFICES ASSUME NEW r \in resources', r.kind = "Topic"
                 PROVE  r \in TopicResources(Declared(revision), revision.ownership)'
        BY DEF ShownFromListing
    <2>1. r \in TopicResources(Declared(revision), revision.ownership)
        BY <1>1, <1>2 DEF ReportInv, ShownFromListing, Comparing
    <2> QED BY <1>1, <2>1 DEF TopicResources, TopicResource, Declared
<1> QED
    BY <1>1, <1>3 DEF ReportInv, PlannedFromListing, SyncedShowsTopics, Reported, Declared

LEMMA PlanNextTopicStep == ASSUME NEW t, ReportInv, PlanNextTopic(t) PROVE ReportInv'
<1>1. /\ pc = "plan" /\ pc' \in {"plan", "check", "reported"}
      /\ pc' = "reported" => status' = "unknown"
      /\ UNCHANGED <<revision, target, actual, resources>>
      /\ plan' = Extended(PlanTopic(t, revision.topics[t], actual[t], target))
      /\ unplanned' \in {unplanned, unplanned \ {t}}
    BY DEF PlanNextTopic, Report, request
<1>2. ShownFromListing'
    BY <1>1 DEF ReportInv, ShownFromListing, Comparing, TopicResources, TopicResource, Declared
<1>3. PlannedFromListing'
    <2> SUFFICES ASSUME Empty(plan'), NEW u \in Declared(revision) \ unplanned'
                 PROVE  actual[u] # None
        BY <1>1 DEF PlannedFromListing, Declared, Empty
    <2>1. Empty(plan) /\ Empty(PlanTopic(t, revision.topics[t], actual[t], target))
        BY <1>1, ExtendedEmpty
    <2>2. CASE u = t BY <2>1, <2>2, NothingToPlanForTopic
    <2>3. CASE u # t BY <1>1, <2>1, <2>3 DEF ReportInv, PlannedFromListing
    <2> QED BY <2>2, <2>3
<1> QED BY <1>1, <1>2, <1>3 DEF ReportInv, SyncedShowsTopics, Reported

LEMMA CheckNextSchemaPlans == ASSUME NEW t, CheckNextSchema(t) PROVE ~Empty(plan')
<1>1. PICK compatible : plan' = Extended(PlanSchema(t, revision.topics[t], latest, compatible))
    BY DEF CheckNextSchema
<1> QED BY <1>1, ExtendedEmpty, SchemaPlanIsNotEmpty

LEMMA CheckNextSchemaStep == ASSUME NEW t, ReportInv, CheckNextSchema(t) PROVE ReportInv'
<1>1. /\ pc = "check" /\ pc' = "plan"
      /\ UNCHANGED <<revision, target, actual, resources, status>>
    BY DEF CheckNextSchema, request
<1>2. ~Empty(plan')
    BY CheckNextSchemaPlans
<1>3. ShownFromListing'
    BY <1>1 DEF ReportInv, ShownFromListing, Comparing, TopicResources, TopicResource, Declared
<1>4. PlannedFromListing' BY <1>1, <1>2 DEF PlannedFromListing, Empty
<1> QED BY <1>1, <1>3, <1>4 DEF ReportInv, SyncedShowsTopics, Reported

LEMMA DecideStep == ASSUME ReportInv, Decide PROVE ReportInv'
<1>1. /\ pc = "plan" /\ pc' = "reported" /\ unplanned = {}
      /\ UNCHANGED <<revision, target, actual, resources>>
      /\ plan' = Extended(PlanDeletions(revision, actual, target))
      /\ status' = SyncState(plan')
    BY DEF Decide, Report, request
<1>2. SyncedShowsTopics'
    <2> SUFFICES ASSUME status' = "synced", NEW r \in resources, r.kind = "Topic"
                 PROVE  /\ r.health = "healthy"
                        /\ r.noted => r.topic \in target.protectedTopics
        BY <1>1 DEF SyncedShowsTopics, Reported
    <2>1. Empty(plan') BY <1>1 DEF SyncState
    <2>2. Empty(plan) /\ Undeclared(revision, actual, target) = {}
        BY <1>1, <2>1, ExtendedEmpty, NothingToDelete
    <2>3. PICK t \in Declared(revision) \union {u \in revision.ownership : actual[u] # None} :
             r = TopicResource(t, Declared(revision))
        BY <1>1 DEF ReportInv, ShownFromListing, Comparing, TopicResources
    <2>4. actual[t] # None
        BY <1>1, <2>2, <2>3 DEF ReportInv, PlannedFromListing
    <2>5. ASSUME t \notin Declared(revision) PROVE t \in target.protectedTopics
        <3>1. t \in revision.ownership /\ t \in Topics
            BY <2>3, <2>5 DEF ReportInv, Revision
        <3>2. revision.topics[t] = None BY <2>5, <3>1 DEF Declared
        <3> QED BY <2>2, <2>4, <3>1, <3>2 DEF Undeclared
    <2> QED BY <2>3, <2>4, <2>5 DEF TopicResource
<1> QED BY <1>1, <1>2 DEF ReportInv, ShownFromListing, PlannedFromListing, Comparing

\* The rest ends the report with another status, or comes before and between.
LEMMA OtherStep ==
    ASSUME ReportInv, \/ GetLivestate \/ List \/ Describe \/ LoadFails \/ Compare
                      \/ CannotConnect \/ RegistryFails \/ ClusterFails \/ Others
                      \/ UNCHANGED vars
    PROVE  ReportInv'
<1> USE DEF ReportInv, ShownFromListing, PlannedFromListing, SyncedShowsTopics, Comparing,
            Reported, Report, request, Declared, TopicResources, TopicResource, Empty
<1>1. CASE GetLivestate BY <1>1 DEF GetLivestate
<1>2. CASE List BY <1>2 DEF List
<1>3. CASE Describe BY <1>3 DEF Describe
<1>4. CASE LoadFails BY <1>4 DEF LoadFails
<1>5. CASE Compare BY <1>5 DEF Compare
<1>6. CASE RegistryFails BY <1>6 DEF RegistryFails
<1>7. CASE ClusterFails BY <1>7 DEF ClusterFails
<1>8. CASE Others BY <1>8 DEF Others
<1>9. CASE UNCHANGED vars BY <1>9 DEF vars
<1>10. CASE CannotConnect BY <1>10 DEF CannotConnect
<1> QED BY <1>1, <1>2, <1>3, <1>4, <1>5, <1>6, <1>7, <1>8, <1>9, <1>10

LEMMA ReportStep == ReportInv /\ [Next]_vars => ReportInv'
BY LoadStep, ReadSubjectStep, PlanNextTopicStep, CheckNextSchemaStep, DecideStep, OtherStep
   DEF Next

LEMMA ReportInvHolds == Spec => []ReportInv
BY ReportInit, ReportStep, PTL DEF Spec

-----------------------------------------------------------------------------
(***************************************************************************)
(* The types: what is left to plan is declared, and a schema is only asked *)
(* about where there is one and a registry to ask.                         *)
(***************************************************************************)
AsksOfRegistry ==
    pc = "check" =>
        /\ target.schemaRegistry
        /\ \A t \in unplanned :
              IsFirst(t, unplanned) => HasSchemaToPlan(t, revision.topics[t], target)

TypeInv ==
    /\ TypeOK
    /\ unplanned \subseteq Declared(revision) /\ unread \subseteq WithSchema(revision)
    /\ AsksOfRegistry

LEMMA OneFirst ==
    ASSUME NEW rest \in SUBSET Topics, NEW t, NEW u, IsFirst(t, rest), IsFirst(u, rest)
    PROVE  t = u
BY ProviderAssumption DEF IsFirst

Resources == [kind: {"Topic", "SchemaSubject"}, topic: Topics,
              health: {"healthy", "unhealthy", "unknown"}, noted: BOOLEAN]

LEMMA ResourceTypes ==
    ASSUME NEW declared \in SUBSET Topics, NEW ownership \in SUBSET Topics
    PROVE  /\ TopicResources(declared, ownership) \subseteq Resources
           /\ \A t \in Topics, h \in {"healthy", "unhealthy", "unknown"} :
                SubjectResource(t, h) \in Resources
<1>1. ASSUME NEW t \in Topics
      PROVE  TopicResource(t, declared) \in Resources
  <2>1. /\ (t \notin declared) \in BOOLEAN
        /\ (IF actual[t] = None THEN "unhealthy" ELSE "healthy")
              \in {"healthy", "unhealthy", "unknown"}
    OBVIOUS
  <2> QED
    BY <2>1 DEF TopicResource, Resources
<1>2. TopicResources(declared, ownership) \subseteq Resources
  BY <1>1 DEF TopicResources
<1> QED
  BY <1>2 DEF SubjectResource, Resources

LEMMA TypesAtFirst == Init => TypeInv
<1> SUFFICES ASSUME Init PROVE TypeInv
  OBVIOUS
<1>1. cluster \in Clusters /\ NoTopics \in Clusters
  BY LivestateAssumption DEF Init, Clusters, NoTopics
<1>2. /\ registry \in Registries /\ revision \in Revision /\ target \in Target
      /\ budget \in [others: Nat, faults: Nat]
  BY LivestateAssumption DEF Init
<1> QED
  BY <1>1, <1>2 DEF Init, TypeInv, TypeOK, AsksOfRegistry, Places, NoPlan

LEMMA ListingTypes == ASSUME TypeInv, List \/ Describe PROVE TypeInv'
<1>1. actual' \in Clusters
  <2>1. CASE List
    <3>1. \A t \in Topics : ListedTopics(cluster)[t] \in TopicState \union {None}
      BY DEF TypeInv, TypeOK, ListedTopics, Clusters, TopicState, Config, NoConfig
    <3>2. ListedTopics(cluster) \in Clusters
      BY <3>1 DEF ListedTopics, Clusters
    <3> QED
      BY <2>1, <3>2 DEF List
  <2>2. CASE Describe /\ actual' = actual
    BY <2>2 DEF TypeInv, TypeOK
  <2>3. CASE Describe /\ DescribeAccepted(cluster, actual) /\ actual' = WithConfigs(cluster, actual)
    <3>1. ASSUME NEW t \in Topics
          PROVE  WithConfigs(cluster, actual)[t] \in TopicState \union {None}
      <4>1. CASE actual[t] = None
        BY <4>1 DEF WithConfigs
      <4>2. CASE actual[t] # None
        <5>1. actual[t] \in TopicState /\ cluster[t] \in TopicState
          BY <2>3, <4>2 DEF TypeInv, TypeOK, Clusters, DescribeAccepted
        <5> QED
          BY <4>2, <5>1 DEF WithConfigs, TopicState
      <4> QED
        BY <4>1, <4>2
    <3>2. WithConfigs(cluster, actual) \in Clusters
      BY <3>1 DEF WithConfigs, Clusters
    <3> QED
      BY <2>3, <3>2
  <2> QED
    BY <2>1, <2>2, <2>3 DEF Describe
<1>2. /\ UNCHANGED <<world, request, unread, resources, unplanned, latest, plan, status, budget>>
      /\ pc' \in {"load", "describe", "failed"} /\ quiet' \in BOOLEAN
      /\ moved' \subseteq Subjects
  BY DEF List, Describe, TypeInv, TypeOK
<1> QED
  BY <1>1, <1>2 DEF TypeInv, TypeOK, AsksOfRegistry, world, request, Places, Declared, WithSchema

LEMMA LoadTypes == ASSUME TypeInv, Load \/ LoadFails PROVE TypeInv'
<1>1. Declared(revision) \subseteq Topics /\ revision.ownership \subseteq Topics
  BY RevisionFacts DEF TypeInv, TypeOK
<1>2. /\ TopicResources(Declared(revision), revision.ownership) \subseteq Resources
      /\ \A ownership \in {{}, revision.ownership} :
            TopicResources({}, ownership) \subseteq Resources
  BY <1>1, ResourceTypes DEF TypeInv
<1>3. CASE Load
  BY <1>1, <1>2, <1>3
  DEF Load, TypeInv, TypeOK, AsksOfRegistry, world, request, Places, Declared, WithSchema,
      Resources
<1>4. CASE LoadFails
  BY <1>1, <1>2, <1>4
  DEF LoadFails, Report, TypeInv, TypeOK, AsksOfRegistry, world, request, Places, Statuses,
      Declared, WithSchema, Resources
<1> QED
  BY <1>3, <1>4

LEMMA ReadSubjectTypes == ASSUME TypeInv, NEW t \in Topics, ReadSubject(t) PROVE TypeInv'
<1>1. /\ resources' \subseteq Resources
      /\ budget' \in [others: Nat, faults: Nat]
  <2>1. CASE /\ resources' = resources \union
                    {SubjectResource(t, SubjectHealth(revision.topics[t].schema.subject))}
             /\ UNCHANGED budget
    <3>1. SubjectHealth(revision.topics[t].schema.subject) \in {"healthy", "unhealthy", "unknown"}
      BY DEF SubjectHealth
    <3> QED
      BY <2>1, <3>1, ResourceTypes DEF TypeInv, TypeOK, Resources
  <2>2. CASE /\ Spend("faults")
             /\ resources' = resources \union {SubjectResource(t, "unknown")}
    <3>1. SubjectResource(t, "unknown") \in Resources
      BY ResourceTypes DEF TypeInv, TypeOK
    <3> QED
      BY <2>2, <3>1 DEF TypeInv, TypeOK, Spend, Resources
  <2> QED
    BY <2>1, <2>2 DEF ReadSubject
<1>2. /\ pc = "subjects" /\ pc' = pc /\ unread' = unread \ {t}
      /\ UNCHANGED <<world, request, actual, unplanned, latest, plan, status, quiet, moved>>
  BY DEF ReadSubject
<1> QED
  BY <1>1, <1>2 DEF TypeInv, TypeOK, AsksOfRegistry, world, request, Declared, WithSchema,
      Resources

LEMMA PlanNextTopicTypes == ASSUME TypeInv, NEW t \in Topics, PlanNextTopic(t) PROVE TypeInv'
<1> DEFINE topic   == revision.topics[t]
           planned == HasSchemaToPlan(t, topic, target)
           found   == LatestSchema(registry, topic.schema.subject)
           more    == PlanTopic(t, topic, actual[t], target)
<1>1. /\ pc = "plan" /\ IsFirst(t, unplanned) /\ plan' = Extended(more)
      /\ UNCHANGED <<world, request, actual, unread, resources, quiet, moved, budget>>
      /\ \/ pc' = "reported" /\ status' = "unknown" /\ UNCHANGED <<unplanned, latest>>
         \/ /\ planned /\ target.schemaRegistry
            /\ pc' = "check" /\ latest' = found /\ UNCHANGED <<status, unplanned>>
         \/ unplanned' = unplanned \ {t} /\ UNCHANGED <<pc, status, latest>>
  BY DEF PlanNextTopic, Report
<1>2. t \in Declared(revision) /\ revision \in Revision /\ target \in Target
  BY <1>1 DEF TypeInv, TypeOK, IsFirst
<1>3. more.changes \subseteq Change /\ more.blocked \subseteq BlockedTypes
  <2>1. actual[t] \in TopicState \union {None}
    BY DEF TypeInv, TypeOK, Clusters
  <2> QED
    BY <1>2, <2>1, PlanTopicWarranted
<1>4. plan'.changes \subseteq Change /\ plan'.blocked \subseteq [topic: Topics, reason: Reasons]
  BY <1>1, <1>3 DEF Extended, BlockedTypes, TypeInv, TypeOK
<1>5. planned => found \in Bodies \union {None}
  <2> SUFFICES ASSUME planned PROVE found \in Bodies \union {None}
    OBVIOUS
  <2>1. topic \in Topic /\ topic.schema # None
    BY <1>2, RevisionFacts DEF HasSchemaToPlan
  <2>2. topic.schema.subject \in Subjects
    BY <2>1 DEF Topic, Schema
  <2> QED
    BY <2>2 DEF LatestSchema, TypeInv, TypeOK, Registries, Subject
<1>6. pc' = "check" => /\ planned /\ target.schemaRegistry /\ unplanned' = unplanned
                       /\ \A u \in unplanned : IsFirst(u, unplanned) => u = t
  BY <1>1, OneFirst DEF TypeInv, TypeOK
<1>7. AsksOfRegistry'
  BY <1>1, <1>6 DEF AsksOfRegistry, request
<1>8. TypeOK'
  BY <1>1, <1>4, <1>5 DEF TypeInv, TypeOK, world, request, Places, Statuses
<1> QED
  BY <1>1, <1>7, <1>8 DEF TypeInv, request, Declared, WithSchema

LEMMA CheckNextSchemaTypes ==
    ASSUME TypeInv, NEW t \in Topics, CheckNextSchema(t)
    PROVE  TypeInv'
<1> DEFINE schema     == revision.topics[t].schema
           compatible == CheckCompatibility(registry, schema.subject, schema.body)
           more       == PlanSchema(t, revision.topics[t], latest, compatible)
<1>1. /\ pc = "check" /\ pc' = "plan" /\ IsFirst(t, unplanned) /\ plan' = Extended(more)
      /\ unplanned' = unplanned \ {t} /\ latest' = None
      /\ UNCHANGED <<world, request, actual, unread, resources, status, quiet, moved, budget>>
  BY DEF CheckNextSchema
<1>2. /\ t \in Declared(revision) /\ revision \in Revision /\ target \in Target
      /\ HasSchemaToPlan(t, revision.topics[t], target) /\ target.schemaRegistry
      /\ latest \in Bodies \union {None}
  BY <1>1 DEF TypeInv, TypeOK, AsksOfRegistry, IsFirst
<1>3. more.changes \subseteq Change /\ more.blocked \subseteq BlockedTypes
  BY <1>2, PlanSchemaWarranted
<1>4. plan'.changes \subseteq Change /\ plan'.blocked \subseteq [topic: Topics, reason: Reasons]
  BY <1>1, <1>3 DEF Extended, BlockedTypes, TypeInv, TypeOK
<1> QED
  BY <1>1, <1>4 DEF TypeInv, TypeOK, AsksOfRegistry, world, request, Places, Declared, WithSchema

LEMMA DecideTypes == ASSUME TypeInv, Decide PROVE TypeInv'
<1> DEFINE more == PlanDeletions(revision, actual, target)
<1>1. /\ pc' = "reported" /\ status' \in {"synced", "outOfSync"} /\ plan' = Extended(more)
      /\ UNCHANGED <<world, request, actual, unread, resources, unplanned, latest, quiet,
                     moved, budget>>
  BY DEF Decide, Report, SyncState
<1>2. more.changes \subseteq Change /\ more.blocked \subseteq BlockedTypes
  BY PlanDeletionsWarranted DEF TypeInv, TypeOK
<1>3. plan'.changes \subseteq Change /\ plan'.blocked \subseteq [topic: Topics, reason: Reasons]
  BY <1>1, <1>2 DEF Extended, BlockedTypes, TypeInv, TypeOK
<1> QED
  BY <1>1, <1>3
  DEF TypeInv, TypeOK, AsksOfRegistry, world, request, Places, Statuses, Declared, WithSchema

\* The rest starts the report, ends it, or goes on around it.
LEMMA OtherTypes ==
    ASSUME TypeInv, \/ GetLivestate \/ CannotConnect \/ Compare \/ RegistryFails
                    \/ ClusterFails \/ Others \/ UNCHANGED vars
    PROVE  TypeInv'
<1> USE DEF TypeInv, TypeOK, AsksOfRegistry, world, request, Places, Statuses, Declared,
            WithSchema, Report
<1>1. CASE GetLivestate BY <1>1 DEF GetLivestate
<1>2. CASE Compare BY <1>2 DEF Compare
<1>3. CASE RegistryFails BY <1>3 DEF RegistryFails, Spend
<1>4. CASE ClusterFails BY <1>4 DEF ClusterFails, Spend
<1>5. CASE Others
  <2>1. cluster' \in Clusters
    BY <1>5, LivestateAssumption DEF Others, Clusters
  <2>2. registry' \in Registries
    BY <1>5 DEF Others, Registries
  <2>3. budget' \in [others: Nat, faults: Nat]
    BY <1>5 DEF Others, Spend
  <2>4. moved' \subseteq Subjects
    BY <1>5 DEF Others
  <2> QED
    BY <1>5, <2>1, <2>2, <2>3, <2>4 DEF Others
<1>6. CASE UNCHANGED vars BY <1>6 DEF vars
<1>7. CASE CannotConnect BY <1>7 DEF CannotConnect
<1> QED
  BY <1>1, <1>2, <1>3, <1>4, <1>5, <1>6, <1>7

LEMMA TypesKept == TypeInv /\ [Next]_vars => TypeInv'
BY ListingTypes, LoadTypes, ReadSubjectTypes, PlanNextTopicTypes, CheckNextSchemaTypes,
   DecideTypes, OtherTypes
   DEF Next

LEMMA TypeInvHolds == Spec => []TypeInv
BY TypesAtFirst, TypesKept, PTL DEF Spec

\* Whatever is listed, read and planned stays what the code's types say.
THEOREM ReportTypeCorrect == Spec => []TypeOK
<1>1. TypeInv => TypeOK
  BY DEF TypeInv
<1> QED
  BY <1>1, TypeInvHolds, PTL

-----------------------------------------------------------------------------
(***************************************************************************)
(* The subjects.  Each is read once for its resource and once for the      *)
(* plan.  Of one that nobody has changed since the listing began, what was *)
(* read is still true, so the two reads agree.                             *)
(***************************************************************************)
SubjectOf(t) == revision.topics[t].schema.subject

ShownSubjects ==
    pc \in Comparing => \A r \in resources : r.kind # "Topic" =>
        /\ r.kind = "SchemaSubject" /\ r.topic \in WithSchema(revision)
        /\ r.health = "unhealthy" /\ target.schemaRegistry =>
              SubjectOf(r.topic) \in moved \/ LatestSchema(registry, SubjectOf(r.topic)) = None

\* As long as the plan is empty, each schema Build has come to is the latest.
PlannedSubjects ==
    /\ pc = "subjects" => unplanned = Declared(revision)
    /\ pc \in {"plan", "check"} /\ Empty(plan) =>
          \A t \in WithSchema(revision) \ unplanned :
              /\ target.schemaRegistry
              /\ \/ SubjectOf(t) \in moved
                 \/ LatestSchema(registry, SubjectOf(t)) = revision.topics[t].schema.body

\* What a report that says synced shows of subjects.
SyncedShowsSubjects ==
    Reported("synced") => \A r \in resources : r.kind # "Topic" =>
        /\ r.kind = "SchemaSubject"
        /\ r.health = "unhealthy" => SubjectOf(r.topic) \in moved

SubjectInv == ShownSubjects /\ PlannedSubjects /\ SyncedShowsSubjects

LEMMA SubjectInit == Init => SubjectInv
BY DEF Init, SubjectInv, ShownSubjects, PlannedSubjects, SyncedShowsSubjects, Comparing, Reported

LEMMA SubjectFacts ==
    ASSUME NEW t \in WithSchema(revision), revision \in Revision
    PROVE  SubjectOf(t) \in Subjects /\ revision.topics[t].schema.body # None
<1>1. revision.topics[t] \in Topic /\ revision.topics[t].schema # None
  BY RevisionFacts DEF WithSchema
<1> QED
  BY <1>1, ProviderAssumption DEF SubjectOf, Topic, Schema

LEMMA LoadSubjects == ASSUME Load PROVE SubjectInv'
<1>1. /\ pc' = "subjects" /\ unplanned' = Declared(revision)'
      /\ resources' = TopicResources(Declared(revision), revision.ownership)
  BY DEF Load, request, Declared
<1>2. \A r \in resources' : r.kind = "Topic"
  BY <1>1 DEF TopicResources, TopicResource
<1> QED
  BY <1>1, <1>2
  DEF SubjectInv, ShownSubjects, PlannedSubjects, SyncedShowsSubjects, Reported

LEMMA ReadSubjectSubjects ==
    ASSUME TypeInv, SubjectInv, NEW t \in Topics, ReadSubject(t)
    PROVE  SubjectInv'
<1>1. /\ pc = "subjects" /\ pc' = "subjects" /\ t \in WithSchema(revision)
      /\ UNCHANGED <<registry, revision, target, unplanned, moved>>
  BY DEF ReadSubject, IsFirst, TypeInv, world, request
<1>2. ASSUME NEW r \in resources', r.kind # "Topic", r \notin resources
      PROVE  /\ r.kind = "SchemaSubject" /\ r.topic = t
             /\ r.health = "unhealthy" /\ target.schemaRegistry
                   => LatestSchema(registry, SubjectOf(t)) = None
  <2>1. r = SubjectResource(t, SubjectHealth(SubjectOf(t))) \/ r = SubjectResource(t, "unknown")
    BY <1>2 DEF ReadSubject, SubjectOf
  <2> QED
    BY <2>1 DEF SubjectResource, SubjectHealth
<1>3. ShownSubjects'
  BY <1>1, <1>2 DEF SubjectInv, ShownSubjects, Comparing, WithSchema, Declared, SubjectOf
<1> QED
  BY <1>1, <1>3
  DEF SubjectInv, PlannedSubjects, SyncedShowsSubjects, Reported, Declared

LEMMA PlanNextTopicSubjects ==
    ASSUME SubjectInv, NEW t \in Topics, PlanNextTopic(t)
    PROVE  SubjectInv'
<1> DEFINE topic == revision.topics[t]
           found == LatestSchema(registry, SubjectOf(t))
<1>1. /\ pc = "plan" /\ pc' \in {"plan", "check", "reported"}
      /\ pc' = "reported" => status' = "unknown"
      /\ UNCHANGED <<registry, revision, target, resources, moved>>
      /\ plan' = Extended(PlanTopic(t, topic, actual[t], target))
      /\ \/ unplanned' = unplanned
         \/ /\ unplanned' = unplanned \ {t}
            /\ HasSchemaToPlan(t, topic, target) =>
                  target.schemaRegistry /\ ~SchemaDiffers(topic, found)
  BY DEF PlanNextTopic, Report, world, request, SubjectOf
<1>2. ShownSubjects'
  BY <1>1 DEF SubjectInv, ShownSubjects, Comparing, WithSchema, Declared, SubjectOf
<1>3. PlannedSubjects'
  <2> SUFFICES ASSUME Empty(plan'), NEW u \in WithSchema(revision) \ unplanned'
               PROVE  /\ target.schemaRegistry
                      /\ \/ SubjectOf(u) \in moved
                         \/ LatestSchema(registry, SubjectOf(u)) = revision.topics[u].schema.body
    BY <1>1 DEF PlannedSubjects, WithSchema, Declared, Empty, SubjectOf
  <2>1. Empty(plan) /\ Empty(PlanTopic(t, topic, actual[t], target))
    BY <1>1, ExtendedEmpty
  <2>2. CASE u \notin unplanned
    BY <1>1, <2>1, <2>2 DEF SubjectInv, PlannedSubjects
  <2>3. CASE u \in unplanned
    <3>1. u = t /\ topic.schema # None
      BY <1>1, <2>3 DEF WithSchema
    <3>2. t \notin target.protectedTopics
      BY <2>1 DEF PlanTopic, Empty
    <3> QED
      BY <1>1, <2>3, <3>1, <3>2 DEF HasSchemaToPlan, SchemaDiffers
  <2> QED
    BY <2>2, <2>3
<1> QED
  BY <1>1, <1>2, <1>3 DEF SubjectInv, SyncedShowsSubjects, Reported

LEMMA CheckNextSchemaSubjects ==
    ASSUME SubjectInv, NEW t \in Topics, CheckNextSchema(t)
    PROVE  SubjectInv'
<1>1. /\ pc = "check" /\ pc' = "plan"
      /\ UNCHANGED <<registry, revision, target, resources, moved>>
  BY DEF CheckNextSchema, world, request
<1>2. ~Empty(plan')
  BY CheckNextSchemaPlans
<1>3. ShownSubjects'
  BY <1>1 DEF SubjectInv, ShownSubjects, Comparing, WithSchema, Declared, SubjectOf
<1> QED
  BY <1>1, <1>2, <1>3 DEF SubjectInv, PlannedSubjects, SyncedShowsSubjects, Reported, Empty

LEMMA DecideSubjects == ASSUME TypeInv, SubjectInv, Decide PROVE SubjectInv'
<1>1. /\ pc = "plan" /\ pc' = "reported" /\ unplanned = {}
      /\ UNCHANGED <<registry, revision, target, resources, moved>>
      /\ plan' = Extended(PlanDeletions(revision, actual, target))
      /\ status' = SyncState(plan')
  BY DEF Decide, Report, world, request
<1>2. SyncedShowsSubjects'
  <2> SUFFICES ASSUME status' = "synced", NEW r \in resources, r.kind # "Topic"
               PROVE  /\ r.kind = "SchemaSubject"
                      /\ r.health = "unhealthy" => SubjectOf(r.topic) \in moved
    BY <1>1 DEF SyncedShowsSubjects, Reported, SubjectOf
  <2>1. /\ r.kind = "SchemaSubject" /\ r.topic \in WithSchema(revision)
        /\ r.health = "unhealthy" /\ target.schemaRegistry =>
              SubjectOf(r.topic) \in moved \/ LatestSchema(registry, SubjectOf(r.topic)) = None
    BY <1>1 DEF SubjectInv, ShownSubjects, Comparing
  <2>2. Empty(plan)
    BY <1>1, ExtendedEmpty DEF SyncState
  <2>3. /\ target.schemaRegistry
        /\ \/ SubjectOf(r.topic) \in moved
           \/ LatestSchema(registry, SubjectOf(r.topic)) = revision.topics[r.topic].schema.body
    BY <1>1, <2>1, <2>2 DEF SubjectInv, PlannedSubjects
  <2>4. revision.topics[r.topic].schema.body # None
    BY <2>1, SubjectFacts DEF TypeInv, TypeOK
  <2> QED
    BY <2>1, <2>3, <2>4
<1> QED
  BY <1>1, <1>2 DEF SubjectInv, ShownSubjects, PlannedSubjects, Comparing

LEMMA OthersSubjects == ASSUME TypeInv, SubjectInv, Others PROVE SubjectInv'
<1>1. /\ pc \notin {"idle", "reported", "failed"}
      /\ UNCHANGED <<pc, revision, target, resources, unplanned, plan, status>>
      /\ moved \subseteq moved'
  BY DEF Others, request
<1>2. ASSUME NEW t \in WithSchema(revision), SubjectOf(t) \notin moved'
      PROVE  LatestSchema(registry', SubjectOf(t)) = LatestSchema(registry, SubjectOf(t))
  <2>1. SubjectOf(t) \in Subjects
    BY SubjectFacts DEF TypeInv, TypeOK
  <2>2. registry'[SubjectOf(t)] = registry[SubjectOf(t)]
    BY <1>2, <2>1 DEF Others, TypeInv, TypeOK, Registries
  <2> QED
    BY <2>2 DEF LatestSchema
<1>3. ShownSubjects'
  <2> SUFFICES ASSUME pc \in Comparing, NEW r \in resources, r.kind # "Topic"
               PROVE  /\ r.kind = "SchemaSubject" /\ r.topic \in WithSchema(revision)
                      /\ (r.health = "unhealthy" /\ target.schemaRegistry) =>
                            \/ SubjectOf(r.topic) \in moved'
                            \/ LatestSchema(registry', SubjectOf(r.topic)) = None
    BY <1>1 DEF ShownSubjects, WithSchema, Declared, SubjectOf
  <2>1. /\ r.kind = "SchemaSubject" /\ r.topic \in WithSchema(revision)
        /\ (r.health = "unhealthy" /\ target.schemaRegistry) =>
              SubjectOf(r.topic) \in moved \/ LatestSchema(registry, SubjectOf(r.topic)) = None
    BY DEF SubjectInv, ShownSubjects
  <2> QED
    BY <1>1, <1>2, <2>1
<1>4. PlannedSubjects'
  <2>1. ASSUME pc \in {"plan", "check"}, Empty(plan), NEW t \in WithSchema(revision) \ unplanned
        PROVE  /\ target.schemaRegistry
               /\ \/ SubjectOf(t) \in moved'
                  \/ LatestSchema(registry', SubjectOf(t)) = revision.topics[t].schema.body
    <3>1. /\ target.schemaRegistry
          /\ \/ SubjectOf(t) \in moved
             \/ LatestSchema(registry, SubjectOf(t)) = revision.topics[t].schema.body
      BY <2>1 DEF SubjectInv, PlannedSubjects
    <3> QED
      BY <1>1, <1>2, <3>1
  <2>2. pc = "subjects" => unplanned = Declared(revision)
    BY DEF SubjectInv, PlannedSubjects
  <2> QED
    BY <1>1, <2>1, <2>2 DEF PlannedSubjects, WithSchema, Declared, Empty, SubjectOf
<1> QED
  BY <1>1, <1>3, <1>4 DEF SubjectInv, SyncedShowsSubjects, Reported

\* The rest ends the report with another status, or comes before and between.
LEMMA OtherSubjects ==
    ASSUME SubjectInv, \/ GetLivestate \/ CannotConnect \/ List \/ Describe \/ LoadFails
                       \/ Compare \/ RegistryFails \/ ClusterFails \/ UNCHANGED vars
    PROVE  SubjectInv'
<1> USE DEF SubjectInv, ShownSubjects, PlannedSubjects, SyncedShowsSubjects, Comparing,
            Reported, Report, world, request, Declared, WithSchema, SubjectOf, Empty
<1>1. CASE GetLivestate BY <1>1 DEF GetLivestate
<1>2. CASE List BY <1>2 DEF List
<1>3. CASE Describe BY <1>3 DEF Describe
<1>4. CASE LoadFails BY <1>4 DEF LoadFails
<1>5. CASE Compare BY <1>5 DEF Compare
<1>6. CASE RegistryFails BY <1>6 DEF RegistryFails
<1>7. CASE ClusterFails BY <1>7 DEF ClusterFails
<1>8. CASE CannotConnect BY <1>8 DEF CannotConnect
<1>9. CASE UNCHANGED vars BY <1>9 DEF vars
<1> QED BY <1>1, <1>2, <1>3, <1>4, <1>5, <1>6, <1>7, <1>8, <1>9

LEMMA SubjectStep == TypeInv /\ SubjectInv /\ [Next]_vars => SubjectInv'
BY LoadSubjects, ReadSubjectSubjects, PlanNextTopicSubjects, CheckNextSchemaSubjects,
   DecideSubjects, OthersSubjects, OtherSubjects
   DEF Next

\* A report that says synced shows no missing topic, and no topic as left behind
\* unless the deploy target protects it; a subject it shows as not registered is
\* one that somebody changed while the report was made.
THEOREM ReportAgreesWithItself == Spec => []SyncedShowsNoDrift
<1>1. ReportInv /\ SubjectInv => SyncedShowsNoDrift
  BY DEF ReportInv, SubjectInv, SyncedShowsTopics, SyncedShowsSubjects, SyncedShowsNoDrift,
         SubjectOf
<1> QED
  BY <1>1, ReportInvHolds, TypeInvHolds, SubjectInit, SubjectStep, PTL DEF Spec

-----------------------------------------------------------------------------
(***************************************************************************)
(* The status.  While nobody changes anything, the listing is the cluster, *)
(* and what is planned so far is what Build plans for the topics it has    *)
(* come to; at the end that is the whole plan, which is empty exactly when *)
(* both services are as declared.                                          *)
(***************************************************************************)
Planned(D) == PlannedFor(revision, cluster, target, registry, D)

ListingIsTrue ==
    /\ pc = "describe" => actual = ListedTopics(cluster)
    /\ pc \in {"load", "subjects", "plan", "check"} => actual = cluster

PlanIsTrue ==
    LET come == Declared(revision) \ unplanned
    IN  /\ pc = "plan" => /\ plan.changes = Planned(come).changes
                          /\ plan.blocked = Planned(come).blocked
        /\ pc = "check" => \A t \in unplanned : IsFirst(t, unplanned) =>
              /\ Lacks(revision, registry, target, t)
              /\ latest = LatestSchema(registry, revision.topics[t].schema.subject)
              /\ plan.changes = Planned(come).changes
                                   \union NeedsOf(revision, target, t, cluster[t])
              /\ plan.blocked = Planned(come).blocked
                                   \union RefusalsOf(revision, target, t, cluster[t])

\* Build starts with an empty plan and every declared topic.
StartsAfresh ==
    /\ pc \in {"idle", "list", "describe", "load", "subjects"} => plan = NoPlan
    /\ pc = "subjects" => unplanned = Declared(revision)

StatusInv ==
    /\ StartsAfresh
    /\ quiet => ListingIsTrue /\ PlanIsTrue
    /\ StatusIsTrue

LEMMA PlannedGrows ==
    ASSUME NEW D, NEW t
    PROVE  LET schema == SchemaPlan(t, revision.topics[t], target, registry)
           IN  /\ Planned(D \union {t}).changes
                    = (Planned(D).changes \union NeedsOf(revision, target, t, cluster[t]))
                      \union schema.changes
               /\ Planned(D \union {t}).blocked
                    = (Planned(D).blocked \union RefusalsOf(revision, target, t, cluster[t]))
                      \union schema.blocked
<1> DEFINE schema == SchemaPlan(t, revision.topics[t], target, registry)
           topic  == TopicPlan(revision, cluster, target, t)
<1>1. Planned(D \union {t}) = Joined(Joined(Planned(D), topic), schema)
  BY PlanGrows DEF Planned
<1>2. /\ topic.changes = NeedsOf(revision, target, t, cluster[t])
      /\ topic.blocked = RefusalsOf(revision, target, t, cluster[t])
  BY DEF TopicPlan
<1> HIDE DEF topic, schema
<1>3. Planned(D \union {t}).changes
        = (Planned(D).changes \union NeedsOf(revision, target, t, cluster[t])) \union schema.changes
  BY <1>1, <1>2, JoinedTwice
<1>4. Planned(D \union {t}).blocked
        = (Planned(D).blocked \union RefusalsOf(revision, target, t, cluster[t]))
          \union schema.blocked
  BY <1>1, <1>2, JoinedTwice
<1> QED
  BY <1>3, <1>4 DEF schema

LEMMA StatusAtFirst == Init => StatusInv
BY DEF Init, StatusInv, StartsAfresh, StatusIsTrue

LEMMA ListingStatus == ASSUME TypeInv, StatusInv, List \/ Describe PROVE StatusInv'
<1>1. /\ pc \in {"list", "describe"} /\ pc' \in {"load", "describe", "failed"}
      /\ UNCHANGED <<world, request, plan, unplanned, status>>
      /\ cluster \in Clusters
  BY DEF List, Describe, TypeInv, TypeOK
<1>2. StartsAfresh' /\ StatusIsTrue' /\ PlanIsTrue'
  BY <1>1 DEF StatusInv, StartsAfresh, StatusIsTrue, Reported, PlanIsTrue
<1>3. ASSUME quiet'
      PROVE  ListingIsTrue'
  <2>1. CASE List
    BY <1>1, <2>1, ListingIsTheCluster DEF List, ListingIsTrue, world
  <2>2. CASE Describe /\ pc' = "load" /\ actual' = WithConfigs(cluster, actual)
    <3>1. actual = ListedTopics(cluster)
      BY <1>3, <2>2 DEF Describe, StatusInv, ListingIsTrue
    <3> QED
      BY <1>1, <2>2, <3>1, ListingIsTheCluster DEF ListingIsTrue, world
  <2>3. CASE pc' = "failed"
    BY <2>3 DEF ListingIsTrue
  <2> QED
    BY <2>1, <2>2, <2>3 DEF Describe
<1> QED
  BY <1>2, <1>3 DEF StatusInv

LEMMA PlanNextTopicStatus ==
    ASSUME TypeInv, StatusInv, NEW t \in Topics, PlanNextTopic(t)
    PROVE  StatusInv'
<1> DEFINE topic   == revision.topics[t]
           planned == HasSchemaToPlan(t, topic, target)
           found   == LatestSchema(registry, topic.schema.subject)
           more    == PlanTopic(t, topic, actual[t], target)
           come    == Declared(revision) \ unplanned
<1>1. /\ pc = "plan" /\ IsFirst(t, unplanned) /\ t \in unplanned
      /\ unplanned \subseteq Declared(revision) /\ unplanned \subseteq Topics
      /\ plan'.changes = plan.changes \union more.changes
      /\ plan'.blocked = plan.blocked \union more.blocked
      /\ cluster' = cluster /\ registry' = registry /\ revision' = revision
      /\ target' = target /\ actual' = actual /\ quiet' = quiet
  BY DEF PlanNextTopic, Extended, IsFirst, TypeInv, TypeOK, world, request
<1>2. \A D : Planned(D)' = Planned(D)
  BY <1>1 DEF Planned
<1>3. ASSUME quiet
      PROVE  /\ actual = cluster
             /\ plan'.changes = Planned(come).changes
                                  \union NeedsOf(revision, target, t, cluster[t])
             /\ plan'.blocked = Planned(come).blocked
                                  \union RefusalsOf(revision, target, t, cluster[t])
  <2>1. actual = cluster /\ plan.changes = Planned(come).changes
        /\ plan.blocked = Planned(come).blocked
    BY <1>1, <1>3 DEF StatusInv, ListingIsTrue, PlanIsTrue
  <2>2. more.changes = NeedsOf(revision, target, t, cluster[t])
        /\ more.blocked = RefusalsOf(revision, target, t, cluster[t])
    BY <1>1, <2>1 DEF NeedsOf, RefusalsOf
  <2> HIDE DEF more, come
  <2> QED
    BY <1>1, <2>1, <2>2
<1>4. CASE pc' = "reported" /\ status' = "unknown"
  BY <1>1, <1>4 DEF StatusInv, StartsAfresh, StatusIsTrue, Reported, ListingIsTrue, PlanIsTrue
<1>5. CASE planned /\ SchemaDiffers(topic, found) /\ pc' = "check" /\ latest' = found
           /\ unplanned' = unplanned
  <2>1. StartsAfresh' /\ StatusIsTrue' /\ (quiet => ListingIsTrue')
    BY <1>1, <1>3, <1>5 DEF StartsAfresh, StatusIsTrue, Reported, ListingIsTrue
  <2>2. ASSUME quiet
        PROVE  PlanIsTrue'
    <3>1. \A u \in unplanned' : IsFirst(u, unplanned') => u = t
      BY <1>1, <1>5, OneFirst
    <3>2. Lacks(revision, registry, target, t)
      BY <1>5 DEF Lacks
    <3>3. /\ plan'.changes = Planned(come).changes
                                \union NeedsOf(revision, target, t, cluster[t])
          /\ plan'.blocked = Planned(come).blocked
                                \union RefusalsOf(revision, target, t, cluster[t])
      BY <1>3, <2>2
    <3> QED
      BY <1>1, <1>2, <1>5, <3>1, <3>2, <3>3 DEF PlanIsTrue
  <2> QED
    BY <1>1, <2>1, <2>2 DEF StatusInv
<1>6. CASE /\ ~(planned /\ SchemaDiffers(topic, found))
           /\ unplanned' = unplanned \ {t} /\ pc' = "plan"
  <2>1. StartsAfresh' /\ StatusIsTrue' /\ (quiet => ListingIsTrue')
    BY <1>1, <1>3, <1>6 DEF StartsAfresh, StatusIsTrue, Reported, ListingIsTrue
  <2>2. ASSUME quiet
        PROVE  PlanIsTrue'
    <3>1. /\ SchemaPlan(t, topic, target, registry).changes = {}
          /\ SchemaPlan(t, topic, target, registry).blocked = {}
      BY <1>6, SchemaPlanCases DEF Lacks
    <3> DEFINE schema == SchemaPlan(t, topic, target, registry)
               needs  == NeedsOf(revision, target, t, cluster[t])
               refusals == RefusalsOf(revision, target, t, cluster[t])
    <3>2. /\ Planned(come \union {t}).changes
                = (Planned(come).changes \union needs) \union schema.changes
          /\ Planned(come \union {t}).blocked
                = (Planned(come).blocked \union refusals) \union schema.blocked
      BY PlannedGrows
    <3> HIDE DEF schema, needs, refusals
    <3>3. Planned(come \union {t}).changes = Planned(come).changes \union needs
      BY <3>1, <3>2 DEF schema
    <3>4. Planned(come \union {t}).blocked = Planned(come).blocked \union refusals
      BY <3>1, <3>2 DEF schema
    <3> USE DEF needs, refusals
    <3>5. plan'.changes = Planned(come \union {t}).changes
      BY <1>3, <2>2, <3>3
    <3>6. plan'.blocked = Planned(come \union {t}).blocked
      BY <1>3, <2>2, <3>4
    <3>7. Declared(revision) \ unplanned' = come \union {t}
      BY <1>1, <1>6
    <3> QED
      BY <1>1, <1>2, <1>6, <3>5, <3>6, <3>7 DEF PlanIsTrue
  <2> QED
    BY <1>1, <2>1, <2>2 DEF StatusInv
<1> QED
  BY <1>1, <1>4, <1>5, <1>6 DEF PlanNextTopic, Report

LEMMA CheckNextSchemaStatus ==
    ASSUME TypeInv, StatusInv, NEW t \in Topics, CheckNextSchema(t)
    PROVE  StatusInv'
<1> DEFINE topic == revision.topics[t]
           more  == PlanSchema(t, topic, latest,
                       CheckCompatibility(registry, topic.schema.subject, topic.schema.body))
           come  == Declared(revision) \ unplanned
<1>1. /\ pc = "check" /\ pc' = "plan" /\ IsFirst(t, unplanned) /\ t \in unplanned
      /\ unplanned \subseteq Declared(revision) /\ unplanned' = unplanned \ {t}
      /\ plan'.changes = plan.changes \union more.changes
      /\ plan'.blocked = plan.blocked \union more.blocked
      /\ cluster' = cluster /\ registry' = registry /\ revision' = revision
      /\ target' = target /\ actual' = actual /\ quiet' = quiet /\ status' = status
  BY DEF CheckNextSchema, Extended, IsFirst, TypeInv, TypeOK, world, request
<1>2. \A D : Planned(D)' = Planned(D)
  BY <1>1 DEF Planned
<1>3. StartsAfresh' /\ StatusIsTrue' /\ (quiet => ListingIsTrue')
  BY <1>1 DEF StatusInv, StartsAfresh, StatusIsTrue, Reported, ListingIsTrue
<1>4. ASSUME quiet
      PROVE  PlanIsTrue'
  <2>1. /\ Lacks(revision, registry, target, t)
        /\ latest = LatestSchema(registry, topic.schema.subject)
        /\ plan.changes = Planned(come).changes \union NeedsOf(revision, target, t, cluster[t])
        /\ plan.blocked = Planned(come).blocked \union RefusalsOf(revision, target, t, cluster[t])
    BY <1>1, <1>4 DEF StatusInv, PlanIsTrue
  <2>2. more = SchemaPlan(t, topic, target, registry)
    BY <2>1, SchemaPlanCases
  <2>3. Planned(come \union {t}).changes = plan.changes \union more.changes
    BY <2>1, <2>2, PlannedGrows
  <2>4. Planned(come \union {t}).blocked = plan.blocked \union more.blocked
    BY <2>1, <2>2, PlannedGrows
  <2>5. Declared(revision) \ unplanned' = come \union {t}
    BY <1>1
  <2> QED
    BY <1>1, <1>2, <2>3, <2>4, <2>5 DEF PlanIsTrue
<1> QED
  BY <1>1, <1>3, <1>4 DEF StatusInv

\* The verdict: the finished plan is Build's, whose emptiness is conformance.
LEMMA DecideStatus == ASSUME TypeInv, StatusInv, Decide PROVE StatusInv'
<1> DEFINE more  == PlanDeletions(revision, actual, target)
           built == Build(revision, cluster, target, registry)
<1>1. /\ pc = "plan" /\ pc' = "reported" /\ unplanned = {}
      /\ plan' = Extended(more) /\ status' = SyncState(plan')
      /\ cluster' = cluster /\ registry' = registry /\ revision' = revision
      /\ target' = target /\ quiet' = quiet
  BY DEF Decide, Report, world, request
<1>2. /\ revision \in Revision /\ target \in Target /\ cluster \in Clusters
  BY DEF TypeInv, TypeOK
<1>3. StartsAfresh' /\ ListingIsTrue' /\ PlanIsTrue'
  BY <1>1 DEF StartsAfresh, ListingIsTrue, PlanIsTrue
<1>4. ASSUME quiet
      PROVE  Empty(plan') <=> InSync(revision, cluster, target, registry)
  <2>1. actual = cluster /\ plan.changes = Planned(Declared(revision)).changes
        /\ plan.blocked = Planned(Declared(revision)).blocked
    BY <1>1, <1>4 DEF StatusInv, ListingIsTrue, PlanIsTrue
  <2>2. plan' = built
    BY <1>1, <1>2, <2>1, PlanEnds DEF Extended, Planned
  <2> QED
    BY <1>2, <2>2, EmptyPlanIsSync
<1>5. StatusIsTrue'
  BY <1>1, <1>4 DEF StatusIsTrue, Reported, SyncState
<1> QED
  BY <1>3, <1>5 DEF StatusInv

\* Build begins: nothing is planned, and no topic has been come to.
LEMMA CompareStatus == ASSUME StatusInv, Compare PROVE StatusInv'
<1>1. /\ pc = "subjects"
      /\ cluster' = cluster /\ registry' = registry /\ revision' = revision /\ target' = target
      /\ plan' = plan /\ unplanned' = unplanned /\ actual' = actual /\ quiet' = quiet
  BY DEF Compare, world, request
<1>2. plan = NoPlan /\ Declared(revision) \ unplanned = {}
  BY <1>1 DEF StatusInv, StartsAfresh
<1>3. CASE pc' = "reported" /\ status' = "unknown"
  BY <1>3 DEF StatusInv, StartsAfresh, ListingIsTrue, PlanIsTrue, StatusIsTrue, Reported
<1>4. CASE pc' = "plan" /\ status' = status
  <2>1. Planned({})' = NoPlan
    BY PlanStarts DEF Planned, NoPlan
  <2>2. (Declared(revision) \ unplanned)' = {}
    BY <1>1, <1>2
  <2>3. PlanIsTrue'
    BY <1>1, <1>2, <1>4, <2>1, <2>2 DEF PlanIsTrue
  <2>4. StartsAfresh' /\ StatusIsTrue' /\ (quiet => ListingIsTrue')
    BY <1>1, <1>4 DEF StatusInv, StartsAfresh, StatusIsTrue, Reported, ListingIsTrue
  <2> QED
    BY <1>1, <2>3, <2>4 DEF StatusInv
<1> QED
  BY <1>3, <1>4 DEF Compare, Report

\* No other step plans anything or reports a comparison.
LEMMA OtherStatus ==
    ASSUME StatusInv, \/ GetLivestate \/ LoadFails \/ Load \/ Compare \/ RegistryFails
                      \/ CannotConnect \/ ClusterFails \/ Others \/ UNCHANGED vars
                      \/ \E t \in Topics : ReadSubject(t)
    PROVE  StatusInv'
<1> USE DEF StatusInv, StartsAfresh, ListingIsTrue, PlanIsTrue, StatusIsTrue, Reported, Report,
            world, request
<1>1. CASE GetLivestate BY <1>1 DEF GetLivestate
<1>2. CASE LoadFails BY <1>2 DEF LoadFails
<1>3. CASE Load BY <1>3 DEF Load
<1>4. CASE Compare BY <1>4, CompareStatus
<1>5. CASE RegistryFails BY <1>5 DEF RegistryFails
<1>6. CASE ClusterFails BY <1>6 DEF ClusterFails
<1>7. CASE Others BY <1>7 DEF Others
<1>8. CASE UNCHANGED vars BY <1>8 DEF vars, Planned
<1>9. CASE \E t \in Topics : ReadSubject(t) BY <1>9 DEF ReadSubject
<1>10. CASE CannotConnect BY <1>10 DEF CannotConnect
<1> QED
  BY <1>1, <1>2, <1>3, <1>4, <1>5, <1>6, <1>7, <1>8, <1>9, <1>10

LEMMA StatusKept == TypeInv /\ StatusInv /\ [Next]_vars => StatusInv'
BY ListingStatus, PlanNextTopicStatus, CheckNextSchemaStatus, DecideStatus, OtherStatus DEF Next

\* An undisturbed report is right whatever fails meanwhile: it says synced only
\* if both services are as declared, and out of sync only if they are not.
THEOREM StatusHolds == Spec => []StatusIsTrue
<1>1. StatusInv => StatusIsTrue
  BY DEF StatusInv
<1> QED
  BY <1>1, TypeInvHolds, StatusAtFirst, StatusKept, PTL DEF Spec
=============================================================================
