----------------------------- MODULE PlanProofs -----------------------------
(***************************************************************************)
(* What a plan is worth, for any declaration and any state of the two      *)
(* services: it is empty exactly when nothing is to be done, the services  *)
(* accept each of its changes, and planning again after one of them yields *)
(* the others.                                                             *)
(*                                                                         *)
(* Build is taken apart topic by topic: what it has to say of a topic      *)
(* depends on that topic alone, and what it has to say of a schema on its  *)
(* subject alone.                                                          *)
(***************************************************************************)
EXTENDS Conformance, Apply, TLAPS

(***************************************************************************)
(* The planner: what it plans has the type of a change and is warranted.   *)
(***************************************************************************)
\* What there is to know of a revision that is needed below.
LEMMA RevisionFacts ==
    ASSUME NEW r \in Revision
    PROVE  /\ r.topics \in [Topics -> Topic \union {None}]
           /\ r.ownership \subseteq Topics
           /\ r.loads \in BOOLEAN
           /\ Declared(r) \subseteq Topics
           /\ \A t \in Declared(r) : r.topics[t] \in Topic /\ t \in r.ownership
BY DEF Revision, Declared

\* diffConfig yields maps over the keys, and sets and deletes only what the
\* declaration says.
LEMMA DiffConfigType ==
    ASSUME NEW desired \in Config, NEW actual0 \in Config
    PROVE  LET diff == DiffConfig(desired, actual0)
               maps == UNION {[K -> Values] : K \in SUBSET Keys}
           IN  /\ diff.set \in maps /\ diff.before \in maps
               /\ diff.delete \in SUBSET Keys
               /\ \A k \in DOMAIN diff.set : diff.set[k] = desired[k]
               /\ \A k \in diff.delete : desired[k] = None
<1> DEFINE set    == {k \in Keys : desired[k] # None /\ desired[k] # actual0[k]}
           delete == {k \in Keys : desired[k] = None /\ actual0[k] # None}
           touched == {k \in set \union delete : actual0[k] # None}
           diff == DiffConfig(desired, actual0)
<1>1. /\ diff.set = [k \in set |-> desired[k]]
      /\ diff.delete = delete
      /\ diff.before = [k \in touched |-> actual0[k]]
  BY DEF DiffConfig
<1>2. /\ diff.set \in [set -> Values] /\ set \in SUBSET Keys
      /\ diff.before \in [touched -> Values] /\ touched \in SUBSET Keys
  BY <1>1 DEF Config
<1> QED
  BY <1>1, <1>2

\* After the change diffConfig computes, the config is the declared one.
THEOREM AlterReachesDesired ==
    ASSUME NEW desired \in Config, NEW actual0 \in Config
    PROVE  LET diff == DiffConfig(desired, actual0)
           IN  Alter(actual0, diff.set, diff.delete) = desired
BY DEF DiffConfig, Alter, Config

BlockedTypes == [topic: Topics, reason: Reasons]

\* What compareExisting and diffConfig plan for a declared topic.
LEMMA PlanTopicWarranted ==
    ASSUME NEW r \in Revision, NEW g \in Target, NEW t \in Declared(r),
           NEW found \in TopicState \union {None}
    PROVE  LET plan == PlanTopic(t, r.topics[t], found, g)
           IN  /\ plan.changes \subseteq Change /\ plan.blocked \subseteq BlockedTypes
               /\ \A c \in plan.changes : Warranted(c, r, g)
<1> DEFINE topic == r.topics[t]
           plan  == PlanTopic(t, topic, found, g)
<1>1. /\ t \in Topics /\ topic \in Topic /\ topic # None /\ t \in r.ownership
  BY RevisionFacts DEF Declared
<1>2. CASE t \in g.protectedTopics
  BY <1>1, <1>2 DEF PlanTopic, Blocked, BlockedTypes, Reasons
<1>3. CASE t \notin g.protectedTopics /\ found = None
  <2>1. /\ plan.changes = {CreateTopic(t, DesiredState(topic))} /\ plan.blocked = {}
    BY <1>3 DEF PlanTopic
  <2>2. DesiredState(topic) \in TopicState
    BY <1>1 DEF DesiredState, Topic, TopicState
  <2> QED
    BY <1>1, <1>3, <2>1, <2>2 DEF CreateTopic, Change, Warranted
<1>4. CASE t \notin g.protectedTopics /\ found # None
  <2> DEFINE diff == DiffConfig(topic.config, found.config)
  <2>1. found \in TopicState
    BY <1>4
  <2>2. /\ plan = CompareExisting(t, topic, found, g)
    BY <1>4 DEF PlanTopic
  <2>3. plan.blocked \subseteq BlockedTypes
    BY <1>1, <2>2 DEF CompareExisting, When, Blocked, BlockedTypes, Reasons
  <2>4. ASSUME NEW c \in plan.changes
        PROVE  c \in Change /\ Warranted(c, r, g)
    <3>1. \/ /\ c = IncreasePartitions(t, topic.partitions)
             /\ g.allowPartitionIncrease
          \/ c = UpdateTopicConfig(t, diff.set, diff.delete, diff.before)
      BY <2>2 DEF CompareExisting, ConfigChanges, When
    <3>2. CASE c = IncreasePartitions(t, topic.partitions) /\ g.allowPartitionIncrease
      <4>1. topic.partitions \in Positive
        BY <1>1 DEF Topic
      <4> QED
        BY <1>1, <1>4, <3>2, <4>1 DEF IncreasePartitions, Change, Warranted
    <3>3. CASE c = UpdateTopicConfig(t, diff.set, diff.delete, diff.before)
      <4>1. topic.config \in Config /\ found.config \in Config
        BY <1>1, <2>1 DEF Topic, TopicState
      <4>2. /\ diff.set \in UNION {[K -> Values] : K \in SUBSET Keys}
            /\ diff.before \in UNION {[K -> Values] : K \in SUBSET Keys}
            /\ diff.delete \in SUBSET Keys
            /\ \A k \in DOMAIN diff.set : diff.set[k] = topic.config[k]
            /\ \A k \in diff.delete : topic.config[k] = None
        BY <4>1, DiffConfigType
      <4>3. c \in Change
        BY <1>1, <3>3, <4>2 DEF UpdateTopicConfig, Change
      <4>4. Warranted(c, r, g)
        BY <1>1, <1>4, <3>3, <4>2 DEF UpdateTopicConfig, Warranted
      <4> QED
        BY <4>3, <4>4
    <3> QED
      BY <3>1, <3>2, <3>3
  <2> QED
    BY <2>3, <2>4
<1> QED
  BY <1>2, <1>3, <1>4

\* What planSchema plans for a declared topic that has a schema to plan.
LEMMA PlanSchemaWarranted ==
    ASSUME NEW r \in Revision, NEW g \in Target, NEW t \in Declared(r),
           NEW found \in Bodies \union {None}, NEW compatible,
           HasSchemaToPlan(t, r.topics[t], g), g.schemaRegistry
    PROVE  LET plan == PlanSchema(t, r.topics[t], found, compatible)
           IN  /\ plan.changes \subseteq Change /\ plan.blocked \subseteq BlockedTypes
               /\ \A c \in plan.changes : Warranted(c, r, g)
<1> DEFINE topic  == r.topics[t]
           change == RegisterSchema(t, topic.schema, found)
<1>1. /\ t \in Topics /\ topic \in Topic /\ topic # None /\ t \in r.ownership
  BY RevisionFacts DEF Declared
<1>2. t \notin g.protectedTopics /\ topic.schema \in Schema
  BY <1>1 DEF HasSchemaToPlan, Topic
<1>3. change \in Change
  BY <1>1, <1>2 DEF RegisterSchema, Change, Schema
<1>4. Warranted(change, r, g)
  BY <1>1, <1>2 DEF RegisterSchema, Warranted, Schema
<1> QED
  BY <1>1, <1>3, <1>4 DEF PlanSchema, Blocked, BlockedTypes, Reasons

\* Deletions only reach for owned, undeclared, unprotected topics.
LEMMA PlanDeletionsWarranted ==
    ASSUME NEW r \in Revision, NEW g \in Target, NEW found
    PROVE  LET plan == PlanDeletions(r, found, g)
           IN  /\ plan.changes \subseteq Change /\ plan.blocked \subseteq BlockedTypes
               /\ \A c \in plan.changes : Warranted(c, r, g)
<1>1. r.ownership \subseteq Topics
  BY RevisionFacts
<1> QED
  BY <1>1 DEF PlanDeletions, Undeclared, DeleteTopic, Blocked, BlockedTypes, Reasons,
              Change, Warranted

(***************************************************************************)
(* The services: what a change that is accepted leaves behind.             *)
(***************************************************************************)
LEMMA AlterType ==
    ASSUME NEW config0 \in Config, NEW delete,
           NEW set \in UNION {[K -> Values] : K \in SUBSET Keys}
    PROVE  Alter(config0, set, delete) \in Config
BY DEF Alter, Config

\* An int in a request is an int.
LEMMA NarrowedType ==
    ASSUME NEW n \in Nat, NEW max \in Positive
    PROVE  Narrowed(n, max) \in Int
BY DEF Narrowed, Positive

\* What the registry keeps of a subject once a body was registered.
LEMMA RegisteredType ==
    ASSUME NEW reg \in Registries, NEW s \in Subjects, NEW b \in Bodies
    PROVE  Registered(reg, s, b) \in Registries
<1>1. CASE b \in Versions(reg, s)
  BY <1>1 DEF Registered
<1>2. CASE b \notin Versions(reg, s)
  <2> DEFINE now == [latest |-> b, older |-> Versions(reg, s)]
  <2>1. reg[s] \in Subject
    BY DEF Registries
  <2>2. now \in Subject
    BY <1>2, <2>1, ProviderAssumption DEF Subject, Versions
  <2>3. Registered(reg, s, b) = [reg EXCEPT ![s] = now]
    BY <1>2 DEF Registered
  <2> QED
    BY <2>2, <2>3 DEF Registries
<1> QED
  BY <1>1, <1>2

LEMMA ApplyType ==
    ASSUME NEW clu \in Clusters, NEW reg \in Registries, NEW c \in Change,
           Accepted(clu, reg, c)
    PROVE  ClusterAfter(clu, c) \in Clusters /\ RegistryAfter(reg, c) \in Registries
<1>1. CASE c.kind = "CreateTopic"
  <2>1. c.topic \in Topics /\ c.desired \in TopicState
    BY <1>1 DEF Change
  <2>2. Requested(c.desired) \in TopicState
    BY <1>1, <2>1 DEF Accepted, CreateAccepted, Requested, TopicState
  <2> QED
    BY <1>1, <2>1, <2>2 DEF ClusterAfter, RegistryAfter, Created, Clusters
<1>2. CASE c.kind = "UpdateTopicConfig"
  <2>1. /\ c.topic \in Topics
        /\ c.set \in UNION {[K -> Values] : K \in SUBSET Keys}
    BY <1>2 DEF Change
  <2>2. clu[c.topic] \in TopicState
    BY <1>2, <2>1 DEF Accepted, AlterAccepted, Clusters
  <2>3. Alter(clu[c.topic].config, c.set, c.delete) \in Config
    BY <2>1, <2>2, AlterType DEF TopicState
  <2>4. [clu[c.topic] EXCEPT !.config = Alter(clu[c.topic].config, c.set, c.delete)]
          \in TopicState
    BY <2>2, <2>3 DEF TopicState
  <2> QED
    BY <1>2, <2>1, <2>4 DEF ClusterAfter, RegistryAfter, Altered, Clusters
<1>3. CASE c.kind = "IncreasePartitions"
  <2>1. c.topic \in Topics /\ c.to \in Positive
    BY <1>3 DEF Change
  <2>2. clu[c.topic] \in TopicState
    BY <1>3, <2>1 DEF Accepted, IncreaseAccepted, Clusters
  <2> DEFINE count == Narrowed(c.to, MaxPartitions)
  <2>3. count \in Int
    BY <2>1, NarrowedType, ProviderAssumption DEF Positive
  <2>4. count > clu[c.topic].partitions
    BY <1>3 DEF Accepted, IncreaseAccepted
  <2>5. count \in Positive
    BY <2>2, <2>3, <2>4 DEF TopicState, Positive
  <2>6. [clu[c.topic] EXCEPT !.partitions = count] \in TopicState
    BY <2>2, <2>5 DEF TopicState
  <2> QED
    BY <1>3, <2>1, <2>6 DEF ClusterAfter, RegistryAfter, Increased, Clusters
<1>4. CASE c.kind = "DeleteTopic"
  BY <1>4 DEF ClusterAfter, RegistryAfter, Deleted, Clusters
<1>5. CASE c.kind = "RegisterSchema"
  <2>1. c.subject \in Subjects /\ c.body \in Bodies
    BY <1>5 DEF Change
  <2> QED
    BY <1>5, <2>1, RegisteredType DEF ClusterAfter, RegistryAfter
<1> QED
  BY <1>1, <1>2, <1>3, <1>4, <1>5 DEF Change

(***************************************************************************)
(* Build, topic by topic and schema by schema.                             *)
(***************************************************************************)
\* The changes topic t needs when the cluster has it as found, and the ones
\* the deploy target refuses it.
NeedsOf(r, g, t, found) ==
    IF t \in Declared(r) THEN PlanTopic(t, r.topics[t], found, g).changes
    ELSE IF t \in r.ownership \ g.protectedTopics /\ found # None /\ g.allowTopicDeletion
    THEN {DeleteTopic(t)} ELSE {}

RefusalsOf(r, g, t, found) ==
    IF t \in Declared(r) THEN PlanTopic(t, r.topics[t], found, g).blocked
    ELSE IF t \in r.ownership \ g.protectedTopics /\ found # None /\ ~g.allowTopicDeletion
    THEN {Blocked(t, "deletion")} ELSE {}

TopicNeeds(r, clu, g)    == UNION {NeedsOf(r, g, t, clu[t]) : t \in Topics}
TopicRefusals(r, clu, g) == UNION {RefusalsOf(r, g, t, clu[t]) : t \in Topics}

SchemaNeeds(r, reg, g)    == UNION {SchemaPlan(t, r.topics[t], g, reg).changes : t \in Declared(r)}
SchemaRefusals(r, reg, g) == UNION {SchemaPlan(t, r.topics[t], g, reg).blocked : t \in Declared(r)}

\* Deletions, topic by topic.
LEMMA DeletionsByTopic ==
    ASSUME NEW r \in Revision, NEW clu, NEW g
    PROVE  /\ PlanDeletions(r, clu, g).changes
                = UNION {NeedsOf(r, g, t, clu[t]) : t \in Topics \ Declared(r)}
           /\ PlanDeletions(r, clu, g).blocked
                = UNION {RefusalsOf(r, g, t, clu[t]) : t \in Topics \ Declared(r)}
<1> DEFINE gone == Undeclared(r, clu, g)
<1>1. gone = {t \in (Topics \ Declared(r)) \ g.protectedTopics :
                 t \in r.ownership /\ clu[t] # None}
  BY RevisionFacts DEF Undeclared, Declared
<1>2. /\ PlanDeletions(r, clu, g).changes = {DeleteTopic(t) : t \in {u \in gone : g.allowTopicDeletion}}
      /\ PlanDeletions(r, clu, g).blocked
            = {Blocked(t, "deletion") : t \in {u \in gone : ~g.allowTopicDeletion}}
  BY DEF PlanDeletions
<1> HIDE DEF gone
<1>3. {DeleteTopic(t) : t \in {u \in gone : g.allowTopicDeletion}}
        = UNION {NeedsOf(r, g, t, clu[t]) : t \in Topics \ Declared(r)}
  BY <1>1 DEF NeedsOf
<1>4. {Blocked(t, "deletion") : t \in {u \in gone : ~g.allowTopicDeletion}}
        = UNION {RefusalsOf(r, g, t, clu[t]) : t \in Topics \ Declared(r)}
  BY <1>1 DEF RefusalsOf
<1> QED
  BY <1>2, <1>3, <1>4

\* Build is the union of what the topics and what the schemas need.
LEMMA BuildByTopic ==
    ASSUME NEW r \in Revision, NEW clu, NEW g, NEW reg
    PROVE  LET plan == Build(r, clu, g, reg)
           IN  /\ plan.changes = TopicNeeds(r, clu, g) \union SchemaNeeds(r, reg, g)
               /\ plan.blocked = TopicRefusals(r, clu, g) \union SchemaRefusals(r, reg, g)
<1> DEFINE topic(t) == PlanTopic(t, r.topics[t], clu[t], g)
           schema(t) == SchemaPlan(t, r.topics[t], g, reg)
           D == Declared(r)
<1>1. D \subseteq Topics
  BY RevisionFacts
<1>2. /\ Build(r, clu, g, reg).changes
            = (UNION {topic(t).changes \union schema(t).changes : t \in D})
                \union PlanDeletions(r, clu, g).changes
      /\ Build(r, clu, g, reg).blocked
            = (UNION {topic(t).blocked \union schema(t).blocked : t \in D})
                \union PlanDeletions(r, clu, g).blocked
  BY DEF Build
<1>3. \A t \in D : topic(t).changes = NeedsOf(r, g, t, clu[t])
                   /\ topic(t).blocked = RefusalsOf(r, g, t, clu[t])
  BY DEF NeedsOf, RefusalsOf
<1> HIDE DEF topic, schema, D
<1>4. UNION {topic(t).changes \union schema(t).changes : t \in D}
        = (UNION {NeedsOf(r, g, t, clu[t]) : t \in D}) \union (UNION {schema(t).changes : t \in D})
  BY <1>3
<1>5. UNION {topic(t).blocked \union schema(t).blocked : t \in D}
        = (UNION {RefusalsOf(r, g, t, clu[t]) : t \in D}) \union (UNION {schema(t).blocked : t \in D})
  BY <1>3
<1>6. /\ UNION {schema(t).changes : t \in D} = SchemaNeeds(r, reg, g)
      /\ UNION {schema(t).blocked : t \in D} = SchemaRefusals(r, reg, g)
  BY DEF SchemaNeeds, SchemaRefusals, schema, D
<1>7. TopicNeeds(r, clu, g) = (UNION {NeedsOf(r, g, t, clu[t]) : t \in D})
                                \union (UNION {NeedsOf(r, g, t, clu[t]) : t \in Topics \ D})
  BY <1>1 DEF TopicNeeds
<1>8. TopicRefusals(r, clu, g) = (UNION {RefusalsOf(r, g, t, clu[t]) : t \in D})
                                   \union (UNION {RefusalsOf(r, g, t, clu[t]) : t \in Topics \ D})
  BY <1>1 DEF TopicRefusals
<1>9. /\ PlanDeletions(r, clu, g).changes = UNION {NeedsOf(r, g, t, clu[t]) : t \in Topics \ D}
      /\ PlanDeletions(r, clu, g).blocked = UNION {RefusalsOf(r, g, t, clu[t]) : t \in Topics \ D}
  BY DeletionsByTopic DEF D
<1>10. Build(r, clu, g, reg).changes = TopicNeeds(r, clu, g) \union SchemaNeeds(r, reg, g)
  BY <1>2, <1>4, <1>6, <1>7, <1>9
<1>11. Build(r, clu, g, reg).blocked = TopicRefusals(r, clu, g) \union SchemaRefusals(r, reg, g)
  BY <1>2, <1>5, <1>6, <1>8, <1>9
<1> QED
  BY <1>10, <1>11

-----------------------------------------------------------------------------
(***************************************************************************)
(* One topic.                                                              *)
(***************************************************************************)
\* An int that fits goes through a request unchanged.
LEMMA NarrowedFits ==
    ASSUME NEW n \in Positive, NEW max \in Positive, n <= max
    PROVE  Narrowed(n, max) = n /\ Asked(n, max) = n
<1>1. n % (2 * (max + 1)) = n
  <2> DEFINE m == 2 * (max + 1)
  <2>1. m \in Nat /\ 0 < m /\ n \in Nat /\ n < m
    BY DEF Positive
  <2> HIDE DEF m
  <2>2. n % m = n
    BY <2>1
  <2> QED
    BY <2>2 DEF m
<1> QED
  BY <1>1 DEF Narrowed, Asked, Positive

\* What is planned for a declared topic the cluster has, kind by kind.
LEMMA ExistingNeeds ==
    ASSUME NEW r \in Revision, NEW g \in Target, NEW t \in Declared(r),
           NEW found \in TopicState, t \notin g.protectedTopics
    PROVE  LET topic == r.topics[t]
               diff  == DiffConfig(topic.config, found.config)
           IN  /\ NeedsOf(r, g, t, found)
                    = When(topic.partitions > found.partitions /\ g.allowPartitionIncrease,
                           IncreasePartitions(t, topic.partitions))
                      \union When(topic.config # found.config,
                                  UpdateTopicConfig(t, diff.set, diff.delete, diff.before))
               /\ RefusalsOf(r, g, t, found)
                    = (When(topic.replicationFactor # found.replicationFactor,
                            Blocked(t, "replicationFactor"))
                       \union When(topic.partitions > found.partitions /\ ~g.allowPartitionIncrease,
                                   Blocked(t, "partitionIncrease")))
                      \union When(topic.partitions < found.partitions,
                                  Blocked(t, "partitionDecrease"))
<1> DEFINE topic == r.topics[t]
           diff  == DiffConfig(topic.config, found.config)
<1>1. topic \in Topic /\ found # None
  BY RevisionFacts, ProviderAssumption
<1>2. PlanTopic(t, topic, found, g) = CompareExisting(t, topic, found, g)
  BY <1>1 DEF PlanTopic
<1>3. (DOMAIN diff.set # {} \/ diff.delete # {}) <=> topic.config # found.config
  <2>1. topic.config \in Config /\ found.config \in Config
    BY <1>1 DEF Topic, TopicState
  <2>2. /\ DOMAIN diff.set = {k \in Keys : topic.config[k] # None /\ topic.config[k] # found.config[k]}
        /\ diff.delete = {k \in Keys : topic.config[k] = None /\ found.config[k] # None}
    BY DEF DiffConfig
  <2>3. topic.config # found.config <=> \E k \in Keys : topic.config[k] # found.config[k]
    BY <2>1 DEF Config
  <2> QED
    BY <2>2, <2>3
<1>4. ConfigChanges(t, topic, found)
        = When(topic.config # found.config,
               UpdateTopicConfig(t, diff.set, diff.delete, diff.before))
  BY <1>3 DEF ConfigChanges, When
<1> QED
  BY <1>2, <1>4 DEF CompareExisting, NeedsOf, RefusalsOf

\* What is planned for the others.
LEMMA OtherNeeds ==
    ASSUME NEW r \in Revision, NEW g \in Target, NEW t \in Topics, NEW found
    PROVE  /\ t \in Declared(r) /\ t \in g.protectedTopics =>
                /\ NeedsOf(r, g, t, found) = {}
                /\ RefusalsOf(r, g, t, found) = {Blocked(t, "protected")}
           /\ t \in Declared(r) /\ t \notin g.protectedTopics =>
                /\ NeedsOf(r, g, t, None) = {CreateTopic(t, DesiredState(r.topics[t]))}
                /\ RefusalsOf(r, g, t, None) = {}
           /\ t \notin Declared(r) =>
                /\ NeedsOf(r, g, t, None) = {} /\ RefusalsOf(r, g, t, None) = {}
                /\ t \notin r.ownership \ g.protectedTopics =>
                      NeedsOf(r, g, t, found) = {} /\ RefusalsOf(r, g, t, found) = {}
                /\ t \in r.ownership \ g.protectedTopics /\ found # None =>
                      /\ NeedsOf(r, g, t, found) = When(g.allowTopicDeletion, DeleteTopic(t))
                      /\ RefusalsOf(r, g, t, found)
                            = When(~g.allowTopicDeletion, Blocked(t, "deletion"))
BY DEF NeedsOf, RefusalsOf, PlanTopic, When

\* The state of a declared topic.
LEMMA DesiredIsState ==
    ASSUME NEW topic \in Topic
    PROVE  DesiredState(topic) \in TopicState
BY DEF DesiredState, Topic, TopicState

LEMMA StateIsDesired ==
    ASSUME NEW topic \in Topic, NEW found \in TopicState
    PROVE  found = DesiredState(topic) <=> /\ topic.partitions = found.partitions
                                           /\ topic.replicationFactor = found.replicationFactor
                                           /\ topic.config = found.config
BY DEF DesiredState, Topic, TopicState

\* Nothing is needed and nothing refused exactly when the topic is as declared.
LEMMA NothingNeeded ==
    ASSUME NEW r \in Revision, NEW g \in Target, NEW t \in Topics,
           NEW found \in TopicState \union {None}
    PROVE  NeedsOf(r, g, t, found) = {} /\ RefusalsOf(r, g, t, found) = {}
           <=> /\ t \in Declared(r) => /\ found = DesiredState(r.topics[t])
                                       /\ t \notin g.protectedTopics
               /\ t \in (r.ownership \ g.protectedTopics) \ Declared(r) => found = None
<1> DEFINE topic == r.topics[t]
<1>1. CASE t \notin Declared(r)
  BY <1>1, OtherNeeds DEF When
<1>2. CASE t \in Declared(r) /\ t \in g.protectedTopics
  BY <1>2, OtherNeeds
<1>3. CASE t \in Declared(r) /\ t \notin g.protectedTopics /\ found = None
  <2>1. DesiredState(topic) # None
    BY <1>3, RevisionFacts, DesiredIsState, ProviderAssumption
  <2> QED
    BY <1>3, <2>1, OtherNeeds
<1>4. CASE t \in Declared(r) /\ t \notin g.protectedTopics /\ found # None
  <2>1. topic \in Topic /\ found \in TopicState
    BY <1>4, RevisionFacts
  <2>2. /\ topic.partitions \in Int /\ found.partitions \in Int
    BY <2>1 DEF Topic, TopicState, Positive
  <2>3. NeedsOf(r, g, t, found) = {} /\ RefusalsOf(r, g, t, found) = {}
        <=> /\ topic.partitions = found.partitions
            /\ topic.replicationFactor = found.replicationFactor
            /\ topic.config = found.config
    <3> DEFINE diff   == DiffConfig(topic.config, found.config)
               grows  == topic.partitions > found.partitions
    <3>1. /\ NeedsOf(r, g, t, found)
                = When(grows /\ g.allowPartitionIncrease, IncreasePartitions(t, topic.partitions))
                  \union When(topic.config # found.config,
                              UpdateTopicConfig(t, diff.set, diff.delete, diff.before))
          /\ RefusalsOf(r, g, t, found)
                = (When(topic.replicationFactor # found.replicationFactor,
                        Blocked(t, "replicationFactor"))
                   \union When(grows /\ ~g.allowPartitionIncrease, Blocked(t, "partitionIncrease")))
                  \union When(topic.partitions < found.partitions,
                              Blocked(t, "partitionDecrease"))
      BY <1>4, <2>1, ExistingNeeds
    <3>2. ASSUME NEW P, NEW x PROVE When(P, x) = {} <=> ~P
      BY DEF When
    <3>3. NeedsOf(r, g, t, found) = {}
          <=> ~(grows /\ g.allowPartitionIncrease) /\ topic.config = found.config
      BY <3>1, <3>2
    <3>4. RefusalsOf(r, g, t, found) = {}
          <=> /\ topic.replicationFactor = found.replicationFactor
              /\ ~(grows /\ ~g.allowPartitionIncrease)
              /\ ~(topic.partitions < found.partitions)
      <4>1. ASSUME NEW A, NEW B, NEW C
            PROVE  (A \union B) \union C = {} <=> A = {} /\ B = {} /\ C = {}
        OBVIOUS
      <4>2. RefusalsOf(r, g, t, found) = {}
            <=> /\ When(topic.replicationFactor # found.replicationFactor,
                        Blocked(t, "replicationFactor")) = {}
                /\ When(grows /\ ~g.allowPartitionIncrease, Blocked(t, "partitionIncrease")) = {}
                /\ When(topic.partitions < found.partitions, Blocked(t, "partitionDecrease")) = {}
        BY <3>1, <4>1
      <4> QED
        BY <3>2, <4>2
    <3>5. topic.partitions = found.partitions
          <=> ~grows /\ ~(topic.partitions < found.partitions)
      BY <2>2
    <3> HIDE DEF grows
    <3> QED
      BY <3>3, <3>4, <3>5
  <2> QED
    BY <1>4, <2>1, <2>3, StateIsDesired
<1> QED
  BY <1>1, <1>2, <1>3, <1>4

\* The cluster accepts a change that a topic needs, and afterwards the topic
\* needs the others and is refused what it was refused before.
LEMMA NeedMet ==
    ASSUME NEW r \in Revision, CountsFit(r), NEW g \in Target, NEW t \in Topics,
           NEW clu \in Clusters, NEW reg, NEW c \in NeedsOf(r, g, t, clu[t])
    PROVE  LET after == ClusterAfter(clu, c)
           IN  /\ c.topic = t /\ c.kind # "RegisterSchema"
               /\ Accepted(clu, reg, c)
               /\ \A u \in Topics \ {t} : after[u] = clu[u]
               /\ NeedsOf(r, g, t, after[t]) = NeedsOf(r, g, t, clu[t]) \ {c}
               /\ RefusalsOf(r, g, t, after[t]) = RefusalsOf(r, g, t, clu[t])
<1> DEFINE topic == r.topics[t]
           found == clu[t]
           after == ClusterAfter(clu, c)
<1>1. found \in TopicState \union {None}
  BY DEF Clusters
<1>2. CASE t \notin Declared(r)
  <2>1. /\ t \in r.ownership \ g.protectedTopics /\ found # None
        /\ c = DeleteTopic(t) /\ NeedsOf(r, g, t, found) = {c}
        /\ RefusalsOf(r, g, t, found) = {}
    BY <1>2 DEF NeedsOf, RefusalsOf
  <2>2. after = [clu EXCEPT ![t] = None] /\ c.topic = t /\ c.kind = "DeleteTopic"
    BY <2>1 DEF DeleteTopic, ClusterAfter, Deleted
  <2>3. Accepted(clu, reg, c)
    BY <2>1, <2>2 DEF Accepted, DeleteAccepted
  <2>4. after[t] = None /\ \A u \in Topics \ {t} : after[u] = clu[u]
    BY <2>2 DEF Clusters
  <2>5. NeedsOf(r, g, t, None) = {} /\ RefusalsOf(r, g, t, None) = {}
    BY <1>2, OtherNeeds
  <2> QED
    BY <2>1, <2>2, <2>3, <2>4, <2>5
<1>3. CASE t \in Declared(r) /\ found = None
  <2>1. t \notin g.protectedTopics
    BY <1>3, OtherNeeds
  <2>2. /\ c = CreateTopic(t, DesiredState(topic)) /\ NeedsOf(r, g, t, found) = {c}
        /\ RefusalsOf(r, g, t, found) = {}
    BY <1>3, <2>1, OtherNeeds
  <2>3. topic \in Topic /\ DesiredState(topic) \in TopicState
    BY <1>3, RevisionFacts, DesiredIsState
  <2>4. Requested(DesiredState(topic)) = DesiredState(topic)
    <3>1. /\ topic.partitions \in Positive /\ topic.replicationFactor \in Positive
          /\ topic.partitions <= MaxPartitions /\ topic.replicationFactor <= MaxReplicas
          /\ MaxPartitions \in Positive /\ MaxReplicas \in Positive
      BY <1>3, <2>3, ProviderAssumption DEF Topic, CountsFit
    <3>2. /\ Asked(topic.partitions, MaxPartitions) = topic.partitions
          /\ Asked(topic.replicationFactor, MaxReplicas) = topic.replicationFactor
      BY <3>1, NarrowedFits
    <3> QED
      BY <3>2 DEF Requested, DesiredState
  <2>5. after = [clu EXCEPT ![t] = DesiredState(topic)] /\ c.topic = t /\ c.kind = "CreateTopic"
    BY <2>2, <2>4 DEF CreateTopic, ClusterAfter, Created
  <2>6. Accepted(clu, reg, c)
    <3>1. /\ DesiredState(topic).partitions \in Positive
          /\ DesiredState(topic).replicationFactor \in Positive
      BY <2>3 DEF TopicState
    <3> QED
      BY <1>3, <2>2, <2>4, <3>1 DEF CreateTopic, Accepted, CreateAccepted
  <2>7. after[t] = DesiredState(topic) /\ \A u \in Topics \ {t} : after[u] = clu[u]
    BY <2>5 DEF Clusters
  <2>8. NeedsOf(r, g, t, after[t]) = {} /\ RefusalsOf(r, g, t, after[t]) = {}
    BY <1>3, <2>1, <2>3, <2>7, NothingNeeded
  <2> QED
    BY <2>2, <2>5, <2>6, <2>7, <2>8
<1>4. CASE t \in Declared(r) /\ found # None
  <2> DEFINE diff   == DiffConfig(topic.config, found.config)
             grow   == IncreasePartitions(t, topic.partitions)
             update == UpdateTopicConfig(t, diff.set, diff.delete, diff.before)
             grows  == topic.partitions > found.partitions /\ g.allowPartitionIncrease
             differs == topic.config # found.config
  <2>1. /\ topic \in Topic /\ found \in TopicState /\ t \notin g.protectedTopics
        /\ topic.partitions \in Positive /\ found.partitions \in Positive
        /\ topic.config \in Config /\ found.config \in Config
    BY <1>1, <1>4, RevisionFacts, OtherNeeds DEF Topic, TopicState
  <2>2. NeedsOf(r, g, t, found) = When(grows, grow) \union When(differs, update)
    BY <1>4, <2>1, ExistingNeeds
  <2>3. grow # update
    BY DEF IncreasePartitions, UpdateTopicConfig
  <2> DEFINE refused(now) ==
               (When(topic.replicationFactor # now.replicationFactor,
                     Blocked(t, "replicationFactor"))
                \union When(topic.partitions > now.partitions /\ ~g.allowPartitionIncrease,
                            Blocked(t, "partitionIncrease")))
               \union When(topic.partitions < now.partitions, Blocked(t, "partitionDecrease"))
             updated(now) ==
               LET d == DiffConfig(topic.config, now.config)
               IN  UpdateTopicConfig(t, d.set, d.delete, d.before)
  <2>4. ASSUME NEW now \in TopicState
        PROVE  /\ NeedsOf(r, g, t, now)
                    = When(topic.partitions > now.partitions /\ g.allowPartitionIncrease, grow)
                      \union When(topic.config # now.config, updated(now))
               /\ RefusalsOf(r, g, t, now) = refused(now)
    BY <1>4, <2>1, ExistingNeeds
  <2>5. CASE c = grow /\ grows
    <3> DEFINE now == [found EXCEPT !.partitions = topic.partitions]
    <3>1. Narrowed(topic.partitions, MaxPartitions) = topic.partitions
      BY <1>4, <2>1, NarrowedFits, ProviderAssumption DEF CountsFit
    <3>2. /\ c.topic = t /\ c.kind = "IncreasePartitions" /\ c.to = topic.partitions
      BY <2>5 DEF IncreasePartitions
    <3>3. after = [clu EXCEPT ![t].partitions = topic.partitions]
      BY <3>1, <3>2 DEF ClusterAfter, Increased
    <3>4. after[t] = now /\ \A u \in Topics \ {t} : after[u] = clu[u]
      BY <3>3 DEF Clusters
    <3>5. Accepted(clu, reg, c)
      BY <1>4, <2>1, <2>5, <3>1, <3>2 DEF Accepted, IncreaseAccepted, Positive
    <3>6. /\ now \in TopicState /\ now.partitions = topic.partitions
          /\ now.replicationFactor = found.replicationFactor /\ now.config = found.config
      BY <2>1 DEF TopicState
    <3>7. /\ NeedsOf(r, g, t, now) = When(FALSE, grow) \union When(differs, update)
          /\ RefusalsOf(r, g, t, now) = RefusalsOf(r, g, t, found)
      <4>1. ~(topic.partitions > topic.partitions) /\ ~(topic.partitions < topic.partitions)
        BY <2>1 DEF Positive
      <4>2. ~(topic.partitions < found.partitions)
        BY <2>1, <2>5 DEF Positive
      <4>3. /\ NeedsOf(r, g, t, now) = When(FALSE, grow) \union When(differs, updated(now))
            /\ RefusalsOf(r, g, t, now) = refused(now)
        BY <2>4, <3>6, <4>1
      <4>4. updated(now) = update
        BY <3>6
      <4>5. refused(now) = refused(found)
        BY <2>5, <3>6, <4>1, <4>2 DEF When
      <4> QED
        BY <2>1, <2>4, <4>3, <4>4, <4>5
    <3>8. NeedsOf(r, g, t, now) = NeedsOf(r, g, t, found) \ {c}
      BY <2>2, <2>3, <2>5, <3>7 DEF When
    <3> QED
      BY <3>2, <3>4, <3>5, <3>7, <3>8
  <2>6. CASE c = update /\ differs
    <3> DEFINE now == [found EXCEPT !.config = topic.config]
    <3>1. /\ c.topic = t /\ c.kind = "UpdateTopicConfig"
          /\ c.set = diff.set /\ c.delete = diff.delete
      BY <2>6 DEF UpdateTopicConfig
    <3>2. Alter(found.config, c.set, c.delete) = topic.config
      BY <2>1, <3>1, AlterReachesDesired
    <3>3. after = [clu EXCEPT ![t].config = topic.config]
      BY <3>1, <3>2 DEF ClusterAfter, Altered
    <3>4. after[t] = now /\ \A u \in Topics \ {t} : after[u] = clu[u]
      BY <3>3 DEF Clusters
    <3>5. Accepted(clu, reg, c)
      BY <1>4, <3>1 DEF Accepted, AlterAccepted
    <3>6. /\ now \in TopicState /\ now.partitions = found.partitions
          /\ now.replicationFactor = found.replicationFactor /\ now.config = topic.config
      BY <2>1 DEF TopicState
    <3>7. /\ NeedsOf(r, g, t, now) = When(grows, grow) \union {}
          /\ RefusalsOf(r, g, t, now) = RefusalsOf(r, g, t, found)
      <4>1. NeedsOf(r, g, t, now) = When(grows, grow) \union When(FALSE, updated(now))
        BY <2>4, <3>6
      <4>2. refused(now) = refused(found)
        BY <3>6
      <4> QED
        BY <2>1, <2>4, <3>6, <4>1, <4>2 DEF When
    <3>8. NeedsOf(r, g, t, now) = NeedsOf(r, g, t, found) \ {c}
      BY <2>2, <2>3, <2>6, <3>7 DEF When
    <3> QED
      BY <3>1, <3>4, <3>5, <3>7, <3>8
  <2> QED
    BY <2>2, <2>5, <2>6 DEF When
<1> QED
  BY <1>2, <1>3, <1>4

-----------------------------------------------------------------------------
(***************************************************************************)
(* All topics.                                                             *)
(***************************************************************************)
LEMMA NeedsNameTheirTopic ==
    ASSUME NEW r \in Revision, NEW g, NEW t \in Topics, NEW found
    PROVE  /\ \A c \in NeedsOf(r, g, t, found) : c.topic = t /\ c.kind # "RegisterSchema"
           /\ \A b \in RefusalsOf(r, g, t, found) : b.topic = t /\ b.reason # "incompatible"
BY DEF NeedsOf, RefusalsOf, PlanTopic, CompareExisting, ConfigChanges, When, CreateTopic,
       IncreasePartitions, UpdateTopicConfig, DeleteTopic, Blocked

\* The cluster accepts any of the changes that the topics need, and what is
\* needed and refused afterwards is the rest.
THEOREM TopicNeedsAreMet ==
    ASSUME NEW r \in Revision, CountsFit(r), NEW g \in Target,
           NEW clu \in Clusters, NEW reg, NEW c \in TopicNeeds(r, clu, g)
    PROVE  LET after == ClusterAfter(clu, c)
           IN  /\ Accepted(clu, reg, c) /\ c.kind # "RegisterSchema"
               /\ TopicNeeds(r, after, g) = TopicNeeds(r, clu, g) \ {c}
               /\ TopicRefusals(r, after, g) = TopicRefusals(r, clu, g)
<1> DEFINE after == ClusterAfter(clu, c)
<1>1. PICK t \in Topics : c \in NeedsOf(r, g, t, clu[t])
  BY DEF TopicNeeds
<1>2. /\ c.topic = t /\ c.kind # "RegisterSchema" /\ Accepted(clu, reg, c)
      /\ \A u \in Topics \ {t} : after[u] = clu[u]
      /\ NeedsOf(r, g, t, after[t]) = NeedsOf(r, g, t, clu[t]) \ {c}
      /\ RefusalsOf(r, g, t, after[t]) = RefusalsOf(r, g, t, clu[t])
  BY <1>1, NeedMet
<1>3. ASSUME NEW u \in Topics
      PROVE  NeedsOf(r, g, u, after[u]) = NeedsOf(r, g, u, clu[u]) \ {c}
  <2>1. CASE u = t
    BY <1>2, <2>1
  <2>2. CASE u # t
    BY <1>2, <2>2, NeedsNameTheirTopic
  <2> QED
    BY <2>1, <2>2
<1>4. \A u \in Topics : RefusalsOf(r, g, u, after[u]) = RefusalsOf(r, g, u, clu[u])
  BY <1>2
<1> HIDE DEF after
<1>5. TopicNeeds(r, after, g) = TopicNeeds(r, clu, g) \ {c}
  BY <1>3 DEF TopicNeeds
<1>6. TopicRefusals(r, after, g) = TopicRefusals(r, clu, g)
  BY <1>4 DEF TopicRefusals
<1> QED
  BY <1>2, <1>5, <1>6 DEF after

\* No topic needs anything and none is refused anything exactly when all are as
\* declared, and no declared topic is protected.
THEOREM NoTopicNeeds ==
    ASSUME NEW r \in Revision, NEW g \in Target, NEW clu \in Clusters
    PROVE  TopicNeeds(r, clu, g) = {} /\ TopicRefusals(r, clu, g) = {}
           <=> /\ TopicsAsDeclared(r, clu, g)
               /\ Declared(r) \intersect g.protectedTopics = {}
<1> DEFINE asDeclared(t) ==
             /\ t \in Declared(r) => /\ clu[t] = DesiredState(r.topics[t])
                                     /\ t \notin g.protectedTopics
             /\ t \in (r.ownership \ g.protectedTopics) \ Declared(r) => clu[t] = None
<1>1. ASSUME NEW t \in Topics
      PROVE  NeedsOf(r, g, t, clu[t]) = {} /\ RefusalsOf(r, g, t, clu[t]) = {} <=> asDeclared(t)
  <2>1. clu[t] \in TopicState \union {None}
    BY DEF Clusters
  <2> QED
    BY <2>1, NothingNeeded
<1>2. TopicsAsDeclared(r, clu, g) /\ Declared(r) \intersect g.protectedTopics = {}
      <=> \A t \in Topics : asDeclared(t)
  BY RevisionFacts DEF TopicsAsDeclared, Declared
<1> HIDE DEF asDeclared
<1>3. /\ TopicNeeds(r, clu, g) = {} <=> \A t \in Topics : NeedsOf(r, g, t, clu[t]) = {}
      /\ TopicRefusals(r, clu, g) = {} <=> \A t \in Topics : RefusalsOf(r, g, t, clu[t]) = {}
  BY DEF TopicNeeds, TopicRefusals
<1> QED
  BY <1>1, <1>2, <1>3

-----------------------------------------------------------------------------
(***************************************************************************)
(* Schemas.                                                                *)
(***************************************************************************)
\* Topic t has a schema to plan and its subject's latest body is another one.
Lacks(r, reg, g, t) ==
    /\ HasSchemaToPlan(t, r.topics[t], g)
    /\ SchemaDiffers(r.topics[t], LatestSchema(reg, r.topics[t].schema.subject))

Fits(r, reg, t) ==
    CheckCompatibility(reg, r.topics[t].schema.subject, r.topics[t].schema.body)

Registration(r, reg, t) ==
    RegisterSchema(t, r.topics[t].schema, LatestSchema(reg, r.topics[t].schema.subject))

LEMMA SchemaNeedsAre ==
    ASSUME NEW r, NEW reg, NEW g
    PROVE  /\ SchemaNeeds(r, reg, g)
                = {Registration(r, reg, t) :
                     t \in {u \in Declared(r) : Lacks(r, reg, g, u) /\ Fits(r, reg, u)}}
           /\ SchemaRefusals(r, reg, g)
                = {Blocked(t, "incompatible") :
                     t \in {u \in Declared(r) : Lacks(r, reg, g, u) /\ ~Fits(r, reg, u)}}
<1>1. ASSUME NEW t \in Declared(r)
      PROVE  LET plan == SchemaPlan(t, r.topics[t], g, reg)
             IN  /\ plan.changes = IF Lacks(r, reg, g, t) /\ Fits(r, reg, t)
                                   THEN {Registration(r, reg, t)} ELSE {}
                 /\ plan.blocked = IF Lacks(r, reg, g, t) /\ ~Fits(r, reg, t)
                                   THEN {Blocked(t, "incompatible")} ELSE {}
  <2>1. CASE ~Lacks(r, reg, g, t)
    BY <2>1 DEF SchemaPlan, Lacks
  <2>2. CASE Lacks(r, reg, g, t) /\ Fits(r, reg, t)
    BY <2>2 DEF SchemaPlan, Lacks, Fits, Registration, PlanSchema
  <2>3. CASE Lacks(r, reg, g, t) /\ ~Fits(r, reg, t)
    BY <2>3 DEF SchemaPlan, Lacks, Fits, PlanSchema
  <2> QED
    BY <2>1, <2>2, <2>3
<1>2. SchemaNeeds(r, reg, g)
        = {Registration(r, reg, t) :
             t \in {u \in Declared(r) : Lacks(r, reg, g, u) /\ Fits(r, reg, u)}}
  BY <1>1 DEF SchemaNeeds
<1>3. SchemaRefusals(r, reg, g)
        = {Blocked(t, "incompatible") :
             t \in {u \in Declared(r) : Lacks(r, reg, g, u) /\ ~Fits(r, reg, u)}}
  BY <1>1 DEF SchemaRefusals
<1> QED
  BY <1>2, <1>3

\* No schema is needed or refused exactly when each one to plan is the latest
\* of its subject.
THEOREM NoSchemaNeeds ==
    ASSUME NEW r, NEW reg, NEW g
    PROVE  SchemaNeeds(r, reg, g) = {} /\ SchemaRefusals(r, reg, g) = {}
           <=> \A t \in Declared(r) : ~Lacks(r, reg, g, t)
BY SchemaNeedsAre

\* What is there to know of a registration that is needed.
LEMMA RegistrationFacts ==
    ASSUME NEW r \in Revision, NEW reg \in Registries, NEW g, NEW t \in Declared(r),
           Lacks(r, reg, g, t)
    PROVE  LET c == Registration(r, reg, t)
               s == r.topics[t].schema
           IN  /\ s \in Schema /\ s.subject \in Subjects /\ s.body \in Bodies
               /\ c.kind = "RegisterSchema" /\ c.topic = t
               /\ c.subject = s.subject /\ c.body = s.body
               /\ reg[s.subject].latest # s.body
<1>1. r.topics[t] \in Topic /\ r.topics[t].schema # None
  BY RevisionFacts DEF Lacks, HasSchemaToPlan
<1>2. r.topics[t].schema \in Schema
  BY <1>1 DEF Topic
<1> QED
  BY <1>2 DEF Schema, Registration, RegisterSchema, Lacks, SchemaDiffers, LatestSchema

\* The registry accepts any registration that is needed, and registering a body
\* takes nothing from what it keeps.
LEMMA RegistrationAccepted ==
    ASSUME NEW r \in Revision, NEW reg \in Registries, NEW g, NEW clu,
           NEW c \in SchemaNeeds(r, reg, g)
    PROVE  Accepted(clu, reg, c) /\ c.kind = "RegisterSchema"
<1>1. PICK t \in Declared(r) : c = Registration(r, reg, t) /\ Lacks(r, reg, g, t) /\ Fits(r, reg, t)
  BY SchemaNeedsAre
<1>2. c.kind = "RegisterSchema" /\ c.subject = r.topics[t].schema.subject
      /\ c.body = r.topics[t].schema.body
  BY <1>1, RegistrationFacts
<1> QED
  BY <1>1, <1>2 DEF Accepted, RegisterAccepted, Fits

LEMMA VersionsStay ==
    ASSUME NEW reg \in Registries, NEW s \in Subjects, NEW b \in Bodies
    PROVE  /\ b \in Versions(Registered(reg, s, b), s)
           /\ \A u \in Subjects : Versions(reg, u) \subseteq Versions(Registered(reg, s, b), u)
           /\ \A u \in Subjects \ {s} : Registered(reg, s, b)[u] = reg[u]
           /\ \A u \in Subjects : reg[u].older \subseteq Registered(reg, s, b)[u].older
<1>1. CASE b \in Versions(reg, s)
  BY <1>1 DEF Registered
<1>2. CASE b \notin Versions(reg, s)
  <2> DEFINE after == Registered(reg, s, b)
  <2>1. /\ after[s] = [latest |-> b, older |-> Versions(reg, s)]
        /\ \A u \in Subjects \ {s} : after[u] = reg[u]
    BY <1>2 DEF Registered, Registries
  <2>2. /\ Versions(after, s) = Versions(reg, s) \union {b}
        /\ \A u \in Subjects \ {s} : Versions(after, u) = Versions(reg, u)
    BY <2>1, ProviderAssumption DEF Versions
  <2>3. reg[s].older \subseteq after[s].older
    BY <2>1 DEF Versions
  <2> QED
    BY <2>1, <2>2, <2>3
<1> QED
  BY <1>1, <1>2

\* When no two topics share a subject and the body is new to its subject, what
\* is needed and refused after a registration is the rest.
THEOREM SchemaNeedsAreMet ==
    ASSUME NEW r \in Revision, DistinctSubjects(r), NEW reg \in Registries, NEW g,
           NEW c \in SchemaNeeds(r, reg, g), c.body \notin reg[c.subject].older
    PROVE  LET after == RegistryAfter(reg, c)
           IN  /\ SchemaNeeds(r, after, g) = SchemaNeeds(r, reg, g) \ {c}
               /\ SchemaRefusals(r, after, g) = SchemaRefusals(r, reg, g)
<1> DEFINE after == RegistryAfter(reg, c)
<1>1. PICK t \in Declared(r) : c = Registration(r, reg, t) /\ Lacks(r, reg, g, t) /\ Fits(r, reg, t)
  BY SchemaNeedsAre
<1> DEFINE s == r.topics[t].schema
<1>2. /\ s \in Schema /\ s.subject \in Subjects /\ s.body \in Bodies
      /\ c.kind = "RegisterSchema" /\ c.topic = t /\ c.subject = s.subject /\ c.body = s.body
      /\ reg[s.subject].latest # s.body
  BY <1>1, RegistrationFacts
<1>3. /\ after[s.subject].latest = s.body
      /\ \A u \in Subjects \ {s.subject} : after[u] = reg[u]
  <2>1. s.body \notin Versions(reg, s.subject)
    BY <1>2 DEF Versions
  <2> QED
    BY <1>2, <2>1 DEF RegistryAfter, Registered, Registries
<1>4. ~Lacks(r, after, g, t)
  BY <1>3 DEF Lacks, SchemaDiffers, LatestSchema
<1>5. ASSUME NEW u \in Declared(r), u # t
      PROVE  /\ Lacks(r, after, g, u) <=> Lacks(r, reg, g, u)
             /\ Lacks(r, reg, g, u) => /\ Fits(r, after, u) <=> Fits(r, reg, u)
                                       /\ Registration(r, after, u) = Registration(r, reg, u)
  <2>1. CASE ~HasSchemaToPlan(u, r.topics[u], g)
    BY <2>1 DEF Lacks
  <2>2. CASE HasSchemaToPlan(u, r.topics[u], g)
    <3>1. r.topics[u].schema # None /\ r.topics[t].schema # None
      BY <1>1, <2>2 DEF Lacks, HasSchemaToPlan
    <3>2. r.topics[u].schema \in Schema /\ r.topics[u].schema.subject # s.subject
      BY <1>5, <3>1, RevisionFacts DEF DistinctSubjects, Topic
    <3>3. after[r.topics[u].schema.subject] = reg[r.topics[u].schema.subject]
      BY <1>3, <3>2 DEF Schema
    <3> QED
      BY <3>3 DEF Lacks, Fits, Registration, LatestSchema, CheckCompatibility
  <2> QED
    BY <2>1, <2>2
<1>6. ASSUME NEW u \in Declared(r), u # t, Lacks(r, reg, g, u)
      PROVE  Registration(r, reg, u) # c
  BY <1>2, <1>6, RegistrationFacts
<1> HIDE DEF after
<1>7. SchemaNeeds(r, after, g) = SchemaNeeds(r, reg, g) \ {c}
  BY <1>1, <1>4, <1>5, <1>6, SchemaNeedsAre
<1>8. SchemaRefusals(r, after, g) = SchemaRefusals(r, reg, g)
  <2>1. {u \in Declared(r) : Lacks(r, after, g, u) /\ ~Fits(r, after, u)}
          = {u \in Declared(r) : Lacks(r, reg, g, u) /\ ~Fits(r, reg, u)}
    BY <1>1, <1>4, <1>5
  <2> QED
    BY <2>1, SchemaNeedsAre
<1> QED
  BY <1>7, <1>8 DEF after

\* When no two topics share a subject, registering a declared body adds nothing
\* to what is needed or refused, and takes away at most its own need: none when
\* the body is an older version of its subject.
LEMMA OtherSchemasStay ==
    ASSUME NEW r \in Revision, DistinctSubjects(r), NEW reg \in Registries, NEW g,
           NEW c \in Change, c.kind = "RegisterSchema", c.topic \in Declared(r),
           r.topics[c.topic].schema = [subject |-> c.subject, body |-> c.body]
    PROVE  LET after == RegistryAfter(reg, c)
           IN  /\ SchemaNeeds(r, after, g) \subseteq SchemaNeeds(r, reg, g)
               /\ SchemaRefusals(r, after, g) \subseteq SchemaRefusals(r, reg, g)
               /\ \A d \in SchemaNeeds(r, reg, g) :
                     d.topic # c.topic => d \in SchemaNeeds(r, after, g)
<1> DEFINE after == RegistryAfter(reg, c)
           t     == c.topic
<1>1. /\ c.subject \in Subjects /\ c.body \in Bodies
      /\ r.topics[t].schema # None
      /\ r.topics[t].schema.subject = c.subject /\ r.topics[t].schema.body = c.body
  <2>1. c.subject \in Subjects /\ c.body \in Bodies
    BY DEF Change
  <2>2. r.topics[t].schema \in Schema
    BY <2>1 DEF Schema
  <2> QED
    BY <2>1, <2>2, ProviderAssumption
<1>2. /\ after = reg \/ after[c.subject].latest = c.body
      /\ \A s \in Subjects \ {c.subject} : after[s] = reg[s]
  BY <1>1 DEF RegistryAfter, Registered, Registries
<1> HIDE DEF after
<1>3. ASSUME NEW u \in Declared(r), u # t, HasSchemaToPlan(u, r.topics[u], g)
      PROVE  /\ Lacks(r, after, g, u) <=> Lacks(r, reg, g, u)
             /\ Fits(r, after, u) <=> Fits(r, reg, u)
             /\ Registration(r, after, u) = Registration(r, reg, u)
  <2>1. r.topics[u].schema # None
    BY <1>3 DEF HasSchemaToPlan
  <2>2. r.topics[u].schema \in Schema /\ r.topics[u].schema.subject # c.subject
    BY <1>1, <1>3, <2>1, RevisionFacts DEF DistinctSubjects, Topic
  <2>3. after[r.topics[u].schema.subject] = reg[r.topics[u].schema.subject]
    BY <1>2, <2>2 DEF Schema
  <2> QED
    BY <2>3 DEF Lacks, Fits, Registration, LatestSchema, CheckCompatibility
<1>4. after = reg \/ ~Lacks(r, after, g, t)
  BY <1>1, <1>2 DEF Lacks, SchemaDiffers, LatestSchema
<1>5. ASSUME NEW u \in Declared(r), Lacks(r, after, g, u)
      PROVE  /\ Lacks(r, reg, g, u)
             /\ Fits(r, after, u) <=> Fits(r, reg, u)
             /\ Registration(r, after, u) = Registration(r, reg, u)
  BY <1>3, <1>4, <1>5 DEF Lacks
<1>6. SchemaNeeds(r, after, g) \subseteq SchemaNeeds(r, reg, g)
  BY <1>5, SchemaNeedsAre
<1>7. SchemaRefusals(r, after, g) \subseteq SchemaRefusals(r, reg, g)
  BY <1>5, SchemaNeedsAre
<1>8. ASSUME NEW d \in SchemaNeeds(r, reg, g), d.topic # t
      PROVE  d \in SchemaNeeds(r, after, g)
  <2>1. PICK u \in Declared(r) : d = Registration(r, reg, u) /\ Lacks(r, reg, g, u) /\ Fits(r, reg, u)
    BY SchemaNeedsAre
  <2>2. u # t /\ HasSchemaToPlan(u, r.topics[u], g)
    BY <1>8, <2>1 DEF Registration, RegisterSchema, Lacks
  <2> QED
    BY <1>3, <2>1, <2>2, SchemaNeedsAre
<1> QED
  BY <1>6, <1>7, <1>8 DEF after

-----------------------------------------------------------------------------
(***************************************************************************)
(* The whole plan.                                                         *)
(***************************************************************************)
\* Which part of a plan is about topics, and which about schemas.
THEOREM BuildParts ==
    ASSUME NEW r \in Revision, NEW clu, NEW g, NEW reg
    PROVE  LET plan == Build(r, clu, g, reg)
           IN  /\ TopicChanges(plan.changes) = TopicNeeds(r, clu, g)
               /\ SchemaChanges(plan.changes) = SchemaNeeds(r, reg, g)
<1>1. \A c \in TopicNeeds(r, clu, g) : c.kind # "RegisterSchema"
  BY NeedsNameTheirTopic DEF TopicNeeds
<1>2. \A c \in SchemaNeeds(r, reg, g) : c.kind = "RegisterSchema"
  BY SchemaNeedsAre DEF Registration, RegisterSchema
<1> QED
  BY <1>1, <1>2, BuildByTopic DEF TopicChanges, SchemaChanges

\* The plan is empty exactly when there is nothing to do: no difference goes
\* unnoticed, and a state that conforms is left alone.
THEOREM EmptyPlanIsSync ==
    ASSUME NEW r \in Revision, NEW clu \in Clusters, NEW g \in Target, NEW reg
    PROVE  Empty(Build(r, clu, g, reg)) <=> InSync(r, clu, g, reg)
<1> DEFINE unprotected == Declared(r) \intersect g.protectedTopics = {}
<1>1. Empty(Build(r, clu, g, reg))
      <=> /\ TopicNeeds(r, clu, g) = {} /\ TopicRefusals(r, clu, g) = {}
          /\ SchemaNeeds(r, reg, g) = {} /\ SchemaRefusals(r, reg, g) = {}
  BY BuildByTopic DEF Empty
<1>2. Empty(Build(r, clu, g, reg))
      <=> /\ TopicsAsDeclared(r, clu, g) /\ unprotected
          /\ \A t \in Declared(r) : ~Lacks(r, reg, g, t)
  BY <1>1, NoTopicNeeds, NoSchemaNeeds
<1>3. unprotected => (SchemasAsDeclared(r, reg) <=> \A t \in Declared(r) : ~Lacks(r, reg, g, t))
  BY DEF SchemasAsDeclared, Lacks, HasSchemaToPlan, SchemaDiffers
<1> HIDE DEF unprotected
<1>4. InSync(r, clu, g, reg)
      <=> TopicsAsDeclared(r, clu, g) /\ SchemasAsDeclared(r, reg) /\ unprotected
  BY DEF InSync, unprotected
<1> QED
  BY <1>2, <1>3, <1>4

-----------------------------------------------------------------------------
(***************************************************************************)
(* The plan in the making: the two loops of Build, one topic at a time.    *)
(***************************************************************************)
\* What Build has planned, and refused, once it has come to the topics of D.
PlannedFor(r, clu, g, reg, D) ==
    [changes |-> UNION {NeedsOf(r, g, t, clu[t]) \union SchemaPlan(t, r.topics[t], g, reg).changes :
                          t \in D},
     blocked |-> UNION {RefusalsOf(r, g, t, clu[t]) \union SchemaPlan(t, r.topics[t], g, reg).blocked :
                          t \in D}]

LEMMA PlanStarts ==
    ASSUME NEW r, NEW clu, NEW g, NEW reg
    PROVE  PlannedFor(r, clu, g, reg, {}) = [changes |-> {}, blocked |-> {}]
BY DEF PlannedFor

Joined(a, b) == [changes |-> a.changes \union b.changes,
                 blocked |-> a.blocked \union b.blocked]

\* What a declared topic adds to the plan, and then its schema.
TopicPlan(r, clu, g, t) == [changes |-> NeedsOf(r, g, t, clu[t]),
                            blocked |-> RefusalsOf(r, g, t, clu[t])]

LEMMA JoinedTwice ==
    ASSUME NEW a, NEW b, NEW c
    PROVE  /\ Joined(Joined(a, b), c).changes = (a.changes \union b.changes) \union c.changes
           /\ Joined(Joined(a, b), c).blocked = (a.blocked \union b.blocked) \union c.blocked
BY DEF Joined

LEMMA PlanGrows ==
    ASSUME NEW r, NEW clu, NEW g, NEW reg, NEW D, NEW t
    PROVE  PlannedFor(r, clu, g, reg, D \union {t})
             = Joined(Joined(PlannedFor(r, clu, g, reg, D), TopicPlan(r, clu, g, t)),
                      SchemaPlan(t, r.topics[t], g, reg))
<1> DEFINE changes(u) == NeedsOf(r, g, u, clu[u]) \union SchemaPlan(u, r.topics[u], g, reg).changes
           blocked(u) == RefusalsOf(r, g, u, clu[u]) \union SchemaPlan(u, r.topics[u], g, reg).blocked
<1>1. ASSUME NEW E
      PROVE  /\ PlannedFor(r, clu, g, reg, E).changes = UNION {changes(u) : u \in E}
             /\ PlannedFor(r, clu, g, reg, E).blocked = UNION {blocked(u) : u \in E}
  BY DEF PlannedFor
<1> HIDE DEF changes, blocked
<1>2. /\ UNION {changes(u) : u \in D \union {t}} = (UNION {changes(u) : u \in D}) \union changes(t)
      /\ UNION {blocked(u) : u \in D \union {t}} = (UNION {blocked(u) : u \in D}) \union blocked(t)
  OBVIOUS
<1>3. /\ PlannedFor(r, clu, g, reg, D \union {t}).changes
            = PlannedFor(r, clu, g, reg, D).changes \union changes(t)
      /\ PlannedFor(r, clu, g, reg, D \union {t}).blocked
            = PlannedFor(r, clu, g, reg, D).blocked \union blocked(t)
  BY <1>1, <1>2
<1>4. PlannedFor(r, clu, g, reg, D \union {t})
        = [changes |-> PlannedFor(r, clu, g, reg, D).changes \union changes(t),
           blocked |-> PlannedFor(r, clu, g, reg, D).blocked \union blocked(t)]
  BY <1>3 DEF PlannedFor
<1>5. ASSUME NEW A, NEW B, NEW C
      PROVE  A \union (B \union C) = (A \union B) \union C
  OBVIOUS
<1> QED
  BY <1>4, <1>5 DEF changes, blocked, Joined, TopicPlan

LEMMA PlanEnds ==
    ASSUME NEW r \in Revision, NEW clu, NEW g, NEW reg
    PROVE  LET plan == PlannedFor(r, clu, g, reg, Declared(r))
               deletions == PlanDeletions(r, clu, g)
           IN  Build(r, clu, g, reg) = [changes |-> plan.changes \union deletions.changes,
                                        blocked |-> plan.blocked \union deletions.blocked]
<1> DEFINE topic(t)  == PlanTopic(t, r.topics[t], clu[t], g)
           schema(t) == SchemaPlan(t, r.topics[t], g, reg)
           D == Declared(r)
<1>1. \A t \in D : topic(t).changes = NeedsOf(r, g, t, clu[t])
                   /\ topic(t).blocked = RefusalsOf(r, g, t, clu[t])
  BY DEF NeedsOf, RefusalsOf
<1>2. Build(r, clu, g, reg)
        = [changes |-> (UNION {topic(t).changes \union schema(t).changes : t \in D})
                         \union PlanDeletions(r, clu, g).changes,
           blocked |-> (UNION {topic(t).blocked \union schema(t).blocked : t \in D})
                         \union PlanDeletions(r, clu, g).blocked]
  BY DEF Build
<1>3. /\ PlannedFor(r, clu, g, reg, D).changes
            = UNION {NeedsOf(r, g, t, clu[t]) \union schema(t).changes : t \in D}
      /\ PlannedFor(r, clu, g, reg, D).blocked
            = UNION {RefusalsOf(r, g, t, clu[t]) \union schema(t).blocked : t \in D}
  BY DEF PlannedFor
<1> HIDE DEF topic, schema, D
<1>4. /\ UNION {topic(t).changes \union schema(t).changes : t \in D}
            = UNION {NeedsOf(r, g, t, clu[t]) \union schema(t).changes : t \in D}
      /\ UNION {topic(t).blocked \union schema(t).blocked : t \in D}
            = UNION {RefusalsOf(r, g, t, clu[t]) \union schema(t).blocked : t \in D}
  BY <1>1
<1> QED
  BY <1>2, <1>3, <1>4 DEF D

\* What the schema of a topic adds to the plan, in the two halves of planSchema.
LEMMA SchemaPlanCases ==
    ASSUME NEW r, NEW g, NEW reg, NEW t
    PROVE  LET s == r.topics[t].schema
           IN  /\ ~Lacks(r, reg, g, t) => SchemaPlan(t, r.topics[t], g, reg)
                                            = [changes |-> {}, blocked |-> {}]
               /\ Lacks(r, reg, g, t) =>
                     SchemaPlan(t, r.topics[t], g, reg)
                        = PlanSchema(t, r.topics[t], LatestSchema(reg, s.subject),
                                     CheckCompatibility(reg, s.subject, s.body))
BY DEF SchemaPlan, Lacks

\* ListTopics yields a topic as it is when the topic does not change between the
\* two requests.
LEMMA ListingIsTheTopic ==
    ASSUME NEW clu \in Clusters, NEW listed, NEW t \in Topics,
           listed[t] = ListedTopics(clu)[t]
    PROVE  WithConfigs(clu, listed)[t] = clu[t]
<1>1. CASE clu[t] = None
  BY <1>1 DEF WithConfigs, ListedTopics
<1>2. CASE clu[t] # None
  <2>1. clu[t] \in TopicState
    BY <1>2 DEF Clusters
  <2>2. /\ listed[t] = [clu[t] EXCEPT !.config = NoConfig]
        /\ listed[t] \in TopicState
    BY <1>2, <2>1 DEF ListedTopics, TopicState, NoConfig, Config
  <2>3. listed[t] # None
    BY <2>2, ProviderAssumption
  <2>4. WithConfigs(clu, listed)[t] = [listed[t] EXCEPT !.config = clu[t].config]
    BY <2>3 DEF WithConfigs
  <2> QED
    BY <2>1, <2>2, <2>4 DEF TopicState
<1> QED
  BY <1>1, <1>2

\* ListTopics yields the cluster as it is when nothing changes between its two
\* requests.
LEMMA ListingIsTheCluster ==
    ASSUME NEW clu \in Clusters
    PROVE  /\ WithConfigs(clu, ListedTopics(clu)) = clu
           /\ clu = NoTopics => ListedTopics(clu) = clu
<1> DEFINE listed == ListedTopics(clu)
<1>1. WithConfigs(clu, listed) = clu
  <2>1. WithConfigs(clu, listed) = [t \in Topics |-> WithConfigs(clu, listed)[t]]
    BY DEF WithConfigs
  <2>2. clu = [t \in Topics |-> clu[t]]
    BY DEF Clusters
  <2>3. \A t \in Topics : WithConfigs(clu, listed)[t] = clu[t]
    BY ListingIsTheTopic
  <2> HIDE DEF listed
  <2> QED
    BY <2>1, <2>2, <2>3
<1>2. clu = NoTopics => ListedTopics(clu) = clu
  BY DEF NoTopics, ListedTopics
<1> QED
  BY <1>1, <1>2

-----------------------------------------------------------------------------
(***************************************************************************)
(* What a plan is about: the topics its revision owns and the subjects it  *)
(* names, and nothing else of the two services.                            *)
(***************************************************************************)
LEMMA ForeignTopicsDoNotCount ==
    ASSUME NEW r \in Revision, NEW g, NEW t, NEW found, NEW now,
           t \in r.ownership => now = found
    PROVE  /\ NeedsOf(r, g, t, now) = NeedsOf(r, g, t, found)
           /\ RefusalsOf(r, g, t, now) = RefusalsOf(r, g, t, found)
<1>1. CASE t \in r.ownership
  BY <1>1
<1>2. CASE t \notin r.ownership
  <2>1. t \notin Declared(r)
    BY <1>2, RevisionFacts
  <2> QED
    BY <1>2, <2>1 DEF NeedsOf, RefusalsOf
<1> QED
  BY <1>1, <1>2

LEMMA OnlyOwnTopicsCount ==
    ASSUME NEW r \in Revision, NEW g, NEW clu, NEW now,
           \A t \in r.ownership : now[t] = clu[t]
    PROVE  /\ \A t \in Topics : /\ NeedsOf(r, g, t, now[t]) = NeedsOf(r, g, t, clu[t])
                                /\ RefusalsOf(r, g, t, now[t]) = RefusalsOf(r, g, t, clu[t])
           /\ TopicNeeds(r, now, g) = TopicNeeds(r, clu, g)
           /\ TopicRefusals(r, now, g) = TopicRefusals(r, clu, g)
           /\ PlanDeletions(r, now, g) = PlanDeletions(r, clu, g)
           /\ TopicsAsDeclared(r, now, g) <=> TopicsAsDeclared(r, clu, g)
<1>1. ASSUME NEW t \in Topics
      PROVE  /\ NeedsOf(r, g, t, now[t]) = NeedsOf(r, g, t, clu[t])
             /\ RefusalsOf(r, g, t, now[t]) = RefusalsOf(r, g, t, clu[t])
  BY ForeignTopicsDoNotCount
<1>2. TopicNeeds(r, now, g) = TopicNeeds(r, clu, g)
  BY <1>1 DEF TopicNeeds
<1>3. TopicRefusals(r, now, g) = TopicRefusals(r, clu, g)
  BY <1>1 DEF TopicRefusals
<1>4. PlanDeletions(r, now, g) = PlanDeletions(r, clu, g)
  <2>1. Undeclared(r, now, g) = Undeclared(r, clu, g)
    BY DEF Undeclared
  <2> QED
    BY <2>1 DEF PlanDeletions
<1>5. TopicsAsDeclared(r, now, g) <=> TopicsAsDeclared(r, clu, g)
  <2>1. \A t \in Topics : r.topics[t] # None => t \in r.ownership
    BY RevisionFacts DEF Declared
  <2> QED
    BY <2>1 DEF TopicsAsDeclared
<1> QED
  BY <1>1, <1>2, <1>3, <1>4, <1>5

LEMMA OnlyOwnSubjectsCount ==
    ASSUME NEW r, NEW g, NEW reg, NEW now,
           \A s \in SubjectsOf(r) : now[s] = reg[s]
    PROVE  /\ \A t \in Declared(r) :
                 /\ SchemaPlan(t, r.topics[t], g, now) = SchemaPlan(t, r.topics[t], g, reg)
                 /\ Lacks(r, now, g, t) <=> Lacks(r, reg, g, t)
                 /\ r.topics[t].schema # None =>
                       now[r.topics[t].schema.subject] = reg[r.topics[t].schema.subject]
           /\ SchemaNeeds(r, now, g) = SchemaNeeds(r, reg, g)
           /\ SchemaRefusals(r, now, g) = SchemaRefusals(r, reg, g)
           /\ SchemasAsDeclared(r, now) <=> SchemasAsDeclared(r, reg)
           /\ NothingReverted(r, now) <=> NothingReverted(r, reg)
<1>1. \A t \in Declared(r) : r.topics[t].schema # None =>
           now[r.topics[t].schema.subject] = reg[r.topics[t].schema.subject]
  BY DEF SubjectsOf
<1>2. ASSUME NEW t \in Declared(r)
      PROVE  /\ SchemaPlan(t, r.topics[t], g, now) = SchemaPlan(t, r.topics[t], g, reg)
             /\ Lacks(r, now, g, t) <=> Lacks(r, reg, g, t)
  <2>1. CASE r.topics[t].schema = None
    BY <2>1 DEF SchemaPlan, Lacks, HasSchemaToPlan
  <2>2. CASE r.topics[t].schema # None
    BY <1>1, <2>2 DEF SchemaPlan, Lacks, LatestSchema, CheckCompatibility
  <2> QED
    BY <2>1, <2>2
<1>3. SchemaNeeds(r, now, g) = SchemaNeeds(r, reg, g)
  BY <1>2 DEF SchemaNeeds
<1>4. SchemaRefusals(r, now, g) = SchemaRefusals(r, reg, g)
  BY <1>2 DEF SchemaRefusals
<1>5. SchemasAsDeclared(r, now) <=> SchemasAsDeclared(r, reg)
  BY <1>1 DEF SchemasAsDeclared, LatestSchema
<1>6. NothingReverted(r, now) <=> NothingReverted(r, reg)
  BY <1>1 DEF NothingReverted
<1> QED
  BY <1>1, <1>2, <1>3, <1>4, <1>5, <1>6

LEMMA OnlyItsOwnCounts ==
    ASSUME NEW r \in Revision, NEW g,
           NEW clu, NEW cluNow, \A t \in r.ownership : cluNow[t] = clu[t],
           NEW reg, NEW regNow, \A s \in SubjectsOf(r) : regNow[s] = reg[s]
    PROVE  /\ \A D \in SUBSET Declared(r) :
                 PlannedFor(r, cluNow, g, regNow, D) = PlannedFor(r, clu, g, reg, D)
           /\ InSync(r, cluNow, g, regNow) <=> InSync(r, clu, g, reg)
<1>1. ASSUME NEW D \in SUBSET Declared(r)
      PROVE  PlannedFor(r, cluNow, g, regNow, D) = PlannedFor(r, clu, g, reg, D)
  <2>1. \A t \in D :
           /\ NeedsOf(r, g, t, cluNow[t]) = NeedsOf(r, g, t, clu[t])
           /\ RefusalsOf(r, g, t, cluNow[t]) = RefusalsOf(r, g, t, clu[t])
           /\ SchemaPlan(t, r.topics[t], g, regNow) = SchemaPlan(t, r.topics[t], g, reg)
    <3>1. \A t \in D : t \in Topics /\ t \in Declared(r)
      BY RevisionFacts
    <3>2. \A t \in Topics : /\ NeedsOf(r, g, t, cluNow[t]) = NeedsOf(r, g, t, clu[t])
                            /\ RefusalsOf(r, g, t, cluNow[t]) = RefusalsOf(r, g, t, clu[t])
      BY OnlyOwnTopicsCount
    <3>3. \A t \in Declared(r) :
             SchemaPlan(t, r.topics[t], g, regNow) = SchemaPlan(t, r.topics[t], g, reg)
      BY OnlyOwnSubjectsCount
    <3> QED
      BY <3>1, <3>2, <3>3
  <2> DEFINE planned(c, q) == UNION {NeedsOf(r, g, t, c[t])
                                       \union SchemaPlan(t, r.topics[t], g, q).changes : t \in D}
             refused(c, q) == UNION {RefusalsOf(r, g, t, c[t])
                                       \union SchemaPlan(t, r.topics[t], g, q).blocked : t \in D}
  <2>2. \A c, q : PlannedFor(r, c, g, q, D)
                     = [changes |-> planned(c, q), blocked |-> refused(c, q)]
    BY DEF PlannedFor
  <2>3. planned(cluNow, regNow) = planned(clu, reg)
    BY <2>1
  <2>4. refused(cluNow, regNow) = refused(clu, reg)
    BY <2>1
  <2> HIDE DEF planned, refused
  <2> QED
    BY <2>2, <2>3, <2>4
<1>2. InSync(r, cluNow, g, regNow) <=> InSync(r, clu, g, reg)
  BY OnlyOwnTopicsCount, OnlyOwnSubjectsCount DEF InSync
<1> QED
  BY <1>1, <1>2
=============================================================================
