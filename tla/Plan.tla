-------------------------------- MODULE Plan --------------------------------
(***************************************************************************)
(* plan.Build: the changes that would move a cluster and a registry to     *)
(* what a revision declares, and the changes the deploy target refuses.    *)
(*                                                                         *)
(* The slice Plan.Changes is a set here together with the order Before it  *)
(* is built in: topics by name, for each topic its creation or growth,     *)
(* then its config, then its schema, and every deletion after all of them. *)
(***************************************************************************)
EXTENDS Provider

CreateTopic(t, desired) ==
    [kind |-> "CreateTopic", topic |-> t, desired |-> desired]
UpdateTopicConfig(t, set, delete, before) ==
    [kind |-> "UpdateTopicConfig", topic |-> t,
     set |-> set, delete |-> delete, before |-> before]
IncreasePartitions(t, to) ==
    [kind |-> "IncreasePartitions", topic |-> t, to |-> to]
DeleteTopic(t) == [kind |-> "DeleteTopic", topic |-> t]
RegisterSchema(t, schema, replaces) ==
    [kind |-> "RegisterSchema", topic |-> t,
     subject |-> schema.subject, body |-> schema.body, replaces |-> replaces]

Blocked(t, reason) == [topic |-> t, reason |-> reason]
Reasons == {"protected", "replicationFactor", "partitionIncrease",
            "partitionDecrease", "incompatible", "deletion"}

Change ==
    LET maps == UNION {[K -> Values] : K \in SUBSET Keys}
    IN  [kind: {"CreateTopic"}, topic: Topics, desired: TopicState]
        \union [kind: {"UpdateTopicConfig"}, topic: Topics,
                set: maps, delete: SUBSET Keys, before: maps]
        \union [kind: {"IncreasePartitions"}, topic: Topics, to: Positive]
        \union [kind: {"DeleteTopic"}, topic: Topics]
        \union [kind: {"RegisterSchema"}, topic: Topics, subject: Subjects,
                body: Bodies, replaces: Bodies \union {None}]

\* Whether a rollback could undo a change of this kind.
Reversible(kind) == kind \in {"CreateTopic", "UpdateTopicConfig", "RegisterSchema"}

TopicChanges(changes) == {c \in changes : c.kind # "RegisterSchema"}

\* Mutant: one registration per subject, whatever the bodies.
SchemaChangesOnePerSubject(changes) ==
    {c \in changes : c.kind = "RegisterSchema"
        /\ \A d \in changes : d.kind = "RegisterSchema" /\ d.subject = c.subject
                               => c.topic <= d.topic}

SchemaChanges(changes) == {c \in changes : c.kind = "RegisterSchema"}
Irreversible(changes)  == {c \in changes : ~Reversible(c.kind)}

-----------------------------------------------------------------------------
Rank(kind) == CASE kind \in {"CreateTopic", "IncreasePartitions"} -> 1
                [] kind = "UpdateTopicConfig" -> 2
                [] kind = "RegisterSchema" -> 3
                [] kind = "DeleteTopic" -> 4

Deletes(c) == c.kind = "DeleteTopic"

\* Mutant: the deletions come first.
BeforeDeletionsFirst(a, b) ==
    \/ Deletes(a) /\ ~Deletes(b)
    \/ /\ Deletes(a) <=> Deletes(b)
       /\ \/ a.topic < b.topic
          \/ a.topic = b.topic /\ Rank(a.kind) < Rank(b.kind)

\* a comes before b in Plan.Changes.
Before(a, b) ==
    \/ ~Deletes(a) /\ Deletes(b)
    \/ /\ Deletes(a) <=> Deletes(b)
       /\ \/ a.topic < b.topic
          \/ a.topic = b.topic /\ Rank(a.kind) < Rank(b.kind)

\* c is the next of the changes still to do.
IsNext(c, todo) == c \in todo /\ \A d \in todo \ {c} : Before(c, d)

-----------------------------------------------------------------------------
When(condition, x) == IF condition THEN {x} ELSE {}

DesiredState(topic) ==
    [partitions |-> topic.partitions, replicationFactor |-> topic.replicationFactor,
     config |-> topic.config]

\* Mutant: keys that are no longer declared are left as they are.
DiffConfigOnlySets(desired, actual) ==
    LET set == {k \in Keys : desired[k] # None /\ desired[k] # actual[k]}
    IN  [set    |-> [k \in set |-> desired[k]],
         delete |-> {},
         before |-> [k \in {k \in set : actual[k] # None} |-> actual[k]]]

\* Mutant: a key that is no longer declared is set to no value.
DiffConfigSetsNoValue(desired, actual) ==
    LET set == {k \in Keys : desired[k] # actual[k]}
    IN  [set    |-> [k \in set |-> desired[k]],
         delete |-> {},
         before |-> [k \in {k \in set : actual[k] # None} |-> actual[k]]]

\* The keys to set, the keys to reset to the broker default, and the previous
\* value of every key touched that had one.
DiffConfig(desired, actual) ==
    LET set    == {k \in Keys : desired[k] # None /\ desired[k] # actual[k]}
        delete == {k \in Keys : desired[k] = None /\ actual[k] # None}
    IN  [set    |-> [k \in set |-> desired[k]],
         delete |-> delete,
         before |-> [k \in {k \in set \union delete : actual[k] # None} |-> actual[k]]]

ConfigChanges(t, topic, actual) ==
    LET diff == DiffConfig(topic.config, actual.config)
    IN  When(DOMAIN diff.set # {} \/ diff.delete # {},
             UpdateTopicConfig(t, diff.set, diff.delete, diff.before))

\* Mutant: any other partition count is taken for growth.
CompareExistingForgetsShrinking(t, topic, actual, target) ==
    LET differs == topic.partitions # actual.partitions
    IN  [changes |->
            When(differs /\ target.allowPartitionIncrease,
                 IncreasePartitions(t, topic.partitions))
            \union ConfigChanges(t, topic, actual),
         blocked |->
            When(topic.replicationFactor # actual.replicationFactor,
                 Blocked(t, "replicationFactor"))
            \union When(differs /\ ~target.allowPartitionIncrease,
                        Blocked(t, "partitionIncrease"))]

CompareExisting(t, topic, actual, target) ==
    LET grows   == topic.partitions > actual.partitions
        shrinks == topic.partitions < actual.partitions
    IN  [changes |->
            When(grows /\ target.allowPartitionIncrease,
                 IncreasePartitions(t, topic.partitions))
            \union ConfigChanges(t, topic, actual),
         blocked |->
            When(topic.replicationFactor # actual.replicationFactor,
                 Blocked(t, "replicationFactor"))
            \union When(grows /\ ~target.allowPartitionIncrease,
                        Blocked(t, "partitionIncrease"))
            \union When(shrinks, Blocked(t, "partitionDecrease"))]

\* A declared topic against what the cluster has under its name, None included.
PlanTopic(t, topic, actual, target) ==
    IF t \in target.protectedTopics
    THEN [changes |-> {}, blocked |-> {Blocked(t, "protected")}]
    ELSE IF actual = None
    THEN [changes |-> {CreateTopic(t, DesiredState(topic))}, blocked |-> {}]
    ELSE CompareExisting(t, topic, actual, target)

\* planSchema, in its two halves: whether the subject's latest version, as
\* read, calls for a new one; and what the registry's verdict makes of it.
HasSchemaToPlan(t, topic, target) ==
    t \notin target.protectedTopics /\ topic.schema # None

\* Mutant: a subject without a version has nothing to differ from.
SchemaDiffersFromAVersion(topic, latest) == latest # None /\ latest # topic.schema.body

SchemaDiffers(topic, latest) == latest # topic.schema.body

PlanSchema(t, topic, latest, compatible) ==
    IF compatible
    THEN [changes |-> {RegisterSchema(t, topic.schema, latest)}, blocked |-> {}]
    ELSE [changes |-> {}, blocked |-> {Blocked(t, "incompatible")}]

\* Mutant: deletes what it owns and does not declare, there or not.
UndeclaredThereOrNot(revision, actual, target) ==
    {t \in revision.ownership \ target.protectedTopics : revision.topics[t] = None}

\* Mutant: deletes what it does not declare, whoever owns it.
UndeclaredByAnyone(revision, actual, target) ==
    {t \in Topics \ target.protectedTopics :
        actual[t] # None /\ revision.topics[t] = None}

\* Topics on the cluster that the application owns and no longer declares.
Undeclared(revision, actual, target) ==
    {t \in revision.ownership \ target.protectedTopics :
        actual[t] # None /\ revision.topics[t] = None}

PlanDeletions(revision, actual, target) ==
    LET gone == Undeclared(revision, actual, target)
    IN  [changes |-> {DeleteTopic(t) : t \in {u \in gone : target.allowTopicDeletion}},
         blocked |-> {Blocked(t, "deletion") :
                         t \in {u \in gone : ~target.allowTopicDeletion}}]

-----------------------------------------------------------------------------
(***************************************************************************)
(* Build as one step: the plan an undisturbed stage arrives at.            *)
(***************************************************************************)
\* A declared schema is an error when the deploy target has no registry.
BuildFails(revision, target) ==
    /\ ~target.schemaRegistry
    /\ \E t \in Declared(revision) : HasSchemaToPlan(t, revision.topics[t], target)

SchemaPlan(t, topic, target, registry) ==
    IF /\ HasSchemaToPlan(t, topic, target)
       /\ SchemaDiffers(topic, LatestSchema(registry, topic.schema.subject))
    THEN PlanSchema(t, topic, LatestSchema(registry, topic.schema.subject),
                    CheckCompatibility(registry, topic.schema.subject, topic.schema.body))
    ELSE [changes |-> {}, blocked |-> {}]

Build(revision, actual, target, registry) ==
    LET topic(t)  == PlanTopic(t, revision.topics[t], actual[t], target)
        schema(t) == SchemaPlan(t, revision.topics[t], target, registry)
        deletions == PlanDeletions(revision, actual, target)
    IN  [changes |-> (UNION {topic(t).changes \union schema(t).changes :
                               t \in Declared(revision)})
                     \union deletions.changes,
         blocked |-> (UNION {topic(t).blocked \union schema(t).blocked :
                               t \in Declared(revision)})
                     \union deletions.blocked]

Empty(plan)      == plan.changes = {} /\ plan.blocked = {}
HasBlocked(plan) == plan.blocked # {}
=============================================================================
