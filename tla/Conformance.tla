---------------------------- MODULE Conformance ----------------------------
(***************************************************************************)
(* What it is for a cluster and a registry to be as a revision declares,   *)
(* said without a plan.                                                    *)
(***************************************************************************)
EXTENDS Plan

TopicsAsDeclared(revision, cluster, target) ==
    \A t \in Topics :
        /\ revision.topics[t] # None => cluster[t] = DesiredState(revision.topics[t])
        /\ (revision.topics[t] = None /\ t \in revision.ownership \ target.protectedTopics)
              => cluster[t] = None

SchemasAsDeclared(revision, registry) ==
    \A t \in Declared(revision) :
        LET schema == revision.topics[t].schema
        IN  schema # None => LatestSchema(registry, schema.subject) = schema.body

\* The deploy target never lets go of a declared topic it protects: that is a
\* difference too.
InSync(revision, cluster, target, registry) ==
    /\ TopicsAsDeclared(revision, cluster, target)
    /\ SchemasAsDeclared(revision, registry)
    /\ Declared(revision) \intersect target.protectedTopics = {}

\* The subjects a revision names.
SubjectsOf(revision) ==
    {revision.topics[t].schema.subject :
        t \in {u \in Declared(revision) : revision.topics[u].schema # None}}

\* No two topics of the revision share a subject, which the planner does not
\* notice.
DistinctSubjects(revision) ==
    \A t, u \in Declared(revision) :
        /\ t # u /\ revision.topics[t].schema # None /\ revision.topics[u].schema # None
        => revision.topics[t].schema.subject # revision.topics[u].schema.subject

\* No declared body is an older version of its subject: registering such a body
\* again leaves the latest version where it is.
NothingReverted(revision, registry) ==
    \A t \in Declared(revision) :
        LET schema == revision.topics[t].schema
        IN  schema # None => schema.body \notin registry[schema.subject].older

\* A request has room for every count the revision declares.
CountsFit(r) ==
    \A t \in Declared(r) : /\ r.topics[t].partitions <= MaxPartitions
                           /\ r.topics[t].replicationFactor <= MaxReplicas

\* Revision r declares, or no longer declares, what the change does, and deploy
\* target g permits it.
Warranted(c, r, g) ==
    LET declared == r.topics[c.topic]
    IN  /\ c.topic \in r.ownership \ g.protectedTopics
        /\ c.kind = "DeleteTopic" <=> declared = None
        /\ c.kind = "CreateTopic" => c.desired = DesiredState(declared)
        /\ c.kind = "UpdateTopicConfig" =>
              /\ \A k \in DOMAIN c.set : c.set[k] = declared.config[k]
              /\ \A k \in c.delete : declared.config[k] = None
        /\ c.kind = "IncreasePartitions" =>
              c.to = declared.partitions /\ g.allowPartitionIncrease
        /\ c.kind = "DeleteTopic" => g.allowTopicDeletion
        /\ c.kind = "RegisterSchema" =>
              /\ declared.schema = [subject |-> c.subject, body |-> c.body]
              /\ g.schemaRegistry
=============================================================================
