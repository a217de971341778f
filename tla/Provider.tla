------------------------------ MODULE Provider ------------------------------
(***************************************************************************)
(* The two services the plugin administers, in the terms the plugin sees   *)
(* them: a Kafka cluster (provider.Cluster) and a schema registry          *)
(* (provider.Registry), and the desired state an application declares      *)
(* about them.                                                             *)
(*                                                                         *)
(* Names are numbers, so that "<" is the order sort.Strings gives them; a  *)
(* glob pattern is the set of names it matches; a config is a function of  *)
(* every key, None where the key is not set; a subject is the body of its  *)
(* latest version, None where it has no version, and those of older ones.  *)
(***************************************************************************)
EXTENDS Integers

CONSTANTS
    Topics,        \* topic names
    Keys,          \* dynamic topic config keys
    Values,        \* config values
    Subjects,      \* registry subjects
    Bodies,        \* schema texts, after strings.TrimSpace
    Levels,        \* compatibility levels, such as BACKWARD
    SubjectLevel,  \* the level each subject is configured with in the registry
    CompatibleAt,  \* per level, the pairs <<latest body, new body>> it accepts
    MaxPartitions, \* the largest number of partitions a request has room for (an int32)
    MaxReplicas,   \* the largest replication factor it has room for (an int16)
    DefaultCount,  \* the partitions and replicas of a topic created without a number
    None           \* "not there": no topic, no value, no schema, no version

Positive == Nat \ {0}

Config == [Keys -> Values \union {None}]

\* A topic on the cluster (the name is the index it is found under).
TopicState == [partitions: Positive, replicationFactor: Positive, config: Config]

Schema == [subject: Subjects, body: Bodies]

\* A topic as declared in the repository, after defaults and validation.
Topic == [partitions: Positive, replicationFactor: Positive, config: Config,
          schema: Schema \union {None}]

\* The registry never keeps one body as two versions of a subject.
Subject == {s \in [latest: Bodies \union {None}, older: SUBSET Bodies] :
                s.latest \notin s.older /\ (s.latest = None => s.older = {})}

Clusters   == [Topics -> TopicState \union {None}]
Registries == [Subjects -> Subject]

(***************************************************************************)
(* One commit of an application: what it declares, the topics its          *)
(* ownership patterns match, and whether the application config and the    *)
(* topic files can be read at all.  LoadTopics refuses a declared topic    *)
(* outside the ownership patterns, so a revision that loads declares only  *)
(* topics it owns.                                                         *)
(***************************************************************************)
Revision == {r \in [topics: [Topics -> Topic \union {None}],
                    ownership: SUBSET Topics, loads: BOOLEAN] :
                \A t \in Topics : r.topics[t] # None => t \in r.ownership}

Declared(revision) == {t \in Topics : revision.topics[t] # None}

\* The part of a deploy target's config that limits what the plugin may do.
Target == [allowTopicDeletion: BOOLEAN, allowPartitionIncrease: BOOLEAN,
           protectedTopics: SUBSET Topics, schemaRegistry: BOOLEAN]

ASSUME ProviderAssumption ==
    /\ Topics \subseteq Nat
    /\ SubjectLevel \in [Subjects -> Levels]
    /\ CompatibleAt \in [Levels -> SUBSET (Bodies \X Bodies)]
    /\ None \notin Values \union Bodies
    /\ None \notin TopicState /\ None \notin Topic /\ None \notin Schema
    /\ {MaxPartitions, MaxReplicas, DefaultCount} \subseteq Positive

NoTopics == [t \in Topics |-> None]
NoConfig == [k \in Keys |-> None]

-----------------------------------------------------------------------------
(***************************************************************************)
(* ListTopics in its two requests: the topics, and then the configs of     *)
(* those it was told of, which fails for one that is gone by then.         *)
(***************************************************************************)
ListedTopics(cluster) ==
    [t \in Topics |-> IF cluster[t] = None THEN None
                      ELSE [cluster[t] EXCEPT !.config = NoConfig]]

DescribeAccepted(cluster, listed) ==
    \A t \in Topics : listed[t] # None => cluster[t] # None

WithConfigs(cluster, listed) ==
    [t \in Topics |-> IF listed[t] = None THEN None
                      ELSE [listed[t] EXCEPT !.config = cluster[t].config]]

(***************************************************************************)
(* The cluster's side of an admin call: when it is accepted, and what the  *)
(* cluster is afterwards.                                                  *)
(***************************************************************************)
Alter(config, set, delete) ==
    [k \in Keys |-> IF k \in delete THEN None
                    ELSE IF k \in DOMAIN set THEN set[k]
                    ELSE config[k]]

\* An int as the signed number with the largest value max that a request has
\* room for.
Narrowed(n, max) ==
    LET low == n % (2 * (max + 1)) IN IF low > max THEN low - 2 * (max + 1) ELSE low

\* -1 asks for the default.
Asked(n, max) == IF Narrowed(n, max) = -1 THEN DefaultCount ELSE Narrowed(n, max)

\* The topic the cluster is asked to create for a declared or planned state.
Requested(state) ==
    [partitions        |-> Asked(state.partitions, MaxPartitions),
     replicationFactor |-> Asked(state.replicationFactor, MaxReplicas),
     config            |-> state.config]

CreateAccepted(cluster, t, state) ==
    cluster[t] = None /\ {Requested(state).partitions, Requested(state).replicationFactor}
                            \subseteq Positive
Created(cluster, t, state) == [cluster EXCEPT ![t] = Requested(state)]

AlterAccepted(cluster, t) == cluster[t] # None
Altered(cluster, t, set, delete) ==
    [cluster EXCEPT ![t].config = Alter(@, set, delete)]

\* The new total has to exceed the present one; the cluster refuses an equal one.
IncreaseAccepted(cluster, t, count) ==
    cluster[t] # None /\ Narrowed(count, MaxPartitions) > cluster[t].partitions
Increased(cluster, t, count) ==
    [cluster EXCEPT ![t].partitions = Narrowed(count, MaxPartitions)]

DeleteAccepted(cluster, t) == cluster[t] # None
Deleted(cluster, t) == [cluster EXCEPT ![t] = None]

(***************************************************************************)
(* The registry's side.  A subject without a version is compatible with    *)
(* anything; otherwise the level configured for the subject decides, both  *)
(* when the plugin asks and when it registers a body.  A body that is a    *)
(* version of the subject already is not checked and not registered again: *)
(* the answer is that version, and the latest one stays the latest.        *)
(***************************************************************************)
LatestSchema(registry, subject) == registry[subject].latest

Versions(registry, subject) ==
    registry[subject].older \union ({registry[subject].latest} \ {None})

CheckCompatibility(registry, subject, body) ==
    \/ LatestSchema(registry, subject) = None
    \/ <<LatestSchema(registry, subject), body>> \in CompatibleAt[SubjectLevel[subject]]

RegisterAccepted(registry, subject, body) ==
    body \in Versions(registry, subject) \/ CheckCompatibility(registry, subject, body)

Registered(registry, subject, body) ==
    IF body \in Versions(registry, subject) THEN registry
    ELSE [registry EXCEPT ![subject] =
            [latest |-> body, older |-> Versions(registry, subject)]]
=============================================================================
