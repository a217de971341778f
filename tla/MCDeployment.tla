---------------------------- MODULE MCDeployment ----------------------------
(***************************************************************************)
(* Small instances of Deployment.  Topic 1 is ordinary, topic 2 may be     *)
(* protected; one config key, one subject, two texts of which "b2" can     *)
(* replace "b1" and not the other way round.  Counts have three bits       *)
(* instead of 32 and 16.                                                   *)
(***************************************************************************)
EXTENDS DeploymentProperties

MCTopics   == {1, 2}
MCKeys     == {"retention"}
MCValues   == {"v1", "v2"}
MCSubjects == {"s"}
MCBodies   == {"b1", "b2"}
MCLevels   == {"BACKWARD", "NONE"}
MCSubjectLevel == [s \in MCSubjects |-> "BACKWARD"]
MCCompatibleAt == [l \in MCLevels |->
    IF l = "NONE" THEN MCBodies \X MCBodies ELSE {<<"b1", "b2">>}]

Cfg(v) == [k \in MCKeys |-> v]
State(n, v) == [partitions |-> n, replicationFactor |-> 1, config |-> Cfg(v)]
Plain(n, v) == [partitions |-> n, replicationFactor |-> 1, config |-> Cfg(v), schema |-> None]
WithSchema(n, v, b) == [Plain(n, v) EXCEPT !.schema = [subject |-> "s", body |-> b]]

Commit(first, second, owned) ==
    [topics |-> [t \in MCTopics |-> IF t = 1 THEN first ELSE second],
     ownership |-> owned, loads |-> TRUE]

Both      == Commit(WithSchema(1, "v1", "b1"), Plain(1, None), {1, 2})
Grown     == Commit(WithSchema(2, "v2", "b2"), Plain(1, "v1"), {1, 2})
OnlyFirst == Commit(WithSchema(2, None, "b2"), None, {1, 2})
Narrower  == Commit(Plain(1, "v1"), None, {1})
Shared    == Commit(WithSchema(1, "v1", "b1"), WithSchema(1, None, "b2"), {1, 2})
\* Nine replicas are one, and seven the default, in three bits.
Wide      == Commit([Plain(1, "v1") EXCEPT !.replicationFactor = 9],
                    [Plain(9, "v1") EXCEPT !.replicationFactor = 7], {1, 2})
Broken    == [Both EXCEPT !.loads = FALSE]

Open      == [allowTopicDeletion |-> TRUE, allowPartitionIncrease |-> TRUE,
              protectedTopics |-> {}, schemaRegistry |-> TRUE]
Closed    == [Open EXCEPT !.allowTopicDeletion = FALSE, !.allowPartitionIncrease = FALSE]
Protects  == [Open EXCEPT !.protectedTopics = {2}]
NoSchemas == [Open EXCEPT !.schemaRegistry = FALSE]

FullPipeline == <<"KAFKA_PLAN", "KAFKA_REGISTER_SCHEMA", "KAFKA_APPLY">>
With(exit, continue) == [exitOnNoChanges |-> exit, continueOnError |-> continue,
                         compatibility |-> None]

MCForeignStates == {State(1, "v1"), State(2, "v2")}

\* Nobody else at work: every kind of revision and target.
QuietRevisions == {Both, Grown, OnlyFirst, Narrower, Shared, Wide, Broken}
QuietTargets   == {Open, Closed, Protects, NoSchemas}
QuietPipelines == {FullPipeline}
QuietOptions   == {With(TRUE, FALSE), With(FALSE, TRUE)}

\* Somebody else at work: fewer of them.
SomeRevisions == {Both, Grown, OnlyFirst}
SomeTargets   == {Open, Closed, Protects}
SomePipelines == {FullPipeline}
SomeOptions   == {With(TRUE, TRUE)}

LiveTargets    == {Open, Protects}
LiveRevisions  == {Both, OnlyFirst}
OpenOnly       == {Open}
WideOnly       == {Wide}
OverrideOptions == {[With(FALSE, FALSE) EXCEPT !.compatibility = "BACKWARD"]}
AnySubjectLevel == [s \in MCSubjects |-> "NONE"]
=============================================================================
