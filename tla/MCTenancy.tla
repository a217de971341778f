------------------------------ MODULE MCTenancy ------------------------------
(***************************************************************************)
(* Topic 1 and subject "s" are this application's, topic 2 and subject "r" *)
(* its neighbour's.  Each may create, grow, reconfigure and delete.        *)
(***************************************************************************)
EXTENDS Tenancy

MCTopics   == {1, 2}
MCKeys     == {"retention"}
MCValues   == {"v1"}
MCSubjects == {"s", "r"}
MCBodies   == {"b1"}
MCLevels   == {"BACKWARD"}
MCSubjectLevel == [s \in MCSubjects |-> "BACKWARD"]
MCCompatibleAt == [l \in MCLevels |-> {}]

Declares(t, n, v, s) ==
    [topics |-> [u \in MCTopics |->
        IF u # t THEN None
        ELSE [partitions |-> n, replicationFactor |-> 1, config |-> [k \in MCKeys |-> v],
              schema |-> IF s = None THEN None ELSE [subject |-> s, body |-> "b1"]]],
     ownership |-> {t}, loads |-> TRUE]
DeclaresNothing(t) ==
    [topics |-> [u \in MCTopics |-> None], ownership |-> {t}, loads |-> TRUE]

OurRevisions     == {Declares(1, 2, "v1", "s"), DeclaresNothing(1)}
MCTheirRevisions == {Declares(2, 2, "v1", "r"), DeclaresNothing(2)}

Permissive == [allowTopicDeletion |-> TRUE, allowPartitionIncrease |-> TRUE,
               protectedTopics |-> {}, schemaRegistry |-> TRUE]
MCTargets   == {Permissive}
MCPipelines == {<<"KAFKA_APPLY">>}
MCOptions   == {[exitOnNoChanges |-> FALSE, continueOnError |-> TRUE, compatibility |-> None]}

MCForeignStates == {[partitions |-> 1, replicationFactor |-> 1,
                     config |-> [k \in MCKeys |-> None]]}
=============================================================================
