---------------------------- MODULE MCLivestate ----------------------------
(***************************************************************************)
(* Livestate over two topics, two subjects and the rails that matter to a  *)
(* comparison.                                                             *)
(***************************************************************************)
EXTENDS Livestate

MCTopics   == {1, 2}
MCKeys     == {"retention"}
MCValues   == {"v1", "v2"}
MCSubjects == {"s", "u"}
MCBodies   == {"b1", "b2"}
MCLevels   == {"BACKWARD"}
MCSubjectLevel == [s \in MCSubjects |-> "BACKWARD"]
MCCompatibleAt == [l \in MCLevels |-> {<<"b1", "b2">>}]

State(n, v) == [partitions |-> n, replicationFactor |-> 1,
                config |-> [k \in MCKeys |-> v]]
Plain(n, v) == [partitions |-> n, replicationFactor |-> 1,
                config |-> [k \in MCKeys |-> v], schema |-> None]
Schemed(n, v, s, b) == [Plain(n, v) EXCEPT !.schema = [subject |-> s, body |-> b]]

Commit(first, second) ==
    [topics |-> [t \in MCTopics |-> IF t = 1 THEN first ELSE second],
     ownership |-> {1, 2}, loads |-> TRUE]

MCRevisions ==
    LET both == Commit(Schemed(1, "v1", "s", "b1"), Schemed(1, None, "u", "b2"))
    IN  {both, [both EXCEPT !.loads = FALSE],
         Commit(Schemed(2, "v1", "s", "b2"), None),
         Commit(Schemed(1, "v1", "s", "b1"), Schemed(1, "v1", "s", "b2"))}

Open == [allowTopicDeletion |-> TRUE, allowPartitionIncrease |-> TRUE,
         protectedTopics |-> {}, schemaRegistry |-> TRUE]
MCTargets == {Open,
              [Open EXCEPT !.allowTopicDeletion = FALSE, !.allowPartitionIncrease = FALSE],
              [Open EXCEPT !.protectedTopics = {2}],
              [Open EXCEPT !.schemaRegistry = FALSE]}

MCForeignStates == {State(1, "v1"), State(2, None)}
=============================================================================
