--------------------------- MODULE MCConvergence ---------------------------
(***************************************************************************)
(* Inputs for Convergence: one topic with every kind of difference there   *)
(* is, and two topics with just enough of them to need an order.           *)
(***************************************************************************)
EXTENDS Convergence

MCTopics   == {1, 2}
MCKeys     == {"retention", "cleanup"}
MCValues   == {"v1", "v2"}
MCBodies   == {"b1", "b2"}
MCSubjects == {"s", "u"}
MCLevels   == {"BACKWARD"}
MCSubjectLevel == [s \in MCSubjects |-> "BACKWARD"]
MCCompatibleAt == [l \in MCLevels |-> {<<"b1", "b2">>}]

Cfgs(keys, values) ==
    {c \in [MCKeys -> values \union {None}] : \A k \in MCKeys \ keys : c[k] = None}
StatesOf(partitions, factors, configs) ==
    [partitions: partitions, replicationFactor: factors, config: configs] \union {None}
TopicsOf(partitions, factors, configs, schemas) ==
    [partitions: partitions, replicationFactor: factors, config: configs,
     schema: schemas \union {None}] \union {None}

First(states) == {[t \in MCTopics |-> IF t = 1 THEN s ELSE None] : s \in states}

Commits(declarations, ownerships) ==
    {r \in [topics: declarations, ownership: ownerships, loads: {TRUE}] :
        Declared(r) \subseteq r.ownership}

Never    == [latest |-> None, older |-> {}]
OneTopic ==
    [revisions    |-> Commits(First(TopicsOf(1..2, {1}, Cfgs(MCKeys, MCValues),
                                             [subject: {"s"}, body: MCBodies])),
                              SUBSET {1}),
     clusters     |-> First(StatesOf(1..3, 1..2, Cfgs(MCKeys, MCValues))),
     registries   |-> {r \in Registries : r["u"] = Never},
     targets      |-> {g \in Target : 2 \notin g.protectedTopics}]

TwoTopics ==
    [revisions    |-> Commits([MCTopics -> TopicsOf({1, 2}, {1}, Cfgs({"retention"}, {"v1"}),
                                                    [subject: MCSubjects, body: {"b1"}])],
                              SUBSET MCTopics),
     clusters     |-> [MCTopics -> StatesOf({1, 2}, {1}, Cfgs({"retention"}, {"v1"}))],
     registries   |-> {r \in Registries : \A s \in MCSubjects :
                                             r[s] \in {Never, [Never EXCEPT !.latest = "b1"]}},
     targets      |-> {g \in Target :
                          /\ g.allowTopicDeletion /\ g.schemaRegistry
                          /\ g.protectedTopics = IF g.allowPartitionIncrease THEN {} ELSE {2}}]

MCScenarios == [one |-> OneTopic, two |-> TwoTopics]
=============================================================================
