------------------------------- MODULE Custody -------------------------------
(***************************************************************************)
(* What the plugin promises everybody who shares the cluster and the       *)
(* registry with it, without saying how it plans or when it acts.          *)
(*                                                                         *)
(* piped hands the plugin one mandate after another: a stage to execute,   *)
(* the deploy target it is bound by, and the revision it works towards.    *)
(* At any time the plugin may move one topic or one subject a step towards *)
(* that revision, as far as the mandate lets it, and nothing else.  Its    *)
(* own progress is one opaque value, work, that each of its steps changes  *)
(* and no step of anybody else does.                                       *)
(***************************************************************************)
EXTENDS Provider

VARIABLES cluster, registry, mandate, work

cvars == <<cluster, registry, mandate, work>>

\* The topic's declared state, as far as the cluster holds it.
StateOf(topic) ==
    [partitions |-> topic.partitions, replicationFactor |-> topic.replicationFactor,
     config |-> topic.config]

\* With the counts as far as a request has room for them.
MayCreate(declared, from, to) == from = None /\ to = Requested(StateOf(declared))

\* Config keys move to their declared values, or stay where they are.
MayAlter(declared, from, to) ==
    /\ from # None /\ to # None
    /\ to = [from EXCEPT !.config = to.config]
    /\ \A k \in Keys : to.config[k] \in {from.config[k], declared.config[k]}

\* A partition count only grows.
MayGrow(declared, from, to) ==
    /\ from # None
    /\ to.partitions > from.partitions
    /\ to = [from EXCEPT !.partitions = Narrowed(declared.partitions, MaxPartitions)]

MayMoveTopic(m, t, from, to) ==
    LET declared == m.source.topics[t]
        forward  == m.stage = "KAFKA_APPLY"
    IN  /\ m.stage \in {"KAFKA_APPLY", "KAFKA_ROLLBACK"}
        /\ t \in m.source.ownership
        /\ t \notin m.target.protectedTopics
        /\ \/ declared # None /\ MayCreate(declared, from, to)
           \/ declared # None /\ MayAlter(declared, from, to)
           \/ /\ forward /\ m.target.allowPartitionIncrease
              /\ declared # None /\ MayGrow(declared, from, to)
           \/ /\ forward /\ m.target.allowTopicDeletion
              /\ declared = None /\ to = None

\* A subject gets a declared body as its latest version and loses none.
MayRegister(m, s, from, to) ==
    /\ m.stage = "KAFKA_REGISTER_SCHEMA"
    /\ m.target.schemaRegistry
    /\ \E t \in Topics \ m.target.protectedTopics :
          /\ m.source.topics[t] # None
          /\ m.source.topics[t].schema = [subject |-> s, body |-> to.latest]
    /\ to.older = from.older \union ({from.latest} \ {None})

Act ==
    /\ work' # work
    /\ UNCHANGED mandate
    /\ \/ UNCHANGED <<cluster, registry>>
       \/ \E t \in Topics :
            /\ cluster' = [cluster EXCEPT ![t] = cluster'[t]]
            /\ MayMoveTopic(mandate, t, cluster[t], cluster'[t])
            /\ UNCHANGED registry
       \/ \E s \in Subjects :
            /\ registry' = [registry EXCEPT ![s] = registry'[s]]
            /\ MayRegister(mandate, s, registry[s], registry'[s])
            /\ UNCHANGED cluster

NewMandate == mandate' # mandate /\ UNCHANGED <<cluster, registry>>

Others == UNCHANGED <<mandate, work>>

Init == TRUE

Next == Act \/ NewMandate \/ Others

Spec == Init /\ [][Next]_cvars
=============================================================================
