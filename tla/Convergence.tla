----------------------------- MODULE Convergence -----------------------------
(***************************************************************************)
(* The planner by itself: a plan built from any state of the two services, *)
(* carried out change by change in its order with nobody else about, over  *)
(* every input of a bounded size.  Stages, failures and interference are   *)
(* in Deployment.                                                          *)
(***************************************************************************)
EXTENDS Apply, Conformance

CONSTANTS
    Scenarios  \* by name, sets of inputs to combine with each other: revisions,
               \* deploy targets, clusters and registries

ASSUME ConvergenceAssumption ==
    \A name \in DOMAIN Scenarios :
        /\ Scenarios[name].targets \subseteq Target
        /\ Scenarios[name].clusters \subseteq Clusters
        /\ Scenarios[name].registries \subseteq Registries

VARIABLES revision, target, cluster, registry,
          refused,  \* what the plan blocked when it was built
          todo      \* its changes that are still to be carried out

vars == <<revision, target, cluster, registry, refused, todo>>

Init ==
    /\ \E name \in DOMAIN Scenarios :
          LET inputs == Scenarios[name]
          IN  /\ revision \in inputs.revisions
              /\ target \in inputs.targets
              /\ cluster \in inputs.clusters
              /\ registry \in inputs.registries
    /\ revision \in Revision /\ ~BuildFails(revision, target)
    /\ refused = Build(revision, cluster, target, registry).blocked
    /\ todo = Build(revision, cluster, target, registry).changes

ApplyChange(c) ==
    /\ IsNext(c, todo)
    /\ Accepted(cluster, registry, c)
    /\ cluster' = ClusterAfter(cluster, c)
    /\ registry' = RegistryAfter(registry, c)
    /\ todo' = todo \ {c}
    /\ UNCHANGED <<revision, target, refused>>

Next == \E c \in todo : ApplyChange(c)

Spec == Init /\ [][Next]_vars

-----------------------------------------------------------------------------
TypeOK ==
    /\ revision \in Revision /\ target \in Target
    /\ cluster \in Clusters /\ registry \in Registries
    /\ refused \subseteq [topic: Topics, reason: Reasons] /\ todo \subseteq Change

\* The plan is empty exactly when there is nothing to do: no difference goes
\* unnoticed, and a state that conforms is left alone.
EmptyPlanMeansInSync ==
    Empty(Build(revision, cluster, target, registry))
        <=> InSync(revision, cluster, target, registry)

\* However far the plan has been carried out, building it again yields just
\* the rest of it, and the same refusals, when no count of the declaration is
\* narrowed on its way to the cluster.
RebuildingYieldsTheRest ==
    DistinctSubjects(revision) /\ NothingReverted(revision, registry) /\ CountsFit(revision) =>
        Build(revision, cluster, target, registry) = [changes |-> todo, blocked |-> refused]

\* However far the plan has been carried out, the services accept each of the
\* changes left: none asks for what is already so, and no registration is in the
\* way of another when each topic has a subject of its own.
NothingIsRefused ==
    DistinctSubjects(revision) /\ CountsFit(revision) =>
        \A c \in todo : Accepted(cluster, registry, c)
=============================================================================
