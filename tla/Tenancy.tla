------------------------------- MODULE Tenancy -------------------------------
(***************************************************************************)
(* Two applications on one cluster and one registry, each deployed by a    *)
(* piped of its own: the variables of Deployment for this application and  *)
(* a second set of them for its neighbour.  They share the two services    *)
(* and nothing else; what each may touch is what its ownership patterns    *)
(* and its schema subjects say, and those do not overlap.                  *)
(***************************************************************************)
EXTENDS DeploymentProperties

CONSTANTS
    TheirRevisions,               \* the commits of the neighbour that may be deployed
    TheirDeployments, TheirFaults \* bounds of what it does

ASSUME TenancyAssumption ==
    /\ TheirRevisions \subseteq Revision
    /\ {TheirDeployments, TheirFaults} \subseteq Nat
    /\ \A r \in Revisions, s \in TheirRevisions :
          /\ r.ownership \intersect s.ownership = {}
          /\ SubjectsOf(r) \intersect SubjectsOf(s) = {}

VARIABLES
    theirTarget, theirRunning, theirRevision, theirPipeline, theirPosition, theirStage,
    theirOutcome, theirPc, theirVerdict, theirActual, theirUnplanned, theirLatest,
    theirChanges, theirBlocked, theirTodo, theirFailed, theirQuiet, theirBudget

\* The proofs are instanced with the specification: they are of the neighbour too.
Theirs == INSTANCE PipelineProofs WITH
    reported <- {}, landed <- {},
    Revisions <- TheirRevisions, MaxDeployments <- TheirDeployments, MaxFaults <- TheirFaults,
    target <- theirTarget, running <- theirRunning, revision <- theirRevision,
    pipeline <- theirPipeline, position <- theirPosition, stage <- theirStage,
    outcome <- theirOutcome, pc <- theirPc, verdict <- theirVerdict,
    actual <- theirActual, unplanned <- theirUnplanned, latest <- theirLatest,
    changes <- theirChanges, blocked <- theirBlocked, todo <- theirTodo,
    failed <- theirFailed, quiet <- theirQuiet, budget <- theirBudget

ours   == <<piped, pc, verdict, run, quiet, budget>>
theirs == <<theirTarget, theirRunning, theirRevision, theirPipeline, theirPosition,
            theirStage, theirOutcome, theirPc, theirVerdict, theirActual, theirUnplanned,
            theirLatest, theirChanges, theirBlocked, theirTodo, theirFailed, theirQuiet,
            theirBudget>>

TInit == Init /\ Theirs!Init

OurStep   == Piped \/ Plugin \/ Faults \/ Restart
TheirStep == Theirs!Piped \/ Theirs!Plugin \/ Theirs!Faults \/ Theirs!Restart

TNext ==
    \/ OurStep /\ UNCHANGED theirs
    \/ TheirStep /\ UNCHANGED ours

TSpec == TInit /\ [][TNext]_<<world, ours, theirs>>

(***************************************************************************)
(* The same among third parties, who own neither application and may       *)
(* disturb both.                                                           *)
(***************************************************************************)
CrowdedNext ==
    \/ TNext
    \/ Others /\ Theirs!Others

CrowdedSpec == TInit /\ [][CrowdedNext]_<<world, ours, theirs>>

-----------------------------------------------------------------------------
(***************************************************************************)
(* "quiet" only knows of people outside both applications here, so each of *)
(* these is a property of one application while the other is at work.      *)
(***************************************************************************)
\* Each stage's success means what it says, though the other application made
\* changes of its own between the listing and the last request.
EachConverges ==
    /\ ApplySuccessMeansConverged /\ RollbackSuccessMeansRestored
    /\ Theirs!ApplySuccessMeansConverged /\ Theirs!RollbackSuccessMeansRestored

\* A deployment that succeeded stays as declared while the other application
\* deploys or rolls back.
DeploymentsStand == SuccessfulDeploymentIsSynced /\ Theirs!SuccessfulDeploymentIsSynced

\* No plan goes stale because of the other application: what is left of it is
\* accepted, and what planning anew would find.
NoPlanGoesStale ==
    /\ PlannedChangesAreAcceptable /\ ApplyCanBeResumed
    /\ Theirs!PlannedChangesAreAcceptable /\ Theirs!ApplyCanBeResumed

\* What the revision declares can be asked for, one change independently of the
\* others.
Deployable(r) == CountsFit(r) /\ DistinctSubjects(r) /\ ~BuildFails(r, target)

\* Without a lost request, and unless its own plan is blocked or its revision
\* asks for what cannot be, a stage that has listed the topics fails for one
\* reason only: the other application deleted a topic it owns between the two
\* requests of ListTopics, which asks for the configs of all topics it was told
\* of.
OnlyAListingCanFail ==
    [][(/\ pc # "returned" /\ pc' = "returned" /\ verdict' = "failure"
        /\ stage # "KAFKA_ROLLBACK" /\ quiet.run /\ blocked' = {} /\ budget'.faults = MaxFaults
        /\ Deployable(revision))
       => /\ pc = "describe"
          /\ \E t \in Topics, r \in TheirRevisions :
                /\ t \in r.ownership
                /\ actual[t] # None /\ cluster[t] = None]_<<world, ours, theirs>>
=============================================================================
