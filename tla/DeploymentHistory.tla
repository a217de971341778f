-------------------------- MODULE DeploymentHistory --------------------------
(***************************************************************************)
(* Deployment with two history variables, for what is promised about a     *)
(* deployment as a whole: what its KAFKA_PLAN stage showed, and which      *)
(* changes its forward stages made.  They follow the other variables and   *)
(* constrain nothing.                                                      *)
(***************************************************************************)
EXTENDS DeploymentProperties

VARIABLES
    reported,  \* the changes the deployment's last KAFKA_PLAN reported, or None
    landed     \* the changes its forward stages made to cluster and registry

hvars == <<vars, reported, landed>>

HInit == Init /\ reported = None /\ landed = {}

Starts == pc = "idle" /\ pc' = "begin"

HNext ==
    /\ Next
    /\ reported' = IF Starts THEN None
                   ELSE IF stage = "KAFKA_PLAN" /\ Decide THEN changes'
                   ELSE reported
    /\ landed' = IF Starts THEN {}
                 ELSE IF stage # "KAFKA_ROLLBACK" /\ \E c \in todo : Try(c) /\ TakesEffect(c)
                 THEN landed \union (todo \ todo')
                 ELSE landed

HSpec == HInit /\ [][HNext]_hvars

-----------------------------------------------------------------------------
\* The pipeline plans before it does anything else, if it plans.
PlansFirst == \A i \in DOMAIN pipeline.stages : pipeline.stages[i] = "KAFKA_PLAN" => i = 1

\* What an undisturbed deployment changes is part of what its KAFKA_PLAN
\* showed, although every later stage plans again; when it succeeds through
\* KAFKA_REGISTER_SCHEMA and KAFKA_APPLY, it is all of it.
DeploysWhatWasReported ==
    (/\ reported # None /\ quiet.deployment /\ PlansFirst
     /\ DistinctSubjects(revision) /\ CountsFit(revision)) =>
        /\ landed \subseteq reported
        /\ (/\ outcome = "success"
            /\ {"KAFKA_REGISTER_SCHEMA", "KAFKA_APPLY"} \subseteq RequestedStages)
              => landed = reported

-----------------------------------------------------------------------------
RolledBack == pc = "returned" /\ stage = "KAFKA_ROLLBACK" /\ running # None
              /\ quiet.deployment /\ failed = {}

\* "CreateTopic creates a topic that does not exist yet. Reversible by
\* deleting it, if the target permits deletion."  Not true of the code: an
\* undisturbed rollback leaves the topic where it is.
CreatedTopicIsDeletedAgain ==
    RolledBack /\ target.allowTopicDeletion =>
        \A c \in landed :
            (/\ c.kind = "CreateTopic" /\ running.topics[c.topic] = None
             /\ c.topic \in running.ownership)
                => cluster[c.topic] = None
=============================================================================
