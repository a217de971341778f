SPECIFICATION TSpec
CONSTANTS
    None = None
    MaxPartitions = 3
    MaxReplicas = 3
    DefaultCount = 1
    Topics <- MCTopics
    Keys <- MCKeys
    Values <- MCValues
    Subjects <- MCSubjects
    Bodies <- MCBodies
    Levels <- MCLevels
    SubjectLevel <- MCSubjectLevel
    CompatibleAt <- MCCompatibleAt
    Revisions <- OurRevisions
    TheirRevisions <- MCTheirRevisions
    Targets <- MCTargets
    Pipelines <- MCPipelines
    Options <- MCOptions
    ForeignStates <- MCForeignStates
    MaxDeployments = 2
    TheirDeployments = 1
    TheirFaults = 0
    MaxOthers = 0
    MaxFaults = 1
    MaxRestarts = 0
INVARIANTS
    EachConverges
    DeploymentsStand
    NoPlanGoesStale
PROPERTIES
    OnlyAListingCanFail
\* The behaviour ends when the deployments it may start are used up.
CHECK_DEADLOCK FALSE
