SPECIFICATION Spec
CONSTANTS
    None = None
    MaxPartitions = 3
    MaxReplicas = 3
    DefaultCount = 1
    Topics <- MCTopics
    Keys <- MCKeys
    Values <- MCValues
    Subjects <- MCSubjects
    Bodies <- MCBodies
    Levels <- MCLevels
    SubjectLevel <- MCSubjectLevel
    CompatibleAt <- MCCompatibleAt
    Revisions <- SomeRevisions
    Targets <- SomeTargets
    Pipelines <- SomePipelines
    Options <- SomeOptions
    ForeignStates <- MCForeignStates
    MaxDeployments = 2
    MaxOthers = 1
    MaxFaults = 1
    MaxRestarts = 1
INVARIANTS
    CustodyInvariant
PROPERTIES
    BlockedPlanIsNotApplied
    StaysInCustody
\* The behaviour ends when the deployments it may start are used up.
CHECK_DEADLOCK FALSE
