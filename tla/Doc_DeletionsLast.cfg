SPECIFICATION Spec
CONSTANTS
    None = None
    MaxPartitions = 3
    MaxReplicas = 3
    DefaultCount = 1
    Topics <- MCTopics
    Keys <- MCKeys
    Values <- MCValues
    Subjects <- MCSubjects
    Bodies <- MCBodies
    Levels <- MCLevels
    SubjectLevel <- MCSubjectLevel
    CompatibleAt <- MCCompatibleAt
    Revisions <- SomeRevisions
    Targets <- OpenOnly
    Pipelines <- SomePipelines
    Options <- SomeOptions
    ForeignStates <- MCForeignStates
    MaxDeployments = 1
    MaxOthers = 0
    MaxFaults = 1
    MaxRestarts = 0
INVARIANTS
    DeletedOnlyOnceAllElseLanded
\* The behaviour ends when the deployments it may start are used up.
CHECK_DEADLOCK FALSE
