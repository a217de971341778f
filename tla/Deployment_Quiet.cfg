SPECIFICATION HSpec
CONSTANTS
    None = None
    MaxPartitions = 3
    MaxReplicas = 3
    DefaultCount = 1
    Topics <- MCTopics
    Keys <- MCKeys
    Values <- MCValues
    Subjects <- MCSubjects
    Bodies <- MCBodies
    Levels <- MCLevels
    SubjectLevel <- MCSubjectLevel
    CompatibleAt <- MCCompatibleAt
    Revisions <- QuietRevisions
    Targets <- QuietTargets
    Pipelines <- QuietPipelines
    Options <- QuietOptions
    ForeignStates <- MCForeignStates
    MaxDeployments = 2
    MaxOthers = 0
    MaxFaults = 1
    MaxRestarts = 1
INVARIANTS
    TypeOK
    ApplySuccessMeansConverged
    RollbackSuccessMeansRestored
    RegisterSuccessMeansRegistered
    SuccessfulDeploymentIsSynced
    ApplyCanBeResumed
    PlannedChangesAreAcceptable
    ApplicablePlanStaysApplicable
    DeploysWhatWasReported
PROPERTIES
    DeletionsComeLast
\* The behaviour ends when the deployments it may start are used up.
CHECK_DEADLOCK FALSE
