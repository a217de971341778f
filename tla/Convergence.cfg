SPECIFICATION Spec
CONSTANTS
    None = None
    MaxPartitions = 3
    MaxReplicas = 3
    DefaultCount = 1
    Topics <- MCTopics
    Keys <- MCKeys
    Values <- MCValues
    Subjects <- MCSubjects
    Bodies <- MCBodies
    Levels <- MCLevels
    SubjectLevel <- MCSubjectLevel
    CompatibleAt <- MCCompatibleAt
    Scenarios <- MCScenarios
INVARIANTS
    TypeOK
    EmptyPlanMeansInSync
    RebuildingYieldsTheRest
    NothingIsRefused
\* The behaviour ends when the plan has been carried out.
CHECK_DEADLOCK FALSE
