SPECIFICATION Spec
CONSTANTS
    None = None
    MaxPartitions = 3
    MaxReplicas = 3
    DefaultCount = 1
    Topics <- MCTopics
    Keys <- MCKeys
    Values <- MCValues
    Subjects <- MCSubjects
    Bodies <- MCBodies
    Levels <- MCLevels
    SubjectLevel <- MCSubjectLevel
    CompatibleAt <- MCCompatibleAt
    Revisions <- MCRevisions
    Targets <- MCTargets
    ForeignStates <- MCForeignStates
    MaxOthers = 2
    MaxFaults = 1
INVARIANTS
    TypeOK
    StatusIsTrue
    SyncedShowsNoDrift
\* A behaviour is one report.
CHECK_DEADLOCK FALSE
