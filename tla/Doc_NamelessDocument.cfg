SPECIFICATION Spec
CONSTANTS
    None = None
    MaxPartitions = 3
    MaxReplicas = 3
    DefaultCount = 1
    Topics <- MCTopics
    Keys <- MCKeys
    Values <- MCValues
    Subjects <- MCSubjects
    Bodies <- MCBodies
    Levels <- MCLevels
    SubjectLevel <- MCSubjectLevel
    CompatibleAt <- MCCompatibleAt
    SchemaFiles <- MCSchemaFiles
    Requests <- NamelessRequests
    Hosts <- OneHost
    MaxRotations = 0
    MaxFaults = 0
INVARIANTS
    NamelessIsRefused
\* A behaviour is one stage.
CHECK_DEADLOCK FALSE
