SPECIFICATION Spec
CONSTANTS
    None = None
    MaxPartitions = 3
    MaxReplicas = 3
    DefaultCount = 1
    Topics <- MCTopics
    Keys <- MCKeys
    Values <- MCValues
    Subjects <- MCSubjects
    Bodies <- MCBodies
    Levels <- MCLevels
    SubjectLevel <- MCSubjectLevel
    CompatibleAt <- MCCompatibleAt
    SchemaFiles <- MCSchemaFiles
    Requests <- MCRequests
    Hosts <- MCHosts
    MaxRotations = 2
    MaxFaults = 1
INVARIANTS
    TypeOK
    LoadsWhatIsDeclared
    ClientsAreClosed
    NamedSecretIsShown
PROPERTIES
    RefusesOnlyTheUnloadable
    BeginsAsDeployment
    PreparedStageReturns
\* A behaviour is one stage.
CHECK_DEADLOCK FALSE
