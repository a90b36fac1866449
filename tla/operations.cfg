SPECIFICATION Spec
CONSTANTS
    Services = {"maintenance"}
    Instances = {k1, k2}
    NoInstance = NoInstance
    ServiceOf <- MCServiceOf
    Drowsy = {}
    Latest = 2
    Once = {k2}
    Cli = Cli
    Items = {i1}
    Keep <- MCKeep
    CliKinds = {"manual"}
    MonthOf <- MCMonthOf
    MaxDay = 2
    MaxFiles = 3
    MaxFailures = 1
    MaxRestores = 1
INVARIANTS OperationsTypeOK MigratedInOrder RunsOnLatest
    KeptBackupsExist NothingLost RestoreIsOffline OwnerNotStopped
PROPERTIES UpgradeHasCopy RestoreEnds
