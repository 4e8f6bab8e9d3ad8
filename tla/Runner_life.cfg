CONSTANTS
    Ids = {i1, i2}
    NoId = NoId
    Half = Half
    Nothing = Nothing
    Supervisor = "systemd"
    Base = 4
    Cap = 20
    TopRung = 4
    MaxDeaths = 2
SPECIFICATION LiveSpec
INVARIANTS CredentialsOldOrNew ServesStoredIdentity LadderFollowsWork
PROPERTIES  RefusedWorkerRests ReturnsToWork
CHECK_DEADLOCK FALSE
