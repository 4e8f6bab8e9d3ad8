CONSTANTS
    Inputs <- PackageInputs
    Releases = {1, 2}
    Dirs = {"default", "other"}
    DefaultDir = "default"
    MaxIds = 1
    MaxRuns = 2
    MaxReboots = 1
SPECIFICATION Spec

PROPERTY BlankTokenKeepsEnrollment
CHECK_DEADLOCK FALSE
