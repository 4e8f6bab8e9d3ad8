CONSTANTS
    m1 = m1
    m2 = m2
    f1 = f1
    u1 = u1
    u2 = u2
    v1 = v1
    v2 = v2
    v3 = v3
    Models = {m1, m2}
    Parts <- MCParts
    Files = {f1}
    Urls = {u1, u2}
    Versions = {v1, v2, v3}
    Size <- MCSize
    Serves <- MCServes
    NoDigest = NoDigest
    NoVersion = NoVersion
    Mixed = Mixed
    NoModel = NoModel
    MaxReplaced = 1
SPECIFICATION LiveSpec
INVARIANTS FinalIsWhole DigestIsServed LoadedFilesStay
PROPERTY LoadsEnd
