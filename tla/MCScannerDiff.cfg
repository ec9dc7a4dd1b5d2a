SPECIFICATION Spec
CONSTANTS
    plain = plain
    lockfile = lockfile
    umlaut = umlaut
    spaced = spaced
    Path = {plain, lockfile, umlaut, spaced}
    Ignored = {lockfile}
    IgnoredByName = {lockfile}
    Quoted = {umlaut}
    Spaced = {spaced}
    Output = {"text"}
    CheckEntropy = TRUE
    FailOnFindings = TRUE
    NoFile = NoFile
    MaxLine = 2
    MaxFiles = 2
INVARIANTS
    GatePassesOnlyClean
