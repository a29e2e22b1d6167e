SPECIFICATION SharingSpec
CONSTANTS
    v1 = v1  v2 = v2  x = x  y = y  archive = archive
    Processes = {p1, p2}
    Contents = {x, y}
    Releases = {v1, v2}
    Latest = Latest
    NoVersion = NoVersion
    Paths = {archive}
    Nothing = Nothing
    Partial = Partial
    Invocations <- Lines
    MaxCommands = 4
    MaxMishaps = 1
    MaxRemovals = 1
    a = a  b = b  i1 = i1  i2 = i2
    NoBundle = NoBundle
    Nobody = Nobody
    Objects = {a, b}
    Versions = {v1, v2}
    Instances = {i1, i2}
    Bundles = {}
    Runs = {r1, r2}
    Renders <- Sharing
    Keep = {}
    NoWait = {}
    IfNotPresent = {a}
    Finalized = {b}
    Immutable = {b}
    Forced = {b}
    Serial = TRUE
    BadReads = TRUE
    MaxStarts = 3
    MaxFaults = 1
SYMMETRY Alike
INVARIANTS PublishTypeOK TagsAsPushed PublishedAsAsked
PROPERTIES OutputsKept OrphanOnlyByOverwrite DeletesOnlyOwn
