SPECIFICATION Spec

CONSTANTS
    i1 = i1  i2 = i2  r1 = r1  r2 = r2  f1 = f1  f2 = f2
    l1 = l1  l2 = l2  l3 = l3  d1 = d1  d2 = d2
    Instances = {i1, i2}
    Repositories = {r1, r2}
    Versions <- Versions6
    Latest = Latest
    Digests = {d1, d2}
    NoDigest = NoDigest
    Literals = {l1, l2, l3}
    NoLiteral = NoLiteral
    Files = {f1, f2}
    FileOf <- FileOf3
    Bundles <- ManyBundles
    Registries <- Published2
    Levels = {"none", "patch", "minor", "major"}
    MaxMoves = 1
    MaxEdits = 1
    MaxFaults = 2

INVARIANTS TypeOK MovesForward PinsFollow FilesKept
