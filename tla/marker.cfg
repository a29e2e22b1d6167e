SPECIFICATION Spec
CONSTANTS
    a = a  b = b  c = c  i1 = i1  i2 = i2  v1 = v1  v2 = v2  B = B
    NoBundle = NoBundle
    Nobody = Nobody
    Objects = {a, b, c}
    Versions = {v1, v2}
    Instances = {i1}
    Bundles = {B}
    Runs = {r1}
    Renders <- OneInstance
    Keep = {}
    NoWait = {}
    IfNotPresent = {}
    Finalized = {b}
    Immutable = {}
    Forced = {}
    Serial = TRUE
    BadReads = FALSE
    MaxStarts = 3
    MaxFaults = 1
PROPERTIES ApplyDropsMarker
