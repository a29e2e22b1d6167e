SPECIFICATION Spec
CONSTANTS
    i1 = i1  i2 = i2  A = A  B = B  c1 = c1  c2 = c2
    NoBundle = NoBundle
    Clusters = {c1}
    Instances = {i1, i2}
    Bundles = {A}
    Plans <- Single
    Selections <- OneCluster
    Commands = {k1}
    Serial = TRUE
    Misread = FALSE
    SameSecond = FALSE
    MaxStarts = 2
    MaxFaults = 1
PROPERTIES ReadinessErrorStillPrunes
