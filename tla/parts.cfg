SPECIFICATION PartsSpec
CONSTANTS
    Capacity = 1
    MaxLines = 3
    job = job  custom = custom
    Objects = {job, custom}
    GroupKind <- KindOf
    JobKind <- BatchJob
    Jobs <- JobStates
    Others <- CustomStates
    Declarations <- Checks
    Scopes <- ListedClusters
    MaxFailedPods = 1
    i1 = i1  i2 = i2  A = A  c1 = c1  k1 = k1  k2 = k2
    NoBundle = NoBundle
INVARIANTS CosignSound ObjectStatusSound
PROPERTIES CommandsEnd CosignReturns StatusWaitEnds
