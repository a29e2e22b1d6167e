SPECIFICATION BuildsSpec
CONSTANTS
    m1 = m1  m2 = m2  m3 = m3  latest = latest  v1 = v1
    p1 = p1  p2 = p2  d1 = d1  d2 = d2  l1 = l1  l2 = l2
    Procs = {p1, p2}
    Modules = {m1, m2, m3}
    Tags = {latest, v1}
    Latest = latest
    Digests = {d1, d2}
    NoDigest = NoDigest
    Version <- Versions3
    Pin <- Pins3
    Layers = {l1, l2}
    Content <- Layers2
    MaxMoves = 1
    MaxFaults = 2
    NoValue = NoValue
    Broken = Broken
    Bundles <- BundleLines
    Manifests <- Rendered
    Order <- Ordered
    Undecodable = Undecodable
    Subdomains = {"n", "k"}
    Segments = {"n", "k", "N"}
    RBACKinds = {"R"}
    MaxFailedWrites = 1
    Lines <- VendorLines
    Trees <- Directories
    Fold <- LowerCase
    Unsafe <- NoDirectories
    Limit = 2
    MaxRuns = 2
    MaxBreaks = 1
    MaxEntries = 4
    Systems <- FileSystems
    Source <- SourceDir
    Targets <- ToDst
    Skips <- IgnoreLists
    Values <- Strings
    AcceptedBy <- TypesAccept
    Decoded <- Base64
    ClusterName = "N"
    ClusterGroup = "G"
    Default <- Unnamed
    Plans <- RuntimePlans
INVARIANTS FetchInvariant BuiltFromPinned TempsRemoved CopyConfined CopyOutcome BuiltAsRead ManifestsValid ManifestFilesWritten VendorOutcome
PROPERTIES CacheKept VendorPruneConfined
SYMMETRY AnyProc
