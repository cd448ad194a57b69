SPECIFICATION Spec
CONSTANTS
    release = release
    snapshot = snapshot
    a = a
    b = b
    u1 = u1
    u2 = u2
    d1 = d1
    Nothing = Nothing
    Part = Part
    Files <- Both
    Verified <- Releases1
    Siblings <- Alike
    Packages <- TwoPackages
    Chunks = 2
    Ways <- ByAnyWay
    Uploads <- TwoUploads
    Downloads <- OneDownload
    MaxUploads = 3
SYMMETRY Exchangeable2
INVARIANTS
    TypeOK
    LockSound
    Unmixed
    ReleaseSent
PROPERTY ImplementsReleases
