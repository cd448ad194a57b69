SPECIFICATION Spec
CONSTANTS
    release = release
    snapshot = snapshot
    a = a
    b = b
    u1 = u1
    u2 = u2
    d1 = d1
    Nothing = Nothing
    Part = Part
    Files <- OneFile
    Verified <- Releases1
    Siblings <- Alone
    Packages <- TwoPackages
    Chunks = 2
    Ways <- Renamed
    Uploads <- TwoUploads
    Downloads <- NoDownload
    MaxUploads = 3
SYMMETRY Exchangeable2
PROPERTY ReleaseKept
