---------------------------- MODULE MCDistService ----------------------------
(* Small stores for TLC to explore exhaustively. *)
EXTENDS DistService, TLC

CONSTANTS release, snapshot, a, b, u1, u2, d1

Both      == {release, snapshot}
OneFile   == {release}
Releases1 == {release}
Alike     == [f \in Both |-> Both]
Alone     == [f \in OneFile |-> {}]
TwoPackages == {a, b}
TwoUploads  == {u1, u2}
\* The ways uploads come: to releases past /dist/ as well, or through it only.
Renamed    == [f \in OneFile |-> {"dist", "__upload"}]
ByAnyWay   == [f \in Both |-> IF f = release THEN {"dist"} ELSE AllWays]
OneDownload == {d1}
NoDownload  == {}

\* Uploads may be exchanged; packages may not, IdleUpload names one.
Exchangeable2 == Permutations(TwoUploads)
=============================================================================
