------------------------------ MODULE Releases ------------------------------
(***************************************************************************)
(* What the package store promises of its releases: a release is uploaded  *)
(* once and published whole, and stays as it is until it is cleared.  An   *)
(* upload that breaks off leaves a part, which stays until then, too.      *)
(***************************************************************************)
CONSTANTS
    Verified,               \* files that are releases, to be written once
    Packages,               \* what may be published
    Nothing,                \* no file
    Part                    \* a file that is not whole, being uploaded or left so

VARIABLE release            \* what there is of each file: the package, when it is published

Init == release = [f \in Verified |-> Nothing]

Begin(f) ==
    /\ release[f] = Nothing
    /\ release' = [release EXCEPT ![f] = Part]

Publish(f, p) ==
    /\ release[f] = Part
    /\ release' = [release EXCEPT ![f] = p]

\* A file becomes too old.  It may be uploaded again, as something else.
Clear(f) == release' = [release EXCEPT ![f] = Nothing]

Next ==
    \/ \E f \in Verified, p \in Packages : Publish(f, p)
    \/ \E f \in Verified : Begin(f) \/ Clear(f)

Spec == Init /\ [][Next]_release
=============================================================================
