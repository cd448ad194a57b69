--------------------------- MODULE MCDockerMachine ---------------------------
(* Small machines for TLC to explore exhaustively. *)
EXTENDS DockerMachine, TLC

CONSTANTS crm, web, t1, t2, t3

OneProject     == {crm}
TwoProjects    == {crm, web}
\* cname is in cname-old and cname-bak; a name of q also contains p's when q's ends with it.
Alike          == {<<s, u>> \in Slots \X Slots : s \in {"current", u}}
WithinNames(E) == {<< <<e[1], a[1]>>, <<e[2], a[2]>> >> : e \in E, a \in Alike}
OnlyItself     == WithinNames({<<crm, crm>>})
Unrelated      == WithinNames({<<crm, crm>>, <<web, web>>})
\* As "web" and "my-web": the second name ends with the first.
Ends           == WithinNames({<<crm, crm>>, <<web, web>>, <<web, crm>>})
BothCurrent    == << <<web, "current">>, <<crm, "current">> >>
WebThenCrm     == << <<web, "current">>, <<crm, "old">>, <<crm, "current">> >>
CurrentAndOld  == << <<crm, "old">>, <<crm, "current">> >>
JustCurrent    == << <<crm, "current">> >>
TwoTasks       == {t1, t2}
ThreeTasks     == {t1, t2, t3}
Exchangeable   == Permutations(TwoTasks)
Exchangeable3  == Permutations(ThreeTasks)
=============================================================================
