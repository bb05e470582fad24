----------------------------- MODULE MCInstall -----------------------------
(* Instances of Install for TLC: a root with one dependency, or a chain of  *)
(* two whose last package links back to the root.                           *)
EXTENDS Install, TLC

CONSTANTS root, dep, sub, none, bad, sh, make, v1, v2, x, y

(* root/deps/dep *)
PkgFlat  == {root, dep}
DepsFlat == [p \in PkgFlat |-> IF p = root THEN <<dep>> ELSE <<>>]

(* root/deps/dep/deps/sub with a link in the deps/ of sub back to root      *)
PkgLoop  == {root, dep, sub}
DepsLoop == [p \in PkgLoop |->
               CASE p = root -> <<dep>> [] p = dep -> <<sub>> [] p = sub -> <<root>>]

(* a package without hook, one whose hook runs a script and one that calls  *)
(* a tool and links an artifact                                             *)
Plain  == [id |-> v1, cmd |-> none, art |-> FALSE]
Script == [id |-> v1, cmd |-> sh,   art |-> FALSE]
Native == [id |-> v2, cmd |-> make, art |-> TRUE]
ManifestsMixed == {Script, Native}
Full   == [id |-> v2, cmd |-> sh,   art |-> TRUE]
ManifestsFull  == {Plain, Full}

(* initially every script is the same; Edit makes them differ               *)
InitSame == Init /\ script = [p \in Pkg |-> x]
FairSpecSame == InitSame /\ [][Next]_vars /\ \A i \in Process : WF_vars(Step(i))

Processes == Permutations(Process)

Ids == {v1, v2}
Cmds == {sh, make}
ScriptedCmds == {sh}
=============================================================================
