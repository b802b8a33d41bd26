--------------------------- MODULE MCCopyProfile ---------------------------
(* Instances of CopyProfile for TLC: a directory, a cache, a locked file,   *)
(* a link into the cache and one to the directory.                          *)
EXTENDS CopyProfile

CONSTANTS dir, cache, inDir, inCache, file, link, shortcut

MCParent == [n \in Nodes |-> CASE n = inDir -> dir [] n = inCache -> cache [] OTHER -> Root]
MCAbove == [n \in Nodes |-> IF MCParent[n] = Root THEN {n} ELSE {n, MCParent[n]}]
MCKind == [n \in Nodes |-> CASE n \in {dir, cache} -> "dir" [] n \in {link, shortcut} -> "link" [] OTHER -> "file"]
MCTarget == [n \in Nodes |-> CASE n = link -> inCache [] n = shortcut -> dir [] OTHER -> n]
Nothing == [n \in Nodes |-> 0]
Tree1 == [n \in Nodes |-> IF n = inDir THEN 2 ELSE 1]
MCCopies ==
  [disk: {Tree1}, dst: {Nothing, [Nothing EXCEPT ![dir] = 1, ![inDir] = 1, ![file] = 2]},
   opts: Options, isDir: {TRUE}]
  \cup [disk: {Nothing}, dst: {Nothing}, opts: {[skipCache |-> TRUE, overwrite |-> FALSE,
        continueOnError |-> TRUE]}, isDir: {FALSE}]

(* A directory without files, which the browser may remove.                *)
EmptyDir ==
  [disk: {[Tree1 EXCEPT ![inDir] = 0]}, dst: {Nothing}, isDir: {TRUE},
   opts: {[skipCache |-> TRUE, overwrite |-> FALSE, continueOnError |-> TRUE]}]
=============================================================================
