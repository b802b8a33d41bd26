----------------------------- MODULE CopyProfile -----------------------------
(***************************************************************************)
(* CopyProfile (store_copy.cpp): the clone of a profile directory, one     *)
(* turn of a recursive_directory_iterator after the other, while the       *)
(* browser creates, rewrites and deletes what is in it.                    *)
(*                                                                         *)
(* A file is its content and the content is a number, also its size; 0     *)
(* stands for a path that does not exist.  The destination lies outside    *)
(* the source, and links do not lead out of it or to its root.             *)
(***************************************************************************)
EXTENDS Integers, FiniteSets, Sequences

CONSTANTS
  Root,        \* src
  Nodes,       \* the paths under it
  Parent,      \* the directory a path lies in
  Above,       \* a path and the directories above it
  Kind,        \* "dir", "file", "link", "other"
  Target,      \* the path a link leads to in the end; any other is its own
  CacheNamed,  \* the paths whose last component isCacheName knows
  Unreadable,  \* files that are locked, directories without permission
  Sizes,       \* the contents a file may have
  Sources,      \* what may be there to copy, where it goes and with which options
  MaxPaths,    \* how many failedPaths are kept
  MaxEdits,    \* bound on the changes of the browser
  ListingMayFail   \* readdir may fail

Dirs == {n \in Nodes : Kind[n] = "dir"} \cup {Root}
Regular == {n \in Nodes : Kind[n] = "file"}

Content == Sizes \cup {0}
Options == [skipCache: BOOLEAN, overwrite: BOOLEAN, continueOnError: BOOLEAN]

(* What is there has the directories above it there.                       *)
Tree(t) == \A n \in Nodes : t[n] # 0 =>
             /\ Kind[n] # "file" => t[n] = 1
             /\ \A m \in Above[n] : t[m] # 0

ASSUME CopyAssumption ==
  /\ Root \notin Nodes /\ IsFiniteSet(Nodes)
  /\ Kind \in [Nodes -> {"dir", "file", "link", "other"}]
  /\ Parent \in [Nodes -> Dirs]
  /\ Above \in [Nodes -> SUBSET Nodes]
  /\ \A n \in Nodes : /\ n \in Above[n]
                      /\ \A m \in Above[n] : Above[m] \subseteq Above[n]
                      /\ Above[n] = {n} \cup IF Parent[n] = Root THEN {}
                                            ELSE Above[Parent[n]]
                      /\ \A m \in (Above[n] \ {n}) \cup {Root} :
                           \E c \in Above[n] : Parent[c] = m
                      /\ Parent[n] # Root => n \notin Above[Parent[n]]
  /\ Target \in [Nodes -> Nodes]
  /\ \A n \in Nodes : IF Kind[n] = "link" THEN Kind[Target[n]] # "link"
                      ELSE Target[n] = n
  /\ CacheNamed \subseteq Nodes /\ Unreadable \subseteq Nodes
  /\ Sizes \subseteq Nat \ {0} /\ 1 \in Sizes
  /\ Sources \subseteq [disk: [Nodes -> Content], dst: [Nodes -> Content],
                     opts: Options, isDir: BOOLEAN]
  /\ \A s \in Sources : Tree(s.disk)
  /\ MaxPaths \in Nat /\ MaxEdits \in Nat
  /\ ListingMayFail \in BOOLEAN

VARIABLES
  disk,      \* the source tree
  edits,     \* the changes of the browser so far
  opts,      \* CopyProfileOptions
  isDir,     \* src is a directory
  dst,       \* the destination
  stage,        \* where in the loop
  stack,     \* the directories the iterator is in, the innermost first
  todo,      \* what each of them has yet to give
  cur,       \* the entry it stands on
  sz,        \* file_size of it
  r,         \* CopyProfileResult
  was,       \* history: the destination before the copy
  steady,    \* history: the paths the browser has left alone
  reached,   \* history: the files copied or failed
  cut        \* history: an error ended the iteration

copyVars == <<disk, edits, opts, isDir, dst, stage, stack, todo, cur, sz, r, was,
              steady, reached, cut>>

Result == [ok: BOOLEAN, filesCopied: Nat, bytesCopied: Int, entriesSkipped: Nat,
           filesFailed: Nat, failedPaths: 0 .. MaxPaths]

CopyTypeOK ==
  /\ disk \in [Nodes -> Content]
  /\ edits \in 0 .. MaxEdits
  /\ opts \in Options
  /\ isDir \in BOOLEAN
  /\ dst \in [Nodes -> Content]
  /\ stage \in {"start", "next", "entry", "copy", "enter", "end", "done"}
  /\ stack \in Seq(Dirs)
  /\ todo \in [Dirs -> SUBSET Nodes]
  /\ cur \in Nodes \cup {Root}
  /\ stage \in {"entry", "copy", "enter"} => cur \in Nodes
  /\ sz \in Content \cup {-1}
  /\ r \in Result
  /\ was \in [Nodes -> Content]
  /\ steady \subseteq Nodes
  /\ reached \subseteq Nodes
  /\ cut \in BOOLEAN

Children(d) == {n \in Nodes : Parent[n] = d}

CopyInit ==
  /\ \E s \in Sources :
       disk = s.disk /\ dst = s.dst /\ opts = s.opts /\ isDir = s.isDir
  /\ edits = 0
  /\ stage = "start" /\ stack = <<>>
  /\ todo = [d \in Dirs |-> {}]
  /\ cur = Root /\ sz = 0
  /\ r = [ok |-> FALSE, filesCopied |-> 0, bytesCopied |-> 0,
          entriesSkipped |-> 0, filesFailed |-> 0, failedPaths |-> 0]
  /\ was = dst /\ steady = Nodes /\ reached = {} /\ cut = FALSE

-----------------------------------------------------------------------------
(* The browser.  A directory that is being listed may or may not show an   *)
(* entry that came or went meanwhile.                                      *)
Edit ==
  /\ stage \notin {"start", "done"}
  /\ edits < MaxEdits
  /\ edits' = edits + 1
  /\ \E n \in Nodes, c \in Content :
       /\ c # disk[n]
       /\ disk' = [disk EXCEPT ![n] = c]
       /\ Tree(disk')
       /\ steady' = steady \ {n}
       /\ \E seen \in BOOLEAN :
            todo' = IF (disk[n] = 0 \/ c = 0) /\ Parent[n] \in {stack[i] : i \in DOMAIN stack}
                    THEN [todo EXCEPT ![Parent[n]] = IF seen THEN @ \cup {n} ELSE @ \ {n}]
                    ELSE todo
  /\ UNCHANGED <<opts, isDir, dst, stage, stack, cur, sz, r, was, reached, cut>>

-----------------------------------------------------------------------------
(* CopyProfile.                                                            *)

Frame == UNCHANGED <<disk, edits, opts, isDir, was, steady>>

Open(d) ==
  /\ stack' = <<d>> \o stack
  /\ todo' = [todo EXCEPT ![d] = {n \in Children(d) : disk[n] # 0}]
  /\ stage' = "next"

(* Not a directory: the default result.  Otherwise the iterator is made;   *)
(* without permission to list `src' it is the end iterator.                *)
Start ==
  /\ stage = "start"
  /\ \/ ~isDir /\ stage' = "done" /\ UNCHANGED <<stack, todo, cut>>
     \/ isDir /\ Open(Root) /\ UNCHANGED cut
     \/ isDir /\ ListingMayFail /\ stage' = "end" /\ cut' = TRUE
        /\ UNCHANGED <<stack, todo>>
  /\ UNCHANGED <<dst, cur, sz, r, reached>>
  /\ Frame

(* increment, in a directory that has more entries, ...                    *)
TakeEntry ==
  /\ stage = "next" /\ stack # <<>>
  /\ \E n \in todo[Head(stack)] :
       /\ cur' = n
       /\ todo' = [todo EXCEPT ![Head(stack)] = @ \ {n}]
  /\ stage' = "entry"
  /\ UNCHANGED <<dst, stack, sz, r, reached, cut>>
  /\ Frame

(* ... in one that has none, ...                                           *)
LeaveDir ==
  /\ stage = "next" /\ stack # <<>>
  /\ todo[Head(stack)] = {}
  /\ stack' = Tail(stack)
  /\ stage' = IF Len(stack) = 1 THEN "end" ELSE "next"
  /\ UNCHANGED <<dst, todo, cur, sz, r, reached, cut>>
  /\ Frame

(* ... with an error: it is the end iterator now, and the loop is over     *)
(* before line 103 can look at `ec'.                                       *)
IterationFails ==
  /\ stage = "next" /\ ListingMayFail
  /\ stage' = "end" /\ cut' = TRUE
  /\ UNCHANGED <<dst, stack, todo, cur, sz, r, reached>>
  /\ Frame

(* increment, from a directory: it is entered, passed over when that is    *)
(* not permitted, and an error when it is gone.                            *)
EnterDir ==
  /\ stage = "enter"
  /\ \/ cur \in Unreadable /\ stage' = "next" /\ UNCHANGED <<stack, todo, cut>>
     \/ cur \notin Unreadable /\ disk[cur] # 0 /\ Open(cur) /\ UNCHANGED cut
     \/ cur \notin Unreadable /\ disk[cur] = 0 /\ stage' = "end" /\ cut' = TRUE
        /\ UNCHANGED <<stack, todo>>
  /\ UNCHANGED <<dst, cur, sz, r, reached>>
  /\ Frame

(* fs::relative resolves a link that leads somewhere, so `rel' and `to'    *)
(* are those of its target, and a link into a cache counts as cached.      *)
Rel(n) == IF disk[Target[n]] # 0 THEN Target[n] ELSE n

(* Mutation of InCache: only the last component is looked at.              *)
InCacheByName(n) == n \in CacheNamed

InCache(n) == Above[n] \cap CacheNamed # {}

Pruned(n) == opts.skipCache /\ InCache(n)

(* Mutation of SkipCached: a cache is counted but not pruned.              *)
SkipCachedUnpruned ==
  /\ stage = "entry" /\ Pruned(Rel(cur))
  /\ r' = [r EXCEPT !.entriesSkipped = @ + 1]
  /\ stage' = IF Kind[cur] = "dir" THEN "enter" ELSE "next"
  /\ UNCHANGED <<dst, stack, todo, cur, sz, reached, cut>>
  /\ Frame

SkipCached ==
  /\ stage = "entry" /\ Pruned(Rel(cur))
  /\ r' = [r EXCEPT !.entriesSkipped = @ + 1]
  /\ stage' = "next"
  /\ UNCHANGED <<dst, stack, todo, cur, sz, reached, cut>>
  /\ Frame

(* create_directories(p): the directories above come with it.              *)
WithDirs(t, n) == [m \in Nodes |-> IF m \in Above[n] /\ Kind[m] = "dir" THEN 1
                                   ELSE t[m]]

(* is_directory follows links; the iterator does not.                      *)
MakeDir ==
  /\ stage = "entry" /\ ~Pruned(Rel(cur))
  /\ Kind[Rel(cur)] = "dir"
  /\ dst' = WithDirs(dst, Rel(cur))
  /\ stage' = IF Kind[cur] = "dir" THEN "enter" ELSE "next"
  /\ UNCHANGED <<stack, todo, cur, sz, r, reached, cut>>
  /\ Frame

(* The type of an entry comes from the listing, that of a link from its    *)
(* target: a file may be gone and is still a regular file.                 *)
IsRegular(n) == Kind[Rel(n)] = "file"

SkipOther ==
  /\ stage = "entry" /\ ~Pruned(Rel(cur))
  /\ Kind[Rel(cur)] # "dir" /\ ~IsRegular(cur)
  /\ stage' = "next"
  /\ UNCHANGED <<dst, stack, todo, cur, sz, r, reached, cut>>
  /\ Frame

To == Target[cur]

(* file_size gives uintmax_t(-1) for a file that is gone.                  *)
Measure ==
  /\ stage = "entry" /\ ~Pruned(Rel(cur)) /\ IsRegular(cur)
  /\ sz' = IF disk[To] = 0 THEN -1 ELSE disk[To]
  /\ dst' = WithDirs(dst, To)
  /\ stage' = "copy"
  /\ UNCHANGED <<stack, todo, cur, r, reached, cut>>
  /\ Frame

(* skip_existing: a file that is there is left, which is no error and is   *)
(* found out before the source is opened.                                  *)
Spared == ~opts.overwrite /\ dst[To] # 0

CopyFails ==
  /\ stage = "copy"
  /\ disk[To] = 0 \/ (To \in Unreadable /\ ~Spared)
  /\ r' = [r EXCEPT !.filesFailed = @ + 1,
                    !.failedPaths = IF @ < MaxPaths THEN @ + 1 ELSE @]
  /\ reached' = reached \cup {To}
  /\ stage' = IF opts.continueOnError THEN "next" ELSE "done"
  /\ UNCHANGED <<dst, stack, todo, cur, sz, cut>>
  /\ Frame

(* Mutation of CopySucceeds: what is there is replaced.                    *)
CopySucceedsAlways ==
  /\ stage = "copy"
  /\ disk[To] # 0 /\ (To \notin Unreadable \/ Spared)
  /\ dst' = [dst EXCEPT ![To] = disk[To]]
  /\ r' = [r EXCEPT !.filesCopied = @ + 1, !.bytesCopied = @ + sz]
  /\ reached' = reached \cup {To}
  /\ stage' = "next"
  /\ UNCHANGED <<stack, todo, cur, sz, cut>>
  /\ Frame

CopySucceeds ==
  /\ stage = "copy"
  /\ disk[To] # 0 /\ (To \notin Unreadable \/ Spared)
  /\ dst' = IF Spared THEN dst ELSE [dst EXCEPT ![To] = disk[To]]
  /\ r' = [r EXCEPT !.filesCopied = @ + 1, !.bytesCopied = @ + sz]
  /\ reached' = reached \cup {To}
  /\ stage' = "next"
  /\ UNCHANGED <<stack, todo, cur, sz, cut>>
  /\ Frame

Finish ==
  /\ stage = "end"
  /\ r' = [r EXCEPT !.ok = (r.filesFailed = 0)]
  /\ stage' = "done"
  /\ UNCHANGED <<dst, stack, todo, cur, sz, reached, cut>>
  /\ Frame

CopyStep ==
  \/ Start \/ TakeEntry \/ LeaveDir \/ IterationFails \/ EnterDir
  \/ SkipCached \/ MakeDir \/ SkipOther \/ Measure
  \/ CopyFails \/ CopySucceeds \/ Finish

CopyNext == CopyStep \/ Edit

(* CopyProfile runs in one thread and waits for nobody.                    *)
CopySpec == CopyInit /\ [][CopyNext]_copyVars /\ WF_copyVars(CopyStep)

-----------------------------------------------------------------------------
(* The properties.                                                         *)

(* The loop has been through the tree.                                     *)
Complete == stage = "done" /\ isDir /\ opts.continueOnError /\ ~cut

(* The files of the source that the copy owes its caller: they are there,  *)
(* in no cache that is skipped, below directories that can be listed.      *)
Owed == {f \in Regular : /\ disk[f] # 0 /\ ~Pruned(f)
                         /\ (Above[f] \ {f}) \cap Unreadable = {}}

(* CopyProfile against a browser that is running: whatever it does to the  *)
(* rest of the tree, a file it has left alone, with the directories above  *)
(* it, is tried, and is then in the destination as it is in the source; if *)
(* it cannot be read, or was there before and is not to be overwritten,    *)
(* what was there has not changed.                                         *)
SteadyFilesArrive ==
  Complete => \A f \in Owed : Above[f] \subseteq steady =>
    /\ f \in reached
    /\ dst[f] = IF f \notin Unreadable /\ (opts.overwrite \/ was[f] = 0)
                THEN disk[f] ELSE was[f]

(* CopyProfileResult of a profile nobody uses: every counter is what the   *)
(* tree says, and `ok' is that no file failed.  Two things are left open.  *)
(* The comment at line 121 has links skipped, and the code counts what     *)
(* they lead to once more: the links L are taken for their targets, the    *)
(* others for nothing.  profile.h:538 has files that cannot be read        *)
(* counted as failed, and the code counts those that are already there,    *)
(* and not to be overwritten, as copied: the S among them are.             *)
CountersMatchTree ==
  Complete /\ steady = Nodes =>
    LET seen == {n \in Nodes : /\ disk[n] # 0
                               /\ \A d \in Above[n] \ {n} : d \notin Unreadable /\ ~Pruned(d)}
        links == {n \in seen : Kind[n] = "link"}
        there == {n \in seen : ~opts.overwrite /\ was[Rel(n)] # 0}
    IN  \E L \in SUBSET links, S \in SUBSET there :
          LET taken == (seen \ links) \cup L
              files == {n \in taken : ~Pruned(Rel(n)) /\ IsRegular(n)}
              good == {n \in files : Rel(n) \notin Unreadable \/ n \in S}
          IN  /\ r.filesCopied = Cardinality(good)
              /\ r.bytesCopied =
                   Cardinality(UNION {{n} \X (1 .. disk[Rel(n)]) : n \in good})
              /\ r.filesFailed = Cardinality(files \ good)
              /\ r.entriesSkipped = Cardinality({n \in taken : Pruned(Rel(n))})
              /\ r.ok = (files = good)

(* "Cache is excluded by default (a migration wants data, not regenerable  *)
(* cache)": nothing of a cache comes into the destination, through a link  *)
(* or while the browser is at work either.                                 *)
CachesStayBehind ==
  opts.skipCache => \A n \in Nodes : InCache(n) => dst[n] = was[n]

(* The iteration comes to an end, as the browser does.                     *)
CopyEnds == <>(stage = "done")

(* "ok: true iff nothing failed", and "locked files are skipped and        *)
(* counted in filesFailed": a copy that says ok has every file it owes.    *)
OkMeansComplete ==
  stage = "done" /\ r.ok =>
    \A f \in Owed : Above[f] \subseteq steady => dst[f] # 0
=============================================================================
