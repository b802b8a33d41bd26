------------------------------ MODULE Capture ------------------------------
(***************************************************************************)
(* CaptureInstallation (capture.cpp): the root is resolved, Local State is *)
(* read, and then every profile it names, document after document, while a *)
(* browser that has profiles open rewrites theirs.                         *)
(*                                                                         *)
(* A document is what its readers tell apart: "torn" does not parse, and   *)
(* its `illTyped' items hold a value of a type that value() throws on; a   *)
(* Local State with such a value is "odd".  The browser replaces a         *)
(* document as a whole.  The readers of the other source files are one     *)
(* step.                                                                   *)
(***************************************************************************)
EXTENDS Integers, Sequences, FiniteSets

CONSTANTS
  NProfiles,   \* the entries of info_cache, in the order of their keys
  Items,       \* extensions, bookmarks, servers
  Scenes,      \* the calls, and what the profiles may hold at that time
  Rewrites,    \* what the browser may put in place of a document
  Busy,        \* the profiles a browser has open
  RestMayThrow,   \* a reader of another file may throw
  MaxRewrites  \* bound on what the browser does

Profiles == 1 .. NProfiles
DocNames == {"Preferences", "Secure Preferences", "Bookmarks", "Network"}
StoreNames == {"Login Data", "Network/Cookies", "Cookies", "Web Data"}
Forms == {"absent", "torn", "good"}
Flags == {"none", "on", "off"}
Doc == {d \in [form: Forms, items: SUBSET Items, illTyped: SUBSET Items, flag: Flags] :
          d.illTyped \subseteq d.items}

(* The directory of a profile; the size of a store that is not there is 0. *)
ProfileDir == [there: BOOLEAN, docs: [DocNames -> Doc], sizes: [StoreNames -> Nat]]

(* The path a caller gives, whether its onDiagnostic returns; the form of  *)
(* Local State, "bare" without an info_cache; whether Last Version exists. *)
Call == [input: {"root", "profile", "profile/", "browser", "file", "elsewhere"},
         callback: {"none", "returns", "throws"},
         localState: Forms \cup {"odd", "bare"}, version: BOOLEAN]

ASSUME CaptureAssumption ==
  /\ NProfiles \in Nat
  /\ Scenes \subseteq Call \X [Profiles -> ProfileDir]
  /\ Rewrites \in [DocNames -> SUBSET Doc]
  /\ Busy \subseteq Profiles
  /\ RestMayThrow \in BOOLEAN
  /\ MaxRewrites \in Nat

VARIABLES
  call,        \* the call and the files of the root
  dirs,        \* the directories of the profiles
  rewrites,    \* the changes of the browser so far
  pc,          \* "start", "root", "profile", "look", "read", "rest", "done", "threw"
  userDataDir,        \* user_data_dir
  prof,        \* the profile of the loop
  line,        \* the position in Readers
  inst,        \* the profiles of the Installation
  diags,       \* its diagnostics
  quiet,       \* history: the profiles that have not changed
  gone,        \* history: <<p, x>>: x was in neither file, or came to Preferences
  odd          \* history: the profiles that had an ill-typed value

captureVars == <<call, dirs, rewrites, pc, userDataDir, prof, line, inst, diags,
                 quiet, gone, odd>>

(* The credential stores: a file and the member it is about.               *)
StoreOf == [f \in StoreNames |-> IF f = "Network/Cookies" THEN "Cookies" ELSE f]

(* Mutation of Readers: Secure Preferences, the authoritative file, first. *)
ReadersSecureFirst == <<
  <<"extensions", "Secure Preferences">>, <<"extensions", "Preferences">>,
  <<"security", "Preferences">>, <<"security", "Secure Preferences">>,
  <<"bookmarks", "Bookmarks">>, <<"network", "Network">>,
  <<"credentials", "Login Data">>, <<"credentials", "Network/Cookies">>,
  <<"credentials", "Cookies">>, <<"credentials", "Web Data">> >>

(* What the readers of capture.cpp look at, in turn.                       *)
Readers == <<
  <<"extensions", "Preferences">>, <<"extensions", "Secure Preferences">>,
  <<"security", "Preferences">>, <<"security", "Secure Preferences">>,
  <<"bookmarks", "Bookmarks">>, <<"network", "Network">>,
  <<"credentials", "Login Data">>, <<"credentials", "Network/Cookies">>,
  <<"credentials", "Cookies">>, <<"credentials", "Web Data">> >>

Profile == [extensions: SUBSET (Items \X DocNames), security: Flags,
            bookmarks: SUBSET Items, network: {{}} \cup {{s} : s \in SUBSET Items},
            credentials: SUBSET (StoreNames \X Int), rest: BOOLEAN]

NoProfile == [extensions |-> {}, security |-> "none", bookmarks |-> {},
              network |-> {}, credentials |-> {}, rest |-> FALSE]

CaptureTypeOK ==
  /\ call \in Call
  /\ dirs \in [Profiles -> ProfileDir]
  /\ rewrites \in 0 .. MaxRewrites
  /\ pc \in {"start", "root", "profile", "look", "read", "rest", "done", "threw"}
  /\ userDataDir \in {"none", "User Data", "Default", "Vendor", "elsewhere"}
  /\ prof \in 1 .. NProfiles + 1
  /\ line \in 1 .. Len(Readers) + 1
  /\ pc \in {"look", "read"} => prof \in Profiles /\ line \in DOMAIN Readers
  /\ inst \in [Profiles -> Profile]
  /\ diags \in Seq({"version", "preferences", "bookmarks"})
  /\ quiet \subseteq Profiles
  /\ gone \subseteq Profiles \X Items
  /\ odd \subseteq Profiles

(* What a document that parses has of `items'; the readers pass by a       *)
(* document without the sections they want.                                *)
Listed(d) == IF d.form = "good" THEN d.items ELSE {}

Odd(dir) == \E n \in DocNames : dir.docs[n].illTyped # {}

Kept(dir) == Listed(dir.docs["Preferences"]) \cup Listed(dir.docs["Secure Preferences"])

CaptureInit ==
  /\ \E s \in Scenes : call = s[1] /\ dirs = s[2]
  /\ rewrites = 0
  /\ pc = "start" /\ userDataDir = "none" /\ prof = 1 /\ line = 1
  /\ inst = [p \in Profiles |-> NoProfile]
  /\ diags = <<>>
  /\ quiet = Profiles
  /\ gone = {g \in Profiles \X Items : g[2] \notin Kept(dirs[g[1]])}
  /\ odd = {p \in Profiles : Odd(dirs[p])}

-----------------------------------------------------------------------------
(* The browser replaces a document, or a credential store comes or goes.   *)
Change(p, dir) ==
  /\ dir # dirs[p]
  /\ dirs' = [dirs EXCEPT ![p] = dir]
  /\ rewrites' = rewrites + 1
  /\ quiet' = quiet \ {p}
  /\ gone' = gone \cup {<<p, x>> : x \in (Items \ Kept(dir)) \cup
               (Listed(dir.docs["Preferences"]) \ Listed(dirs[p].docs["Preferences"]))}
  /\ odd' = IF Odd(dir) THEN odd \cup {p} ELSE odd

Browser ==
  /\ pc \in {"profile", "look", "read", "rest"}
  /\ rewrites < MaxRewrites
  /\ \E p \in Busy :
       \/ \E n \in DocNames : \E d \in Rewrites[n] :
            Change(p, [dirs[p] EXCEPT !.docs[n] = d])
       \/ \E f \in StoreNames : \E s \in {0, 1} :
            Change(p, [dirs[p] EXCEPT !.sizes[f] = s])
  /\ UNCHANGED <<call, pc, userDataDir, prof, line, inst, diags>>

-----------------------------------------------------------------------------
Unmoved == UNCHANGED <<call, dirs, rewrites, quiet, gone, odd>>

(* "Local State" lies in "User Data", which holds "Default" and lies in    *)
(* "Vendor".  Blanks and quotes at the ends of the input are stripped.     *)
PathOf(i) == CASE i = "root" -> "User Data"
               [] i \in {"profile", "profile/"} -> "Default"
               [] i = "browser" -> "Vendor"
               [] OTHER -> "elsewhere"

(* A path that ends in a separator is, without it, its own parent_path.    *)
ParentPath(i) == IF i \in {"profile", "file"} THEN "User Data" ELSE PathOf(i)

HasLocalState(d) == d = "User Data" /\ call.localState # "absent"

(* Mutation of ResolveUserDataRoot: no look at the directory above.        *)
ResolveWithoutParent(i) ==
  IF i = "browser" /\ HasLocalState("User Data") THEN "User Data" ELSE PathOf(i)

(* Four candidates in turn; without Local State the input stands.          *)
ResolveUserDataRoot(i) ==
  IF i = "file" /\ HasLocalState(ParentPath(i)) THEN ParentPath(i)
  ELSE IF HasLocalState(PathOf(i)) THEN PathOf(i)
  ELSE IF i = "browser" /\ HasLocalState("User Data") THEN "User Data"
  ELSE IF HasLocalState(ParentPath(i)) THEN ParentPath(i)
  ELSE PathOf(i)

(* CaptureCtx: a diagnostic is kept and then handed to the callback, whose *)
(* exception nobody catches.                                               *)
Diagnose(source, next) ==
  /\ diags' = Append(diags, source)
  /\ pc' = IF call.callback = "throws" THEN "threw" ELSE next

Resolve ==
  /\ pc = "start"
  /\ userDataDir' = ResolveUserDataRoot(call.input)
  /\ IF call.version /\ userDataDir' = "User Data" THEN Diagnose("version", "root")
     ELSE pc' = "root" /\ UNCHANGED diags
  /\ UNCHANGED <<prof, line, inst>>
  /\ Unmoved

(* Without a Local State that can be read there is no capture.             *)
ReadLocalState ==
  /\ pc = "root"
  /\ pc' = IF ~HasLocalState(userDataDir) \/ call.localState \in {"torn", "odd"} THEN "threw"
           ELSE IF call.localState = "bare" THEN "done" ELSE "profile"
  /\ UNCHANGED <<userDataDir, prof, line, inst, diags>>
  /\ Unmoved

NextProfile ==
  /\ pc = "profile"
  /\ \/ prof > NProfiles /\ pc' = "done" /\ UNCHANGED <<prof, line>>
     \/ prof <= NProfiles /\ ~dirs[prof].there
        /\ prof' = prof + 1 /\ UNCHANGED <<pc, line>>
     \/ prof <= NProfiles /\ dirs[prof].there
        /\ pc' = "look" /\ line' = 1 /\ UNCHANGED prof
  /\ UNCHANGED <<userDataDir, inst, diags>>
  /\ Unmoved

-----------------------------------------------------------------------------
(* One line of Readers: exists, then the document.                         *)
Reader == Readers[line][1]
File == Readers[line][2]
Found == dirs[prof].docs[File]

(* The next line after `n' more; the readers of the other files are last.  *)
After(n) == IF line + n > Len(Readers) THEN "rest" ELSE "look"

Advance(n) == line' = line + n /\ pc' = After(n)

Exists == IF Reader = "credentials" THEN dirs[prof].sizes[File] # 0
          ELSE Found.form # "absent"

Look ==
  /\ pc = "look"
  /\ IF Exists THEN pc' = "read" /\ UNCHANGED line ELSE Advance(1)
  /\ UNCHANGED <<userDataDir, prof, inst, diags>>
  /\ Unmoved

(* What is gone by now reads as "" and does not parse either.              *)
Unparsed == Found.form \in {"absent", "torn"}

(* Mutation of ReadUnparsed: no try around the parser.                     *)
ReadUnparsedUncaught ==
  /\ pc = "read" /\ Reader # "credentials" /\ Unparsed
  /\ pc' = "threw"
  /\ UNCHANGED <<userDataDir, prof, line, inst, diags>>
  /\ Unmoved

(* Two of the readers warn, the others return without a word.              *)
ReadUnparsed ==
  /\ pc = "read" /\ Reader # "credentials" /\ Unparsed
  /\ IF Reader \in {"extensions", "bookmarks"}
     THEN Diagnose(IF Reader = "extensions" THEN "preferences" ELSE Reader, After(1))
     ELSE pc' = After(1) /\ UNCHANGED diags
  /\ line' = line + 1
  /\ UNCHANGED <<userDataDir, prof, inst>>
  /\ Unmoved

(* The items whose values are taken: of the extensions those that were not *)
(* read before; the security flags are type-checked.                       *)
Taken == CASE Reader = "extensions" -> Found.items \ {e[1] : e \in inst[prof].extensions}
           [] Reader = "security"   -> {}
           [] OTHER                 -> Found.items

IllTyped == Found.illTyped \cap Taken

(* value() throws outside the try.                                         *)
ReadOdd ==
  /\ pc = "read" /\ Reader # "credentials"
  /\ ~Unparsed /\ IllTyped # {}
  /\ pc' = "threw"
  /\ UNCHANGED <<userDataDir, prof, line, inst, diags>>
  /\ Unmoved

(* ReadPreferences: an extension that was read before is passed by.        *)
Ingest(x) ==
  LET seen == {e[1] : e \in x.extensions}
  IN  [x EXCEPT !.extensions = @ \cup {<<e, File>> : e \in Found.items \ seen}]

(* Mutation of Scan: the first file that has the flag wins.                *)
ScanFirst(x) ==
  [x EXCEPT !.security = IF @ = "none" THEN Found.flag ELSE @]

(* ReadSecurityPosture: the last file that has the flag wins.              *)
Scan(x) == [x EXCEPT !.security = IF Found.flag = "none" THEN @ ELSE Found.flag]

ReadDocument ==
  /\ pc = "read" /\ Reader # "credentials"
  /\ ~Unparsed /\ IllTyped = {}
  /\ inst' = [inst EXCEPT ![prof] =
       CASE Reader = "extensions" -> Ingest(@)
         [] Reader = "security"   -> Scan(@)
         [] Reader = "bookmarks"  -> [@ EXCEPT !.bookmarks = Found.items]
         [] OTHER                 -> [@ EXCEPT !.network = {Found.items}]]
  /\ Advance(1)
  /\ UNCHANGED <<userDataDir, prof, diags>>
  /\ Unmoved

(* ReadCredentialPresence; file_size of a file that is gone is -1, as an   *)
(* unsigned number.  `break' leaves the other candidates out.              *)
MeasureStore ==
  /\ pc = "read" /\ Reader = "credentials"
  /\ LET size == dirs[prof].sizes[File]
     IN  inst' = [inst EXCEPT ![prof].credentials =
                    @ \cup {<<StoreOf[File], IF size = 0 THEN -1 ELSE size>>}]
  /\ Advance(IF File = "Network/Cookies" THEN 2 ELSE 1)
  /\ UNCHANGED <<userDataDir, prof, diags>>
  /\ Unmoved

(* ReadLoginData to ReadSyncData.                                          *)
ReadRest ==
  /\ pc = "rest"
  /\ inst' = [inst EXCEPT ![prof].rest = TRUE]
  /\ \/ pc' = "profile" /\ prof' = prof + 1
     \/ RestMayThrow /\ pc' = "threw" /\ UNCHANGED prof
  /\ UNCHANGED <<userDataDir, line, diags>>
  /\ Unmoved

CaptureStep ==
  \/ Resolve \/ ReadLocalState \/ NextProfile \/ Look
  \/ ReadUnparsed \/ ReadOdd \/ ReadDocument \/ MeasureStore \/ ReadRest

CaptureNext == CaptureStep \/ Browser

(* The capture runs in one thread and waits for nobody.                    *)
CaptureSpec ==
  CaptureInit /\ [][CaptureNext]_captureVars /\ WF_captureVars(CaptureStep)

-----------------------------------------------------------------------------
(* The properties.                                                         *)

(* The profiles a capture that came to its end has read.                   *)
Captured == IF pc = "done" /\ call.localState = "good"
            THEN {p \in Profiles : dirs[p].there} ELSE {}

(* What a profile directory nobody writes to holds: an extension is that   *)
(* of Preferences before that of Secure Preferences, a security flag the   *)
(* other way round, Cookies the new place before the old one.              *)
Holds(dir) ==
  LET P == dir.docs["Preferences"]   S == dir.docs["Secure Preferences"]
      B == dir.docs["Bookmarks"]     N == dir.docs["Network"]
      cookies == IF dir.sizes["Network/Cookies"] # 0 THEN "Network/Cookies" ELSE "Cookies"
  IN  [extensions |-> (Listed(P) \X {"Preferences"})
                      \cup ((Listed(S) \ Listed(P)) \X {"Secure Preferences"}),
       security   |-> IF S.form = "good" /\ S.flag # "none" THEN S.flag
                      ELSE IF P.form = "good" THEN P.flag ELSE "none",
       bookmarks  |-> Listed(B),
       network    |-> IF N.form = "good" THEN {N.items} ELSE {},
       credentials |-> {<<StoreOf[f], dir.sizes[f]>> :
                          f \in {g \in {"Login Data", cookies, "Web Data"} : dir.sizes[g] # 0}},
       rest       |-> TRUE]

(* CaptureInstallation: a profile the browser leaves alone is captured as  *)
(* it lies there, whatever becomes of the other profiles, of documents     *)
(* that do not parse and of profiles without a directory.                  *)
QuietProfileIsExact == \A p \in Captured \cap quiet : inst[p] = Holds(dirs[p])

(* ReadPreferences: an extension is reported once, and one that was in one *)
(* of the two files at every moment and only ever went from Preferences to *)
(* Secure Preferences is reported, also when it did so in between.         *)
MovedExtensionIsKept ==
  \A p \in Captured, x \in Items :
    LET found == {e \in inst[p].extensions : e[1] = x}
    IN  /\ Cardinality(found) <= 1
        /\ <<p, x>> \notin gone => found # {}

(* "a bad Local State aborts the whole capture", and what a profile holds  *)
(* only when a value of it has the wrong type: no document that does not   *)
(* parse, vanishes or was never there ends a capture, except through the   *)
(* caller's own callback.                                                  *)
ThrowsForAReason ==
  pc = "threw" =>
    \/ ~HasLocalState(userDataDir) \/ call.localState \in {"torn", "odd"}
    \/ call.callback = "throws" /\ diags # <<>>
    \/ prof \in odd
    \/ RestMayThrow /\ inst[prof].rest

(* ResolveUserDataRoot: the paths its comment lists lead to the directory  *)
(* of Local State, save that of a profile that ends in a separator.        *)
RootIsFound ==
  pc # "start" /\ call.localState # "absent" /\ call.input \notin {"profile/", "elsewhere"}
    => userDataDir = "User Data"

(* A capture returns or throws, as the browser comes to an end.            *)
CaptureEnds == <>(pc \in {"done", "threw"})

(* "Per-profile readers below are best-effort": once Local State has been  *)
(* read, nothing but the caller's callback ends the capture.               *)
ProfilesAreBestEffort ==
  pc = "threw" =>
    ~HasLocalState(userDataDir) \/ call.localState # "good" \/ call.callback = "throws"
=============================================================================
