--------------------------- MODULE CaptureProofs ---------------------------
(***************************************************************************)
(* Proofs about the calls that walk through a profile.                     *)
(*                                                                         *)
(* Capture, for any number of profiles, any contents and a browser that    *)
(* writes without end: the types, the root that is found, what ends a      *)
(* capture early, that an extension which moves between the two files of   *)
(* preferences while they are read is not lost, and that a profile nobody  *)
(* writes to is captured as it lies there.  WebData, for any tables: the   *)
(* address merge is exact when the tables are still and loses no migrated  *)
(* address when they are not.  CopyProfile, for any tree: the files arrive *)
(* and the counters are those of the tree.                                 *)
(***************************************************************************)
EXTENDS Capture, WebData, CopyProfile, FiniteSetTheorems, SequenceTheorems, TLAPS

USE DEF Profiles

-----------------------------------------------------------------------------
(* The table of readers.                                                   *)
LEMMA ReaderCount ==
  /\ Len(Readers) = 10 /\ Len(Readers) + 1 = 11 /\ DOMAIN Readers = 1 .. 10
BY DEF Readers

(* The SMT solver takes no string with a blank: files go by their line.    *)
FileAt(n) == Readers[n][2]

LEMMA ReaderKinds ==
  /\ Readers[1][1] = "extensions" /\ Readers[2][1] = "extensions"
  /\ Readers[3][1] = "security" /\ Readers[4][1] = "security"
  /\ Readers[5][1] = "bookmarks" /\ Readers[6][1] = "network"
  /\ Readers[7][1] = "credentials" /\ Readers[8][1] = "credentials"
  /\ Readers[9][1] = "credentials" /\ Readers[10][1] = "credentials"
  /\ FileAt(3) = FileAt(1) /\ FileAt(4) = FileAt(2)
BY DEF Readers, FileAt

LEMMA ReaderFiles ==
  /\ FileAt(1) = "Preferences" /\ FileAt(2) = "Secure Preferences"
  /\ FileAt(3) = "Preferences" /\ FileAt(4) = "Secure Preferences"
  /\ FileAt(5) = "Bookmarks" /\ FileAt(6) = "Network"
  /\ FileAt(7) = "Login Data" /\ FileAt(8) = "Network/Cookies"
  /\ FileAt(9) = "Cookies" /\ FileAt(10) = "Web Data"
BY DEF Readers, FileAt

LEMMA ReaderTable ==
  /\ Len(Readers) = 10 /\ DOMAIN Readers = 1 .. 10
  /\ \A n \in 1 .. 10 :
       /\ Readers[n][1] = "extensions" <=> n \in {1, 2}
       /\ Readers[n][1] = "credentials" => Readers[n][2] \in StoreNames
       /\ Readers[n][1] # "credentials" => Readers[n][2] \in DocNames
       /\ Readers[n][2] = "Network/Cookies" => n = 8
  /\ Readers[1][2] = "Preferences" /\ Readers[2][2] = "Secure Preferences"
<1>1. Len(Readers) = 10 /\ DOMAIN Readers = 1 .. 10
  BY ReaderCount
<1>2. \A n \in 1 .. 10 : n = 1 \/ n = 2 \/ n = 3 \/ n = 4 \/ n = 5 \/ n = 6 \/ n = 7 \/ n = 8 \/ n = 9 \/ n = 10
  OBVIOUS
<1>4. ASSUME NEW n \in 1 .. 10
      PROVE  /\ Readers[n][1] = "extensions" <=> n \in {1, 2}
             /\ Readers[n][1] = "credentials" => Readers[n][2] \in StoreNames
             /\ Readers[n][1] # "credentials" => Readers[n][2] \in DocNames
             /\ Readers[n][2] = "Network/Cookies" => n = 8
  <2>1. CASE n \in {1, 2}
    BY ReaderKinds, ReaderFiles, <2>1 DEF DocNames, FileAt
  <2>2. CASE n \in {3, 4, 5, 6}
    BY ReaderKinds, ReaderFiles, <2>2 DEF DocNames, FileAt
  <2>3. CASE n \in {7, 8, 9, 10}
    BY ReaderKinds, ReaderFiles, <2>3 DEF StoreNames, FileAt
  <2> QED
    BY <1>2, <2>1, <2>2, <2>3
<1>5. Readers[1][2] = "Preferences" /\ Readers[2][2] = "Secure Preferences"
  BY ReaderFiles DEF FileAt
<1> QED
  BY <1>1, <1>4, <1>5

LEMMA Forward ==
  ASSUME CaptureTypeOK, pc \in {"look", "read"}, NEW n \in {1, 2},
         n = 2 => File = "Network/Cookies"
  PROVE  /\ line + n \in 1 .. 11
         /\ After(n) \in {"look", "rest"}
         /\ After(n) = "look" => line + n \in DOMAIN Readers
<1>1. line \in 1 .. 10 /\ (n = 2 => line = 8)
  BY ReaderTable DEF CaptureTypeOK, File
<1>2. line + n \in 1 .. 11
  BY <1>1
<1>3. line + n > 10 \/ line + n \in 1 .. 10
  BY <1>1
<1> QED
  BY <1>2, <1>3, ReaderCount DEF After

(* What a reader does to the record of a profile.                          *)
LEMMA Records ==
  ASSUME NEW x \in Profile
  PROVE  /\ x.extensions \in SUBSET (Items \X DocNames)
         /\ \A s \in SUBSET (Items \X DocNames) :
              /\ [x EXCEPT !.extensions = s] \in Profile
              /\ [x EXCEPT !.extensions = s].extensions = s
         /\ \A f \in Flags : /\ [x EXCEPT !.security = f] \in Profile
                             /\ [x EXCEPT !.security = f].extensions = x.extensions
         /\ \A s \in SUBSET Items :
              /\ [x EXCEPT !.bookmarks = s] \in Profile
              /\ [x EXCEPT !.bookmarks = s].extensions = x.extensions
              /\ [x EXCEPT !.network = {s}] \in Profile
              /\ [x EXCEPT !.network = {s}].extensions = x.extensions
         /\ \A c \in StoreNames \X Int :
              /\ [x EXCEPT !.credentials = @ \cup {c}] \in Profile
              /\ [x EXCEPT !.credentials = @ \cup {c}].extensions = x.extensions
         /\ /\ [x EXCEPT !.rest = TRUE] \in Profile
            /\ [x EXCEPT !.rest = TRUE].extensions = x.extensions
            /\ [x EXCEPT !.rest = TRUE].rest = TRUE
<1>1. x.extensions \in SUBSET (Items \X DocNames)
  BY DEF Profile
<1>2. \A s \in SUBSET (Items \X DocNames) :
        [x EXCEPT !.extensions = s] \in Profile /\ [x EXCEPT !.extensions = s].extensions = s
  BY DEF Profile
<1>3. \A f \in Flags :
        [x EXCEPT !.security = f] \in Profile /\ [x EXCEPT !.security = f].extensions = x.extensions
  BY DEF Profile
<1>4. \A s \in SUBSET Items :
        [x EXCEPT !.bookmarks = s] \in Profile /\ [x EXCEPT !.bookmarks = s].extensions = x.extensions
  BY DEF Profile
<1>5. \A s \in SUBSET Items :
        [x EXCEPT !.network = {s}] \in Profile /\ [x EXCEPT !.network = {s}].extensions = x.extensions
  BY DEF Profile
<1>6. \A c \in StoreNames \X Int :
        /\ [x EXCEPT !.credentials = @ \cup {c}] \in Profile
        /\ [x EXCEPT !.credentials = @ \cup {c}].extensions = x.extensions
  BY DEF Profile
<1>7. /\ [x EXCEPT !.rest = TRUE] \in Profile
      /\ [x EXCEPT !.rest = TRUE].extensions = x.extensions
      /\ [x EXCEPT !.rest = TRUE].rest = TRUE
  BY DEF Profile
<1> QED
  BY <1>1, <1>2, <1>3, <1>4, <1>5, <1>6, <1>7

-----------------------------------------------------------------------------
(* The entry of a document is typed, and so is what replaces it.           *)
LEMMA Documents ==
  ASSUME CaptureTypeOK, pc = "read"
  PROVE  /\ prof \in Profiles /\ line \in 1 .. 10
         /\ Reader # "credentials" => /\ File \in DocNames
                                      /\ Found = dirs[prof].docs[File]
                                      /\ Found.form \in Forms /\ Found.items \subseteq Items
                                      /\ Found.flag \in Flags
         /\ Reader = "credentials" => File \in StoreNames /\ dirs[prof].sizes[File] \in Nat
<1>1. prof \in Profiles /\ line \in 1 .. 10
  BY ReaderTable DEF CaptureTypeOK
<1>2. dirs[prof] \in ProfileDir
  BY <1>1 DEF CaptureTypeOK
<1>3. CASE Reader # "credentials"
  <2>1. File \in DocNames
    BY <1>1, <1>3, ReaderTable DEF Reader, File
  <2>2. Found \in Doc
    BY <1>2, <2>1 DEF ProfileDir, Found
  <2> QED
    BY <1>1, <1>3, <2>1, <2>2 DEF Doc, Found
<1>4. CASE Reader = "credentials"
  <2>1. File \in StoreNames
    BY <1>1, <1>4, ReaderTable DEF Reader, File
  <2> QED
    BY <1>1, <1>2, <1>4, <2>1 DEF ProfileDir
<1> QED
  BY <1>3, <1>4

LEMMA Replaced ==
  ASSUME NEW dir \in ProfileDir
  PROVE  /\ \A n \in DocNames, d \in Doc : /\ [dir EXCEPT !.docs[n] = d] \in ProfileDir
                                           /\ [dir EXCEPT !.docs[n] = d].there = dir.there
         /\ \A f \in StoreNames, k \in Nat : /\ [dir EXCEPT !.sizes[f] = k] \in ProfileDir
                                             /\ [dir EXCEPT !.sizes[f] = k].there = dir.there
<1>1. dir.docs \in [DocNames -> Doc] /\ dir.sizes \in [StoreNames -> Nat]
  BY DEF ProfileDir
<1>2. ASSUME NEW n \in DocNames, NEW d \in Doc
      PROVE  [dir EXCEPT !.docs[n] = d] \in ProfileDir /\ [dir EXCEPT !.docs[n] = d].there = dir.there
  <2>1. [dir.docs EXCEPT ![n] = d] \in [DocNames -> Doc]
    BY <1>1
  <2> QED
    BY <2>1 DEF ProfileDir
<1>3. ASSUME NEW f \in StoreNames, NEW k \in Nat
      PROVE  [dir EXCEPT !.sizes[f] = k] \in ProfileDir /\ [dir EXCEPT !.sizes[f] = k].there = dir.there
  <2>1. [dir.sizes EXCEPT ![f] = k] \in [StoreNames -> Nat]
    BY <1>1
  <2> QED
    BY <2>1 DEF ProfileDir
<1> QED
  BY <1>2, <1>3

(* A step of the browser is a Change of a profile directory to another one *)
(* that is there when the first is.                                        *)
LEMMA BrowserChanges ==
  ASSUME CaptureTypeOK, Browser
  PROVE  \E p \in Profiles, dir \in ProfileDir : Change(p, dir) /\ dir.there = dirs[p].there
<1>1. PICK p \in Busy :
        \/ \E n \in DocNames : \E d \in Rewrites[n] :
             Change(p, [dirs[p] EXCEPT !.docs[n] = d])
        \/ \E f \in StoreNames : \E k \in {0, 1} :
             Change(p, [dirs[p] EXCEPT !.sizes[f] = k])
  BY DEF Browser
<1>2. p \in Profiles /\ dirs[p] \in ProfileDir
  BY CaptureAssumption DEF CaptureTypeOK
<1>3. \A n \in DocNames : Rewrites[n] \subseteq Doc
  BY CaptureAssumption
<1>4. ASSUME NEW n \in DocNames, NEW d \in Rewrites[n],
             Change(p, [dirs[p] EXCEPT !.docs[n] = d])
      PROVE  \E dir \in ProfileDir : Change(p, dir) /\ dir.there = dirs[p].there
  <2> DEFINE dir == [dirs[p] EXCEPT !.docs[n] = d]
  <2>1. dir \in ProfileDir /\ dir.there = dirs[p].there
    BY <1>2, <1>3, <1>4, Replaced
  <2> HIDE DEF dir
  <2>2. Change(p, dir)
    BY <1>4 DEF dir
  <2> QED
    BY <2>1, <2>2
<1>5. ASSUME NEW f \in StoreNames, NEW k \in {0, 1},
             Change(p, [dirs[p] EXCEPT !.sizes[f] = k])
      PROVE  \E dir \in ProfileDir : Change(p, dir) /\ dir.there = dirs[p].there
  <2> DEFINE dir == [dirs[p] EXCEPT !.sizes[f] = k]
  <2>1. dir \in ProfileDir /\ dir.there = dirs[p].there
    BY <1>2, <1>5, Replaced
  <2> HIDE DEF dir
  <2>2. Change(p, dir)
    BY <1>5 DEF dir
  <2> QED
    BY <2>1, <2>2
<1> QED
  BY <1>1, <1>2, <1>4, <1>5

-----------------------------------------------------------------------------
(* What the readers do to `inst'.                                          *)
SameButExtensions(b) ==
  /\ inst' \in [Profiles -> Profile]
  /\ \A p \in Profiles : (p = prof /\ b) \/ inst'[p].extensions = inst[p].extensions

LEMMA DocumentEffect ==
  ASSUME CaptureTypeOK, ReadDocument
  PROVE  /\ SameButExtensions(Reader = "extensions")
         /\ Reader = "extensions" => inst'[prof].extensions = Ingest(inst[prof]).extensions
<1>1. prof \in Profiles /\ inst \in [Profiles -> Profile] /\ inst[prof] \in Profile
  BY Documents DEF ReadDocument, CaptureTypeOK
<1>2. Reader # "credentials" /\ Found.items \subseteq Items /\ Found.flag \in Flags /\ File \in DocNames
  BY Documents DEF ReadDocument
<1> DEFINE x == inst[prof]
           v == CASE Reader = "extensions" -> Ingest(x)
                  [] Reader = "security"   -> Scan(x)
                  [] Reader = "bookmarks"  -> [x EXCEPT !.bookmarks = Found.items]
                  [] OTHER                 -> [x EXCEPT !.network = {Found.items}]
<1>3. inst' = [inst EXCEPT ![prof] = v]
  BY DEF ReadDocument
<1>4. v \in Profile /\ (Reader = "extensions" \/ v.extensions = x.extensions)
  <2>1. CASE Reader = "extensions"
    <3>1. x.extensions \cup {<<e, File>> : e \in Found.items \ {e[1] : e \in x.extensions}}
            \in SUBSET (Items \X DocNames)
      <4>1. x.extensions \in SUBSET (Items \X DocNames)
        BY <1>1, Records
      <4>2. \A e \in Found.items : <<e, File>> \in Items \X DocNames
        BY <1>2
      <4> HIDE DEF x
      <4> QED
        BY <4>1, <4>2
    <3>2. Ingest(x) \in Profile
      BY <1>1, <3>1, Records DEF Ingest
    <3> QED
      BY <2>1, <3>2
  <2>2. CASE Reader = "security"
    <3>1. (IF Found.flag = "none" THEN x.security ELSE Found.flag) \in Flags
      BY <1>1, <1>2 DEF Profile
    <3>2. Scan(x) \in Profile /\ Scan(x).extensions = x.extensions
      BY <1>1, <3>1, Records DEF Scan
    <3> QED
      BY <2>2, <3>2
  <2>3. CASE Reader = "bookmarks"
    BY <1>1, <1>2, <2>3, Records
  <2>4. CASE Reader \notin {"extensions", "security", "bookmarks"}
    BY <1>1, <1>2, <2>4, Records
  <2> QED
    BY <2>1, <2>2, <2>3, <2>4
<1> HIDE DEF v
<1>5. SameButExtensions(Reader = "extensions")
  BY <1>1, <1>3, <1>4 DEF SameButExtensions
<1>6. Reader = "extensions" => v = Ingest(x)
  BY DEF v
<1> QED
  BY <1>1, <1>3, <1>5, <1>6

LEMMA StoreEffect ==
  ASSUME CaptureTypeOK, MeasureStore
  PROVE  SameButExtensions(FALSE)
<1>1. prof \in Profiles /\ inst \in [Profiles -> Profile] /\ inst[prof] \in Profile
  BY Documents DEF MeasureStore, CaptureTypeOK
<1>2. File \in StoreNames /\ dirs[prof].sizes[File] \in Nat
  BY Documents DEF MeasureStore
<1> DEFINE k == IF dirs[prof].sizes[File] = 0 THEN -1 ELSE dirs[prof].sizes[File]
           c == <<StoreOf[File], k>>
           v == [inst[prof] EXCEPT !.credentials = @ \cup {c}]
<1>3. c \in StoreNames \X Int
  <2>1. StoreOf[File] \in StoreNames
    BY <1>2 DEF StoreOf, StoreNames
  <2>2. k \in Int
    BY <1>2
  <2> QED
    BY <2>1, <2>2
<1>4. inst' = [inst EXCEPT ![prof] = v]
  BY <1>1 DEF MeasureStore
<1> HIDE DEF c
<1>5. v \in Profile /\ v.extensions = inst[prof].extensions
  BY <1>1, <1>3, Records
<1> QED
  BY <1>1, <1>4, <1>5 DEF SameButExtensions

LEMMA RestEffect ==
  ASSUME CaptureTypeOK, ReadRest, prof \in Profiles
  PROVE  SameButExtensions(FALSE) /\ inst'[prof].rest = TRUE
<1>1. inst \in [Profiles -> Profile] /\ inst[prof] \in Profile
  BY DEF CaptureTypeOK
<1> DEFINE v == [inst[prof] EXCEPT !.rest = TRUE]
<1>2. inst' = [inst EXCEPT ![prof] = v]
  BY DEF ReadRest
<1>3. v \in Profile /\ v.extensions = inst[prof].extensions /\ v.rest = TRUE
  BY <1>1, Records
<1> QED
  BY <1>1, <1>2, <1>3 DEF SameButExtensions

-----------------------------------------------------------------------------
(* The inductive invariant.  Where the loop is, ...                        *)
Place ==
  /\ pc = "rest" => prof \in Profiles /\ line = 11
  /\ pc = "done" /\ call.localState = "good" => prof > NProfiles

(* ... what the history says of the documents that are there, ...          *)
History ==
  \A p \in Profiles :
    /\ Odd(dirs[p]) => p \in odd
    /\ \A x \in Items : <<p, x>> \notin gone => x \in Kept(dirs[p])

(* The readers of profile p are past line n.                               *)
Past(p, n) == p < prof \/ (p = prof /\ pc \in {"look", "read", "rest"} /\ line > n)

HasExt(p, x) == \E e \in inst[p].extensions : e[1] = x

(* ... an extension that is not lost and was not in Preferences when that  *)
(* was read is not there now, so that Secure Preferences has it; ...       *)
AfterFirst ==
  \A p \in Profiles, x \in Items :
    dirs[p].there /\ Past(p, 1) /\ <<p, x>> \notin gone /\ ~HasExt(p, x)
      => x \notin Listed(dirs[p].docs["Preferences"])

(* ... after Secure Preferences it has been read, ...                      *)
AfterSecond ==
  \A p \in Profiles, x \in Items :
    dirs[p].there /\ Past(p, 2) /\ <<p, x>> \notin gone => HasExt(p, x)

(* ... and once.                                                           *)
Once == \A p \in Profiles : \A e, f \in inst[p].extensions : e[1] = f[1] => e = f

CaptureInv ==
  /\ CaptureTypeOK /\ Place /\ History /\ AfterFirst /\ AfterSecond /\ Once
  /\ ThrowsForAReason

-----------------------------------------------------------------------------
LEMMA InvInit == CaptureInit => CaptureInv
<1> SUFFICES ASSUME CaptureInit PROVE CaptureInv
  OBVIOUS
<1>1. PICK s \in Scenes : call = s[1] /\ dirs = s[2]
  BY DEF CaptureInit
<1>2. call \in Call /\ dirs \in [Profiles -> ProfileDir]
  BY <1>1, CaptureAssumption
<1>3. NoProfile \in Profile
  BY DEF NoProfile, Profile, Flags
<1>4. inst \in [Profiles -> Profile] /\ \A p \in Profiles : inst[p].extensions = {}
  BY <1>3 DEF CaptureInit, NoProfile
<1>5. rewrites \in 0 .. MaxRewrites /\ prof \in 1 .. NProfiles + 1 /\ line \in 1 .. Len(Readers) + 1
  <2>1. MaxRewrites \in Nat /\ NProfiles \in Nat
    BY CaptureAssumption
  <2>2. Len(Readers) + 1 = 11
    BY ReaderCount
  <2> QED
    BY <2>1, <2>2 DEF CaptureInit
<1>6. CaptureTypeOK
  BY <1>2, <1>4, <1>5 DEF CaptureInit, CaptureTypeOK
<1>7. \A p \in Profiles : ~Past(p, 1) /\ ~Past(p, 2)
  BY DEF CaptureInit, Past
<1>8. History
  BY DEF CaptureInit, History
<1> QED
  BY <1>4, <1>6, <1>7, <1>8
  DEF CaptureInit, CaptureInv, Place, AfterFirst, AfterSecond, Once, ThrowsForAReason

DiagSources == {"version", "preferences", "bookmarks"}
Places == {"start", "root", "profile", "look", "read", "rest", "done", "threw"}
Roots == {"none", "User Data", "Default", "Vendor", "elsewhere"}

(* CaptureTypeOK in numbers.                                               *)
LEMMA Typed ==
  ASSUME CaptureTypeOK
  PROVE  /\ NProfiles \in Nat /\ prof \in 1 .. NProfiles + 1
         /\ line \in 1 .. 11 /\ pc \in Places /\ userDataDir \in Roots
         /\ pc \in {"look", "read"} => prof \in 1 .. NProfiles /\ line \in 1 .. 10
         /\ inst \in [Profiles -> Profile] /\ diags \in Seq(DiagSources)
<1>1. NProfiles \in Nat
  BY CaptureAssumption
<1>2. Len(Readers) + 1 = 11 /\ DOMAIN Readers = 1 .. 10
  BY ReaderCount
<1>3. /\ prof \in 1 .. NProfiles + 1 /\ line \in 1 .. Len(Readers) + 1
      /\ pc \in {"look", "read"} => prof \in 1 .. NProfiles /\ line \in DOMAIN Readers
      /\ inst \in [Profiles -> Profile]
  BY DEF CaptureTypeOK
<1>4. pc \in Places /\ userDataDir \in Roots /\ diags \in Seq(DiagSources)
  BY DEF CaptureTypeOK, DiagSources, Places, Roots
<1> QED
  BY <1>1, <1>2, <1>3, <1>4

(* What a step of the capture owes its types.                              *)
LEMMA StepTyped ==
  ASSUME CaptureTypeOK, Unmoved,
         prof' \in 1 .. NProfiles + 1, line' \in 1 .. 11, pc' \in Places, userDataDir' \in Roots,
         pc' \in {"look", "read"} => prof' \in 1 .. NProfiles /\ line' \in 1 .. 10,
         inst' \in [Profiles -> Profile], diags' \in Seq(DiagSources)
  PROVE  CaptureTypeOK'
<1>1. Len(Readers) + 1 = 11 /\ DOMAIN Readers = 1 .. 10
  BY ReaderCount
<1>2. /\ call' \in Call /\ dirs' \in [Profiles -> ProfileDir] /\ rewrites' \in 0 .. MaxRewrites
      /\ quiet' \subseteq Profiles /\ gone' \subseteq Profiles \X Items /\ odd' \subseteq Profiles
  BY DEF CaptureTypeOK, Unmoved
<1>3. pc' \in Places /\ userDataDir' \in Roots /\ diags' \in Seq(DiagSources)
  OBVIOUS
<1>4. line' \in 1 .. Len(Readers) + 1
  BY <1>1
<1> QED
  BY <1>1, <1>2, <1>3, <1>4 DEF CaptureTypeOK, Places, Roots, DiagSources

LEMMA DiagnoseTyped ==
  ASSUME NEW d \in DiagSources, NEW next, diags \in Seq(DiagSources), Diagnose(d, next)
  PROVE  /\ diags' \in Seq(DiagSources) /\ diags' # <<>>
         /\ pc' = next \/ (pc' = "threw" /\ call.callback = "throws")
<1>1. Append(diags, d) \in Seq(DiagSources) /\ Append(diags, d) # <<>>
  BY AppendProperties
<1> QED
  BY <1>1 DEF Diagnose

(* The types and the place, one action at a time.                          *)
LEMMA TypeStep == CaptureInv /\ [CaptureNext]_captureVars => CaptureTypeOK' /\ Place'
<1> SUFFICES ASSUME CaptureTypeOK, Place, [CaptureNext]_captureVars
             PROVE  CaptureTypeOK' /\ Place'
  BY DEF CaptureInv
<1>1. CASE Resolve
  <2>1. userDataDir' \in Roots
    BY <1>1 DEF Resolve, ResolveUserDataRoot, PathOf, ParentPath, Roots
  <2>2. diags' \in Seq(DiagSources) /\ pc' \in {"root", "threw"}
    BY <1>1, DiagnoseTyped, Typed DEF Resolve, DiagSources
  <2> QED
    BY <1>1, <2>1, <2>2, Typed, StepTyped DEF Resolve, Places, Place
<1>2. CASE ReadLocalState
  <2>1. pc' \in {"threw", "done", "profile"} /\ (pc' = "done" => call.localState # "good")
    BY <1>2 DEF ReadLocalState
  <2>2. Place'
    BY <1>2, <2>1 DEF Place, ReadLocalState, Unmoved
  <2> QED
    BY <1>2, <2>1, <2>2, Typed, StepTyped DEF ReadLocalState, Places
<1>3. CASE NextProfile
  <2>1. CASE prof > NProfiles /\ pc' = "done" /\ UNCHANGED <<prof, line>>
    BY <1>3, <2>1, Typed, StepTyped DEF NextProfile, Places, Place
  <2>2. CASE prof <= NProfiles /\ prof' = prof + 1 /\ UNCHANGED <<pc, line>>
    BY <1>3, <2>2, Typed, StepTyped DEF NextProfile, Places, Place
  <2>3. CASE prof <= NProfiles /\ pc' = "look" /\ line' = 1 /\ UNCHANGED prof
    BY <1>3, <2>3, Typed, StepTyped DEF NextProfile, Places, Place
  <2> QED
    BY <1>3, <2>1, <2>2, <2>3 DEF NextProfile
<1>4. ASSUME NEW n \in {1, 2}, pc \in {"look", "read"}, n = 2 => File = "Network/Cookies",
             line' = line + n, pc' = After(n) \/ pc' = "threw",
             UNCHANGED <<userDataDir, prof>>, Unmoved, inst' \in [Profiles -> Profile],
             diags' \in Seq(DiagSources)
      PROVE  CaptureTypeOK' /\ Place'
  <2>1. line + n \in 1 .. 11 /\ (After(n) = "look" => line + n \in 1 .. 10)
          /\ After(n) \in {"look", "rest"}
    BY <1>4, Forward, ReaderCount
  <2>2. After(n) = "rest" => line + n = 11
    BY <2>1, ReaderCount DEF After
  <2>3. prof \in 1 .. NProfiles /\ userDataDir \in Roots
    BY <1>4, Typed
  <2>4. CaptureTypeOK'
    BY <1>4, <2>1, <2>3, Typed, StepTyped DEF Places
  <2> QED
    BY <1>4, <2>1, <2>2, <2>3, <2>4 DEF Place
<1>5. CASE Look
  <2>1. CASE Exists
    BY <1>5, <2>1, Typed, StepTyped DEF Look, Places, Place
  <2>2. CASE ~Exists
    BY <1>4, <1>5, <2>2, Typed DEF Look, Advance
  <2> QED
    BY <2>1, <2>2
<1>6. CASE ReadUnparsed
  <2>1. diags' \in Seq(DiagSources) /\ (pc' = After(1) \/ pc' = "threw")
    BY <1>6, DiagnoseTyped, Typed DEF ReadUnparsed, DiagSources
  <2> QED
    BY <1>4, <1>6, <2>1, Typed DEF ReadUnparsed
<1>7. CASE ReadOdd
  BY <1>7, Typed, StepTyped DEF ReadOdd, Places, Place
<1>8. CASE ReadDocument
  BY <1>4, <1>8, DocumentEffect, Typed DEF ReadDocument, Advance, SameButExtensions
<1>9. CASE MeasureStore
  <2> DEFINE n == IF File = "Network/Cookies" THEN 2 ELSE 1
  <2>1. n \in {1, 2} /\ line' = line + n /\ pc' = After(n) /\ (n = 2 => File = "Network/Cookies")
    BY <1>9 DEF MeasureStore, Advance
  <2> HIDE DEF n
  <2> QED
    BY <1>4, <1>9, <2>1, StoreEffect, Typed DEF MeasureStore, SameButExtensions
<1>10. CASE ReadRest
  <2>1. prof \in Profiles
    BY <1>10 DEF ReadRest, Place
  <2>2. inst' \in [Profiles -> Profile]
    BY <1>10, <2>1, RestEffect DEF SameButExtensions
  <2>3. prof' \in 1 .. NProfiles + 1 /\ pc' \in {"profile", "threw"}
    BY <1>10, <2>1, Typed DEF ReadRest
  <2> QED
    BY <1>10, <2>2, <2>3, Typed, StepTyped DEF ReadRest, Places, Place
<1>11. CASE Browser
  <2>1. PICK p \in Profiles, dir \in ProfileDir : Change(p, dir)
    BY <1>11, BrowserChanges
  <2>2. dirs' \in [Profiles -> ProfileDir] /\ quiet' \subseteq Profiles /\ odd' \subseteq Profiles
    BY <2>1 DEF Change, CaptureTypeOK
  <2>3. gone' \subseteq Profiles \X Items
    <3>1. Listed(dir.docs["Preferences"]) \subseteq Items
      BY DEF Listed, ProfileDir, Doc, DocNames
    <3>2. gone \subseteq Profiles \X Items
      BY DEF CaptureTypeOK
    <3> QED
      BY <2>1, <3>1, <3>2 DEF Change
  <2>4. rewrites' \in 0 .. MaxRewrites
    <3>1. rewrites \in 0 .. MaxRewrites /\ MaxRewrites \in Nat
      BY CaptureAssumption DEF CaptureTypeOK
    <3> QED
      BY SMTT(30), <1>11, <2>1, <3>1 DEF Browser, Change
  <2>5. UNCHANGED <<call, pc, userDataDir, prof, line, inst, diags>>
    BY <1>11 DEF Browser
  <2> QED
    BY <2>2, <2>3, <2>4, <2>5 DEF CaptureTypeOK, Place
<1>12. CASE UNCHANGED captureVars
  BY <1>12 DEF captureVars, CaptureTypeOK, Place
<1> QED
  BY <1>1, <1>2, <1>3, <1>5, <1>6, <1>7, <1>8, <1>9, <1>10, <1>11, <1>12
  DEF CaptureNext, CaptureStep

-----------------------------------------------------------------------------
(* History: what is there and what was lost are told apart by Change.      *)
LEMMA HistoryStep == CaptureInv /\ [CaptureNext]_captureVars => History'
<1> SUFFICES ASSUME CaptureTypeOK, History, [CaptureNext]_captureVars
             PROVE  History'
  BY DEF CaptureInv
<1>1. CASE Browser
  <2>1. PICK q \in Profiles, dir \in ProfileDir : Change(q, dir)
    BY <1>1, BrowserChanges
  <2>2. dirs' = [dirs EXCEPT ![q] = dir] /\ dirs \in [Profiles -> ProfileDir]
    BY <2>1 DEF Change, CaptureTypeOK
  <2>3. ASSUME NEW p \in Profiles
        PROVE  Odd(dirs'[p]) => p \in odd'
    BY <2>1, <2>2 DEF Change, History
  <2>4. ASSUME NEW p \in Profiles, NEW x \in Items, <<p, x>> \notin gone'
        PROVE  x \in Kept(dirs'[p])
    <3>1. CASE p # q
      BY <2>1, <2>2, <2>4, <3>1 DEF Change, History
    <3>2. CASE p = q
      <4>1. dirs'[p] = dir
        BY <2>2, <3>2
      <4>2. x \notin Items \ Kept(dir)
        BY <2>1, <2>4, <3>2 DEF Change
      <4> QED
        BY <4>1, <4>2
    <3> QED
      BY <3>1, <3>2
  <2> QED
    BY <2>3, <2>4 DEF History
<1>2. CASE UNCHANGED <<dirs, gone, odd>>
  BY <1>2 DEF History
<1>3. CaptureStep \/ UNCHANGED captureVars => UNCHANGED <<dirs, gone, odd>>
  BY DEF CaptureStep, Resolve, ReadLocalState, NextProfile, Look, ReadUnparsed, ReadOdd,
         ReadDocument, MeasureStore, ReadRest, Unmoved, captureVars
<1> QED
  BY <1>1, <1>2, <1>3 DEF CaptureNext

(* Ingest adds the extensions that were not there.                         *)
LEMMA Ingested ==
  ASSUME CaptureTypeOK, ReadDocument, Reader = "extensions"
  PROVE  inst'[prof].extensions = inst[prof].extensions \cup
           {<<e, File>> : e \in Found.items \ {e[1] : e \in inst[prof].extensions}}
<1>1. inst[prof] \in Profile
  BY Typed DEF ReadDocument
<1>2. inst[prof].extensions \cup
        {<<e, File>> : e \in Found.items \ {e[1] : e \in inst[prof].extensions}}
          \in SUBSET (Items \X DocNames)
  <2>1. inst[prof].extensions \in SUBSET (Items \X DocNames)
    BY <1>1, Records
  <2>2. Found.items \subseteq Items /\ File \in DocNames
    BY Documents DEF ReadDocument
  <2>3. \A e \in Found.items : <<e, File>> \in Items \X DocNames
    BY <2>2
  <2> QED
    BY <2>1, <2>3
<1>3. Ingest(inst[prof]).extensions = inst[prof].extensions \cup
        {<<e, File>> : e \in Found.items \ {e[1] : e \in inst[prof].extensions}}
  BY <1>1, <1>2, Records DEF Ingest
<1> QED
  BY <1>3, DocumentEffect

(* What a step does to the extensions: nothing, or Ingest.                 *)
LEMMA ExtensionsStep ==
  ASSUME CaptureInv, [CaptureNext]_captureVars
  PROVE  \/ \A p \in Profiles : inst'[p].extensions = inst[p].extensions
         \/ /\ ReadDocument /\ Reader = "extensions"
            /\ \A p \in Profiles \ {prof} : inst'[p].extensions = inst[p].extensions
            /\ inst'[prof].extensions = inst[prof].extensions \cup
                 {<<e, File>> : e \in Found.items \ {e[1] : e \in inst[prof].extensions}}
<1> USE DEF CaptureInv
<1>1. CASE ReadDocument
  <2>1. CASE Reader # "extensions"
    BY <1>1, <2>1, DocumentEffect DEF SameButExtensions
  <2>2. CASE Reader = "extensions"
    BY <1>1, <2>2, Ingested, DocumentEffect DEF SameButExtensions
  <2> QED
    BY <2>1, <2>2
<1>2. CASE MeasureStore
  BY <1>2, StoreEffect DEF SameButExtensions
<1>3. CASE ReadRest
  BY <1>3, RestEffect DEF SameButExtensions, ReadRest, Place
<1>4. CASE UNCHANGED inst
  BY <1>4
<1>5. Resolve \/ ReadLocalState \/ NextProfile \/ Look \/ ReadUnparsed \/ ReadOdd \/ Browser
        \/ UNCHANGED captureVars => UNCHANGED inst
  BY DEF Resolve, ReadLocalState, NextProfile, Look, ReadUnparsed, ReadOdd, Browser, captureVars
<1> QED
  BY <1>1, <1>2, <1>3, <1>4, <1>5 DEF CaptureNext, CaptureStep

LEMMA ExtensionsStay ==
  ASSUME CaptureInv, [CaptureNext]_captureVars, NEW p \in Profiles, NEW x, HasExt(p, x)
  PROVE  HasExt(p, x)'
BY ExtensionsStep DEF HasExt

(* Once: an extension of the second file is passed by when the first had it. *)
LEMMA OnceStep == CaptureInv /\ [CaptureNext]_captureVars => Once'
<1> SUFFICES ASSUME CaptureInv, [CaptureNext]_captureVars,
                    NEW p \in Profiles, NEW e \in inst'[p].extensions,
                    NEW f \in inst'[p].extensions, e[1] = f[1]
             PROVE  e = f
  BY DEF Once
<1>1. CASE inst'[p].extensions = inst[p].extensions
  BY <1>1 DEF CaptureInv, Once
<1>2. CASE inst'[p].extensions = inst[p].extensions \cup
             {<<x, File>> : x \in Found.items \ {g[1] : g \in inst[p].extensions}}
  <2> DEFINE new == {<<x, File>> : x \in Found.items \ {g[1] : g \in inst[p].extensions}}
  <2>1. \A g \in new : /\ g = <<g[1], File>>
                       /\ \A h \in inst[p].extensions : h[1] # g[1]
    OBVIOUS
  <2>2. \A g, h \in inst[p].extensions : g[1] = h[1] => g = h
    BY DEF CaptureInv, Once
  <2> QED
    BY <1>2, <2>1, <2>2
<1> QED
  BY <1>1, <1>2, ExtensionsStep

-----------------------------------------------------------------------------
(* How the loop gets past one of the two files.                            *)
LEMMA PastStep ==
  ASSUME CaptureInv, [CaptureNext]_captureVars, NEW p \in Profiles, NEW n \in {1, 2}, Past(p, n)'
  PROVE  \/ Past(p, n)
         \/ ~dirs[p].there
         \/ /\ p = prof /\ line = n /\ pc \in {"look", "read"}
            /\ (Look /\ ~Exists) \/ ReadUnparsed \/ ReadDocument
<1> USE DEF CaptureInv, Past
<1>0. /\ prof \in Int /\ line \in Int /\ p \in Int /\ NProfiles \in Nat
      /\ pc \in {"look", "read"} => line \in 1 .. 10
  BY Typed
<1>1. CASE UNCHANGED prof /\ pc' \notin {"look", "read", "rest"}
  BY <1>1
<1>2. CASE NextProfile
  <2>1. CASE ~dirs[prof].there
    BY <1>0, <1>2, <2>1 DEF NextProfile
  <2>2. CASE UNCHANGED prof /\ (pc' = "done" \/ line' = 1)
    BY <1>2, <2>2
  <2> QED
    BY <1>2, <2>1, <2>2 DEF NextProfile
<1>3. CASE UNCHANGED prof /\ line' = line + 1 /\ pc \in {"look", "read"}
           /\ ((Look /\ ~Exists) \/ ReadUnparsed \/ ReadDocument)
  BY <1>0, <1>3
<1>4. CASE UNCHANGED <<prof, line>> /\ (pc \in {"look", "read"} \/ UNCHANGED pc)
  BY <1>4
<1>5. CASE MeasureStore
  <2>1. UNCHANGED prof /\ pc = "read" /\ Reader = "credentials"
    BY <1>5 DEF MeasureStore
  <2>2. line \notin {1, 2}
    BY <1>0, <2>1, ReaderTable DEF Reader
  <2>3. line' = line + 1 \/ line' = line + 2
    BY <1>5 DEF MeasureStore, Advance
  <2> QED
    BY <1>0, <2>1, <2>2, <2>3
<1>6. CASE ReadRest
  <2>1. pc = "rest" /\ line = 11
    BY <1>6 DEF ReadRest, Place
  <2>2. \/ prof' = prof + 1 /\ pc' = "profile"
        \/ UNCHANGED prof /\ pc' = "threw"
    BY <1>6 DEF ReadRest
  <2> QED
    BY <1>0, <2>1, <2>2
<1>7. Look => \/ UNCHANGED <<prof, line>> /\ pc = "look"
              \/ UNCHANGED prof /\ line' = line + 1 /\ pc = "look" /\ ~Exists
  BY DEF Look, Advance
<1>8. ReadUnparsed \/ ReadDocument => UNCHANGED prof /\ line' = line + 1 /\ pc = "read"
  BY DEF ReadUnparsed, ReadDocument, Advance
<1>9. Resolve \/ ReadLocalState \/ ReadOdd => UNCHANGED prof /\ pc' \notin {"look", "read", "rest"}
  BY DEF Resolve, ReadLocalState, ReadOdd, Diagnose
<1>10. Browser \/ UNCHANGED captureVars => UNCHANGED <<prof, line, pc>>
  BY DEF Browser, captureVars
<1> QED
  BY <1>1, <1>2, <1>3, <1>4, <1>5, <1>6, <1>7, <1>8, <1>9, <1>10 DEF CaptureNext, CaptureStep

(* At that moment an extension that the file has is read, or was before.   *)
LEMMA FileRead ==
  ASSUME CaptureInv, [CaptureNext]_captureVars, line \in {1, 2}, pc \in {"look", "read"},
         (Look /\ ~Exists) \/ ReadUnparsed \/ ReadDocument,
         NEW x \in Listed(Found)
  PROVE  HasExt(prof, x)'
<1> USE DEF CaptureInv
<1>1. Reader = "extensions" /\ prof \in Profiles
  BY ReaderTable, Typed DEF Reader
<1>2. Found.form = "good" /\ x \in Found.items
  BY DEF Listed
<1>3. ~(Look /\ ~Exists) /\ ~ReadUnparsed
  BY <1>1, <1>2 DEF Look, Exists, ReadUnparsed, Unparsed
<1>4. ReadDocument
  BY <1>3
<1>5. UNCHANGED prof
  BY <1>4 DEF ReadDocument
<1>6. CASE x \in {e[1] : e \in inst[prof].extensions}
  <2>1. PICK e \in inst[prof].extensions : x = e[1]
    BY <1>6
  <2>2. e \in inst'[prof].extensions
    BY <1>1, <1>4, Ingested
  <2> QED
    BY <1>5, <2>1, <2>2 DEF HasExt
<1>7. CASE x \notin {e[1] : e \in inst[prof].extensions}
  <2>1. <<x, File>> \in inst'[prof].extensions
    BY <1>1, <1>2, <1>4, <1>7, Ingested
  <2> QED
    BY <1>5, <2>1 DEF HasExt
<1> QED
  BY <1>6, <1>7

-----------------------------------------------------------------------------
(* The first file has been read: what was not in it comes not back.        *)
LEMMA FirstStep == CaptureInv /\ [CaptureNext]_captureVars => AfterFirst'
<1> USE DEF CaptureInv
<1> SUFFICES ASSUME CaptureInv, [CaptureNext]_captureVars,
                    NEW p \in Profiles, NEW x \in Items,
                    dirs'[p].there, Past(p, 1)', <<p, x>> \notin gone', ~HasExt(p, x)'
             PROVE  x \notin Listed(dirs'[p].docs["Preferences"])
  BY DEF AfterFirst
<1>1. ~HasExt(p, x)
  BY ExtensionsStay
<1>2. CASE Browser
  <2>1. PICK q \in Profiles, dir \in ProfileDir : Change(q, dir) /\ dir.there = dirs[q].there
    BY <1>2, BrowserChanges
  <2>2. dirs' = [dirs EXCEPT ![q] = dir] /\ <<p, x>> \notin gone
    BY <2>1 DEF Change
  <2>3. Past(p, 1)
    BY <1>2 DEF Browser, Past
  <2>4. dirs \in [Profiles -> ProfileDir]
    BY DEF CaptureTypeOK
  <2>5. CASE p # q
    BY <1>1, <2>2, <2>3, <2>4, <2>5 DEF AfterFirst
  <2>6. CASE p = q
    <3>1. dirs'[p] = dir /\ dirs[p].there
      BY <2>1, <2>2, <2>4, <2>6
    <3>2. x \notin Listed(dirs[p].docs["Preferences"])
      BY <1>1, <2>2, <2>3, <3>1 DEF AfterFirst
    <3>3. x \notin Listed(dir.docs["Preferences"]) \ Listed(dirs[p].docs["Preferences"])
      BY <2>1, <2>6 DEF Change
    <3> QED
      BY <3>1, <3>2, <3>3
  <2> QED
    BY <2>5, <2>6
<1>3. CASE UNCHANGED <<dirs, gone>>
  <2>1. CASE Past(p, 1)
    BY <1>1, <1>3, <2>1 DEF AfterFirst
  <2>2. CASE /\ p = prof /\ line = 1 /\ pc \in {"look", "read"}
             /\ (Look /\ ~Exists) \/ ReadUnparsed \/ ReadDocument
    <3>1. Found = dirs[p].docs["Preferences"]
      BY <2>2, ReaderTable DEF Found, File
    <3>2. UNCHANGED prof
      BY <2>2 DEF Look, ReadUnparsed, ReadDocument
    <3>3. x \in Listed(Found) => HasExt(prof, x)'
      BY <2>2, FileRead
    <3> QED
      BY <1>3, <2>2, <3>1, <3>2, <3>3 DEF HasExt
  <2> QED
    BY <1>3, <2>1, <2>2, PastStep
<1>4. CaptureStep \/ UNCHANGED captureVars => UNCHANGED <<dirs, gone>>
  BY DEF CaptureStep, Resolve, ReadLocalState, NextProfile, Look, ReadUnparsed, ReadOdd,
         ReadDocument, MeasureStore, ReadRest, Unmoved, captureVars
<1> QED
  BY <1>2, <1>3, <1>4 DEF CaptureNext

(* The second file has been read: it had what the first did not have.      *)
LEMMA SecondStep == CaptureInv /\ [CaptureNext]_captureVars => AfterSecond'
<1> USE DEF CaptureInv
<1> SUFFICES ASSUME CaptureInv, [CaptureNext]_captureVars,
                    NEW p \in Profiles, NEW x \in Items,
                    dirs'[p].there, Past(p, 2)', <<p, x>> \notin gone'
             PROVE  HasExt(p, x)'
  BY DEF AfterSecond
<1>1. CASE Browser
  <2>1. PICK q \in Profiles, dir \in ProfileDir : Change(q, dir) /\ dir.there = dirs[q].there
    BY <1>1, BrowserChanges
  <2>2. dirs[p].there /\ <<p, x>> \notin gone
    BY <2>1 DEF Change, CaptureTypeOK
  <2>3. Past(p, 2)
    BY <1>1 DEF Browser, Past
  <2> QED
    BY <2>2, <2>3, ExtensionsStay DEF AfterSecond
<1>2. CASE UNCHANGED <<dirs, gone>>
  <2>1. CASE Past(p, 2)
    BY <1>2, <2>1, ExtensionsStay DEF AfterSecond
  <2>2. CASE /\ p = prof /\ line = 2 /\ pc \in {"look", "read"}
             /\ (Look /\ ~Exists) \/ ReadUnparsed \/ ReadDocument
    <3>1. Found = dirs[p].docs["Secure Preferences"]
      BY <2>2, ReaderTable DEF Found, File
    <3>2. UNCHANGED prof
      BY <2>2 DEF Look, ReadUnparsed, ReadDocument
    <3>3. CASE HasExt(p, x)
      BY <3>3, ExtensionsStay
    <3>4. CASE ~HasExt(p, x)
      <4>1. Past(p, 1)
        BY <2>2 DEF Past
      <4>2. x \notin Listed(dirs[p].docs["Preferences"])
        BY <1>2, <3>4, <4>1 DEF AfterFirst
      <4>3. x \in Listed(Found)
        BY <1>2, <3>1, <4>2 DEF History, Kept
      <4>4. HasExt(prof, x)'
        BY <2>2, <4>3, FileRead
      <4> QED
        BY <2>2, <3>2, <4>4 DEF HasExt
    <3> QED
      BY <3>3, <3>4
  <2> QED
    BY <1>2, <2>1, <2>2, PastStep
<1>3. CaptureStep \/ UNCHANGED captureVars => UNCHANGED <<dirs, gone>>
  BY DEF CaptureStep, Resolve, ReadLocalState, NextProfile, Look, ReadUnparsed, ReadOdd,
         ReadDocument, MeasureStore, ReadRest, Unmoved, captureVars
<1> QED
  BY <1>1, <1>2, <1>3 DEF CaptureNext

-----------------------------------------------------------------------------
(* What throws: Local State, the callback, an ill-typed value, the other   *)
(* readers.                                                                *)
LEMMA ThrowStep == CaptureInv /\ [CaptureNext]_captureVars => ThrowsForAReason'
<1> USE DEF CaptureInv
<1> SUFFICES ASSUME CaptureInv, [CaptureNext]_captureVars
             PROVE  ThrowsForAReason'
  OBVIOUS
<1>1. CASE Resolve
  <2>1. pc' # "threw" \/ (call.callback = "throws" /\ diags' # <<>>)
    <3>1. CASE Diagnose("version", "root")
      BY <3>1, Typed, DiagnoseTyped DEF DiagSources
    <3>2. CASE pc' = "root"
      BY <3>2
    <3> QED
      BY <1>1, <3>1, <3>2 DEF Resolve
  <2> QED
    BY <1>1, <2>1 DEF Resolve, ThrowsForAReason, Unmoved
<1>2. CASE ReadLocalState
  BY <1>2 DEF ReadLocalState, ThrowsForAReason, Unmoved, HasLocalState
<1>3. CASE NextProfile \/ Look \/ ReadDocument \/ MeasureStore
  <2>1. pc' # "threw"
    BY <1>3 DEF NextProfile, Look, ReadDocument, MeasureStore, Advance, After
  <2> QED
    BY <2>1 DEF ThrowsForAReason
<1>4. CASE ReadUnparsed
  <2>1. pc' = "threw" => Diagnose(IF Reader = "extensions" THEN "preferences" ELSE Reader, After(1))
    BY <1>4 DEF ReadUnparsed, After
  <2>2. pc' = "threw" => Reader \in {"extensions", "bookmarks"}
    BY <1>4 DEF ReadUnparsed, After
  <2>3. pc' = "threw" => call.callback = "throws" /\ diags' # <<>>
    BY <2>1, <2>2, Typed, DiagnoseTyped DEF DiagSources, Diagnose, After
  <2> QED
    BY <1>4, <2>3 DEF ReadUnparsed, ThrowsForAReason, Unmoved
<1>5. CASE ReadOdd
  <2>1. prof \in Profiles /\ File \in DocNames /\ Found = dirs[prof].docs[File]
    BY <1>5, Documents DEF ReadOdd
  <2>2. Odd(dirs[prof])
    BY <1>5, <2>1 DEF ReadOdd, Odd, IllTyped
  <2>3. prof' \in odd'
    BY <1>5, <2>1, <2>2 DEF ReadOdd, History, Unmoved
  <2> QED
    BY <2>3 DEF ThrowsForAReason
<1>6. CASE ReadRest
  <2>1. inst'[prof].rest = TRUE
    BY <1>6, RestEffect DEF ReadRest, Place
  <2>2. pc' = "threw" => UNCHANGED prof /\ RestMayThrow
    BY <1>6 DEF ReadRest
  <2> QED
    BY <2>1, <2>2 DEF ThrowsForAReason
<1>7. CASE Browser
  BY <1>7 DEF Browser, ThrowsForAReason
<1>8. CASE UNCHANGED captureVars
  BY <1>8 DEF captureVars, ThrowsForAReason, HasLocalState
<1> QED
  BY <1>1, <1>2, <1>3, <1>4, <1>5, <1>6, <1>7, <1>8 DEF CaptureNext, CaptureStep

LEMMA InvStep == CaptureInv /\ [CaptureNext]_captureVars => CaptureInv'
BY TypeStep, HistoryStep, FirstStep, SecondStep, OnceStep, ThrowStep DEF CaptureInv

-----------------------------------------------------------------------------
(* CaptureTypeOK, among the rest that the loops stay within their tables.  *)
THEOREM CaptureTypes == CaptureSpec => []CaptureTypeOK
<1>1. CaptureInv => CaptureTypeOK
  BY DEF CaptureInv
<1> QED
  BY <1>1, InvInit, InvStep, PTL DEF CaptureSpec

(* ThrowsForAReason: no document that is torn, vanishes or is missing ends *)
(* a capture.                                                              *)
THEOREM ThrowsOnlyForAReason == CaptureSpec => []ThrowsForAReason
<1>1. CaptureInv => ThrowsForAReason
  BY DEF CaptureInv
<1> QED
  BY <1>1, InvInit, InvStep, PTL DEF CaptureSpec

(* MovedExtensionIsKept: the order of the two reads loses no extension the *)
(* browser moves, and the check for doubles lets none in twice.            *)
THEOREM MovedExtensionsAreKept == CaptureSpec => []MovedExtensionIsKept
<1>1. CaptureInv => MovedExtensionIsKept
  <2> SUFFICES ASSUME CaptureInv, NEW p \in Captured, NEW x \in Items
               PROVE  LET found == {e \in inst[p].extensions : e[1] = x}
                      IN  Cardinality(found) <= 1 /\ (<<p, x>> \notin gone => found # {})
    BY DEF MovedExtensionIsKept
  <2> DEFINE found == {e \in inst[p].extensions : e[1] = x}
  <2>1. p \in Profiles /\ dirs[p].there /\ pc = "done" /\ call.localState = "good"
    BY DEF Captured
  <2>2. Cardinality(found) <= 1
    <3>1. \A e, f \in found : e = f
      BY <2>1 DEF CaptureInv, Once
    <3>2. CASE found = {}
      BY <3>2, FS_EmptySet
    <3>3. ASSUME NEW e \in found
          PROVE  Cardinality(found) <= 1
      <4>1. found = {e}
        BY <3>1, <3>3
      <4>2. Cardinality({e}) = 1
        BY FS_Singleton
      <4> HIDE DEF found
      <4> QED
        BY <4>1, <4>2
    <3> QED
      BY <3>2, <3>3
  <2>3. Past(p, 2)
    <3>1. prof > NProfiles
      BY <2>1 DEF CaptureInv, Place
    <3>2. NProfiles \in Nat /\ prof \in 1 .. NProfiles + 1
      BY Typed DEF CaptureInv
    <3> QED
      BY <2>1, <3>1, <3>2 DEF Past
  <2>4. <<p, x>> \notin gone => found # {}
    BY <2>1, <2>3 DEF CaptureInv, AfterSecond, HasExt
  <2> QED
    BY <2>2, <2>4
<1> QED
  BY <1>1, InvInit, InvStep, PTL DEF CaptureSpec
-----------------------------------------------------------------------------
(* The root that was resolved stays.                                       *)
Resolved == pc = "start" \/ userDataDir = ResolveUserDataRoot(call.input)

LEMMA ResolvedStep ==
  ASSUME CaptureTypeOK, Resolved, [CaptureNext]_captureVars
  PROVE  Resolved'
<1>1. CASE Resolve
  <2>1. userDataDir' = ResolveUserDataRoot(call.input) /\ call' = call
    BY <1>1 DEF Resolve, Unmoved
  <2> QED
    BY <2>1 DEF Resolved, ResolveUserDataRoot, HasLocalState
<1>2. CASE UNCHANGED <<call, userDataDir>> /\ (pc = "start" => pc' = "start")
  BY <1>2 DEF Resolved, ResolveUserDataRoot, HasLocalState
<1>3. ReadLocalState \/ NextProfile \/ Look \/ ReadUnparsed \/ ReadOdd \/ ReadDocument
        \/ MeasureStore \/ ReadRest => UNCHANGED <<call, userDataDir>> /\ pc # "start"
  BY DEF ReadLocalState, NextProfile, Look, ReadUnparsed, ReadOdd, ReadDocument,
         MeasureStore, ReadRest, Unmoved
<1>4. Browser \/ UNCHANGED captureVars => UNCHANGED <<call, userDataDir, pc>>
  BY DEF Browser, captureVars
<1> QED
  BY <1>1, <1>2, <1>3, <1>4 DEF CaptureNext, CaptureStep

(* RootIsFound: of the paths the comment of ResolveUserDataRoot lists, one *)
(* of the four candidates is the directory of Local State.                 *)
THEOREM RootsAreFound == CaptureSpec => []RootIsFound
<1>1. CaptureInit => Resolved
  BY DEF CaptureInit, Resolved
<1>2. CaptureTypeOK /\ Resolved => RootIsFound
  <2> SUFFICES ASSUME CaptureTypeOK, Resolved, pc # "start", call.localState # "absent",
                      call.input \notin {"profile/", "elsewhere"}
               PROVE  userDataDir = "User Data"
    BY DEF RootIsFound
  <2>1. call.input \in {"root", "profile", "browser", "file"}
    BY DEF CaptureTypeOK, Call
  <2>2. HasLocalState("User Data") /\ ~HasLocalState("Default") /\ ~HasLocalState("Vendor")
    BY DEF HasLocalState
  <2>3. userDataDir = ResolveUserDataRoot(call.input)
    BY DEF Resolved
  <2>4. CASE call.input = "root"
    <3>1. PathOf("root") = "User Data" /\ ParentPath("root") = "User Data"
      BY DEF PathOf, ParentPath
    <3> QED
      BY <2>2, <2>3, <2>4, <3>1 DEF ResolveUserDataRoot
  <2>5. CASE call.input = "profile"
    <3>1. PathOf("profile") = "Default" /\ ParentPath("profile") = "User Data"
      BY DEF PathOf, ParentPath
    <3> QED
      BY <2>2, <2>3, <2>5, <3>1 DEF ResolveUserDataRoot
  <2>6. CASE call.input = "browser"
    <3>1. PathOf("browser") = "Vendor" /\ ParentPath("browser") = "Vendor"
      BY DEF PathOf, ParentPath
    <3> QED
      BY <2>2, <2>3, <2>6, <3>1 DEF ResolveUserDataRoot
  <2>7. CASE call.input = "file"
    <3>1. PathOf("file") = "elsewhere" /\ ParentPath("file") = "User Data"
          /\ ~HasLocalState("elsewhere")
      BY DEF PathOf, ParentPath, HasLocalState
    <3> QED
      BY <2>2, <2>3, <2>7, <3>1 DEF ResolveUserDataRoot
  <2> QED
    BY <2>1, <2>4, <2>5, <2>6, <2>7
<1>3. CaptureTypeOK /\ CaptureTypeOK' /\ Resolved /\ [CaptureNext]_captureVars => Resolved'
  BY ResolvedStep
<1> QED
  BY <1>1, <1>2, <1>3, CaptureTypes, PTL DEF CaptureSpec

-----------------------------------------------------------------------------
(* What the first n - 1 lines of Readers have of a directory.              *)
Parses(d) == d.form = "good"

CookieFile(dir) == IF dir.sizes[FileAt(8)] # 0 THEN FileAt(8) ELSE FileAt(9)

From(xs, f) == {<<x, f>> : x \in xs}

ExtensionsTo(dir, n) ==
  LET P == dir.docs[FileAt(1)]
      S == dir.docs[FileAt(2)]
  IN  (IF n > 1 THEN From(Listed(P), FileAt(1)) ELSE {})
      \cup (IF n > 2 THEN From(Listed(S) \ Listed(P), FileAt(2)) ELSE {})

SecurityTo(dir, n) ==
  LET P == dir.docs[FileAt(1)]
      S == dir.docs[FileAt(2)]
  IN  IF n > 4 /\ Parses(S) /\ S.flag # "none" THEN S.flag
      ELSE IF n > 3 /\ Parses(P) THEN P.flag ELSE "none"

BookmarksTo(dir, n) == IF n > 5 THEN Listed(dir.docs[FileAt(5)]) ELSE {}

NetworkTo(dir, n) ==
  LET N == dir.docs[FileAt(6)]
  IN  IF n > 6 /\ N.form = "good" THEN {N.items} ELSE {}

StoresTo(dir, n) ==
  (IF n > 7 THEN {FileAt(7)} ELSE {})
  \cup (IF n > 9 THEN {CookieFile(dir)} ELSE {})
  \cup (IF n > 10 THEN {FileAt(10)} ELSE {})

CredentialsTo(dir, n) ==
  {<<StoreOf[f], dir.sizes[f]>> : f \in {g \in StoresTo(dir, n) : dir.sizes[g] # 0}}

ReadOf(e, s, b, n, c, z) ==
  [extensions |-> e, security |-> s, bookmarks |-> b, network |-> n, credentials |-> c, rest |-> z]

ReadTo(dir, n, z) ==
  ReadOf(ExtensionsTo(dir, n), SecurityTo(dir, n), BookmarksTo(dir, n), NetworkTo(dir, n),
         CredentialsTo(dir, n), z)

LEMMA FromProduct ==
  ASSUME NEW xs, NEW f
  PROVE  From(xs, f) = xs \X {f} /\ {e[1] : e \in From(xs, f)} = xs
<1>1. From(xs, f) = xs \X {f}
  BY DEF From
<1>2. \A x \in xs : <<x, f>>[1] = x
  OBVIOUS
<1>3. {e[1] : e \in From(xs, f)} = xs
  BY <1>2 DEF From
<1> QED
  BY <1>1, <1>3

(* The members that are read from documents, line by line.                 *)
LEMMA DocumentLines ==
  ASSUME NEW dir
  PROVE  LET P == dir.docs[FileAt(1)]
             S == dir.docs[FileAt(2)]
             N == dir.docs[FileAt(6)]
         IN  /\ ExtensionsTo(dir, 1) = {}
             /\ ExtensionsTo(dir, 2) = From(Listed(P), FileAt(1))
             /\ ExtensionsTo(dir, 3) = From(Listed(P), FileAt(1))
                                         \cup From(Listed(S) \ Listed(P), FileAt(2))
             /\ SecurityTo(dir, 3) = "none"
             /\ SecurityTo(dir, 4) = IF Parses(P) THEN P.flag ELSE "none"
             /\ SecurityTo(dir, 5) = IF Parses(S) /\ S.flag # "none" THEN S.flag
                                     ELSE IF Parses(P) THEN P.flag ELSE "none"
             /\ BookmarksTo(dir, 5) = {} /\ BookmarksTo(dir, 6) = Listed(dir.docs[FileAt(5)])
             /\ NetworkTo(dir, 6) = {}
             /\ NetworkTo(dir, 7) = IF N.form = "good" THEN {N.items} ELSE {}
<1>1. /\ ~(1 > 1) /\ ~(1 > 2) /\ 2 > 1 /\ ~(2 > 2) /\ 3 > 1 /\ 3 > 2
      /\ ~(3 > 3) /\ ~(3 > 4) /\ 4 > 3 /\ ~(4 > 4) /\ 5 > 3 /\ 5 > 4
      /\ ~(5 > 5) /\ 6 > 5 /\ ~(6 > 6) /\ 7 > 6
  OBVIOUS
<1>2. /\ ExtensionsTo(dir, 1) = {}
      /\ ExtensionsTo(dir, 2) = From(Listed(dir.docs[FileAt(1)]), FileAt(1))
      /\ ExtensionsTo(dir, 3) =
           From(Listed(dir.docs[FileAt(1)]), FileAt(1))
           \cup From(Listed(dir.docs[FileAt(2)]) \ Listed(dir.docs[FileAt(1)]),
                     FileAt(2))
  BY <1>1 DEF ExtensionsTo
<1> QED
  BY <1>1, <1>2 DEF SecurityTo, BookmarksTo, NetworkTo

(* A store is looked at: what is there counts.                             *)
LEMMA StoreLine ==
  ASSUME NEW dir, NEW m, NEW n, NEW f, StoresTo(dir, m) = StoresTo(dir, n) \cup {f}
  PROVE  CredentialsTo(dir, m) = IF dir.sizes[f] = 0 THEN CredentialsTo(dir, n)
                                 ELSE CredentialsTo(dir, n) \cup {<<StoreOf[f], dir.sizes[f]>>}
<1>1. CASE dir.sizes[f] = 0
  <2>1. {g \in StoresTo(dir, m) : dir.sizes[g] # 0} = {g \in StoresTo(dir, n) : dir.sizes[g] # 0}
    BY <1>1
  <2> QED
    BY <1>1, <2>1 DEF CredentialsTo
<1>2. CASE dir.sizes[f] # 0
  <2>1. {g \in StoresTo(dir, m) : dir.sizes[g] # 0}
          = {g \in StoresTo(dir, n) : dir.sizes[g] # 0} \cup {f}
    BY <1>2
  <2> QED
    BY <1>2, <2>1 DEF CredentialsTo
<1> QED
  BY <1>1, <1>2

(* What a line does to its member.                                         *)
LEMMA ExtensionsLine ==
  ASSUME NEW dir, NEW n \in {1, 2}
  PROVE  ExtensionsTo(dir, n + 1) =
           ExtensionsTo(dir, n)
           \cup From(Listed(dir.docs[FileAt(n)]) \ {e[1] : e \in ExtensionsTo(dir, n)}, FileAt(n))
<1> DEFINE P == Listed(dir.docs[FileAt(1)])
           S == Listed(dir.docs[FileAt(2)])
<1>1. /\ ExtensionsTo(dir, 1) = {}
      /\ ExtensionsTo(dir, 2) = From(P, FileAt(1))
      /\ ExtensionsTo(dir, 3) = From(P, FileAt(1)) \cup From(S \ P, FileAt(2))
  BY DocumentLines
<1> HIDE DEF P, S
<1>2. CASE n = 1
  <2>1. n + 1 = 2 /\ Listed(dir.docs[FileAt(n)]) = P /\ ExtensionsTo(dir, n) = {}
    BY <1>1, <1>2 DEF P
  <2>2. P \ {e[1] : e \in {}} = P
    OBVIOUS
  <2> QED
    BY <1>1, <1>2, <2>1, <2>2
<1>3. CASE n = 2
  <2>1. n + 1 = 3 /\ Listed(dir.docs[FileAt(n)]) = S /\ ExtensionsTo(dir, n) = From(P, FileAt(1))
    BY <1>1, <1>3 DEF S
  <2>2. {e[1] : e \in ExtensionsTo(dir, n)} = P
    BY <2>1, FromProduct
  <2> QED
    BY <1>1, <1>3, <2>1, <2>2
<1> QED
  BY <1>2, <1>3

LEMMA SecurityLine ==
  ASSUME NEW dir, NEW n \in {3, 4}
  PROVE  LET d == dir.docs[FileAt(n)]
         IN  SecurityTo(dir, n + 1) =
               IF Parses(d) /\ d.flag # "none" THEN d.flag ELSE SecurityTo(dir, n)
<1> DEFINE P == dir.docs[FileAt(1)]
           S == dir.docs[FileAt(2)]
<1>1. /\ SecurityTo(dir, 3) = "none"
      /\ SecurityTo(dir, 4) = IF Parses(P) THEN P.flag ELSE "none"
      /\ SecurityTo(dir, 5) = IF Parses(S) /\ S.flag # "none" THEN S.flag
                              ELSE IF Parses(P) THEN P.flag ELSE "none"
  BY DocumentLines
<1> HIDE DEF P, S
<1>2. CASE n = 3
  <2>1. n + 1 = 4 /\ dir.docs[FileAt(n)] = P
    BY <1>2, ReaderKinds DEF P
  <2> QED
    BY <1>1, <1>2, <2>1
<1>3. CASE n = 4
  <2>1. n + 1 = 5 /\ dir.docs[FileAt(n)] = S
    BY <1>3, ReaderKinds DEF S
  <2> QED
    BY <1>1, <1>3, <2>1
<1> QED
  BY <1>2, <1>3

LEMMA StoreLines ==
  ASSUME NEW dir
  PROVE  /\ StoresTo(dir, 8) = StoresTo(dir, 7) \cup {FileAt(7)}
         /\ StoresTo(dir, 9) = StoresTo(dir, 8)
         /\ StoresTo(dir, 10) = StoresTo(dir, 9) \cup {CookieFile(dir)}
         /\ StoresTo(dir, 11) = StoresTo(dir, 10) \cup {FileAt(10)}
<1>1. /\ ~(7 > 7) /\ ~(7 > 9) /\ ~(7 > 10) /\ 8 > 7 /\ ~(8 > 9) /\ ~(8 > 10)
      /\ 9 > 7 /\ ~(9 > 9) /\ ~(9 > 10) /\ 10 > 7 /\ 10 > 9 /\ ~(10 > 10)
      /\ 11 > 7 /\ 11 > 9 /\ 11 > 10
  OBVIOUS
<1> QED
  BY <1>1 DEF StoresTo

(* Nothing at the start, everything at the end.                            *)
LEMMA ReadToEnds ==
  ASSUME NEW dir
  PROVE  ReadTo(dir, 1, FALSE) = NoProfile /\ ReadTo(dir, 11, TRUE) = Holds(dir)
<1>1. /\ ExtensionsTo(dir, 1) = {} /\ SecurityTo(dir, 1) = "none" /\ BookmarksTo(dir, 1) = {}
      /\ NetworkTo(dir, 1) = {} /\ CredentialsTo(dir, 1) = {}
  BY DEF ExtensionsTo, SecurityTo, BookmarksTo, NetworkTo, CredentialsTo, StoresTo
<1>2. ReadTo(dir, 1, FALSE) = NoProfile
  BY <1>1 DEF ReadTo, ReadOf, NoProfile
<1> DEFINE P == dir.docs[FileAt(1)]
           S == dir.docs[FileAt(2)]
           N == dir.docs[FileAt(6)]
<1>3. /\ ExtensionsTo(dir, 11) = From(Listed(P), FileAt(1))
                                   \cup From(Listed(S) \ Listed(P), FileAt(2))
      /\ SecurityTo(dir, 11) = IF S.form = "good" /\ S.flag # "none" THEN S.flag
                               ELSE IF P.form = "good" THEN P.flag ELSE "none"
      /\ BookmarksTo(dir, 11) = Listed(dir.docs[FileAt(5)])
      /\ NetworkTo(dir, 11) = IF N.form = "good" THEN {N.items} ELSE {}
  BY DEF ExtensionsTo, SecurityTo, BookmarksTo, NetworkTo, Parses
<1>4. StoresTo(dir, 11) = {FileAt(7), CookieFile(dir), FileAt(10)}
  BY DEF StoresTo
<1>5. CredentialsTo(dir, 11) =
        {<<StoreOf[f], dir.sizes[f]>> :
           f \in {g \in {FileAt(7), CookieFile(dir), FileAt(10)} : dir.sizes[g] # 0}}
  BY <1>4 DEF CredentialsTo
<1>6. ReadTo(dir, 11, TRUE) = Holds(dir)
  <2>1. ExtensionsTo(dir, 11) = (Listed(P) \X {FileAt(1)})
                                  \cup ((Listed(S) \ Listed(P)) \X {FileAt(2)})
    BY <1>3, FromProduct
  <2> QED
    BY <1>3, <1>5, <2>1, ReaderFiles DEF ReadTo, ReadOf, Holds, CookieFile
<1> QED
  BY <1>2, <1>6

LEMMA ReadOfFields ==
  ASSUME NEW e, NEW s, NEW b, NEW n, NEW c, NEW z, NEW v
  PROVE  LET x == ReadOf(e, s, b, n, c, z)
         IN  /\ x.extensions = e /\ x.security = s /\ x.credentials = c
             /\ [x EXCEPT !.extensions = v] = ReadOf(v, s, b, n, c, z)
             /\ [x EXCEPT !.security = v] = ReadOf(e, v, b, n, c, z)
             /\ [x EXCEPT !.bookmarks = v] = ReadOf(e, s, v, n, c, z)
             /\ [x EXCEPT !.network = v] = ReadOf(e, s, b, v, c, z)
             /\ [x EXCEPT !.credentials = v] = ReadOf(e, s, b, n, v, z)
             /\ [x EXCEPT !.rest = v] = ReadOf(e, s, b, n, c, v)
  BY DEF ReadOf

(* A line adds to its own member.                                          *)
LEMMA LineOf ==
  ASSUME NEW dir, NEW n \in 1 .. 10
  PROVE  /\ n \notin {1, 2} => ExtensionsTo(dir, n + 1) = ExtensionsTo(dir, n)
         /\ n \notin {3, 4} => SecurityTo(dir, n + 1) = SecurityTo(dir, n)
         /\ n # 5 => BookmarksTo(dir, n + 1) = BookmarksTo(dir, n)
         /\ n # 6 => NetworkTo(dir, n + 1) = NetworkTo(dir, n)
         /\ n \notin {7, 8, 9, 10} => CredentialsTo(dir, n + 1) = CredentialsTo(dir, n)
<1>1. /\ n \notin {1, 2} => (n > 1 <=> n + 1 > 1) /\ (n > 2 <=> n + 1 > 2)
      /\ n \notin {3, 4} => (n > 3 <=> n + 1 > 3) /\ (n > 4 <=> n + 1 > 4)
      /\ n # 5 => (n > 5 <=> n + 1 > 5)
      /\ n # 6 => (n > 6 <=> n + 1 > 6)
      /\ n \notin {7, 8, 9, 10} =>
           (n > 7 <=> n + 1 > 7) /\ (n > 9 <=> n + 1 > 9) /\ (n > 10 <=> n + 1 > 10)
  OBVIOUS
<1>2. n \notin {1, 2} => ExtensionsTo(dir, n + 1) = ExtensionsTo(dir, n)
  BY <1>1 DEF ExtensionsTo
<1>3. n \notin {3, 4} => SecurityTo(dir, n + 1) = SecurityTo(dir, n)
  BY <1>1 DEF SecurityTo
<1>4. n # 5 => BookmarksTo(dir, n + 1) = BookmarksTo(dir, n)
  BY <1>1 DEF BookmarksTo
<1>5. n # 6 => NetworkTo(dir, n + 1) = NetworkTo(dir, n)
  BY <1>1 DEF NetworkTo
<1>6. n \notin {7, 8, 9, 10} => CredentialsTo(dir, n + 1) = CredentialsTo(dir, n)
  <2>1. n \notin {7, 8, 9, 10} => StoresTo(dir, n + 1) = StoresTo(dir, n)
    BY <1>1 DEF StoresTo
  <2> QED
    BY <2>1 DEF CredentialsTo
<1> QED
  BY <1>2, <1>3, <1>4, <1>5, <1>6

(* A line that finds nothing.                                              *)
LEMMA PassedBy ==
  ASSUME CaptureTypeOK, (Look /\ ~Exists) \/ ReadUnparsed,
         line = 9 => dirs[prof].sizes[FileAt(8)] = 0, NEW z
  PROVE  ReadTo(dirs[prof], line + 1, z) = ReadTo(dirs[prof], line, z)
<1> DEFINE dir == dirs[prof]
           n == line
<1>1. n \in 1 .. 10
  BY Typed DEF Look, ReadUnparsed
<1>2. Reader = "credentials" => dir.sizes[File] = 0
  BY DEF Look, Exists, ReadUnparsed
<1>3. Reader # "credentials" => Found.form \in {"absent", "torn"}
  BY DEF Look, Exists, ReadUnparsed, Unparsed
<1>4. Reader = Readers[n][1] /\ File = FileAt(n) /\ Found = dir.docs[FileAt(n)]
  BY DEF Reader, File, Found, FileAt
<1>5. n = 9 => dir.sizes[FileAt(8)] = 0
  OBVIOUS
<1> HIDE DEF dir, n
<1> DEFINE d == dir.docs[FileAt(n)]
<1>6. Reader # "credentials" => Listed(d) = {} /\ ~Parses(d) /\ d.form # "good"
  BY <1>3, <1>4 DEF Listed, Parses
<1> HIDE DEF d
<1>7. n \in 1 .. 6 => Reader # "credentials"
  <2>1. n \in 1 .. 6 => n = 1 \/ n = 2 \/ n = 3 \/ n = 4 \/ n = 5 \/ n = 6
    BY <1>1
  <2> QED
    BY <1>4, <2>1, ReaderKinds
<1>8. n \in 7 .. 10 => dir.sizes[FileAt(n)] = 0
  <2>1. n \in 7 .. 10 => n = 7 \/ n = 8 \/ n = 9 \/ n = 10
    BY <1>1
  <2> QED
    BY <1>2, <1>4, <2>1, ReaderKinds
<1>9. ExtensionsTo(dir, n + 1) = ExtensionsTo(dir, n)
  <2>1. CASE n \in {1, 2}
    <3>1. Listed(d) = {}
      BY <1>6, <1>7, <2>1
    <3>2. From({} \ {e[1] : e \in ExtensionsTo(dir, n)}, FileAt(n)) = {}
      BY DEF From
    <3> QED
      BY <2>1, <3>1, <3>2, ExtensionsLine DEF d
  <2> QED
    BY <1>1, <2>1, LineOf
<1>10. SecurityTo(dir, n + 1) = SecurityTo(dir, n)
  <2>1. CASE n \in {3, 4}
    <3>1. ~Parses(d)
      BY <1>6, <1>7, <2>1
    <3> QED
      BY <2>1, <3>1, SecurityLine DEF d
  <2> QED
    BY <1>1, <2>1, LineOf
<1>11. BookmarksTo(dir, n + 1) = BookmarksTo(dir, n)
  <2>1. CASE n = 5
    <3>1. Listed(dir.docs[FileAt(5)]) = {} /\ n + 1 = 6
      BY <1>6, <1>7, <2>1 DEF d
    <3> QED
      BY <2>1, <3>1, DocumentLines
  <2> QED
    BY <1>1, <2>1, LineOf
<1>12. NetworkTo(dir, n + 1) = NetworkTo(dir, n)
  <2>1. CASE n = 6
    <3>1. dir.docs[FileAt(6)].form # "good" /\ n + 1 = 7
      BY <1>6, <1>7, <2>1 DEF d
    <3> QED
      BY <2>1, <3>1, DocumentLines
  <2> QED
    BY <1>1, <2>1, LineOf
<1>13. CredentialsTo(dir, n + 1) = CredentialsTo(dir, n)
  <2>1. CASE n = 7
    <3>1. n + 1 = 8 /\ dir.sizes[FileAt(7)] = 0
      BY <1>8, <2>1
    <3> QED
      BY <2>1, <3>1, StoreLines, StoreLine
  <2>2. CASE n = 8
    <3>1. n + 1 = 9
      BY <2>2
    <3> QED
      BY <2>2, <3>1, StoreLines DEF CredentialsTo
  <2>3. CASE n = 9
    <3>1. n + 1 = 10 /\ dir.sizes[FileAt(9)] = 0 /\ CookieFile(dir) = FileAt(9)
      BY <1>5, <1>8, <2>3 DEF CookieFile
    <3> QED
      <4>1. StoresTo(dir, 10) = StoresTo(dir, 9) \cup {FileAt(9)}
        BY <3>1, StoreLines
      <4> QED
        BY <2>3, <3>1, <4>1, StoreLine
  <2>4. CASE n = 10
    <3>1. n + 1 = 11 /\ dir.sizes[FileAt(10)] = 0
      BY <1>8, <2>4
    <3> QED
      BY <2>4, <3>1, StoreLines, StoreLine
  <2> QED
    BY <1>1, <2>1, <2>2, <2>3, <2>4, LineOf
<1> QED
  BY <1>9, <1>10, <1>11, <1>12, <1>13 DEF ReadTo, dir, n

(* A line that reads a document.                                           *)
LEMMA DocumentRead ==
  ASSUME CaptureTypeOK, ReadDocument, NEW z, inst[prof] = ReadTo(dirs[prof], line, z)
  PROVE  inst'[prof] = ReadTo(dirs[prof], line + 1, z)
<1> DEFINE dir == dirs[prof]
           n == line
           x == inst[prof]
           v == CASE Reader = "extensions" -> Ingest(x)
                  [] Reader = "security"   -> Scan(x)
                  [] Reader = "bookmarks"  -> [x EXCEPT !.bookmarks = Found.items]
                  [] OTHER                 -> [x EXCEPT !.network = {Found.items}]
<1>1. /\ n \in 1 .. 10 /\ prof \in Profiles /\ Reader # "credentials"
      /\ Found.form \in Forms
  BY Documents DEF ReadDocument
<1>2. inst'[prof] = v
  <2>1. inst' = [inst EXCEPT ![prof] = v]
    BY DEF ReadDocument
  <2> HIDE DEF v
  <2> QED
    BY <1>1, <2>1 DEF CaptureTypeOK
<1>3. Reader = Readers[n][1] /\ File = FileAt(n) /\ Found = dir.docs[FileAt(n)]
  BY DEF Reader, File, Found, FileAt
<1>4. Found.form = "good"
  BY <1>1 DEF ReadDocument, Unparsed, Forms
<1>5. x = ReadOf(ExtensionsTo(dir, n), SecurityTo(dir, n), BookmarksTo(dir, n),
                 NetworkTo(dir, n), CredentialsTo(dir, n), z)
  BY DEF ReadTo
<1> HIDE DEF dir, n, x
<1>6. n = 1 \/ n = 2 \/ n = 3 \/ n = 4 \/ n = 5 \/ n = 6
  <2>1. n \notin {7, 8, 9, 10}
    BY <1>1, <1>3, ReaderKinds
  <2> QED
    BY <1>1, <2>1
<1>7. CASE n \in {1, 2}
  <2>1. Reader = "extensions" /\ Found.form = "good" /\ Listed(Found) = Found.items
    BY <1>3, <1>4, <1>7, ReaderKinds DEF Listed
  <2>2. v = Ingest(x)
    BY <2>1
  <2> HIDE DEF v
  <2> DEFINE old == ExtensionsTo(dir, n)
             added == old \cup {<<e, File>> : e \in Found.items \ {e[1] : e \in old}}
  <2>3. added = ExtensionsTo(dir, n + 1)
    <3>1. {<<e, File>> : e \in Found.items \ {e[1] : e \in old}}
            = From(Found.items \ {e[1] : e \in old}, FileAt(n))
      BY <1>3 DEF From
    <3>2. Listed(dir.docs[FileAt(n)]) = Found.items
      BY <1>3, <2>1
    <3> QED
      BY <1>7, <3>1, <3>2, ExtensionsLine
  <2>4. Ingest(x) = [x EXCEPT !.extensions = added]
    <3>1. x.extensions = old
      BY <1>5, ReadOfFields
    <3>2. Ingest(x) = [x EXCEPT !.extensions = x.extensions \cup
                         {<<e, File>> : e \in Found.items \ {e[1] : e \in x.extensions}}]
      BY DEF Ingest
    <3> HIDE DEF old
    <3> QED
      BY <3>1, <3>2
  <2> HIDE DEF added
  <2>5. v = ReadOf(added, SecurityTo(dir, n), BookmarksTo(dir, n), NetworkTo(dir, n),
                   CredentialsTo(dir, n), z)
    BY <1>5, <2>2, <2>4, ReadOfFields
  <2>6. /\ SecurityTo(dir, n + 1) = SecurityTo(dir, n)
        /\ BookmarksTo(dir, n + 1) = BookmarksTo(dir, n)
        /\ NetworkTo(dir, n + 1) = NetworkTo(dir, n)
        /\ CredentialsTo(dir, n + 1) = CredentialsTo(dir, n)
    BY <1>1, <1>7, LineOf
  <2> QED
    BY <1>2, <2>3, <2>5, <2>6 DEF ReadTo, dir, n
<1>8. CASE n \in {3, 4}
  <2>1. Reader = "security" /\ Parses(Found)
    BY <1>3, <1>4, <1>8, ReaderKinds DEF Parses
  <2>2. v = Scan(x)
    BY <2>1
  <2> HIDE DEF v
  <2> DEFINE flag == IF Found.flag = "none" THEN SecurityTo(dir, n) ELSE Found.flag
  <2>3. flag = SecurityTo(dir, n + 1)
    <3>1. SecurityTo(dir, n + 1) = IF Parses(Found) /\ Found.flag # "none" THEN Found.flag
                                   ELSE SecurityTo(dir, n)
      BY <1>3, <1>8, SecurityLine
    <3> QED
      BY <2>1, <3>1
  <2>4. Scan(x) = [x EXCEPT !.security = flag]
    <3>1. x.security = SecurityTo(dir, n)
      BY <1>5, ReadOfFields
    <3>2. Scan(x) = [x EXCEPT !.security = IF Found.flag = "none" THEN x.security ELSE Found.flag]
      BY DEF Scan
    <3> QED
      BY <3>1, <3>2
  <2> HIDE DEF flag
  <2>5. v = ReadOf(ExtensionsTo(dir, n), flag, BookmarksTo(dir, n), NetworkTo(dir, n),
                   CredentialsTo(dir, n), z)
    BY <1>5, <2>2, <2>4, ReadOfFields
  <2>6. /\ ExtensionsTo(dir, n + 1) = ExtensionsTo(dir, n)
        /\ BookmarksTo(dir, n + 1) = BookmarksTo(dir, n)
        /\ NetworkTo(dir, n + 1) = NetworkTo(dir, n)
        /\ CredentialsTo(dir, n + 1) = CredentialsTo(dir, n)
    BY <1>1, <1>8, LineOf
  <2> QED
    BY <1>2, <2>3, <2>5, <2>6 DEF ReadTo, dir, n
<1>9. CASE n = 5
  <2>1. Reader = "bookmarks" /\ Found.form = "good" /\ Found = dir.docs[FileAt(5)]
    BY <1>3, <1>4, <1>9, ReaderKinds
  <2> DEFINE items == Found.items
  <2>2. v = [x EXCEPT !.bookmarks = items]
    BY <2>1
  <2> HIDE DEF v
  <2>3. items = BookmarksTo(dir, n + 1)
    BY <1>9, <2>1 DEF BookmarksTo, Listed
  <2> HIDE DEF items
  <2>4. v = ReadOf(ExtensionsTo(dir, n), SecurityTo(dir, n), items, NetworkTo(dir, n),
                   CredentialsTo(dir, n), z)
    BY <1>5, <2>2 DEF ReadOf
  <2>5. /\ ExtensionsTo(dir, n + 1) = ExtensionsTo(dir, n)
        /\ SecurityTo(dir, n + 1) = SecurityTo(dir, n)
        /\ NetworkTo(dir, n + 1) = NetworkTo(dir, n)
        /\ CredentialsTo(dir, n + 1) = CredentialsTo(dir, n)
    BY <1>1, <1>9, LineOf
  <2> QED
    BY <1>2, <2>3, <2>4, <2>5 DEF ReadTo, dir, n
<1>10. CASE n = 6
  <2>1. Reader = "network" /\ Found.form = "good" /\ Found = dir.docs[FileAt(6)]
    BY <1>3, <1>4, <1>10, ReaderKinds
  <2> DEFINE served == {Found.items}
  <2>2. v = [x EXCEPT !.network = served]
    BY <2>1
  <2> HIDE DEF v
  <2>3. served = NetworkTo(dir, n + 1)
    BY <1>10, <2>1 DEF NetworkTo
  <2> HIDE DEF served
  <2>4. v = ReadOf(ExtensionsTo(dir, n), SecurityTo(dir, n), BookmarksTo(dir, n), served,
                   CredentialsTo(dir, n), z)
    BY <1>5, <2>2 DEF ReadOf
  <2>5. /\ ExtensionsTo(dir, n + 1) = ExtensionsTo(dir, n)
        /\ SecurityTo(dir, n + 1) = SecurityTo(dir, n)
        /\ BookmarksTo(dir, n + 1) = BookmarksTo(dir, n)
        /\ CredentialsTo(dir, n + 1) = CredentialsTo(dir, n)
    BY <1>1, <1>10, LineOf
  <2> QED
    BY <1>2, <2>3, <2>4, <2>5 DEF ReadTo, dir, n
<1> QED
  BY <1>6, <1>7, <1>8, <1>9, <1>10

(* A line that measures a store.                                           *)
LEMMA StoreRead ==
  ASSUME CaptureTypeOK, MeasureStore, Exists,
         line = 9 => dirs[prof].sizes[FileAt(8)] = 0,
         NEW z, inst[prof] = ReadTo(dirs[prof], line, z)
  PROVE  inst'[prof] = ReadTo(dirs[prof], line', z) /\ line' # 9
<1> DEFINE dir == dirs[prof]
           n == line
           x == inst[prof]
           added == CredentialsTo(dir, n) \cup {<<StoreOf[File], dir.sizes[File]>>}
<1>1. n \in 1 .. 10 /\ prof \in Profiles /\ Reader = "credentials" /\ dir.sizes[File] # 0
  BY Documents DEF MeasureStore, Exists
<1>2. x = ReadOf(ExtensionsTo(dir, n), SecurityTo(dir, n), BookmarksTo(dir, n),
                 NetworkTo(dir, n), CredentialsTo(dir, n), z)
  BY DEF ReadTo
<1>3. Reader = Readers[n][1] /\ File = FileAt(n)
  BY DEF Reader, File, FileAt
<1>4. inst'[prof] = ReadOf(ExtensionsTo(dir, n), SecurityTo(dir, n), BookmarksTo(dir, n),
                           NetworkTo(dir, n), added, z)
  <2> DEFINE v == [x EXCEPT !.credentials = x.credentials \cup {<<StoreOf[File], dir.sizes[File]>>}]
  <2>1. inst' = [inst EXCEPT ![prof] = v]
    BY <1>1 DEF MeasureStore
  <2>2. x.credentials = CredentialsTo(dir, n)
    BY <1>2 DEF ReadOf
  <2>3. v = [x EXCEPT !.credentials = added]
    BY <2>2
  <2> HIDE DEF added, x, v
  <2>4. v = ReadOf(ExtensionsTo(dir, n), SecurityTo(dir, n), BookmarksTo(dir, n),
                   NetworkTo(dir, n), added, z)
    BY <1>2, <2>3 DEF ReadOf
  <2>5. inst'[prof] = v
    BY <1>1, <2>1 DEF CaptureTypeOK
  <2> QED
    BY <2>4, <2>5
<1>5. n = 7 \/ n = 8 \/ n = 9 \/ n = 10
  <2>1. n = 1 \/ n = 2 \/ n = 3 \/ n = 4 \/ n = 5 \/ n = 6 \/ n = 7 \/ n = 8 \/ n = 9 \/ n = 10
    BY <1>1
  <2> QED
    BY <1>1, <1>3, <2>1, ReaderKinds
<1>6. /\ line' = IF n = 8 THEN 10 ELSE n + 1
      /\ n = 8 => CookieFile(dir) = FileAt(8)
      /\ n = 9 => CookieFile(dir) = FileAt(9)
  <2>1. File = "Network/Cookies" <=> n = 8
    BY <1>3, <1>5, ReaderFiles
  <2>2. line' = IF n = 8 THEN n + 2 ELSE n + 1
    BY <2>1 DEF MeasureStore, Advance
  <2>3. n = 8 => CookieFile(dir) = FileAt(8)
    BY <1>1, <1>3 DEF CookieFile
  <2>4. n = 9 => CookieFile(dir) = FileAt(9)
    BY DEF CookieFile
  <2> QED
    BY <1>1, <2>2, <2>3, <2>4
<1> DEFINE m == line'
<1>7. StoresTo(dir, m) = StoresTo(dir, n) \cup {FileAt(n)}
  <2>1. CASE n = 7
    <3>1. m = 8
      BY <1>6, <2>1
    <3> HIDE DEF dir, n, m
    <3> QED
      BY <2>1, <3>1, StoreLines
  <2>2. CASE n = 8
    <3>1. m = 10 /\ CookieFile(dir) = FileAt(8)
      BY <1>6, <2>2
    <3> HIDE DEF dir, n, m
    <3> QED
      BY <2>2, <3>1, StoreLines
  <2>3. CASE n = 9
    <3>1. m = 10 /\ CookieFile(dir) = FileAt(9)
      BY <1>6, <2>3
    <3> HIDE DEF dir, n, m
    <3> QED
      BY <2>3, <3>1, StoreLines
  <2>4. CASE n = 10
    <3>1. m = 11
      BY <1>6, <2>4
    <3> HIDE DEF dir, n, m
    <3> QED
      BY <2>4, <3>1, StoreLines
  <2> QED
    BY <1>5, <2>1, <2>2, <2>3, <2>4
<1>8. m \in 8 .. 11 /\ m # 9
  BY <1>5, <1>6
<1> HIDE DEF dir, n, m, added
<1>9. CredentialsTo(dir, m) = added
  <2>1. dir.sizes[FileAt(n)] # 0
    BY <1>1, <1>3
  <2>2. PICK g : g = FileAt(n) /\ g = File
    BY <1>3
  <2>3. StoresTo(dir, m) = StoresTo(dir, n) \cup {g}
    BY <1>7, <2>2
  <2>4. CredentialsTo(dir, m) = IF dir.sizes[g] = 0 THEN CredentialsTo(dir, n)
                                ELSE CredentialsTo(dir, n) \cup {<<StoreOf[g], dir.sizes[g]>>}
    BY <2>3, StoreLine
  <2>5. dir.sizes[g] # 0
    BY <2>1, <2>2
  <2> QED
    BY <2>2, <2>4, <2>5 DEF added
<1>10. /\ ExtensionsTo(dir, m) = ExtensionsTo(dir, n) /\ SecurityTo(dir, m) = SecurityTo(dir, n)
       /\ BookmarksTo(dir, m) = BookmarksTo(dir, n) /\ NetworkTo(dir, m) = NetworkTo(dir, n)
  <2>1. /\ n > 1 /\ n > 2 /\ n > 3 /\ n > 4 /\ n > 5 /\ n > 6
        /\ m > 1 /\ m > 2 /\ m > 3 /\ m > 4 /\ m > 5 /\ m > 6
    BY <1>5, <1>8
  <2> QED
    BY <2>1 DEF ExtensionsTo, SecurityTo, BookmarksTo, NetworkTo
<1> QED
  BY <1>4, <1>8, <1>9, <1>10 DEF ReadTo, dir, m

(* The other readers, last.                                                *)
LEMMA RestRead ==
  ASSUME CaptureTypeOK, ReadRest, prof \in Profiles,
         NEW n, inst[prof] = ReadTo(dirs[prof], n, FALSE)
  PROVE  inst'[prof] = ReadTo(dirs[prof], n, TRUE)
<1> DEFINE v == [inst[prof] EXCEPT !.rest = TRUE]
<1>1. inst' = [inst EXCEPT ![prof] = v]
  BY DEF ReadRest
<1>2. v = ReadTo(dirs[prof], n, TRUE)
  <2> DEFINE dir == dirs[prof]
             e == ExtensionsTo(dir, n)
             s == SecurityTo(dir, n)
             b == BookmarksTo(dir, n)
             w == NetworkTo(dir, n)
             c == CredentialsTo(dir, n)
  <2>1. inst[prof] = ReadOf(e, s, b, w, c, FALSE) /\ ReadTo(dir, n, TRUE) = ReadOf(e, s, b, w, c, TRUE)
    BY DEF ReadTo
  <2> HIDE DEF dir, e, s, b, w, c
  <2>2. v = [ReadOf(e, s, b, w, c, FALSE) EXCEPT !.rest = TRUE]
    BY <2>1
  <2>3. [ReadOf(e, s, b, w, c, FALSE) EXCEPT !.rest = TRUE] = ReadOf(e, s, b, w, c, TRUE)
    <3>1. \A z, t : [ReadOf(e, s, b, w, c, z) EXCEPT !.rest = t] = ReadOf(e, s, b, w, c, t)
      BY DEF ReadOf
    <3> QED
      BY <3>1
  <2> QED
    BY <2>1, <2>2, <2>3 DEF dir
<1> HIDE DEF v
<1> QED
  BY <1>1, <1>2 DEF CaptureTypeOK

-----------------------------------------------------------------------------
(* What the record of a profile that nobody writes to has by now.          *)
InLoop == pc \in {"look", "read", "rest"}

AsFar(p) ==
  /\ p < prof /\ dirs[p].there => inst[p] = ReadTo(dirs[p], 11, TRUE)
  /\ p = prof /\ InLoop => inst[p] = ReadTo(dirs[p], line, FALSE)
  /\ p > prof \/ (p = prof /\ ~InLoop) => inst[p] = NoProfile
  /\ p = prof /\ pc = "read" => Exists
  /\ p = prof /\ pc \in {"look", "read"} /\ line = 9 => dirs[p].sizes[FileAt(8)] = 0

AsFarAsRead == pc # "threw" => \A p \in quiet : AsFar(p)

(* The other profiles are left alone.                                      *)
LEMMA OtherProfiles ==
  ASSUME CaptureTypeOK, Place, CaptureStep, pc' # "threw"
  PROVE  /\ \A p \in Profiles : p # prof => inst'[p] = inst[p]
         /\ prof' = prof \/ (prof' = prof + 1 /\ pc' = "profile")
         /\ UNCHANGED <<call, dirs, quiet>> /\ pc # "threw"
<1>1. \A p \in Profiles : p # prof => inst'[p] = inst[p]
  BY DEF CaptureTypeOK, CaptureStep, Resolve, ReadLocalState, NextProfile, Look, ReadUnparsed,
         ReadOdd, ReadDocument, MeasureStore, ReadRest
<1>2. prof' = prof \/ (prof' = prof + 1 /\ pc' = "profile")
  BY DEF CaptureStep, Resolve, ReadLocalState, NextProfile, Look, ReadUnparsed,
         ReadOdd, ReadDocument, MeasureStore, ReadRest
<1>3. UNCHANGED <<call, dirs, quiet>> /\ pc # "threw"
  BY DEF CaptureStep, Resolve, ReadLocalState, NextProfile, Look, ReadUnparsed,
         ReadOdd, ReadDocument, MeasureStore, ReadRest, Unmoved
<1> QED
  BY <1>1, <1>2, <1>3

(* The line of the loop, one action at a time.                             *)
LEMMA CurrentProfile ==
  ASSUME CaptureTypeOK, Place, CaptureStep, pc' # "threw", prof \in Profiles, AsFar(prof)
  PROVE  /\ prof' = prof /\ InLoop' => inst'[prof] = ReadTo(dirs[prof], line', FALSE)
         /\ prof' = prof /\ ~InLoop' => inst'[prof] = NoProfile
         /\ prof' = prof /\ pc' = "read" => Exists'
         /\ prof' = prof /\ pc' \in {"look", "read"} /\ line' = 9
              => dirs[prof].sizes[FileAt(8)] = 0
         /\ prof' = prof + 1 /\ dirs[prof].there => inst'[prof] = ReadTo(dirs[prof], 11, TRUE)
<1>1. NProfiles \in Nat /\ prof # prof + 1
  BY Typed
<1>2. CASE Resolve \/ ReadLocalState
  BY <1>1, <1>2 DEF Resolve, ReadLocalState, AsFar, InLoop, Diagnose
<1>3. CASE NextProfile
  <2>1. inst' = inst /\ inst[prof] = NoProfile /\ ReadTo(dirs[prof], 1, FALSE) = NoProfile
    BY <1>3, ReadToEnds DEF NextProfile, AsFar, InLoop
  <2>2. CASE prof' = prof /\ pc' = "done"
    BY <1>1, <2>1, <2>2 DEF InLoop
  <2>3. CASE prof' = prof + 1 /\ ~dirs[prof].there
    BY <1>1, <2>3
  <2>4. CASE prof' = prof /\ pc' = "look" /\ line' = 1
    <3>1. inst'[prof] = ReadTo(dirs[prof], line', FALSE)
      BY <2>1, <2>4
    <3>2. prof' # prof + 1 /\ line' # 9 /\ InLoop' /\ pc' # "read"
      BY <1>1, <2>4 DEF InLoop
    <3> QED
      BY <3>1, <3>2
  <2> QED
    BY <1>3, <2>2, <2>3, <2>4 DEF NextProfile
<1>4. pc \in {"look", "read"} =>
        /\ inst[prof] = ReadTo(dirs[prof], line, FALSE)
        /\ line = 9 => dirs[prof].sizes[FileAt(8)] = 0
        /\ line = 8 => File = FileAt(8) /\ Reader = "credentials"
  BY ReaderKinds DEF AsFar, InLoop, File, FileAt, Reader
<1>5. CASE Look
  <2>1. CASE Exists
    <3>1. UNCHANGED <<dirs, prof, line, inst>>
      BY <1>5, <2>1 DEF Look, Unmoved
    <3>2. Exists'
      BY <2>1, <3>1 DEF Exists, Reader, File, Found
    <3> QED
      BY <1>1, <1>4, <1>5, <2>1, <3>1, <3>2 DEF Look, InLoop
  <2>2. CASE ~Exists
    <3>1. inst' = inst /\ prof' = prof /\ line' = line + 1 /\ pc' \in {"look", "rest"}
      BY <1>5, <2>2 DEF Look, Advance, After
    <3>2. ReadTo(dirs[prof], line + 1, FALSE) = ReadTo(dirs[prof], line, FALSE)
      BY <1>4, <1>5, <2>2, PassedBy DEF Look
    <3>3. line' = 9 => dirs[prof].sizes[FileAt(8)] = 0
      <4>1. line' = 9 => line = 8
        BY <1>5, <3>1, Typed DEF Look
      <4> QED
        BY <1>4, <1>5, <2>2, <4>1 DEF Look, Exists
    <3> QED
      BY <1>1, <1>4, <1>5, <3>1, <3>2, <3>3 DEF Look, InLoop
  <2> QED
    BY <2>1, <2>2
<1>6. CASE ReadUnparsed
  <2>1. inst' = inst /\ prof' = prof /\ line' = line + 1 /\ pc' \in {"look", "rest"}
    BY <1>6 DEF ReadUnparsed, Diagnose, After
  <2>2. ReadTo(dirs[prof], line + 1, FALSE) = ReadTo(dirs[prof], line, FALSE)
    BY <1>4, <1>6, PassedBy DEF ReadUnparsed
  <2>3. line' # 9
    <3>1. line' = 9 => line = 8
      BY <1>6, <2>1, Typed DEF ReadUnparsed
    <3> QED
      BY <1>4, <1>6, <3>1 DEF ReadUnparsed
  <2> QED
    BY <1>1, <1>4, <1>6, <2>1, <2>2, <2>3 DEF ReadUnparsed, InLoop
<1>7. CASE ReadOdd
  BY <1>7 DEF ReadOdd
<1>8. CASE ReadDocument
  <2>1. prof' = prof /\ line' = line + 1 /\ pc' \in {"look", "rest"}
    BY <1>8 DEF ReadDocument, Advance, After
  <2>2. inst'[prof] = ReadTo(dirs[prof], line + 1, FALSE)
    BY <1>4, <1>8, DocumentRead DEF ReadDocument
  <2>3. line' # 9
    <3>1. line' = 9 => line = 8
      BY <1>8, <2>1, Typed DEF ReadDocument
    <3> QED
      BY <1>4, <1>8, <3>1 DEF ReadDocument
  <2> QED
    BY <1>1, <2>1, <2>2, <2>3 DEF InLoop
<1>9. CASE MeasureStore
  <2>1. prof' = prof /\ pc' \in {"look", "rest"}
    BY <1>9 DEF MeasureStore, Advance, After
  <2>2. Exists
    BY <1>9 DEF MeasureStore, AsFar
  <2>3. inst'[prof] = ReadTo(dirs[prof], line', FALSE) /\ line' # 9
    BY <1>4, <1>9, <2>2, StoreRead DEF MeasureStore
  <2> QED
    BY <1>1, <2>1, <2>3 DEF InLoop
<1>10. CASE ReadRest
  <2>1. inst[prof] = ReadTo(dirs[prof], 11, FALSE)
    BY <1>10 DEF ReadRest, Place, AsFar, InLoop
  <2>2. inst'[prof] = ReadTo(dirs[prof], 11, TRUE) /\ prof' = prof + 1
    BY <1>10, <2>1, RestRead DEF ReadRest
  <2> QED
    BY <1>1, <2>2
<1> QED
  BY <1>2, <1>3, <1>5, <1>6, <1>7, <1>8, <1>9, <1>10 DEF CaptureStep

LEMMA AsFarStep ==
  ASSUME CaptureTypeOK, Place, AsFarAsRead, [CaptureNext]_captureVars
  PROVE  AsFarAsRead'
<1> SUFFICES ASSUME pc' # "threw", NEW p \in quiet' PROVE AsFar(p)'
  BY DEF AsFarAsRead
<1>1. CASE CaptureStep
  <2>1. p \in quiet /\ p \in Profiles /\ AsFar(p) /\ dirs' = dirs
    BY <1>1, OtherProfiles DEF AsFarAsRead, CaptureTypeOK
  <2>2. /\ p # prof => inst'[p] = inst[p]
        /\ prof' = prof \/ (prof' = prof + 1 /\ pc' = "profile")
    BY <1>1, <2>1, OtherProfiles
  <2>3. prof \in Nat /\ p \in Nat
    BY <2>1, Typed
  <2>4. CASE p # prof
    <3>1. CASE p < prof
      <4>1. p < prof' /\ p # prof'
        BY <2>2, <2>3, <3>1
      <4>2. dirs[p].there => inst'[p] = ReadTo(dirs[p], 11, TRUE)
        BY <2>1, <2>2, <2>4, <3>1 DEF AsFar
      <4>3. ~(p > prof')
        BY <2>2, <2>3, <3>1
      <4> QED
        BY <2>1, <4>1, <4>2, <4>3 DEF AsFar
    <3>2. CASE p > prof
      <4>1. ~(p < prof') /\ (p = prof' => pc' = "profile")
        BY <2>2, <2>3, <3>2
      <4>2. inst'[p] = NoProfile
        BY <2>1, <2>2, <2>4, <3>2 DEF AsFar
      <4> QED
        BY <4>1, <4>2 DEF AsFar, InLoop
    <3> QED
      BY <2>3, <2>4, <3>1, <3>2
  <2>5. CASE p = prof
    <3> HIDE DEF Profiles
    <3>1. CASE prof' = prof
      <4>1. ~(p < prof') /\ ~(p > prof') /\ p = prof'
        BY <2>3, <2>5, <3>1
      <4>2. /\ InLoop' => inst'[p] = ReadTo(dirs[p], line', FALSE)
            /\ ~InLoop' => inst'[p] = NoProfile
            /\ pc' = "read" => Exists'
            /\ pc' \in {"look", "read"} /\ line' = 9 => dirs[p].sizes[FileAt(8)] = 0
        BY <1>1, <2>1, <2>5, <3>1, CurrentProfile
      <4> QED
        BY <2>1, <4>1, <4>2 DEF AsFar
    <3>2. CASE prof' = prof + 1
      <4>1. p < prof' /\ ~(p > prof') /\ p # prof'
        BY <2>3, <2>5, <3>2
      <4>2. dirs[p].there => inst'[p] = ReadTo(dirs[p], 11, TRUE)
        BY <1>1, <2>1, <2>5, <3>2, CurrentProfile
      <4> QED
        BY <2>1, <4>1, <4>2 DEF AsFar
    <3> QED
      BY <2>2, <3>1, <3>2
  <2> QED
    BY <2>4, <2>5
<1>2. CASE Browser \/ UNCHANGED captureVars
  <2>1. UNCHANGED <<pc, prof, line, inst>>
    BY <1>2 DEF Browser, captureVars
  <2>2. p \in quiet /\ dirs'[p] = dirs[p]
    <3>1. CASE Browser
      <4>1. PICK q \in Profiles, dir \in ProfileDir : Change(q, dir)
        BY <3>1, BrowserChanges
      <4>2. p \in quiet /\ p # q /\ p \in Profiles
        BY <4>1 DEF Change, CaptureTypeOK
      <4> QED
        BY <4>1, <4>2 DEF Change, CaptureTypeOK
    <3>2. CASE UNCHANGED captureVars
      BY <3>2 DEF captureVars
    <3> QED
      BY <1>2, <3>1, <3>2
  <2>3. AsFar(p)
    BY <2>1, <2>2 DEF AsFarAsRead
  <2>4. p = prof /\ Exists => Exists'
    BY <2>1, <2>2 DEF Exists, Reader, File, Found
  <2> QED
    BY <2>1, <2>2, <2>3, <2>4 DEF AsFar, InLoop
<1> QED
  BY <1>1, <1>2 DEF CaptureNext

(* QuietProfileIsExact: each reader sets its own member to what its files  *)
(* hold, and none of the others is touched; the record of a profile that   *)
(* nobody writes to is at every line what the lines before make of it.     *)
THEOREM QuietProfilesAreExact == CaptureSpec => []QuietProfileIsExact
<1>1. CaptureInit => AsFarAsRead
  <2> SUFFICES ASSUME CaptureInit, NEW p \in Profiles
               PROVE  AsFar(p)
    BY DEF AsFarAsRead, CaptureInit
  <2>1. ~(p < prof) /\ inst[p] = NoProfile /\ pc = "start"
    BY CaptureAssumption DEF CaptureInit
  <2> QED
    BY <2>1 DEF AsFar, InLoop
<1>2. CaptureInv /\ AsFarAsRead /\ [CaptureNext]_captureVars => AsFarAsRead'
  BY AsFarStep DEF CaptureInv
<1>3. CaptureInv /\ AsFarAsRead => QuietProfileIsExact
  <2> SUFFICES ASSUME CaptureInv, AsFarAsRead, NEW p \in Captured \cap quiet
               PROVE  inst[p] = Holds(dirs[p])
    BY DEF QuietProfileIsExact
  <2>1. p \in Profiles /\ dirs[p].there /\ pc = "done" /\ call.localState = "good"
    BY DEF Captured
  <2>2. p < prof
    <3>1. prof > NProfiles /\ NProfiles \in Nat /\ prof \in 1 .. NProfiles + 1
      BY <2>1, Typed DEF CaptureInv, Place
    <3> QED
      BY <2>1, <3>1
  <2> QED
    BY <2>1, <2>2, ReadToEnds DEF AsFarAsRead, AsFar
<1> QED
  BY <1>1, <1>2, <1>3, InvInit, InvStep, PTL DEF CaptureSpec

-----------------------------------------------------------------------------
(* WebData: there is one address of a guid, a value that was read stays,   *)
(* and no value of one guid gets into the address of another.              *)

USE DEF Tables

Unique(v) == \A a, b \in v : a.guid = b.guid => a = b

(* The fields that have a value keep it from v to w.                       *)
Keeps(v, w) == \A a \in v, b \in w : a.guid = b.guid =>
                 \A f \in Fields : a.vals[f] # NoVal => b.vals[f] = a.vals[f]

-----------------------------------------------------------------------------
(* FindOrCreate gives an address of the guid, that of the list if it has   *)
(* one; a new one is empty.                                                *)
LEMMA FoundOrMade ==
  ASSUME NEW v, NEW g
  PROVE  /\ FindOrCreate(v, g).guid = g
         /\ (\E a \in v : a.guid = g) => FindOrCreate(v, g) \in v
         /\ ~(\E a \in v : a.guid = g) =>
              FindOrCreate(v, g) = [guid |-> g, vals |-> [f \in Fields |-> NoVal]]
<1>1. CASE \E a \in v : a.guid = g
  <2> DEFINE c == CHOOSE a \in v : a.guid = g
  <2>1. c \in v /\ c.guid = g
    BY <1>1
  <2> QED
    BY <1>1, <2>1 DEF FindOrCreate
<1>2. CASE ~(\E a \in v : a.guid = g)
  BY <1>2 DEF FindOrCreate
<1> QED
  BY <1>1, <1>2

(* Merging a row keeps the guids apart and the values that are there.      *)
LEMMA MergeKeeps ==
  ASSUME NEW v, Unique(v), NEW w
  PROVE  Unique(Merge(v, w)) /\ Keeps(v, Merge(v, w))
<1> DEFINE a == FindOrCreate(v, w.guid)
           n == [guid |-> a.guid, vals |-> Fill(a.vals, w.vals)]
<1>1. Merge(v, w) = (v \ {a}) \cup {n}
  BY DEF Merge
<1>2. a.guid = w.guid /\ n.guid = w.guid
  BY FoundOrMade
<1>3. \A b \in v \ {a} : b.guid # w.guid
  BY <1>2, FoundOrMade DEF Unique
<1>4. Unique(Merge(v, w))
  BY <1>1, <1>2, <1>3 DEF Unique
<1>5. ASSUME NEW b \in v, NEW c \in Merge(v, w), b.guid = c.guid,
             NEW f \in Fields, b.vals[f] # NoVal
      PROVE  c.vals[f] = b.vals[f]
  <2>1. CASE c = n
    <3>1. b = a
      BY <1>2, <1>3, <1>5, <2>1
    <3>2. n.vals[f] = IF a.vals[f] # NoVal THEN a.vals[f] ELSE w.vals[f]
      BY DEF Fill
    <3> QED
      BY <1>5, <2>1, <3>1, <3>2
  <2>2. CASE c \in v
    BY <1>5, <2>2 DEF Unique
  <2> QED
    BY <1>1, <1>5, <2>1, <2>2
<1> QED
  BY <1>4, <1>5 DEF Keeps

-----------------------------------------------------------------------------
(* FindOrCreate: one address of a guid.                                    *)
OneEach == Unique(addrsOut)

LEMMA OneEachStep == OneEach /\ [WebNext]_webVars => OneEach'
<1> SUFFICES ASSUME Unique(addrsOut), [WebNext]_webVars
             PROVE  Unique(addrsOut')
  BY DEF OneEach
<1>1. CASE MergeRow
  BY <1>1, MergeKeeps DEF MergeRow
<1>2. CASE EndOfRows
  BY <1>2 DEF EndOfRows, Unique
<1>3. CASE SelectAddresses \/ SelectCards \/ SelectKeywords
  BY <1>3 DEF SelectAddresses, SelectCards, SelectKeywords
<1>4. CASE Commit
  BY <1>4 DEF Commit
<1>5. CASE UNCHANGED webVars
  BY <1>5 DEF webVars
<1> QED
  BY <1>1, <1>2, <1>3, <1>4, <1>5 DEF WebNext, WebStep

LEMMA OneEachInit == WebInit => OneEach
BY DEF WebInit, OneEach, Unique

(* GuidsUnique: whatever the tables hold and however they change between   *)
(* the statements, there is one address of a guid.                         *)
THEOREM GuidsAreUnique == WebSpec => []GuidsUnique
<1>1. OneEach => GuidsUnique
  BY DEF OneEach, Unique, GuidsUnique
<1> QED
  BY <1>1, OneEachInit, OneEachStep, PTL DEF WebSpec

(* FirstValueStays: no later row or table replaces a value that was read.  *)
THEOREM ValuesStay == WebSpec => FirstValueStays
<1>1. OneEach /\ [WebNext]_webVars =>
        [\A a \in addrsOut, b \in addrsOut' : a.guid = b.guid =>
           \A f \in Fields : a.vals[f] # NoVal => b.vals[f] = a.vals[f]]_webVars
  <2> SUFFICES ASSUME Unique(addrsOut), WebNext
               PROVE  Keeps(addrsOut, addrsOut')
    BY DEF OneEach, Keeps
  <2>1. CASE MergeRow
    BY <2>1, MergeKeeps DEF MergeRow
  <2>2. CASE addrsOut' \subseteq addrsOut
    BY <2>2 DEF Unique, Keeps
  <2>3. SelectAddresses \/ EndOfRows \/ SelectCards \/ SelectKeywords \/ Commit
          => addrsOut' \subseteq addrsOut
    BY DEF SelectAddresses, EndOfRows, SelectCards, SelectKeywords, Commit
  <2> QED
    BY <2>1, <2>2, <2>3 DEF WebNext, WebStep
<1> QED
  BY <1>1, OneEachInit, OneEachStep, PTL DEF WebSpec, FirstValueStays

-----------------------------------------------------------------------------
(* Where the values are: in the tables, in the rows of the statement and   *)
(* in the addresses, all of them of their guid at some time.               *)
Own ==
  /\ table \in [Tables -> SUBSET Row]
  /\ Values(All(table)) \subseteq ever
  /\ Values(rows) \subseteq ever
  /\ Values(addrsOut) \subseteq ever

LEMMA InValues ==
  ASSUME NEW s, NEW x
  PROVE  x \in Values(s) <=>
           /\ x \in Guids \X Fields \X Vals
           /\ \E w \in s, f \in Fields : x = <<w.guid, f, w.vals[f]>>
BY DEF Values

(* A merged row adds its own values to those of the addresses.             *)
LEMMA MergeOwn ==
  ASSUME NEW v, NEW s, NEW w \in s
  PROVE  Values(Merge(v, w)) \subseteq Values(v) \cup Values(s)
<1> DEFINE a == FindOrCreate(v, w.guid)
           n == [guid |-> a.guid, vals |-> Fill(a.vals, w.vals)]
<1>1. a.guid = w.guid /\ (a \in v \/ a = [guid |-> w.guid, vals |-> [f \in Fields |-> NoVal]])
  BY FoundOrMade
<1> SUFFICES ASSUME NEW x \in Values(Merge(v, w))
             PROVE  x \in Values(v) \cup Values(s)
  OBVIOUS
<1>2. PICK b \in Merge(v, w), f \in Fields : x = <<b.guid, f, b.vals[f]>>
  BY InValues
<1>3. x \in Guids \X Fields \X Vals /\ b.vals[f] \in Vals
  BY <1>2, InValues
<1>4. CASE b \in v
  BY <1>2, <1>3, <1>4, InValues
<1>5. CASE b = n
  <2>1. b.guid = w.guid /\ b.vals[f] = IF a.vals[f] # NoVal THEN a.vals[f] ELSE w.vals[f]
    BY <1>1, <1>5 DEF Fill
  <2>2. CASE a.vals[f] # NoVal
    <3>1. a \in v
      BY <1>1, <2>2
    <3> QED
      BY <1>1, <1>2, <1>3, <2>1, <2>2, <3>1, InValues
  <2>3. CASE a.vals[f] = NoVal
    BY <1>2, <1>3, <2>1, <2>3, InValues
  <2> QED
    BY <2>2, <2>3
<1> QED
  BY <1>4, <1>5 DEF Merge

LEMMA OwnStep == Own /\ [WebNext]_webVars => Own'
<1> USE DEF Own
<1> SUFFICES ASSUME Own, [WebNext]_webVars
             PROVE  Own'
  OBVIOUS
<1>1. CASE SelectAddresses
  <2>1. ASSUME NEW x \in Values(rows') PROVE x \in Values(All(table))
    <3>1. PICK u \in rows', f \in Fields : x = <<u.guid, f, u.vals[f]>>
      BY <2>1, InValues
    <3>2. PICK w \in table[stmt] : u = Visible(w)
      BY <1>1 DEF SelectAddresses, TableOf
    <3>3. stmt \in Tables /\ w \in Row /\ w \in All(table)
      BY <1>1 DEF SelectAddresses, All
    <3>4. x \in Guids \X Fields \X Vals /\ u.vals[f] \in Vals
      BY <2>1, <3>1, InValues
    <3>5. u.guid = w.guid /\ (u.vals[f] = NoVal \/ u.vals[f] = w.vals[f])
      <4>1. w.vals \in [Fields -> Vals \cup {NoVal}]
        BY <3>3 DEF Row
      <4>2. CASE u = w
        BY <4>2
      <4>3. CASE u = [w EXCEPT !.vals[Street] = NoVal]
        <5>1. u.guid = w.guid /\ u.vals = [w.vals EXCEPT ![Street] = NoVal]
          BY <3>3, <4>3 DEF Row
        <5> QED
          BY <4>1, <5>1
      <4> QED
        BY <3>2, <4>2, <4>3 DEF Visible
    <3>6. u.vals[f] = w.vals[f]
      BY <3>4, <3>5, WebDataAssumption
    <3> QED
      BY <3>1, <3>3, <3>4, <3>5, <3>6, InValues
  <2>2. UNCHANGED <<table, ever, addrsOut>>
    BY <1>1 DEF SelectAddresses, Quiet
  <2> QED
    BY <2>1, <2>2
<1>2. CASE MergeRow
  <2>1. PICK w \in rows : rows' = rows \ {w} /\ addrsOut' = Merge(addrsOut, w)
    BY <1>2 DEF MergeRow
  <2>2. UNCHANGED <<table, ever>>
    BY <1>2 DEF MergeRow, Quiet
  <2>3. Values(rows') \subseteq Values(rows)
    BY <2>1, InValues
  <2>4. Values(addrsOut') \subseteq Values(addrsOut) \cup Values(rows)
    BY <2>1, MergeOwn
  <2> QED
    BY <2>2, <2>3, <2>4
<1>3. CASE EndOfRows
  <2>1. addrsOut' \subseteq addrsOut /\ UNCHANGED <<table, ever, rows>>
    BY <1>3 DEF EndOfRows, Quiet
  <2>2. Values(addrsOut') \subseteq Values(addrsOut)
    BY <2>1, InValues
  <2> QED
    BY <2>1, <2>2
<1>4. CASE SelectCards \/ SelectKeywords
  BY <1>4 DEF SelectCards, SelectKeywords, Quiet
<1>5. CASE Commit
  <2>1. ever' = ever \cup Values(All(table')) /\ UNCHANGED <<rows, addrsOut>>
    BY <1>5 DEF Commit
  <2>2. table' \in [Tables -> SUBSET Row]
    <3>1. ASSUME NEW i \in Tables, NEW g \in Guids, Rewrite(i, g)
          PROVE  table' \in [Tables -> SUBSET Row]
      BY <3>1, WebDataAssumption DEF Rewrite, OfGuid
    <3>2. ASSUME NEW i \in Tables, NEW j \in Tables, NEW g \in Guids, Migrate(i, j, g)
          PROVE  table' \in [Tables -> SUBSET Row]
      <4>1. Tokens(OfGuid(table[i], g)) \subseteq Row
        BY DEF Tokens
      <4> QED
        BY <3>2, <4>1 DEF Migrate, OfGuid
    <3> QED
      BY <1>5, <3>1, <3>2 DEF Commit, EditCards, EditKeywords
  <2> QED
    BY <2>1, <2>2
<1>6. CASE UNCHANGED webVars
  BY <1>6 DEF webVars
<1> QED
  BY <1>1, <1>2, <1>3, <1>4, <1>5, <1>6 DEF WebNext, WebStep

(* FieldsFromOwnRows: no value of one guid gets into another's address.    *)
THEOREM FieldsAreOwn == WebSpec => []FieldsFromOwnRows
<1>1. WebInit => Own
  <2> SUFFICES ASSUME WebInit PROVE Own
    OBVIOUS
  <2>1. PICK d \in Databases : table = d.table
    BY DEF WebInit
  <2>2. table \in [Tables -> SUBSET Row]
    BY <2>1, WebDataAssumption DEF Database
  <2>3. Values({}) = {}
    BY DEF Values
  <2> QED
    BY <2>2, <2>3 DEF WebInit, Own
<1>2. Own => FieldsFromOwnRows
  BY DEF Own, FieldsFromOwnRows
<1> QED
  BY <1>1, <1>2, OwnStep, PTL DEF WebSpec

-----------------------------------------------------------------------------
(* The types of the merge.                                                 *)

(* A row as the statement shows it: the same, but for the street.          *)
LEMMA VisibleRow ==
  ASSUME NEW w \in Row
  PROVE  /\ Visible(w) \in Row
         /\ Visible(w).guid = w.guid
         /\ \A f \in Fields : f # Street => Visible(w).vals[f] = w.vals[f]
<1>1. w.guid \in Guids /\ w.vals \in [Fields -> Vals \cup {NoVal}]
  BY DEF Row
<1>2. CASE stmt = 1 /\ ~streetColumn
  <2>1. Visible(w) = [guid |-> w.guid, vals |-> [w.vals EXCEPT ![Street] = NoVal]]
    BY <1>2 DEF Visible, Row
  <2>2. [w.vals EXCEPT ![Street] = NoVal] \in [Fields -> Vals \cup {NoVal}]
    BY <1>1
  <2> QED
    BY <1>1, <2>1, <2>2 DEF Row
<1>3. CASE ~(stmt = 1 /\ ~streetColumn)
  BY <1>1, <1>3 DEF Visible
<1> QED
  BY <1>2, <1>3

LEMMA MergeTyped ==
  ASSUME NEW v \in SUBSET Row, NEW w \in Row
  PROVE  Merge(v, w) \subseteq Row
<1> DEFINE a == FindOrCreate(v, w.guid)
<1>1. w.guid \in Guids /\ w.vals \in [Fields -> Vals \cup {NoVal}]
  BY DEF Row
<1>2. a \in Row
  <2>1. [guid |-> w.guid, vals |-> [f \in Fields |-> NoVal]] \in Row
    BY <1>1 DEF Row
  <2> QED
    BY <2>1, FoundOrMade
<1>3. a.guid \in Guids /\ a.vals \in [Fields -> Vals \cup {NoVal}]
  BY <1>2 DEF Row
<1>4. Fill(a.vals, w.vals) \in [Fields -> Vals \cup {NoVal}]
  BY <1>1, <1>3 DEF Fill
<1>5. [guid |-> a.guid, vals |-> Fill(a.vals, w.vals)] \in Row
  BY <1>3, <1>4 DEF Row
<1> QED
  BY <1>5 DEF Merge

LEMMA TopTyped ==
  ASSUME NEW s \in Seq(Engines), NEW n \in Int
  PROVE  Top(s, n) \in Seq(Engines)
<1>1. CASE n > 0 /\ n < Len(s)
  BY <1>1, LenProperties, SubSeqProperties DEF Top
<1>2. CASE ~(n > 0 /\ n < Len(s))
  BY <1>2 DEF Top
<1> QED
  BY <1>1, <1>2

LEMMA CommitTyped ==
  ASSUME WebTypeOK, Commit
  PROVE  /\ table' \in [Tables -> SUBSET Row]
         /\ masked' \subseteq Cards /\ local' \subseteq Cards
         /\ keywords' \in Seq(Engines)
         /\ rewritten' \subseteq Guids
<1>1. ASSUME NEW i \in Tables, NEW g \in Guids, Rewrite(i, g)
      PROVE  table' \in [Tables -> SUBSET Row] /\ rewritten' \subseteq Guids
  BY <1>1, WebDataAssumption DEF Rewrite, OfGuid, WebTypeOK
<1>2. ASSUME NEW i \in Tables, NEW j \in Tables, NEW g \in Guids, Migrate(i, j, g)
      PROVE  table' \in [Tables -> SUBSET Row]
  <2>1. Tokens(OfGuid(table[i], g)) \subseteq Row
    BY DEF Tokens
  <2> QED
    BY <1>2, <2>1 DEF Migrate, OfGuid, WebTypeOK
<1>3. EditCards => masked' \subseteq Cards /\ local' \subseteq Cards
  BY DEF EditCards, WebTypeOK
<1>4. EditKeywords => keywords' \in Seq(Engines)
  BY DEF EditKeywords, WebTypeOK
<1> QED
  BY <1>1, <1>2, <1>3, <1>4 DEF Commit, Rewrite, Migrate, EditCards, EditKeywords, WebTypeOK

LEMMA WebTypeInit == WebInit => WebTypeOK
<1> SUFFICES ASSUME WebInit PROVE WebTypeOK
  OBVIOUS
<1>1. PICK d \in Databases :
        /\ table = d.table /\ streetColumn = d.streetColumn
        /\ masked = d.masked /\ local = d.local
        /\ keywords = d.keywords /\ limit = d.limit
  BY DEF WebInit
<1>2. /\ table \in [Tables -> SUBSET Row] /\ streetColumn \in BOOLEAN
      /\ masked \subseteq Cards /\ local \subseteq Cards
      /\ keywords \in Seq(Engines) /\ limit \in Int
  BY <1>1, WebDataAssumption DEF Database
<1>3. commits \in 0 .. MaxCommits /\ stmt \in 1 .. 7
  BY WebDataAssumption DEF WebInit
<1>4. ever \subseteq Guids \X Fields \X Vals
  BY DEF WebInit, Values
<1>5. /\ rows = {} /\ addrsOut = {} /\ cardsOut = {} /\ enginesOut = <<>>
      /\ open = FALSE /\ still = TRUE /\ rewritten = {}
  BY DEF WebInit
<1>6. enginesOut \in Seq(Engines)
  BY <1>5
<1> QED
  BY <1>2, <1>3, <1>4, <1>5, <1>6 DEF WebTypeOK

LEMMA WebTypeStep == WebTypeOK /\ [WebNext]_webVars => WebTypeOK'
<1> SUFFICES ASSUME WebTypeOK, [WebNext]_webVars PROVE WebTypeOK'
  OBVIOUS
<1> USE DEF WebTypeOK
<1>1. CASE SelectAddresses
  <2>1. stmt \in Tables /\ rows' = {Visible(w) : w \in table[stmt]}
    BY <1>1 DEF SelectAddresses, TableOf
  <2>2. rows' \subseteq Row
    BY <2>1, VisibleRow
  <2> QED
    BY <1>1, <2>2 DEF SelectAddresses, Quiet
<1>2. CASE MergeRow
  <2>1. addrsOut' \subseteq Row /\ rows' \subseteq Row
    BY <1>2, MergeTyped DEF MergeRow
  <2> QED
    BY <1>2, <2>1 DEF MergeRow, Quiet
<1>3. CASE EndOfRows
  <2>1. stmt' \in 1 .. 7 /\ open' = FALSE
    BY <1>3 DEF EndOfRows
  <2>2. addrsOut' \subseteq Row
    BY <1>3 DEF EndOfRows
  <2> QED
    BY <1>3, <2>1, <2>2 DEF EndOfRows, Quiet
<1>4. CASE SelectCards
  <2>1. cardsOut' \subseteq Cards \X {"server", "local"}
    BY <1>4 DEF SelectCards
  <2> QED
    BY <1>4, <2>1 DEF SelectCards, Quiet
<1>5. CASE SelectKeywords
  <2>1. enginesOut' \in Seq(Engines) /\ stmt' \in 1 .. 7
    BY <1>5, TopTyped DEF SelectKeywords
  <2> QED
    BY <1>5, <2>1 DEF SelectKeywords, Quiet
<1>6. CASE Commit
  <2>1. commits' \in 0 .. MaxCommits
    BY <1>6, WebDataAssumption DEF Commit
  <2>2. ever' \subseteq Guids \X Fields \X Vals
    BY <1>6 DEF Commit, Values
  <2> QED
    BY <1>6, <2>1, <2>2, CommitTyped DEF Commit
<1>7. CASE UNCHANGED webVars
  BY <1>7 DEF webVars
<1> QED
  BY <1>1, <1>2, <1>3, <1>4, <1>5, <1>6, <1>7 DEF WebNext, WebStep

(* WebTypeOK: the types of the merge, of what it reads and what it gives.  *)
THEOREM WebDataTypeOK == WebSpec => []WebTypeOK
BY WebTypeInit, WebTypeStep, PTL DEF WebSpec

-----------------------------------------------------------------------------
(* MigratedAddressIsKept: the rows of a useful address are ahead of the    *)
(* statements, or were read.  An update moves them ahead only.             *)
HasUseful(s, g) == \E w \in s : w.guid = g /\ IsUseful(w)

RowsInv ==
  /\ ~open => rows = {}
  /\ stmt \notin Tables => ~open

ReadOrAhead ==
  \A i \in Tables : \A w \in table[i] :
    w.guid \notin rewritten /\ IsUseful(w) =>
      \/ i > stmt \/ (i = stmt /\ ~open)
      \/ HasUseful(rows, w.guid) \/ HasUseful(addrsOut, w.guid)

KeptInv == WebTypeOK /\ RowsInv /\ ReadOrAhead

LEMMA RowsStep == WebTypeOK /\ RowsInv /\ [WebNext]_webVars => RowsInv'
<1> SUFFICES ASSUME WebTypeOK, RowsInv, [WebNext]_webVars PROVE RowsInv'
  OBVIOUS
<1> USE DEF RowsInv
<1>1. CASE SelectAddresses
  BY <1>1 DEF SelectAddresses
<1>2. CASE MergeRow
  BY <1>2 DEF MergeRow
<1>3. CASE EndOfRows
  BY <1>3 DEF EndOfRows
<1>4. CASE SelectCards \/ SelectKeywords
  BY <1>4 DEF SelectCards, SelectKeywords
<1>5. CASE Commit
  BY <1>5 DEF Commit
<1>6. CASE UNCHANGED webVars
  BY <1>6 DEF webVars
<1> QED
  BY <1>1, <1>2, <1>3, <1>4, <1>5, <1>6 DEF WebNext, WebStep

(* Merging adds what is useful of a row and keeps what is useful already.  *)
LEMMA MergeUseful ==
  ASSUME NEW v, NEW w, NEW g,
         HasUseful(v, g) \/ (w.guid = g /\ IsUseful(w))
  PROVE  HasUseful(Merge(v, w), g)
<1> DEFINE a == FindOrCreate(v, w.guid)
           n == [guid |-> a.guid, vals |-> Fill(a.vals, w.vals)]
<1>1. a.guid = w.guid /\ n.guid = w.guid /\ n \in Merge(v, w)
  BY FoundOrMade DEF Merge
<1>2. \A f \in Useful : (a.vals[f] # NoVal \/ w.vals[f] # NoVal) => n.vals[f] # NoVal
  BY WebDataAssumption DEF Fill
<1> HIDE DEF n
<1>3. CASE \E u \in v \ {a} : u.guid = g /\ IsUseful(u)
  BY <1>3 DEF HasUseful, Merge
<1>4. CASE a.guid = g /\ IsUseful(a)
  BY <1>1, <1>2, <1>4 DEF HasUseful, IsUseful
<1>5. CASE w.guid = g /\ IsUseful(w)
  BY <1>1, <1>2, <1>5 DEF HasUseful, IsUseful
<1> QED
  BY <1>3, <1>4, <1>5 DEF HasUseful

(* What a commit leaves of a useful address it did not rewrite was there,  *)
(* in the same table or an earlier one.                                    *)
LEMMA CommitMovesOn ==
  ASSUME WebTypeOK, Commit,
         NEW i \in Tables, NEW w \in table'[i], w.guid \notin rewritten', IsUseful(w)
  PROVE  /\ w.guid \notin rewritten
         /\ \E k \in Tables : k <= i /\ \E u \in table[k] : u.guid = w.guid /\ IsUseful(u)
<1> USE DEF WebTypeOK
<1>1. rewritten \subseteq rewritten'
  BY DEF Commit, Rewrite, Migrate, EditCards, EditKeywords
<1>2. ASSUME NEW k \in Tables, NEW g \in Guids, Rewrite(k, g)
      PROVE  w \in table[i]
  <2>1. PICK s \in RowSets :
          table' = [table EXCEPT ![k] = (@ \ OfGuid(@, g)) \cup OfGuid(s, g)]
    BY <1>2 DEF Rewrite
  <2>2. w \notin OfGuid(s, g)
    BY <1>2 DEF Rewrite, OfGuid
  <2> QED
    BY <2>1, <2>2
<1>3. ASSUME NEW k \in Tables, NEW j \in Tables, NEW g \in Guids, Migrate(k, j, g)
      PROVE  w \in table[i] \/ (k <= i /\ \E u \in table[k] : u.guid = w.guid /\ IsUseful(u))
  <2>1. /\ table' = [table EXCEPT ![k] = @ \ OfGuid(@, g),
                                  ![j] = @ \cup Tokens(OfGuid(table[k], g))]
        /\ k < j
    BY <1>3 DEF Migrate
  <2>2. w \in table[i] \/ (i = j /\ w \in Tokens(OfGuid(table[k], g)))
    BY <2>1
  <2>3. ASSUME i = j, w \in Tokens(OfGuid(table[k], g))
        PROVE  \E u \in table[k] : u.guid = w.guid /\ IsUseful(u)
    <3>1. PICK u \in OfGuid(table[k], g), h \in TokenFields :
            w = [guid |-> u.guid,
                 vals |-> [f \in Fields |-> IF f = h THEN u.vals[h] ELSE NoVal]]
      BY <2>3 DEF Tokens
    <3>2. PICK f \in Useful : w.vals[f] # NoVal
      BY DEF IsUseful
    <3>3. w.guid = u.guid /\ u.vals[f] # NoVal
      BY <3>1, <3>2, WebDataAssumption
    <3> QED
      BY <3>1, <3>3 DEF OfGuid, IsUseful
  <2> QED
    BY <2>1, <2>2, <2>3
<1>4. EditCards \/ EditKeywords => w \in table[i]
  BY DEF EditCards, EditKeywords
<1> QED
  BY <1>1, <1>2, <1>3, <1>4 DEF Commit

LEMMA KeptStep == KeptInv /\ [WebNext]_webVars => ReadOrAhead'
<1> SUFFICES ASSUME WebTypeOK, RowsInv, ReadOrAhead, [WebNext]_webVars
             PROVE  ReadOrAhead'
  BY DEF KeptInv
<1> USE DEF WebTypeOK
<1>1. CASE SelectAddresses
  <2>1. /\ stmt \in Tables /\ ~open /\ open' = TRUE
        /\ rows' = {Visible(w) : w \in table[stmt]}
        /\ UNCHANGED <<stmt, addrsOut, table, rewritten>>
    BY <1>1 DEF SelectAddresses, Quiet, TableOf
  <2>2. rows = {}
    BY <2>1 DEF RowsInv
  <2>3. ASSUME NEW w \in table[stmt], IsUseful(w)
        PROVE  HasUseful(rows', w.guid)
    <3>1. w \in Row /\ Visible(w) \in rows'
      BY <2>1
    <3>2. Visible(w).guid = w.guid /\ IsUseful(Visible(w))
      BY <2>3, <3>1, VisibleRow, WebDataAssumption DEF IsUseful
    <3> QED
      BY <3>1, <3>2 DEF HasUseful
  <2>4. \A g : ~HasUseful(rows, g)
    BY <2>2 DEF HasUseful
  <2> QED
    BY <2>1, <2>3, <2>4 DEF ReadOrAhead
<1>2. CASE MergeRow
  <2>1. PICK w \in rows : rows' = rows \ {w} /\ addrsOut' = Merge(addrsOut, w)
    BY <1>2 DEF MergeRow
  <2>2. UNCHANGED <<table, rewritten, stmt, open>>
    BY <1>2 DEF MergeRow, Quiet
  <2>3. \A g : HasUseful(rows, g) => HasUseful(rows', g) \/ HasUseful(addrsOut', g)
    <3> SUFFICES ASSUME NEW g, NEW u \in rows, u.guid = g, IsUseful(u), u \notin rows'
                 PROVE  HasUseful(addrsOut', g)
      BY DEF HasUseful
    <3>1. u = w
      BY <2>1
    <3> QED
      BY <2>1, <3>1, MergeUseful
  <2>4. \A g : HasUseful(addrsOut, g) => HasUseful(addrsOut', g)
    BY <2>1, MergeUseful
  <2> QED
    BY <2>2, <2>3, <2>4 DEF ReadOrAhead
<1>3. CASE EndOfRows
  <2>1. /\ stmt \in Tables /\ rows = {} /\ stmt' = stmt + 1 /\ open' = FALSE
        /\ UNCHANGED <<table, rewritten, rows>>
    BY <1>3 DEF EndOfRows, Quiet
  <2>2. \A g : HasUseful(addrsOut, g) => HasUseful(addrsOut', g)
    BY <1>3 DEF EndOfRows, HasUseful
  <2>3. \A g : ~HasUseful(rows, g)
    BY <2>1 DEF HasUseful
  <2>4. \A i \in Tables : i > stmt => i > stmt' \/ i = stmt'
    BY <2>1
  <2>5. \A i \in Tables : \A w \in table[i] :
          w.guid \notin rewritten /\ IsUseful(w) => i > stmt \/ HasUseful(addrsOut, w.guid)
    BY <1>3, <2>3 DEF ReadOrAhead, EndOfRows
  <2> QED
    BY <2>1, <2>2, <2>4, <2>5 DEF ReadOrAhead
<1>4. CASE SelectCards \/ SelectKeywords
  <2>1. stmt > 3 /\ stmt' > 3 /\ UNCHANGED <<open, rows, addrsOut, table, rewritten>>
    BY <1>4 DEF SelectCards, SelectKeywords, Quiet
  <2> QED
    BY <2>1 DEF ReadOrAhead
<1>5. CASE Commit
  <2>1. UNCHANGED <<stmt, open, rows, addrsOut>>
    BY <1>5 DEF Commit
  <2>2. ASSUME NEW i \in Tables, NEW w \in table'[i], w.guid \notin rewritten', IsUseful(w)
        PROVE  \/ i > stmt \/ (i = stmt /\ ~open)
               \/ HasUseful(rows, w.guid) \/ HasUseful(addrsOut, w.guid)
    <3>1. PICK k \in Tables : k <= i /\ \E u \in table[k] : u.guid = w.guid /\ IsUseful(u)
      BY <1>5, <2>2, CommitMovesOn
    <3>2. \/ k > stmt \/ (k = stmt /\ ~open)
          \/ HasUseful(rows, w.guid) \/ HasUseful(addrsOut, w.guid)
      BY <1>5, <2>2, <3>1, CommitMovesOn DEF ReadOrAhead
    <3> QED
      BY <3>1, <3>2
  <2> QED
    BY <2>1, <2>2 DEF ReadOrAhead
<1>6. CASE UNCHANGED webVars
  BY <1>6 DEF webVars, ReadOrAhead
<1> QED
  BY <1>1, <1>2, <1>3, <1>4, <1>5, <1>6 DEF WebNext, WebStep

LEMMA KeptInit == WebInit => KeptInv
<1> SUFFICES ASSUME WebInit PROVE KeptInv
  OBVIOUS
<1>1. stmt = 1 /\ open = FALSE /\ rows = {}
  BY DEF WebInit
<1> QED
  BY <1>1, WebTypeInit DEF KeptInv, RowsInv, ReadOrAhead

(* MigratedAddressIsKept: whatever a browser commits between the SELECTs,  *)
(* an address it has only moved to the table of a newer schema is found.   *)
THEOREM MigratedAddressesAreKept == WebSpec => []MigratedAddressIsKept
<1>1. KeptInv /\ [WebNext]_webVars => KeptInv'
  BY WebTypeStep, RowsStep, KeptStep DEF KeptInv
<1>2. KeptInv => MigratedAddressIsKept
  <2> SUFFICES ASSUME KeptInv, stmt > 3, NEW w \in All(table),
                      w.guid \notin rewritten, IsUseful(w)
               PROVE  \E a \in addrsOut : a.guid = w.guid
    BY DEF MigratedAddressIsKept
  <2>1. PICK i \in Tables : w \in table[i]
    BY DEF All
  <2>2. stmt \in 1 .. 7 /\ rows = {}
    BY DEF KeptInv, WebTypeOK, RowsInv
  <2>3. HasUseful(addrsOut, w.guid)
    BY <2>1, <2>2 DEF KeptInv, ReadOrAhead, HasUseful
  <2> QED
    BY <2>3 DEF HasUseful
<1> QED
  BY <1>1, <1>2, KeptInit, PTL DEF WebSpec

-----------------------------------------------------------------------------
(* QuietMergeIsExact: in a database nobody writes to, the addresses are    *)
(* what the rows seen so far make of them.                                 *)
RowsReadOf(i) == IF i = 1 /\ ~streetColumn
             THEN {[w EXCEPT !.vals[Street] = NoVal] : w \in table[1]} ELSE table[i]

Seen(i) == CASE i < stmt -> RowsReadOf(i)
             [] i = stmt /\ open -> RowsReadOf(i) \ rows
             [] OTHER -> {}

(* The rows s say nothing of a field of g.                                 *)
Silent(s, g, f) == \A w \in s : w.guid = g => w.vals[f] = NoVal

Says(s, g, f, val) == \E w \in s : w.guid = g /\ w.vals[f] = val

(* An address has of each field what the first table that has one says.    *)
Merged(a) == \A f \in Fields :
  IF a.vals[f] = NoVal THEN \A i \in Tables : Silent(Seen(i), a.guid, f)
  ELSE \E i \in Tables : /\ Says(Seen(i), a.guid, f, a.vals[f])
                         /\ \A j \in Tables : j < i => Silent(Seen(j), a.guid, f)

QuietMerge ==
  /\ open => rows \subseteq RowsReadOf(stmt)
  /\ \A a \in addrsOut : Merged(a) /\ (stmt > 3 => IsUseful(a))
  /\ \A i \in Tables : \A w \in Seen(i) :
       stmt <= 3 \/ IsUseful(w) => \E a \in addrsOut : a.guid = w.guid
  /\ cardsOut = (IF stmt > 4 THEN masked \X {"server"} ELSE {})
                  \cup IF stmt > 5 THEN local \X {"local"} ELSE {}
  /\ stmt = 7 => enginesOut = Top(keywords, limit)

MergeInv == WebTypeOK /\ RowsInv /\ OneEach /\ (still => QuietMerge)

(* What a statement shows of its table is what it reads.                   *)
LEMMA SelectReads ==
  ASSUME stmt \in Tables
  PROVE  {Visible(w) : w \in table[stmt]} = RowsReadOf(stmt)
<1>1. CASE stmt = 1 /\ ~streetColumn
  BY <1>1 DEF Visible, RowsReadOf
<1>2. CASE ~(stmt = 1 /\ ~streetColumn)
  <2>1. \A w \in table[stmt] : Visible(w) = w
    BY <1>2 DEF Visible
  <2>2. RowsReadOf(stmt) = table[stmt]
    BY <1>2 DEF RowsReadOf
  <2> QED
    BY <2>1, <2>2
<1> QED
  BY <1>1, <1>2

(* A merged row is one more row of its table seen.                         *)
LEMMA SeenGrows ==
  ASSUME WebTypeOK, RowsInv, QuietMerge, MergeRow,
         NEW w \in rows, rows' = rows \ {w}, NEW i \in Tables
  PROVE  /\ Seen(i)' = IF i = stmt THEN Seen(i) \cup {w} ELSE Seen(i)
         /\ i > stmt => Seen(i) = {}
         /\ open
<1>1. open /\ rows \subseteq RowsReadOf(stmt) /\ stmt \in Tables
  BY DEF RowsInv, QuietMerge, MergeRow
<1>2. UNCHANGED <<stmt, open>> /\ RowsReadOf(i)' = RowsReadOf(i)
  BY DEF MergeRow, Quiet, RowsReadOf
<1>3. Seen(i)' = CASE i < stmt -> RowsReadOf(i)
                   [] i = stmt -> RowsReadOf(i) \ rows'
                   [] OTHER -> {}
  BY <1>1, <1>2 DEF Seen
<1>4. i = stmt => Seen(i) = RowsReadOf(stmt) \ rows
  BY <1>1 DEF Seen
<1>5. i = stmt => Seen(i)' = Seen(i) \cup {w}
  BY <1>1, <1>3, <1>4
<1>6. i < stmt => Seen(i)' = RowsReadOf(i) /\ Seen(i) = RowsReadOf(i)
  BY <1>1, <1>3 DEF Seen
<1>7. i > stmt => Seen(i)' = {} /\ Seen(i) = {}
  BY <1>1, <1>3 DEF Seen
<1> QED
  BY <1>1, <1>5, <1>6, <1>7

(* The address a row goes to has of each field what was seen before it; a  *)
(* new address has nothing, and nothing was seen of it.                    *)
LEMMA FoundMerged ==
  ASSUME QuietMerge, stmt <= 3, NEW g
  PROVE  Merged(FindOrCreate(addrsOut, g))
<1>1. CASE \E a \in addrsOut : a.guid = g
  BY <1>1, FoundOrMade DEF QuietMerge
<1>2. CASE ~\E a \in addrsOut : a.guid = g
  <2> DEFINE a == [guid |-> g, vals |-> [f \in Fields |-> NoVal]]
  <2>1. FindOrCreate(addrsOut, g) = a
    BY <1>2, FoundOrMade
  <2>2. \A i \in Tables : \A w \in Seen(i) : w.guid # g
    BY <1>2 DEF QuietMerge
  <2>3. a.guid = g /\ \A f \in Fields : a.vals[f] = NoVal
    OBVIOUS
  <2> HIDE DEF a
  <2>4. Merged(a)
    BY <2>2, <2>3 DEF Merged, Silent
  <2> QED
    BY <2>1, <2>4
<1> QED
  BY <1>1, <1>2

(* It still is what was seen once the row is one of those.                 *)
LEMMA FillMerged ==
  ASSUME WebTypeOK, RowsInv, QuietMerge, MergeRow,
         NEW w \in rows, rows' = rows \ {w},
         NEW a, Merged(a), a.guid = w.guid,
         NEW n, n.guid = w.guid, n.vals = Fill(a.vals, w.vals)
  PROVE  Merged(n)'
<1>1. \A i \in Tables : /\ Seen(i)' = IF i = stmt THEN Seen(i) \cup {w} ELSE Seen(i)
                        /\ i > stmt => Seen(i) = {}
  BY SeenGrows
<1>2. stmt \in Tables
  BY DEF MergeRow
<1> SUFFICES ASSUME NEW f \in Fields
             PROVE  IF n.vals[f] = NoVal THEN \A i \in Tables : Silent(Seen(i)', n.guid, f)
                    ELSE \E i \in Tables :
                           /\ Says(Seen(i)', n.guid, f, n.vals[f])
                           /\ \A j \in Tables : j < i => Silent(Seen(j)', n.guid, f)
  BY DEF Merged, Silent, Says
<1>3. n.vals[f] = IF a.vals[f] # NoVal THEN a.vals[f] ELSE w.vals[f]
  BY DEF Fill
<1>4. CASE a.vals[f] # NoVal
  <2>1. PICK i \in Tables : /\ Says(Seen(i), a.guid, f, a.vals[f])
                            /\ \A j \in Tables : j < i => Silent(Seen(j), a.guid, f)
    BY <1>4 DEF Merged
  <2>2. i <= stmt
    BY <1>1, <1>2, <2>1 DEF Says
  <2>3. Says(Seen(i)', n.guid, f, n.vals[f])
    BY <1>1, <1>3, <1>4, <2>1 DEF Says
  <2>4. \A j \in Tables : j < i => Silent(Seen(j)', n.guid, f)
    BY <1>1, <1>2, <2>1, <2>2
  <2> QED
    BY <1>3, <1>4, <2>3, <2>4
<1>5. CASE a.vals[f] = NoVal
  <2>1. \A i \in Tables : Silent(Seen(i), n.guid, f)
    BY <1>5 DEF Merged
  <2>2. CASE w.vals[f] = NoVal
    BY <1>1, <1>3, <1>5, <2>1, <2>2 DEF Silent
  <2>3. CASE w.vals[f] # NoVal
    <3>1. PICK i \in Tables : i = stmt
      BY <1>2
    <3>2. Seen(i)' = Seen(i) \cup {w}
      BY <1>1, <3>1
    <3>3. Says(Seen(i)', n.guid, f, n.vals[f])
      BY <1>3, <1>5, <3>2 DEF Says
    <3>4. \A j \in Tables : j < i => Silent(Seen(j)', n.guid, f)
      BY <1>1, <2>1, <3>1
    <3> QED
      BY <1>3, <1>5, <2>3, <3>3, <3>4
  <2> QED
    BY <2>2, <2>3
<1> QED
  BY <1>4, <1>5

LEMMA MergeQuiet ==
  ASSUME MergeInv, still, MergeRow
  PROVE  QuietMerge'
<1> USE DEF MergeInv
<1>1. PICK w \in rows : rows' = rows \ {w} /\ addrsOut' = Merge(addrsOut, w)
  BY DEF MergeRow
<1>2. /\ stmt \in Tables
      /\ UNCHANGED <<stmt, open, cardsOut, enginesOut, masked, local, keywords, limit>>
  BY DEF MergeRow, Quiet
<1>3. \A i \in Tables : /\ Seen(i)' = IF i = stmt THEN Seen(i) \cup {w} ELSE Seen(i)
                        /\ i > stmt => Seen(i) = {}
  BY <1>1, SeenGrows
<1>4. PICK a : a = FindOrCreate(addrsOut, w.guid)
  OBVIOUS
<1>5. PICK n : n = [guid |-> a.guid, vals |-> Fill(a.vals, w.vals)]
  OBVIOUS
<1>6. a.guid = w.guid /\ n.guid = w.guid /\ n.vals = Fill(a.vals, w.vals)
  BY <1>4, <1>5, FoundOrMade
<1>7. addrsOut' = (addrsOut \ {a}) \cup {n} /\ \A b \in addrsOut \ {a} : b.guid # w.guid
  BY <1>1, <1>6, <1>4, <1>5, FoundOrMade DEF Merge, OneEach, Unique
<1>8. Merged(a)
  BY <1>2, <1>4, FoundMerged
<1>9. Merged(n)'
  BY <1>1, <1>6, <1>8, FillMerged
<1>10. ASSUME NEW b \in addrsOut \ {a} PROVE Merged(b)'
  <2>1. Merged(b) /\ b.guid # w.guid
    BY <1>7 DEF QuietMerge
  <2>2. \A i \in Tables, f \in Fields :
          /\ Silent(Seen(i), b.guid, f) => Silent(Seen(i)', b.guid, f)
          /\ Says(Seen(i), b.guid, f, b.vals[f]) => Says(Seen(i)', b.guid, f, b.vals[f])
    BY <1>3, <2>1 DEF Silent, Says
  <2>3. \A f \in Fields :
          IF b.vals[f] = NoVal THEN \A i \in Tables : Silent(Seen(i)', b.guid, f)
          ELSE \E i \in Tables : /\ Says(Seen(i)', b.guid, f, b.vals[f])
                                 /\ \A j \in Tables : j < i => Silent(Seen(j)', b.guid, f)
    BY <2>1, <2>2 DEF Merged
  <2> QED
    BY <2>3 DEF Merged, Silent, Says
<1>11. \A b \in addrsOut' : Merged(b)' /\ (stmt' > 3 => IsUseful(b))
  BY <1>2, <1>7, <1>9, <1>10
<1>12. \A i \in Tables : \A u \in Seen(i)' : \E b \in addrsOut' : b.guid = u.guid
  BY <1>2, <1>3, <1>6, <1>7 DEF QuietMerge
<1>13. open' => rows' \subseteq RowsReadOf(stmt)'
  BY <1>1, <1>2 DEF QuietMerge, RowsReadOf, MergeRow, Quiet
<1>14. /\ cardsOut' = (IF stmt' > 4 THEN masked' \X {"server"} ELSE {})
                        \cup IF stmt' > 5 THEN local' \X {"local"} ELSE {}
       /\ stmt' # 7
  BY <1>2 DEF QuietMerge
<1> QED
  BY <1>11, <1>12, <1>13, <1>14 DEF QuietMerge

(* Once every row is merged, the addresses without a useful field go: those *)
(* of which no useful row was seen.                                        *)
LEMMA EndQuiet ==
  ASSUME MergeInv, still, EndOfRows
  PROVE  QuietMerge'
<1> USE DEF MergeInv
<1>1. /\ stmt \in Tables /\ open /\ rows = {}
      /\ stmt' = stmt + 1 /\ open' = FALSE
      /\ addrsOut' = IF stmt = 3 THEN {a \in addrsOut : IsUseful(a)} ELSE addrsOut
      /\ UNCHANGED <<cardsOut, enginesOut, masked, local, keywords, limit>>
  BY DEF EndOfRows, Quiet
<1>2. ASSUME NEW i \in Tables PROVE Seen(i)' = Seen(i)
  <2>1. RowsReadOf(i)' = RowsReadOf(i)
    BY DEF EndOfRows, Quiet, RowsReadOf
  <2>2. Seen(i)' = IF i < stmt + 1 THEN RowsReadOf(i) ELSE {}
    BY <1>1, <2>1 DEF Seen
  <2>3. Seen(i) = IF i < stmt + 1 THEN RowsReadOf(i) ELSE {}
    BY <1>1 DEF Seen
  <2> QED
    BY <2>2, <2>3
<1>3. \A a \in addrsOut' : Merged(a)' /\ (stmt' > 3 => IsUseful(a))
  <2> SUFFICES ASSUME NEW a \in addrsOut' PROVE Merged(a)' /\ (stmt' > 3 => IsUseful(a))
    OBVIOUS
  <2>1. Merged(a)
    BY <1>1 DEF QuietMerge
  <2>2. Merged(a)'
    BY <1>2, <2>1 DEF Merged
  <2> QED
    BY <1>1, <2>2
<1>4. ASSUME NEW i \in Tables, NEW w \in Seen(i), stmt + 1 <= 3 \/ IsUseful(w)
      PROVE  \E a \in addrsOut' : a.guid = w.guid
  <2>1. PICK a \in addrsOut : a.guid = w.guid
    BY <1>1 DEF QuietMerge
  <2>2. CASE stmt # 3
    BY <1>1, <2>1, <2>2
  <2>3. CASE stmt = 3
    <3>1. PICK f \in Useful : w.vals[f] # NoVal
      BY <1>4, <2>3 DEF IsUseful
    <3>2. f \in Fields
      BY <3>1, WebDataAssumption
    <3>3. a.vals[f] # NoVal
      BY <2>1, <3>1, <3>2 DEF QuietMerge, Merged, Silent
    <3> QED
      BY <1>1, <2>1, <3>3 DEF IsUseful
  <2> QED
    BY <2>2, <2>3
<1>5. \A i \in Tables : \A w \in Seen(i)' :
        stmt' <= 3 \/ IsUseful(w) => \E a \in addrsOut' : a.guid = w.guid
  BY <1>1, <1>2, <1>4
<1>6. cardsOut = {} /\ cardsOut' = {} /\ ~(stmt' > 4) /\ ~(stmt' > 5) /\ stmt' # 7
  BY <1>1 DEF QuietMerge
<1> QED
  BY <1>1, <1>3, <1>5, <1>6 DEF QuietMerge

LEMMA SelectQuiet ==
  ASSUME MergeInv, still, SelectAddresses
  PROVE  QuietMerge'
<1> USE DEF MergeInv
<1>1. /\ stmt \in Tables /\ ~open /\ open' = TRUE
      /\ rows' = {Visible(w) : w \in table[stmt]}
      /\ UNCHANGED <<stmt, addrsOut, cardsOut, enginesOut, masked, local, keywords, limit>>
  BY DEF SelectAddresses, Quiet, TableOf
<1>2. rows' = RowsReadOf(stmt)
  BY <1>1, SelectReads
<1>3. \A i \in Tables : RowsReadOf(i)' = RowsReadOf(i)
  BY DEF SelectAddresses, Quiet, RowsReadOf
<1>4. ASSUME NEW i \in Tables PROVE Seen(i)' = Seen(i)
  <2>1. Seen(i)' = IF i < stmt THEN RowsReadOf(i)
                   ELSE IF i = stmt THEN RowsReadOf(i) \ rows' ELSE {}
    BY <1>1, <1>3 DEF Seen
  <2>2. Seen(i) = IF i < stmt THEN RowsReadOf(i) ELSE {}
    BY <1>1 DEF Seen
  <2>3. CASE i = stmt
    <3>1. ~(i < stmt) /\ RowsReadOf(i) \ rows' = {}
      BY <1>1, <1>2, <2>3
    <3> QED
      BY <2>1, <2>2, <2>3, <3>1
  <2>4. CASE i # stmt
    BY <2>1, <2>2, <2>4
  <2> QED
    BY <2>3, <2>4
<1>5. \A a \in addrsOut' : Merged(a)' /\ (stmt' > 3 => IsUseful(a))
  <2> SUFFICES ASSUME NEW a \in addrsOut' PROVE Merged(a)' /\ (stmt' > 3 => IsUseful(a))
    OBVIOUS
  <2>1. Merged(a)
    BY <1>1 DEF QuietMerge
  <2>2. Merged(a)'
    BY <1>4, <2>1 DEF Merged
  <2> QED
    BY <1>1, <2>2
<1>6. \A i \in Tables : \A w \in Seen(i)' :
        stmt' <= 3 \/ IsUseful(w) => \E a \in addrsOut' : a.guid = w.guid
  BY <1>1, <1>4 DEF QuietMerge
<1>7. rows' \subseteq RowsReadOf(stmt)'
  <2>1. PICK i \in Tables : i = stmt
    BY <1>1
  <2>2. RowsReadOf(i)' = RowsReadOf(stmt)'
    BY <1>1, <2>1
  <2> QED
    BY <1>2, <1>3, <2>1, <2>2
<1>8. cardsOut = {} /\ ~(stmt > 4) /\ ~(stmt > 5) /\ stmt # 7
  BY <1>1 DEF QuietMerge
<1> QED
  BY <1>1, <1>5, <1>6, <1>7, <1>8 DEF QuietMerge

(* The statements of the cards and engines leave the addresses alone.      *)
LEMMA RestQuiet ==
  ASSUME MergeInv, still, SelectCards \/ SelectKeywords
  PROVE  QuietMerge'
<1> USE DEF MergeInv
<1>1. /\ stmt \in {4, 5, 6} /\ stmt' = stmt + 1 /\ ~open
      /\ UNCHANGED <<open, rows, addrsOut, masked, local, keywords, limit>>
  <2>1. CASE SelectCards
    BY <2>1 DEF SelectCards, Quiet, RowsInv
  <2>2. CASE SelectKeywords
    BY <2>2 DEF SelectKeywords, Quiet, RowsInv
  <2> QED
    BY <2>1, <2>2
<1>2. ASSUME NEW i \in Tables PROVE Seen(i)' = Seen(i)
  <2>1. RowsReadOf(i)' = RowsReadOf(i)
    <3>1. UNCHANGED <<table, streetColumn>>
      BY DEF SelectCards, SelectKeywords, Quiet
    <3> QED
      BY <3>1 DEF RowsReadOf
  <2> QED
    BY <1>1, <2>1 DEF Seen
<1>3. \A a \in addrsOut' : Merged(a)' /\ IsUseful(a)
  <2> SUFFICES ASSUME NEW a \in addrsOut' PROVE Merged(a)' /\ IsUseful(a)
    OBVIOUS
  <2>1. Merged(a) /\ IsUseful(a)
    BY <1>1 DEF QuietMerge
  <2>2. Merged(a)'
    BY <1>2, <2>1 DEF Merged
  <2> QED
    BY <2>1, <2>2
<1>4. \A i \in Tables : \A w \in Seen(i)' :
        stmt' <= 3 \/ IsUseful(w) => \E a \in addrsOut' : a.guid = w.guid
  BY <1>1, <1>2 DEF QuietMerge
<1>5. cardsOut' = (IF stmt' > 4 THEN masked' \X {"server"} ELSE {})
                    \cup IF stmt' > 5 THEN local' \X {"local"} ELSE {}
  <2>1. CASE SelectCards
    BY <1>1, <2>1 DEF QuietMerge, SelectCards
  <2>2. CASE SelectKeywords
    BY <1>1, <2>2 DEF QuietMerge, SelectKeywords
  <2> QED
    BY <2>1, <2>2
<1>6. stmt' = 7 => enginesOut' = Top(keywords', limit')
  <2>1. SelectCards => stmt \in {4, 5}
    BY DEF SelectCards
  <2>2. SelectKeywords => enginesOut' = Top(keywords, limit)
    BY DEF SelectKeywords
  <2> QED
    BY <1>1, <2>1, <2>2
<1> QED
  BY <1>1, <1>3, <1>4, <1>5, <1>6 DEF QuietMerge

LEMMA MergeInit == WebInit => MergeInv
<1> SUFFICES ASSUME WebInit PROVE MergeInv
  OBVIOUS
<1>1. /\ stmt = 1 /\ open = FALSE /\ rows = {} /\ addrsOut = {} /\ cardsOut = {}
  BY DEF WebInit
<1>2. \A i \in Tables : Seen(i) = {}
  BY <1>1 DEF Seen
<1>3. QuietMerge
  BY <1>1, <1>2 DEF QuietMerge
<1> QED
  BY <1>1, <1>3, WebTypeInit, OneEachInit DEF MergeInv, RowsInv

LEMMA MergeStep == MergeInv /\ [WebNext]_webVars => MergeInv'
<1> SUFFICES ASSUME MergeInv, [WebNext]_webVars PROVE MergeInv'
  OBVIOUS
<1>1. WebTypeOK' /\ RowsInv' /\ OneEach'
  BY WebTypeStep, RowsStep, OneEachStep DEF MergeInv
<1>2. CASE WebStep
  <2>1. still' = still
    BY <1>2 DEF WebStep, SelectAddresses, MergeRow, EndOfRows, SelectCards,
                SelectKeywords, Quiet
  <2>2. still => QuietMerge'
    BY <1>2, MergeQuiet, EndQuiet, SelectQuiet, RestQuiet DEF WebStep
  <2> QED
    BY <1>1, <2>1, <2>2 DEF MergeInv
<1>3. CASE Commit
  BY <1>1, <1>3 DEF MergeInv, Commit
<1>4. CASE UNCHANGED webVars
  <2>1. \A i \in Tables : Seen(i)' = Seen(i) /\ RowsReadOf(i)' = RowsReadOf(i)
    BY <1>4 DEF webVars, Seen, RowsReadOf
  <2>2. \A a \in addrsOut : Merged(a) => Merged(a)'
    BY <2>1 DEF Merged
  <2>3. RowsReadOf(stmt)' = RowsReadOf(stmt)
    BY <1>4 DEF webVars, RowsReadOf
  <2>4. QuietMerge => QuietMerge'
    BY <1>4, <2>1, <2>2, <2>3 DEF QuietMerge, webVars
  <2> QED
    BY <1>1, <1>4, <2>4 DEF MergeInv, webVars
<1> QED
  BY <1>2, <1>3, <1>4 DEF WebNext

(* The value of a field in the end is one of the first table that has any. *)
Has(i, g, f) == {w.vals[f] : w \in OfGuid(RowsReadOf(i), g)} \ {NoVal}

First(g, f) == IF Has(1, g, f) # {} THEN Has(1, g, f)
               ELSE IF Has(2, g, f) # {} THEN Has(2, g, f) ELSE Has(3, g, f)

LEMMA FirstIsMerged ==
  ASSUME WebTypeOK, stmt = 7, NEW a, Merged(a), NEW f \in Fields
  PROVE  IF First(a.guid, f) = {} THEN a.vals[f] = NoVal ELSE a.vals[f] \in First(a.guid, f)
<1>1. \A i \in Tables : Seen(i) = RowsReadOf(i)
  BY DEF Seen
<1>2. \A i \in Tables : Silent(RowsReadOf(i), a.guid, f) => Has(i, a.guid, f) = {}
  BY DEF Silent, Has, OfGuid
<1>3. 1 \in Tables /\ 2 \in Tables /\ 3 \in Tables
  OBVIOUS
<1>4. CASE a.vals[f] = NoVal
  <2>1. \A i \in Tables : Has(i, a.guid, f) = {}
    BY <1>1, <1>2, <1>4 DEF Merged
  <2> QED
    BY <1>3, <1>4, <2>1 DEF First
<1>5. CASE a.vals[f] # NoVal
  <2>1. PICK i \in Tables : /\ Says(Seen(i), a.guid, f, a.vals[f])
                            /\ \A j \in Tables : j < i => Silent(Seen(j), a.guid, f)
    BY <1>5 DEF Merged
  <2>2. a.vals[f] \in Has(i, a.guid, f)
    BY <1>1, <1>5, <2>1 DEF Says, Has, OfGuid
  <2>3. \A j \in Tables : j < i => Has(j, a.guid, f) = {}
    BY <1>1, <1>2, <2>1
  <2>4. i = 1 \/ (i = 2 /\ Has(1, a.guid, f) = {})
          \/ (i = 3 /\ Has(1, a.guid, f) = {} /\ Has(2, a.guid, f) = {})
    BY <1>3, <2>3
  <2>5. First(a.guid, f) = Has(i, a.guid, f)
    <3>1. CASE i = 1
      BY <2>2, <3>1 DEF First
    <3>2. CASE i = 2 /\ Has(1, a.guid, f) = {}
      BY <2>2, <3>2 DEF First
    <3>3. CASE i = 3 /\ Has(1, a.guid, f) = {} /\ Has(2, a.guid, f) = {}
      BY <3>3 DEF First
    <3> QED
      BY <2>4, <3>1, <3>2, <3>3
  <2> QED
    BY <2>2, <2>5
<1> QED
  BY <1>4, <1>5

LEMMA FirstIsSaid ==
  ASSUME NEW g, NEW f, First(g, f) # {}
  PROVE  \E i \in Tables : \E w \in RowsReadOf(i) : w.guid = g /\ w.vals[f] # NoVal
<1>1. 1 \in Tables /\ 2 \in Tables /\ 3 \in Tables
  OBVIOUS
<1>2. PICK i \in Tables : Has(i, g, f) # {}
  BY <1>1 DEF First
<1> QED
  BY <1>2 DEF Has, OfGuid

(* LIMIT n takes a prefix, all of them without a limit.                    *)
LEMMA TopIsPrefix ==
  ASSUME NEW s \in Seq(Engines), NEW n \in Int
  PROVE  \E k \in 0 .. Len(s) : /\ Top(s, n) = SubSeq(s, 1, k)
                                /\ k < Len(s) => k = n /\ n > 0
                                /\ n > 0 => k <= n
<1>1. Len(s) \in Nat
  BY LenProperties
<1>2. CASE n > 0 /\ n < Len(s)
  BY <1>1, <1>2 DEF Top
<1>3. CASE ~(n > 0 /\ n < Len(s))
  <2>1. Top(s, n) = s
    BY <1>3 DEF Top
  <2>2. SubSeq(s, 1, Len(s)) = s
    BY LenProperties, SubSeqProperties
  <2>3. Top(s, n) = SubSeq(s, 1, Len(s))
    BY <2>1, <2>2
  <2>4. /\ Len(s) \in 0 .. Len(s) /\ ~(Len(s) < Len(s))
        /\ n > 0 => Len(s) <= n
    BY <1>1, <1>3
  <2> QED
    BY <2>3, <2>4, Zenon
<1> QED
  BY <1>2, <1>3

(* QuietMergeIsExact: for any three tables, in any order of their rows,    *)
(* and any limit.                                                          *)
THEOREM QuietMergesAreExact == WebSpec => []QuietMergeIsExact
<1>1. MergeInv => QuietMergeIsExact
  <2> SUFFICES ASSUME MergeInv, stmt = 7, still
               PROVE  QuietMergeIsExact
    BY DEF QuietMergeIsExact
  <2> USE DEF MergeInv
  <2>1. \A a \in addrsOut : Merged(a) /\ IsUseful(a) /\ a.guid \in Guids
    BY DEF QuietMerge, WebTypeOK, Row
  <2>2. \A i \in Tables : Seen(i) = RowsReadOf(i)
    BY DEF Seen
  <2>3. \A a \in addrsOut, f \in Fields :
          IF First(a.guid, f) = {} THEN a.vals[f] = NoVal ELSE a.vals[f] \in First(a.guid, f)
    BY <2>1, FirstIsMerged
  <2>4. /\ {g \in Guids : \E f \in Useful : First(g, f) # {}} \subseteq {a.guid : a \in addrsOut}
        /\ {a.guid : a \in addrsOut} \subseteq {g \in Guids : \E f \in Fields : First(g, f) # {}}
    <3>1. ASSUME NEW a \in addrsOut PROVE \E f \in Useful : First(a.guid, f) # {}
      BY <2>1, <2>3, WebDataAssumption DEF IsUseful
    <3>2. ASSUME NEW g \in Guids, NEW f \in Useful, First(g, f) # {}
          PROVE  \E a \in addrsOut : a.guid = g
      <4>1. PICK i \in Tables : \E w \in RowsReadOf(i) : w.guid = g /\ w.vals[f] # NoVal
        BY <3>2, FirstIsSaid
      <4> QED
        BY <2>2, <4>1 DEF QuietMerge, IsUseful
    <3> QED
      BY <2>1, <3>1, <3>2, WebDataAssumption
  <2>5. cardsOut = (masked \X {"server"}) \cup (local \X {"local"})
    BY DEF QuietMerge
  <2>6. \E n \in 0 .. Len(keywords) :
          /\ enginesOut = SubSeq(keywords, 1, n)
          /\ n < Len(keywords) => n = limit /\ n > 0
          /\ limit > 0 => n <= limit
    BY TopIsPrefix DEF QuietMerge, WebTypeOK
  <2> QED
    BY <2>3, <2>4, <2>5, <2>6 DEF QuietMergeIsExact, First, Has, RowsReadOf
<1> QED
  BY <1>1, MergeInit, MergeStep, PTL DEF WebSpec

-----------------------------------------------------------------------------
(* CopyProfile: the types, and that nothing of a cache comes into the      *)
(* destination.                                                            *)

(* What the loop knows of its entry: a directory it is about to enter, and *)
(* that a file it is about to copy is in no cache it skips.                *)
EntryInv ==
  /\ stage = "enter" => Kind[cur] = "dir"
  /\ stage = "copy" => ~Pruned(To)

CopyInv == CopyTypeOK /\ EntryInv /\ CachesStayBehind

LEMMA CopyConstants ==
  /\ Root \notin Nodes
  /\ Dirs \subseteq Nodes \cup {Root}
  /\ Content \subseteq Nat /\ 0 \in Content /\ 1 \in Content
  /\ Content \cup {-1} \subseteq Int
  /\ \A n \in Nodes : Target[n] \in Nodes /\ (Kind[n] # "link" => Target[n] = n)
BY CopyAssumption DEF Dirs, Content

(* What fs::relative makes of a path; what it finds to be a directory or   *)
(* a file is what the path leads to.                                       *)
LEMMA Resolves ==
  ASSUME NEW n \in Nodes
  PROVE  /\ Rel(n) \in Nodes
         /\ Kind[n] # "link" => Rel(n) = n
         /\ Kind[Rel(n)] # "link" => Rel(n) = Target[n]
         /\ Kind[Rel(n)] # "link" /\ disk[n] # 0 => disk[Rel(n)] # 0
BY CopyConstants DEF Rel

(* A path is cached when one above it is.                                  *)
LEMMA CachedBelow ==
  ASSUME NEW n \in Nodes, NEW m \in Above[n], InCache(m)
  PROVE  InCache(n)
BY CopyAssumption DEF InCache

(* create_directories for a path that is in no cache makes none.           *)
LEMMA DirsOfUncached ==
  ASSUME NEW t \in [Nodes -> Content], NEW n \in Nodes, ~InCache(n)
  PROVE  /\ WithDirs(t, n) \in [Nodes -> Content]
         /\ \A m \in Nodes : InCache(m) => WithDirs(t, n)[m] = t[m]
<1>1. WithDirs(t, n) \in [Nodes -> Content]
  BY CopyConstants DEF WithDirs
<1>2. \A m \in Nodes : InCache(m) => WithDirs(t, n)[m] = t[m]
  BY CachedBelow DEF WithDirs
<1> QED
  BY <1>1, <1>2

LEMMA DirsTyped ==
  ASSUME NEW t \in [Nodes -> Content], NEW n
  PROVE  WithDirs(t, n) \in [Nodes -> Content]
BY CopyConstants DEF WithDirs

(* The counters of a file that failed and of one that was copied.          *)
LEMMA FailureCounted ==
  ASSUME NEW c \in Result
  PROVE  [c EXCEPT !.filesFailed = @ + 1,
                   !.failedPaths = IF @ < MaxPaths THEN @ + 1 ELSE @] \in Result
<1>1. c.failedPaths \in 0 .. MaxPaths /\ c.filesFailed \in Nat /\ MaxPaths \in Nat
  BY CopyAssumption DEF Result
<1>2. (IF c.failedPaths < MaxPaths THEN c.failedPaths + 1 ELSE c.failedPaths) \in 0 .. MaxPaths
  BY <1>1
<1> DEFINE d == [c EXCEPT !.filesFailed = @ + 1,
                        !.failedPaths = IF @ < MaxPaths THEN @ + 1 ELSE @]
           e == [c EXCEPT !.filesFailed = @ + 1]
<1>3. e \in Result /\ e.failedPaths = c.failedPaths
  BY <1>1 DEF Result
<1>4. d = [e EXCEPT !.failedPaths = IF @ < MaxPaths THEN @ + 1 ELSE @]
  BY DEF Result
<1> HIDE DEF e
<1> QED
  BY <1>2, <1>3, <1>4 DEF Result

LEMMA CopyCounted ==
  ASSUME NEW c \in Result, NEW n \in Int
  PROVE  [c EXCEPT !.filesCopied = @ + 1, !.bytesCopied = @ + n] \in Result
<1> DEFINE d == [c EXCEPT !.filesCopied = @ + 1, !.bytesCopied = @ + n]
           e == [c EXCEPT !.filesCopied = @ + 1]
<1>1. e \in Result /\ e.bytesCopied = c.bytesCopied
  BY DEF Result
<1>2. d = [e EXCEPT !.bytesCopied = @ + n]
  BY DEF Result
<1> HIDE DEF e
<1> QED
  BY <1>1, <1>2 DEF Result

(* A directory that is opened goes on the stack.                           *)
LEMMA OpenTyped ==
  ASSUME CopyTypeOK, NEW d \in Dirs, Open(d)
  PROVE  stack' \in Seq(Dirs) /\ todo' \in [Dirs -> SUBSET Nodes] /\ stage' = "next"
<1>1. stack' \in Seq(Dirs)
  <2>1. <<d>> \in Seq(Dirs) /\ stack \in Seq(Dirs)
    BY DEF CopyTypeOK
  <2> QED
    BY <2>1, ConcatProperties DEF Open
<1>2. {n \in Children(d) : disk[n] # 0} \subseteq Nodes
  BY DEF Children
<1> QED
  BY <1>1, <1>2 DEF Open, CopyTypeOK

-----------------------------------------------------------------------------
LEMMA CopyInitInv == CopyInit => CopyInv
<1> SUFFICES ASSUME CopyInit PROVE CopyInv
  OBVIOUS
<1>1. PICK s \in Sources : disk = s.disk /\ dst = s.dst /\ opts = s.opts /\ isDir = s.isDir
  BY DEF CopyInit
<1>2. /\ disk \in [Nodes -> Content] /\ dst \in [Nodes -> Content]
      /\ opts \in Options /\ isDir \in BOOLEAN
  BY <1>1, CopyAssumption
<1>3. r \in Result
  BY CopyAssumption DEF CopyInit, Result
<1>4. edits \in 0 .. MaxEdits
  BY CopyAssumption DEF CopyInit
<1>5. CopyTypeOK
  <2>1. stack \in Seq(Dirs) /\ todo \in [Dirs -> SUBSET Nodes]
    BY DEF CopyInit
  <2>2. /\ stage = "start" /\ cur = Root /\ sz = 0 /\ was = dst
        /\ steady = Nodes /\ reached = {} /\ cut = FALSE
    BY DEF CopyInit
  <2> QED
    BY <1>2, <1>3, <1>4, <2>1, <2>2, CopyConstants DEF CopyTypeOK
<1> QED
  BY <1>5 DEF CopyInit, CopyInv, EntryInv, CachesStayBehind

(* The types, one action at a time.                                        *)
LEMMA CopyTypeStep == CopyTypeOK /\ EntryInv /\ [CopyNext]_copyVars => CopyTypeOK'
<1> SUFFICES ASSUME CopyTypeOK, EntryInv, [CopyNext]_copyVars
             PROVE  CopyTypeOK'
  OBVIOUS
<1> USE DEF CopyTypeOK
<1>1. CASE Start
  <2>1. Root \in Dirs
    BY DEF Dirs
  <2> QED
    BY <1>1, <2>1, OpenTyped DEF Start, Frame
<1>2. CASE TakeEntry
  <2>1. Head(stack) \in Dirs
    BY <1>2 DEF TakeEntry
  <2> QED
    BY <1>2, <2>1 DEF TakeEntry, Frame
<1>3. CASE LeaveDir
  <2>1. stack' \in Seq(Dirs)
    BY <1>3 DEF LeaveDir
  <2> QED
    BY <1>3, <2>1 DEF LeaveDir, Frame
<1>4. CASE IterationFails
  BY <1>4 DEF IterationFails, Frame
<1>5. CASE EnterDir
  <2>1. cur \in Dirs
    BY <1>5 DEF EnterDir, EntryInv, Dirs
  <2> QED
    BY <1>5, <2>1, OpenTyped DEF EnterDir, Frame
<1>6. CASE SkipCached
  <2>1. r' \in Result
    BY <1>6 DEF SkipCached, Result
  <2> QED
    BY <1>6, <2>1 DEF SkipCached, Frame
<1>7. CASE MakeDir
  BY <1>7, DirsTyped DEF MakeDir, Frame
<1>8. CASE SkipOther
  BY <1>8 DEF SkipOther, Frame
<1>9. CASE Measure
  <2>1. To \in Nodes
    BY <1>9, CopyConstants DEF Measure, To
  <2>2. sz' \in Content \cup {-1}
    BY <1>9, <2>1 DEF Measure
  <2>3. dst' \in [Nodes -> Content]
    BY <1>9, DirsTyped DEF Measure
  <2> QED
    BY <1>9, <2>2, <2>3 DEF Measure, Frame
<1>10. CASE CopyFails
  <2>1. To \in Nodes
    BY <1>10, CopyConstants DEF CopyFails, To
  <2>2. r' \in Result
    <3>1. r' = [r EXCEPT !.filesFailed = @ + 1,
                         !.failedPaths = IF @ < MaxPaths THEN @ + 1 ELSE @]
      BY <1>10 DEF CopyFails
    <3> QED
      BY <3>1, FailureCounted
  <2>3. stage' \in {"next", "done"}
    BY <1>10 DEF CopyFails
  <2> QED
    BY <1>10, <2>1, <2>2, <2>3 DEF CopyFails, Frame
<1>11. CASE CopySucceeds
  <2>1. To \in Nodes
    BY <1>11, CopyConstants DEF CopySucceeds, To
  <2>2. r' \in Result
    <3>1. sz \in Int
      BY CopyConstants
    <3>2. r' = [r EXCEPT !.filesCopied = @ + 1, !.bytesCopied = @ + sz]
      BY <1>11 DEF CopySucceeds
    <3> QED
      BY <3>1, <3>2, CopyCounted
  <2>3. dst' \in [Nodes -> Content]
    BY <1>11, <2>1 DEF CopySucceeds
  <2> QED
    BY <1>11, <2>1, <2>2, <2>3 DEF CopySucceeds, Frame
<1>12. CASE Finish
  <2>1. r' \in Result
    BY <1>12 DEF Finish, Result
  <2> QED
    BY <1>12, <2>1 DEF Finish, Frame
<1>13. CASE Edit
  <2>1. edits' \in 0 .. MaxEdits
    BY <1>13, CopyAssumption DEF Edit
  <2>2. PICK n \in Nodes, c \in Content, seen \in BOOLEAN :
          /\ disk' = [disk EXCEPT ![n] = c]
          /\ steady' = steady \ {n}
          /\ todo' = IF (disk[n] = 0 \/ c = 0) /\ Parent[n] \in {stack[i] : i \in DOMAIN stack}
                     THEN [todo EXCEPT ![Parent[n]] = IF seen THEN @ \cup {n} ELSE @ \ {n}]
                     ELSE todo
    BY <1>13 DEF Edit
  <2>3. disk' \in [Nodes -> Content] /\ todo' \in [Dirs -> SUBSET Nodes]
    BY <2>2
  <2> QED
    BY <1>13, <2>1, <2>2, <2>3 DEF Edit
<1>14. CASE UNCHANGED copyVars
  BY <1>14 DEF copyVars
<1> QED
  BY <1>1, <1>2, <1>3, <1>4, <1>5, <1>6, <1>7, <1>8, <1>9, <1>10, <1>11, <1>12, <1>13, <1>14
  DEF CopyNext, CopyStep

(* EntryInv and the caches: the actions that write to the destination do so   *)
(* below a path that is not pruned.                                        *)
LEMMA CacheStep ==
  CopyInv /\ [CopyNext]_copyVars => EntryInv' /\ CachesStayBehind'
<1> SUFFICES ASSUME CopyInv, [CopyNext]_copyVars
             PROVE  EntryInv' /\ CachesStayBehind'
  OBVIOUS
<1> USE DEF CopyInv, EntryInv, CachesStayBehind
<1>0. dst \in [Nodes -> Content]
  BY DEF CopyTypeOK
<1>1. CASE MakeDir
  <2>1. PICK n \in Nodes : n = Rel(cur)
    BY <1>1, Resolves DEF MakeDir, CopyTypeOK
  <2>2. (opts.skipCache => ~InCache(n)) /\ dst' = WithDirs(dst, n)
    BY <1>1, <2>1 DEF MakeDir, Pruned
  <2>3. UNCHANGED <<opts, was, cur>> /\ (stage' = "enter" => Kind[cur] = "dir") /\ stage' # "copy"
    BY <1>1 DEF MakeDir, Frame
  <2> QED
    BY <1>0, <2>2, <2>3, DirsOfUncached
<1>2. CASE Measure
  <2>1. To \in Nodes /\ To' = To
    BY <1>2, CopyConstants DEF Measure, CopyTypeOK, To
  <2>2. (opts.skipCache => ~InCache(To)) /\ ~Pruned(To)
    BY <1>2, Resolves DEF Measure, Pruned, IsRegular, To, CopyTypeOK
  <2>3. UNCHANGED <<opts, was>> /\ stage' = "copy" /\ ~Pruned(To)'
    BY <1>2, <2>1, <2>2 DEF Measure, Frame, Pruned, InCache
  <2> QED
    BY <1>0, <1>2, <2>1, <2>2, <2>3, DirsOfUncached DEF Measure
<1>3. CASE CopySucceeds
  <2>1. opts.skipCache => ~InCache(To)
    BY <1>3 DEF CopySucceeds, Pruned
  <2>2. \A n \in Nodes : n # To => dst'[n] = dst[n]
    BY <1>0, <1>3 DEF CopySucceeds
  <2> QED
    BY <1>3, <2>1, <2>2 DEF CopySucceeds, Frame
<1>4. CASE EnterDir \/ Start
  BY <1>4 DEF EnterDir, Start, Open, Frame
<1>5. CASE TakeEntry \/ LeaveDir \/ IterationFails \/ SkipCached \/ SkipOther
  BY <1>5 DEF TakeEntry, LeaveDir, IterationFails, SkipCached, SkipOther, Frame
<1>6. CASE CopyFails \/ Finish
  BY <1>6 DEF CopyFails, Finish, Frame
<1>7. CASE Edit \/ UNCHANGED copyVars
  BY <1>7 DEF Edit, copyVars, To, Pruned
<1> QED
  BY <1>1, <1>2, <1>3, <1>4, <1>5, <1>6, <1>7 DEF CopyNext, CopyStep

LEMMA CopyInvStep == CopyInv /\ [CopyNext]_copyVars => CopyInv'
BY CopyTypeStep, CacheStep DEF CopyInv

(* CopyTypeOK: among the rest, failedPaths stays within its limit.         *)
THEOREM CopyTypes == CopySpec => []CopyTypeOK
<1>1. CopyInv => CopyTypeOK
  BY DEF CopyInv
<1> QED
  BY <1>1, CopyInitInv, CopyInvStep, PTL DEF CopySpec

(* CachesStayBehind: whatever the tree, through links and against any      *)
(* browser, a path of a cache that is skipped is in the destination what   *)
(* it was before.                                                          *)
THEOREM CachesStay == CopySpec => []CachesStayBehind
<1>1. CopyInv => CachesStayBehind
  BY DEF CopyInv
<1> QED
  BY <1>1, CopyInitInv, CopyInvStep, PTL DEF CopySpec

-----------------------------------------------------------------------------
(* SteadyFilesArrive: on the way to a file that is owed there is always a  *)
(* path the iterator has yet to give or stands on.                         *)
On(s, d) == \E i \in DOMAIN s : s[i] = d

Pending(n) ==
  \/ stage \in {"next", "entry", "enter", "copy"} /\ On(stack, Parent[n]) /\ n \in todo[Parent[n]]
  \/ stage \in {"entry", "enter", "copy"} /\ cur = n

Reachable(f) == \/ cut \/ ~isDir \/ ~opts.continueOnError \/ stage = "start"
            \/ f \in reached
            \/ \E n \in Above[f] : Pending(n)

(* The file is what it was before, or what the copy makes of it.           *)
Arrived(f) ==
  IF f \notin reached \/ f \in Unreadable THEN dst[f] = was[f]
  ELSE f \in steady /\ disk[f] # 0 =>
         dst[f] = IF opts.overwrite \/ was[f] = 0 THEN disk[f] ELSE was[f]

ArriveInv ==
  /\ Tree(disk)
  /\ \A d \in Dirs : todo[d] \subseteq Children(d)
  /\ stage = "copy" => Kind[cur] # "dir"
  /\ \A f \in Owed : Above[f] \subseteq steady => Reachable(f)
  /\ \A f \in Regular : Arrived(f)

SteadyInv == CopyTypeOK /\ EntryInv /\ ArriveInv

LEMMA Pushed ==
  ASSUME NEW s \in Seq(Dirs), NEW d \in Dirs
  PROVE  On(<<d>> \o s, d) /\ \A x : On(s, x) => On(<<d>> \o s, x)
<1>1. <<d>> \in Seq(Dirs) /\ Len(<<d>>) = 1
  OBVIOUS
<1>2. /\ Len(<<d>> \o s) = 1 + Len(s)
      /\ \A i \in 1 .. 1 + Len(s) :
           (<<d>> \o s)[i] = IF i <= 1 THEN d ELSE s[i - 1]
  BY <1>1, ConcatProperties
<1>3. DOMAIN (<<d>> \o s) = 1 .. 1 + Len(s) /\ DOMAIN s = 1 .. Len(s) /\ Len(s) \in Nat
  BY <1>1, <1>2, ConcatProperties, LenProperties
<1>4. On(<<d>> \o s, d)
  BY <1>2, <1>3 DEF On
<1>5. ASSUME NEW i \in DOMAIN s
      PROVE  i + 1 \in DOMAIN (<<d>> \o s) /\ (<<d>> \o s)[i + 1] = s[i]
  BY <1>2, <1>3
<1> QED
  BY <1>4, <1>5 DEF On

LEMMA Popped ==
  ASSUME NEW s \in Seq(Dirs), s # <<>>, NEW x, On(s, x), x # Head(s)
  PROVE  On(Tail(s), x)
<1>1. PICK i \in DOMAIN s : s[i] = x
  BY DEF On
<1>2. i \in 1 .. Len(s) /\ i # 1 /\ Len(s) \in Nat
  BY <1>1, LenProperties
<1>3. /\ Tail(s) \in Seq(Dirs) /\ Len(Tail(s)) = Len(s) - 1
      /\ \A j \in 1 .. Len(Tail(s)) : Tail(s)[j] = s[j + 1]
  OBVIOUS
<1>4. DOMAIN Tail(s) = 1 .. Len(s) - 1
  BY <1>3
<1>5. i - 1 \in DOMAIN Tail(s) /\ Tail(s)[i - 1] = s[i]
  BY <1>2, <1>3, <1>4
<1> QED
  BY <1>1, <1>5 DEF On

(* Above a file there are directories only, one in the other up to the     *)
(* source.                                                                 *)
LEMMA Way ==
  ASSUME NEW f \in Regular
  PROVE  /\ f \in Nodes /\ Kind[f] = "file" /\ f \in Above[f] /\ Above[f] \subseteq Nodes
         /\ \A m \in Above[f] : Target[m] = m /\ (m # f => Kind[m] = "dir")
         /\ \A m \in Above[f] : InCache(m) => InCache(f)
         /\ \E c \in Above[f] : Parent[c] = Root
         /\ \A m \in Above[f] \ {f} : \E c \in Above[f] : Parent[c] = m
<1>1. f \in Nodes /\ Kind[f] = "file"
  BY DEF Regular
<1>2. f \in Above[f] /\ Above[f] \subseteq Nodes
  BY <1>1, CopyAssumption
<1>3. /\ \E c \in Above[f] : Parent[c] = Root
      /\ \A m \in Above[f] \ {f} : \E c \in Above[f] : Parent[c] = m
  BY <1>1, CopyAssumption
<1>4. ASSUME NEW m \in Above[f], m # f PROVE Kind[m] = "dir"
  <2>1. PICK c \in Above[f] : Parent[c] = m
    BY <1>3, <1>4
  <2>2. m \in Dirs /\ m # Root
    BY <1>2, <1>4, <2>1, CopyAssumption
  <2> QED
    BY <2>2 DEF Dirs
<1>5. ASSUME NEW m \in Above[f] PROVE Target[m] = m
  BY <1>1, <1>2, <1>4, <1>5, CopyAssumption
<1>6. \A m \in Above[f] : InCache(m) => InCache(f)
  BY <1>1, CachedBelow
<1> QED
  BY <1>1, <1>2, <1>3, <1>4, <1>5, <1>6

(* A directory on the way that is opened gives the next path of the way,   *)
(* and those that were pending elsewhere still are.                        *)
LEMMA OpenReaches ==
  ASSUME SteadyInv, NEW d \in Dirs, Open(d), disk' = disk,
         NEW f \in Regular, disk[f] # 0, NEW n \in Above[f],
         Parent[n] = d \/ (On(stack, Parent[n]) /\ n \in todo[Parent[n]])
  PROVE  Pending(n)'
<1> USE DEF SteadyInv, CopyTypeOK
<1>1. n \in Nodes /\ disk[n] # 0 /\ Parent[n] \in Dirs
  BY Way, CopyAssumption DEF ArriveInv, Tree
<1>2. stack' = <<d>> \o stack /\ stage' = "next"
      /\ todo' = [todo EXCEPT ![d] = {m \in Children(d) : disk[m] # 0}]
  BY DEF Open
<1>3. On(stack', Parent[n])
  BY <1>2, Pushed
<1>4. n \in todo'[Parent[n]]
  BY <1>1, <1>2 DEF Children
<1> QED
  BY <1>2, <1>3, <1>4 DEF Pending

LEMMA StartReaches ==
  ASSUME SteadyInv, Start, NEW f \in Owed
  PROVE  Reachable(f)'
<1>1. f \in Regular /\ disk[f] # 0 /\ disk' = disk /\ Root \in Dirs
  BY DEF Owed, Start, Frame, Dirs
<1>2. PICK c \in Above[f] : Parent[c] = Root
  BY <1>1, Way
<1>3. Open(Root) => Pending(c)'
  BY <1>1, <1>2, OpenReaches
<1>4. Open(Root) \/ cut' \/ ~isDir'
  BY DEF Start, Frame
<1> QED
  BY <1>2, <1>3, <1>4 DEF Reachable

LEMMA TurnReaches ==
  ASSUME SteadyInv, CopyStep, stage # "start",
         NEW f \in Owed, opts.continueOnError, NEW n \in Above[f], Pending(n)
  PROVE  Reachable(f)'
<1> USE DEF SteadyInv, CopyTypeOK
<1>1. /\ f \in Regular /\ disk[f] # 0 /\ ~Pruned(f) /\ n \in Nodes
      /\ (Above[f] \ {f}) \cap Unreadable = {}
  BY Way DEF Owed
<1>2. Kind[n] \in {"file", "dir"} /\ Target[n] = n /\ ~Pruned(n) /\ (n # f => Kind[n] = "dir")
      /\ Kind[f] = "file"
  BY <1>1, Way DEF Pruned
<1> SUFFICES ASSUME ~Pending(n)' PROVE Reachable(f)'
  BY DEF Reachable
<1>3. CASE TakeEntry
  <2>1. PICK m \in todo[Head(stack)] :
          cur' = m /\ todo' = [todo EXCEPT ![Head(stack)] = @ \ {m}]
    BY <1>3 DEF TakeEntry
  <2>2. stage = "next" /\ stage' = "entry" /\ stack' = stack /\ Head(stack) \in Dirs
    BY <1>3 DEF TakeEntry
  <2>3. On(stack, Parent[n]) /\ n \in todo[Parent[n]] /\ Parent[n] \in Dirs
    BY <1>1, <2>2, CopyAssumption DEF Pending
  <2>4. n # m
    BY <2>1, <2>2 DEF Pending
  <2> QED
    BY <2>1, <2>2, <2>3, <2>4 DEF Pending
<1>4. CASE LeaveDir
  <2>1. /\ stage = "next" /\ stack # <<>> /\ todo[Head(stack)] = {}
        /\ stack' = Tail(stack) /\ todo' = todo
        /\ stage' = IF Len(stack) = 1 THEN "end" ELSE "next"
    BY <1>4 DEF LeaveDir
  <2>2. On(stack, Parent[n]) /\ n \in todo[Parent[n]]
    BY <2>1 DEF Pending
  <2>3. On(Tail(stack), Parent[n])
    BY <2>1, <2>2, Popped
  <2>4. Len(stack) # 1
    BY <2>1, <2>3 DEF On
  <2> QED
    BY <2>1, <2>2, <2>3, <2>4 DEF Pending
<1>5. CASE IterationFails
  BY <1>5 DEF IterationFails, Reachable
<1>6. CASE EnterDir
  <2>1. cur \in Nodes /\ Kind[cur] = "dir" /\ cur \in Dirs /\ stage = "enter" /\ disk' = disk
    BY <1>6 DEF EnterDir, EntryInv, Dirs, Frame
  <2>2. CASE cur \in Unreadable
    <3>1. cur # n
      BY <1>1, <1>2, <2>1, <2>2
    <3> QED
      BY <1>6, <2>1, <2>2, <3>1 DEF EnterDir, Pending
  <2>3. CASE cur \notin Unreadable /\ disk[cur] # 0
    <3>1. Open(cur)
      BY <1>6, <2>3 DEF EnterDir
    <3>2. CASE cur = n
      <4>1. PICK c \in Above[f] : Parent[c] = n
        BY <1>1, <1>2, <2>1, <3>2, Way
      <4>2. Pending(c)'
        BY <1>1, <2>1, <3>1, <3>2, <4>1, OpenReaches
      <4> QED
        BY <4>1, <4>2 DEF Reachable
    <3>3. CASE cur # n
      BY <1>1, <2>1, <3>1, <3>3, OpenReaches DEF Pending
    <3> QED
      BY <3>2, <3>3
  <2>4. CASE cur \notin Unreadable /\ disk[cur] = 0
    BY <1>6, <2>4 DEF EnterDir, Reachable
  <2> QED
    BY <2>2, <2>3, <2>4
<1>7. CASE SkipCached \/ SkipOther
  <2>1. /\ stage = "entry" /\ stage' = "next" /\ UNCHANGED <<stack, todo, cur>>
    BY <1>7 DEF SkipCached, SkipOther
  <2>2. cur # n
    BY <1>1, <1>2, <1>7, Resolves DEF SkipCached, SkipOther, IsRegular
  <2> QED
    BY <2>1, <2>2 DEF Pending
<1>8. CASE MakeDir \/ Measure
  <2>1. MakeDir /\ cur = n => Kind[n] = "dir"
    BY <1>1, <1>2, Resolves DEF MakeDir
  <2> QED
    BY <1>8, <2>1 DEF MakeDir, Measure, Pending
<1>9. CASE CopyFails \/ CopySucceeds
  <2>1. /\ stage = "copy" /\ stage' = "next" /\ UNCHANGED <<stack, todo>>
        /\ reached' = reached \cup {To}
    BY <1>9 DEF CopyFails, CopySucceeds
  <2>2. CASE cur = n
    BY <1>2, <2>1, <2>2 DEF ArriveInv, To, Reachable
  <2>3. CASE cur # n
    BY <2>1, <2>3 DEF Pending
  <2> QED
    BY <2>2, <2>3
<1>10. ~Finish /\ ~Start
  BY DEF Finish, Pending, Start
<1> QED
  BY <1>3, <1>4, <1>5, <1>6, <1>7, <1>8, <1>9, <1>10 DEF CopyStep

(* The browser changes other paths than those of a way that is steady.     *)
LEMMA EditReaches ==
  ASSUME SteadyInv, Edit, NEW f \in Regular, Above[f] \subseteq steady', Reachable(f)
  PROVE  Reachable(f)'
<1> USE DEF SteadyInv, CopyTypeOK
<1>1. PICK n \in Nodes, c \in Content, seen \in BOOLEAN :
        /\ steady' = steady \ {n}
        /\ todo' = IF (disk[n] = 0 \/ c = 0) /\ Parent[n] \in {stack[i] : i \in DOMAIN stack}
                   THEN [todo EXCEPT ![Parent[n]] = IF seen THEN @ \cup {n} ELSE @ \ {n}]
                   ELSE todo
  BY DEF Edit
<1>2. UNCHANGED <<opts, isDir, stage, stack, cur, reached, cut>> /\ Parent[n] \in Dirs
  <2>1. UNCHANGED <<opts, isDir, stage, stack, cur, reached, cut>>
    BY DEF Edit
  <2>2. Parent[n] \in Dirs
    BY CopyAssumption
  <2> QED
    BY <2>1, <2>2
<1>3. n \notin Above[f]
  BY <1>1
<1>4. \A m \in Above[f] : m \in todo[Parent[m]] => m \in todo'[Parent[m]]
  <2> SUFFICES ASSUME NEW m \in Above[f], m \in todo[Parent[m]] PROVE m \in todo'[Parent[m]]
    OBVIOUS
  <2>1. m # n /\ Parent[m] \in Dirs
    BY <1>3, Way, CopyAssumption
  <2> QED
    BY <1>1, <1>2, <2>1
<1>5. \A m \in Above[f] : Pending(m) => Pending(m)'
  BY <1>2, <1>4 DEF Pending
<1> QED
  BY <1>2, <1>5 DEF Reachable

LEMMA FrontierStep ==
  ASSUME SteadyInv, [CopyNext]_copyVars, NEW f \in Owed', Above[f] \subseteq steady'
  PROVE  Reachable(f)'
<1> USE DEF SteadyInv
<1>1. CASE CopyStep
  <2>1. UNCHANGED <<disk, opts, isDir, steady>>
    BY <1>1 DEF CopyStep, Start, TakeEntry, LeaveDir, IterationFails, EnterDir, SkipCached,
                MakeDir, SkipOther, Measure, CopyFails, CopySucceeds, Finish, Frame
  <2>2. (cut => cut') /\ reached \subseteq reached'
    BY <1>1 DEF CopyStep, Start, TakeEntry, LeaveDir, IterationFails, EnterDir, SkipCached,
                MakeDir, SkipOther, Measure, CopyFails, CopySucceeds, Finish
  <2>3. f \in Owed /\ Reachable(f)
    BY <2>1 DEF Owed, Pruned, ArriveInv
  <2>4. CASE stage = "start"
    <3>1. Start
      BY <1>1, <2>4 DEF CopyStep, TakeEntry, LeaveDir, IterationFails, EnterDir, SkipCached,
                MakeDir, SkipOther, Measure, CopyFails, CopySucceeds, Finish
    <3> QED
      BY <2>3, <3>1, StartReaches
  <2>5. CASE cut \/ ~isDir \/ ~opts.continueOnError \/ f \in reached
    BY <2>1, <2>2, <2>5 DEF Reachable
  <2>6. CASE stage # "start" /\ opts.continueOnError /\ \E n \in Above[f] : Pending(n)
    BY <1>1, <2>3, <2>6, TurnReaches
  <2> QED
    BY <2>3, <2>4, <2>5, <2>6 DEF Reachable
<1>2. CASE Edit
  <2>1. PICK n \in Nodes, c \in Content :
          disk' = [disk EXCEPT ![n] = c] /\ steady' = steady \ {n}
    BY <1>2 DEF Edit
  <2>2. opts' = opts /\ disk \in [Nodes -> Content]
    BY <1>2 DEF Edit, CopyTypeOK
  <2>3. f \in Regular /\ f # n /\ f \in Nodes
    BY <2>1, Way DEF Owed
  <2>4. f \in Owed /\ Above[f] \subseteq steady
    BY <2>1, <2>2, <2>3 DEF Owed, Pruned
  <2> QED
    BY <1>2, <2>3, <2>4, EditReaches DEF ArriveInv
<1>3. CASE UNCHANGED copyVars
  <2>1. f \in Owed /\ Above[f] \subseteq steady
    BY <1>3 DEF copyVars, Owed, Pruned
  <2>2. Reachable(f)
    BY <2>1 DEF ArriveInv
  <2> QED
    BY <1>3, <2>2 DEF copyVars, Reachable, Pending
<1> QED
  BY <1>1, <1>2, <1>3 DEF CopyNext

(* What a copy does to a file of the destination.                          *)
LEMMA ArrivedStep ==
  ASSUME SteadyInv, [CopyNext]_copyVars, NEW f \in Regular
  PROVE  Arrived(f)'
<1> USE DEF SteadyInv, CopyTypeOK
<1>1. f \in Nodes /\ Kind[f] = "file" /\ Arrived(f)
  BY Way DEF ArriveInv
<1>2. CASE MakeDir
  <2>1. UNCHANGED <<disk, opts, was, steady, reached>> /\ dst' = WithDirs(dst, Rel(cur))
    BY <1>2 DEF MakeDir, Frame
  <2>2. dst'[f] = dst[f]
    BY <1>1, <2>1 DEF WithDirs
  <2> QED
    BY <1>1, <2>1, <2>2 DEF Arrived
<1>3. CASE Measure
  <2>1. UNCHANGED <<disk, opts, was, steady, reached>> /\ dst' = WithDirs(dst, To)
    BY <1>3 DEF Measure, Frame
  <2>2. dst'[f] = dst[f]
    BY <1>1, <2>1 DEF WithDirs
  <2> QED
    BY <1>1, <2>1, <2>2 DEF Arrived
<1>4. CASE CopyFails
  <2>1. /\ UNCHANGED <<disk, opts, was, steady, dst>> /\ reached' = reached \cup {To}
        /\ disk[To] = 0 \/ To \in Unreadable
    BY <1>4 DEF CopyFails, Frame
  <2> QED
    BY <1>1, <2>1 DEF Arrived
<1>5. CASE CopySucceeds
  <2>1. /\ UNCHANGED <<disk, opts, was, steady>> /\ reached' = reached \cup {To}
        /\ dst' = IF Spared THEN dst ELSE [dst EXCEPT ![To] = disk[To]]
        /\ To \notin Unreadable \/ Spared
    BY <1>5 DEF CopySucceeds, Frame
  <2>2. CASE f # To
    <3>1. dst'[f] = dst[f]
      BY <1>1, <2>1, <2>2
    <3> QED
      BY <1>1, <2>1, <2>2, <3>1 DEF Arrived
  <2>3. CASE f = To
    <3>1. /\ dst'[f] = IF opts.overwrite \/ dst[f] = 0 THEN disk[f] ELSE dst[f]
          /\ f \in Unreadable => dst'[f] = dst[f]
      BY <1>1, <2>1, <2>3 DEF Spared
    <3> QED
      BY <1>1, <2>1, <2>3, <3>1 DEF Arrived
  <2> QED
    BY <2>2, <2>3
<1>6. CASE Start \/ TakeEntry \/ LeaveDir \/ IterationFails \/ EnterDir \/ SkipCached
             \/ SkipOther \/ Finish \/ UNCHANGED copyVars
  <2>1. UNCHANGED <<disk, opts, was, steady, reached, dst>>
    BY <1>6 DEF Start, TakeEntry, LeaveDir, IterationFails, EnterDir, SkipCached, SkipOther,
                Finish, Frame, copyVars
  <2> QED
    BY <1>1, <2>1 DEF Arrived
<1>7. CASE Edit
  <2>1. PICK n \in Nodes, c \in Content :
          disk' = [disk EXCEPT ![n] = c] /\ steady' = steady \ {n}
    BY <1>7 DEF Edit
  <2>2. UNCHANGED <<opts, was, reached, dst>>
    BY <1>7 DEF Edit
  <2> QED
    BY <1>1, <2>1, <2>2 DEF Arrived
<1> QED
  BY <1>2, <1>3, <1>4, <1>5, <1>6, <1>7 DEF CopyNext, CopyStep

LEMMA ShapeStep ==
  ASSUME SteadyInv, [CopyNext]_copyVars
  PROVE  /\ Tree(disk)'
         /\ \A d \in Dirs : todo'[d] \subseteq Children(d)
         /\ stage' = "copy" => Kind[cur'] # "dir"
<1> USE DEF SteadyInv, CopyTypeOK, ArriveInv
<1>1. CASE Start \/ EnterDir
  <2>1. disk' = disk /\ stage' # "copy"
    BY <1>1 DEF Start, EnterDir, Open, Frame
  <2>2. (\E d \in Dirs : Open(d)) \/ todo' = todo
    BY <1>1 DEF Start, EnterDir, EntryInv, Dirs
  <2>3. \A d \in Dirs : todo'[d] \subseteq Children(d)
    BY <2>2 DEF Open
  <2> QED
    BY <2>1, <2>3 DEF Tree
<1>2. CASE TakeEntry
  <2>1. Head(stack) \in Dirs /\ disk' = disk /\ stage' = "entry"
    BY <1>2 DEF TakeEntry, Frame
  <2>2. \A d \in Dirs : todo'[d] \subseteq todo[d]
    BY <1>2, <2>1 DEF TakeEntry
  <2> QED
    BY <2>1, <2>2 DEF Tree
<1>3. CASE Measure
  <2>1. Kind[cur] # "dir"
    BY <1>3, Resolves DEF Measure, IsRegular
  <2> QED
    BY <1>3, <2>1 DEF Measure, Frame, Tree
<1>4. CASE LeaveDir \/ IterationFails \/ SkipCached \/ MakeDir \/ SkipOther \/ CopyFails
             \/ CopySucceeds \/ Finish
  <2>1. disk' = disk /\ todo' = todo /\ stage' # "copy"
    BY <1>4 DEF LeaveDir, IterationFails, SkipCached, MakeDir, SkipOther, CopyFails,
                CopySucceeds, Finish, Frame
  <2> QED
    BY <2>1 DEF Tree
<1>5. CASE Edit
  <2>1. Tree(disk') /\ cur' = cur /\ stage' = stage
    BY <1>5 DEF Edit
  <2>2. PICK n \in Nodes, c \in Content, seen \in BOOLEAN :
          todo' = IF (disk[n] = 0 \/ c = 0) /\ Parent[n] \in {stack[i] : i \in DOMAIN stack}
                  THEN [todo EXCEPT ![Parent[n]] = IF seen THEN @ \cup {n} ELSE @ \ {n}]
                  ELSE todo
    BY <1>5 DEF Edit
  <2>3. \A d \in Dirs : todo'[d] \subseteq Children(d)
    <3>1. n \in Children(Parent[n])
      BY DEF Children
    <3> QED
      BY <2>2, <3>1
  <2> QED
    BY <2>1, <2>3 DEF Tree
<1>6. CASE UNCHANGED copyVars
  BY <1>6 DEF copyVars, Tree
<1> QED
  BY <1>1, <1>2, <1>3, <1>4, <1>5, <1>6 DEF CopyNext, CopyStep

LEMMA SteadyStep == CopyInv /\ SteadyInv /\ [CopyNext]_copyVars => SteadyInv'
<1> SUFFICES ASSUME CopyInv, SteadyInv, [CopyNext]_copyVars PROVE SteadyInv'
  OBVIOUS
<1>1. CopyTypeOK' /\ EntryInv'
  BY CopyInvStep DEF CopyInv
<1>2. \A f \in Owed' : Above[f] \subseteq steady' => Reachable(f)'
  BY FrontierStep
<1>3. \A f \in Regular : Arrived(f)'
  BY ArrivedStep
<1>4. ArriveInv'
  BY <1>2, <1>3, ShapeStep DEF ArriveInv
<1> QED
  BY <1>1, <1>4 DEF SteadyInv

LEMMA SteadyInit == CopyInit => SteadyInv
<1> SUFFICES ASSUME CopyInit PROVE SteadyInv
  OBVIOUS
<1>1. Tree(disk)
  BY CopyAssumption DEF CopyInit
<1>2. /\ stage = "start" /\ reached = {} /\ was = dst
      /\ \A d \in Dirs : todo[d] = {}
  BY DEF CopyInit
<1>3. ArriveInv
  BY <1>1, <1>2 DEF ArriveInv, Reachable, Arrived
<1> QED
  BY <1>3, CopyInitInv DEF SteadyInv, CopyInv

(* SteadyFilesArrive: for any tree, links included, and any browser: the   *)
(* files it leaves alone, with the directories above them, are copied.     *)
THEOREM SteadyFilesDoArrive == CopySpec => []SteadyFilesArrive
<1>1. SteadyInv => SteadyFilesArrive
  <2> SUFFICES ASSUME SteadyInv, Complete, NEW f \in Owed, Above[f] \subseteq steady
               PROVE  /\ f \in reached
                      /\ dst[f] = IF f \notin Unreadable /\ (opts.overwrite \/ was[f] = 0)
                                  THEN disk[f] ELSE was[f]
    BY DEF SteadyFilesArrive
  <2>1. f \in reached
    BY DEF SteadyInv, ArriveInv, Reachable, Pending, Complete
  <2>2. f \in Regular /\ disk[f] # 0 /\ f \in steady
    BY Way DEF Owed
  <2> QED
    BY <2>1, <2>2 DEF SteadyInv, ArriveInv, Arrived
<1> QED
  BY <1>1, CopyInitInv, CopyInvStep, SteadyInit, SteadyStep, PTL DEF CopySpec

-----------------------------------------------------------------------------
(* CountersMatchTree: in a tree at rest every path the iterator gives is   *)
(* passed once, and counted as what it is.                                 *)

(* The paths the iterator gives; what it copies, copies well and skips.    *)
Given == {n \in Nodes : /\ disk[n] # 0
                         /\ \A d \in Above[n] \ {n} : d \notin Unreadable /\ ~Pruned(d)}

ToCopy == {n \in Given : ~Pruned(Rel(n)) /\ IsRegular(n)}

ToSucceed == {n \in ToCopy : Rel(n) \notin Unreadable \/ (~opts.overwrite /\ was[Rel(n)] # 0)}

ToSkip == {n \in Given : Pruned(Rel(n))}

(* Those behind the iterator: it has neither them nor a path above to give. *)
Passed == {n \in Given : \A m \in Above[n] : ~Pending(m)}

Units(s) == UNION {{n} \X (1 .. disk[Rel(n)]) : n \in s}

Counts ==
  /\ r.filesCopied = Cardinality(ToSucceed \cap Passed)
  /\ IsFiniteSet(Units(ToSucceed \cap Passed))
  /\ r.bytesCopied = Cardinality(Units(ToSucceed \cap Passed))
  /\ r.filesFailed = Cardinality((ToCopy \ ToSucceed) \cap Passed)
  /\ r.entriesSkipped = Cardinality(ToSkip \cap Passed)
  /\ stage = "done" => r.ok = (r.filesFailed = 0)

(* No pending path lies above another.                                     *)
Apart == \A n \in Nodes : Pending(n) =>
           n \in Given /\ \A m \in Above[n] \ {n} : ~Pending(m)

Stands ==
  /\ stage \in {"entry", "enter", "copy"} =>
       ~(On(stack, Parent[cur]) /\ cur \in todo[Parent[cur]])
  /\ stage = "enter" => ~Pruned(cur)
  /\ stage = "copy" => cur \in ToCopy /\ sz = disk[To]

AtRest == steady = Nodes /\ ~cut /\ isDir /\ opts.continueOnError

CountInv ==
  /\ stage = "start" => /\ stack = <<>> /\ r.filesCopied = 0 /\ r.bytesCopied = 0
                        /\ r.filesFailed = 0 /\ r.entriesSkipped = 0
  /\ AtRest /\ stage # "start" => Apart /\ Stands /\ Counts

LEMMA AboveIs ==
  ASSUME NEW n \in Nodes
  PROVE  /\ n \in Above[n] /\ Above[n] \subseteq Nodes /\ Parent[n] \in Dirs
         /\ \A m \in Above[n] : Above[m] \subseteq Above[n]
         /\ \A m \in Above[n] \ {n} : /\ Kind[m] = "dir" /\ Target[m] = m
                                      /\ \E c \in Above[n] : Parent[c] = m
         /\ \E c \in Above[n] : Parent[c] = Root
         /\ Parent[n] = Root => Above[n] = {n}
         /\ Parent[n] # Root => /\ Parent[n] \in Nodes /\ Kind[Parent[n]] = "dir"
                                /\ Above[n] = {n} \cup Above[Parent[n]]
                                /\ n \notin Above[Parent[n]]
<1>1. n \in Above[n] /\ Above[n] \subseteq Nodes /\ Parent[n] \in Dirs
  BY CopyAssumption
<1>2. /\ \A m \in Above[n] : Above[m] \subseteq Above[n]
      /\ \A m \in Above[n] \ {n} : \E c \in Above[n] : Parent[c] = m
      /\ \E c \in Above[n] : Parent[c] = Root
      /\ Above[n] = {n} \cup IF Parent[n] = Root THEN {} ELSE Above[Parent[n]]
      /\ Parent[n] # Root => n \notin Above[Parent[n]]
  BY CopyAssumption
<1>3. ASSUME NEW m \in Above[n] \ {n} PROVE Kind[m] = "dir" /\ Target[m] = m
  <2>1. PICK c \in Above[n] : Parent[c] = m
    BY <1>2
  <2>2. m \in Dirs /\ m \in Nodes /\ m # Root
    BY <1>1, <2>1, CopyAssumption
  <2>3. Kind[m] = "dir"
    BY <2>2 DEF Dirs
  <2> QED
    BY <2>2, <2>3, CopyConstants
<1>4. Parent[n] # Root => Parent[n] \in Nodes /\ Kind[Parent[n]] = "dir"
  BY <1>1 DEF Dirs
<1> QED
  BY <1>1, <1>2, <1>3, <1>4

(* The iterator passes c: what lies below it is among K, which is given    *)
(* next, or is not given at all.                                           *)
LEMMA PassOne ==
  ASSUME Tree(disk), Apart, UNCHANGED <<disk, opts>>,
         NEW c \in Nodes, Pending(c),
         NEW K \in SUBSET Given, \A x \in K : Parent[x] = c,
         \A n \in Given : c \in Above[n] \ {n} => \E x \in Above[n] : x \in K,
         \A x \in Nodes : Pending(x)' <=> (Pending(x) /\ x # c) \/ x \in K
  PROVE  Apart' /\ Passed' = Passed \cup {c} /\ c \in Given \ Passed
<1>1. Given' = Given /\ Given \subseteq Nodes
  BY DEF Given, Pruned
<1>2. c \in Given \ Passed
  BY AboveIs DEF Apart, Passed
<1>3. ASSUME NEW x \in K PROVE x \in Nodes /\ c \in Above[x] /\ Above[x] = {x} \cup Above[c] /\ x \notin Above[c]
  <2>1. x \in Nodes /\ Parent[x] = c /\ c # Root
    BY <1>1, CopyConstants
  <2> QED
    BY <2>1, AboveIs
<1>4. \A m \in Above[c] \ {c} : ~Pending(m)
  BY DEF Apart
<1>5. ASSUME NEW m \in Above[c] PROVE ~Pending(m)'
  <2>1. m \in Nodes /\ m \notin K
    <3>1. m \in Nodes /\ Above[m] \subseteq Above[c] /\ m \in Above[m]
      BY AboveIs
    <3>2. m \in K => m \notin Above[c]
      BY <1>3
    <3> QED
      BY <3>1, <3>2
  <2> QED
    BY <1>4, <2>1
<1>6. ASSUME NEW n \in Nodes, Pending(n)'
      PROVE  n \in Given /\ \A m \in Above[n] \ {n} : ~Pending(m)'
  <2>1. CASE n \in K
    BY <1>3, <1>5, <2>1
  <2>2. CASE Pending(n) /\ n # c
    <3>1. n \in Given /\ \A m \in Above[n] \ {n} : ~Pending(m)
      BY <2>2 DEF Apart
    <3>2. ASSUME NEW m \in Above[n] \ {n} PROVE m \notin K /\ m \in Nodes
      <4>1. m \in Nodes /\ Above[m] \subseteq Above[n]
        BY AboveIs
      <4>2. m \in K => c \in Above[n] /\ c # n
        BY <1>3, <2>2, <4>1
      <4> QED
        BY <3>1, <4>1, <4>2
    <3> QED
      BY <3>1, <3>2
  <2> QED
    BY <1>6, <2>1, <2>2
<1>7. Apart'
  BY <1>1, <1>6 DEF Apart
<1>8. ASSUME NEW n \in Passed PROVE \A m \in Above[n] : ~Pending(m)'
  <2>1. n \in Nodes /\ \A m \in Above[n] : ~Pending(m) /\ m \in Nodes
    BY <1>1, AboveIs DEF Passed
  <2>2. ASSUME NEW m \in Above[n] PROVE m \notin K
    <3>1. Above[m] \subseteq Above[n]
      BY <2>1, AboveIs
    <3> QED
      BY <1>3, <2>1, <3>1
  <2> QED
    BY <2>1, <2>2
<1>9. ASSUME NEW n \in Given, \A m \in Above[n] : ~Pending(m)', n # c
      PROVE  n \in Passed
  <2>1. n \in Nodes /\ n \in Above[n] /\ Above[n] \subseteq Nodes
    BY <1>1, AboveIs
  <2>2. c \notin Above[n]
    BY <1>9, <2>1
  <2>3. \A m \in Above[n] : ~Pending(m)
    BY <1>9, <2>1, <2>2
  <2> QED
    BY <2>3 DEF Passed
<1>10. Passed' = Passed \cup {c}
  <2>1. Passed' = {n \in Given : \A m \in Above[n] : ~Pending(m)'}
    BY <1>1 DEF Passed
  <2>2. Passed \subseteq Given
    BY DEF Passed
  <2>3. \A n \in Given : (\A m \in Above[n] : ~Pending(m)') <=> n \in Passed \/ n = c
    BY <1>5, <1>8, <1>9
  <2> QED
    BY <1>2, <2>1, <2>2, <2>3
<1> QED
  BY <1>2, <1>7, <1>10

LEMMA PassNone ==
  ASSUME UNCHANGED <<disk, opts>>, Apart, \A x \in Nodes : Pending(x)' <=> Pending(x)
  PROVE  Apart' /\ Passed' = Passed
<1>1. Given' = Given /\ Given \subseteq Nodes
  BY DEF Given, Pruned
<1>2. \A n \in Nodes : Above[n] \subseteq Nodes
  BY AboveIs
<1>3. Apart'
  BY <1>1, <1>2 DEF Apart
<1>4. \A n \in Given : (\A m \in Above[n] : ~Pending(m)') <=> \A m \in Above[n] : ~Pending(m)
  BY <1>1, <1>2
<1>5. Passed' = {n \in Given : \A m \in Above[n] : ~Pending(m)'}
  BY <1>1 DEF Passed
<1> QED
  BY <1>3, <1>4, <1>5 DEF Passed

-----------------------------------------------------------------------------
(* One more of a set is counted once.                                      *)
LEMMA CountOne ==
  ASSUME NEW P, IsFiniteSet(P), NEW c, c \notin P, NEW S
  PROVE  Cardinality(S \cap (P \cup {c})) = Cardinality(S \cap P) + IF c \in S THEN 1 ELSE 0
<1>1. IsFiniteSet(S \cap P)
  BY FS_Intersection
<1>2. Cardinality(S \cap P) \in Nat
  BY <1>1, FS_CardinalityType
<1>3. CASE c \in S
  <2>1. S \cap (P \cup {c}) = (S \cap P) \cup {c}
    BY <1>3
  <2>2. Cardinality((S \cap P) \cup {c}) =
          IF c \in S \cap P THEN Cardinality(S \cap P) ELSE Cardinality(S \cap P) + 1
    BY <1>1, FS_AddElement
  <2> QED
    BY <1>2, <1>3, <2>1, <2>2
<1>4. CASE c \notin S
  <2>1. S \cap (P \cup {c}) = S \cap P
    BY <1>4
  <2>2. Cardinality(S \cap P) = Cardinality(S \cap P) + 0
    BY <1>2
  <2>3. (IF c \in S THEN 1 ELSE 0) = 0
    BY <1>4
  <2> QED
    BY <2>1, <2>2, <2>3
<1> QED
  BY <1>3, <1>4

(* The bytes of one more file.                                             *)
LEMMA UnitsOfOne ==
  ASSUME NEW P, IsFiniteSet(Units(P)), NEW c, c \notin P, disk[Rel(c)] \in Nat
  PROVE  /\ IsFiniteSet(Units(P \cup {c}))
         /\ Cardinality(Units(P \cup {c})) = Cardinality(Units(P)) + disk[Rel(c)]
<1> DEFINE u == {c} \X (1 .. disk[Rel(c)])
<1>1. Units(P \cup {c}) = Units(P) \cup u
  BY DEF Units
<1>2. Units(P) \cap u = {}
  BY DEF Units
<1>3. IsFiniteSet(1 .. disk[Rel(c)]) /\ Cardinality(1 .. disk[Rel(c)]) = disk[Rel(c)]
  <2>1. PICK n \in Nat : n = disk[Rel(c)]
    OBVIOUS
  <2>2. 1 \in Int /\ n \in Int
    OBVIOUS
  <2>3. ASSUME NEW a \in Int, NEW b \in Int
        PROVE  /\ IsFiniteSet(a .. b)
               /\ Cardinality(a .. b) = IF a > b THEN 0 ELSE b - a + 1
    BY FS_Interval, Zenon
  <2>4. /\ IsFiniteSet(1 .. n)
        /\ Cardinality(1 .. n) = IF 1 > n THEN 0 ELSE n - 1 + 1
    BY <2>2, <2>3
  <2>5. (IF 1 > n THEN 0 ELSE n - 1 + 1) = n
    OBVIOUS
  <2> QED
    BY <2>1, <2>4, <2>5
<1>4. IsFiniteSet({c}) /\ Cardinality({c}) = 1
  BY FS_Singleton
<1>5. IsFiniteSet(u) /\ Cardinality(u) = Cardinality({c}) * Cardinality(1 .. disk[Rel(c)])
  BY <1>3, <1>4, FS_Product
<1>6. Cardinality(u) = disk[Rel(c)]
  <2>1. Cardinality({c}) * Cardinality(1 .. disk[Rel(c)]) = 1 * disk[Rel(c)]
    BY <1>3, <1>4
  <2>2. 1 * disk[Rel(c)] = disk[Rel(c)]
    OBVIOUS
  <2> QED
    BY <1>5, <2>1, <2>2
<1> HIDE DEF u
<1>7. /\ IsFiniteSet(Units(P) \cup u)
      /\ Cardinality(Units(P) \cup u) =
           Cardinality(Units(P)) + Cardinality(u) - Cardinality(Units(P) \cap u)
  BY <1>5, FS_Union
<1>8. Cardinality(Units(P)) \in Nat
  BY FS_CardinalityType
<1>9. Cardinality(Units(P) \cap u) = 0
  BY <1>2, FS_EmptySet
<1>10. Cardinality(Units(P)) + Cardinality(u) - Cardinality(Units(P) \cap u)
         = Cardinality(Units(P)) + disk[Rel(c)]
  BY <1>6, <1>8, <1>9
<1> QED
  BY <1>1, <1>7, <1>10

LEMMA SetsStay ==
  ASSUME UNCHANGED <<disk, opts, was>>
  PROVE  /\ Given' = Given /\ ToCopy' = ToCopy /\ ToSucceed' = ToSucceed /\ ToSkip' = ToSkip
         /\ \A s : Units(s)' = Units(s)
<1>1. Given' = Given
  BY DEF Given, Pruned
<1>2. ToCopy' = ToCopy /\ ToSkip' = ToSkip
  BY <1>1 DEF ToCopy, ToSkip, Pruned, Rel, IsRegular
<1>3. ToSucceed' = ToSucceed
  BY <1>2 DEF ToSucceed, Rel
<1>4. \A s : Units(s)' = Units(s)
  BY DEF Units, Rel
<1> QED
  BY <1>1, <1>2, <1>3, <1>4

LEMMA PassedFinite == IsFiniteSet(Passed) /\ Passed \subseteq Nodes
<1>1. Passed \subseteq Nodes
  BY DEF Passed, Given
<1> QED
  BY <1>1, FS_Subset, CopyAssumption

(* A turn that passes c and counts it as what it is.                       *)
LEMMA CountTurn ==
  ASSUME CopyTypeOK, Counts, UNCHANGED <<disk, opts, was>>,
         NEW c \in Given \ Passed, Passed' = Passed \cup {c}, stage' # "done",
         r'.filesCopied = r.filesCopied + IF c \in ToSucceed THEN 1 ELSE 0,
         r'.bytesCopied = r.bytesCopied + IF c \in ToSucceed THEN disk[Rel(c)] ELSE 0,
         r'.filesFailed = r.filesFailed + IF c \in ToCopy \ ToSucceed THEN 1 ELSE 0,
         r'.entriesSkipped = r.entriesSkipped + IF c \in ToSkip THEN 1 ELSE 0
  PROVE  Counts'
<1>1. \A S : Cardinality(S \cap (Passed \cup {c})) =
               Cardinality(S \cap Passed) + IF c \in S THEN 1 ELSE 0
  BY PassedFinite, CountOne
<1>2. /\ r'.filesCopied = Cardinality(ToSucceed' \cap Passed')
      /\ r'.filesFailed = Cardinality((ToCopy' \ ToSucceed') \cap Passed')
      /\ r'.entriesSkipped = Cardinality(ToSkip' \cap Passed')
  BY <1>1, SetsStay DEF Counts
<1> DEFINE s == ToSucceed \cap Passed
<1>3. IsFiniteSet(Units(s)) /\ r.bytesCopied = Cardinality(Units(s)) /\ c \notin s
  BY DEF Counts
<1>4. PICK t : t = ToSucceed \cap (Passed \cup {c})
  OBVIOUS
<1>5. IsFiniteSet(Units(t)) /\ r'.bytesCopied = Cardinality(Units(t))
  <2>1. CASE c \in ToSucceed
    <3>1. t = s \cup {c}
      BY <1>4, <2>1
    <3>2. disk[Rel(c)] \in Nat
      BY CopyConstants, Resolves DEF CopyTypeOK, Given
    <3>3. IsFiniteSet(Units(s \cup {c}))
      BY <1>3, <3>2, UnitsOfOne
    <3>4. Cardinality(Units(s \cup {c})) = Cardinality(Units(s)) + disk[Rel(c)]
      BY <1>3, <3>2, UnitsOfOne
    <3> QED
      BY <1>3, <2>1, <3>1, <3>3, <3>4
  <2>2. CASE c \notin ToSucceed
    <3>1. t = s
      BY <1>4, <2>2
    <3>2. r'.bytesCopied = r.bytesCopied
      BY <2>2 DEF CopyTypeOK, Result
    <3> QED
      BY <1>3, <3>1, <3>2
  <2> QED
    BY <2>1, <2>2
<1>6. t = ToSucceed' \cap Passed' /\ Units(t)' = Units(t)
  BY <1>4, SetsStay
<1>7. /\ IsFiniteSet(Units(ToSucceed \cap Passed)')
      /\ r'.bytesCopied = Cardinality(Units(ToSucceed \cap Passed)')
  BY <1>5, <1>6 DEF Units
<1> QED
  BY <1>2, <1>7 DEF Counts

(* A turn that passes nothing counts nothing.                              *)
LEMMA CountNone ==
  ASSUME Counts, UNCHANGED <<disk, opts, was>>, Passed' = Passed,
         \/ r' = r /\ stage' # "done"
         \/ r' = r /\ stage' = stage
         \/ Finish /\ CopyTypeOK
  PROVE  Counts'
<1>1. /\ ToSucceed' \cap Passed' = ToSucceed \cap Passed
      /\ (ToCopy' \ ToSucceed') \cap Passed' = (ToCopy \ ToSucceed) \cap Passed
      /\ ToSkip' \cap Passed' = ToSkip \cap Passed
      /\ Units(ToSucceed \cap Passed)' = Units(ToSucceed \cap Passed)
  BY SetsStay DEF Units
<1>2. /\ r'.filesCopied = r.filesCopied /\ r'.bytesCopied = r.bytesCopied
      /\ r'.filesFailed = r.filesFailed /\ r'.entriesSkipped = r.entriesSkipped
  <2>1. CASE r' = r
    BY <2>1
  <2>2. CASE Finish /\ CopyTypeOK
    BY <2>2 DEF Finish, CopyTypeOK, Result
  <2> QED
    BY <2>1, <2>2
<1>3. stage' = "done" => r'.ok = (r'.filesFailed = 0)
  <2>1. CASE Finish /\ CopyTypeOK
    BY <1>2, <2>1 DEF Finish, CopyTypeOK, Result
  <2>2. CASE r' = r /\ stage' = stage
    BY <2>2 DEF Counts
  <2> QED
    BY <2>1, <2>2
<1> QED
  BY <1>1, <1>2, <1>3 DEF Counts

-----------------------------------------------------------------------------
(* The turns, one action at a time, in a tree at rest.                     *)
AllInv == SteadyInv /\ CountInv

LEMMA PushedOnly ==
  ASSUME NEW s \in Seq(Dirs), NEW d \in Dirs, NEW x, On(<<d>> \o s, x)
  PROVE  x = d \/ On(s, x)
<1>1. <<d>> \in Seq(Dirs) /\ Len(<<d>>) = 1 /\ Len(s) \in Nat /\ DOMAIN s = 1 .. Len(s)
  BY LenProperties
<1>2. /\ Len(<<d>> \o s) = 1 + Len(s)
      /\ \A i \in 1 .. 1 + Len(s) :
           (<<d>> \o s)[i] = IF i <= 1 THEN d ELSE s[i - 1]
  BY <1>1, ConcatProperties
<1>3. DOMAIN (<<d>> \o s) = 1 .. 1 + Len(s)
  BY <1>1, <1>2, ConcatProperties, LenProperties
<1>4. PICK i \in 1 .. 1 + Len(s) : (<<d>> \o s)[i] = x
  BY <1>3 DEF On
<1>5. CASE i <= 1
  BY <1>2, <1>4, <1>5
<1>6. CASE i > 1
  <2>1. i - 1 \in DOMAIN s /\ s[i - 1] = x
    BY <1>1, <1>2, <1>4, <1>6
  <2> QED
    BY <2>1 DEF On
<1> QED
  BY <1>1, <1>4, <1>5, <1>6

LEMMA StartCounts ==
  ASSUME AllInv, Start, AtRest'
  PROVE  Apart' /\ Stands' /\ Counts'
<1> USE DEF AllInv, SteadyInv, CopyTypeOK
<1>1. /\ stage = "start" /\ isDir /\ Root \in Dirs /\ r' = r
      /\ UNCHANGED <<disk, opts, was>>
      /\ stack = <<>> /\ r.filesCopied = 0 /\ r.bytesCopied = 0
      /\ r.filesFailed = 0 /\ r.entriesSkipped = 0
  BY DEF Start, Frame, AtRest, CountInv, Dirs
<1>2. /\ stage' = "next" /\ stack' = <<Root>> \o stack
      /\ todo' = [todo EXCEPT ![Root] = {n \in Children(Root) : disk[n] # 0}]
  BY <1>1 DEF Start, AtRest, Open, Frame
<1>3. On(stack', Root)
  BY <1>1, <1>2, Pushed
<1>4. \A x : On(stack', x) => x = Root
  <2>1. \A x : ~On(stack, x)
    BY <1>1 DEF On
  <2> QED
    BY <1>1, <1>2, <2>1, PushedOnly
<1>5. \A x \in Nodes : Pending(x)' <=> Parent[x] = Root /\ disk[x] # 0
  BY <1>1, <1>2, <1>3, <1>4 DEF Pending, Children
<1>6. Apart'
  <2>1. \A n \in Nodes : Parent[n] = Root => Above[n] \ {n} = {}
    BY AboveIs
  <2>2. \A n \in Nodes : Parent[n] = Root /\ disk[n] # 0 => n \in Given'
    BY <1>1, <2>1, SetsStay DEF Given
  <2> QED
    BY <1>5, <2>1, <2>2 DEF Apart
<1>7. Passed' = {}
  <2> SUFFICES ASSUME NEW n \in Nodes, disk[n] # 0
               PROVE  \E m \in Above[n] : Pending(m)'
    <3>1. Given' \subseteq {n \in Nodes : disk[n] # 0}
      BY <1>1, SetsStay DEF Given
    <3> QED
      BY <3>1 DEF Passed
  <2>1. PICK c \in Above[n] : Parent[c] = Root
    BY AboveIs
  <2>2. c \in Nodes /\ disk[c] # 0
    BY AboveIs DEF ArriveInv, Tree
  <2> QED
    BY <1>5, <2>1, <2>2
<1>8. Counts'
  <2>1. \A S : S \cap Passed' = {}
    BY <1>7
  <2>2. IsFiniteSet({}) /\ Cardinality({}) = 0
    BY FS_EmptySet
  <2>3. Units({}) = {}
    BY DEF Units
  <2>4. Units(ToSucceed \cap Passed)' = {}
    BY <2>1 DEF Units
  <2> QED
    BY <1>1, <1>2, <2>1, <2>2, <2>4 DEF Counts
<1> QED
  BY <1>2, <1>6, <1>8 DEF Stands

(* In an entry whose turn is over, the path it stood on is pending no more. *)
LEMMA TurnOver ==
  ASSUME Stands, stage \in {"entry", "enter", "copy"}, stage' = "next",
         UNCHANGED <<stack, todo>>
  PROVE  \A x \in Nodes : Pending(x)' <=> Pending(x) /\ x # cur
BY DEF Stands, Pending

(* A turn that ends with an entry that has nothing below it to give.       *)
LEMMA LeafCounts ==
  ASSUME AllInv, Apart, Stands, Counts, stage \in {"entry", "enter", "copy"},
         stage' = "next", UNCHANGED <<stack, todo, disk, opts, was>>,
         \A n \in Given : cur \notin Above[n] \ {n},
         r'.filesCopied = r.filesCopied + IF cur \in ToSucceed THEN 1 ELSE 0,
         r'.bytesCopied = r.bytesCopied + IF cur \in ToSucceed THEN disk[Rel(cur)] ELSE 0,
         r'.filesFailed = r.filesFailed + IF cur \in ToCopy \ ToSucceed THEN 1 ELSE 0,
         r'.entriesSkipped = r.entriesSkipped + IF cur \in ToSkip THEN 1 ELSE 0
  PROVE  Apart' /\ Stands' /\ Counts'
<1> USE DEF AllInv, SteadyInv
<1>1. cur \in Nodes /\ Pending(cur)
  BY DEF CopyTypeOK, Pending
<1>2. PICK c \in Nodes : c = cur
  BY <1>1
<1>3. PICK K \in SUBSET Given : K = {}
  OBVIOUS
<1>4. /\ \A x \in Nodes : Pending(x)' <=> (Pending(x) /\ x # c) \/ x \in K
      /\ \A x \in K : Parent[x] = c
      /\ \A n \in Given : c \in Above[n] \ {n} => \E x \in Above[n] : x \in K
  BY <1>2, <1>3, TurnOver
<1>5. Apart' /\ Passed' = Passed \cup {c} /\ c \in Given \ Passed
  <2>1. Tree(disk) /\ Pending(c)
    BY <1>1, <1>2 DEF ArriveInv
  <2> QED
    BY <1>4, <2>1, PassOne
<1>6. Counts'
  BY <1>2, <1>5, CountTurn
<1> QED
  BY <1>5, <1>6 DEF Stands

(* A skipped entry, one that is no file, and a directory that may not be   *)
(* entered have nothing below them that is given.                          *)
LEMMA SkipCounts ==
  ASSUME AllInv, Apart, Stands, Counts, SkipCached
  PROVE  Apart' /\ Stands' /\ Counts'
<1> USE DEF AllInv, SteadyInv, CopyTypeOK
<1>1. /\ stage = "entry" /\ Pruned(Rel(cur)) /\ stage' = "next" /\ cur \in Nodes
      /\ UNCHANGED <<stack, todo, disk, opts, was>>
  BY DEF SkipCached, Frame
<1>2. /\ r'.entriesSkipped = r.entriesSkipped + 1
      /\ r'.filesCopied = r.filesCopied /\ r'.bytesCopied = r.bytesCopied
      /\ r'.filesFailed = r.filesFailed
      /\ r.filesCopied \in Nat /\ r.bytesCopied \in Int /\ r.filesFailed \in Nat
  BY DEF SkipCached, Result
<1>3. ASSUME NEW n \in Given PROVE cur \notin Above[n] \ {n}
  <2>1. n \in Nodes /\ \A d \in Above[n] \ {n} : ~Pruned(d)
    BY DEF Given
  <2>2. Kind[cur] # "link" => Pruned(cur)
    BY <1>1, Resolves
  <2> QED
    BY <2>1, <2>2, AboveIs
<1>4. cur \in ToSkip /\ cur \notin ToCopy /\ cur \notin ToSucceed
  <2>1. cur \in Given
    BY <1>1 DEF Apart, Pending
  <2> QED
    BY <1>1, <2>1 DEF ToSkip, ToCopy, ToSucceed
<1>5. /\ r'.filesCopied = r.filesCopied + IF cur \in ToSucceed THEN 1 ELSE 0
      /\ r'.bytesCopied = r.bytesCopied + IF cur \in ToSucceed THEN disk[Rel(cur)] ELSE 0
      /\ r'.filesFailed = r.filesFailed + IF cur \in ToCopy \ ToSucceed THEN 1 ELSE 0
      /\ r'.entriesSkipped = r.entriesSkipped + IF cur \in ToSkip THEN 1 ELSE 0
  BY <1>2, <1>4
<1> QED
  BY <1>1, <1>3, <1>5, LeafCounts

LEMMA PassCounts ==
  ASSUME AllInv, Apart, Stands, Counts, AtRest,
         \/ SkipOther
         \/ EnterDir /\ cur \in Unreadable
         \/ MakeDir /\ Kind[cur] # "dir"
  PROVE  Apart' /\ Stands' /\ Counts'
<1> USE DEF AllInv, SteadyInv, CopyTypeOK
<1>1. /\ stage \in {"entry", "enter"} /\ stage' = "next" /\ cur \in Nodes /\ r' = r
      /\ UNCHANGED <<stack, todo, disk, opts, was>>
  BY DEF SkipOther, EnterDir, MakeDir, Frame
<1>2. cur \in Given
  BY <1>1 DEF Apart, Pending
<1>3. ASSUME NEW n \in Given PROVE cur \notin Above[n] \ {n}
  <2>1. n \in Nodes /\ \A d \in Above[n] \ {n} : d \notin Unreadable
    BY DEF Given
  <2>2. SkipOther => Kind[cur] # "dir"
    BY <1>1, Resolves DEF SkipOther
  <2> QED
    BY <2>1, <2>2, AboveIs
<1>4. cur \notin ToSkip /\ cur \notin ToCopy /\ cur \notin ToSucceed
  <2>1. CASE SkipOther \/ MakeDir
    BY <2>1 DEF SkipOther, MakeDir, IsRegular, ToSkip, ToCopy, ToSucceed
  <2>2. CASE EnterDir
    <3>1. Kind[cur] = "dir" /\ Rel(cur) = cur /\ ~Pruned(cur)
      BY <1>1, <2>2, Resolves DEF EnterDir, EntryInv, Stands
    <3> QED
      BY <3>1 DEF ToSkip, ToCopy, ToSucceed, IsRegular
  <2> QED
    BY <2>1, <2>2
<1>5. /\ r.filesCopied \in Nat /\ r.bytesCopied \in Int /\ r.filesFailed \in Nat
      /\ r.entriesSkipped \in Nat
  BY DEF Result
<1>6. /\ r'.filesCopied = r.filesCopied + IF cur \in ToSucceed THEN 1 ELSE 0
      /\ r'.bytesCopied = r.bytesCopied + IF cur \in ToSucceed THEN disk[Rel(cur)] ELSE 0
      /\ r'.filesFailed = r.filesFailed + IF cur \in ToCopy \ ToSucceed THEN 1 ELSE 0
      /\ r'.entriesSkipped = r.entriesSkipped + IF cur \in ToSkip THEN 1 ELSE 0
  BY <1>1, <1>4, <1>5
<1> QED
  BY <1>1, <1>3, <1>6, LeafCounts

LEMMA CopyCounts ==
  ASSUME AllInv, Apart, Stands, Counts, AtRest, CopyFails \/ CopySucceeds
  PROVE  Apart' /\ Stands' /\ Counts'
<1> USE DEF AllInv, SteadyInv, CopyTypeOK
<1>1. /\ stage = "copy" /\ stage' = "next" /\ cur \in Nodes
      /\ UNCHANGED <<stack, todo, disk, opts, was>>
  BY DEF CopyFails, CopySucceeds, Frame, AtRest
<1>2. /\ cur \in ToCopy /\ To = Rel(cur) /\ sz = disk[Rel(cur)] /\ disk[Rel(cur)] # 0
      /\ ~Pruned(Rel(cur)) /\ To \in Regular
  <2>1. cur \in ToCopy /\ sz = disk[To] /\ disk[cur] # 0 /\ Kind[Rel(cur)] = "file"
    BY <1>1 DEF Stands, ToCopy, IsRegular, Given
  <2>2. To = Rel(cur) /\ Rel(cur) \in Nodes /\ disk[Rel(cur)] # 0
    BY <1>1, <2>1, Resolves DEF To
  <2> QED
    BY <2>1, <2>2 DEF ToCopy, Regular
<1>3. /\ cur \notin ToSkip
      /\ cur \in ToSucceed <=> To \notin Unreadable \/ Spared
  <2>1. To \in Unreadable => dst[To] = was[To]
    BY <1>2 DEF ArriveInv, Arrived
  <2> QED
    BY <1>2, <2>1 DEF ToSkip, ToSucceed, Spared
<1>4. ASSUME NEW n \in Given PROVE cur \notin Above[n] \ {n}
  <2>1. n \in Nodes /\ Kind[cur] # "dir"
    BY <1>1, <1>2, Resolves DEF Given, ToCopy, IsRegular
  <2> QED
    BY <2>1, AboveIs
<1>5. /\ r.filesCopied \in Nat /\ r.bytesCopied \in Int /\ r.filesFailed \in Nat
      /\ r.entriesSkipped \in Nat
  BY DEF Result
<1>6. CASE CopySucceeds
  <2>1. cur \in ToSucceed
    BY <1>3, <1>6 DEF CopySucceeds
  <2>2. /\ r'.filesCopied = r.filesCopied + 1 /\ r'.bytesCopied = r.bytesCopied + sz
        /\ r'.filesFailed = r.filesFailed /\ r'.entriesSkipped = r.entriesSkipped
    BY <1>6 DEF CopySucceeds, Result
  <2>3. /\ r'.filesCopied = r.filesCopied + IF cur \in ToSucceed THEN 1 ELSE 0
        /\ r'.bytesCopied = r.bytesCopied + IF cur \in ToSucceed THEN disk[Rel(cur)] ELSE 0
        /\ r'.filesFailed = r.filesFailed + IF cur \in ToCopy \ ToSucceed THEN 1 ELSE 0
        /\ r'.entriesSkipped = r.entriesSkipped + IF cur \in ToSkip THEN 1 ELSE 0
    BY <1>2, <1>3, <1>5, <2>1, <2>2
  <2> QED
    BY <1>1, <1>4, <2>3, LeafCounts
<1>7. CASE CopyFails
  <2>1. cur \notin ToSucceed
    BY <1>2, <1>3, <1>7 DEF CopyFails
  <2>2. /\ r'.filesFailed = r.filesFailed + 1 /\ r'.filesCopied = r.filesCopied
        /\ r'.bytesCopied = r.bytesCopied /\ r'.entriesSkipped = r.entriesSkipped
    BY <1>7 DEF CopyFails, Result
  <2>3. /\ r'.filesCopied = r.filesCopied + IF cur \in ToSucceed THEN 1 ELSE 0
        /\ r'.bytesCopied = r.bytesCopied + IF cur \in ToSucceed THEN disk[Rel(cur)] ELSE 0
        /\ r'.filesFailed = r.filesFailed + IF cur \in ToCopy \ ToSucceed THEN 1 ELSE 0
        /\ r'.entriesSkipped = r.entriesSkipped + IF cur \in ToSkip THEN 1 ELSE 0
    BY <1>2, <1>3, <1>5, <2>1, <2>2
  <2> QED
    BY <1>1, <1>4, <2>3, LeafCounts
<1> QED
  BY <1>6, <1>7

(* A directory that is entered is passed for what is in it.                *)
LEMMA EnterCounts ==
  ASSUME AllInv, Apart, Stands, Counts, EnterDir, cur \notin Unreadable, disk[cur] # 0
  PROVE  Apart' /\ Stands' /\ Counts'
<1> USE DEF AllInv, SteadyInv, CopyTypeOK
<1>1. /\ stage = "enter" /\ cur \in Nodes /\ cur # Root /\ Kind[cur] = "dir" /\ cur \in Dirs
      /\ Open(cur) /\ r' = r /\ UNCHANGED <<disk, opts, was>>
  BY CopyConstants DEF EnterDir, EntryInv, Frame, Dirs
<1>2. /\ stage' = "next" /\ stack' = <<cur>> \o stack
      /\ todo' = [todo EXCEPT ![cur] = {m \in Children(cur) : disk[m] # 0}]
  BY <1>1 DEF Open
<1>3. cur \in Given /\ Pending(cur) /\ ~Pruned(cur) /\ Rel(cur) = cur
  BY <1>1, Resolves DEF Apart, Pending, Stands
<1>4. PICK c \in Nodes : c = cur
  BY <1>1
<1>5. PICK K \in SUBSET Nodes : K = {m \in Children(c) : disk[m] # 0}
  BY DEF Children
<1>6. ASSUME NEW x \in K
      PROVE  Parent[x] = c /\ Above[x] = {x} \cup Above[c] /\ x \in Given
  <2>1. x \in Nodes /\ Parent[x] = c /\ disk[x] # 0
    BY <1>5 DEF Children
  <2>2. Above[x] = {x} \cup Above[c] /\ c \in Above[c]
    BY <1>1, <1>4, <2>1, AboveIs
  <2>3. \A d \in Above[x] \ {x} : d \notin Unreadable /\ ~Pruned(d)
    BY <1>3, <1>4, <2>2 DEF Given
  <2> QED
    BY <2>1, <2>2, <2>3 DEF Given
<1>7. ASSUME NEW n \in Given, c \in Above[n] \ {n}
      PROVE  \E x \in Above[n] : x \in K
  <2>1. n \in Nodes /\ disk[n] # 0
    BY DEF Given
  <2>2. PICK x \in Above[n] : Parent[x] = c
    BY <1>7, <2>1, AboveIs
  <2>3. x \in Nodes /\ disk[x] # 0
    BY <2>1, AboveIs DEF ArriveInv, Tree
  <2> QED
    BY <1>5, <2>2, <2>3 DEF Children
<1>8. ASSUME NEW x \in Nodes PROVE Pending(x)' <=> (Pending(x) /\ x # c) \/ x \in K
  <2>1. Parent[x] \in Dirs
    BY AboveIs
  <2>2. Pending(x)' <=> On(stack', Parent[x]) /\ x \in todo'[Parent[x]]
    BY <1>2 DEF Pending
  <2>3. CASE Parent[x] = c
    <3>1. On(stack', Parent[x]) /\ (x \in todo'[Parent[x]] <=> x \in K)
      BY <1>1, <1>2, <1>4, <1>5, <2>3, Pushed
    <3>2. ~Pending(x) \/ x = c
      <4>1. c \in Above[x] /\ Pending(c)
        BY <1>1, <1>3, <1>4, <2>3, AboveIs
      <4> QED
        BY <4>1 DEF Apart
    <3> QED
      BY <2>2, <3>1, <3>2
  <2>4. CASE Parent[x] # c
    <3>1. On(stack', Parent[x]) <=> On(stack, Parent[x])
      BY <1>1, <1>2, <1>4, <2>4, Pushed, PushedOnly
    <3>2. todo'[Parent[x]] = todo[Parent[x]] /\ x \notin K
      BY <1>2, <1>4, <1>6, <2>1, <2>4
    <3>3. Pending(x) /\ x # c <=> On(stack, Parent[x]) /\ x \in todo[Parent[x]]
      BY <1>1, <1>4 DEF Pending, Stands
    <3> QED
      BY <2>2, <3>1, <3>2, <3>3
  <2> QED
    BY <2>3, <2>4
<1>9. Apart' /\ Passed' = Passed \cup {c} /\ c \in Given \ Passed
  <2>1. K \in SUBSET Given /\ Tree(disk) /\ Pending(c)
    BY <1>3, <1>4, <1>6 DEF ArriveInv
  <2> QED
    BY <1>1, <1>6, <1>7, <1>8, <2>1, PassOne
<1>10. Counts'
  <2>1. c \notin ToCopy /\ c \notin ToSucceed /\ c \notin ToSkip
    BY <1>1, <1>3, <1>4 DEF ToCopy, ToSucceed, ToSkip, IsRegular
  <2>2. /\ r.filesCopied \in Nat /\ r.bytesCopied \in Int /\ r.filesFailed \in Nat
        /\ r.entriesSkipped \in Nat
    BY DEF Result
  <2>3. /\ r'.filesCopied = r.filesCopied + IF c \in ToSucceed THEN 1 ELSE 0
        /\ r'.bytesCopied = r.bytesCopied + IF c \in ToSucceed THEN disk[Rel(c)] ELSE 0
        /\ r'.filesFailed = r.filesFailed + IF c \in ToCopy \ ToSucceed THEN 1 ELSE 0
        /\ r'.entriesSkipped = r.entriesSkipped + IF c \in ToSkip THEN 1 ELSE 0
    BY <1>1, <2>1, <2>2
  <2> QED
    BY <1>1, <1>2, <1>9, <2>3, CountTurn
<1> QED
  BY <1>2, <1>9, <1>10 DEF Stands

(* The other turns pass nothing: an entry is taken or looked at, or a      *)
(* directory that is finished is left.                                     *)
LEMMA OtherCounts ==
  ASSUME AllInv, Apart, Stands, Counts, AtRest,
         TakeEntry \/ LeaveDir \/ (MakeDir /\ Kind[cur] = "dir") \/ Measure \/ Finish
  PROVE  Apart' /\ Stands' /\ Counts'
<1> USE DEF AllInv, SteadyInv, CopyTypeOK
<1>1. UNCHANGED <<disk, opts, was>>
  BY DEF TakeEntry, LeaveDir, MakeDir, Measure, Finish, Frame
<1>2. (\A x \in Nodes : Pending(x)' <=> Pending(x)) /\ Stands'
  <2>1. CASE TakeEntry
    <3>1. PICK m \in todo[Head(stack)] :
            cur' = m /\ todo' = [todo EXCEPT ![Head(stack)] = @ \ {m}]
      BY <2>1 DEF TakeEntry
    <3>2. /\ stage = "next" /\ stage' = "entry" /\ stack' = stack /\ stack # <<>>
          /\ Head(stack) \in Dirs
      BY <2>1 DEF TakeEntry
    <3>3. m \in Nodes /\ Parent[m] = Head(stack)
      BY <3>2 DEF ArriveInv, Children
    <3>4. On(stack, Head(stack))
      <4>1. 1 \in DOMAIN stack /\ stack[1] = Head(stack)
        BY <3>2
      <4> QED
        BY <4>1 DEF On
    <3>5. m \notin todo'[Parent[m]]
      BY <3>1, <3>2, <3>3
    <3>6. ASSUME NEW x \in Nodes PROVE Pending(x)' <=> Pending(x)
      <4>1. Parent[x] \in Dirs
        BY AboveIs
      <4>2. CASE x = m
        BY <3>1, <3>2, <3>3, <3>4, <4>2 DEF Pending
      <4>3. CASE x # m
        <5>1. x \in todo'[Parent[x]] <=> x \in todo[Parent[x]]
          BY <3>1, <3>2, <4>1, <4>3
        <5> QED
          BY <3>1, <3>2, <4>3, <5>1 DEF Pending
      <4> QED
        BY <4>2, <4>3
    <3> QED
      BY <3>1, <3>2, <3>5, <3>6 DEF Stands
  <2>2. CASE LeaveDir
    <3>1. /\ stage = "next" /\ stack # <<>> /\ todo[Head(stack)] = {}
          /\ stack' = Tail(stack) /\ todo' = todo
          /\ stage' = IF Len(stack) = 1 THEN "end" ELSE "next"
      BY <2>2 DEF LeaveDir
    <3>2. ASSUME NEW x \in Nodes PROVE Pending(x)' => Pending(x)
      <4>1. \A d : On(Tail(stack), d) => On(stack, d)
        <5>1. /\ Len(Tail(stack)) = Len(stack) - 1 /\ Len(stack) \in Nat
              /\ DOMAIN stack = 1 .. Len(stack) /\ DOMAIN Tail(stack) = 1 .. Len(Tail(stack))
              /\ \A i \in 1 .. Len(Tail(stack)) : Tail(stack)[i] = stack[i + 1]
          BY <3>1
        <5>2. \A i \in DOMAIN Tail(stack) : i + 1 \in DOMAIN stack /\ Tail(stack)[i] = stack[i + 1]
          BY <5>1
        <5> QED
          BY <5>2 DEF On
      <4> QED
        BY <3>1, <4>1 DEF Pending
    <3>3. ASSUME NEW x \in Nodes, Pending(x) PROVE Pending(x)'
      <4>1. On(stack, Parent[x]) /\ x \in todo[Parent[x]]
        BY <3>1, <3>3 DEF Pending
      <4>2. On(Tail(stack), Parent[x])
        BY <3>1, <4>1, Popped
      <4>3. Len(stack) # 1
        BY <3>1, <4>2 DEF On
      <4> QED
        BY <3>1, <4>1, <4>2, <4>3 DEF Pending
    <3> QED
      BY <3>1, <3>2, <3>3 DEF Stands
  <2>3. CASE MakeDir /\ Kind[cur] = "dir"
    <3>1. /\ stage = "entry" /\ stage' = "enter" /\ UNCHANGED <<stack, todo, cur>>
          /\ cur \in Nodes /\ ~Pruned(Rel(cur)) /\ Kind[cur] = "dir"
      BY <2>3 DEF MakeDir
    <3>2. Rel(cur) = cur /\ Pruned(cur)' = Pruned(cur)
      BY <1>1, <3>1, Resolves DEF Pruned, InCache
    <3> QED
      BY <3>1, <3>2 DEF Stands, Pending
  <2>4. CASE Measure
    <3>1. /\ stage = "entry" /\ stage' = "copy" /\ UNCHANGED <<stack, todo, cur>>
          /\ cur \in Nodes /\ ~Pruned(Rel(cur)) /\ IsRegular(cur)
          /\ sz' = IF disk[To] = 0 THEN -1 ELSE disk[To]
      BY <2>4 DEF Measure
    <3>2. cur \in Given
      BY <3>1 DEF Apart, Pending
    <3>3. disk[To] # 0
      <4>1. Kind[Rel(cur)] = "file" /\ disk[cur] # 0
        BY <3>1, <3>2 DEF IsRegular, Given
      <4> QED
        BY <3>1, <4>1, Resolves DEF To
    <3>4. PICK c \in ToCopy : c = cur
      BY <3>1, <3>2 DEF ToCopy
    <3>5. cur' \in ToCopy' /\ sz' = disk'[To']
      BY <1>1, <3>1, <3>3, <3>4, SetsStay DEF To
    <3> QED
      BY <3>1, <3>5 DEF Stands, Pending
  <2>5. CASE Finish
    BY <2>5 DEF Finish, Pending, Stands
  <2> QED
    BY <2>1, <2>2, <2>3, <2>4, <2>5
<1>3. Apart' /\ Passed' = Passed
  BY <1>1, <1>2, PassNone
<1>4. (r' = r /\ stage' # "done") \/ Finish
  BY DEF TakeEntry, LeaveDir, MakeDir, Measure
<1>5. Counts'
  BY <1>1, <1>3, <1>4, CountNone
<1> QED
  BY <1>2, <1>3, <1>5

LEMMA CountStep == AllInv /\ [CopyNext]_copyVars => CountInv'
<1> SUFFICES ASSUME AllInv, [CopyNext]_copyVars PROVE CountInv'
  OBVIOUS
<1>1. CASE CopyStep
  <2>1. stage' # "start"
    BY <1>1 DEF CopyStep, Start, Open, TakeEntry, LeaveDir, IterationFails, EnterDir, SkipCached,
                MakeDir, SkipOther, Measure, CopyFails, CopySucceeds, Finish
  <2> SUFFICES ASSUME AtRest' PROVE Apart' /\ Stands' /\ Counts'
    BY <2>1 DEF CountInv
  <2>2. AtRest /\ ~IterationFails
    <3>1. UNCHANGED <<opts, isDir, steady>>
      BY <1>1 DEF CopyStep, Start, TakeEntry, LeaveDir, IterationFails, EnterDir, SkipCached,
                MakeDir, SkipOther, Measure, CopyFails, CopySucceeds, Finish, Frame
    <3>2. cut => cut'
      BY <1>1 DEF CopyStep, Start, TakeEntry, LeaveDir, IterationFails, EnterDir, SkipCached,
                MakeDir, SkipOther, Measure, CopyFails, CopySucceeds, Finish
    <3>3. IterationFails => cut'
      BY DEF IterationFails
    <3> QED
      BY <3>1, <3>2, <3>3 DEF AtRest
  <2>3. CASE Start
    BY <2>3, StartCounts
  <2>4. CASE ~Start
    <3>1. stage # "start"
      BY <1>1, <2>4 DEF CopyStep, TakeEntry, LeaveDir, IterationFails, EnterDir, SkipCached,
                MakeDir, SkipOther, Measure, CopyFails, CopySucceeds, Finish
    <3>2. Apart /\ Stands /\ Counts
      BY <2>2, <3>1 DEF AllInv, CountInv
    <3>3. CASE EnterDir \/ MakeDir
      <4>1. EnterDir => cur \in Unreadable \/ disk[cur] # 0
        BY <2>2, <3>3 DEF EnterDir, AtRest
      <4> QED
        BY <2>2, <3>2, <3>3, <4>1, PassCounts, EnterCounts, OtherCounts
    <3> QED
      BY <1>1, <2>2, <2>4, <3>2, <3>3, SkipCounts, PassCounts, CopyCounts, OtherCounts
      DEF CopyStep
  <2> QED
    BY <2>3, <2>4
<1>2. CASE Edit
  <2>1. stage # "start" /\ stage' = stage
    BY <1>2 DEF Edit
  <2>2. ~AtRest'
    BY <1>2 DEF Edit, AtRest
  <2> QED
    BY <2>1, <2>2 DEF CountInv
<1>3. CASE UNCHANGED copyVars
  <2>1. UNCHANGED <<disk, opts, was, stack, todo, cur, sz, r, stage, steady, cut, isDir>>
    BY <1>3 DEF copyVars
  <2>2. \A x \in Nodes : Pending(x)' <=> Pending(x)
    BY <2>1 DEF Pending
  <2>3. Apart => Apart' /\ Passed' = Passed
    BY <2>1, <2>2, PassNone
  <2>4. Apart /\ Counts => Counts'
    BY <2>1, <2>3, CountNone
  <2>5. Stands => Stands'
    BY <2>1, SetsStay DEF Stands, Pruned, InCache, To
  <2> QED
    BY <2>1, <2>3, <2>4, <2>5 DEF AllInv, CountInv, AtRest
<1> QED
  BY <1>1, <1>2, <1>3 DEF CopyNext

(* CountersMatchTree: for any tree, with links, caches, locked files and   *)
(* directories that may not be listed.  The witnesses are what the code    *)
(* does: every link is taken for its target, and a file that is there and  *)
(* not to be overwritten counts as copied.                                 *)
THEOREM CountersDoMatch == CopySpec => []CountersMatchTree
<1>1. CopyInit => CountInv
  BY DEF CopyInit, CountInv
<1>2. AllInv => CountersMatchTree
  <2> SUFFICES ASSUME AllInv, Complete, steady = Nodes PROVE CountersMatchTree
    BY DEF CountersMatchTree
  <2>1. Counts /\ stage = "done"
    BY DEF AllInv, CountInv, AtRest, Complete
  <2>2. Passed = Given
    BY <2>1 DEF Passed, Pending
  <2>3. /\ ToSucceed \cap Passed = ToSucceed /\ ToSkip \cap Passed = ToSkip
        /\ (ToCopy \ ToSucceed) \cap Passed = ToCopy \ ToSucceed
        /\ ToSucceed \subseteq ToCopy
    BY <2>2 DEF ToSucceed, ToCopy, ToSkip
  <2>4. /\ r.filesCopied = Cardinality(ToSucceed)
        /\ r.bytesCopied = Cardinality(Units(ToSucceed))
        /\ r.filesFailed = Cardinality(ToCopy \ ToSucceed)
        /\ r.entriesSkipped = Cardinality(ToSkip)
        /\ r.ok = (r.filesFailed = 0)
    BY <2>1, <2>3 DEF Counts
  <2>5. r.ok = (ToCopy = ToSucceed)
    <3>1. IsFiniteSet(ToCopy \ ToSucceed)
      <4>1. ToCopy \ ToSucceed \in SUBSET Nodes
        BY DEF ToCopy, Given
      <4> QED
        BY <4>1, FS_Subset, CopyAssumption
    <3>2. Cardinality(ToCopy \ ToSucceed) = 0 <=> ToCopy \ ToSucceed = {}
      BY <3>1, FS_EmptySet
    <3>3. ToCopy \ ToSucceed = {} <=> ToCopy = ToSucceed
      BY <2>3
    <3> QED
      BY <2>4, <3>2, <3>3
  <2> DEFINE links == {n \in Given : Kind[n] = "link"}
             there == {n \in Given : ~opts.overwrite /\ was[Rel(n)] # 0}
             taken == (Given \ links) \cup links
             files == {n \in taken : ~Pruned(Rel(n)) /\ IsRegular(n)}
             good == {n \in files : Rel(n) \notin Unreadable \/ n \in there}
  <2>6. taken = Given
    OBVIOUS
  <2>7. files = ToCopy /\ {n \in taken : Pruned(Rel(n))} = ToSkip
    BY <2>6 DEF ToCopy, ToSkip
  <2>8. good = ToSucceed
    <3>1. \A n \in ToCopy : n \in there <=> ~opts.overwrite /\ was[Rel(n)] # 0
      BY DEF ToCopy
    <3> QED
      BY <2>7, <3>1 DEF ToSucceed
  <2>9. /\ r.filesCopied = Cardinality(good)
        /\ r.bytesCopied = Cardinality(UNION {{n} \X (1 .. disk[Rel(n)]) : n \in good})
        /\ r.filesFailed = Cardinality(files \ good)
        /\ r.entriesSkipped = Cardinality({n \in taken : Pruned(Rel(n))})
        /\ r.ok = (files = good)
    BY <2>4, <2>5, <2>7, <2>8 DEF Units
  <2>10. links \in SUBSET links /\ there \in SUBSET there
    OBVIOUS
  <2> QED
    BY <2>9, <2>10, Zenon DEF CountersMatchTree, Given
<1>3. CopyInv /\ AllInv /\ [CopyNext]_copyVars => AllInv'
  BY CountStep, SteadyStep DEF AllInv
<1>4. CopyInit => AllInv
  BY <1>1, SteadyInit DEF AllInv
<1> QED
  BY <1>2, <1>3, <1>4, CopyInitInv, CopyInvStep, PTL DEF CopySpec
============================================================================
