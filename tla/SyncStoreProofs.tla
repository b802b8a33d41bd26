--------------------------- MODULE SyncStoreProofs ---------------------------
(***************************************************************************)
(* ReadSyncData drives ReadLockedStore only through its operations, so     *)
(* that what LockedStoreProofs says of the helper holds of it.  StoreInv   *)
(* is what every writer of a LevelDB store preserves, the recovery of the  *)
(* reader included; ReadInv is what the reader knows of it.                *)
(***************************************************************************)
EXTENDS SyncStore, LockedStoreProofs, SequenceTheorems, WellFoundedInduction

(* What the existence test of the helper is given.                         *)
PresentOK == present \in BOOLEAN

LEMMA PresentStep == PresentOK /\ [Next]_vars => PresentOK'
<1> SUFFICES ASSUME PresentOK, [Next]_vars
             PROVE  PresentOK'
  OBVIOUS
<1>1. CASE Browser
  BY <1>1 DEF Browser, OpenBrowser, SetCurrent, Put, RollLog, BuildTable, Install,
              RemoveObsolete, StopBrowser, PresentOK
<1>2. CASE Reader
  BY <1>2 DEF Reader, Step, Look, BeginCopy, OpenLive, OpenLiveFails, IterateLive,
              CopyFile, EndCopy, OpenCopy, OpenCopyFails, Throw, storeVars, PresentOK
<1>3. CASE UNCHANGED vars
  BY <1>3 DEF vars, storeVars, PresentOK
<1>4. QED
  BY <1>1, <1>2, <1>3 DEF Next

LEMMA SyncStepIsLocked == PresentOK /\ [Next]_vars => [LSNext]_lsVars
<1> SUFFICES ASSUME PresentOK, [Next]_vars
             PROVE  [LSNext]_lsVars
  OBVIOUS
<1>1. CASE Browser
  BY <1>1 DEF Browser, BrowserFrame, OpenBrowser, SetCurrent, Put, RollLog,
              BuildTable, Install, RemoveObsolete, StopBrowser
<1>2. CASE Look
  BY <1>2 DEF Look, LSNext, PresentOK
<1>3. CASE BeginCopy
  BY <1>3 DEF BeginCopy, LSNext
<1>4. CASE OpenLiveFails \/ IterateLive
  BY <1>4 DEF OpenLiveFails, IterateLive, LSNext
<1>5. CASE EndCopy
  <2>1. (DOMAIN copy # {}) \in BOOLEAN
    OBVIOUS
  <2>2. CopyReturns(DOMAIN copy # {})
    BY <1>5 DEF EndCopy
  <2>3. QED
    BY <2>1, <2>2 DEF LSNext
<1>6. CASE OpenCopy \/ OpenCopyFails
  BY <1>6 DEF OpenCopy, OpenCopyFails, LSNext
<1>7. CASE Throw
  BY <1>7 DEF Throw, LSNext
<1>8. CASE OpenLive \/ CopyFile
  BY <1>8 DEF OpenLive, CopyFile
<1>9. CASE UNCHANGED vars
  BY <1>9 DEF vars
<1>10. QED
  BY <1>1, <1>2, <1>3, <1>4, <1>5, <1>6, <1>7, <1>8, <1>9 DEF Next, Reader, Step

(* ReadSyncData implements the control of ReadLockedStore: it inherits     *)
(* what LockedStoreSafety promises to every client.                        *)
THEOREM SyncImplementsLockedStore == Spec => LSSpec
<1>1. Init => PresentOK /\ LSInit
  BY DEF Init, PresentOK
<1>2. PresentOK /\ [Next]_vars => PresentOK' /\ [LSNext]_lsVars
  BY PresentStep, SyncStepIsLocked
<1>3. QED
  BY <1>1, <1>2, PTL DEF Spec, LSSpec

-----------------------------------------------------------------------------
(* One iteration per successful tryRead.                                   *)

ReportsByPlace ==
  /\ reports \in Seq(SUBSET DeviceWrites)
  /\ served = {} => reports = <<>>
  /\ served # {} => Len(reports) = 1
  /\ Len(reports) <= 1

LEMMA ReportsStep ==
  ASSUME LSInv, ReportsByPlace, [Next]_vars
  PROVE  ReportsByPlace'
<1>1. CASE UNCHANGED <<served, reports>>
  BY <1>1 DEF ReportsByPlace
<1>2. ASSUME NEW d \in SUBSET DeviceWrites, reports' = Append(reports, d),
             served = {}, served' # {}
      PROVE  ReportsByPlace'
  <2>1. reports = <<>>
    BY <1>2 DEF ReportsByPlace
  <2>2. reports' = <<d>>
    BY <1>2, <2>1
  <2>3. QED
    BY <1>2, <2>2 DEF ReportsByPlace
<1>3. CASE IterateLive
  <2>1. served = {} /\ served' = {"live"}
    BY <1>3 DEF IterateLive, ReadLiveReturns, LSInv, ServedByPlace
  <2>2. Devices(files) \in SUBSET DeviceWrites
    BY DEF Devices
  <2>3. QED
    BY <1>2, <1>3, <2>1, <2>2 DEF IterateLive
<1>4. CASE OpenCopy
  <2>1. served = {} /\ served' = {"copy"}
    BY <1>4 DEF OpenCopy, ReadCopyReturns, LSInv, ServedByPlace
  <2>2. Devices(copy) \in SUBSET DeviceWrites
    BY DEF Devices
  <2>3. QED
    BY <1>2, <1>4, <2>1, <2>2 DEF OpenCopy
<1>5. CASE Browser \/ UNCHANGED vars
  BY <1>1, <1>5 DEF Browser, BrowserFrame, OpenBrowser, SetCurrent, Put, RollLog,
     BuildTable, Install, RemoveObsolete, StopBrowser, vars, lsVars
<1>6. CASE Look
  BY <1>1, <1>6 DEF Look, CheckExists, CheckWal, Cleanup
<1>7. CASE BeginCopy \/ OpenLive \/ CopyFile \/ EndCopy
  BY <1>1, <1>7 DEF BeginCopy, MakeTemp, OpenLive, CopyFile, EndCopy, CopyReturns, lsVars
<1>8. CASE OpenLiveFails \/ OpenCopyFails
  BY <1>1, <1>8 DEF OpenLiveFails, OpenCopyFails, ReadLiveReturns, ReadCopyReturns
<1>9. CASE Throw
  BY <1>1, <1>9 DEF Throw, ClientThrows
<1>10. QED
  BY <1>3, <1>4, <1>5, <1>6, <1>7, <1>8, <1>9 DEF Next, Reader, Step

(* The devices of a store are pushed into the Profile at most once, and    *)
(* exactly once when a tryRead succeeded: a copy is never iterated after   *)
(* the store itself was.                                                   *)
THEOREM SyncDevicesOnce ==
  Spec => [](Len(reports) <= 1 /\ (served # {} => Len(reports) = 1))
<1> DEFINE Inv == LSInv /\ PresentOK /\ ReportsByPlace
<1>1. Init => Inv
  <2>1. Init => ReportsByPlace
    BY DEF Init, LSInit, ReportsByPlace
  <2>2. QED
    BY <2>1, LSInitInv DEF Init, PresentOK
<1>2. Inv /\ [Next]_vars => Inv'
  BY LSStepInv, SyncStepIsLocked, PresentStep, ReportsStep
<1>3. Inv => Len(reports) <= 1 /\ (served # {} => Len(reports) = 1)
  BY DEF ReportsByPlace
<1>4. QED
  BY <1>1, <1>2, <1>3, PTL DEF Spec

-----------------------------------------------------------------------------
(* Numbers                                                                 *)

(* A set of natural numbers has a least element, a bounded one a greatest. *)
LEMMA LeastNumber ==
  ASSUME NEW S \in SUBSET Nat, S # {}
  PROVE  \E x \in S : \A y \in S : x <= y
<1> DEFINE R == OpToRel(<, Nat)
<1>1. IsWellFoundedOn(R, Nat)
  BY NatLessThanWellFounded
<1>2. \A x, y \in Nat : x < y => <<x, y>> \in R
  BY DEF OpToRel
<1> HIDE DEF R
<1>3. PICK x \in S : \A y \in S : ~(<<y, x>> \in R)
  BY <1>1, WFMin
<1>4. ASSUME NEW y \in S PROVE x <= y
  <2>1. x \in Nat /\ y \in Nat /\ ~(y < x)
    BY <1>2, <1>3
  <2>2. QED
    BY <2>1
<1>5. QED
  BY <1>4

LEMMA GreatestNumber ==
  ASSUME NEW S \in SUBSET Nat, S # {}, NEW b \in Nat, \A x \in S : x < b
  PROVE  \E x \in S : \A y \in S : y <= x
<1> DEFINE Rest == {b - x : x \in S}
<1>1. Rest \in SUBSET Nat /\ Rest # {}
  <2>1. \A x \in S : b - x \in Nat
    OBVIOUS
  <2>2. QED
    BY <2>1
<1>2. PICK u \in Rest : \A v \in Rest : u <= v
  BY <1>1, LeastNumber
<1>3. PICK x \in S : u = b - x
  OBVIOUS
<1>4. ASSUME NEW y \in S PROVE y <= x
  <2>1. b - x <= b - y /\ x \in Nat /\ y \in Nat
    BY <1>2, <1>3
  <2>2. QED
    BY <2>1
<1>5. QED
  BY <1>4

-----------------------------------------------------------------------------
(* Directories                                                             *)

LEMMA WithFacts ==
  ASSUME NEW dir, NEW n, NEW file
  PROVE  /\ DOMAIN With(dir, n, file) = DOMAIN dir \cup {n}
         /\ With(dir, n, file)[n] = file
         /\ \A f \in DOMAIN dir : f # n => With(dir, n, file)[f] = dir[f]
  BY DEF With

LEMMA WithType ==
  ASSUME NEW dir, NEW n \in Numbers, NEW file \in File, IsDirectory(dir)
  PROVE  IsDirectory(With(dir, n, file))
  BY DEF With, IsDirectory

LEMMA KeepFacts ==
  ASSUME NEW dir, NEW F
  PROVE  /\ DOMAIN Keep(dir, F) = DOMAIN dir \cap F
         /\ \A f \in DOMAIN dir \cap F : Keep(dir, F)[f] = dir[f]
  BY DEF Keep

LEMMA KeepType ==
  ASSUME NEW dir, NEW F, IsDirectory(dir)
  PROVE  IsDirectory(Keep(dir, F))
  BY DEF Keep, IsDirectory

LEMMA NumbersAreNat == Numbers \subseteq Nat /\ CURRENT \in Numbers
  BY SyncAssumption DEF Numbers, CURRENT

LEMMA FileTypes ==
  ASSUME NEW n \in Numbers, NEW S \in SUBSET Numbers, NEW W \in SUBSET Writes
  PROVE  /\ Current(n) \in File
         /\ Manifest(S, n) \in File
         /\ Table(W) \in File
         /\ Log(W) \in File
         /\ NoFile \in File
<1>1. 0 \in Numbers
  BY NumbersAreNat DEF CURRENT
<1>2. Current(n) \in File /\ Manifest(S, n) \in File
  BY DEF Current, Manifest, File
<1>3. Table(W) \in File /\ Log(W) \in File
  BY <1>1 DEF Table, Log, File
<1>4. NoFile \in File
  BY <1>1 DEF NoFile, Table, File
<1>5. QED
  BY <1>2, <1>3, <1>4

(* What a list of tables and a first log hold together.                    *)
LogsFrom(dir, l) == {f \in DOMAIN dir : dir[f].kind = "log" /\ f >= l}

Whole(dir, T, l, n) ==
  /\ T \subseteq DOMAIN dir
  /\ \A t \in T : dir[t].kind = "table"
  /\ Contents(dir, T \cup LogsFrom(dir, l)) = 1 .. n

StoreOK(dir, n, w) ==
  /\ IsDirectory(dir)
  /\ \A f \in DOMAIN dir : f < n
  /\ CURRENT \in DOMAIN dir
  /\ dir[CURRENT].kind = "current"
  /\ dir[CURRENT].ref \in DOMAIN dir
  /\ Installed(dir).kind = "manifest"
  /\ Whole(dir, Installed(dir).tables, Installed(dir).ref, w)

LEMMA ReplayedAre ==
  ASSUME NEW dir
  PROVE  Replayed(dir) = LogsFrom(dir, Installed(dir).ref)
  BY DEF Replayed, LogsFrom

LEMMA ContentsAre ==
  ASSUME NEW dir, NEW F, NEW w
  PROVE  w \in Contents(dir, F) <=> \E f \in F : w \in dir[f].writes
  BY DEF Contents

LEMMA ContentsType ==
  ASSUME NEW dir, IsDirectory(dir), NEW F \in SUBSET DOMAIN dir
  PROVE  Contents(dir, F) \subseteq Writes
  BY DEF Contents, IsDirectory, File

(* Two directories that agree on some files hold the same in them.         *)
LEMMA SameContents ==
  ASSUME NEW dir, NEW dir2, NEW F, \A f \in F : dir2[f].writes = dir[f].writes
  PROVE  Contents(dir2, F) = Contents(dir, F)
  BY DEF Contents

LEMMA WholeHolds ==
  ASSUME NEW dir, NEW w, NEW n, StoreOK(dir, n, w)
  PROVE  Openable(dir) /\ Records(dir) = 1 .. w
  BY ReplayedAre DEF StoreOK, Whole, Openable, Records, Installed

(* CURRENT is renamed to name another MANIFEST that lists the whole store. *)
LEMMA RenamedCurrent ==
  ASSUME NEW dir, NEW n, NEW w, StoreOK(dir, n, w), NEW m \in DOMAIN dir,
         dir[m].kind = "manifest", Whole(dir, dir[m].tables, dir[m].ref, w)
  PROVE  LET new == With(dir, CURRENT, Current(m))
         IN  /\ StoreOK(new, n, w)
             /\ Installed(new) = dir[m]
             /\ \A l : LogsFrom(new, l) = LogsFrom(dir, l)
<1> DEFINE new == With(dir, CURRENT, Current(m))
<1>1. m # CURRENT /\ m \in Numbers
  BY DEF StoreOK, IsDirectory
<1>2. /\ DOMAIN new = DOMAIN dir
      /\ new[CURRENT] = Current(m)
      /\ \A f \in DOMAIN dir : f # CURRENT => new[f] = dir[f]
  BY DEF With, StoreOK
<1>3. IsDirectory(new)
  BY <1>1, WithType, FileTypes, NumbersAreNat DEF StoreOK
<1>4. Installed(new) = dir[m] /\ new[CURRENT].kind = "current" /\ new[CURRENT].ref = m
  BY <1>1, <1>2 DEF Installed, Current
<1> HIDE DEF new
<1>5. \A l : LogsFrom(new, l) = LogsFrom(dir, l)
  <2>1. \A f \in DOMAIN dir : new[f].kind = dir[f].kind
    BY <1>2, <1>4 DEF StoreOK
  <2>2. QED
    BY <1>2, <2>1 DEF LogsFrom
<1>6. Whole(new, dir[m].tables, dir[m].ref, w)
  <2> DEFINE F == dir[m].tables \cup LogsFrom(dir, dir[m].ref)
  <2>1. \A f \in F : f \in DOMAIN dir /\ f # CURRENT
    BY DEF Whole, LogsFrom, StoreOK
  <2>2. Contents(new, F) = Contents(dir, F)
    BY <1>2, <2>1, SameContents
  <2>3. \A t \in dir[m].tables : new[t].kind = "table"
    BY <1>2, <2>1 DEF Whole
  <2>4. QED
    BY <1>2, <1>5, <2>2, <2>3 DEF Whole
<1>7. StoreOK(new, n, w)
  BY <1>2, <1>3, <1>4, <1>6 DEF StoreOK
<1>8. QED
  BY <1>4, <1>5, <1>7 DEF new

(* A file with a new number that is not a log with something in it leaves  *)
(* every list of tables and first log what it was.                         *)
LEMMA AddedFile ==
  ASSUME NEW dir, NEW n \in Nat, NEW w, StoreOK(dir, n, w),
         NEW k \in Numbers, k >= n, NEW file \in File, file.kind = "log" => file.writes = {}
  PROVE  LET new == With(dir, k, file)
         IN  /\ StoreOK(new, k + 1, w)
             /\ Installed(new) = Installed(dir)
             /\ new[CURRENT] = dir[CURRENT]
             /\ DOMAIN new = DOMAIN dir \cup {k}
             /\ new[k] = file
             /\ \A f \in DOMAIN dir : f # k /\ new[f] = dir[f]
             /\ \A l : LogsFrom(dir, l) \subseteq LogsFrom(new, l)
             /\ \A T, l : Whole(dir, T, l, w) => Whole(new, T, l, w)
<1> DEFINE new == With(dir, k, file)
<1>1. k \in Nat /\ DOMAIN dir \subseteq Nat
  BY NumbersAreNat DEF StoreOK, IsDirectory
<1>2. k \notin DOMAIN dir
  BY <1>1 DEF StoreOK
<1>3. /\ DOMAIN new = DOMAIN dir \cup {k}
      /\ new[k] = file
      /\ \A f \in DOMAIN dir : f # k /\ new[f] = dir[f]
  BY <1>2 DEF With
<1>4. IsDirectory(new)
  BY WithType DEF StoreOK
<1>5. Installed(new) = Installed(dir) /\ new[CURRENT] = dir[CURRENT]
  BY <1>3 DEF Installed, StoreOK
<1> HIDE DEF new
<1>6. \A l : LogsFrom(dir, l) \subseteq LogsFrom(new, l)
  BY <1>3 DEF LogsFrom
<1>7. ASSUME NEW T, NEW l, Whole(dir, T, l, w)
      PROVE  Whole(new, T, l, w)
  <2>1. \A f \in LogsFrom(new, l) : f \in LogsFrom(dir, l) \/ (f = k /\ file.writes = {})
    BY <1>3 DEF LogsFrom
  <2>2. Contents(new, T \cup LogsFrom(new, l)) = Contents(dir, T \cup LogsFrom(dir, l))
    <3>1. ASSUME NEW x \in Contents(dir, T \cup LogsFrom(dir, l))
          PROVE  x \in Contents(new, T \cup LogsFrom(new, l))
      BY <1>3, <1>6, <1>7, <3>1 DEF Contents, LogsFrom, Whole
    <3>2. ASSUME NEW x \in Contents(new, T \cup LogsFrom(new, l))
          PROVE  x \in Contents(dir, T \cup LogsFrom(dir, l))
      <4>1. PICK f \in T \cup LogsFrom(new, l) : x \in new[f].writes
        BY <3>2 DEF Contents
      <4>2. f \in T \cup LogsFrom(dir, l)
        BY <1>3, <2>1, <4>1
      <4>3. new[f] = dir[f]
        BY <1>3, <1>7, <4>2 DEF LogsFrom, Whole
      <4>4. QED
        BY <4>1, <4>2, <4>3 DEF Contents
    <3>3. QED
      BY <3>1, <3>2
  <2>3. QED
    BY <1>3, <1>7, <2>2 DEF Whole
<1>8. \A f \in DOMAIN new : f < k + 1
  BY <1>1, <1>3 DEF StoreOK
<1>9. StoreOK(new, k + 1, w)
  BY <1>3, <1>4, <1>5, <1>7, <1>8 DEF StoreOK
<1>10. QED
  BY <1>3, <1>5, <1>6, <1>7, <1>9 DEF new

(* Deleting what is neither needed nor being installed.                    *)
LEMMA KeptFiles ==
  ASSUME NEW dir, NEW n, NEW w, StoreOK(dir, n, w), NEW F, Needed(dir) \subseteq F
  PROVE  LET new == Keep(dir, F)
         IN  /\ StoreOK(new, n, w)
             /\ Installed(new) = Installed(dir)
             /\ Replayed(new) = Replayed(dir)
             /\ \A T \in SUBSET F, l \in Nat : l >= Installed(dir).ref /\ Whole(dir, T, l, w)
                  => Whole(new, T, l, w) /\ LogsFrom(new, l) = LogsFrom(dir, l)
<1> DEFINE new == Keep(dir, F)
<1>1. /\ DOMAIN new = DOMAIN dir \cap F
      /\ \A f \in DOMAIN new : new[f] = dir[f]
  BY DEF Keep
<1>2. IsDirectory(new)
  BY KeepType DEF StoreOK
<1> HIDE DEF new
<1>3. /\ CURRENT \in DOMAIN new
      /\ dir[CURRENT].ref \in DOMAIN new
      /\ Installed(dir).tables \subseteq F
      /\ Replayed(dir) \subseteq F
  BY <1>1 DEF Needed, StoreOK
<1>4. new[CURRENT] = dir[CURRENT] /\ Installed(new) = Installed(dir)
  BY <1>1, <1>3 DEF Installed
<1>5. Installed(dir).ref \in Nat /\ \A f \in DOMAIN dir : f \in Nat
  BY NumbersAreNat DEF StoreOK, IsDirectory, Installed, File
<1>6. ASSUME NEW l \in Nat, l >= Installed(dir).ref
      PROVE  LogsFrom(new, l) = LogsFrom(dir, l)
  <2>1. \A f \in LogsFrom(dir, l) : f \in Replayed(dir)
    BY <1>5, <1>6, ReplayedAre DEF LogsFrom
  <2>2. \A f \in LogsFrom(dir, l) : f \in DOMAIN new
    BY <1>1, <1>3, <2>1 DEF LogsFrom
  <2>3. QED
    BY <1>1, <2>2 DEF LogsFrom
<1>7. ASSUME NEW T \in SUBSET F, NEW l \in Nat, l >= Installed(dir).ref, Whole(dir, T, l, w)
      PROVE  Whole(new, T, l, w)
  <2>1. LogsFrom(new, l) = LogsFrom(dir, l)
    BY <1>6, <1>7
  <2>2. T \subseteq DOMAIN new /\ LogsFrom(new, l) \subseteq DOMAIN new
    BY <1>1, <1>7 DEF Whole, LogsFrom
  <2>3. Contents(new, T \cup LogsFrom(new, l)) = Contents(dir, T \cup LogsFrom(new, l))
    <3>1. \A f \in T \cup LogsFrom(new, l) : new[f].writes = dir[f].writes
      BY <1>1, <2>2
    <3>2. QED
      BY <3>1, SameContents
  <2>4. QED
    BY <1>1, <1>7, <2>1, <2>2, <2>3 DEF Whole
<1>8. Replayed(new) = Replayed(dir)
  BY <1>4, <1>5, <1>6, ReplayedAre
<1>9. Whole(new, Installed(new).tables, Installed(new).ref, w)
  BY <1>3, <1>4, <1>5, <1>7 DEF StoreOK
<1>10. StoreOK(new, n, w)
  BY <1>1, <1>2, <1>3, <1>4, <1>9 DEF StoreOK
<1>11. QED
  BY <1>4, <1>6, <1>7, <1>8, <1>10 DEF new

(* The number after those that DB::Open uses.                              *)
AfterRecovery(dir, n) == n + (IF Contents(dir, Replayed(dir)) = {} THEN 2 ELSE 3)

(* DB::Open leaves the store as it is for whoever reads CURRENT, and makes *)
(* a MANIFEST, the newest, that lists all of it.                           *)
LEMMA Recovered ==
  ASSUME NEW dir, NEW n \in Nat, NEW w, StoreOK(dir, n, w), n + 2 \in Numbers
  PROVE  LET new == Recovery(dir, n)
         IN  /\ StoreOK(new, AfterRecovery(dir, n), w)
             /\ n + 1 \in DOMAIN new
             /\ new[n + 1].kind = "manifest"
             /\ new[n + 1].ref = n
             /\ \A g \in DOMAIN new : new[g].kind = "manifest" => g <= n + 1
             /\ Whole(new, new[n + 1].tables, n, w)
             /\ LogsFrom(new, n) # {}
<1> DEFINE tables == Installed(dir).tables
           replay == Contents(dir, Replayed(dir))
           logged == With(dir, n, Log({}))
           plain  == With(logged, n + 1, Manifest(tables, n))
           listed == With(logged, n + 1, Manifest(tables \cup {n + 2}, n))
           built  == With(listed, n + 2, Table(replay))
<1>1. n \in Numbers /\ n + 1 \in Numbers
  BY SyncAssumption DEF Numbers
<1>2. /\ tables \subseteq Numbers
      /\ tables \subseteq DOMAIN dir
      /\ Replayed(dir) \subseteq DOMAIN dir
      /\ replay \subseteq Writes
      /\ DOMAIN dir \subseteq Nat
      /\ \A f \in DOMAIN dir : f < n
  <2>1. tables \subseteq DOMAIN dir /\ Replayed(dir) \subseteq DOMAIN dir
    BY DEF StoreOK, Whole, Replayed
  <2>2. QED
    BY <2>1, ContentsType, NumbersAreNat DEF StoreOK, IsDirectory
<1>3. \A t \in tables : dir[t].kind = "table"
  BY DEF StoreOK, Whole
<1>4. Contents(dir, tables \cup Replayed(dir)) = 1 .. w
  BY ReplayedAre DEF StoreOK, Whole
<1>5. /\ Log({}) \in File /\ Log({}).kind = "log" /\ Log({}).writes = {}
      /\ Table(replay) \in File /\ Table(replay).kind = "table" /\ Table(replay).writes = replay
  BY <1>1, <1>2, FileTypes DEF Log, Table
<1>6. \A S : /\ Manifest(S, n).kind = "manifest"
             /\ Manifest(S, n).ref = n
             /\ Manifest(S, n).tables = S
  BY DEF Manifest
<1>7. Manifest(tables, n) \in File /\ Manifest(tables \cup {n + 2}, n) \in File
  <2>1. tables \cup {n + 2} \in SUBSET Numbers
    BY <1>2
  <2>2. QED
    BY <1>1, <1>2, <2>1, FileTypes
<1> HIDE DEF tables, replay
<1>8. /\ StoreOK(logged, n + 1, w)
      /\ DOMAIN logged = DOMAIN dir \cup {n}
      /\ logged[n] = Log({})
      /\ \A f \in DOMAIN dir : f # n /\ logged[f] = dir[f]
  BY <1>1, <1>5, AddedFile
<1> HIDE DEF logged
<1>9. ASSUME NEW M \in File, M.kind = "manifest", M.ref = n
      PROVE  LET new == With(logged, n + 1, M)
             IN  /\ StoreOK(new, n + 2, w)
                 /\ DOMAIN new = DOMAIN dir \cup {n, n + 1}
                 /\ new[n + 1] = M
                 /\ new[n] = Log({})
                 /\ \A f \in DOMAIN dir : f # n + 1 /\ new[f] = dir[f]
  <2> DEFINE new == With(logged, n + 1, M)
  <2>1. n + 1 \in Nat
    OBVIOUS
  <2>2. /\ StoreOK(new, (n + 1) + 1, w)
        /\ DOMAIN new = DOMAIN logged \cup {n + 1}
        /\ new[n + 1] = M
        /\ \A f \in DOMAIN logged : f # n + 1 /\ new[f] = logged[f]
    BY <1>1, <1>8, <1>9, <2>1, AddedFile
  <2> HIDE DEF new
  <2>3. (n + 1) + 1 = n + 2
    OBVIOUS
  <2>4. QED
    BY <1>8, <2>2, <2>3 DEF new
<1>10. CASE replay = {}
  <2>1. Recovery(dir, n) = plain /\ AfterRecovery(dir, n) = n + 2
    BY <1>10 DEF Recovery, AfterRecovery, replay, tables, logged
  <2>2. /\ StoreOK(plain, n + 2, w)
        /\ DOMAIN plain = DOMAIN dir \cup {n, n + 1}
        /\ plain[n + 1] = Manifest(tables, n)
        /\ plain[n] = Log({})
        /\ \A f \in DOMAIN dir : plain[f] = dir[f]
    BY <1>6, <1>7, <1>9
  <2> HIDE DEF plain
  <2>3. LogsFrom(plain, n) = {n}
    BY <1>2, <1>5, <1>6, <2>2 DEF LogsFrom
  <2>4. Contents(plain, tables \cup {n}) = 1 .. w
    <3>1. Contents(plain, tables \cup {n}) = Contents(dir, tables)
      BY <1>2, <1>5, <2>2 DEF Contents
    <3>2. Contents(dir, tables) = Contents(dir, tables \cup Replayed(dir))
      BY <1>10 DEF Contents, replay
    <3>3. QED
      BY <1>4, <3>1, <3>2
  <2>5. Whole(plain, tables, n, w)
    BY <1>2, <1>3, <2>2, <2>3, <2>4 DEF Whole
  <2>6. \A g \in DOMAIN plain : g <= n + 1
    BY <1>2, <2>2
  <2>7. QED
    BY <1>6, <2>1, <2>2, <2>3, <2>5, <2>6
<1>11. CASE replay # {}
  <2>1. Recovery(dir, n) = built /\ AfterRecovery(dir, n) = n + 3
    BY <1>11 DEF Recovery, AfterRecovery, replay, tables, logged
  <2>2. /\ StoreOK(listed, n + 2, w)
        /\ DOMAIN listed = DOMAIN dir \cup {n, n + 1}
        /\ listed[n + 1] = Manifest(tables \cup {n + 2}, n)
        /\ listed[n] = Log({})
        /\ \A f \in DOMAIN dir : listed[f] = dir[f]
    BY ZenonT(30), <1>6, <1>7, <1>9
  <2> HIDE DEF listed
  <2>3. /\ n + 2 \in Nat
        /\ n + 2 \in Numbers
        /\ n + 2 >= n + 2
        /\ Table(replay).kind = "log" => Table(replay).writes = {}
    BY <1>5
  <2>4. /\ StoreOK(built, (n + 2) + 1, w)
        /\ DOMAIN built = DOMAIN listed \cup {n + 2}
        /\ built[n + 2] = Table(replay)
        /\ \A f \in DOMAIN listed : f # n + 2 /\ built[f] = listed[f]
    BY ZenonT(30), <1>5, <2>2, <2>3, AddedFile
  <2> HIDE DEF built
  <2>5. (n + 2) + 1 = n + 3
    OBVIOUS
  <2>6. LogsFrom(built, n) = {n}
    <3>1. \A f \in DOMAIN built : f \in DOMAIN dir \/ f \in {n, n + 1, n + 2}
      BY <2>2, <2>4
    <3>2. built[n].kind = "log" /\ built[n + 1].kind = "manifest" /\ built[n + 2].kind = "table"
      BY <1>5, <1>6, <2>2, <2>4
    <3>3. QED
      BY <1>2, <2>2, <2>4, <3>1, <3>2 DEF LogsFrom
  <2>7. Contents(built, tables \cup {n + 2} \cup {n}) = 1 .. w
    <3>1. \A f \in tables : built[f] = dir[f]
      BY <1>2, <2>2, <2>4
    <3>2. built[n].writes = {} /\ built[n + 2].writes = replay
      BY <1>5, <2>2, <2>4
    <3>3. Contents(built, tables \cup {n + 2} \cup {n}) = Contents(dir, tables) \cup replay
      BY <3>1, <3>2 DEF Contents
    <3>4. Contents(dir, tables) \cup replay = Contents(dir, tables \cup Replayed(dir))
      BY DEF Contents, replay
    <3>5. QED
      BY <1>4, <3>3, <3>4
  <2>8. \A t \in tables \cup {n + 2} : t \in DOMAIN built /\ built[t].kind = "table"
    BY <1>2, <1>3, <1>5, <2>2, <2>4
  <2>9. Whole(built, tables \cup {n + 2}, n, w)
    BY <2>6, <2>7, <2>8 DEF Whole
  <2>10. built[n + 1] = Manifest(tables \cup {n + 2}, n) /\ n + 1 \in DOMAIN built
    BY <2>2, <2>4
  <2>11. \A g \in DOMAIN built : built[g].kind = "manifest" => g <= n + 1
    <3>1. \A g \in DOMAIN built : g \in DOMAIN dir \/ g \in {n, n + 1, n + 2}
      BY <2>2, <2>4
    <3>2. built[n + 2].kind # "manifest"
      BY <1>5, <2>4
    <3>3. QED
      BY <1>2, <3>1, <3>2
  <2>12. QED
    BY <1>6, <2>1, <2>4, <2>5, <2>6, <2>9, <2>10, <2>11
<1>12. QED
  BY <1>10, <1>11

(* A record in the newest log is a record of whatever that log belongs to. *)
LEMMA LoggedWrite ==
  ASSUME NEW dir, NEW n, NEW w \in Nat, StoreOK(dir, n, w), w + 1 \in Writes,
         NEW g \in Replayed(dir)
  PROVE  LET new == With(dir, g, Log(dir[g].writes \cup {w + 1}))
         IN  /\ StoreOK(new, n, w + 1)
             /\ Installed(new) = Installed(dir)
             /\ \A l : LogsFrom(new, l) = LogsFrom(dir, l)
             /\ \A T, l : g >= l /\ Whole(dir, T, l, w) => Whole(new, T, l, w + 1)
<1> DEFINE file == Log(dir[g].writes \cup {w + 1})
           new  == With(dir, g, file)
<1>1. g \in DOMAIN dir /\ dir[g].kind = "log" /\ g >= Installed(dir).ref
  BY DEF Replayed
<1>2. /\ DOMAIN new = DOMAIN dir
      /\ new[g] = file
      /\ \A f \in DOMAIN dir : f # g => new[f] = dir[f]
  BY <1>1 DEF With
<1>3. file.kind = "log" /\ file.writes = dir[g].writes \cup {w + 1}
  BY DEF Log
<1>4. IsDirectory(new)
  <2>1. dir[g].writes \cup {w + 1} \in SUBSET Writes /\ g \in Numbers
    BY <1>1 DEF StoreOK, IsDirectory, File
  <2>2. file \in File
    BY <2>1, FileTypes, NumbersAreNat
  <2>3. QED
    BY <2>1, <2>2, WithType DEF StoreOK
<1> HIDE DEF new, file
<1>5. \A f \in DOMAIN dir : new[f].kind = dir[f].kind
  BY <1>1, <1>2, <1>3
<1>6. \A l : LogsFrom(new, l) = LogsFrom(dir, l)
  BY <1>2, <1>5 DEF LogsFrom
<1>7. new[CURRENT] = dir[CURRENT] /\ Installed(new) = Installed(dir)
  BY <1>1, <1>2 DEF StoreOK, Installed
<1>8. ASSUME NEW T, NEW l, g >= l, Whole(dir, T, l, w)
      PROVE  Whole(new, T, l, w + 1)
  <2> DEFINE F == T \cup LogsFrom(dir, l)
  <2>1. g \in F /\ g \notin T /\ F \subseteq DOMAIN dir
    BY <1>1, <1>8 DEF LogsFrom, Whole
  <2>2. Contents(new, F) = Contents(dir, F) \cup {w + 1}
    <3>1. \A f \in F : new[f].writes = IF f = g THEN dir[f].writes \cup {w + 1} ELSE dir[f].writes
      BY <1>2, <1>3, <2>1
    <3> HIDE DEF F
    <3>2. ASSUME NEW x \in Contents(new, F) PROVE x \in Contents(dir, F) \cup {w + 1}
      BY <3>1, <3>2 DEF Contents
    <3>3. ASSUME NEW x \in Contents(dir, F) PROVE x \in Contents(new, F)
      <4>1. PICK f \in F : x \in dir[f].writes
        BY <3>3 DEF Contents
      <4>2. x \in new[f].writes
        BY <3>1, <4>1
      <4>3. QED
        BY <4>2 DEF Contents
    <3>4. w + 1 \in Contents(new, F)
      BY <2>1, <3>1 DEF Contents
    <3>5. QED
      BY <3>2, <3>3, <3>4
  <2>3. Contents(dir, F) = 1 .. w
    BY <1>8 DEF Whole
  <2> HIDE DEF F
  <2>4. Contents(new, F) = 1 .. w + 1
    <3>1. (1 .. w) \cup {w + 1} = 1 .. w + 1
      OBVIOUS
    <3>2. QED
      BY <2>2, <2>3, <3>1
  <2>5. QED
    BY <1>2, <1>5, <1>6, <1>8, <2>1, <2>4 DEF Whole, F
<1>9. StoreOK(new, n, w + 1)
  BY <1>1, <1>2, <1>4, <1>5, <1>7, <1>8 DEF StoreOK
<1>10. QED
  BY <1>6, <1>7, <1>8, <1>9 DEF new, file

-----------------------------------------------------------------------------
(* The store                                                               *)

NewestIn(dir, m) ==
  /\ m \in DOMAIN dir
  /\ dir[m].kind = "manifest"
  /\ \A g \in DOMAIN dir : dir[g].kind = "manifest" => g <= m

(* The MANIFEST that the browser made and has yet to name in CURRENT.      *)
OpeningInv ==
  phase = "opening" =>
    \E m \in DOMAIN files :
       /\ NewestIn(files, m)
       /\ Whole(files, files[m].tables, files[m].ref, written)
       /\ LogsFrom(files, files[m].ref) # {}

OpenInv == phase = "open" => Replayed(files) # {}

(* The MANIFEST that a flush or a compaction has yet to write.             *)
EditInv ==
  edit # NoFile =>
    /\ phase = "open"
    /\ edit.kind = "manifest"
    /\ edit.ref >= Installed(files).ref
    /\ Whole(files, edit.tables, edit.ref, written)
    /\ LogsFrom(files, edit.ref) # {}

HolderInv ==
  /\ phase = "closed" <=> holder # "browser"
  /\ holder = "reader" => pc = "readLive"

NextInv ==
  \/ next <= MaxFile + 2
  \/ next <= MaxFile + 5 /\ (holder = "reader" \/ pc \in Ended)

StoreTypes ==
  /\ present \in BOOLEAN
  /\ next \in Nat
  /\ written \in 0 .. MaxWrites
  /\ edit \in File
  /\ holder \in {"none", "browser", "reader"}
  /\ phase \in {"closed", "opening", "open"}

StoreInv ==
  /\ StoreTypes
  /\ StoreOK(files, next, written)
  /\ OpeningInv
  /\ OpenInv
  /\ EditInv
  /\ HolderInv
  /\ NextInv

LEMMA NewestLogIs ==
  ASSUME StoreInv, Replayed(files) # {}
  PROVE  /\ NewestLog \in Replayed(files)
         /\ \A g \in Replayed(files) : g <= NewestLog
<1>1. Replayed(files) \in SUBSET Nat /\ \A g \in Replayed(files) : g < next
  BY NumbersAreNat DEF Replayed, StoreInv, StoreOK, IsDirectory
<1>2. \E f \in Replayed(files) : \A g \in Replayed(files) : g <= f
  BY <1>1, GreatestNumber DEF StoreInv, StoreTypes
<1>3. QED
  BY <1>2 DEF NewestLog

LEMMA NewestManifestIs ==
  ASSUME StoreInv, NEW m, NewestIn(files, m)
  PROVE  NewestManifest = m
<1>1. DOMAIN files \subseteq Nat
  BY NumbersAreNat DEF StoreInv, StoreOK, IsDirectory
<1>2. \A f \in DOMAIN files :
        files[f].kind = "manifest" /\ (\A g \in DOMAIN files : files[g].kind = "manifest" => g <= f)
          => f = m
  BY <1>1 DEF NewestIn
<1>3. QED
  BY <1>2 DEF NewestManifest, NewestIn


(* A new store, and one with two tables, are whole.                        *)
LEMMA StoreInit == Init => StoreInv
<1> SUFFICES ASSUME Init
             PROVE  StoreInv
  OBVIOUS
<1>1. /\ 0 \in Numbers /\ 1 \in Numbers /\ 2 \in Numbers /\ 3 \in Numbers /\ 4 \in Numbers
      /\ 1 \in Writes /\ 2 \in Writes
  BY SyncAssumption DEF Numbers, Writes
<1>2. StoreTypes
  <2>1. edit \in File
    BY <1>1, FileTypes DEF Init
  <2>2. next \in Nat /\ written \in 0 .. MaxWrites
    BY SyncAssumption DEF Init
  <2>3. QED
    BY <2>1, <2>2 DEF Init, StoreTypes
<1>3. /\ Current(1) \in File /\ Manifest({}, 2) \in File /\ Log({}) \in File
      /\ Manifest({3, 4}, 2) \in File /\ Table({1}) \in File /\ Table({2}) \in File
  BY <1>1, FileTypes
<1>4. /\ Current(1).kind = "current" /\ Current(1).ref = 1
      /\ Log({}).kind = "log" /\ Log({}).writes = {}
      /\ \A W : Table(W).kind = "table" /\ Table(W).writes = W
      /\ \A S : /\ Manifest(S, 2).kind = "manifest" /\ Manifest(S, 2).tables = S
                /\ Manifest(S, 2).ref = 2
  BY DEF Current, Log, Table, Manifest
<1>5. CASE written = 0
  <2>1. /\ files = NewStore
        /\ DOMAIN files = {0, 1, 2}
        /\ files[0] = Current(1) /\ files[1] = Manifest({}, 2) /\ files[2] = Log({})
    BY <1>5 DEF Init, NewStore, CURRENT
  <2>2. IsDirectory(files)
    BY <1>1, <1>3, <2>1 DEF IsDirectory, NewStore
  <2>3. Installed(files) = Manifest({}, 2)
    BY <1>4, <2>1 DEF Installed, CURRENT
  <2>4. LogsFrom(files, 2) = {2}
    BY <1>4, <2>1 DEF LogsFrom
  <2>5. Contents(files, {} \cup {2}) = {}
    BY <1>4, <2>1 DEF Contents
  <2>6. Whole(files, {}, 2, 0)
    BY <2>4, <2>5 DEF Whole
  <2>7. \A f \in DOMAIN files : f < 3
    BY <2>1
  <2>8. StoreOK(files, 3, 0)
    BY <1>4, <2>1, <2>2, <2>3, <2>6, <2>7 DEF StoreOK, CURRENT
  <2>9. Replayed(files) # {} /\ next = 3
    BY <1>4, <1>5, <2>3, <2>4, ReplayedAre DEF Init
  <2>10. QED
    BY <1>2, <1>5, <2>8, <2>9, SyncAssumption
       DEF Init, LSInit, StoreInv, OpeningInv, OpenInv, EditInv, HolderInv, NextInv
<1>6. CASE written = 2
  <2>1. /\ files = UsedStore
        /\ DOMAIN files = {0, 1, 2, 3, 4}
        /\ files[0] = Current(1) /\ files[1] = Manifest({3, 4}, 2) /\ files[2] = Log({})
        /\ files[3] = Table({1}) /\ files[4] = Table({2})
    BY <1>6 DEF Init, UsedStore, NewStore, CURRENT, With
  <2>2. IsDirectory(files)
    <3>1. \A f \in DOMAIN files : files[f] \in File
      BY <1>3, <2>1
    <3>2. files \in [DOMAIN files -> File]
      BY <2>1, <3>1 DEF UsedStore, With
    <3>3. QED
      BY <1>1, <2>1, <3>2 DEF IsDirectory
  <2>3. Installed(files) = Manifest({3, 4}, 2)
    BY <1>4, <2>1 DEF Installed, CURRENT
  <2>4. LogsFrom(files, 2) = {2}
    BY <1>4, <2>1 DEF LogsFrom
  <2>5. Contents(files, {3, 4} \cup {2}) = 1 .. 2
    <3>1. Contents(files, {3, 4} \cup {2}) = {1, 2}
      BY <1>4, <2>1 DEF Contents
    <3>2. QED
      BY <3>1
  <2>6. Whole(files, {3, 4}, 2, 2)
    <3>1. \A t \in {3, 4} : t \in DOMAIN files /\ files[t].kind = "table"
      BY <1>4, <2>1
    <3>2. QED
      BY <2>4, <2>5, <3>1 DEF Whole
  <2>7. \A f \in DOMAIN files : f < 5
    BY <2>1
  <2>8. StoreOK(files, 5, 2)
    BY <1>4, <2>1, <2>2, <2>3, <2>6, <2>7 DEF StoreOK, CURRENT
  <2>9. Replayed(files) # {} /\ next = 5
    BY SMTT(30), <1>4, <1>6, <2>3, <2>4, ReplayedAre DEF Init
  <2>10. QED
    BY <1>2, <1>6, <2>8, <2>9, SyncAssumption
       DEF Init, LSInit, StoreInv, OpeningInv, OpenInv, EditInv, HolderInv, NextInv
<1>7. QED
  BY <1>5, <1>6 DEF Init

(* The recovery of the browser.                                            *)
LEMMA OpenBrowserStore ==
  ASSUME StoreInv, OpenBrowser
  PROVE  StoreInv'
<1>1. /\ next \in Nat /\ next + 2 \in Numbers /\ next' = AfterRecovery(files, next)
      /\ next' \in Nat /\ next' <= MaxFile + 2
  BY SyncAssumption DEF OpenBrowser, StoreInv, StoreTypes, Numbers, AfterRecovery
<1>2. /\ StoreOK(files', next', written)
      /\ next + 1 \in DOMAIN files'
      /\ files'[next + 1].kind = "manifest"
      /\ files'[next + 1].ref = next
      /\ \A g \in DOMAIN files' : files'[g].kind = "manifest" => g <= next + 1
      /\ Whole(files', files'[next + 1].tables, next, written)
      /\ LogsFrom(files', next) # {}
  BY <1>1, Recovered DEF OpenBrowser, StoreInv
<1>3. OpeningInv'
  BY <1>2 DEF OpeningInv, NewestIn, OpenBrowser
<1>4. edit = NoFile
  BY DEF OpenBrowser, StoreInv, EditInv
<1>5. StoreTypes' /\ HolderInv' /\ EditInv' /\ NextInv' /\ OpenInv'
  BY <1>1, <1>4 DEF OpenBrowser, StoreInv, StoreTypes, HolderInv, EditInv, NextInv, OpenInv
<1>6. QED
  BY <1>2, <1>3, <1>5 DEF StoreInv, OpenBrowser

(* CURRENT is renamed to the MANIFEST of the recovery.                     *)
LEMMA SetCurrentStore ==
  ASSUME StoreInv, SetCurrent
  PROVE  StoreInv'
<1>1. PICK m \in DOMAIN files :
        /\ NewestIn(files, m)
        /\ Whole(files, files[m].tables, files[m].ref, written)
        /\ LogsFrom(files, files[m].ref) # {}
  BY DEF StoreInv, OpeningInv, SetCurrent
<1>2. files' = With(files, CURRENT, Current(m))
  BY <1>1, NewestManifestIs DEF SetCurrent
<1>3. files[m].kind = "manifest" /\ StoreOK(files, next, written)
  BY <1>1 DEF NewestIn, StoreInv
<1>4. /\ StoreOK(files', next, written)
      /\ Installed(files') = files[m]
      /\ \A l : LogsFrom(files', l) = LogsFrom(files, l)
  BY <1>1, <1>2, <1>3, RenamedCurrent
<1>5. Replayed(files') # {}
  BY <1>1, <1>4, ReplayedAre
<1>6. edit = NoFile
  BY DEF SetCurrent, StoreInv, EditInv
<1>7. StoreTypes' /\ HolderInv' /\ EditInv' /\ NextInv' /\ OpenInv' /\ OpeningInv'
  BY <1>5, <1>6 DEF SetCurrent, BrowserFrame, lsVars, StoreInv, StoreTypes, HolderInv,
                    EditInv, NextInv, OpenInv, OpeningInv
<1>8. QED
  BY <1>4, <1>7 DEF StoreInv, SetCurrent

(* A record goes to the newest log, which everything to be installed wants *)
(* to be replayed.                                                         *)
LEMMA PutStore ==
  ASSUME StoreInv, Put
  PROVE  StoreInv'
<1>1. /\ StoreOK(files, next, written)
      /\ Replayed(files) # {}
      /\ written \in Nat /\ written + 1 \in Writes
  BY SyncAssumption DEF StoreInv, StoreTypes, OpenInv, Put, Writes
<1>2. NewestLog \in Replayed(files) /\ \A g \in Replayed(files) : g <= NewestLog
  BY <1>1, NewestLogIs
<1> DEFINE g == NewestLog
<1>3. files' = With(files, g, Log(files[g].writes \cup {written + 1})) /\ written' = written + 1
  BY DEF Put
<1>4. g \in Replayed(files)
  BY <1>2
<1> HIDE DEF g
<1>5. /\ StoreOK(files', next, written + 1)
      /\ Installed(files') = Installed(files)
      /\ \A l : LogsFrom(files', l) = LogsFrom(files, l)
      /\ \A T, l : g >= l /\ Whole(files, T, l, written) => Whole(files', T, l, written + 1)
  BY <1>1, <1>3, <1>4, LoggedWrite
<1>6. Replayed(files') # {}
  BY <1>1, <1>5, ReplayedAre
<1>7. EditInv'
  <2>1. CASE edit # NoFile
    <3>1. PICK f \in LogsFrom(files, edit.ref) : TRUE
      BY <2>1 DEF StoreInv, EditInv
    <3>2. /\ f \in Nat /\ edit.ref \in Nat /\ Installed(files).ref \in Nat /\ g \in Nat
          /\ edit.ref >= Installed(files).ref
      <4>1. edit.ref \in Numbers /\ Installed(files).ref \in Numbers
        BY <1>1 DEF StoreInv, StoreTypes, File, StoreOK, IsDirectory, Installed
      <4>2. f \in Numbers /\ g \in Numbers
        BY <1>1, <1>4 DEF StoreOK, IsDirectory, LogsFrom, Replayed
      <4>3. QED
        BY <2>1, <4>1, <4>2, NumbersAreNat DEF StoreInv, EditInv
    <3>3. f \in DOMAIN files /\ files[f].kind = "log" /\ f >= edit.ref
      BY <3>1 DEF LogsFrom
    <3>4. f \in Replayed(files)
      BY <3>2, <3>3 DEF Replayed
    <3>5. g >= edit.ref
      BY <1>2, <3>2, <3>3, <3>4 DEF g
    <3>6. Whole(files', edit.tables, edit.ref, written + 1)
      BY <1>5, <2>1, <3>5 DEF StoreInv, EditInv
    <3>7. QED
      BY <1>3, <1>5, <2>1, <3>6 DEF StoreInv, EditInv, Put
  <2>2. CASE edit = NoFile
    BY <2>2 DEF EditInv, Put
  <2>3. QED
    BY <2>1, <2>2
<1>8. StoreTypes' /\ HolderInv' /\ NextInv' /\ OpenInv' /\ OpeningInv'
  <2>1. written' \in 0 .. MaxWrites
    BY <1>1, <1>3, SyncAssumption DEF Writes
  <2>2. StoreTypes'
    BY <2>1 DEF Put, StoreInv, StoreTypes
  <2>3. HolderInv' /\ NextInv' /\ OpenInv' /\ OpeningInv'
    BY <1>6 DEF Put, BrowserFrame, lsVars, StoreInv, HolderInv, NextInv, OpenInv, OpeningInv
  <2>4. QED
    BY <2>2, <2>3
<1>9. QED
  BY <1>3, <1>5, <1>7, <1>8 DEF StoreInv, Put

LEMMA EmptyLog ==
  ASSUME NEW dir, NEW n \in Nat, NEW w, StoreOK(dir, n, w), n \in Numbers
  PROVE  LET new == With(dir, n, Log({}))
         IN  /\ StoreOK(new, n + 1, w)
             /\ Installed(new) = Installed(dir)
             /\ \A l : LogsFrom(dir, l) \subseteq LogsFrom(new, l)
             /\ \A T, l : Whole(dir, T, l, w) => Whole(new, T, l, w)
<1> DEFINE file == Log({})
<1>1. file \in File /\ (file.kind = "log" => file.writes = {})
  BY FileTypes DEF Log
<1> HIDE DEF file
<1>2. n >= n
  OBVIOUS
<1> DEFINE new == With(dir, n, file)
<1>3. StoreOK(new, n + 1, w)
  BY <1>1, <1>2, AddedFile
<1>4. \A l : LogsFrom(dir, l) \subseteq LogsFrom(new, l)
  BY <1>1, <1>2, AddedFile
<1>5. \A T, l : Whole(dir, T, l, w) => Whole(new, T, l, w)
  BY <1>1, <1>2, AddedFile
<1>6. Installed(new) = Installed(dir)
  BY NumbersAreNat DEF Installed, With, StoreOK, IsDirectory
<1> HIDE DEF new
<1>7. QED
  BY <1>3, <1>4, <1>5, <1>6 DEF file, new

(* A new, empty log belongs to whatever the logs before it belong to.      *)
LEMMA RollLogStore ==
  ASSUME StoreInv, RollLog
  PROVE  StoreInv'
<1>1. /\ StoreOK(files, next, written)
      /\ next \in Nat /\ next \in Numbers
      /\ next + 1 <= MaxFile + 2
  BY SyncAssumption DEF StoreInv, StoreTypes, RollLog, Numbers
<1>3. files' = With(files, next, Log({})) /\ next' = next + 1
  BY DEF RollLog
<1>4. /\ StoreOK(files', next + 1, written)
      /\ Installed(files') = Installed(files)
      /\ \A l : LogsFrom(files, l) \subseteq LogsFrom(files', l)
      /\ \A T, l : Whole(files, T, l, written) => Whole(files', T, l, written)
  BY <1>1, <1>3, EmptyLog
<1>5. OpenInv'
  BY <1>4, ReplayedAre DEF RollLog, StoreInv, OpenInv
<1>6. EditInv'
  <2>1. edit' = edit /\ phase' = phase /\ written' = written
    BY DEF RollLog
  <2>2. CASE edit # NoFile
    <3>1. /\ phase = "open" /\ edit.kind = "manifest" /\ edit.ref >= Installed(files).ref
          /\ Whole(files, edit.tables, edit.ref, written) /\ LogsFrom(files, edit.ref) # {}
      BY <2>2 DEF StoreInv, EditInv
    <3>2. Whole(files', edit.tables, edit.ref, written) /\ LogsFrom(files', edit.ref) # {}
      BY <1>4, <3>1
    <3>3. QED
      BY <1>4, <2>1, <3>1, <3>2 DEF EditInv
  <2>3. CASE edit = NoFile
    BY <2>1, <2>3 DEF EditInv
  <2>4. QED
    BY <2>2, <2>3
<1>7. StoreTypes' /\ HolderInv' /\ NextInv' /\ OpeningInv'
  BY <1>1, <1>3 DEF RollLog, BrowserFrame, lsVars, StoreInv, StoreTypes, HolderInv,
                    NextInv, OpeningInv
<1>8. QED
  BY <1>3, <1>4, <1>5, <1>6, <1>7 DEF StoreInv, RollLog

(* A table that is not listed yet leaves the store as it was, and the      *)
(* MANIFEST that will list it holds all of the store.                      *)
LEMMA BuiltTable ==
  ASSUME NEW dir, NEW n \in Nat, NEW w, StoreOK(dir, n, w), n \in Numbers,
         NEW F \in SUBSET DOMAIN dir, NEW T \in SUBSET DOMAIN dir, NEW l \in Numbers,
         \A t \in T : dir[t].kind = "table",
         Contents(dir, T \cup F \cup LogsFrom(dir, l)) = 1 .. w
  PROVE  LET new == With(dir, n, Table(Contents(dir, F)))
         IN  /\ StoreOK(new, n + 1, w)
             /\ Installed(new) = Installed(dir)
             /\ \A k : LogsFrom(new, k) = LogsFrom(dir, k)
             /\ Whole(new, T \cup {n}, l, w)
<1> DEFINE file == Table(Contents(dir, F))
           new  == With(dir, n, file)
<1>1. Contents(dir, F) \in SUBSET Writes
  BY ContentsType DEF StoreOK
<1>2. file \in File /\ file.kind = "table" /\ file.writes = Contents(dir, F)
  <2>1. file \in File
    BY <1>1, FileTypes
  <2>2. QED
    BY <2>1 DEF Table
<1> HIDE DEF file
<1>3. n >= n /\ (file.kind = "log" => file.writes = {})
  BY <1>2
<1>4. /\ StoreOK(new, n + 1, w)
      /\ Installed(new) = Installed(dir)
      /\ DOMAIN new = DOMAIN dir \cup {n}
      /\ new[n] = file
      /\ \A f \in DOMAIN dir : f # n /\ new[f] = dir[f]
  BY <1>2, <1>3, AddedFile
<1> HIDE DEF new
<1>5. \A k : LogsFrom(new, k) = LogsFrom(dir, k)
  BY <1>2, <1>4 DEF LogsFrom
<1>6. Contents(new, T \cup {n} \cup LogsFrom(new, l)) = Contents(dir, T \cup F \cup LogsFrom(dir, l))
  <2> DEFINE L == LogsFrom(dir, l)
  <2>1. L \subseteq DOMAIN dir /\ LogsFrom(new, l) = L
    BY <1>5 DEF LogsFrom
  <2> HIDE DEF L
  <2>2. \A f \in T \cup L : new[f] = dir[f]
    BY <1>4, <2>1
  <2>3. Contents(new, T \cup {n} \cup L) = Contents(dir, T \cup L) \cup Contents(dir, F)
    BY <1>2, <1>4, <2>2 DEF Contents
  <2>4. Contents(dir, T \cup L) \cup Contents(dir, F) = Contents(dir, T \cup F \cup L)
    BY DEF Contents
  <2>5. QED
    BY <2>1, <2>3, <2>4 DEF L
<1>7. \A t \in T \cup {n} : t \in DOMAIN new /\ new[t].kind = "table"
  BY <1>2, <1>4
<1>8. Whole(new, T \cup {n}, l, w)
  BY <1>6, <1>7 DEF Whole
<1>9. QED
  BY <1>4, <1>5, <1>8 DEF new, file

(* A flush or a compaction, of which the MANIFEST does not speak yet.      *)
LEMMA BuildTableStore ==
  ASSUME StoreInv, BuildTable
  PROVE  StoreInv'
<1> DEFINE g == NewestLog
           tables == Installed(files).tables
           first == Installed(files).ref
<1>1. /\ StoreOK(files, next, written)
      /\ next \in Nat /\ next \in Numbers
      /\ next + 1 <= MaxFile + 2
      /\ Replayed(files) # {}
      /\ Replayed(files) = LogsFrom(files, first)
  BY SyncAssumption, ReplayedAre DEF StoreInv, StoreTypes, OpenInv, BuildTable, Numbers
<1>2. g \in Replayed(files) /\ \A f \in Replayed(files) : f <= g
  BY <1>1, NewestLogIs
<1>3. /\ tables \subseteq DOMAIN files
      /\ \A t \in tables : files[t].kind = "table"
      /\ Contents(files, tables \cup Replayed(files)) = 1 .. written
      /\ DOMAIN files \subseteq Numbers
      /\ first \in Numbers
  BY <1>1 DEF StoreOK, Whole, IsDirectory, Installed, File
<1>4. \A S, l : /\ Manifest(S, l).kind = "manifest" /\ Manifest(S, l).tables = S
                /\ Manifest(S, l).ref = l
  BY DEF Manifest
<1>5. /\ next' = next + 1 /\ UNCHANGED <<present, holder, phase, written, pc>>
      /\ phase = "open"
  BY DEF BuildTable, BrowserFrame, lsVars
<1>6. /\ g \in DOMAIN files /\ files[g].kind = "log" /\ g \in Numbers /\ g >= first
      /\ \A f \in DOMAIN files : files[f].kind = "log" /\ f >= first => f <= g
  BY <1>2, <1>3 DEF Replayed
<1>7. ASSUME NEW F \in SUBSET DOMAIN files, NEW T \in SUBSET DOMAIN files, NEW l \in Numbers,
             \A t \in T : files[t].kind = "table",
             Contents(files, T \cup F \cup LogsFrom(files, l)) = 1 .. written,
             l >= first, LogsFrom(files, l) # {},
             files' = With(files, next, Table(Contents(files, F))),
             edit' = Manifest(T \cup {next}, l)
      PROVE  StoreInv'
  <2>1. /\ StoreOK(files', next + 1, written)
        /\ Installed(files') = Installed(files)
        /\ \A k : LogsFrom(files', k) = LogsFrom(files, k)
        /\ Whole(files', T \cup {next}, l, written)
    <3> DEFINE new == With(files, next, Table(Contents(files, F)))
    <3>1. /\ StoreOK(new, next + 1, written)
          /\ Installed(new) = Installed(files)
          /\ \A k : LogsFrom(new, k) = LogsFrom(files, k)
          /\ Whole(new, T \cup {next}, l, written)
      BY <1>1, <1>7, BuiltTable
    <3>2. QED
      BY <1>7, <3>1
  <2>2. EditInv'
    BY <1>4, <1>5, <1>7, <2>1 DEF EditInv
  <2>3. OpenInv'
    BY <1>1, <2>1, ReplayedAre DEF OpenInv
  <2>4. edit' \in File
    <3>1. T \cup {next} \in SUBSET Numbers
      BY <1>1, <1>3
    <3>2. QED
      BY <1>7, <3>1, FileTypes
  <2>5. StoreTypes' /\ HolderInv' /\ NextInv' /\ OpeningInv'
    BY <1>1, <1>5, <2>4 DEF StoreInv, StoreTypes, HolderInv, NextInv, OpeningInv
  <2>6. QED
    BY <1>5, <2>1, <2>2, <2>3, <2>5 DEF StoreInv
<1>8. CASE /\ files' = With(files, next, Table(Contents(files, Replayed(files) \ {g})))
           /\ edit' = Manifest(tables \cup {next}, g)
  <2>1. LogsFrom(files, g) = {g}
    <3>1. \A f \in DOMAIN files : f \in Nat /\ first \in Nat
      BY <1>3, NumbersAreNat
    <3>2. ASSUME NEW f \in LogsFrom(files, g) PROVE f = g
      BY <1>6, <3>1, <3>2 DEF LogsFrom
    <3>3. QED
      BY <1>6, <3>1, <3>2 DEF LogsFrom
  <2>2. tables \cup (Replayed(files) \ {g}) \cup LogsFrom(files, g) = tables \cup Replayed(files)
    BY <1>2, <2>1
  <2>3. Replayed(files) \ {g} \in SUBSET DOMAIN files
    BY DEF Replayed
  <2> HIDE DEF g, tables, first
  <2>4. QED
    BY <1>3, <1>6, <1>7, <1>8, <2>1, <2>2, <2>3
<1>9. CASE /\ files' = With(files, next, Table(Contents(files, tables)))
           /\ edit' = Manifest({next}, first)
  <2>1. {} \cup tables \cup LogsFrom(files, first) = tables \cup Replayed(files)
    BY <1>1
  <2>2. first >= first
    <3>1. first \in Nat
      BY <1>3, NumbersAreNat
    <3> HIDE DEF first
    <3>2. QED
      BY <3>1
  <2>3. {} \cup {next} = {next} /\ tables \in SUBSET DOMAIN files /\ {} \in SUBSET DOMAIN files
    BY <1>3
  <2> DEFINE none == {}
  <2> HIDE DEF g, tables, first, none
  <2>4. /\ none \in SUBSET DOMAIN files
        /\ \A t \in none : files[t].kind = "table"
        /\ Contents(files, none \cup tables \cup LogsFrom(files, first)) = 1 .. written
        /\ edit' = Manifest(none \cup {next}, first)
        /\ LogsFrom(files, first) # {}
    BY <1>1, <1>3, <1>9, <2>1, <2>3 DEF none
  <2>5. QED
    BY <1>3, <1>7, <1>9, <2>2, <2>3, <2>4
<1>10. QED
  BY <1>8, <1>9 DEF BuildTable

(* The MANIFEST that CURRENT names is replaced by one that lists the store *)
(* as well.                                                                *)
LEMMA InstalledEdit ==
  ASSUME NEW dir, NEW n, NEW w, StoreOK(dir, n, w), NEW e \in File,
         e.kind = "manifest", Whole(dir, e.tables, e.ref, w)
  PROVE  LET new == With(dir, dir[CURRENT].ref, e)
         IN  /\ StoreOK(new, n, w)
             /\ Installed(new) = e
             /\ \A l : LogsFrom(new, l) = LogsFrom(dir, l)
<1> DEFINE m == dir[CURRENT].ref
           new == With(dir, m, e)
<1>1. /\ m \in DOMAIN dir /\ m \in Numbers /\ m # CURRENT
      /\ dir[m].kind = "manifest"
      /\ CURRENT \in DOMAIN dir
  BY DEF StoreOK, Installed, IsDirectory
<1> HIDE DEF m
<1>2. /\ DOMAIN new = DOMAIN dir
      /\ new[m] = e
      /\ \A f \in DOMAIN dir : f # m => new[f] = dir[f]
  BY <1>1 DEF With
<1>3. IsDirectory(new)
  BY <1>1, WithType DEF StoreOK
<1> HIDE DEF new
<1>4. new[CURRENT] = dir[CURRENT] /\ Installed(new) = e
  BY <1>1, <1>2 DEF Installed, m
<1>5. \A l : LogsFrom(new, l) = LogsFrom(dir, l)
  BY <1>1, <1>2 DEF LogsFrom
<1>6. Whole(new, e.tables, e.ref, w)
  <2> DEFINE F == e.tables \cup LogsFrom(dir, e.ref)
  <2>1. \A f \in F : f \in DOMAIN dir /\ f # m
    BY <1>1 DEF Whole, LogsFrom
  <2>2. Contents(new, F) = Contents(dir, F)
    BY <1>2, <2>1, SameContents
  <2>3. \A t \in e.tables : new[t].kind = "table"
    BY <1>2, <2>1 DEF Whole
  <2>4. QED
    BY <1>2, <1>5, <2>2, <2>3 DEF Whole
<1>7. StoreOK(new, n, w)
  BY <1>1, <1>2, <1>3, <1>4, <1>6 DEF StoreOK, m
<1>8. QED
  BY <1>4, <1>5, <1>7 DEF new, m

(* The flush or the compaction takes effect.                               *)
LEMMA InstallStore ==
  ASSUME StoreInv, Install
  PROVE  StoreInv'
<1>1. /\ StoreOK(files, next, written)
      /\ edit \in File
      /\ edit.kind = "manifest"
      /\ Whole(files, edit.tables, edit.ref, written)
      /\ LogsFrom(files, edit.ref) # {}
  BY DEF StoreInv, StoreTypes, EditInv, Install
<1>2. files' = With(files, files[CURRENT].ref, edit)
  BY DEF Install
<1>3. /\ StoreOK(files', next, written)
      /\ Installed(files') = edit
      /\ \A l : LogsFrom(files', l) = LogsFrom(files, l)
  BY <1>1, <1>2, InstalledEdit
<1>4. Replayed(files') # {}
  BY <1>1, <1>3, ReplayedAre
<1>5. NoFile \in File
  BY FileTypes, NumbersAreNat
<1>6. StoreTypes' /\ HolderInv' /\ EditInv' /\ NextInv' /\ OpenInv' /\ OpeningInv'
  BY <1>4, <1>5 DEF Install, BrowserFrame, lsVars, StoreInv, StoreTypes, HolderInv,
                    EditInv, NextInv, OpenInv, OpeningInv
<1>7. QED
  BY <1>3, <1>6 DEF StoreInv, Install

(* What the store needs, and what will be installed, is kept.              *)
LEMMA RemoveObsoleteStore ==
  ASSUME StoreInv, RemoveObsolete
  PROVE  StoreInv'
<1> DEFINE F == Needed(files) \cup edit.tables
<1>1. /\ StoreOK(files, next, written)
      /\ Needed(files) \subseteq F
      /\ files' = Keep(files, F)
  BY DEF StoreInv, RemoveObsolete
<1>2. /\ StoreOK(files', next, written)
      /\ Installed(files') = Installed(files)
      /\ Replayed(files') = Replayed(files)
      /\ \A T \in SUBSET F, l \in Nat : l >= Installed(files).ref /\ Whole(files, T, l, written)
           => Whole(files', T, l, written) /\ LogsFrom(files', l) = LogsFrom(files, l)
  <2> HIDE DEF F
  <2>1. QED
    BY <1>1, KeptFiles
<1>3. edit.tables \in SUBSET F /\ edit.ref \in Nat
  BY NumbersAreNat DEF StoreInv, StoreTypes, File
<1> HIDE DEF F
<1>4. EditInv'
  <2>1. CASE edit # NoFile
    <3>1. /\ phase = "open" /\ edit.kind = "manifest" /\ edit.ref >= Installed(files).ref
          /\ Whole(files, edit.tables, edit.ref, written) /\ LogsFrom(files, edit.ref) # {}
      BY <2>1 DEF StoreInv, EditInv
    <3>2. Whole(files', edit.tables, edit.ref, written) /\ LogsFrom(files', edit.ref) # {}
      BY <1>2, <1>3, <3>1
    <3>3. QED
      BY <1>2, <3>1, <3>2 DEF EditInv, RemoveObsolete
  <2>2. CASE edit = NoFile
    BY <2>2 DEF EditInv, RemoveObsolete
  <2>3. QED
    BY <2>1, <2>2
<1>5. StoreTypes' /\ HolderInv' /\ NextInv' /\ OpenInv' /\ OpeningInv'
  BY <1>2 DEF RemoveObsolete, BrowserFrame, lsVars, StoreInv, StoreTypes, HolderInv,
              NextInv, OpenInv, OpeningInv
<1>6. QED
  BY <1>2, <1>4, <1>5 DEF StoreInv, RemoveObsolete

LEMMA StopBrowserStore ==
  ASSUME StoreInv, StopBrowser
  PROVE  StoreInv'
<1>1. NoFile \in File
  BY FileTypes, NumbersAreNat
<1>2. StoreTypes' /\ HolderInv' /\ EditInv' /\ NextInv' /\ OpenInv' /\ OpeningInv'
  BY <1>1 DEF StopBrowser, BrowserFrame, lsVars, StoreInv, StoreTypes, HolderInv,
              EditInv, NextInv, OpenInv, OpeningInv
<1>3. QED
  BY <1>2 DEF StoreInv, StopBrowser

(* The recovery of the reader, and the removal of what it made obsolete.   *)
LEMMA OpenLiveStore ==
  ASSUME StoreInv, OpenLive
  PROVE  StoreInv'
<1> DEFINE made == Recovery(files, next)
           opened == With(made, CURRENT, Current(next + 1))
<1>1. /\ StoreOK(files, next, written)
      /\ next \in Nat /\ next + 2 \in Numbers
      /\ next' = AfterRecovery(files, next)
      /\ next' \in Nat /\ next' <= MaxFile + 5
      /\ files' = Keep(opened, Needed(opened))
  BY SyncAssumption
     DEF OpenLive, StoreInv, StoreTypes, NextInv, Numbers, AfterRecovery, Ended
<1>2. /\ StoreOK(made, next', written)
      /\ next + 1 \in DOMAIN made
      /\ made[next + 1].kind = "manifest"
      /\ Whole(made, made[next + 1].tables, made[next + 1].ref, written)
  BY <1>1, Recovered
<1> HIDE DEF made
<1>3. StoreOK(opened, next', written)
  BY <1>2, RenamedCurrent
<1> HIDE DEF opened
<1>4. StoreOK(files', next', written)
  BY <1>1, <1>3, KeptFiles
<1>5. phase = "closed" /\ edit = NoFile
  BY DEF OpenLive, StoreInv, HolderInv, EditInv
<1>6. StoreTypes' /\ HolderInv' /\ EditInv' /\ NextInv' /\ OpenInv' /\ OpeningInv'
  BY <1>1, <1>5 DEF OpenLive, lsVars, StoreInv, StoreTypes, HolderInv, EditInv, NextInv,
                    OpenInv, OpeningInv
<1>7. QED
  BY <1>4, <1>6 DEF StoreInv, OpenLive

(* The reader lets go of the store, and changes nothing else of it.        *)
LEMMA StoreHeld ==
  ASSUME StoreInv, UNCHANGED <<present, files, next, phase, edit, written>>,
         holder' \in {holder, "none"}, holder' = holder \/ holder = "reader",
         holder' = "reader" => pc' = "readLive",
         next <= MaxFile + 2 \/ holder' = "reader" \/ pc' \in Ended
  PROVE  StoreInv'
<1>1. StoreTypes' /\ HolderInv' /\ EditInv' /\ NextInv' /\ OpenInv' /\ OpeningInv'
  BY DEF StoreInv, StoreTypes, HolderInv, EditInv, NextInv, OpenInv, OpeningInv
<1>2. QED
  BY <1>1 DEF StoreInv

LEMMA StoreStep == StoreInv /\ [Next]_vars => StoreInv'
<1> SUFFICES ASSUME StoreInv, [Next]_vars
             PROVE  StoreInv'
  OBVIOUS
<1>1. CASE Browser
  BY <1>1, OpenBrowserStore, SetCurrentStore, PutStore, RollLogStore, BuildTableStore,
     InstallStore, RemoveObsoleteStore, StopBrowserStore DEF Browser
<1>2. CASE OpenLive
  BY <1>2, OpenLiveStore
<1>3. CASE Step /\ ~OpenLive
  <2>1. /\ UNCHANGED <<present, files, next, phase, edit, written>>
        /\ holder' = holder \/ (holder = "reader" /\ holder' = "none" /\ pc' \in Ended)
    BY <1>3 DEF Step, Look, OpenLiveFails, IterateLive, BeginCopy, CopyFile, EndCopy,
                OpenCopy, OpenCopyFails, storeVars, ReadLiveReturns, Ended
  <2>2. holder' = "reader" => pc' = "readLive"
    BY <1>3 DEF Step, Look, OpenLiveFails, IterateLive, BeginCopy, CopyFile, EndCopy,
                OpenCopy, OpenCopyFails, storeVars, CheckExists, CheckWal, Cleanup,
                ReadLiveReturns, MakeTemp, CopyReturns, ReadCopyReturns, lsVars,
                StoreInv, HolderInv
  <2>3. pc \in Ended => pc' \in Ended
    BY <1>3 DEF Step, Look, OpenLiveFails, IterateLive, BeginCopy, CopyFile, EndCopy,
                OpenCopy, OpenCopyFails, CheckExists, CheckWal, Cleanup,
                ReadLiveReturns, MakeTemp, CopyReturns, ReadCopyReturns, Ended
  <2>4. QED
    BY <2>1, <2>2, <2>3, StoreHeld DEF StoreInv, NextInv
<1>4. CASE Throw
  <2>1. /\ UNCHANGED <<present, files, next, phase, edit, written>>
        /\ holder' = IF holder = "reader" THEN "none" ELSE holder
        /\ pc' \in Ended
    BY <1>4 DEF Throw, ClientThrows, Ended
  <2>2. QED
    BY <2>1, StoreHeld
<1>5. CASE UNCHANGED vars
  <2>1. UNCHANGED <<present, files, next, phase, edit, written, holder, pc>>
    BY <1>5 DEF vars, storeVars, lsVars
  <2>2. QED
    BY <2>1, StoreHeld DEF StoreInv, HolderInv, NextInv
<1>6. QED
  BY <1>1, <1>2, <1>3, <1>4, <1>5 DEF Next, Reader

(* Whoever opens, flushes, compacts, deletes, dies or reads: the store on  *)
(* disk can be opened and holds every write, although ReadSyncData         *)
(* recovers a store that is not its own.                                   *)
THEOREM SyncStoreSurvives == Spec => []StoreSurvives
<1>1. StoreInv => StoreSurvives
  BY WholeHolds DEF StoreInv, StoreSurvives
<1>2. QED
  BY <1>1, StoreInit, StoreStep, PTL DEF Spec

-----------------------------------------------------------------------------
(* What the reader knows                                                   *)

ReadTypes ==
  /\ pending \subseteq Numbers
  /\ IsDirectory(copy)
  /\ failed \subseteq Numbers
  /\ reports \in Seq(SUBSET DeviceWrites)
  /\ began \in 0 .. MaxWrites
  /\ quiet \in BOOLEAN

(* Nothing has been copied before the directory was listed.                *)
Uncopied ==
  pc \in {"exists", "walSize", "readLive", "mkTemp"} =>
    /\ DOMAIN copy = {}
    /\ failed = {}
    /\ reports = <<>>

(* A read of the store itself is the last thing done, and up to date.      *)
LiveInv ==
  /\ began <= written
  /\ "live" \in served => pc = "done" /\ reports = <<Committed>>

(* The part of the store that a copy has while nothing else is going on.   *)
QuietCopyInv ==
  quiet /\ failed = {} =>
    /\ pc = "copy" => /\ \A f \in DOMAIN copy : f \in DOMAIN files /\ copy[f] = files[f]
                      /\ DOMAIN files \subseteq pending \cup DOMAIN copy
                      /\ reports = <<>>
    /\ pc = "readCopy" => copy = files /\ reports = <<>>
    /\ pc = "cleanup" => \/ reports = <<Committed>>
                         \/ reports = <<>> /\ OpenMayFail
    /\ pc = "done" => \/ reports = <<Committed>>
                      \/ reports = <<>> /\ (OpenMayFail \/ "noTempDir" \in diags)

ReadInv == ReadTypes /\ Uncopied /\ LiveInv /\ QuietCopyInv

LEMMA ReadInit == Init => ReadInv
<1> SUFFICES ASSUME Init
             PROVE  ReadInv
  OBVIOUS
<1>1. pc = "exists" /\ served = {} /\ reports = <<>> /\ failed = {} /\ DOMAIN copy = {}
  BY DEF Init, LSInit
<1>2. began \in 0 .. MaxWrites /\ began <= written
  BY SyncAssumption DEF Init
<1>3. IsDirectory(copy) /\ reports \in Seq(SUBSET DeviceWrites)
  BY DEF Init, IsDirectory
<1>4. ReadTypes
  BY <1>2, <1>3 DEF Init, ReadTypes
<1>5. Uncopied /\ LiveInv /\ QuietCopyInv
  BY <1>1, <1>2 DEF Uncopied, LiveInv, QuietCopyInv
<1>6. QED
  BY <1>4, <1>5 DEF ReadInv

(* The devices of a whole store.                                           *)
LEMMA DevicesOfStore ==
  ASSUME StoreInv
  PROVE  Devices(files) = Committed /\ Openable(files)
  BY WholeHolds DEF StoreInv, Devices, Committed

(* The files of one directory are those of the other.                      *)
LEMMA SameDirectory ==
  ASSUME NEW dir, NEW dir2, IsDirectory(dir), IsDirectory(dir2),
         DOMAIN dir = DOMAIN dir2, \A f \in DOMAIN dir : dir[f] = dir2[f]
  PROVE  dir = dir2
  BY DEF IsDirectory

LEMMA BrowserRead ==
  ASSUME StoreInv, ReadInv, Browser
  PROVE  ReadInv'
<1>1. /\ pc \notin Ended /\ UNCHANGED <<lsVars, copyVars, reports>>
      /\ began' = IF pc = "exists" THEN written' ELSE began
      /\ quiet' = (quiet /\ pc = "exists")
  BY DEF Browser, BrowserFrame, OpenBrowser, SetCurrent, Put, RollLog, BuildTable,
         Install, RemoveObsolete, StopBrowser
<1>2. written' = written \/ (written' = written + 1 /\ written < MaxWrites)
  BY DEF Browser, OpenBrowser, SetCurrent, Put, RollLog, BuildTable, Install,
         RemoveObsolete, StopBrowser
<1>3. UNCHANGED <<pc, served, diags, reports, pending, copy, failed>>
  BY <1>1 DEF lsVars, copyVars
<1>4. began' \in 0 .. MaxWrites /\ began' <= written'
  BY <1>1, <1>2, SyncAssumption DEF StoreInv, StoreTypes, ReadInv, ReadTypes, LiveInv
<1>5. ReadTypes'
  BY <1>1, <1>3, <1>4 DEF ReadInv, ReadTypes, IsDirectory
<1>6. LiveInv'
  BY <1>1, <1>3, <1>4 DEF ReadInv, LiveInv, Ended
<1>7. Uncopied' /\ QuietCopyInv'
  BY <1>1, <1>3 DEF ReadInv, Uncopied, QuietCopyInv
<1>8. QED
  BY <1>5, <1>6, <1>7 DEF ReadInv

(* A step of the reader that neither copies nor iterates.                  *)
LEMMA ReadOn ==
  ASSUME ReadInv, UNCHANGED <<written, pending, copy, failed, reports, began, quiet, served>>,
         pc # "done", pc' \notin {"copy", "readCopy", "cleanup", "done"},
         pc' \in {"exists", "walSize", "readLive", "mkTemp"}
           => pc \in {"exists", "walSize", "readLive", "mkTemp"}
  PROVE  ReadInv'
<1>1. ReadTypes'
  BY DEF ReadInv, ReadTypes, IsDirectory
<1>2. Uncopied' /\ LiveInv' /\ QuietCopyInv'
  BY DEF ReadInv, Uncopied, LiveInv, QuietCopyInv
<1>3. QED
  BY <1>1, <1>2 DEF ReadInv

LEMMA IterateLiveRead ==
  ASSUME StoreInv, ReadInv, LSInv, IterateLive
  PROVE  ReadInv'
<1>1. /\ pc = "readLive" /\ pc' = "done" /\ served' = served \cup {"live"}
      /\ UNCHANGED <<written, pending, copy, failed, began, quiet>>
      /\ reports' = Append(reports, Devices(files))
  BY DEF IterateLive, ReadLiveReturns, copyVars, seenVars
<1>2. reports = <<>>
  BY <1>1 DEF ReadInv, Uncopied
<1>3. reports' = <<Committed>> /\ Committed' = Committed
  BY <1>1, <1>2, DevicesOfStore DEF Committed
<1>4. reports' \in Seq(SUBSET DeviceWrites)
  <2>1. Committed \in SUBSET DeviceWrites
    BY DEF Committed
  <2>2. QED
    BY <1>3, <2>1
<1>5. ReadTypes'
  BY <1>1, <1>4 DEF ReadInv, ReadTypes, IsDirectory
<1>6. Uncopied' /\ LiveInv' /\ QuietCopyInv'
  BY <1>1, <1>3 DEF ReadInv, Uncopied, LiveInv, QuietCopyInv
<1>7. QED
  BY <1>5, <1>6 DEF ReadInv

LEMMA BeginCopyRead ==
  ASSUME StoreInv, ReadInv, LSInv, BeginCopy
  PROVE  ReadInv'
<1>1. /\ pc = "mkTemp"
      /\ \/ pc' = "copy" /\ pending' = DOMAIN files
         \/ pc' = "done" /\ "noTempDir" \in diags' /\ pending' = {}
         \/ pc' = "thrown" /\ pending' = {}
      /\ UNCHANGED <<files, written, copy, failed, reports, began, quiet, served>>
  BY DEF BeginCopy, MakeTemp, Emit, storeVars, seenVars
<1>2. pending' \subseteq Numbers
  BY <1>1 DEF StoreInv, StoreOK, IsDirectory
<1>3. ReadTypes'
  BY <1>1, <1>2 DEF ReadInv, ReadTypes, IsDirectory
<1>4. DOMAIN copy = {} /\ reports = <<>> /\ "live" \notin served
  BY <1>1 DEF ReadInv, Uncopied, LiveInv
<1>5. Uncopied' /\ LiveInv'
  BY <1>1, <1>4 DEF ReadInv, Uncopied, LiveInv
<1>6. QuietCopyInv'
  BY <1>1, <1>4 DEF QuietCopyInv
<1>7. QED
  BY <1>3, <1>5, <1>6 DEF ReadInv

LEMMA CopyFileRead ==
  ASSUME StoreInv, ReadInv, LSInv, CopyFile
  PROVE  ReadInv'
<1>1. PICK f \in DOMAIN files \ (DOMAIN copy \cup failed) :
        /\ pending' = pending \ {f}
        /\ \/ copy' = With(copy, f, files[f]) /\ failed' = failed
           \/ failed' = failed \cup {f} /\ copy' = copy
  BY DEF CopyFile
<1>2. pc = "copy" /\ UNCHANGED <<pc, served, diags, files, written, reports, began, quiet>>
  BY DEF CopyFile, lsVars, storeVars, seenVars
<1>3. f \in Numbers /\ files[f] \in File
  BY <1>1 DEF StoreInv, StoreOK, IsDirectory
<1>4. ReadTypes'
  <2>1. IsDirectory(copy')
    BY <1>1, <1>3, WithType DEF ReadInv, ReadTypes
  <2>2. QED
    BY <1>1, <1>2, <1>3, <2>1 DEF ReadInv, ReadTypes
<1>5. Uncopied' /\ LiveInv'
  BY <1>2 DEF ReadInv, Uncopied, LiveInv
<1>6. ASSUME quiet, failed' = {}
      PROVE  /\ \A g \in DOMAIN copy' : g \in DOMAIN files /\ copy'[g] = files[g]
             /\ DOMAIN files \subseteq pending' \cup DOMAIN copy'
             /\ reports = <<>>
  <2>1. copy' = With(copy, f, files[f]) /\ failed = {}
    BY <1>1, <1>6
  <2>2. /\ \A g \in DOMAIN copy : g \in DOMAIN files /\ copy[g] = files[g]
        /\ DOMAIN files \subseteq pending \cup DOMAIN copy
        /\ reports = <<>>
    BY <1>2, <1>6, <2>1 DEF ReadInv, QuietCopyInv
  <2>3. QED
    BY <1>1, <2>1, <2>2 DEF With
<1>7. QuietCopyInv'
  BY <1>2, <1>6 DEF QuietCopyInv
<1>8. QED
  BY <1>4, <1>5, <1>7 DEF ReadInv

LEMMA EndCopyRead ==
  ASSUME StoreInv, ReadInv, LSInv, EndCopy
  PROVE  ReadInv'
<1>1. /\ pc = "copy"
      /\ \/ DOMAIN copy # {} /\ pc' \in {"readCopy", "thrown"}
         \/ DOMAIN copy = {} /\ pc' \in {"cleanup", "thrown"}
      /\ pending \cap DOMAIN files = {}
      /\ pending' = {}
      /\ UNCHANGED <<files, written, copy, failed, reports, began, quiet, served>>
  BY DEF EndCopy, CopyReturns, Emit, storeVars, seenVars
<1>2. ReadTypes' /\ Uncopied' /\ LiveInv'
  BY <1>1 DEF ReadInv, ReadTypes, Uncopied, LiveInv, IsDirectory
<1>3. ASSUME quiet, failed = {}
      PROVE  copy = files /\ DOMAIN copy # {} /\ reports = <<>>
  <2>1. /\ \A g \in DOMAIN copy : g \in DOMAIN files /\ copy[g] = files[g]
        /\ DOMAIN files \subseteq pending \cup DOMAIN copy
        /\ reports = <<>>
    BY <1>1, <1>3 DEF ReadInv, QuietCopyInv
  <2>2. DOMAIN copy = DOMAIN files
    BY <1>1, <2>1
  <2>3. copy = files
    BY <2>1, <2>2, SameDirectory DEF StoreInv, StoreOK, ReadInv, ReadTypes
  <2>4. CURRENT \in DOMAIN files
    BY DEF StoreInv, StoreOK
  <2>5. QED
    BY <2>1, <2>2, <2>3, <2>4
<1>4. QuietCopyInv'
  BY <1>1, <1>3 DEF QuietCopyInv
<1>5. QED
  BY <1>2, <1>4 DEF ReadInv

LEMMA ReadCopyRead ==
  ASSUME StoreInv, ReadInv, LSInv, OpenCopy \/ OpenCopyFails
  PROVE  ReadInv'
<1>1. /\ pc = "readCopy" /\ pc' = "cleanup"
      /\ served' \in {served, served \cup {"copy"}}
      /\ UNCHANGED <<files, written, pending, copy, failed, began, quiet>>
      /\ \/ reports' = Append(reports, Devices(copy))
         \/ reports' = reports /\ (OpenMayFail \/ ~Openable(copy))
  BY DEF OpenCopy, OpenCopyFails, ReadCopyReturns, storeVars, copyVars, seenVars
<1>2. ReadTypes'
  <2>1. Devices(copy) \in SUBSET DeviceWrites
    BY DEF Devices
  <2>2. reports' \in Seq(SUBSET DeviceWrites)
    BY <1>1, <2>1 DEF ReadInv, ReadTypes
  <2>3. QED
    BY <1>1, <2>2 DEF ReadInv, ReadTypes, IsDirectory
<1>3. Uncopied' /\ LiveInv'
  BY <1>1 DEF ReadInv, Uncopied, LiveInv
<1>4. QuietCopyInv'
  <2>1. ASSUME quiet, failed = {}
        PROVE  reports' = <<Committed>> \/ (reports' = <<>> /\ OpenMayFail)
    <3>1. copy = files /\ reports = <<>>
      BY <1>1, <2>1 DEF ReadInv, QuietCopyInv
    <3>2. QED
      BY <1>1, <3>1, DevicesOfStore
  <2>2. Committed' = Committed
    BY <1>1 DEF Committed
  <2>3. QED
    BY <1>1, <2>1, <2>2 DEF QuietCopyInv
<1>5. QED
  BY <1>2, <1>3, <1>4 DEF ReadInv

LEMMA LookRead ==
  ASSUME ReadInv, Look
  PROVE  ReadInv'
<1>1. UNCHANGED <<written, pending, copy, failed, reports, began, quiet, served>>
  BY DEF Look, CheckExists, CheckWal, Cleanup, storeVars, copyVars, seenVars
<1>2. CASE ~Cleanup
  BY <1>1, <1>2, ReadOn DEF Look, CheckExists, CheckWal
<1>3. CASE Cleanup
  <2>1. pc = "cleanup" /\ pc' = "done"
    BY <1>3 DEF Cleanup
  <2>2. ReadTypes' /\ Committed' = Committed
    BY <1>1 DEF ReadInv, ReadTypes, IsDirectory, Committed
  <2>3. Uncopied' /\ LiveInv' /\ QuietCopyInv'
    BY <1>1, <2>1, <2>2 DEF ReadInv, Uncopied, LiveInv, QuietCopyInv
  <2>4. QED
    BY <2>2, <2>3 DEF ReadInv
<1>4. QED
  BY <1>2, <1>3

LEMMA ReadStep == StoreInv /\ ReadInv /\ LSInv /\ [Next]_vars => ReadInv'
<1> SUFFICES ASSUME StoreInv, ReadInv, LSInv, [Next]_vars
             PROVE  ReadInv'
  OBVIOUS
<1>1. CASE OpenLive \/ OpenLiveFails
  <2>1. /\ UNCHANGED <<written, pending, copy, failed, reports, began, quiet, served>>
        /\ pc = "readLive" /\ pc' \in {"readLive", "mkTemp"}
    BY <1>1 DEF OpenLive, OpenLiveFails, ReadLiveReturns, lsVars, storeVars, copyVars, seenVars
  <2>2. QED
    BY <2>1, ReadOn
<1>2. CASE Throw
  <2>1. /\ UNCHANGED <<written, pending, copy, failed, reports, began, quiet, served>>
        /\ pc # "done" /\ pc' = "thrown"
    BY <1>2 DEF Throw, ClientThrows, copyVars, seenVars
  <2>2. QED
    BY <2>1, ReadOn
<1>3. CASE UNCHANGED vars
  <2>1. UNCHANGED <<pc, diags, files, written, pending, copy, failed, reports, began,
                    quiet, served>>
    BY <1>3 DEF vars, storeVars, lsVars, copyVars, seenVars
  <2>2. ReadTypes' /\ Committed' = Committed
    BY <2>1 DEF ReadInv, ReadTypes, IsDirectory, Committed
  <2>3. Uncopied' /\ LiveInv' /\ QuietCopyInv'
    BY <2>1, <2>2 DEF ReadInv, Uncopied, LiveInv, QuietCopyInv
  <2>4. QED
    BY <2>2, <2>3 DEF ReadInv
<1>4. QED
  BY <1>1, <1>2, <1>3, BrowserRead, LookRead, IterateLiveRead, BeginCopyRead, CopyFileRead,
     EndCopyRead, ReadCopyRead DEF Next, Reader, Step

-----------------------------------------------------------------------------
(* The LOCK.                                                               *)

LEMMA LockStep == LockGivenBack /\ [Next]_vars => LockGivenBack'
<1> SUFFICES ASSUME LockGivenBack, [Next]_vars
             PROVE  LockGivenBack'
  OBVIOUS
<1>1. CASE Browser
  BY <1>1 DEF Browser, BrowserFrame, OpenBrowser, SetCurrent, Put, RollLog, BuildTable,
              Install, RemoveObsolete, StopBrowser, lsVars, LockGivenBack
<1>2. CASE Look \/ BeginCopy \/ OpenLiveFails \/ EndCopy
  BY <1>2 DEF Look, CheckExists, CheckWal, Cleanup, BeginCopy, MakeTemp, OpenLiveFails,
              ReadLiveReturns, EndCopy, CopyReturns, storeVars, LockGivenBack
<1>3. CASE OpenLive \/ IterateLive
  BY <1>3 DEF OpenLive, IterateLive, lsVars, LockGivenBack
<1>4. CASE CopyFile \/ OpenCopy \/ OpenCopyFails
  BY <1>4 DEF CopyFile, OpenCopy, OpenCopyFails, ReadCopyReturns, lsVars, storeVars,
              LockGivenBack
<1>5. CASE Throw
  BY <1>5 DEF Throw, LockGivenBack
<1>6. CASE UNCHANGED vars
  BY <1>6 DEF vars, lsVars, storeVars, LockGivenBack
<1>7. QED
  BY <1>1, <1>2, <1>3, <1>4, <1>5, <1>6 DEF Next, Reader, Step

SyncInv ==
  LSInv /\ PresentOK /\ LockGivenBack /\ ReportsByPlace /\ StoreInv /\ ReadInv

(* Everything that is known of the store, of the copy and of the read.     *)
THEOREM SyncInvariant == Spec => []SyncInv
<1>1. Init => SyncInv
  <2>1. Init => ReportsByPlace
    BY DEF Init, LSInit, ReportsByPlace
  <2>2. QED
    BY <2>1, LSInitInv, StoreInit, ReadInit DEF Init, PresentOK, LockGivenBack, SyncInv
<1>2. SyncInv /\ [Next]_vars => SyncInv'
  BY LSStepInv, SyncStepIsLocked, PresentStep, LockStep, ReportsStep, StoreStep, ReadStep
     DEF SyncInv
<1>3. QED
  BY <1>1, <1>2, PTL DEF Spec

(* Every variable of the store and of its reader keeps its type: the       *)
(* numbers DB::Open takes for its files stay within the bound.             *)
THEOREM SyncTypeOK == Spec => []TypeOK
<1>1. SyncInv => TypeOK
  <2> SUFFICES ASSUME SyncInv
               PROVE  TypeOK
    OBVIOUS
  <2>1. LSTypeOK /\ LockGivenBack /\ ReadTypes /\ StoreTypes /\ IsDirectory(files)
    BY DEF SyncInv, LSInv, ReadInv, StoreInv, StoreOK
  <2>2. next \in Numbers
    <3>1. next \in Nat /\ next <= MaxFile + 5
      BY SyncAssumption DEF SyncInv, StoreInv, StoreTypes, NextInv
    <3>2. QED
      BY <3>1, SyncAssumption DEF Numbers
  <2>3. QED
    BY <2>1, <2>2 DEF TypeOK, ReadTypes, StoreTypes
<1>2. QED
  BY <1>1, SyncInvariant, PTL

(* A read that was not announced as a live copy pushed, in one iteration,  *)
(* every device that was there when it began and none that is not: the     *)
(* LOCK keeps the browser out while ReadSyncData recovers and iterates.    *)
THEOREM SyncInPlaceIsExact == Spec => []InPlaceIsExact
<1>1. SyncInv => InPlaceIsExact
  <2> SUFFICES ASSUME SyncInv, served # {}, "liveCopy" \notin diags
               PROVE  /\ Len(reports) = 1
                      /\ DeviceWrites \cap 1 .. began \subseteq reports[1]
                      /\ reports[1] \subseteq Committed
    BY DEF InPlaceIsExact
  <2>1. "live" \in served
    BY DEF SyncInv, LSInv, LSTypeOK, CopyIsAnnounced
  <2>2. reports = <<Committed>> /\ began <= written
    BY <2>1 DEF SyncInv, ReadInv, LiveInv
  <2>3. 1 .. began \subseteq 1 .. written
    BY <2>2, SyncAssumption DEF SyncInv, StoreInv, StoreTypes, ReadInv, ReadTypes
  <2>4. QED
    BY <2>2, <2>3 DEF Committed
<1>2. QED
  BY <1>1, SyncInvariant, PTL

(* While the browser only has the store open and every file can be read,   *)
(* the copy made file by file is the store: nothing is lost, not even what *)
(* is in a log alone.                                                      *)
THEOREM QuietSync == Spec => []QuietSyncIsComplete
<1>1. SyncInv => QuietSyncIsComplete
  BY DEF SyncInv, ReadInv, QuietCopyInv, QuietSyncIsComplete
<1>2. QED
  BY <1>1, SyncInvariant, PTL

=============================================================================
