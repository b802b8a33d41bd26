-------------------------- MODULE LockedStoreProofs --------------------------
(***************************************************************************)
(* What ReadLockedStore guarantees to every client, whatever tryRead and   *)
(* copyStore answer.  LSInv relates the place the helper is at to what has *)
(* been served, said and left on disk, and is inductive.                   *)
(***************************************************************************)
EXTENDS LockedStore, TLAPS

(* Nothing is served before a tryRead has returned true.                   *)
ServedByPlace ==
  /\ pc \notin {"cleanup", "done", "thrown"} => served = {}
  /\ pc = "cleanup" => "live" \notin served

(* What was said when the helper is at a place.                            *)
SaidByPlace ==
  /\ "noTempDir" \in diags => pc \in {"done", "thrown"} /\ served = {}
  /\ "locked" \in diags => pc \in {"cleanup", "done", "thrown"} /\ served = {}
  /\ "liveCopy" \in diags =>
       /\ pc \in {"readCopy", "cleanup", "done", "thrown"}
       /\ diags \cap {"noTempDir", "locked"} = {}
       /\ "live" \notin served
  /\ pc = "cleanup" => "locked" \in diags \/ "liveCopy" \in diags

LSInv ==
  /\ LSTypeOK
  /\ NoTempDirLeaks
  /\ ServedOnce
  /\ ServedByPlace
  /\ SaidByPlace
  /\ CopyIsAnnounced
  /\ SilentOnlyInPlace

LEMMA LSInitInv == LSInit => LSInv
  BY DEF LSInit, LSInv, LSTypeOK, Locations, Ended, NoTempDirLeaks, ServedOnce,
         ServedByPlace, SaidByPlace, CopyIsAnnounced, SilentOnlyInPlace, Outcomes

(* Every operation of the helper keeps LSInv.                              *)
LEMMA LSStepInv == LSInv /\ [LSNext]_lsVars => LSInv'
<1> SUFFICES ASSUME LSInv, [LSNext]_lsVars
             PROVE  LSInv'
  OBVIOUS
<1> USE DEF LSInv, LSTypeOK, Locations, Ended, Messages, NoTempDirLeaks,
            ServedOnce, ServedByPlace, SaidByPlace, CopyIsAnnounced,
            SilentOnlyInPlace, Outcomes
<1>1. ASSUME NEW b \in BOOLEAN, CheckExists(b) PROVE LSInv'
  BY <1>1 DEF CheckExists
<1>2. ASSUME NEW b \in BOOLEAN, CheckWal(b) PROVE LSInv'
  BY <1>2 DEF CheckWal
<1>3. ASSUME NEW b \in BOOLEAN, ReadLiveReturns(b) PROVE LSInv'
  BY <1>3 DEF ReadLiveReturns
<1>4. ASSUME NEW b \in BOOLEAN, CopyReturns(b) PROVE LSInv'
  <2>1. /\ pc = "copy"
        /\ served = {}
        /\ UNCHANGED <<tmp, served>>
        /\ "locked" \notin diags
        /\ "noTempDir" \notin diags
    BY <1>4 DEF CopyReturns
  <2>2. CASE b
    <3>1. /\ diags' = diags \cup {"liveCopy"}
          /\ pc' \in {"readCopy", "thrown"}
      BY <1>4, <2>2 DEF CopyReturns, Emit
    <3>2. QED
      BY <2>1, <3>1
  <2>3. CASE ~b
    <3>1. /\ diags' = diags \cup {"locked"}
          /\ pc' \in {"cleanup", "thrown"}
      BY <1>4, <2>3 DEF CopyReturns, Emit
    <3>2. QED
      BY <2>1, <3>1
  <2>4. QED
    BY <2>2, <2>3
<1>5. ASSUME NEW b \in BOOLEAN, ReadCopyReturns(b) PROVE LSInv'
  BY <1>5 DEF ReadCopyReturns
<1>6. CASE MakeTemp
  BY <1>6 DEF MakeTemp, Emit
<1>7. CASE Cleanup
  BY <1>7 DEF Cleanup
<1>8. CASE ClientEmits("noRows")
  BY <1>8 DEF ClientEmits, Emit
<1>9. CASE ClientThrows
  BY <1>9 DEF ClientThrows
<1>10. CASE UNCHANGED lsVars
  BY <1>10 DEF lsVars
<1>11. QED
  BY <1>1, <1>2, <1>3, <1>4, <1>5, <1>6, <1>7, <1>8, <1>9, <1>10 DEF LSNext

(* The helper, with any client, keeps LSInv.                               *)
THEOREM LockedStoreInvariant == LSSpec => []LSInv
<1>1. LSInit => LSInv
  BY LSInitInv
<1>2. LSInv /\ [LSNext]_lsVars => LSInv'
  BY LSStepInv
<1>3. QED
  BY <1>1, <1>2, PTL DEF LSSpec

(* What every client of the helper gets: no temporary directory survives a *)
(* normal return, no store is read twice, a return without a word is a     *)
(* read in place, a failure is only reported for an unread store, and rows *)
(* from a copy are announced.                                              *)
THEOREM LockedStoreSafety ==
  LSSpec => [](LSTypeOK /\ NoTempDirLeaks /\ ServedOnce /\ DiagnosticsNameThePath)
<1>1. LSInv => LSTypeOK /\ NoTempDirLeaks /\ ServedOnce /\ DiagnosticsNameThePath
  BY DEF LSInv, SaidByPlace, FailureMeansUnread, DiagnosticsNameThePath
<1>2. QED
  BY <1>1, LockedStoreInvariant, PTL

(* With any tryRead and copyStore, through every failure and exception, a  *)
(* return without a word is a read in place, a reported failure an unread  *)
(* store, and rows of a copy are announced.  Whether a copy announced as   *)
(* read could be read at all is not claimed.                               *)
THEOREM LockedStoreDiagnostics == LSSpec => []DiagnosticsNameThePath
  BY LockedStoreSafety, PTL
=============================================================================
