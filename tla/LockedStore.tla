----------------------------- MODULE LockedStore -----------------------------
(***************************************************************************)
(* The control of ReadLockedStore (store_copy.cpp), the helper behind      *)
(* every database reader: look for the store, skip the in-place read when  *)
(* a non-empty "-wal" file sits beside it, otherwise read in place, and    *)
(* when that is not possible read a copy made in a fresh temporary         *)
(* directory that is removed afterwards.                                   *)
(*                                                                         *)
(* The callbacks tryRead and copyStore belong to the client, so what they  *)
(* answer is a parameter of the operations.  A client module EXTENDS this  *)
(* one and conjoins the operations with its own steps; LSSpec leaves every *)
(* answer open and is what all the clients have in common.                 *)
(***************************************************************************)

CONSTANT Exceptions     \* where a C++ exception may come from

\* "callback": the user's onDiagnostic throws inside CaptureCtx::emit.
\* "tempPath": fs::temp_directory_path() throws in MakeRandomTempDir.
\* "client":   tryRead or copyStore throws.
ExceptionSources == {"callback", "tempPath", "client"}

ASSUME ExceptionsAssumption == Exceptions \subseteq ExceptionSources

VARIABLES
  pc,       \* where ReadLockedStore is
  tmp,      \* the temporary directory made for the copy
  served,   \* history: the paths on which tryRead returned true
  diags     \* the kinds of diagnostics buffered in CaptureCtx::buf

lsVars == <<pc, tmp, served, diags>>

Ended == {"absent", "done", "thrown"}

Locations ==
  {"exists", "walSize", "readLive", "mkTemp", "copy", "readCopy", "cleanup"}
    \cup Ended

Messages == {"noTempDir", "locked", "liveCopy", "noRows"}

LSTypeOK ==
  /\ pc \in Locations
  /\ tmp \in {"none", "made", "removed", "left"}
  /\ served \subseteq {"live", "copy"}
  /\ diags \subseteq Messages

LSInit ==
  /\ pc = "exists"
  /\ tmp = "none"
  /\ served = {}
  /\ diags = {}

-----------------------------------------------------------------------------
(* CaptureCtx::emit buffers the diagnostic and only then calls the user's  *)
(* callback: when that throws the message is kept and the reader unwinds.  *)
Emit(msg, next) ==
  /\ diags' = diags \cup {msg}
  /\ \/ pc' = next
     \/ "callback" \in Exceptions /\ pc' = "thrown"

CheckExists(present) ==
  /\ pc = "exists"
  /\ pc' = IF present THEN "walSize" ELSE "absent"
  /\ UNCHANGED <<tmp, served, diags>>

(* file_size(live + "-wal"); an error counts as "no WAL".                  *)
CheckWal(nonEmpty) ==
  /\ pc = "walSize"
  /\ pc' = IF nonEmpty THEN "mkTemp" ELSE "readLive"
  /\ UNCHANGED <<tmp, served, diags>>

(* Mutation of ReadLiveReturns: no return after a successful read.         *)
ReadLiveFallsThrough(ok) ==
  /\ pc = "readLive"
  /\ pc' = "mkTemp"
  /\ served' = IF ok THEN served \cup {"live"} ELSE served
  /\ UNCHANGED <<tmp, diags>>

(* tryRead(live) returns; true ends the whole read.                        *)
ReadLiveReturns(ok) ==
  /\ pc = "readLive"
  /\ pc' = IF ok THEN "done" ELSE "mkTemp"
  /\ served' = IF ok THEN served \cup {"live"} ELSE served
  /\ UNCHANGED <<tmp, diags>>

(* Mutation of MakeTemp: it gives up without the error diagnostic.         *)
MakeTempSilently ==
  /\ pc = "mkTemp"
  /\ \/ pc' = "copy" /\ tmp' = "made"
     \/ pc' = "done" /\ UNCHANGED tmp
  /\ UNCHANGED <<served, diags>>

(* MakeRandomTempDir: a directory that did not exist before, nothing after *)
(* eight attempts, or the exception of temp_directory_path().              *)
TempDirResults ==
  {"made", "failed"} \cup (IF "tempPath" \in Exceptions THEN {"threw"} ELSE {})

MakeTemp ==
  /\ pc = "mkTemp"
  /\ \E result \in TempDirResults :
       \/ result = "made" /\ pc' = "copy" /\ tmp' = "made" /\ UNCHANGED diags
       \/ result = "failed" /\ Emit("noTempDir", "done") /\ UNCHANGED tmp
       \/ result = "threw" /\ pc' = "thrown" /\ UNCHANGED <<tmp, diags>>
  /\ UNCHANGED served

(* Mutation of CopyReturns: the copy is read without announcing it.        *)
CopyReturnsSilently(ok) ==
  /\ pc = "copy"
  /\ IF ok THEN pc' = "readCopy" /\ UNCHANGED diags
     ELSE Emit("locked", "cleanup")
  /\ UNCHANGED <<tmp, served>>

(* Mutation of CopyReturns: a failed copy returns at once.                 *)
CopyReturnsEarly(ok) ==
  /\ pc = "copy"
  /\ IF ok THEN Emit("liveCopy", "readCopy") ELSE Emit("locked", "done")
  /\ UNCHANGED <<tmp, served>>

(* copyStore returns: an empty path is a failed copy.  The "live copy"     *)
(* message is emitted before the copy is read.                             *)
CopyReturns(ok) ==
  /\ pc = "copy"
  /\ IF ok THEN Emit("liveCopy", "readCopy") ELSE Emit("locked", "cleanup")
  /\ UNCHANGED <<tmp, served>>

(* Mutation of ReadCopyReturns: a copy that cannot be read is made again.  *)
ReadCopyRetries(ok) ==
  /\ pc = "readCopy"
  /\ pc' = IF ok THEN "cleanup" ELSE "mkTemp"
  /\ served' = IF ok THEN served \cup {"copy"} ELSE served
  /\ UNCHANGED <<tmp, diags>>

(* tryRead(target) returns; its result is not looked at.                   *)
ReadCopyReturns(ok) ==
  /\ pc = "readCopy"
  /\ pc' = "cleanup"
  /\ served' = IF ok THEN served \cup {"copy"} ELSE served
  /\ UNCHANGED <<tmp, diags>>

(* remove_all(tmp, ec): a failure is ignored.                              *)
Cleanup ==
  /\ pc = "cleanup"
  /\ pc' = "done"
  /\ tmp' \in {"removed", "left"}
  /\ UNCHANGED <<served, diags>>

(* tryRead emits a diagnostic of its own (only ReadWebData's does).        *)
ClientEmits(msg) ==
  /\ pc \in {"readLive", "readCopy"}
  /\ Emit(msg, pc)
  /\ UNCHANGED <<tmp, served>>

(* tryRead or copyStore throws: nothing on the way up removes tmp.         *)
ClientThrows ==
  /\ pc \in {"readLive", "copy", "readCopy"}
  /\ "client" \in Exceptions
  /\ pc' = "thrown"
  /\ UNCHANGED <<tmp, served, diags>>

LSNext ==
  \/ \E b \in BOOLEAN :
        \/ CheckExists(b)
        \/ CheckWal(b)
        \/ ReadLiveReturns(b)
        \/ CopyReturns(b)
        \/ ReadCopyReturns(b)
  \/ MakeTemp
  \/ Cleanup
  \/ ClientEmits("noRows")
  \/ ClientThrows

LSSpec == LSInit /\ [][LSNext]_lsVars

-----------------------------------------------------------------------------
(* A temporary directory exists only between MakeRandomTempDir and         *)
(* remove_all: a read that returns normally has either removed it or was   *)
(* refused by the file system.  Only an exception leaves one behind.       *)
NoTempDirLeaks ==
  tmp = "made" => pc \in {"copy", "readCopy", "cleanup", "thrown"}

(* The vectors of the Profile are filled by push_back, so a store that was *)
(* read twice would show every row twice: tryRead succeeds on one path.    *)
ServedOnce == served # {"live", "copy"}

(* Reports of ReadLockedStore itself.                                      *)
Outcomes == {"noTempDir", "locked", "liveCopy"}

(* The helper returns without a word of its own exactly after a read in    *)
(* place: no return path loses a store silently.                           *)
SilentOnlyInPlace ==
  pc = "done" => (diags \cap Outcomes = {} <=> "live" \in served)

(* "could not be copied" and "could not create temp dir" are only said of  *)
(* a store of which nothing was read, and never next to "live copy".       *)
FailureMeansUnread ==
  diags \cap {"noTempDir", "locked"} # {} =>
    served = {} /\ "liveCopy" \notin diags

(* Rows that come from a copy are announced as such before they are read.  *)
CopyIsAnnounced == pc = "readCopy" \/ "copy" \in served => "liveCopy" \in diags

(* The diagnostics name the path ReadLockedStore took: nothing after a     *)
(* read in place, a failure when no copy was made, "live copy" when one    *)
(* was.  They do not say that the copy could be read: line 69 speaks       *)
(* before the second tryRead, whose failure LiveCopyWasRead shows.         *)
DiagnosticsNameThePath ==
  SilentOnlyInPlace /\ FailureMeansUnread /\ CopyIsAnnounced

(* The message "data read from a live copy" (line 69) holds of every read  *)
(* that ended with it.                                                     *)
LiveCopyWasRead == pc = "done" /\ "liveCopy" \in diags => "copy" \in served
=============================================================================
