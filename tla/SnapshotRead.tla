---------------------------- MODULE SnapshotRead ----------------------------
(***************************************************************************)
(* What a caller of a SQLite reader is promised, without files and copies: *)
(* an answer is a database that was committed at some moment of the read,  *)
(* unless something was reported before, and a read that ends without all  *)
(* the answers it should have has reported something, unless the owner may *)
(* keep the reader out between two of its statements.                      *)
(***************************************************************************)
EXTENDS Naturals, Sequences

CONSTANTS
  Databases,   \* what a committed database may contain
  NAnswers,    \* how many statements a read runs
  Known        \* those the database can answer

VARIABLES
  exists,      \* there is a database to read
  committed,   \* the database as committed last
  window,      \* the databases committed since the read began
  status,      \* "waiting", "reading", "ended" or "failed" by an exception
  answer,      \* per statement, the answers given: none or one
  reported,    \* a diagnostic was emitted
  lockable     \* the owner may lock the database between two statements

vars == <<exists, committed, window, status, answer, reported, lockable>>

Init ==
  /\ exists \in BOOLEAN
  /\ committed \in Databases
  /\ window = {committed}
  /\ status = "waiting"
  /\ answer = [i \in 1 .. NAnswers |-> <<>>]
  /\ reported = FALSE
  /\ lockable \in BOOLEAN

(* The owner of the database creates it or commits.                        *)
Change ==
  /\ exists' \in {exists, TRUE}
  /\ committed' \in Databases
  /\ window' = IF status = "waiting" THEN {committed'}
               ELSE window \cup {committed'}
  /\ UNCHANGED <<status, answer, reported, lockable>>

Begin ==
  /\ status = "waiting"
  /\ status' = IF exists THEN "reading" ELSE "ended"
  /\ UNCHANGED <<exists, committed, window, answer, reported, lockable>>

Answer(i) ==
  /\ status = "reading"
  /\ answer[i] = <<>>
  /\ \E d \in IF reported THEN Databases ELSE window :
       answer' = [answer EXCEPT ![i] = <<d>>]
  /\ UNCHANGED <<exists, committed, window, status, reported, lockable>>

Report ==
  /\ status = "reading"
  /\ reported' = TRUE
  /\ status' \in {"reading", "failed", "ended"}
  /\ UNCHANGED <<exists, committed, window, answer, lockable>>

End ==
  /\ status = "reading"
  /\ reported \/ lockable \/ \A i \in Known : answer[i] # <<>>
  /\ status' = "ended"
  /\ UNCHANGED <<exists, committed, window, answer, reported, lockable>>

Fail ==
  /\ status = "reading"
  /\ status' = "failed"
  /\ UNCHANGED <<exists, committed, window, answer, reported, lockable>>

Next ==
  \/ Change \/ Begin \/ Report \/ End \/ Fail
  \/ \E i \in 1 .. NAnswers : Answer(i)

Spec == Init /\ [][Next]_vars
=============================================================================
