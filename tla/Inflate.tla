------------------------------- MODULE Inflate -------------------------------
(***************************************************************************)
(* Decompress (readers_cache.cpp): one response body through               *)
(* GzipDecompress, a loop around zlib's inflate with a fixed output        *)
(* buffer, through BrotliDecompress, one call with an output buffer whose  *)
(* size is fixed beforehand, or as it is.                                  *)
(***************************************************************************)
EXTENDS Naturals

CONSTANTS
  Encodings,  \* the Content-Encodings considered
  States,     \* what may be wrong with a body: "whole", "torn", "corrupt"
  MaxPlain,   \* bound on the size of the text
  BufSize,    \* the output buffer of GzipDecompress
  Ratio,      \* the expansion BrotliDecompress expects at most
  Ceiling     \* and the size it never exceeds

ASSUME InflateAssumption ==
  /\ Encodings \subseteq {"identity", "gzip", "br", "zstd"}
  /\ States \subseteq {"whole", "torn", "corrupt"}
  /\ {MaxPlain, BufSize, Ratio, Ceiling} \subseteq Nat \ {0}

VARIABLES
  body,  \* the stored body: encoding, state, stored size, size of its text
  cap,   \* maxBytes; 0 for no limit
  fed,   \* how much of the text inflate has produced
  out,   \* how much of the text is in the result
  rc,    \* the result of the last call of inflate
  at     \* "start", "loop", "done"

vars == <<body, cap, fed, out, rc, at>>

Stored == 1 .. MaxPlain
Text == 0 .. MaxPlain
Bodies == [enc: Encodings, state: States, stored: Stored, text: Text]

(* What is stored as it is is its own text.                                *)
Possible(b) == b.enc = "identity" => b.state = "whole" /\ b.text = b.stored

TypeOK ==
  /\ body \in Bodies
  /\ cap \in 0 .. MaxPlain
  /\ fed \in Text
  /\ out \in Text
  /\ rc \in {"none", "ok", "end", "bufError", "dataError"}
  /\ at \in {"start", "loop", "done"}

Init ==
  /\ body \in {b \in Bodies : Possible(b)}
  /\ cap \in 0 .. MaxPlain
  /\ fed = 0 /\ out = 0
  /\ rc = "none"
  /\ at = "start"

-----------------------------------------------------------------------------
Least(m, n) == IF m < n THEN m ELSE n
Capped(n) == IF cap > 0 THEN Least(n, cap) ELSE n

(* "identity", and the encodings that are not supported.                   *)
DecompressPlain ==
  /\ at = "start" /\ body.enc \in {"identity", "zstd"}
  /\ out' = IF body.enc = "identity" THEN Capped(body.text) ELSE 0
  /\ at' = "done"
  /\ UNCHANGED <<body, cap, fed, rc>>

(* BrotliDecompress: all of the text fits, or nothing is returned.         *)
BrotliRoom == IF cap > 0 THEN cap ELSE Least(body.stored * Ratio, Ceiling)

BrotliDecompress ==
  /\ at = "start" /\ body.enc = "br"
  /\ out' = IF body.state = "whole" /\ body.text <= BrotliRoom
            THEN body.text ELSE 0
  /\ at' = "done"
  /\ UNCHANGED <<body, cap, fed, rc>>

GzipStart ==
  /\ at = "start" /\ body.enc = "gzip"
  /\ at' = "loop"
  /\ UNCHANGED <<body, cap, fed, out, rc>>

(* zlib: the results a call may have.  The end of the stream is seen in    *)
(* the call that produces the last byte or, if that filled the buffer, in  *)
(* one more; a torn stream stops giving output and never ends; a corrupt   *)
(* one is found out sooner or later.                                       *)
Produced(n) ==
  LET left == body.text - fed
  IN  CASE body.state = "whole" /\ n = Least(left, BufSize) ->
             IF n < BufSize THEN {"end"}
             ELSE IF n = left THEN {"ok", "end"} ELSE {"ok"}
        [] body.state = "torn" /\ n = Least(left, BufSize) ->
             IF n > 0 THEN {"ok"} ELSE {"bufError"}
        [] body.state = "corrupt" /\ n <= Least(left, BufSize) ->
             IF n < BufSize THEN {"dataError"} ELSE {"ok", "dataError"}
        [] OTHER -> {}

(* Z_STREAM_ERROR, Z_DATA_ERROR and Z_MEM_ERROR; not Z_BUF_ERROR.          *)
Failed(r) == r = "dataError"

(* Mutation of Full: it is looked at before there is a limit.              *)
FullAlways(n) == n >= cap

Full(n) == cap > 0 /\ n >= cap

(* One turn of the do-while loop.                                          *)
GzipTurn ==
  /\ at = "loop"
  /\ \E n \in 0 .. BufSize : \E r \in Produced(n) :
       /\ rc' = r
       /\ fed' = fed + n
       /\ out' = IF Failed(r) THEN 0
                 ELSE IF Full(out + n) THEN cap ELSE out + n
       /\ at' = IF Failed(r) \/ Full(out + n) \/ r = "end" THEN "done" ELSE "loop"
  /\ UNCHANGED <<body, cap>>

Step == DecompressPlain \/ BrotliDecompress \/ GzipStart \/ GzipTurn

Next == Step

(* Decompress runs in one thread.                                          *)
Spec == Init /\ [][Next]_vars /\ WF_vars(Step)

-----------------------------------------------------------------------------
(* The properties.                                                         *)

(* Decompress on a whole body gives as much of its text as the limit       *)
(* allows; on a corrupt one it gives nothing, unless the limit was reached *)
(* before the damage; and nothing on an encoding it does not know.  Of a   *)
(* brotli text without room nothing is said: the code gives none of it,    *)
(* where profile.h:354 has a limit of 0 be "unlimited" and                 *)
(* readers_cache.cpp:602 the buffer "grow if needed".                      *)
DecompressIsExact ==
  at = "done" =>
    /\ body.enc = "zstd" => out = 0
    /\ body.state = "corrupt" => out \in {0, cap}
    /\ /\ body.state = "whole" /\ body.enc # "zstd"
       /\ body.enc = "br" => body.text <= BrotliRoom
       => out = Capped(body.text)

(* Decompress comes to an end.                                             *)
DecompressEnds == <>(at = "done")

(* The comment on Decompress: "Returns the plaintext body, or empty on     *)
(* failure / unsupported encoding".  A torn body is a failure.             *)
TornBodyEnds == body.state = "torn" ~> at = "done"
=============================================================================
