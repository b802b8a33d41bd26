----------------------------- MODULE MCLibrary -----------------------------
(* An instance for TLC of the parts of the library that share no state: a   *)
(* behaviour is one call of one of them, the others are as after a call.    *)
EXTENDS MCCapture, WebData, MCCopyProfile, WireReader, SeedDecoder, Inflate

CONSTANTS g1, g2, name, company, street

-----------------------------------------------------------------------------
(* WebData: an address in one table or in two, with and without a name, or  *)
(* without anything.                                                        *)
W(g, n, c, s) ==
  [guid |-> g, vals |-> [f \in Fields |-> CASE f = name -> n [] f = company -> c [] OTHER -> s]]
MCRowSets ==
  {{}, {W(g1, 1, 2, 2)}, {W(g1, 1, NoVal, NoVal)}, {W(g1, NoVal, NoVal, NoVal)},
   {W(g1, NoVal, NoVal, 1), W(g2, 2, NoVal, NoVal)},
   {W(g1, 1, 2, 2), W(g1, 2, 2, 2), W(g2, NoVal, 2, 2)}}
TokenSets == {s \in MCRowSets : \A w \in s : IsToken(w)}
Db(tables, column, m, l, k, n) ==
  [table |-> tables, streetColumn |-> column, masked |-> m, local |-> l, keywords |-> k, limit |-> n]
MCDatabases ==
  {Db(<<a, b, {}>>, TRUE, {}, {}, <<>>, 0) : a \in MCRowSets, b \in TokenSets}
  \cup {Db(<<a, b, b>>, FALSE, {}, {}, <<>>, 0) : a \in {{}, {W(g1, 1, 2, 2)}}, b \in TokenSets}
  \cup {Db(<<{}, {}, {}>>, TRUE, m, l, k, n) :
          m, l \in SUBSET Cards, k \in {<<>>, <<1>>, <<1, 2>>}, n \in 0 .. 1}

-----------------------------------------------------------------------------
(* WireReader: fields of every type, submessages of up to two of them.     *)
Leaf(n, wt, bytes) == [num |-> n, wt |-> wt, payload |-> bytes, sub |-> <<>>]
Nest(n, fields) == [num |-> n, wt |-> 2, payload |-> Written(fields), sub |-> fields]
Number(n, v) == [num |-> n, wt |-> 0, payload |-> Varint(v), value |-> v]
Leaves == {Number(1, 3), Number(2, 17), Leaf(1, 2, <<>>), Leaf(1, 5, <<9>>)}
Nests == {Nest(2, <<>>)} \cup {Nest(2, <<a>>) : a \in Leaves} \cup {Nest(2, <<a, b>>) : a, b \in Leaves}
Others == {Leaf(2, 1, <<1, 31>>), Number(2, 5)}
MCWireFields == Leaves \cup Nests \cup Others
MCMessages ==
  {<<>>} \cup {<<a>> : a \in Leaves} \cup {<<a, b>> : a, b \in Leaves}
  \cup {<<n>> : n \in Nests} \cup {<<o, n>> : o \in Others, n \in Nests \cup Leaves}
  \cup {<<n, o>> : o \in Others, n \in Nests}
MCNoise == [1 .. 3 -> {0, 2, 8, 10, 13, 18, 31}]
Wanted == {<<n, wt>> : n \in 1 .. 2, wt \in {0, 2, 5}}
MCPaths == {<<<<2, 2>>>>, <<<<1, 5>>>>} \cup {<<<<2, 2>>, w>> : w \in Wanted}

-----------------------------------------------------------------------------
(* SeedDecoder: up to four bytes, with blanks, without padding, with more   *)
(* text behind it, cut short; a seed of up to four chunks and a part.       *)
Insert(s, i, c) == SubSeq(s, 1, i) \o <<c>> \o SubSeq(s, i + 1, Len(s))
TextsOf(bs) ==
  LET t == Encoded(bs)
  IN  {Insert(t, i, Noise64) : i \in 0 .. Len(t)} \cup {SubSeq(t, 1, i) : i \in 0 .. Len(t)}
      \cup {t \o Encoded(<<255>>)}
SeedsOf(bss, texts, streams, sizes) ==
  {[bytes |-> bs, text |-> t, stream |-> st, size |-> n, parses |-> ps] :
     bs \in bss, t \in texts, st \in streams, n \in sizes, ps \in BOOLEAN}
SeedSet ==
  LET gz == <<31, 139>>
  IN  UNION {SeedsOf({bs}, TextsOf(bs), {"corrupt"}, {0}) :
               bs \in UNION {[1 .. n -> {0, 97, 255}] : n \in 0 .. 3} \cup {<<0, 97, 255, 31>>}}
      \cup SeedsOf({gz}, {Encoded(gz), <<Noise64>> \o Encoded(gz) \o Encoded(gz)},
                   {"whole", "torn", "corrupt"}, {0, 1, 4, 5, 8})
(* Enumerated once, where TLC would walk through a union at every test.    *)
MCSeeds == {s : s \in SeedSet}

-----------------------------------------------------------------------------
(* No call.                                                                *)
NoCapture ==
  /\ call = [Usual EXCEPT !.localState = "bare"] /\ dirs = TwoProfiles(NoDir)
  /\ pc = "done" /\ userDataDir = "User Data" /\ rewrites = 0 /\ prof = 1 /\ line = 1
  /\ inst = [q \in Profiles |-> NoProfile] /\ diags = <<"version">>
  /\ quiet = Profiles /\ gone = Profiles \X Items /\ odd = {}

NoQuery ==
  /\ table = [i \in Tables |-> {}] /\ streetColumn = TRUE
  /\ masked = {} /\ local = {} /\ keywords = <<>> /\ limit = 0 /\ commits = 0
  /\ stmt = 7 /\ open = FALSE /\ rows = {}
  /\ addrsOut = {} /\ cardsOut = {} /\ enginesOut = <<>>
  /\ still = FALSE /\ rewritten = {} /\ ever = {}

NoCopy ==
  /\ disk = Nothing /\ dst = Nothing /\ was = Nothing /\ isDir = FALSE
  /\ opts = [skipCache |-> TRUE, overwrite |-> FALSE, continueOnError |-> TRUE]
  /\ edits = 0 /\ stage = "done" /\ stack = <<>> /\ todo = [d \in Dirs |-> {}]
  /\ cur = Root /\ sz = 0 /\ steady = Nodes /\ reached = {} /\ cut = FALSE
  /\ r = [ok |-> FALSE, filesCopied |-> 0, bytesCopied |-> 0, entriesSkipped |-> 0,
          filesFailed |-> 0, failedPaths |-> 0]

NoMessage ==
  /\ message = <<>> /\ blob = <<>> /\ wanted = <<<<2, 2>>>> /\ path = <<>>
  /\ p = 1 /\ end = 0 /\ found = {} /\ turns = 0

NoSeed ==
  /\ seed = [bytes |-> <<>>, text |-> <<>>, stream |-> "corrupt", size |-> 0, parses |-> TRUE]
  /\ decoder = "profile" /\ pos = 1 /\ acc = 0 /\ bits = -8 /\ decoded = <<>>
  /\ phase = "done" /\ inflated = 0 /\ present = FALSE

NoBody ==
  /\ body = [enc |-> "identity", state |-> "whole", stored |-> 1, text |-> 1]
  /\ cap = 0 /\ fed = 0 /\ out = 1 /\ rc = "none" /\ at = "done"

LibraryInit ==
  \/ CaptureInit /\ NoQuery /\ NoCopy /\ NoMessage /\ NoSeed /\ NoBody
  \/ NoCapture /\ WebInit /\ NoCopy /\ NoMessage /\ NoSeed /\ NoBody
  \/ NoCapture /\ NoQuery /\ CopyInit /\ NoMessage /\ NoSeed /\ NoBody
  \/ NoCapture /\ NoQuery /\ NoCopy /\ WireInit /\ NoSeed /\ NoBody
  \/ NoCapture /\ NoQuery /\ NoCopy /\ NoMessage /\ SeedInit /\ NoBody
  \/ NoCapture /\ NoQuery /\ NoCopy /\ NoMessage /\ NoSeed /\ Init

LibraryNext ==
  \/ CaptureNext /\ UNCHANGED <<webVars, copyVars, wireVars, seedVars, vars>>
  \/ WebNext /\ UNCHANGED <<captureVars, copyVars, wireVars, seedVars, vars>>
  \/ CopyNext /\ UNCHANGED <<captureVars, webVars, wireVars, seedVars, vars>>
  \/ WireNext /\ UNCHANGED <<captureVars, webVars, copyVars, seedVars, vars>>
  \/ SeedNext /\ UNCHANGED <<captureVars, webVars, copyVars, wireVars, vars>>
  \/ Next /\ UNCHANGED <<captureVars, webVars, copyVars, wireVars, seedVars>>

LibraryVars == <<captureVars, webVars, copyVars, wireVars, seedVars, vars>>

(* The fairness of the modules.                                            *)
LibrarySpec ==
  /\ LibraryInit /\ [][LibraryNext]_LibraryVars
  /\ WF_LibraryVars(CaptureStep /\ UNCHANGED <<webVars, copyVars, wireVars, seedVars, vars>>)
  /\ WF_LibraryVars(CopyStep /\ UNCHANGED <<captureVars, webVars, wireVars, seedVars, vars>>)
  /\ WF_LibraryVars(SeedNext /\ UNCHANGED <<captureVars, webVars, copyVars, wireVars, vars>>)
  /\ WF_LibraryVars(Next /\ UNCHANGED <<captureVars, webVars, copyVars, wireVars, seedVars>>)

-----------------------------------------------------------------------------
(* The properties the parts have in common.                                *)

(* The states of every part are what its code declares; of the decoders    *)
(* the positions stay in the input and the accumulators in their width.    *)
LibraryTypeOK ==
  CaptureTypeOK /\ WebTypeOK /\ CopyTypeOK /\ WireTypeOK /\ SeedTypeOK /\ TypeOK

(* A call returns or throws, whatever the browser does and whatever the    *)
(* files hold: CaptureInstallation, CopyProfile, DecodeVariations and, of  *)
(* bodies that are not torn, Decompress.                                   *)
LibraryCallsEnd == CaptureEnds /\ CopyEnds /\ SeedEnds /\ DecompressEnds
=============================================================================
