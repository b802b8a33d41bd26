----------------------------- MODULE MCCapture -----------------------------
(* Instances of Capture for TLC: two profiles, documents of every form, and *)
(* every kind of call.                                                      *)
EXTENDS Capture

CONSTANTS x, y   \* extensions, bookmarks, servers

D(form, items, flag) == [form |-> form, items |-> items, illTyped |-> {}, flag |-> flag]
NoDoc == D("absent", {}, "none")
TornDoc == D("torn", {}, "none")
OddDoc == [D("good", {x}, "on") EXCEPT !.illTyped = {x}]
GoodDoc == D("good", {x}, "on")
OtherDoc == D("good", {x, y}, "off")
(* An ill-typed extension beside a good one: read before, or not.          *)
MixedDocs == {[OtherDoc EXCEPT !.illTyped = {i}] : i \in {x, y}}

Holding(P, S, B, N, old) ==
  [there |-> TRUE,
   docs  |-> [n \in DocNames |-> CASE n = "Preferences" -> P [] n = "Secure Preferences" -> S
                                   [] n = "Bookmarks" -> B [] OTHER -> N],
   sizes |-> [f \in StoreNames |-> CASE f = "Login Data" -> 2 [] f = "Network/Cookies" -> 1 - old
                                     [] OTHER -> 1]]
NoDir == [there |-> FALSE, docs |-> [n \in DocNames |-> NoDoc], sizes |-> [f \in StoreNames |-> 0]]

FirstProfiles ==
  {Holding(P, S, GoodDoc, GoodDoc, 0) : P \in {GoodDoc, OtherDoc, TornDoc},
                                        S \in {GoodDoc, NoDoc}}
  \cup {Holding(GoodDoc, NoDoc, B, B, 1) : B \in {TornDoc, OddDoc}}
  \cup {Holding(GoodDoc, S, GoodDoc, GoodDoc, 0) : S \in MixedDocs}
  \cup {NoDir}
TwoProfiles(first) ==
  <<first, Holding(GoodDoc, D("good", {y}, "off"), GoodDoc, NoDoc, 0)>>

Usual == [input |-> "root", callback |-> "returns", localState |-> "good", version |-> TRUE]
Calls ==
  {c \in Call : \/ c.localState \in {"absent", "good"} /\ c.callback = "none" /\ c.version
                \/ c.localState = "good" /\ c.input = "root"
                \/ c = [Usual EXCEPT !.localState = c.localState]}
MCCalls ==
  {<<Usual, TwoProfiles(first)>> : first \in FirstProfiles}
  \cup {<<c, TwoProfiles(Holding(TornDoc, GoodDoc, TornDoc, GoodDoc, 0))>> : c \in Calls}

MCRewrites ==
  [n \in DocNames |-> CASE n = "Preferences" -> {D("good", {}, "off")}
                        [] n = "Secure Preferences" -> {D("good", {x, y}, "on"), NoDoc}
                        [] n = "Bookmarks" -> {OddDoc, NoDoc} [] OTHER -> {TornDoc}]

(* An ill-typed value in one document of one profile.                      *)
OddCalls == {<<Usual, TwoProfiles(Holding(OddDoc, GoodDoc, GoodDoc, GoodDoc, 0))>>}
=============================================================================
