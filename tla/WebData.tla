------------------------------ MODULE WebData ------------------------------
(***************************************************************************)
(* QuerySqliteWebData (readers_sqlite.cpp): addresses are put together     *)
(* from three tables by guid, cards and search engines from three more,    *)
(* each by a SELECT of its own, between any two of which a browser may     *)
(* commit.  The database is open; that a SELECT can be refused is the      *)
(* subject of SqliteStore.  A table that is missing has no rows.           *)
(***************************************************************************)
EXTENDS Integers, Sequences, FiniteSets

CONSTANTS
  Guids, Vals,
  NoVal,       \* the empty text
  Fields,      \* the fields of an address
  Useful,      \* those an address must have one of: name, email, city
  TokenFields, \* those the type tokens have a number for: not the company
  Street,      \* the field whose column older schemas lack
  RowSets,     \* the rows the browser may give a table
  Cards, Engines,
  Databases,   \* what may be there at first, and the limit of the caller
  MaxCommits   \* bound on what the browser commits

Row == [guid: Guids, vals: [Fields -> Vals \cup {NoVal}]]

(* 1 autofill_profiles with its joins, 2 contact_info_type_tokens of       *)
(* Chrome 114 to 148, 3 address_type_tokens of later ones.                 *)
Tables == 1 .. 3

(* A row of the type tokens has one field.                                 *)
IsToken(w) == \E f \in TokenFields : \A g \in Fields : (w.vals[g] # NoVal) <=> g = f

Database == [table: [Tables -> SUBSET Row], streetColumn: BOOLEAN,
             masked: SUBSET Cards, local: SUBSET Cards,
             keywords: Seq(Engines), limit: Int]

ASSUME WebDataAssumption ==
  /\ NoVal \notin Vals
  /\ Useful \subseteq TokenFields /\ TokenFields \subseteq Fields
  /\ Street \in Fields \ Useful
  /\ RowSets \subseteq SUBSET Row
  /\ Databases \subseteq Database
  /\ \A d \in Databases : \A w \in d.table[2] \cup d.table[3] : IsToken(w)
  /\ MaxCommits \in Nat

VARIABLES
  table,       \* the rows of the address tables
  streetColumn,   \* autofill_profiles has street_address
  masked,      \* masked_credit_cards
  local,       \* credit_cards
  keywords,    \* the engines, by usage_count
  limit,       \* searchEngineLimit
  commits,     \* the commits so far
  stmt,        \* the statement: 1 to 3 tables, 4, 5 cards, 6 keywords, 7 the end
  open,        \* it has begun
  rows,        \* the rows it has yet to give
  addrsOut, cardsOut, enginesOut,
  still,       \* history: the browser has committed nothing
  rewritten,   \* history: the guids it changed other than by migration
  ever         \* history: the values each guid has ever had

webVars == <<table, streetColumn, masked, local, keywords, limit, commits, stmt,
             open, rows, addrsOut, cardsOut, enginesOut, still, rewritten, ever>>

WebTypeOK ==
  /\ table \in [Tables -> SUBSET Row]
  /\ streetColumn \in BOOLEAN
  /\ masked \subseteq Cards /\ local \subseteq Cards
  /\ keywords \in Seq(Engines)
  /\ limit \in Int
  /\ commits \in 0 .. MaxCommits
  /\ stmt \in 1 .. 7
  /\ open \in BOOLEAN
  /\ rows \subseteq Row
  /\ addrsOut \subseteq Row
  /\ cardsOut \subseteq Cards \X {"server", "local"}
  /\ enginesOut \in Seq(Engines)
  /\ still \in BOOLEAN
  /\ rewritten \subseteq Guids
  /\ ever \subseteq Guids \X Fields \X Vals

Values(s) == {<<w.guid, f, w.vals[f]>> : w \in s, f \in Fields} \cap (Guids \X Fields \X Vals)

All(t) == UNION {t[i] : i \in Tables}

WebInit ==
  /\ \E d \in Databases :
       /\ table = d.table /\ streetColumn = d.streetColumn
       /\ masked = d.masked /\ local = d.local
       /\ keywords = d.keywords /\ limit = d.limit
  /\ commits = 0
  /\ stmt = 1 /\ open = FALSE /\ rows = {}
  /\ addrsOut = {} /\ cardsOut = {} /\ enginesOut = <<>>
  /\ still = TRUE /\ rewritten = {}
  /\ ever = Values(All(table))

-----------------------------------------------------------------------------
(* The browser commits: it changes or deletes the rows of an address, ...  *)
OfGuid(s, g) == {w \in s : w.guid = g}

Rewrite(i, g) ==
  /\ \E s \in RowSets :
       /\ OfGuid(s, g) # OfGuid(table[i], g)
       /\ i # 1 => \A w \in OfGuid(s, g) : IsToken(w)
       /\ table' = [table EXCEPT ![i] = (@ \ OfGuid(@, g)) \cup OfGuid(s, g)]
  /\ rewritten' = rewritten \cup {g}
  /\ UNCHANGED <<masked, local, keywords>>

(* ... an update of Chrome moves it to the table of its own schema, ...    *)
Tokens(s) ==
  {[guid |-> w.guid, vals |-> [f \in Fields |-> IF f = g THEN w.vals[g] ELSE NoVal]] :
     w \in s, g \in TokenFields} \cap {w \in Row : IsToken(w)}

Migrate(i, j, g) ==
  /\ i < j
  /\ OfGuid(table[i], g) # {} /\ OfGuid(table[j], g) = {}
  /\ table' = [table EXCEPT ![i] = @ \ OfGuid(@, g),
                            ![j] = @ \cup Tokens(OfGuid(table[i], g))]
  /\ UNCHANGED <<masked, local, keywords, rewritten>>

(* ... a card is uploaded or removed, an engine removed.                   *)
EditCards ==
  /\ \E c \in Cards : /\ c \in masked \cup local
                      /\ local' = local \ {c}
                      /\ masked' \in {masked \ {c}, IF c \in local THEN masked \cup {c} ELSE masked}
  /\ <<masked', local'>> # <<masked, local>>
  /\ UNCHANGED <<table, keywords, rewritten>>

EditKeywords ==
  /\ keywords # <<>> /\ keywords' = Tail(keywords)
  /\ UNCHANGED <<table, masked, local, rewritten>>

Commit ==
  /\ stmt < 7
  /\ commits < MaxCommits
  /\ commits' = commits + 1
  /\ still' = FALSE
  /\ \/ \E i \in Tables, g \in Guids : Rewrite(i, g)
     \/ \E i, j \in Tables, g \in Guids : Migrate(i, j, g)
     \/ EditCards \/ EditKeywords
  /\ ever' = ever \cup Values(All(table'))
  /\ UNCHANGED <<streetColumn, limit, stmt, open, rows, addrsOut, cardsOut, enginesOut>>

-----------------------------------------------------------------------------
(* QuerySqliteWebData.                                                     *)

Quiet == UNCHANGED <<table, streetColumn, masked, local, keywords, limit, commits,
                     still, rewritten, ever>>

(* Mutation of TableOf: the newest schema first.                           *)
TableOfNewest(n) == 4 - n

TableOf(n) == n

(* kModern, or kLegacy when the street column is missing.                  *)
Visible(w) ==
  IF stmt = 1 /\ ~streetColumn THEN [w EXCEPT !.vals[Street] = NoVal] ELSE w

(* A SELECT sees the tables as of its beginning.                           *)
SelectAddresses ==
  /\ stmt \in Tables /\ ~open
  /\ open' = TRUE
  /\ rows' = {Visible(w) : w \in table[TableOf(stmt)]}
  /\ UNCHANGED <<stmt, addrsOut, cardsOut, enginesOut>>
  /\ Quiet

(* Mutation of FindOrCreate: the last address is the one.                  *)
FindOrCreateAny(v, g) ==
  IF v # {} THEN CHOOSE a \in v : TRUE ELSE [guid |-> g, vals |-> [f \in Fields |-> NoVal]]

(* Mutation of FindOrCreate: every row is a new address.                   *)
FindOrCreateNew(v, g) == [guid |-> g, vals |-> [f \in Fields |-> NoVal]]

FindOrCreate(v, g) ==
  IF \E a \in v : a.guid = g THEN CHOOSE a \in v : a.guid = g
  ELSE [guid |-> g, vals |-> [f \in Fields |-> NoVal]]

(* Mutation of Fill: the last value wins.                                  *)
FillLast(old, new) == [f \in Fields |-> IF new[f] # NoVal THEN new[f] ELSE old[f]]

(* A field that has a value keeps it.                                      *)
Fill(old, new) == [f \in Fields |-> IF old[f] # NoVal THEN old[f] ELSE new[f]]

Merge(v, w) ==
  LET a == FindOrCreate(v, w.guid)
  IN  (v \ {a}) \cup {[guid |-> a.guid, vals |-> Fill(a.vals, w.vals)]}

(* Rows of equal use_count come in any order.                              *)
MergeRow ==
  /\ stmt \in Tables
  /\ \E w \in rows : rows' = rows \ {w} /\ addrsOut' = Merge(addrsOut, w)
  /\ UNCHANGED <<stmt, open, cardsOut, enginesOut>>
  /\ Quiet

IsUseful(w) == \E f \in Useful : w.vals[f] # NoVal

(* After the third table the addresses without a useful field go.          *)
EndOfRows ==
  /\ stmt \in Tables /\ open /\ rows = {}
  /\ stmt' = stmt + 1
  /\ open' = FALSE
  /\ addrsOut' = IF stmt = 3 THEN {a \in addrsOut : IsUseful(a)} ELSE addrsOut
  /\ UNCHANGED <<rows, cardsOut, enginesOut>>
  /\ Quiet

SelectCards ==
  /\ stmt \in {4, 5}
  /\ cardsOut' = cardsOut \cup IF stmt = 4 THEN masked \X {"server"} ELSE local \X {"local"}
  /\ stmt' = stmt + 1
  /\ UNCHANGED <<open, rows, addrsOut, enginesOut>>
  /\ Quiet

(* Mutation of Top: no limit is a limit of nothing.                        *)
TopLiterally(s, n) == SubSeq(s, 1, IF n < Len(s) THEN n ELSE Len(s))

(* LIMIT n; a limit that is not positive is none.                          *)
Top(s, n) == IF n > 0 /\ n < Len(s) THEN SubSeq(s, 1, n) ELSE s

SelectKeywords ==
  /\ stmt = 6
  /\ enginesOut' = Top(keywords, limit)
  /\ stmt' = 7
  /\ UNCHANGED <<open, rows, addrsOut, cardsOut>>
  /\ Quiet

WebStep == SelectAddresses \/ MergeRow \/ EndOfRows \/ SelectCards \/ SelectKeywords

WebNext == WebStep \/ Commit

(* The query runs in one thread, and SQLite waits for nobody here.         *)
WebSpec == WebInit /\ [][WebNext]_webVars /\ WF_webVars(WebStep)

-----------------------------------------------------------------------------
(* The properties.                                                         *)

(* FindOrCreate: there is one address of a guid, whatever the tables hold  *)
(* and however they change between the statements.                         *)
GuidsUnique == \A a, b \in addrsOut : a.guid = b.guid => a = b

(* What an address says is what its own rows say, or once said: no value   *)
(* of one guid gets into the address of another.                           *)
FieldsFromOwnRows == Values(addrsOut) \subseteq ever

(* A value that was read is not replaced by that of a later row or table.  *)
FirstValueStays ==
  [][\A a \in addrsOut, b \in addrsOut' : a.guid = b.guid =>
       \A f \in Fields : a.vals[f] # NoVal => b.vals[f] = a.vals[f]]_webVars

(* An address the browser only ever moves, from the table of one schema to *)
(* that of a later one, is reported, also when it moves in between.        *)
MigratedAddressIsKept ==
  stmt > 3 => \A w \in All(table) :
    w.guid \notin rewritten /\ IsUseful(w) => \E a \in addrsOut : a.guid = w.guid

(* A database nobody writes to: a field is that of the first table that    *)
(* has one, an address with a name, an email or a city is reported and one *)
(* without any field is not, and the cards and the most used engines are   *)
(* those of their tables.  Of an address with other fields alone, such as  *)
(* a street, nothing is said: line 321 calls the entries that are dropped  *)
(* those with "no useful fields", lines 323-325 drop it too.               *)
QuietMergeIsExact ==
  stmt = 7 /\ still =>
    LET Read(i) == IF i = 1 /\ ~streetColumn
                   THEN {[w EXCEPT !.vals[Street] = NoVal] : w \in table[1]} ELSE table[i]
        Has(i, g, f) == {w.vals[f] : w \in OfGuid(Read(i), g)} \ {NoVal}
        First(g, f) == IF Has(1, g, f) # {} THEN Has(1, g, f)
                       ELSE IF Has(2, g, f) # {} THEN Has(2, g, f) ELSE Has(3, g, f)
        reported == {a.guid : a \in addrsOut}
    IN  /\ {g \in Guids : \E f \in Useful : First(g, f) # {}} \subseteq reported
        /\ reported \subseteq {g \in Guids : \E f \in Fields : First(g, f) # {}}
        /\ \A a \in addrsOut, f \in Fields :
             IF First(a.guid, f) = {} THEN a.vals[f] = NoVal ELSE a.vals[f] \in First(a.guid, f)
        /\ cardsOut = (masked \X {"server"}) \cup (local \X {"local"})
        /\ \E n \in 0 .. Len(keywords) :
             /\ enginesOut = SubSeq(keywords, 1, n)
             /\ n < Len(keywords) => n = limit /\ n > 0
             /\ limit > 0 => n <= limit
=============================================================================
