-------------------------- MODULE FrameworkCatalog --------------------------
(***************************************************************************)
(* The catalogue of skill frameworks: the rows of frameworks, of their     *)
(* skills, of the skills' levels and of the attributes; the administrator's *)
(* requests that write one row (upsert_framework, ..._skill, ..._level,    *)
(* ..._attribute) and the bulk import of an Excel upload, over the two     *)
(* persistence adapters.                                                   *)
(*                                                                         *)
(* The four tables have one shape: a row belongs to a parent, has a key    *)
(* that is unique under its parent, and further columns.  A level also has *)
(* an embedding of its content, which the seed migration brings along and  *)
(* which a change of the content clears.                                   *)
(*                                                                         *)
(* Over Postgres an import is a sequence of statements that each commit on *)
(* their own: others interleave, and it may stop half way.  In memory it   *)
(* never yields, so that nothing happens in between and it never fails.    *)
(*                                                                         *)
(* Abstracted: a text stands for all columns of a row but its key, an      *)
(* embedding for the text it was computed from.  There is one framework.   *)
(* A payload is the set of the lines of an upload, each with its place in  *)
(* its list; nothing keeps two lines from having the same key.             *)
(***************************************************************************)
EXTENDS Integers, Sequences, FiniteSets

CONSTANTS
  Framework,   \* the (type, version) of the framework
  Codes,       \* skill codes
  Levels,      \* numbers of levels
  NoLevel,     \* the level NULL
  Attributes,  \* (attribute, level) pairs
  Texts,       \* what the other columns may hold
  NoText,      \* the embedding NULL
  Root,        \* the parent of frameworks
  Imports,     \* uploads; each is sent at most once
  Payloads,    \* what an upload may hold: sets of lines
  MaxWrites    \* bound: requests that write one row

Tables == {"framework", "skill", "level", "attribute"}

\* The order in which an import goes through the tables.
Rank(t) == CASE t = "framework" -> 1 [] t = "skill" -> 2 [] t = "level" -> 3 [] OTHER -> 4

Keys(t) ==
  CASE t = "framework" -> {Framework}
    [] t = "skill"     -> Codes
    [] t = "level"     -> Levels \union {NoLevel}
    [] OTHER           -> Attributes

Above(t) == CASE t = "framework" -> "none" [] t = "level" -> "skill" [] OTHER -> "framework"

\* Names of parents: an item says under which row it comes.
Parents == {Root, Framework} \union Codes

\* A line of an upload: its place in the list of its table and what it says.
Item == [place : Nat, table : Tables, under : Parents,
         key : UNION {Keys(t) : t \in Tables}, text : Texts]

\* The import comes to a before b.
Before(a, b) == \/ Rank(a.table) < Rank(b.table)
                \/ a.table = b.table /\ a.place < b.place

SameKey(a, b) == a.table = b.table /\ a.under = b.under /\ a.key = b.key

\* What route.ts makes of a workbook: one framework, and lists of skills and
\* attributes under it and of levels under codes with a number.
WellFormed(P) ==
  /\ IsFiniteSet(P)
  /\ \E f \in P : f.table = "framework"
  /\ \A it \in P :
       /\ it.key \in Keys(it.table) \ {NoLevel}
       /\ CASE it.table = "framework" -> it.under = Root /\ it.place = 1
            [] it.table = "level"     -> it.under \in Codes
            [] OTHER                  -> it.under = Framework
  /\ \A a, b \in P : a.table = b.table /\ a.place = b.place => a = b

ASSUME NamesAssumption == Root # Framework /\ {Root, Framework} \intersect Codes = {}
ASSUME NoTextAssumption == NoText \notin Texts
ASSUME PayloadsAssumption == Payloads \subseteq SUBSET Item
ASSUME WellFormedAssumption == \A P \in Payloads : WellFormed(P)
ASSUME MaxWritesAssumption == MaxWrites \in Nat

VARIABLES
  adapter,  \* the persistence main.py has chosen
  rows,     \* the rows of all tables in the order of their creation; its index is a row's id
  pc,       \* where each import is
  sent,     \* its payload
  todo,     \* the items it has not come to
  ids,      \* the ids it has learned: framework_id and skill_id_map, 0 for none
  stale,    \* levels_stale
  clean,    \* history: nobody else has written since it began
  writes    \* requests so far

vars == <<adapter, rows, pc, sent, todo, ids, stale, clean, writes>>
import == <<pc, sent, todo, ids, stale>>

Row == [table : Tables, of : Nat, key : UNION {Keys(t) : t \in Tables},
        born : UNION {Keys(t) : t \in Tables}, text : Texts, emb : Texts \union {NoText}]

NewRow(t, p, k, x, e) ==
  [table |-> t, of |-> p, key |-> k, born |-> k, text |-> x, emb |-> e]

\* The seed: a framework, a skill and a level that has its embedding.
Seed(c, l, x) ==
  << NewRow("framework", 0, Framework, x, NoText),
     NewRow("skill", 1, c, x, NoText),
     NewRow("level", 2, l, x, x) >>

Init ==
  /\ adapter \in {"postgres", "memory"}
  /\ \/ /\ adapter = "postgres"
        /\ \E c \in Codes, l \in Levels, x \in Texts : rows = Seed(c, l, x)
     \/ adapter = "memory" /\ rows = <<>>
  /\ pc = [r \in Imports |-> "none"]
  /\ sent = [r \in Imports |-> {}]
  /\ todo = [r \in Imports |-> {}]
  /\ ids = [r \in Imports |-> [p \in Parents |-> 0]]
  /\ stale = [r \in Imports |-> 0]
  /\ clean = [r \in Imports |-> FALSE]
  /\ writes = 0

TypeOK ==
  /\ adapter \in {"postgres", "memory"}
  /\ rows \in Seq(Row)
  /\ pc \in [Imports -> {"none", "running", "done", "failed"}]
  /\ sent \in [Imports -> SUBSET Item]
  /\ todo \in [Imports -> SUBSET Item]
  /\ ids \in [Imports -> [Parents -> Nat]]
  /\ stale \in [Imports -> Nat]
  /\ clean \in [Imports -> BOOLEAN]
  /\ writes \in 0..MaxWrites

-----------------------------------------------------------------------------
(* Statements.                                                             *)

\* The row that a key leads to.  Postgres goes by the unique constraint, which
\* NULL never meets; in memory the index still holds the key a row was
\* created with, whatever an edit has made of it.
Found(t, p, k) ==
  {i \in 1..Len(rows) :
     /\ rows[i].table = t /\ rows[i].of = p
     /\ \/ adapter = "postgres" /\ rows[i].key = k /\ k # NoLevel
        \/ adapter = "memory" /\ rows[i].born = k}

\* Mutant: an update by id leaves the embedding alone.
Rewritten_KeepsEmbedding(i, k, x) ==
  [rows EXCEPT ![i].key = k, ![i].text = x]

\* Mutant: the embedding is cleared whether or not the content has changed.
Rewritten_AlwaysClears(i, k, x) ==
  [rows EXCEPT ![i].key = k, ![i].text = x, ![i].emb = NoText]

\* The row with a new key and text; a changed content loses its embedding.
Rewritten(i, k, x) ==
  [rows EXCEPT ![i].key = k, ![i].text = x,
               ![i].emb = IF rows[i].text = x THEN @ ELSE NoText]

\* INSERT ... ON CONFLICT DO UPDATE; i is the id that it returns.
Upsert(t, p, k, x, i) ==
  \/ i \in Found(t, p, k) /\ rows' = Rewritten(i, rows[i].key, x)
  \/ /\ Found(t, p, k) = {}
     /\ i = Len(rows) + 1
     /\ rows' = Append(rows, NewRow(t, p, k, x, NoText))

\* Another request keeps out of an import in memory.
Undisturbed == adapter = "memory" => \A r \in Imports : pc[r] # "running"

\* One request that writes one row.
Write ==
  /\ Undisturbed
  /\ writes < MaxWrites
  /\ writes' = writes + 1
  /\ clean' = [r \in Imports |-> FALSE]
  /\ UNCHANGED <<adapter, import>>

\* The upsert methods, without an id.
Put(t, p, k, x) ==
  /\ \/ t = "framework" /\ p = 0
     \/ p \in 1..Len(rows) /\ rows[p].table = Above(t)
  /\ k \in Keys(t)
  /\ \E i \in 1..(Len(rows) + 1) : Upsert(t, p, k, x, i)
  /\ Write

\* The upsert methods, with the id of a row that the administrator was shown.
\* Postgres refuses a key that another row under the parent has.
Edit(i, k, x) ==
  /\ k \in Keys(rows[i].table)
  /\ \/ adapter = "memory"
     \/ Found(rows[i].table, rows[i].of, k) \subseteq {i}
  /\ rows' = Rewritten(i, k, x)
  /\ Write

-----------------------------------------------------------------------------
(* bulk_import_framework.                                                  *)

Begin(r, P) ==
  /\ pc[r] = "none"
  /\ Undisturbed
  /\ pc' = [pc EXCEPT ![r] = "running"]
  /\ sent' = [sent EXCEPT ![r] = P]
  /\ todo' = [todo EXCEPT ![r] = P]
  /\ clean' = [clean EXCEPT ![r] = TRUE]
  /\ UNCHANGED <<adapter, rows, ids, stale, writes>>

\* The import has come to this item.
ComesTo(r, it) ==
  /\ pc[r] = "running"
  /\ it \in todo[r]
  /\ \A other \in todo[r] \ {it} : Before(it, other)
  /\ todo' = [todo EXCEPT ![r] = @ \ {it}]

\* Mutant: a level counts as stale only when this import has cleared it.
Stored_CountsCleared(r, it) ==
  LET p == ids[r][it.under] IN
  /\ ComesTo(r, it)
  /\ it.table = "level" => p # 0
  /\ \E i \in 1..(Len(rows) + 1) :
       /\ Upsert(it.table, p, it.key, it.text, i)
       /\ ids' = [ids EXCEPT ![r] = IF it.table \in {"framework", "skill"}
                                    THEN [@ EXCEPT ![it.key] = i] ELSE @]
       /\ stale' = [stale EXCEPT ![r] =
            IF /\ adapter = "postgres" /\ it.table = "level"
               /\ i <= Len(rows) /\ rows[i].emb # NoText /\ rows'[i].emb = NoText
            THEN @ + 1 ELSE @]
  /\ clean' = [q \in Imports |-> clean[q] /\ q = r]
  /\ UNCHANGED <<adapter, pc, sent, writes>>

\* The statement for one item; the row it returns says whether it has an
\* embedding (the in-memory import reports none as stale).
Stored(r, it) ==
  LET p == ids[r][it.under] IN
  /\ ComesTo(r, it)
  /\ it.table = "level" => p # 0
  /\ \E i \in 1..(Len(rows) + 1) :
       /\ Upsert(it.table, p, it.key, it.text, i)
       /\ ids' = [ids EXCEPT ![r] = IF it.table \in {"framework", "skill"}
                                    THEN [@ EXCEPT ![it.key] = i] ELSE @]
       /\ stale' = [stale EXCEPT ![r] =
            IF adapter = "postgres" /\ it.table = "level" /\ rows'[i].emb = NoText
            THEN @ + 1 ELSE @]
  /\ clean' = [q \in Imports |-> clean[q] /\ q = r]
  /\ UNCHANGED <<adapter, pc, sent, writes>>

\* A level of a skill that is not in the upload is passed over.
Skipped(r, it) ==
  /\ ComesTo(r, it)
  /\ it.table = "level" /\ ids[r][it.under] = 0
  /\ UNCHANGED <<adapter, rows, pc, sent, ids, stale, clean, writes>>

Finish(r) ==
  /\ pc[r] = "running" /\ todo[r] = {}
  /\ pc' = [pc EXCEPT ![r] = "done"]
  /\ UNCHANGED <<adapter, rows, sent, todo, ids, stale, clean, writes>>

\* A statement fails, the client is gone or the service stops.
Fail(r) ==
  /\ adapter = "postgres"
  /\ pc[r] = "running"
  /\ pc' = [pc EXCEPT ![r] = "failed"]
  /\ UNCHANGED <<adapter, rows, sent, todo, ids, stale, clean, writes>>

Step(r) ==
  \/ \E P \in Payloads : Begin(r, P)
  \/ \E it \in todo[r] : Stored(r, it) \/ Skipped(r, it)
  \/ Finish(r) \/ Fail(r)

Next ==
  \/ \E r \in Imports : Step(r)
  \/ \E t \in Tables, p \in 0..Len(rows), x \in Texts : \E k \in Keys(t) : Put(t, p, k, x)
  \/ \E i \in 1..Len(rows), x \in Texts : \E k \in Keys(rows[i].table) : Edit(i, k, x)

Spec == Init /\ [][Next]_vars

-----------------------------------------------------------------------------
(* Properties.                                                             *)

\* The embedding of a level is the one of its content: whoever changes the
\* content, by key, by id or by upload, clears it in the same statement.
EmbeddingIsCurrent ==
  \A i \in 1..Len(rows) : rows[i].emb \in {NoText, rows[i].text}

\* "Levels whose content has not changed keep their existing embedding": no
\* step clears the embedding of a text that stays, and none deletes a row.
EmbeddingKept ==
  [][\A i \in 1..Len(rows) :
       /\ i <= Len(rows')
       /\ rows'[i].text = rows[i].text => rows'[i].emb = rows[i].emb]_vars

\* The rows that import r has left for the key of an item.
RowsOf(r, it) ==
  {i \in 1..Len(rows) :
     rows[i].table = it.table /\ rows[i].of = ids[r][it.under] /\ rows[i].key = it.key}

\* "Safe to re-run": an upload that was carried out with nobody else writing has
\* left one row for each key it holds, which says what the last of the lines with
\* that key says, whatever half done imports and edits it came upon.  As stale
\* it reports every level that it leaves without an embedding, and no other: as
\* often as once for each line about it.  In memory this is so while every row
\* has the key it was created with.
ImportLandsPayload ==
  \A r \in Imports :
    /\ pc[r] = "done" /\ clean[r]
    /\ adapter = "postgres" \/ \A i \in 1..Len(rows) : rows[i].key = rows[i].born
    => LET skills == {it.key : it \in {s \in sent[r] : s.table = "skill"}}
           landed == {it \in sent[r] : it.table = "level" => it.under \in skills}
           bare   == {it \in landed : /\ it.table = "level"
                                      /\ \E i \in RowsOf(r, it) : rows[i].emb = NoText}
       IN  /\ \A it \in landed :
                (\A other \in landed : SameKey(it, other) => other.place <= it.place)
                  => \E i \in 1..Len(rows) : RowsOf(r, it) = {i} /\ rows[i].text = it.text
           /\ adapter = "postgres" =>
                /\ Cardinality(UNION {RowsOf(r, it) : it \in bare}) <= stale[r]
                /\ stale[r] <= Cardinality(bare)
=============================================================================
