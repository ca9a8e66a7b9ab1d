----------------------- MODULE FrameworkCatalogProofs -----------------------
(***************************************************************************)
(* Theorems about the catalogue of frameworks, for every set of codes,     *)
(* texts, uploads and payloads.                                            *)
(*                                                                         *)
(* Every write of the rows is one of two: a row is rewritten, or a row is  *)
(* appended that has no embedding (Writes).  What is proved about          *)
(* embeddings follows from these two, whichever request it is.             *)
(*                                                                         *)
(* That an upload lands is an invariant of its loop (ImportInv): a key has *)
(* one row under its parent, an import has been through its lines in their *)
(* order, and, while nobody else has written, the ids it has learned are   *)
(* those of its rows, the last line it has been through of each key is in  *)
(* the row, and its count lies between that of the levels it has left      *)
(* without an embedding and that of the lines about them.                  *)
(***************************************************************************)
EXTENDS FrameworkCatalog, FiniteSetTheorems, TLAPS

USE NoTextAssumption, PayloadsAssumption, MaxWritesAssumption

AllKeys == UNION {Keys(t) : t \in Tables}

\* The two ways in which the rows change.
Rewrites == \E i \in 1..Len(rows), k \in AllKeys, x \in Texts : rows' = Rewritten(i, k, x)

Appends ==
  \E t \in Tables, p \in Nat, k \in AllKeys, x \in Texts :
    rows' = Append(rows, NewRow(t, p, k, x, NoText))

Writes == Rewrites \/ Appends

-----------------------------------------------------------------------------
(* Types.                                                                  *)

LEMMA KeyOfTable == ASSUME NEW t \in Tables, NEW k \in Keys(t) PROVE k \in AllKeys
BY DEF AllKeys

LEMMA NewRowType ==
  ASSUME NEW t \in Tables, NEW p \in Nat, NEW k \in AllKeys, NEW x \in Texts,
         NEW e \in Texts \union {NoText}
  PROVE  NewRow(t, p, k, x, e) \in Row
BY DEF NewRow, Row, AllKeys

\* A row that is rewritten, field by field.
LEMMA RewrittenRow ==
  ASSUME rows \in Seq(Row), NEW i \in 1..Len(rows), NEW k \in AllKeys, NEW x \in Texts
  PROVE  /\ Rewritten(i, k, x) \in Seq(Row)
         /\ Len(Rewritten(i, k, x)) = Len(rows)
         /\ \A j \in 1..Len(rows) \ {i} : Rewritten(i, k, x)[j] = rows[j]
         /\ Rewritten(i, k, x)[i].table = rows[i].table
         /\ Rewritten(i, k, x)[i].of = rows[i].of
         /\ Rewritten(i, k, x)[i].born = rows[i].born
         /\ Rewritten(i, k, x)[i].key = k
         /\ Rewritten(i, k, x)[i].text = x
         /\ Rewritten(i, k, x)[i].emb = IF rows[i].text = x THEN rows[i].emb ELSE NoText
<1> DEFINE new == [rows[i] EXCEPT !.key = k, !.text = x,
                                  !.emb = IF rows[i].text = x THEN @ ELSE NoText]
<1>1. rows[i] \in Row
  OBVIOUS
<1>2. /\ new \in Row
      /\ new.table = rows[i].table /\ new.of = rows[i].of /\ new.born = rows[i].born
      /\ new.key = k /\ new.text = x
      /\ new.emb = IF rows[i].text = x THEN rows[i].emb ELSE NoText
  BY <1>1 DEF Row, AllKeys
<1>3. Rewritten(i, k, x) = [rows EXCEPT ![i] = new]
  BY <1>1 DEF Rewritten, Row
<1> HIDE DEF new
<1>4. QED BY <1>2, <1>3

LEMMA UpsertWrites ==
  ASSUME NEW t \in Tables, NEW p \in Nat, NEW k \in AllKeys, NEW x \in Texts,
         rows \in Seq(Row), NEW i, Upsert(t, p, k, x, i)
  PROVE  Writes
<1>1. CASE i \in Found(t, p, k) /\ rows' = Rewritten(i, rows[i].key, x)
  <2>1. i \in 1..Len(rows)
    BY <1>1 DEF Found
  <2>2. rows[i] \in Row
    BY <2>1
  <2>3. rows[i].key \in AllKeys
    BY <2>2 DEF Row, AllKeys
  <2>4. QED BY <1>1, <2>1, <2>3 DEF Writes, Rewrites
<1>2. CASE rows' = Append(rows, NewRow(t, p, k, x, NoText))
  BY <1>2 DEF Writes, Appends
<1>3. QED BY <1>1, <1>2 DEF Upsert

\* Whatever is done, the rows stay or change in one of the two ways.
LEMMA NextWrites == ASSUME TypeOK, [Next]_vars PROVE rows' = rows \/ Writes
<1>0. rows \in Seq(Row) /\ Len(rows) \in Nat
  BY DEF TypeOK
<1>1. ASSUME NEW r \in Imports, Step(r) PROVE rows' = rows \/ Writes
  <2>1. CASE \E it \in todo[r] : Stored(r, it)
    <3>1. PICK it \in todo[r] : Stored(r, it)
      BY <2>1
    <3>2. /\ it \in Item /\ ids[r][it.under] \in Nat
          /\ it.table \in Tables /\ it.key \in AllKeys /\ it.text \in Texts
      BY DEF TypeOK, Item, AllKeys
    <3>3. \E i : Upsert(it.table, ids[r][it.under], it.key, it.text, i)
      BY <3>1 DEF Stored
    <3>4. QED BY <1>0, <3>2, <3>3, UpsertWrites
  <2>2. CASE ~\E it \in todo[r] : Stored(r, it)
    BY <1>1, <2>2 DEF Step, Begin, Skipped, Finish, Fail
  <2>3. QED BY <2>1, <2>2
<1>2. ASSUME NEW t \in Tables, NEW p \in 0..Len(rows), NEW x \in Texts, NEW k \in Keys(t),
             Put(t, p, k, x)
      PROVE  Writes
  <2>1. k \in AllKeys /\ p \in Nat
    BY <1>0, KeyOfTable
  <2>2. \E i : Upsert(t, p, k, x, i)
    BY <1>2 DEF Put
  <2>3. QED BY <1>0, <2>1, <2>2, UpsertWrites
<1>3. ASSUME NEW i \in 1..Len(rows), NEW x \in Texts, NEW k \in Keys(rows[i].table),
             Edit(i, k, x)
      PROVE  Writes
  <2>1. rows[i].table \in Tables
    <3>1. rows[i] \in Row
      BY <1>0
    <3>2. QED BY <3>1 DEF Row
  <2>2. k \in AllKeys
    BY <2>1, KeyOfTable
  <2>3. QED BY <1>3, <2>2 DEF Edit, Writes, Rewrites
<1>4. CASE UNCHANGED vars
  BY <1>4 DEF vars
<1>5. QED BY <1>1, <1>2, <1>3, <1>4 DEF Next

LEMMA WritesType == ASSUME rows \in Seq(Row), Writes PROVE rows' \in Seq(Row)
<1>1. CASE Rewrites
  BY <1>1, RewrittenRow DEF Rewrites
<1>2. CASE Appends
  <2>1. \E new \in Row : rows' = Append(rows, new)
    BY <1>2, NewRowType DEF Appends
  <2>2. QED BY <2>1
<1>3. QED BY <1>1, <1>2 DEF Writes

LEMMA StepType ==
  ASSUME TypeOK, NEW r \in Imports, Step(r), rows' \in Seq(Row) PROVE TypeOK'
<1>1. CASE \E P \in Payloads : Begin(r, P)
  <2>1. PICK P \in Payloads : Begin(r, P)
    BY <1>1
  <2>2. P \in SUBSET Item
    OBVIOUS
  <2>3. QED BY <2>1, <2>2 DEF Begin, TypeOK
<1>2. CASE \E it \in todo[r] : Stored(r, it)
  <2>1. PICK it \in todo[r] : Stored(r, it)
    BY <1>2
  <2>2. it \in Item
    BY DEF TypeOK
  <2>3. ids' \in [Imports -> [Parents -> Nat]]
    <3>1. PICK i \in 1..(Len(rows) + 1) :
            ids' = [ids EXCEPT ![r] = IF it.table \in {"framework", "skill"}
                                      THEN [@ EXCEPT ![it.key] = i] ELSE @]
      BY <2>1 DEF Stored
    <3>2. i \in Nat
      BY DEF TypeOK
    <3>3. ids[r] \in [Parents -> Nat] /\ [ids[r] EXCEPT ![it.key] = i] \in [Parents -> Nat]
      BY <3>2 DEF TypeOK
    <3>4. QED BY <3>1, <3>3 DEF TypeOK
  <2>4. stale' \in [Imports -> Nat]
    <3>1. \E b \in BOOLEAN : stale' = [stale EXCEPT ![r] = IF b THEN @ + 1 ELSE @]
      BY <2>1 DEF Stored
    <3>2. stale[r] \in Nat
      BY DEF TypeOK
    <3>3. QED BY <3>1, <3>2 DEF TypeOK
  <2>5. todo' \in [Imports -> SUBSET Item]
    BY <2>1 DEF Stored, ComesTo, TypeOK
  <2>6. clean' \in [Imports -> BOOLEAN]
    BY <2>1 DEF Stored, TypeOK
  <2>7. UNCHANGED <<adapter, pc, sent, writes>>
    BY <2>1 DEF Stored
  <2>8. QED BY <2>3, <2>4, <2>5, <2>6, <2>7 DEF TypeOK
<1>3. CASE \E it \in todo[r] : Skipped(r, it)
  BY <1>3 DEF Skipped, ComesTo, TypeOK
<1>4. CASE Finish(r) \/ Fail(r)
  BY <1>4 DEF Finish, Fail, TypeOK
<1>5. QED BY <1>1, <1>2, <1>3, <1>4 DEF Step

LEMMA TypeStep == ASSUME TypeOK, [Next]_vars PROVE TypeOK'
<1>1. rows' \in Seq(Row)
  BY NextWrites, WritesType DEF TypeOK
<1>2. ASSUME Write PROVE TypeOK'
  BY <1>1, <1>2 DEF Write, import, TypeOK
<1>3. CASE \E r \in Imports : Step(r)
  BY <1>1, <1>3, StepType
<1>4. CASE UNCHANGED vars
  BY <1>4 DEF vars, TypeOK
<1>5. QED BY <1>2, <1>3, <1>4 DEF Next, Put, Edit

LEMMA InitType == Init => TypeOK
<1> SUFFICES ASSUME Init PROVE TypeOK
  OBVIOUS
<1>1. rows \in Seq(Row)
  <2>1. ASSUME NEW c \in Codes, NEW l \in Levels, NEW x \in Texts PROVE Seed(c, l, x) \in Seq(Row)
    <3>1. Framework \in AllKeys /\ c \in AllKeys /\ l \in AllKeys
      BY DEF AllKeys, Keys, Tables
    <3>2. /\ NewRow("framework", 0, Framework, x, NoText) \in Row
          /\ NewRow("skill", 1, c, x, NoText) \in Row
          /\ NewRow("level", 2, l, x, x) \in Row
      BY <3>1, NewRowType DEF Tables
    <3>3. QED BY <3>2 DEF Seed
  <2>2. CASE rows = <<>>
    BY <2>2
  <2>3. QED BY <2>1, <2>2 DEF Init
<1>2. QED BY <1>1 DEF Init, TypeOK

THEOREM TypeCorrect == Spec => []TypeOK
BY InitType, TypeStep, PTL DEF Spec

-----------------------------------------------------------------------------
(* Embeddings.                                                             *)

\* What a write does to the row with a given id.
LEMMA WritesRow ==
  ASSUME rows \in Seq(Row), Writes, NEW j \in 1..Len(rows)
  PROVE  /\ Len(rows) <= Len(rows')
         /\ \/ rows'[j] = rows[j]
            \/ rows'[j].emb = IF rows[j].text = rows'[j].text THEN rows[j].emb ELSE NoText
<1>1. CASE Rewrites
  BY <1>1, RewrittenRow DEF Rewrites
<1>2. CASE Appends
  <2>1. \E new \in Row : rows' = Append(rows, new)
    BY <1>2, NewRowType DEF Appends
  <2>2. QED BY <2>1
<1>3. QED BY <1>1, <1>2 DEF Writes

LEMMA EmbeddingStep ==
  ASSUME TypeOK, EmbeddingIsCurrent, [Next]_vars PROVE EmbeddingIsCurrent'
<1>1. CASE rows' = rows
  BY <1>1 DEF EmbeddingIsCurrent
<1>2. CASE Writes
  <2>1. ASSUME NEW j \in 1..Len(rows) PROVE rows'[j].emb \in {NoText, rows'[j].text}
    BY <1>2, WritesRow DEF EmbeddingIsCurrent, TypeOK
  <2>2. ASSUME NEW j \in 1..Len(rows'), j \notin 1..Len(rows) PROVE rows'[j].emb = NoText
    <3>1. CASE Rewrites
      BY <2>2, <3>1, RewrittenRow DEF Rewrites, TypeOK
    <3>2. CASE Appends
      <4>1. PICK new : rows' = Append(rows, new) /\ new.emb = NoText
        BY <3>2 DEF Appends, NewRow
      <4>2. rows \in Seq(Row)
        BY DEF TypeOK
      <4>3. QED BY <2>2, <4>1, <4>2
    <3>3. QED BY <1>2, <3>1, <3>2 DEF Writes
  <2>3. QED BY <2>1, <2>2 DEF EmbeddingIsCurrent
<1>3. QED BY <1>1, <1>2, NextWrites

\* No level ever has the embedding of another text.
THEOREM EmbeddingsCorrect == Spec => []EmbeddingIsCurrent
<1>1. Init => EmbeddingIsCurrent
  <2> SUFFICES ASSUME Init, NEW i \in 1..Len(rows) PROVE rows[i].emb \in {NoText, rows[i].text}
    BY DEF EmbeddingIsCurrent
  <2>1. CASE rows = <<>>
    BY <2>1
  <2>2. CASE \E c \in Codes, l \in Levels, x \in Texts : rows = Seed(c, l, x)
    BY <2>2 DEF Seed, NewRow
  <2>3. QED BY <2>1, <2>2 DEF Init
<1>2. QED BY <1>1, InitType, TypeStep, EmbeddingStep, PTL DEF Spec

\* An embedding is lost only with the text it belongs to.
THEOREM EmbeddingsKept == Spec => EmbeddingKept
<1>1. ASSUME TypeOK, [Next]_vars
      PROVE  [\A i \in 1..Len(rows) :
                /\ i <= Len(rows')
                /\ rows'[i].text = rows[i].text => rows'[i].emb = rows[i].emb]_vars
  <2>1. ASSUME NEW i \in 1..Len(rows), Writes
        PROVE  i <= Len(rows') /\ (rows'[i].text = rows[i].text => rows'[i].emb = rows[i].emb)
    <3>1. rows \in Seq(Row) /\ rows' \in Seq(Row)
      BY <1>1, <2>1, WritesType DEF TypeOK
    <3>2. QED BY <2>1, <3>1, WritesRow
  <2>2. CASE rows' = rows
    <3>1. rows \in Seq(Row)
      BY <1>1 DEF TypeOK
    <3>2. QED BY <2>2, <3>1
  <2>3. QED BY <1>1, <2>1, <2>2, NextWrites
<1>2. QED BY <1>1, TypeCorrect, PTL DEF Spec, EmbeddingKept

-----------------------------------------------------------------------------
(* Uploads.                                                                *)

\* The key a row is found by: the present one over Postgres, in memory the one
\* it was created with.
KeyOf(i) == IF adapter = "postgres" THEN rows[i].key ELSE rows[i].born

\* A parent has one row for a key.
RowsUnique ==
  \A i, j \in 1..Len(rows) :
    /\ rows[i].table = rows[j].table /\ rows[i].of = rows[j].of
    /\ KeyOf(i) = KeyOf(j) /\ KeyOf(i) # NoLevel
    => i = j

\* The items an import has been through.
Past(r) == sent[r] \ todo[r]

\* Whether an item is stored or passed over.
Lands(r, it) == it.table = "level" => ids[r][it.under] # 0

\* The rows an item stands for.
Home(r, it) ==
  {i \in 1..Len(rows) :
     rows[i].table = it.table /\ rows[i].of = ids[r][it.under] /\ KeyOf(i) = it.key}

\* Tables whose rows are parents.
IsParent(it) == it.table \in {"framework", "skill"}

\* How far import r is: it goes through its upload line by line, and has ids of nothing but what it has been through.
Cursor(r) ==
  /\ IF pc[r] = "none" THEN sent[r] = {} /\ stale[r] = 0 ELSE sent[r] \in Payloads
  /\ todo[r] \subseteq sent[r]
  /\ pc[r] = "done" => todo[r] = {}
  /\ \A a \in Past(r), b \in todo[r] : Before(a, b)
  /\ \A p \in Parents : ids[r][p] # 0 => \E a \in Past(r) : IsParent(a) /\ a.key = p

\* Nobody else has written since import r began.
Alone(r) == pc[r] \in {"running", "done"} /\ clean[r]

\* The ids it has learned are those of the rows.
IdsLead(r) == \A a \in Past(r) : IsParent(a) => ids[r][a.key] \in Home(r, a)

\* No later line it has been through has the key.
LastSoFar(r, a) == \A b \in Past(r) : SameKey(a, b) => b.place <= a.place

\* What it has been through is there.
PastLanded(r) ==
  \A a \in Past(r) : Lands(r, a) =>
    /\ Home(r, a) # {}
    /\ LastSoFar(r, a) => \A i \in Home(r, a) : rows[i].text = a.text

\* The lines about levels it has left without an embedding, and their rows.
Bare(r) ==
  {a \in Past(r) : /\ a.table = "level" /\ Lands(r, a)
                   /\ \E i \in Home(r, a) : rows[i].emb = NoText}
BareRows(r) ==
  {i \in 1..Len(rows) :
     /\ rows[i].emb = NoText
     /\ \E a \in Past(r) : a.table = "level" /\ Lands(r, a) /\ i \in Home(r, a)}

Counted(r) ==
  adapter = "postgres" =>
    /\ Cardinality(BareRows(r)) <= stale[r]
    /\ stale[r] <= Cardinality(Bare(r))

Landing(r) == IdsLead(r) /\ PastLanded(r) /\ Counted(r)

ImportInv ==
  /\ TypeOK /\ RowsUnique
  /\ \A r \in Imports : Cursor(r) /\ (Alone(r) => Landing(r))

\* What WellFormed says of one item.
LEMMA ItemFacts ==
  ASSUME TypeOK, NEW r \in Imports, Cursor(r), NEW a \in sent[r]
  PROVE  /\ a \in Item /\ a.table \in Tables /\ a.under \in Parents /\ a.text \in Texts
         /\ a.key \in AllKeys /\ a.key # NoLevel
         /\ a.place \in Nat
         /\ a.table = "framework" => a.under = Root /\ a.key = Framework
         /\ a.table = "skill" => a.under = Framework /\ a.key \in Codes
         /\ a.table = "level" => a.under \in Codes
         /\ a.table = "attribute" => a.under = Framework
         /\ IsParent(a) => a.key \in Parents
<1>1. sent[r] \in Payloads
  BY DEF Cursor
<1>2. a \in Item
  BY DEF TypeOK
<1>3. WellFormed(sent[r])
  BY <1>1, WellFormedAssumption
<1>4. a.key \in Keys(a.table) \ {NoLevel}
  BY <1>3 DEF WellFormed
<1>5. CASE a.table = "framework"
  BY <1>2, <1>3, <1>4, <1>5 DEF WellFormed, Keys, Item, AllKeys, IsParent, Parents
<1>6. CASE a.table = "skill"
  BY <1>2, <1>3, <1>4, <1>6 DEF WellFormed, Keys, Item, AllKeys, IsParent, Parents
<1>7. CASE a.table = "level"
  BY <1>2, <1>3, <1>4, <1>7 DEF WellFormed, Item, AllKeys, IsParent
<1>8. CASE a.table = "attribute"
  BY <1>2, <1>3, <1>4, <1>8 DEF WellFormed, Item, AllKeys, IsParent
<1>9. QED BY <1>2, <1>5, <1>6, <1>7, <1>8 DEF Item, Tables

\* The statement of one item or request, row by row.
LEMMA UpsertRows ==
  ASSUME TypeOK, adapter' = adapter,
         NEW t \in Tables, NEW p \in Nat, NEW k \in AllKeys, NEW x \in Texts,
         NEW i, Upsert(t, p, k, x, i)
  PROVE  /\ Len(rows) \in Nat /\ Len(rows') \in Nat /\ Len(rows) <= Len(rows')
         /\ i \in 1..Len(rows')
         /\ rows'[i].table = t /\ rows'[i].of = p /\ rows'[i].text = x
         /\ k # NoLevel => KeyOf(i)' = k
         /\ \A j \in 1..Len(rows) : /\ rows'[j].table = rows[j].table /\ rows'[j].of = rows[j].of
                                    /\ KeyOf(j)' = KeyOf(j)
                                    /\ j # i => rows'[j] = rows[j]
         /\ \A j \in 1..Len(rows') :
              j \notin 1..Len(rows) =>
                /\ j = i /\ KeyOf(j)' = k
                /\ k # NoLevel => \A h \in 1..Len(rows) :
                     rows[h].table = t /\ rows[h].of = p => KeyOf(h) # k
<1>0. rows \in Seq(Row) /\ Len(rows) \in Nat /\ adapter \in {"postgres", "memory"}
  BY DEF TypeOK
<1>1. CASE i \in Found(t, p, k) /\ rows' = Rewritten(i, rows[i].key, x)
  <2>1. i \in 1..Len(rows) /\ rows[i] \in Row
    BY <1>0, <1>1 DEF Found
  <2>2. rows[i].key \in AllKeys
    BY <2>1 DEF Row, AllKeys
  <2>3. /\ Len(rows') = Len(rows)
        /\ \A j \in 1..Len(rows) \ {i} : rows'[j] = rows[j]
        /\ rows'[i].table = rows[i].table /\ rows'[i].of = rows[i].of
        /\ rows'[i].born = rows[i].born /\ rows'[i].key = rows[i].key
        /\ rows'[i].text = x
    BY <1>0, <1>1, <2>1, <2>2, RewrittenRow
  <2>4. rows[i].table = t /\ rows[i].of = p /\ KeyOf(i) = k
    BY <1>0, <1>1 DEF Found, KeyOf
  <2>5. \A j \in 1..Len(rows) : KeyOf(j)' = KeyOf(j)
    BY <2>3 DEF KeyOf
  <2>6. QED BY <1>0, <2>1, <2>3, <2>4, <2>5
<1>2. CASE /\ Found(t, p, k) = {}
           /\ i = Len(rows) + 1
           /\ rows' = Append(rows, NewRow(t, p, k, x, NoText))
  <2>1. NewRow(t, p, k, x, NoText) \in Row
    BY NewRowType
  <2>2. /\ Len(rows') = Len(rows) + 1
        /\ \A j \in 1..Len(rows) : rows'[j] = rows[j]
        /\ rows'[i] = NewRow(t, p, k, x, NoText)
    BY <1>0, <1>2, <2>1
  <2>3. /\ rows'[i].table = t /\ rows'[i].of = p /\ rows'[i].text = x
        /\ rows'[i].key = k /\ rows'[i].born = k
    BY <2>2 DEF NewRow
  <2>4. KeyOf(i)' = k
    BY <2>3 DEF KeyOf
  <2>5. \A j \in 1..Len(rows) : KeyOf(j)' = KeyOf(j)
    BY <2>2 DEF KeyOf
  <2>6. ASSUME k # NoLevel, NEW h \in 1..Len(rows), rows[h].table = t, rows[h].of = p
        PROVE  KeyOf(h) # k
    BY <1>0, <1>2, <2>6 DEF Found, KeyOf
  <2>7. QED BY <1>0, <1>2, <2>2, <2>3, <2>4, <2>5, <2>6
<1>3. QED BY <1>1, <1>2 DEF Upsert

\* A parent keeps one row for a key, whoever writes.
LEMMA UniqueUnderUpsert ==
  ASSUME TypeOK, RowsUnique, adapter' = adapter,
         NEW t \in Tables, NEW p \in Nat, NEW k \in AllKeys, NEW x \in Texts,
         NEW i, Upsert(t, p, k, x, i)
  PROVE  RowsUnique'
<1> SUFFICES ASSUME NEW j \in 1..Len(rows'), NEW h \in 1..Len(rows'),
                    rows'[j].table = rows'[h].table, rows'[j].of = rows'[h].of,
                    KeyOf(j)' = KeyOf(h)', KeyOf(j)' # NoLevel
             PROVE  j = h
  BY DEF RowsUnique
<1>1. CASE j \in 1..Len(rows) /\ h \in 1..Len(rows)
  BY <1>1, UpsertRows DEF RowsUnique
<1>2. CASE j \notin 1..Len(rows) /\ h \notin 1..Len(rows)
  BY <1>2, UpsertRows
<1>3. ASSUME NEW new \in 1..Len(rows'), new \notin 1..Len(rows), NEW old \in 1..Len(rows),
             rows'[new].table = rows'[old].table, rows'[new].of = rows'[old].of,
             KeyOf(new)' = KeyOf(old)', KeyOf(new)' # NoLevel
      PROVE  FALSE
  <2>1. new = i /\ KeyOf(new)' = k /\ rows'[i].table = t /\ rows'[i].of = p
    BY <1>3, UpsertRows
  <2>2. rows[old].table = t /\ rows[old].of = p /\ KeyOf(old) = k
    BY <1>3, <2>1, UpsertRows
  <2>3. QED BY <1>3, <2>1, <2>2, UpsertRows
<1>4. QED BY <1>1, <1>2, <1>3

LEMMA UniqueUnderEdit ==
  ASSUME TypeOK, RowsUnique, NEW i \in 1..Len(rows), NEW x \in Texts,
         NEW k \in Keys(rows[i].table), Edit(i, k, x)
  PROVE  RowsUnique'
<1>0. /\ rows \in Seq(Row) /\ Len(rows) \in Nat /\ adapter \in {"postgres", "memory"}
      /\ adapter' = adapter
  BY DEF TypeOK, Edit, Write
<1>1. k \in AllKeys
  <2>1. rows[i] \in Row
    BY <1>0
  <2>2. rows[i].table \in Tables
    BY <2>1 DEF Row
  <2>3. QED BY <2>2, KeyOfTable
<1>2. /\ Len(rows') = Len(rows)
      /\ \A j \in 1..Len(rows) \ {i} : rows'[j] = rows[j]
      /\ rows'[i].table = rows[i].table /\ rows'[i].of = rows[i].of
      /\ rows'[i].born = rows[i].born /\ rows'[i].key = k
  BY <1>0, <1>1, RewrittenRow DEF Edit
<1>3. /\ \A j \in 1..Len(rows) : rows'[j].table = rows[j].table /\ rows'[j].of = rows[j].of
      /\ \A j \in 1..Len(rows) : j # i => KeyOf(j)' = KeyOf(j)
  BY <1>0, <1>2 DEF KeyOf
<1>4. CASE adapter = "memory"
  <2>1. \A j \in 1..Len(rows) : KeyOf(j)' = KeyOf(j)
    BY <1>0, <1>2, <1>4 DEF KeyOf
  <2>2. QED BY <1>2, <1>3, <2>1 DEF RowsUnique
<1>5. CASE adapter = "postgres"
  <2>1. \A j \in 1..Len(rows) : KeyOf(j) = rows[j].key
    BY <1>5 DEF KeyOf
  <2>2. KeyOf(i)' = k
    BY <1>0, <1>2, <1>5 DEF KeyOf
  <2>3. ASSUME NEW j \in 1..Len(rows), rows[j].table = rows[i].table, rows[j].of = rows[i].of,
               KeyOf(j) = k, k # NoLevel
        PROVE  j = i
    <3>1. Found(rows[i].table, rows[i].of, k) \subseteq {i}
      BY <1>5 DEF Edit
    <3>2. QED BY <1>5, <2>1, <2>3, <3>1 DEF Found
  <2>4. ASSUME NEW j \in 1..Len(rows), NEW h \in 1..Len(rows),
               rows'[j].table = rows'[h].table, rows'[j].of = rows'[h].of,
               KeyOf(j)' = KeyOf(h)', KeyOf(j)' # NoLevel
        PROVE  j = h
    BY <1>3, <2>2, <2>3, <2>4 DEF RowsUnique
  <2>5. QED BY <1>2, <2>4 DEF RowsUnique
<1>6. QED BY <1>0, <1>4, <1>5

LEMMA UniqueStep ==
  ASSUME TypeOK, RowsUnique, [Next]_vars PROVE RowsUnique'
<1>1. CASE rows' = rows /\ adapter' = adapter
  BY <1>1 DEF RowsUnique, KeyOf
<1>2. ASSUME NEW r \in Imports, NEW it \in todo[r], Stored(r, it) PROVE RowsUnique'
  <2>1. /\ it.table \in Tables /\ it.key \in AllKeys /\ it.text \in Texts
        /\ ids[r][it.under] \in Nat
    BY DEF TypeOK, Item, AllKeys
  <2>2. adapter' = adapter /\ \E i : Upsert(it.table, ids[r][it.under], it.key, it.text, i)
    BY <1>2 DEF Stored
  <2>3. QED BY <2>1, <2>2, UniqueUnderUpsert
<1>3. ASSUME NEW r \in Imports, Step(r) PROVE RowsUnique'
  BY <1>1, <1>2, <1>3 DEF Step, Begin, Skipped, Finish, Fail
<1>4. ASSUME NEW t \in Tables, NEW p \in 0..Len(rows), NEW x \in Texts, NEW k \in Keys(t),
             Put(t, p, k, x)
      PROVE  RowsUnique'
  <2>1. k \in AllKeys /\ p \in Nat
    BY KeyOfTable DEF TypeOK
  <2>2. adapter' = adapter /\ \E i : Upsert(t, p, k, x, i)
    BY <1>4 DEF Put, Write
  <2>3. QED BY <2>1, <2>2, UniqueUnderUpsert
<1>5. CASE UNCHANGED vars
  BY <1>1, <1>5 DEF vars
<1>6. QED BY <1>3, <1>4, <1>5, UniqueUnderEdit DEF Next

-----------------------------------------------------------------------------
(* One import, step by step.                                               *)

\* An import that does nothing, or only ends, leaves its cursor.
LEMMA CursorStays ==
  ASSUME NEW r \in Imports, Cursor(r),
         UNCHANGED <<sent[r], todo[r], ids[r], stale[r]>>,
         \/ pc'[r] = pc[r]
         \/ pc[r] # "none" /\ pc'[r] # "none" /\ (pc'[r] = "done" => todo[r] = {})
  PROVE  Cursor(r)'
BY DEF Cursor, Past

LEMMA CursorOfBegin ==
  ASSUME TypeOK, NEW r \in Imports, NEW P \in Payloads, Begin(r, P), Cursor(r)
  PROVE  Cursor(r)'
<1>1. /\ pc'[r] = "running" /\ sent'[r] = P /\ todo'[r] = P /\ ids'[r] = ids[r]
      /\ pc[r] = "none"
  BY DEF Begin, TypeOK
<1>2. \A p \in Parents : ids[r][p] = 0
  BY <1>1 DEF Cursor, Past
<1>3. QED BY <1>1, <1>2 DEF Cursor, Past

\* What is left after an item has been come to.
LEMMA ComingTo ==
  ASSUME TypeOK, NEW r \in Imports, NEW it \in todo[r], ComesTo(r, it), Cursor(r),
         UNCHANGED <<pc, sent>>
  PROVE  /\ pc[r] = "running" /\ pc'[r] = "running" /\ it \in sent[r] /\ it \notin Past(r)
         /\ sent'[r] = sent[r] /\ todo'[r] = todo[r] \ {it}
         /\ Past(r)' = Past(r) \union {it}
         /\ todo'[r] \subseteq sent'[r]
         /\ \A a \in Past(r)', b \in todo'[r] : Before(a, b)
         /\ \A a \in Past(r) : Before(a, it)
<1>1. todo'[r] = todo[r] \ {it}
  BY DEF ComesTo, TypeOK
<1>2. it \in sent[r] /\ it \notin Past(r) /\ Past(r)' = Past(r) \union {it}
  BY <1>1 DEF Past, Cursor
<1>3. QED BY <1>1, <1>2 DEF ComesTo, Cursor

\* An id, once learned, leads to a row with the key it was learned for.
LEMMA IdHasKey ==
  ASSUME TypeOK, NEW r \in Imports, Cursor(r), IdsLead(r), NEW p \in Parents, ids[r][p] # 0
  PROVE  KeyOf(ids[r][p]) = p
<1>1. PICK a \in Past(r) : IsParent(a) /\ a.key = p
  BY DEF Cursor
<1>2. ids[r][p] \in Home(r, a)
  BY <1>1 DEF IdsLead
<1>3. QED BY <1>1, <1>2 DEF Home

\* Lines that lead to one row have one key.
LEMMA HomesApart ==
  ASSUME TypeOK, NEW r \in Imports, Cursor(r), IdsLead(r),
         NEW a \in sent[r], NEW b \in sent[r], Lands(r, a), Lands(r, b),
         a.table = b.table, a.key = b.key, ids[r][a.under] = ids[r][b.under]
  PROVE  SameKey(a, b)
<1>1. CASE a.table = "level"
  <2>1. ids[r][a.under] # 0 /\ ids[r][b.under] # 0
    BY <1>1 DEF Lands
  <2>2. a.under \in Parents /\ b.under \in Parents
    BY ItemFacts
  <2>3. QED BY <2>1, <2>2, IdHasKey DEF SameKey
<1>2. CASE a.table # "level"
  BY <1>2, ItemFacts DEF Tables, SameKey
<1>3. QED BY <1>1, <1>2

\* What the statement of one item does to the import's own books.
LEMMA StoredBooks ==
  ASSUME TypeOK, NEW r \in Imports, NEW it \in todo[r], Stored(r, it), Cursor(r)
  PROVE  \E i \in 1..(Len(rows) + 1) :
           /\ Upsert(it.table, ids[r][it.under], it.key, it.text, i)
           /\ ids'[r] = IF IsParent(it) THEN [ids[r] EXCEPT ![it.key] = i] ELSE ids[r]
           /\ stale'[r] = IF adapter = "postgres" /\ it.table = "level" /\ rows'[i].emb = NoText
                          THEN stale[r] + 1 ELSE stale[r]
BY DEF Stored, TypeOK, IsParent

\* Later items change no id that an item already stored goes by.
LEMMA IdsSettled ==
  ASSUME TypeOK, NEW r \in Imports, NEW it \in todo[r], Stored(r, it), Cursor(r)
  PROVE  \A a \in Past(r) \union {it} : ids'[r][a.under] = ids[r][a.under]
<1>1. PICK i : ids'[r] = IF IsParent(it) THEN [ids[r] EXCEPT ![it.key] = i] ELSE ids[r]
  BY StoredBooks
<1>2. ids[r] \in [Parents -> Nat]
  BY DEF TypeOK
<1>3. ComesTo(r, it) /\ UNCHANGED <<pc, sent>>
  BY DEF Stored
<1>4. it \in sent[r] /\ it \notin Past(r)
  BY <1>3, ComingTo
<1>5. ASSUME NEW a \in Past(r) \union {it} PROVE ids'[r][a.under] = ids[r][a.under]
  <2>1. a \in sent[r] /\ a.under \in Parents
    BY <1>4, ItemFacts DEF Past
  <2>2. Rank(a.table) <= Rank(it.table)
    BY <1>3, ComingTo DEF Rank, Before
  <2>3. CASE it.table = "framework"
    <3>1. a.table = "framework"
      BY <2>1, <2>2, <2>3, ItemFacts DEF Rank, Tables
    <3>2. a.under # it.key
      BY <1>4, <2>1, <2>3, <3>1, ItemFacts, NamesAssumption
    <3>3. QED BY <1>1, <1>2, <2>1, <3>2
  <2>4. CASE it.table = "skill"
    <3>1. a.table \in {"framework", "skill"}
      BY <2>1, <2>2, <2>4, ItemFacts DEF Rank, Tables
    <3>2. a.under # it.key
      BY <1>4, <2>1, <2>4, <3>1, ItemFacts, NamesAssumption
    <3>3. QED BY <1>1, <1>2, <2>1, <3>2
  <2>5. CASE ~IsParent(it)
    BY <1>1, <2>5
  <2>6. QED BY <2>3, <2>4, <2>5 DEF IsParent
<1>6. QED BY <1>5

LEMMA CursorOfStored ==
  ASSUME TypeOK, NEW r \in Imports, NEW it \in todo[r], Stored(r, it), Cursor(r)
  PROVE  Cursor(r)'
<1>1. ComesTo(r, it) /\ UNCHANGED <<pc, sent>>
  BY DEF Stored
<1>2. PICK i : ids'[r] = IF IsParent(it) THEN [ids[r] EXCEPT ![it.key] = i] ELSE ids[r]
  BY StoredBooks
<1>3. ids[r] \in [Parents -> Nat]
  BY DEF TypeOK
<1>4. ASSUME NEW p \in Parents, ids'[r][p] # 0
      PROVE  \E a \in Past(r)' : IsParent(a) /\ a.key = p
  <2>1. CASE IsParent(it) /\ it.key = p
    BY <1>1, <2>1, ComingTo
  <2>2. CASE ~(IsParent(it) /\ it.key = p)
    <3>1. ids[r][p] # 0
      BY <1>2, <1>3, <1>4, <2>2
    <3>2. QED BY <1>1, <3>1, ComingTo DEF Cursor
  <2>3. QED BY <2>1, <2>2
<1>5. QED BY <1>1, <1>4, ComingTo DEF Cursor

LEMMA CursorOfSkipped ==
  ASSUME TypeOK, NEW r \in Imports, NEW it \in todo[r], Skipped(r, it), Cursor(r)
  PROVE  Cursor(r)'
<1>1. ComesTo(r, it) /\ UNCHANGED <<pc, sent, ids, stale>>
  BY DEF Skipped
<1>2. QED BY <1>1, ComingTo DEF Cursor

\* An import works on its own cursor and on no other.
LEMMA CursorStep ==
  ASSUME TypeOK, NEW r \in Imports, Cursor(r), [Next]_vars PROVE Cursor(r)'
<1>1. ASSUME NEW q \in Imports, Step(q), q # r PROVE Cursor(r)'
  <2>1. UNCHANGED <<pc[r], sent[r], todo[r], ids[r], stale[r]>>
    BY <1>1 DEF Step, Begin, Stored, Skipped, ComesTo, Finish, Fail, TypeOK
  <2>2. QED BY <2>1, CursorStays
<1>2. ASSUME Step(r) PROVE Cursor(r)'
  <2>1. CASE Finish(r) \/ Fail(r)
    <3>1. /\ UNCHANGED <<sent[r], todo[r], ids[r], stale[r]>>
          /\ pc[r] # "none" /\ pc'[r] # "none" /\ (pc'[r] = "done" => todo[r] = {})
      BY <2>1 DEF Finish, Fail, TypeOK
    <3>2. QED BY <3>1, CursorStays
  <2>2. QED BY <1>2, <2>1, CursorOfBegin, CursorOfStored, CursorOfSkipped DEF Step
<1>3. ASSUME Write \/ UNCHANGED vars PROVE Cursor(r)'
  <2>1. UNCHANGED <<pc[r], sent[r], todo[r], ids[r], stale[r]>>
    BY <1>3 DEF Write, import, vars
  <2>2. QED BY <2>1, CursorStays
<1>4. QED BY <1>1, <1>2, <1>3 DEF Next, Put, Edit

LEMMA LandingStays ==
  ASSUME NEW r \in Imports, Landing(r),
         UNCHANGED <<adapter, rows, sent[r], todo[r], ids[r], stale[r]>>
  PROVE  Landing(r)'
BY DEF Landing, IdsLead, PastLanded, LastSoFar, Counted, Bare, BareRows, Past, Lands, Home, KeyOf

LEMMA LandingOfBegin ==
  ASSUME TypeOK, NEW r \in Imports, NEW P \in Payloads, Begin(r, P), Cursor(r)
  PROVE  Landing(r)'
<1>1. Past(r)' = {} /\ stale'[r] = 0
  BY DEF Begin, Past, Cursor, TypeOK
<1>2. Bare(r)' = {} /\ BareRows(r)' = {}
  BY <1>1 DEF Bare, BareRows
<1>3. Cardinality(Bare(r)') = 0 /\ Cardinality(BareRows(r)') = 0
  BY <1>2, FS_EmptySet
<1>4. Counted(r)'
  BY <1>1, <1>3 DEF Counted
<1>5. QED BY <1>1, <1>4 DEF Landing, IdsLead, PastLanded

LEMMA LandingOfSkipped ==
  ASSUME TypeOK, NEW r \in Imports, NEW it \in todo[r], Skipped(r, it), Cursor(r), Landing(r)
  PROVE  Landing(r)'
<1>1. /\ ComesTo(r, it) /\ UNCHANGED <<pc, sent, adapter, rows, ids, stale>>
      /\ ~Lands(r, it) /\ it.table = "level"
  BY DEF Skipped, Lands
<1>2. Past(r)' = Past(r) \union {it}
  BY <1>1, ComingTo
<1>3. /\ \A a : Lands(r, a)' <=> Lands(r, a)
      /\ \A a : Home(r, a)' = Home(r, a)
  BY <1>1 DEF Lands, Home, KeyOf
<1>4. IdsLead(r)'
  BY <1>1, <1>2, <1>3 DEF Landing, IdsLead, IsParent
<1>5. PastLanded(r)'
  <2>1. \A a \in Past(r) : LastSoFar(r, a)' => LastSoFar(r, a)
    BY <1>2 DEF LastSoFar
  <2>2. QED BY <1>1, <1>2, <1>3, <2>1 DEF Landing, PastLanded
<1>6. Bare(r)' = Bare(r) /\ BareRows(r)' = BareRows(r)
  BY <1>1, <1>2, <1>3 DEF Bare, BareRows
<1>7. QED BY <1>1, <1>4, <1>5, <1>6 DEF Landing, Counted

\* The statement of one item gives it its row, which is a row of earlier lines
\* only if these have the same key; no other row changes.
LEMMA StoredHomes ==
  ASSUME TypeOK, RowsUnique', NEW r \in Imports, NEW it \in todo[r], Cursor(r), IdsLead(r),
         PastLanded(r), Stored(r, it),
         NEW i \in 1..(Len(rows) + 1), Upsert(it.table, ids[r][it.under], it.key, it.text, i)
  PROVE  /\ Lands(r, it)' /\ Home(r, it)' = {i} /\ rows'[i].text = it.text
         /\ \A j \in 1..Len(rows) : j # i => rows'[j] = rows[j]
         /\ Len(rows) <= Len(rows')
         /\ \A a \in Past(r) :
              /\ Lands(r, a)' <=> Lands(r, a)
              /\ Lands(r, a) => Home(r, a)' = Home(r, a)
              /\ Lands(r, a) /\ i \in Home(r, a) => SameKey(a, it)
<1>1. /\ ComesTo(r, it) /\ UNCHANGED <<pc, sent, adapter>>
      /\ it.table = "level" => ids[r][it.under] # 0
  BY DEF Stored
<1>2. it \in sent[r]
  BY <1>1, ComingTo
<1>3. /\ it.table \in Tables /\ it.key \in AllKeys /\ it.text \in Texts /\ it.key # NoLevel
      /\ ids[r][it.under] \in Nat
  BY <1>2, ItemFacts DEF TypeOK
<1>4. \A a \in Past(r) \union {it} : ids'[r][a.under] = ids[r][a.under]
  BY IdsSettled
<1>5. /\ Len(rows) \in Nat /\ Len(rows') \in Nat /\ Len(rows) <= Len(rows')
      /\ i \in 1..Len(rows')
      /\ rows'[i].table = it.table /\ rows'[i].of = ids[r][it.under]
      /\ rows'[i].text = it.text /\ KeyOf(i)' = it.key
      /\ \A j \in 1..Len(rows) : /\ rows'[j].table = rows[j].table /\ rows'[j].of = rows[j].of
                                 /\ KeyOf(j)' = KeyOf(j)
                                 /\ j # i => rows'[j] = rows[j]
      /\ \A j \in 1..Len(rows') :
           j \notin 1..Len(rows) =>
             /\ j = i
             /\ \A h \in 1..Len(rows) :
                  rows[h].table = it.table /\ rows[h].of = ids[r][it.under] => KeyOf(h) # it.key
  BY <1>1, <1>3, UpsertRows
<1>6. Lands(r, it)' /\ Home(r, it)' = {i}
  <2>1. i \in Home(r, it)'
    BY <1>1, <1>4, <1>5 DEF Home
  <2>2. \A j \in Home(r, it)' : j = i
    BY <1>3, <2>1 DEF RowsUnique, Home
  <2>3. Lands(r, it)'
    BY <1>1, <1>4 DEF Lands
  <2>4. QED BY <2>1, <2>2, <2>3
<1>7. \A a \in Past(r) : Lands(r, a)' <=> Lands(r, a)
  BY <1>4 DEF Lands
<1>8. ASSUME NEW a \in Past(r), Lands(r, a) PROVE Home(r, a)' = Home(r, a)
  <2>1. \A j : j \in Home(r, a)' <=>
                 /\ j \in 1..Len(rows') /\ rows'[j].table = a.table
                 /\ rows'[j].of = ids[r][a.under] /\ KeyOf(j)' = a.key
    BY <1>4 DEF Home
  <2>2. PICK h \in Home(r, a) : TRUE
    BY <1>8 DEF PastLanded
  <2>3. /\ h \in 1..Len(rows) /\ rows[h].table = a.table
        /\ rows[h].of = ids[r][a.under] /\ KeyOf(h) = a.key
    BY <2>2 DEF Home
  <2>4. ASSUME NEW j \in Home(r, a) PROVE j \in Home(r, a)'
    BY <1>5, <2>1, <2>4 DEF Home
  <2>5. ASSUME NEW j \in Home(r, a)' PROVE j \in Home(r, a)
    <3>1. CASE j \in 1..Len(rows)
      BY <1>5, <2>1, <3>1 DEF Home
    <3>2. CASE j \notin 1..Len(rows)
      <4>1. j = i
        BY <1>5, <2>1, <3>2
      <4>2. it.table = a.table /\ ids[r][it.under] = ids[r][a.under] /\ it.key = a.key
        BY <1>5, <2>1, <4>1
      <4>3. QED BY <1>5, <2>1, <2>3, <3>2, <4>2
    <3>3. QED BY <3>1, <3>2
  <2>6. QED BY <2>4, <2>5
<1>9. ASSUME NEW a \in Past(r), Lands(r, a), i \in Home(r, a) PROVE SameKey(a, it)
  <2>1. i \in Home(r, a)'
    BY <1>8, <1>9
  <2>2. a.table = it.table /\ a.key = it.key /\ ids[r][a.under] = ids[r][it.under]
    BY <1>4, <1>5, <2>1 DEF Home
  <2>3. Lands(r, it) /\ a \in sent[r]
    BY <1>1 DEF Lands, Past
  <2>4. QED BY <1>2, <1>9, <2>2, <2>3, HomesApart
<1>10. QED BY <1>5, <1>6, <1>7, <1>8, <1>9

\* The row of the statement has no embedding afterwards, or it has kept its own.
LEMMA StoredEmbedding ==
  ASSUME TypeOK, NEW t \in Tables, NEW p \in Nat, NEW k \in AllKeys, NEW x \in Texts,
         NEW i, Upsert(t, p, k, x, i), rows'[i].emb # NoText
  PROVE  rows'[i].emb = rows[i].emb
<1>1. rows \in Seq(Row)
  BY DEF TypeOK
<1>2. CASE i \in Found(t, p, k) /\ rows' = Rewritten(i, rows[i].key, x)
  <2>1. i \in 1..Len(rows) /\ rows[i] \in Row
    BY <1>1, <1>2 DEF Found
  <2>2. rows[i].key \in AllKeys
    BY <2>1 DEF Row, AllKeys
  <2>3. rows'[i].emb = IF rows[i].text = x THEN rows[i].emb ELSE NoText
    BY <1>1, <1>2, <2>1, <2>2, RewrittenRow
  <2>4. QED BY <2>3
<1>3. CASE i = Len(rows) + 1 /\ rows' = Append(rows, NewRow(t, p, k, x, NoText))
  <2>1. NewRow(t, p, k, x, NoText) \in Row
    BY NewRowType
  <2>2. rows'[i] = NewRow(t, p, k, x, NoText)
    BY <1>1, <1>3, <2>1
  <2>3. rows'[i].emb = NoText
    BY <2>2 DEF NewRow
  <2>4. QED BY <2>3
<1>4. QED BY <1>2, <1>3 DEF Upsert

\* The ids still lead to the rows: a second line of a key learns the same row.
LEMMA IdsLeadOfStored ==
  ASSUME TypeOK, RowsUnique', NEW r \in Imports, NEW it \in todo[r], Cursor(r), IdsLead(r),
         PastLanded(r), Stored(r, it)
  PROVE  IdsLead(r)'
<1>1. ComesTo(r, it) /\ UNCHANGED <<pc, sent, adapter>>
  BY DEF Stored
<1>2. PICK i \in 1..(Len(rows) + 1) :
        /\ Upsert(it.table, ids[r][it.under], it.key, it.text, i)
        /\ ids'[r] = IF IsParent(it) THEN [ids[r] EXCEPT ![it.key] = i] ELSE ids[r]
  BY StoredBooks
<1>3. /\ it \in sent[r] /\ Past(r)' = Past(r) \union {it}
  BY <1>1, ComingTo
<1>4. ids[r] \in [Parents -> Nat]
  BY DEF TypeOK
<1>5. /\ Home(r, it)' = {i}
      /\ \A a \in Past(r) : Lands(r, a) => Home(r, a)' = Home(r, a)
  BY <1>2, StoredHomes
<1>6. SUFFICES ASSUME NEW a \in Past(r)', IsParent(a) PROVE ids'[r][a.key] \in Home(r, a)'
  BY DEF IdsLead, IsParent
<1>7. a \in sent[r] /\ a.key \in Parents
  BY <1>3, <1>6, ItemFacts DEF Past
<1>8. CASE IsParent(it) /\ a.key = it.key
  <2>1. a.table = it.table
    BY <1>3, <1>6, <1>7, <1>8, ItemFacts, NamesAssumption DEF IsParent
  <2>2. a.under = it.under
    BY <1>3, <1>6, <1>7, <2>1, ItemFacts DEF IsParent
  <2>3. Home(r, a)' = Home(r, it)'
    BY <1>8, <2>1, <2>2 DEF Home
  <2>4. ids'[r][a.key] = i
    BY <1>2, <1>4, <1>7, <1>8
  <2>5. QED BY <1>5, <2>3, <2>4
<1>9. CASE ~(IsParent(it) /\ a.key = it.key)
  <2>1. a \in Past(r) /\ Lands(r, a)
    BY <1>3, <1>6, <1>9 DEF Lands, IsParent
  <2>2. ids'[r][a.key] = ids[r][a.key]
    BY <1>2, <1>4, <1>7, <1>9
  <2>3. ids[r][a.key] \in Home(r, a)
    BY <1>6, <2>1 DEF IdsLead
  <2>4. QED BY <1>5, <2>1, <2>2, <2>3
<1>10. QED BY <1>8, <1>9

\* A statement that leaves its row without an embedding is counted, and its line
\* is one more; any other leaves every row's embedding as it was.
LEMMA CountedOfStored ==
  ASSUME TypeOK, RowsUnique', NEW r \in Imports, NEW it \in todo[r], Cursor(r), Landing(r),
         Stored(r, it), adapter = "postgres"
  PROVE  Counted(r)'
<1>1. ComesTo(r, it) /\ UNCHANGED <<pc, sent, adapter>>
  BY DEF Stored
<1>2. PICK i \in 1..(Len(rows) + 1) :
        /\ Upsert(it.table, ids[r][it.under], it.key, it.text, i)
        /\ stale'[r] = IF adapter = "postgres" /\ it.table = "level" /\ rows'[i].emb = NoText
                       THEN stale[r] + 1 ELSE stale[r]
  BY StoredBooks
<1>3. /\ it \in sent[r] /\ it \notin Past(r) /\ Past(r)' = Past(r) \union {it}
  BY <1>1, ComingTo
<1>4. /\ it.table \in Tables /\ it.key \in AllKeys /\ it.text \in Texts
      /\ ids[r][it.under] \in Nat
  BY <1>3, ItemFacts DEF TypeOK
<1>5. /\ Lands(r, it)' /\ Home(r, it)' = {i}
      /\ \A j \in 1..Len(rows) : j # i => rows'[j] = rows[j]
      /\ Len(rows) <= Len(rows')
      /\ \A a \in Past(r) :
           /\ Lands(r, a)' <=> Lands(r, a)
           /\ Lands(r, a) => Home(r, a)' = Home(r, a)
           /\ Lands(r, a) /\ i \in Home(r, a) => SameKey(a, it)
  BY <1>2, StoredHomes DEF Landing
<1>6. /\ Cardinality(BareRows(r)) <= stale[r] /\ stale[r] <= Cardinality(Bare(r))
      /\ stale[r] \in Nat
  BY DEF Landing, Counted, TypeOK
<1>7. /\ rows \in Seq(Row) /\ Len(rows) \in Nat
  BY DEF TypeOK
<1>8. /\ IsFiniteSet(BareRows(r)) /\ IsFiniteSet(Bare(r)) /\ IsFiniteSet(Bare(r)')
      /\ it \notin Bare(r)
  <2>1. IsFiniteSet(1..Len(rows))
    BY <1>7, FS_Interval
  <2>2. sent[r] \in Payloads
    BY <1>3 DEF Cursor
  <2>3. IsFiniteSet(sent[r])
    BY <2>2, WellFormedAssumption DEF WellFormed
  <2>4. Bare(r) \subseteq sent[r] /\ Bare(r)' \subseteq sent[r] /\ BareRows(r) \subseteq 1..Len(rows)
    BY <1>3 DEF Bare, BareRows, Past
  <2>5. QED BY <1>3, <2>1, <2>3, <2>4, FS_Subset DEF Bare
<1>9. \A a \in Past(r) : \A j : Lands(r, a) /\ j \in Home(r, a) =>
         j \in 1..Len(rows) /\ rows[j].table = a.table
  BY DEF Home
<1>10. CASE it.table = "level" /\ rows'[i].emb = NoText
  <2>1. stale'[r] = stale[r] + 1
    BY <1>2, <1>10
  <2>2. BareRows(r)' \subseteq BareRows(r) \union {i}
    <3> SUFFICES ASSUME NEW j \in BareRows(r)', j # i PROVE j \in BareRows(r)
      OBVIOUS
    <3>1. PICK a \in Past(r)' : a.table = "level" /\ Lands(r, a)' /\ j \in Home(r, a)'
      BY DEF BareRows
    <3>2. a \in Past(r) /\ Lands(r, a) /\ j \in Home(r, a)
      BY <1>3, <1>5, <3>1
    <3>3. j \in 1..Len(rows) /\ rows'[j] = rows[j] /\ rows'[j].emb = NoText
      BY <1>5, <1>9, <3>2 DEF BareRows
    <3>4. QED BY <3>1, <3>2, <3>3 DEF BareRows
  <2>3. Bare(r) \union {it} \subseteq Bare(r)'
    <3>1. it \in Bare(r)'
      BY <1>3, <1>5, <1>10 DEF Bare
    <3>2. ASSUME NEW a \in Bare(r) PROVE a \in Bare(r)'
      <4>1. a \in Past(r) /\ a.table = "level" /\ Lands(r, a)
        BY DEF Bare
      <4>2. PICK j \in Home(r, a) : rows[j].emb = NoText
        BY DEF Bare
      <4>3. j \in Home(r, a)' /\ rows'[j].emb = NoText
        BY <1>5, <1>9, <1>10, <4>1, <4>2
      <4>4. QED BY <1>3, <1>5, <4>1, <4>3 DEF Bare
    <3>3. QED BY <3>1, <3>2
  <2>4. Cardinality(BareRows(r)') <= Cardinality(BareRows(r)) + 1
    <3>1. /\ IsFiniteSet(BareRows(r) \union {i})
          /\ Cardinality(BareRows(r) \union {i}) <= Cardinality(BareRows(r)) + 1
      <4> DEFINE S == BareRows(r)
      <4>1. IsFiniteSet(S) /\ Cardinality(S) \in Nat
        BY <1>8, FS_CardinalityType
      <4> HIDE DEF S
      <4>2. /\ IsFiniteSet(S \union {i})
            /\ Cardinality(S \union {i}) = IF i \in S THEN Cardinality(S) ELSE Cardinality(S) + 1
        BY <4>1, FS_AddElement
      <4>3. QED BY <4>1, <4>2 DEF S
    <3>2. /\ IsFiniteSet(BareRows(r)')
          /\ Cardinality(BareRows(r)') <= Cardinality(BareRows(r) \union {i})
      BY <2>2, <3>1, FS_Subset
    <3>3. QED BY <1>8, <3>1, <3>2, FS_CardinalityType
  <2>5. Cardinality(Bare(r)) + 1 <= Cardinality(Bare(r)')
    <3>1. /\ IsFiniteSet(Bare(r) \union {it})
          /\ Cardinality(Bare(r) \union {it}) = Cardinality(Bare(r)) + 1
      BY <1>8, FS_AddElement
    <3>2. Cardinality(Bare(r) \union {it}) <= Cardinality(Bare(r)')
      BY <1>8, <2>3, FS_Subset
    <3>3. QED BY <3>1, <3>2
  <2>6. /\ Cardinality(BareRows(r)) \in Nat /\ Cardinality(BareRows(r)') \in Nat
        /\ Cardinality(Bare(r)) \in Nat /\ Cardinality(Bare(r)') \in Nat
    <3>1. IsFiniteSet(BareRows(r) \union {i})
      BY <1>8, FS_AddElement
    <3>2. IsFiniteSet(BareRows(r)')
      BY <2>2, <3>1, FS_Subset
    <3>3. QED BY <1>8, <3>2, FS_CardinalityType
  <2>7. QED BY <1>6, <2>1, <2>4, <2>5, <2>6 DEF Counted
<1>11. CASE ~(it.table = "level" /\ rows'[i].emb = NoText)
  <2>1. stale'[r] = stale[r]
    BY <1>2, <1>11
  <2>2. ASSUME NEW a \in Past(r), a.table = "level", Lands(r, a), NEW j \in Home(r, a)
        PROVE  rows'[j].emb = rows[j].emb
    <3>1. CASE j # i
      BY <1>5, <1>9, <2>2, <3>1
    <3>2. CASE j = i
      <4>1. it.table = "level"
        BY <1>5, <2>2, <3>2 DEF SameKey
      <4>2. rows'[i].emb # NoText
        BY <1>11, <4>1
      <4>3. QED BY <1>2, <1>4, <3>2, <4>2, StoredEmbedding
    <3>3. QED BY <3>1, <3>2
  <2>3. it \notin Bare(r)'
    BY <1>5, <1>11 DEF Bare
  <2>4. Bare(r)' = Bare(r)
    <3>1. \A a \in Past(r) : a \in Bare(r)' <=> a \in Bare(r)
      BY <1>3, <1>5, <2>2 DEF Bare
    <3>2. Bare(r)' \subseteq Past(r) \union {it} /\ Bare(r) \subseteq Past(r)
      BY <1>3 DEF Bare
    <3>3. QED BY <1>8, <2>3, <3>1, <3>2
  <2>5. BareRows(r)' = BareRows(r)
    <3>1. ASSUME NEW j \in BareRows(r)' PROVE j \in BareRows(r)
      <4>1. PICK a \in Past(r)' : a.table = "level" /\ Lands(r, a)' /\ j \in Home(r, a)'
        BY DEF BareRows
      <4>2. a # it
        BY <1>5, <1>11, <4>1 DEF BareRows
      <4>3. a \in Past(r) /\ Lands(r, a) /\ j \in Home(r, a)
        BY <1>3, <1>5, <4>1, <4>2
      <4>4. j \in 1..Len(rows) /\ rows[j].emb = NoText
        BY <1>9, <2>2, <4>1, <4>3 DEF BareRows
      <4>5. QED BY <4>1, <4>3, <4>4 DEF BareRows
    <3>2. ASSUME NEW j \in BareRows(r) PROVE j \in BareRows(r)'
      <4>1. PICK a \in Past(r) : a.table = "level" /\ Lands(r, a) /\ j \in Home(r, a)
        BY DEF BareRows
      <4>2. a \in Past(r)' /\ Lands(r, a)' /\ j \in Home(r, a)'
        BY <1>3, <1>5, <4>1
      <4>3. rows'[j].emb = NoText /\ j \in 1..Len(rows')
        BY <2>2, <4>1, <4>2 DEF BareRows, Home
      <4>4. QED BY <4>1, <4>2, <4>3 DEF BareRows
    <3>3. QED BY <3>1, <3>2
  <2>6. QED BY <1>1, <1>6, <2>1, <2>4, <2>5 DEF Counted
<1>12. QED BY <1>10, <1>11

LEMMA LandingOfStored ==
  ASSUME TypeOK, RowsUnique', NEW r \in Imports, NEW it \in todo[r], Cursor(r), Landing(r),
         Stored(r, it)
  PROVE  Landing(r)'
<1>1. ComesTo(r, it) /\ UNCHANGED <<pc, sent, adapter>> /\ IdsLead(r) /\ PastLanded(r)
  BY DEF Stored, Landing
<1>2. PICK i \in 1..(Len(rows) + 1) : Upsert(it.table, ids[r][it.under], it.key, it.text, i)
  BY StoredBooks
<1>3. /\ it \in sent[r] /\ Past(r)' = Past(r) \union {it} /\ \A a \in Past(r) : Before(a, it)
  BY <1>1, ComingTo
<1>4. /\ Lands(r, it)' /\ Home(r, it)' = {i} /\ rows'[i].text = it.text
      /\ \A j \in 1..Len(rows) : j # i => rows'[j] = rows[j]
      /\ \A a \in Past(r) :
           /\ Lands(r, a)' <=> Lands(r, a)
           /\ Lands(r, a) => Home(r, a)' = Home(r, a)
           /\ Lands(r, a) /\ i \in Home(r, a) => SameKey(a, it)
  BY <1>1, <1>2, StoredHomes
<1>5. PastLanded(r)'
  <2> SUFFICES ASSUME NEW a \in Past(r)', Lands(r, a)'
               PROVE  /\ Home(r, a)' # {}
                      /\ LastSoFar(r, a)' => \A j \in Home(r, a)' : rows'[j].text = a.text
    BY DEF PastLanded
  <2>1. CASE a = it
    BY <1>4, <2>1
  <2>2. CASE a # it
    <3>1. a \in Past(r) /\ Lands(r, a) /\ a \in sent[r]
      BY <1>3, <1>4, <2>2 DEF Past
    <3>2. Home(r, a)' = Home(r, a) /\ Home(r, a) # {}
      BY <1>1, <1>4, <3>1 DEF PastLanded
    <3>3. ASSUME LastSoFar(r, a)', NEW j \in Home(r, a) PROVE rows'[j].text = a.text
      <4>1. LastSoFar(r, a)
        BY <1>3, <3>3 DEF LastSoFar
      <4>2. ~SameKey(a, it)
        <5>1. SameKey(a, it) => it.place <= a.place
          BY <1>3, <3>3 DEF LastSoFar
        <5>2. a.place \in Nat /\ it.place \in Nat
          BY <1>3, <3>1, ItemFacts
        <5>3. SameKey(a, it) => a.place < it.place
          BY <1>3, <3>1 DEF SameKey, Before, Rank
        <5>4. QED BY <5>1, <5>2, <5>3
      <4>3. j # i /\ j \in 1..Len(rows)
        BY <1>4, <3>1, <4>2 DEF Home
      <4>4. rows[j].text = a.text
        BY <1>1, <3>1, <4>1 DEF PastLanded
      <4>5. QED BY <1>4, <4>3, <4>4
    <3>4. QED BY <3>2, <3>3
  <2>3. QED BY <2>1, <2>2
<1>6. Counted(r)'
  BY <1>1, CountedOfStored DEF Counted
<1>7. QED BY <1>1, <1>5, <1>6, IdsLeadOfStored DEF Landing

\* Whoever else writes, the import is not alone any more.
LEMMA LandingStep ==
  ASSUME TypeOK, RowsUnique', NEW r \in Imports, Cursor(r), Alone(r) => Landing(r),
         [Next]_vars, Alone(r)'
  PROVE  Landing(r)'
<1>1. ASSUME NEW q \in Imports, Step(q), q # r PROVE Landing(r)'
  <2>1. ~\E it \in todo[q] : Stored(q, it)
    BY <1>1 DEF Stored, Alone
  <2>2. /\ UNCHANGED <<adapter, rows, pc[r], sent[r], todo[r], ids[r], stale[r]>>
        /\ clean'[r] = clean[r]
    BY <1>1, <2>1 DEF Step, Begin, Skipped, ComesTo, Finish, Fail, TypeOK
  <2>3. QED BY <2>2, LandingStays DEF Alone
<1>2. ASSUME Step(r) PROVE Landing(r)'
  <2>1. CASE \E P \in Payloads : Begin(r, P)
    BY <2>1, LandingOfBegin
  <2>2. CASE \E it \in todo[r] : Stored(r, it) \/ Skipped(r, it)
    <3>1. Alone(r)
      BY <2>2 DEF Stored, Skipped, ComesTo, Alone, TypeOK
    <3>2. QED BY <2>2, <3>1, LandingOfStored, LandingOfSkipped
  <2>3. CASE Finish(r)
    <3>1. Alone(r) /\ UNCHANGED <<adapter, rows, sent[r], todo[r], ids[r], stale[r]>>
      BY <2>3 DEF Finish, Alone
    <3>2. QED BY <3>1, LandingStays
  <2>4. CASE Fail(r)
    BY <2>4 DEF Fail, Alone, TypeOK
  <2>5. QED BY <1>2, <2>1, <2>2, <2>3, <2>4 DEF Step
<1>3. ASSUME Write PROVE Landing(r)'
  BY <1>3 DEF Write, Alone
<1>4. CASE UNCHANGED vars
  <2>1. Alone(r) /\ UNCHANGED <<adapter, rows, sent[r], todo[r], ids[r], stale[r]>>
    BY <1>4 DEF vars, Alone
  <2>2. QED BY <2>1, LandingStays
<1>5. QED BY <1>1, <1>2, <1>3, <1>4 DEF Next, Put, Edit

LEMMA ImportInvInit == Init => ImportInv
<1> SUFFICES ASSUME Init PROVE ImportInv
  OBVIOUS
<1>1. RowsUnique
  <2>1. CASE rows = <<>>
    BY <2>1 DEF RowsUnique
  <2>2. CASE \E c \in Codes, l \in Levels, x \in Texts : rows = Seed(c, l, x)
    BY <2>2 DEF RowsUnique, Seed, NewRow
  <2>3. QED BY <2>1, <2>2 DEF Init
<1>2. ASSUME NEW r \in Imports PROVE Cursor(r) /\ ~Alone(r)
  BY DEF Init, Cursor, Past, Alone
<1>3. QED BY <1>1, <1>2, InitType DEF ImportInv

LEMMA ImportInvStep == ImportInv /\ [Next]_vars => ImportInv'
<1> SUFFICES ASSUME ImportInv, [Next]_vars PROVE ImportInv'
  OBVIOUS
<1>1. TypeOK /\ RowsUnique /\ TypeOK' /\ RowsUnique'
  BY TypeStep, UniqueStep DEF ImportInv
<1>2. ASSUME NEW r \in Imports PROVE Cursor(r)' /\ (Alone(r)' => Landing(r)')
  BY <1>1, CursorStep, LandingStep DEF ImportInv
<1>3. QED BY <1>1, <1>2 DEF ImportInv

\* What an import has learned of the parents in its upload when it is through.
LEMMA SkillsLearned ==
  ASSUME TypeOK, NEW r \in Imports, Cursor(r), IdsLead(r), todo[r] = {},
         NEW c \in Codes
  PROVE  ids[r][c] # 0 <=> c \in {it.key : it \in {s \in sent[r] : s.table = "skill"}}
<1>1. Past(r) = sent[r] /\ c \in Parents
  BY DEF Past, Parents
<1>2. ASSUME ids[r][c] # 0 PROVE \E s \in sent[r] : s.table = "skill" /\ s.key = c
  <2>1. PICK a \in sent[r] : IsParent(a) /\ a.key = c
    BY <1>1, <1>2 DEF Cursor
  <2>2. a.table = "skill"
    BY <2>1, ItemFacts, NamesAssumption DEF IsParent
  <2>3. QED BY <2>1, <2>2
<1>3. ASSUME NEW s \in sent[r], s.table = "skill", s.key = c PROVE ids[r][c] # 0
  <2>1. ids[r][c] \in 1..Len(rows)
    BY <1>1, <1>3 DEF IdsLead, IsParent, Home
  <2>2. QED BY <2>1
<1>4. QED BY <1>2, <1>3

\* The inductive invariant gives what an upload promises.
LEMMA ImportInvLands == ImportInv => ImportLandsPayload
<1> DEFINE skills(r) == {it.key : it \in {s \in sent[r] : s.table = "skill"}}
           landed(r) == {it \in sent[r] : it.table = "level" => it.under \in skills(r)}
           bare(r)   == {it \in landed(r) : /\ it.table = "level"
                                            /\ \E i \in RowsOf(r, it) : rows[i].emb = NoText}
<1> SUFFICES ASSUME ImportInv, NEW r \in Imports, pc[r] = "done", clean[r],
                    adapter = "postgres" \/ \A i \in 1..Len(rows) : rows[i].key = rows[i].born
             PROVE  /\ \A it \in landed(r) :
                         (\A other \in landed(r) : SameKey(it, other) => other.place <= it.place)
                           => \E i \in 1..Len(rows) : RowsOf(r, it) = {i} /\ rows[i].text = it.text
                    /\ adapter = "postgres" =>
                         /\ Cardinality(UNION {RowsOf(r, it) : it \in bare(r)}) <= stale[r]
                         /\ stale[r] <= Cardinality(bare(r))
  BY DEF ImportLandsPayload
<1>1. TypeOK /\ RowsUnique /\ Cursor(r) /\ Landing(r)
  BY DEF ImportInv, Alone
<1>2. todo[r] = {} /\ Past(r) = sent[r]
  BY <1>1 DEF Cursor, Past
<1>3. \A it \in sent[r] : RowsOf(r, it) = Home(r, it)
  BY <1>1 DEF KeyOf, TypeOK, RowsOf, Home
<1>4. \A it \in sent[r] : it \in landed(r) <=> Lands(r, it)
  <2>1. \A c \in Codes : ids[r][c] # 0 <=> c \in skills(r)
    BY <1>1, <1>2, SkillsLearned DEF Landing
  <2> HIDE DEF skills
  <2>2. QED BY <1>1, <2>1, ItemFacts DEF Lands
<1> HIDE DEF skills
<1>5. ASSUME NEW it \in landed(r),
             \A other \in landed(r) : SameKey(it, other) => other.place <= it.place
      PROVE  \E i \in 1..Len(rows) : RowsOf(r, it) = {i} /\ rows[i].text = it.text
  <2>1. it \in sent[r] /\ Lands(r, it)
    BY <1>4, <1>5
  <2>2. LastSoFar(r, it)
    <3>1. ASSUME NEW b \in Past(r), SameKey(it, b) PROVE b \in landed(r)
      BY <1>2, <1>5, <3>1 DEF SameKey
    <3>2. QED BY <1>5, <3>1 DEF LastSoFar
  <2>3. Home(r, it) # {} /\ \A i \in Home(r, it) : rows[i].text = it.text
    BY <1>1, <1>2, <2>1, <2>2 DEF Landing, PastLanded
  <2>4. \A i, j \in Home(r, it) : i = j
    <3>1. it.key # NoLevel
      BY <1>1, <2>1, ItemFacts
    <3>2. QED BY <1>1, <3>1 DEF RowsUnique, Home
  <2>5. PICK i \in Home(r, it) : TRUE
    BY <2>3
  <2>6. i \in 1..Len(rows) /\ Home(r, it) = {i}
    BY <2>4, <2>5 DEF Home
  <2>7. QED BY <1>3, <2>1, <2>3, <2>6
<1>6. bare(r) = Bare(r)
  <2>1. \A it \in landed(r) : it \in sent[r] /\ Lands(r, it) /\ RowsOf(r, it) = Home(r, it)
    BY <1>3, <1>4
  <2>2. bare(r) \subseteq Bare(r)
    BY <1>2, <2>1 DEF Bare
  <2>3. Bare(r) \subseteq bare(r)
    BY <1>2, <1>3, <1>4 DEF Bare
  <2>4. QED BY <2>2, <2>3
<1>7. ASSUME adapter = "postgres"
      PROVE  UNION {RowsOf(r, it) : it \in bare(r)} = BareRows(r)
  <2> HIDE DEF bare
  <2>1. \A it \in Bare(r) : it \in Past(r) /\ RowsOf(r, it) = Home(r, it)
    BY <1>2, <1>3 DEF Bare
  <2>2. ASSUME NEW it \in Bare(r), NEW j \in Home(r, it) PROVE j \in BareRows(r)
    <3>1. it \in sent[r] /\ it.table = "level" /\ Lands(r, it) /\ it \in Past(r)
      BY <1>2, <2>2 DEF Bare
    <3>2. PICK i \in Home(r, it) : rows[i].emb = NoText
      BY <2>2 DEF Bare
    <3>3. it.key # NoLevel
      BY <1>1, <3>1, ItemFacts
    <3>4. i = j
      BY <1>1, <2>2, <3>2, <3>3 DEF RowsUnique, Home
    <3>5. j \in 1..Len(rows) /\ rows[j].emb = NoText
      BY <2>2, <3>2, <3>4 DEF Home
    <3>6. QED BY <2>2, <3>1, <3>5 DEF BareRows
  <2>3. ASSUME NEW j \in BareRows(r) PROVE \E it \in Bare(r) : j \in Home(r, it)
    BY DEF BareRows, Bare
  <2>4. QED BY <1>6, <2>1, <2>2, <2>3
<1>8. adapter = "postgres" => /\ Cardinality(BareRows(r)) <= stale[r]
                              /\ stale[r] <= Cardinality(Bare(r))
  BY <1>1 DEF Landing, Counted
<1>9. QED
  <2> HIDE DEF landed, bare
  <2>1. QED BY <1>5, <1>6, <1>7, <1>8

\* A parent never has two rows for a key, whatever requests and uploads come; and
\* an upload nobody else writes alongside goes through its lines in their order
\* and has, of all it has been through, the ids of the rows, one row for each key
\* with the text of the last line about it, and a count that lies between the
\* levels left without an embedding and the lines about them.
THEOREM ImportInvariant == Spec => []ImportInv
BY ImportInvInit, ImportInvStep, PTL DEF Spec

\* An upload that is through, and that nobody else wrote alongside, has left one
\* row for each key it holds, with the text of the last of the lines about it,
\* whatever was there before and however often a key comes; it reports as stale
\* every level it leaves without an embedding, once or more for lines that repeat
\* a key, and no other.
THEOREM ImportsLand == Spec => []ImportLandsPayload
BY ImportInvariant, ImportInvLands, PTL
=============================================================================
