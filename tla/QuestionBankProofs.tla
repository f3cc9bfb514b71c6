--------------------------- MODULE QuestionBankProofs ---------------------------
(***************************************************************************)
(* Proofs about QuestionBank, for any questions, titles, categories and    *)
(* requests.                                                               *)
(***************************************************************************)
EXTENDS QuestionBank, FiniteSetTheorems, TLAPS

Txn == {Idle} \cup Replying \cup InsertTxn \cup BulkTxn \cup UpdateTxn

InsertPcs == {"check", "insert"}

BulkPcs == {"rows", "index"}

UpdatePcs == {"load", "load_options", "flush", "index_flush", "move",
              "index_move", "delete", "options"}

(* the row is written, and its new pair not yet in the unique index        *)
IndexPcs == {"index", "index_flush", "index_move"}

Runs(t) == t.pc \notin {"idle", "reply"}

Indexes(t) == t.pc \in IndexPcs

(* t has an uncommitted version of the row                                 *)
Holds(t, q) == Runs(t) /\ t.new[q] # NoRow

(* Current and KeysOf, of a record                                         *)
View(t, q) == IF Holds(t, q) THEN t.new[q] ELSE row[q]

Keys(t) ==
    IF Runs(t)
    THEN t.keys \cup {Pair(row[q]) : q \in {p \in Bank : Holds(t, p)}}
    ELSE {}

(***************************************************************************)
(* What a request of each kind knows.  Its own versions are of rows that   *)
(* nobody else can change meanwhile, so what it has seen of them holds     *)
(* until it commits; questions are never deleted.                          *)
(***************************************************************************)
InsertFine(t) ==
    /\ \A d \in t.todo : d.category \in Category
    /\ \A q \in Question : t.new[q] # NoRow =>
          q \notin Bank /\ ~t.new[q].archived

BulkFine(t) ==
    /\ t.todo \subseteq Bank
    /\ \A q \in t.todo : t.new[q] = NoRow
    /\ t.pc = "index" => t.at \in Question /\ t.new[t.at] # NoRow
    /\ \A q \in Question : t.new[q] # NoRow =>
          /\ q \in Bank
          /\ t.kind = "archive" => ~row[q].archived /\ t.new[q].archived
          /\ t.kind = "restore" => row[q].archived /\ ~t.new[q].archived
          /\ t.kind = "patch" => t.new[q].archived = row[q].archived

UpdateFine(t) ==
    /\ \A q \in Question : t.new[q] # NoRow =>
          q = t.at /\ t.new[q].archived = row[q].archived
    /\ t.pc # "load" => t.at \in Bank /\ t.loaded \in Row
    /\ t.pc \in {"load", "load_options", "flush"} =>
          \A q \in Question : t.new[q] = NoRow
    /\ t.pc \in {"index_flush", "index_move"} => t.new[t.at] # NoRow
    /\ t.pc \in {"move", "index_move", "delete", "options"} =>
          t.draft.category \in Category
    /\ t.pc \notin {"load", "load_options"} => \E n \in Nat : t.old = {n}
    /\ t.pc = "options" => t.gone \subseteq t.old

Fine(t) ==
    /\ t.pc \in InsertPcs => InsertFine(t)
    /\ t.pc \in BulkPcs => BulkFine(t)
    /\ t.pc \in UpdatePcs => UpdateFine(t)

FineOK == \A r \in Request : Fine(txn[r])

(* a question in the bank has one option list                              *)
ListsOK == \A q \in Bank : \E n \in Nat : options[q] = {n}

-----------------------------------------------------------------------------
(* the kind of a request is told by its program counter                    *)
LEMMA TxnKinds ==
    ASSUME NEW t \in Txn
    PROVE  /\ t.pc \in InsertPcs => t \in InsertTxn
           /\ t.pc \in BulkPcs => t \in BulkTxn
           /\ t.pc \in UpdatePcs => t \in UpdateTxn
           /\ Runs(t) => /\ t.pc \in InsertPcs \cup BulkPcs \cup UpdatePcs
                         /\ t.new \in Versions
                         /\ t.keys \in SUBSET (Title \X Category)
  BY DEF Txn, Idle, Replying, InsertTxn, BulkTxn, UpdateTxn, InsertPcs,
         BulkPcs, UpdatePcs, Runs

LEMMA TxnType ==
    ASSUME TypeOK, NEW r \in Request
    PROVE  txn[r] \in Txn
  BY DEF TypeOK, Txn

LEMMA RowType ==
    ASSUME NEW v \in Versions, NEW q \in Question
    PROVE  /\ v[q] \in Row \cup {NoRow}
           /\ v[q] # NoRow => v[q] \in Row
  BY DEF Versions

LEMMA RowsAreNot == NoRow \notin Row
  BY BankAssumption DEF BankAssumption, Row

LEMMA BankRow ==
    ASSUME TypeOK, NEW q \in Bank
    PROVE  q \in Question /\ row[q] \in Row
  BY DEF TypeOK, Versions, Bank

LEMMA PairType ==
    ASSUME NEW x \in Row
    PROVE  Pair(x) \in Title \X Category
  BY DEF Row, Pair

-----------------------------------------------------------------------------
(***************************************************************************)
(* What a step that commits nothing does to the locks and index entries of *)
(* its request r, t being the record it leaves.                            *)
(***************************************************************************)

(* r has answered, or failed: nothing of it is left                        *)
Leaves(t) == ~Runs(t)

(* r begins                                                                *)
Opens(t) ==
    /\ Runs(t)
    /\ ~Indexes(t)
    /\ t.keys = {}
    /\ \A q \in Question : t.new[q] = NoRow

(* r reads, or decides                                                     *)
Passes(r, t) ==
    /\ Runs(txn[r]) /\ ~Indexes(txn[r])
    /\ Runs(t) /\ ~Indexes(t)
    /\ t.new = txn[r].new
    /\ t.keys = txn[r].keys

(* r writes a version of a row that nobody else has locked; a new pair has *)
(* to enter the index next                                                 *)
WritesRow(r, t, q, x) ==
    /\ Runs(txn[r]) /\ ~Indexes(txn[r])
    /\ Runs(t)
    /\ t.new = [txn[r].new EXCEPT ![q] = x]
    /\ t.keys = txn[r].keys
    /\ \A s \in Request \ {r} : ~Touches(s, q)
    /\ Indexes(t) => t.at = q
    /\ ~Indexes(t) => Pair(x) = Pair(Current(r, q))

Writes(r, t) == \E q \in Bank, x \in Row : WritesRow(r, t, q, x)

(* the pair r waited for enters the index                                  *)
Enters(r, t) ==
    LET at == txn[r].at
        pair == Pair(txn[r].new[at])
    IN  /\ Runs(txn[r]) /\ Indexes(txn[r])
        /\ Runs(t) /\ ~Indexes(t)
        /\ at \in Question
        /\ txn[r].new[at] # NoRow
        /\ t.new = txn[r].new
        /\ t.keys = txn[r].keys \cup {pair}
        /\ ~Taken(r, at, pair)
        /\ \A s \in Request \ {r} : pair \notin KeysOf(s)

(* r inserts a question                                                    *)
InsertsRow(r, t, q, x) ==
    /\ Runs(txn[r]) /\ ~Indexes(txn[r])
    /\ Runs(t) /\ ~Indexes(t)
    /\ t.new = [txn[r].new EXCEPT ![q] = x]
    /\ t.keys = txn[r].keys \cup {Pair(x)}
    /\ \A s \in Request : ~Touches(s, q)
    /\ ~Taken(r, q, Pair(x))
    /\ \A s \in Request \ {r} : Pair(x) \notin KeysOf(s)

Inserts(r, t) ==
    \E q \in Question \ Bank, x \in Row : InsertsRow(r, t, q, x)

Move(r, t) ==
    \/ Leaves(t)
    \/ Opens(t)
    \/ Passes(r, t)
    \/ Writes(r, t)
    \/ Enters(r, t)
    \/ Inserts(r, t)

Moves(r) == \E t \in Txn : Goto(r, t) /\ Fine(t) /\ Move(r, t)

BankOK == TypeOK /\ FineOK /\ ListsOK

LEMMA LeavesMoves ==
    ASSUME NEW r \in Request, NEW t \in {Idle} \cup Replying, Goto(r, t)
    PROVE  Moves(r)
  <1>1. t \in Txn /\ ~Runs(t)
    BY DEF Txn, Runs, Idle, Replying
  <1>2. Fine(t)
    BY <1>1 DEF Fine, Runs, Idle, Replying, InsertPcs, BulkPcs, UpdatePcs
  <1>3. QED
    BY <1>1, <1>2 DEF Moves, Move, Leaves

LEMMA RefuseMoves ==
    ASSUME NEW r \in Request, NEW code \in {200, 400, 404, 409, 500},
           Refuse(r, code)
    PROVE  Moves(r)
  BY LeavesMoves DEF Refuse, Replying

LEMMA UntouchedType ==
    Untouched \in Versions /\ \A q \in Question : Untouched[q] = NoRow
  BY DEF Untouched, Versions

(* create_question and bulk_create_questions begin                         *)
LEMMA CreateBeginMoves ==
    ASSUME NEW r \in Request, NEW d \in Draft, CreateBegin(r, d)
    PROVE  Moves(r)
  <1>1. CASE Refuse(r, 400)
    BY <1>1, RefuseMoves
  <1>2. CASE d.category \in Category /\
             Goto(r, [pc |-> "insert", kind |-> "create", todo |-> {d},
                      new |-> Untouched, keys |-> {}])
    <2> DEFINE t == [pc |-> "insert", kind |-> "create", todo |-> {d},
                     new |-> Untouched, keys |-> {}]
    <2>1. t \in InsertTxn
      BY UntouchedType DEF InsertTxn
    <2>2. /\ t.pc = "insert" /\ t.todo = {d}
          /\ t.new = Untouched /\ t.keys = {}
      OBVIOUS
    <2>3. Goto(r, t)
      BY <1>2
    <2> HIDE DEF t
    <2>4. Fine(t)
      BY <1>2, <2>2, UntouchedType
         DEF Fine, InsertFine, InsertPcs, BulkPcs, UpdatePcs
    <2>5. Opens(t)
      BY <2>2, UntouchedType DEF Opens, Runs, Indexes, IndexPcs
    <2>6. QED
      BY <2>1, <2>3, <2>4, <2>5 DEF Moves, Move, Txn
  <1>3. QED
    BY <1>1, <1>2 DEF CreateBegin

LEMMA ImportBeginMoves ==
    ASSUME NEW r \in Request, NEW payload \in SUBSET Draft,
           ImportBegin(r, payload)
    PROVE  Moves(r)
  <1>1. CASE Refuse(r, 400) \/ Refuse(r, 409)
    BY <1>1, RefuseMoves
  <1>2. CASE /\ \A d \in payload : d.category \in Category
             /\ Goto(r, [pc |-> "check", kind |-> "import", todo |-> payload,
                         new |-> Untouched, keys |-> {}])
    <2> DEFINE t == [pc |-> "check", kind |-> "import", todo |-> payload,
                     new |-> Untouched, keys |-> {}]
    <2>1. t \in InsertTxn
      BY UntouchedType DEF InsertTxn
    <2>2. /\ t.pc = "check" /\ t.todo = payload
          /\ t.new = Untouched /\ t.keys = {}
      OBVIOUS
    <2>3. Goto(r, t)
      BY <1>2
    <2> HIDE DEF t
    <2>4. Fine(t)
      BY <1>2, <2>2, UntouchedType
         DEF Fine, InsertFine, InsertPcs, BulkPcs, UpdatePcs
    <2>5. Opens(t)
      BY <2>2, UntouchedType DEF Opens, Runs, Indexes, IndexPcs
    <2>6. QED
      BY <2>1, <2>3, <2>4, <2>5 DEF Moves, Move, Txn
  <1>3. QED
    BY <1>1, <1>2 DEF ImportBegin

(* what the program counter of r says of its record                        *)
LEMMA FineTxn ==
    ASSUME BankOK, NEW r \in Request
    PROVE  LET t == txn[r]
           IN  /\ t \in Txn
               /\ t.pc \in InsertPcs => t \in InsertTxn /\ InsertFine(t)
               /\ t.pc \in BulkPcs => t \in BulkTxn /\ BulkFine(t)
               /\ t.pc \in UpdatePcs => t \in UpdateTxn /\ UpdateFine(t)
               /\ Runs(t) => /\ t.new \in Versions
                             /\ t.keys \in SUBSET (Title \X Category)
  <1>1. txn[r] \in Txn
    BY TxnType DEF BankOK
  <1>2. Fine(txn[r])
    BY DEF BankOK, FineOK
  <1>3. QED
    BY <1>1, <1>2, TxnKinds DEF Fine

LEMMA ImportCheckMoves ==
    ASSUME BankOK, NEW r \in Request, ImportCheck(r)
    PROVE  Moves(r)
  <1> DEFINE t == txn[r]
             u == [t EXCEPT !.pc = "insert"]
  <1>1. CASE Refuse(r, 409)
    BY <1>1, RefuseMoves
  <1>2. CASE t.pc = "check" /\ Goto(r, u)
    <2>1. t \in InsertTxn /\ InsertFine(t)
      BY <1>2, FineTxn DEF InsertPcs
    <2>2. /\ u \in InsertTxn
          /\ u.pc = "insert" /\ u.todo = t.todo
          /\ u.new = t.new /\ u.keys = t.keys
      BY <2>1 DEF InsertTxn
    <2>3. Goto(r, u)
      BY <1>2
    <2> HIDE DEF u
    <2>4. Fine(u)
      BY <2>1, <2>2 DEF Fine, InsertFine, InsertPcs, BulkPcs, UpdatePcs
    <2>5. Passes(r, u)
      BY <1>2, <2>2 DEF Passes, Runs, Indexes, IndexPcs
    <2>6. QED
      BY <2>2, <2>3, <2>4, <2>5 DEF Moves, Move, Txn
  <1>3. QED
    BY <1>1, <1>2 DEF ImportCheck

LEMMA InsertRowMoves ==
    ASSUME BankOK, NEW r \in Request, NEW d \in Draft, NEW q \in Question,
           InsertRow(r, d, q)
    PROVE  Moves(r)
  <1>1. PICK t : t = txn[r]
    OBVIOUS
  <1> DEFINE x == [title |-> d.title, category |-> d.category,
                   difficulty |-> d.difficulty, archived |-> FALSE]
             u == [t EXCEPT !.todo = @ \ {d}, !.new[q] = x,
                            !.keys = @ \cup {Pair(d)}]
  <1>2. Refuse(r, 409) \/ (~Taken(r, q, Pair(d)) /\ Goto(r, u))
    BY <1>1 DEF InsertRow
  <1>3. CASE Refuse(r, 409)
    BY <1>3, RefuseMoves
  <1>4. CASE ~Taken(r, q, Pair(d)) /\ Goto(r, u)
    <2>1. t.pc = "insert" /\ d \in t.todo
      BY <1>1 DEF InsertRow
    <2>2. t \in InsertTxn /\ InsertFine(t) /\ t.new \in Versions
      BY <1>1, <2>1, FineTxn DEF InsertPcs, Runs
    <2>3. d.category \in Category
      BY <2>1, <2>2 DEF InsertFine
    <2>4. x \in Row /\ Pair(x) = Pair(d) /\ ~x.archived
      BY <2>3 DEF Draft, Row, Pair
    <2>5. Goto(r, u)
      BY <1>4
    <2> HIDE DEF x
    <2>6. Pair(d) \in Title \X Category
      BY <2>4, PairType
    <2>7. /\ u \in InsertTxn
          /\ u.pc = t.pc
          /\ u.todo = t.todo \ {d}
          /\ u.new = [t.new EXCEPT ![q] = x]
          /\ u.keys = t.keys \cup {Pair(d)}
      BY <2>2, <2>4, <2>6 DEF InsertTxn, Versions
    <2>8. /\ q \in Question \ Bank
          /\ \A s \in Request : ~Touches(s, q)
          /\ \A s \in Request \ {r} : Pair(d) \notin KeysOf(s)
      BY DEF InsertRow
    <2> HIDE DEF u
    <2>9. InsertFine(u)
      BY <2>2, <2>4, <2>7, <2>8 DEF InsertFine, Versions
    <2>10. Fine(u)
      BY <2>1, <2>7, <2>9 DEF Fine, InsertPcs, BulkPcs, UpdatePcs
    <2>11. InsertsRow(r, u, q, x)
      BY <1>1, <1>4, <2>1, <2>4, <2>7, <2>8
         DEF InsertsRow, Runs, Indexes, IndexPcs
    <2>12. QED
      BY <2>4, <2>5, <2>7, <2>8, <2>10, <2>11 DEF Moves, Move, Inserts, Txn
  <1>5. QED
    BY <1>2, <1>3, <1>4

(* bulk_patch_questions, archive_questions, restore_questions              *)
LEMMA BulkStartMoves ==
    ASSUME NEW r \in Request, NEW kind \in {"patch", "archive", "restore"},
           NEW ids \in SUBSET Question, NEW rows \in SUBSET Bank,
           NEW category \in Category \cup {Keep},
           NEW difficulty \in Difficulty \cup {Keep},
           BulkStart(r, kind, ids, rows, category, difficulty)
    PROVE  Moves(r)
  <1> DEFINE t == [pc |-> "rows", kind |-> kind, ids |-> ids,
                   todo |-> ids \cap rows, at |-> NoRow, category |-> category,
                   difficulty |-> difficulty, new |-> Untouched, keys |-> {}]
  <1>1. t \in BulkTxn
    BY UntouchedType DEF BulkTxn
  <1>2. /\ t.pc = "rows" /\ t.todo = ids \cap rows
        /\ t.new = Untouched /\ t.keys = {}
    OBVIOUS
  <1>3. Goto(r, t)
    BY DEF BulkStart
  <1> HIDE DEF t
  <1>4. Fine(t)
    BY <1>2, UntouchedType
       DEF Fine, BulkFine, InsertPcs, BulkPcs, UpdatePcs, Bank
  <1>5. Opens(t)
    BY <1>2, UntouchedType DEF Opens, Runs, Indexes, IndexPcs
  <1>6. QED
    BY <1>1, <1>3, <1>4, <1>5 DEF Moves, Move, Txn

LEMMA BulkBeginMoves ==
    ASSUME NEW r \in Request, NEW ids \in SUBSET Question,
           \/ ArchiveBegin(r, ids)
           \/ RestoreBegin(r, ids)
           \/ \E c \in Slug \cup {Keep}, d \in Difficulty \cup {Keep} :
                 PatchBegin(r, ids, c, d)
    PROVE  Moves(r)
  <1>1. CASE ArchiveBegin(r, ids)
    <2>1. {q \in Bank : ~row[q].archived} \in SUBSET Bank
      OBVIOUS
    <2>2. QED
      BY <1>1, <2>1, BulkStartMoves DEF ArchiveBegin
  <1>2. CASE RestoreBegin(r, ids)
    <2>1. {q \in Bank : row[q].archived} \in SUBSET Bank
      OBVIOUS
    <2>2. QED
      BY <1>2, <2>1, BulkStartMoves DEF RestoreBegin
  <1>3. ASSUME NEW c \in Slug \cup {Keep}, NEW d \in Difficulty \cup {Keep},
               PatchBegin(r, ids, c, d)
        PROVE  Moves(r)
    BY <1>3, BulkStartMoves, RefuseMoves DEF PatchBegin
  <1>4. QED
    BY <1>1, <1>2, <1>3

(* what a bulk change makes of a row                                       *)
LEMMA ChangedRow ==
    ASSUME NEW t \in BulkTxn, NEW x \in Row
    PROVE  /\ Changed(t, x) \in Row
           /\ t.kind = "patch" => Changed(t, x).archived = x.archived
           /\ t.kind = "archive" => Changed(t, x).archived
           /\ t.kind = "restore" => ~Changed(t, x).archived
  BY DEF BulkTxn, Row, Changed

LEMMA BulkRowMoves ==
    ASSUME BankOK, NEW r \in Request, NEW q \in Question, BulkRow(r, q)
    PROVE  Moves(r)
  <1>1. PICK t : t = txn[r]
    OBVIOUS
  <1> DEFINE x == Changed(t, row[q])
             rest == [t EXCEPT !.todo = @ \ {q}]
             same == [rest EXCEPT !.new[q] = x]
             pair == [rest EXCEPT !.pc = "index", !.at = q, !.new[q] = x]
  <1>2. /\ t.pc = "rows"
        /\ q \in t.todo
        /\ \A s \in Request \ {r} : ~Touches(s, q)
    BY <1>1 DEF BulkRow
  <1>3. \/ ~Applies(t, row[q]) /\ Goto(r, rest)
        \/ Applies(t, row[q]) /\ Pair(x) = Pair(row[q]) /\ Goto(r, same)
        \/ Applies(t, row[q]) /\ Pair(x) # Pair(row[q]) /\ Goto(r, pair)
    BY <1>1 DEF BulkRow
  <1>4. /\ t \in BulkTxn /\ BulkFine(t) /\ t.new \in Versions
        /\ Runs(t) /\ ~Indexes(t)
    BY <1>1, <1>2, FineTxn DEF BulkPcs, Runs, Indexes, IndexPcs
  <1>5. q \in Bank /\ t.new[q] = NoRow /\ row[q] \in Row
    BY <1>2, <1>4, BankRow DEF BulkFine, BankOK
  <1>6. /\ x \in Row
        /\ t.kind = "patch" => x.archived = row[q].archived
        /\ t.kind = "archive" => x.archived
        /\ t.kind = "restore" => ~x.archived
    BY <1>4, <1>5, ChangedRow
  <1>7. Current(r, q) = row[q]
    BY <1>1, <1>5 DEF Current, Touches
  <1> HIDE DEF x
  <1>8. CASE Goto(r, rest)
    <2>1. /\ rest \in BulkTxn
          /\ rest.pc = "rows" /\ rest.kind = t.kind
          /\ rest.todo = t.todo \ {q}
          /\ rest.new = t.new /\ rest.keys = t.keys
      BY <1>2, <1>4 DEF BulkTxn
    <2> HIDE DEF rest
    <2>2. Fine(rest)
      BY <1>4, <2>1 DEF Fine, BulkFine, InsertPcs, BulkPcs, UpdatePcs
    <2>3. Passes(r, rest)
      BY <1>1, <1>4, <2>1 DEF Passes, Runs, Indexes, IndexPcs
    <2>4. QED
      BY <1>8, <2>1, <2>2, <2>3 DEF Moves, Move, Txn
  <1>9. CASE Applies(t, row[q]) /\ Pair(x) = Pair(row[q]) /\ Goto(r, same)
    <2>1. /\ same \in BulkTxn
          /\ same.pc = "rows" /\ same.kind = t.kind
          /\ same.todo = t.todo \ {q}
          /\ same.new = [t.new EXCEPT ![q] = x] /\ same.keys = t.keys
      BY <1>2, <1>4, <1>6 DEF BulkTxn, Versions
    <2> HIDE DEF same
    <2>2. BulkFine(same)
      <3> SUFFICES ASSUME NEW p \in Question, same.new[p] # NoRow
                   PROVE  /\ p \in Bank
                          /\ same.kind = "archive" =>
                                ~row[p].archived /\ same.new[p].archived
                          /\ same.kind = "restore" =>
                                row[p].archived /\ ~same.new[p].archived
                          /\ same.kind = "patch" =>
                                same.new[p].archived = row[p].archived
        BY <1>4, <2>1 DEF BulkFine, Versions, Bank
      <3>1. CASE p = q
        BY <1>4, <1>5, <1>6, <1>9, <2>1, <3>1 DEF Versions, Applies
      <3>2. CASE p # q
        BY <1>4, <2>1, <3>2 DEF BulkFine, Versions
      <3>3. QED
        BY <3>1, <3>2
    <2>3. Fine(same)
      BY <2>1, <2>2 DEF Fine, InsertPcs, BulkPcs, UpdatePcs
    <2>4. WritesRow(r, same, q, x)
      BY <1>1, <1>2, <1>4, <1>7, <1>9, <2>1
         DEF WritesRow, Runs, Indexes, IndexPcs
    <2>5. QED
      BY <1>5, <1>6, <1>9, <2>1, <2>3, <2>4 DEF Moves, Move, Writes, Txn
  <1>10. CASE Applies(t, row[q]) /\ Pair(x) # Pair(row[q]) /\ Goto(r, pair)
    <2>1. /\ pair \in BulkTxn
          /\ pair.pc = "index" /\ pair.kind = t.kind /\ pair.at = q
          /\ pair.todo = t.todo \ {q}
          /\ pair.new = [t.new EXCEPT ![q] = x] /\ pair.keys = t.keys
      BY <1>2, <1>4, <1>6 DEF BulkTxn, Versions
    <2> HIDE DEF pair
    <2>2. BulkFine(pair)
      <3> SUFFICES ASSUME NEW p \in Question, pair.new[p] # NoRow
                   PROVE  /\ p \in Bank
                          /\ pair.kind = "archive" =>
                                ~row[p].archived /\ pair.new[p].archived
                          /\ pair.kind = "restore" =>
                                row[p].archived /\ ~pair.new[p].archived
                          /\ pair.kind = "patch" =>
                                pair.new[p].archived = row[p].archived
        BY <1>4, <1>6, <2>1, RowsAreNot DEF BulkFine, Versions, Bank
      <3>1. CASE p = q
        BY <1>4, <1>5, <1>6, <1>10, <2>1, <3>1 DEF Versions, Applies
      <3>2. CASE p # q
        BY <1>4, <2>1, <3>2 DEF BulkFine, Versions
      <3>3. QED
        BY <3>1, <3>2
    <2>3. Fine(pair)
      BY <2>1, <2>2 DEF Fine, InsertPcs, BulkPcs, UpdatePcs
    <2>4. WritesRow(r, pair, q, x)
      BY <1>1, <1>2, <1>4, <2>1 DEF WritesRow, Runs, Indexes, IndexPcs
    <2>5. QED
      BY <1>5, <1>6, <1>10, <2>1, <2>3, <2>4 DEF Moves, Move, Writes, Txn
  <1>11. QED
    BY <1>3, <1>8, <1>9, <1>10

LEMMA BulkIndexMoves ==
    ASSUME BankOK, NEW r \in Request, BulkIndex(r)
    PROVE  Moves(r)
  <1>1. PICK t : t = txn[r]
    OBVIOUS
  <1> DEFINE pair == Pair(t.new[t.at])
             u == [t EXCEPT !.pc = "rows", !.at = NoRow,
                            !.keys = @ \cup {pair}]
  <1>2. t.pc = "index" /\ Free(r)
    BY <1>1 DEF BulkIndex
  <1>3. \/ Refuse(r, 409)
        \/ ~Taken(r, t.at, pair) /\ Goto(r, u)
    BY <1>1 DEF BulkIndex
  <1>4. CASE Refuse(r, 409)
    BY <1>4, RefuseMoves
  <1>5. CASE ~Taken(r, t.at, pair) /\ Goto(r, u)
    <2>1. t \in BulkTxn /\ BulkFine(t) /\ t.new \in Versions
      BY <1>1, <1>2, FineTxn DEF BulkPcs, Runs
    <2>2. t.at \in Question /\ t.new[t.at] # NoRow
      BY <1>2, <2>1 DEF BulkFine
    <2>3. pair \in Title \X Category
      BY <2>1, <2>2, RowType, PairType
    <2>4. \A s \in Request \ {r} : pair \notin KeysOf(s)
      BY <1>1, <1>2 DEF Free, WaitsFor
    <2> HIDE DEF pair
    <2>5. /\ u \in BulkTxn
          /\ u.pc = "rows" /\ u.kind = t.kind
          /\ u.todo = t.todo
          /\ u.new = t.new /\ u.keys = t.keys \cup {pair}
      BY <2>1, <2>3 DEF BulkTxn
    <2> HIDE DEF u
    <2>6. Fine(u)
      BY <2>1, <2>5 DEF Fine, BulkFine, InsertPcs, BulkPcs, UpdatePcs
    <2>7. Enters(r, u)
      BY <1>1, <1>2, <1>5, <2>2, <2>4, <2>5
         DEF Enters, Runs, Indexes, IndexPcs, pair
    <2>8. QED
      BY <1>5, <2>5, <2>6, <2>7 DEF Moves, Move, Txn
  <1>6. QED
    BY <1>3, <1>4, <1>5

(* update_question                                                         *)
LEMMA UpdateBeginMoves ==
    ASSUME NEW r \in Request, NEW q \in Question, NEW d \in Draft,
           UpdateBegin(r, q, d)
    PROVE  Moves(r)
  <1> DEFINE t == [pc |-> "load", kind |-> "update", at |-> q, draft |-> d,
                   loaded |-> NoRow, old |-> {}, gone |-> {},
                   new |-> Untouched, keys |-> {}]
  <1>1. t \in UpdateTxn
    BY UntouchedType DEF UpdateTxn
  <1>2. /\ t.pc = "load" /\ t.new = Untouched /\ t.keys = {}
    OBVIOUS
  <1>3. Goto(r, t)
    BY DEF UpdateBegin
  <1> HIDE DEF t
  <1>4. Fine(t)
    BY <1>2, UntouchedType
       DEF Fine, UpdateFine, InsertPcs, BulkPcs, UpdatePcs
  <1>5. Opens(t)
    BY <1>2, UntouchedType DEF Opens, Runs, Indexes, IndexPcs
  <1>6. QED
    BY <1>1, <1>3, <1>4, <1>5 DEF Moves, Move, Txn

LEMMA UpdateLoadMoves ==
    ASSUME BankOK, NEW r \in Request, UpdateLoad(r)
    PROVE  Moves(r)
  <1>1. PICK t : t = txn[r]
    OBVIOUS
  <1> DEFINE u == [t EXCEPT !.pc = "load_options", !.loaded = row[t.at]]
  <1>2. t.pc = "load"
    BY <1>1 DEF UpdateLoad
  <1>3. Refuse(r, 404) \/ (t.at \in Bank /\ Goto(r, u))
    BY <1>1 DEF UpdateLoad
  <1>4. t \in UpdateTxn /\ UpdateFine(t)
    BY <1>1, <1>2, FineTxn DEF UpdatePcs
  <1>5. CASE Refuse(r, 404)
    BY <1>5, RefuseMoves
  <1>6. CASE t.at \in Bank /\ Goto(r, u)
    <2>1. row[t.at] \in Row
      BY <1>6, BankRow DEF BankOK
    <2>2. /\ u \in UpdateTxn
          /\ u.pc = "load_options" /\ u.at = t.at /\ u.loaded \in Row
          /\ u.new = t.new /\ u.keys = t.keys
      BY <1>4, <2>1 DEF UpdateTxn
    <2> HIDE DEF u
    <2>3. Fine(u)
      BY <1>2, <1>4, <1>6, <2>2
         DEF Fine, UpdateFine, InsertPcs, BulkPcs, UpdatePcs
    <2>4. Passes(r, u)
      BY <1>1, <1>2, <2>2 DEF Passes, Runs, Indexes, IndexPcs
    <2>5. QED
      BY <1>6, <2>2, <2>3, <2>4 DEF Moves, Move, Txn
  <1>7. QED
    BY <1>3, <1>5, <1>6

(* the options it has loaded are one list                                  *)
LEMMA UpdateLoadOptionsMoves ==
    ASSUME BankOK, NEW r \in Request, UpdateLoadOptions(r)
    PROVE  Moves(r)
  <1>1. PICK t : t = txn[r]
    OBVIOUS
  <1> DEFINE u == [t EXCEPT !.pc = "flush", !.old = options[t.at]]
  <1>2. t.pc = "load_options" /\ Goto(r, u)
    BY <1>1 DEF UpdateLoadOptions
  <1>3. t \in UpdateTxn /\ UpdateFine(t)
    BY <1>1, <1>2, FineTxn DEF UpdatePcs
  <1>4. t.at \in Bank /\ \E n \in Nat : options[t.at] = {n}
    BY <1>2, <1>3 DEF UpdateFine, BankOK, ListsOK
  <1>5. /\ u \in UpdateTxn
        /\ u.pc = "flush" /\ u.at = t.at /\ u.loaded = t.loaded
        /\ u.old = options[t.at]
        /\ u.new = t.new /\ u.keys = t.keys
    BY <1>3, <1>4 DEF UpdateTxn
  <1>6. Goto(r, u)
    BY <1>2
  <1> HIDE DEF u
  <1>7. Fine(u)
    BY <1>2, <1>3, <1>4, <1>5
       DEF Fine, UpdateFine, InsertPcs, BulkPcs, UpdatePcs
  <1>8. Passes(r, u)
    BY <1>1, <1>2, <1>5 DEF Passes, Runs, Indexes, IndexPcs
  <1>9. QED
    BY <1>5, <1>6, <1>7, <1>8 DEF Moves, Move, Txn

(* the category is looked up after a flush                                 *)
LEMMA LookupMoves ==
    ASSUME BankOK, NEW r \in Request, NEW t \in UpdateTxn,
           \A q \in Question : t.new[q] # NoRow =>
              q = t.at /\ t.new[q].archived = row[q].archived,
           t.at \in Bank, t.loaded \in Row, \E n \in Nat : t.old = {n},
           \A u \in UpdateTxn :
              u.pc = "move" /\ u.new = t.new /\ u.keys = t.keys
                 => Move(r, u),
           Lookup(r, t)
    PROVE  Moves(r)
  <1> DEFINE u == [t EXCEPT !.pc = "move"]
  <1>1. CASE Refuse(r, 400)
    BY <1>1, RefuseMoves
  <1>2. CASE t.draft.category \in Category /\ Goto(r, u)
    <2>1. /\ u \in UpdateTxn
          /\ u.pc = "move" /\ u.at = t.at /\ u.draft = t.draft
          /\ u.loaded = t.loaded /\ u.old = t.old
          /\ u.new = t.new /\ u.keys = t.keys
      BY DEF UpdateTxn
    <2> HIDE DEF u
    <2>2. Fine(u)
      BY <1>2, <2>1 DEF Fine, UpdateFine, InsertPcs, BulkPcs, UpdatePcs
    <2>3. QED
      BY <1>2, <2>1, <2>2 DEF Moves, Txn
  <1>3. QED
    BY <1>1, <1>2 DEF Lookup

LEMMA FlushedRow ==
    ASSUME NEW t \in UpdateTxn, NEW x \in Row
    PROVE  Flushed(t, x) \in Row /\ Flushed(t, x).archived = x.archived
  BY DEF UpdateTxn, Row, Flushed, Draft

LEMMA UpdateFlushMoves ==
    ASSUME BankOK, NEW r \in Request, UpdateFlush(r)
    PROVE  Moves(r)
  <1>1. PICK t : t = txn[r]
    OBVIOUS
  <1> DEFINE x == Flushed(t, row[t.at])
             written == [t EXCEPT !.new[t.at] = x]
             pair == [written EXCEPT !.pc = "index_flush"]
  <1>2. t.pc = "flush" /\ Free(r)
    BY <1>1 DEF UpdateFlush
  <1>3. \/ ~TitleFlushed(t) /\ Lookup(r, t)
        \/ TitleFlushed(t) /\ Pair(x) = Pair(row[t.at]) /\ Lookup(r, written)
        \/ TitleFlushed(t) /\ Pair(x) # Pair(row[t.at]) /\ Goto(r, pair)
    BY <1>1 DEF UpdateFlush
  <1>4. /\ t \in UpdateTxn /\ UpdateFine(t) /\ t.new \in Versions
        /\ Runs(t) /\ ~Indexes(t)
    BY <1>1, <1>2, FineTxn DEF UpdatePcs, Runs, Indexes, IndexPcs
  <1>5. /\ t.at \in Bank /\ t.at \in Question /\ row[t.at] \in Row
        /\ \A q \in Question : t.new[q] = NoRow
        /\ t.loaded \in Row
        /\ \E n \in Nat : t.old = {n}
    BY <1>2, <1>4, BankRow DEF UpdateFine, BankOK
  <1>6. x \in Row /\ x.archived = row[t.at].archived
    BY <1>4, <1>5, FlushedRow
  <1>7. Current(r, t.at) = row[t.at]
    BY <1>1, <1>5 DEF Current, Touches
  <1>8. ASSUME TitleFlushed(t)
        PROVE  \A s \in Request \ {r} : ~Touches(s, t.at)
    BY <1>1, <1>2, <1>8 DEF Free, WaitsFor
  <1> HIDE DEF x
  <1>9. CASE ~TitleFlushed(t) /\ Lookup(r, t)
    <2>1. ASSUME NEW u \in UpdateTxn,
                 u.pc = "move", u.new = t.new, u.keys = t.keys
          PROVE  Move(r, u)
      BY <1>1, <1>4, <2>1 DEF Move, Passes, Runs, Indexes, IndexPcs
    <2>2. QED
      BY <1>4, <1>5, <1>9, <2>1, LookupMoves
  <1>10. CASE /\ TitleFlushed(t)
              /\ Pair(x) = Pair(row[t.at])
              /\ Lookup(r, written)
    <2>1. /\ written \in UpdateTxn
          /\ written.at = t.at /\ written.loaded = t.loaded
          /\ written.old = t.old
          /\ written.new = [t.new EXCEPT ![t.at] = x]
          /\ written.keys = t.keys
      BY <1>4, <1>5, <1>6 DEF UpdateTxn, Versions
    <2>2. Lookup(r, written)
      BY <1>10
    <2> HIDE DEF written
    <2>3. ASSUME NEW u \in UpdateTxn,
                 u.pc = "move", u.new = written.new, u.keys = written.keys
          PROVE  Move(r, u)
      <3>1. WritesRow(r, u, t.at, x)
        BY <1>1, <1>4, <1>7, <1>8, <1>10, <2>1, <2>3
           DEF WritesRow, Runs, Indexes, IndexPcs
      <3>2. QED
        BY <1>5, <1>6, <3>1 DEF Move, Writes
    <2>4. \A q \in Question : written.new[q] # NoRow =>
             q = written.at /\ written.new[q].archived = row[q].archived
      BY <1>4, <1>5, <1>6, <2>1 DEF Versions
    <2>5. QED
      BY <1>5, <2>1, <2>2, <2>3, <2>4, LookupMoves
  <1>11. CASE /\ TitleFlushed(t)
              /\ Pair(x) # Pair(row[t.at])
              /\ Goto(r, pair)
    <2>1. /\ pair \in UpdateTxn
          /\ pair.pc = "index_flush" /\ pair.at = t.at
          /\ pair.loaded = t.loaded /\ pair.old = t.old
          /\ pair.new = [t.new EXCEPT ![t.at] = x]
          /\ pair.keys = t.keys
      BY <1>4, <1>5, <1>6 DEF UpdateTxn, Versions
    <2>2. Goto(r, pair)
      BY <1>11
    <2> HIDE DEF pair
    <2>3. \A q \in Question : pair.new[q] # NoRow =>
             q = pair.at /\ pair.new[q].archived = row[q].archived
      BY <1>4, <1>5, <1>6, <2>1 DEF Versions
    <2>4. pair.new[pair.at] # NoRow
      BY <1>4, <1>5, <1>6, <2>1, RowsAreNot DEF Versions
    <2>5. Fine(pair)
      BY <1>5, <2>1, <2>3, <2>4
         DEF Fine, UpdateFine, InsertPcs, BulkPcs, UpdatePcs
    <2>6. WritesRow(r, pair, t.at, x)
      BY <1>1, <1>4, <1>8, <1>11, <2>1
         DEF WritesRow, Runs, Indexes, IndexPcs
    <2>7. QED
      BY <1>5, <1>6, <2>1, <2>2, <2>5, <2>6 DEF Moves, Move, Writes, Txn
  <1>12. QED
    BY <1>3, <1>9, <1>10, <1>11

LEMMA UpdateIndexFlushMoves ==
    ASSUME BankOK, NEW r \in Request, UpdateIndexFlush(r)
    PROVE  Moves(r)
  <1>1. PICK t : t = txn[r]
    OBVIOUS
  <1> DEFINE pair == Pair(t.new[t.at])
             u == [t EXCEPT !.keys = @ \cup {pair}]
  <1>2. t.pc = "index_flush" /\ Free(r)
    BY <1>1 DEF UpdateIndexFlush
  <1>3. \/ Refuse(r, 500)
        \/ ~Taken(r, t.at, pair) /\ Lookup(r, u)
    BY <1>1 DEF UpdateIndexFlush
  <1>4. CASE Refuse(r, 500)
    BY <1>4, RefuseMoves
  <1>5. CASE ~Taken(r, t.at, pair) /\ Lookup(r, u)
    <2>1. t \in UpdateTxn /\ UpdateFine(t) /\ t.new \in Versions
      BY <1>1, <1>2, FineTxn DEF UpdatePcs, Runs
    <2>2. /\ t.at \in Bank /\ t.at \in Question /\ t.new[t.at] # NoRow
          /\ t.loaded \in Row /\ \E n \in Nat : t.old = {n}
      BY <1>2, <2>1, BankRow DEF UpdateFine, BankOK
    <2>3. pair \in Title \X Category
      BY <2>1, <2>2, RowType, PairType
    <2>4. \A s \in Request \ {r} : pair \notin KeysOf(s)
      BY <1>1, <1>2 DEF Free, WaitsFor
    <2>5. /\ ~Taken(r, t.at, pair)
          /\ Lookup(r, u)
      BY <1>5
    <2> HIDE DEF pair
    <2>6. /\ u \in UpdateTxn
          /\ u.at = t.at /\ u.loaded = t.loaded /\ u.old = t.old
          /\ u.new = t.new /\ u.keys = t.keys \cup {pair}
      BY <2>1, <2>3 DEF UpdateTxn
    <2> HIDE DEF u
    <2>7. ASSUME NEW v \in UpdateTxn,
                 v.pc = "move", v.new = u.new, v.keys = u.keys
          PROVE  Move(r, v)
      <3>1. Enters(r, v)
        BY <1>1, <1>2, <2>2, <2>4, <2>5, <2>6, <2>7
           DEF Enters, Runs, Indexes, IndexPcs, pair
      <3>2. QED
        BY <3>1 DEF Move
    <2>8. QED
      BY <2>1, <2>2, <2>5, <2>6, <2>7, LookupMoves DEF UpdateFine
  <1>6. QED
    BY <1>3, <1>4, <1>5

LEMMA UpdateMoveMoves ==
    ASSUME BankOK, NEW r \in Request, UpdateMove(r)
    PROVE  Moves(r)
  <1>1. PICK t : t = txn[r]
    OBVIOUS
  <1> DEFINE here == Current(r, t.at)
             x == [here EXCEPT !.category = t.draft.category]
             stay == [t EXCEPT !.pc = "delete"]
             same == [t EXCEPT !.pc = "delete", !.new[t.at] = x]
             pair == [t EXCEPT !.pc = "index_move", !.new[t.at] = x]
  <1>2. t.pc = "move" /\ Free(r)
    BY <1>1 DEF UpdateMove
  <1>3. \/ ~Moved(t) /\ Goto(r, stay)
        \/ Moved(t) /\ Pair(x) = Pair(here) /\ Goto(r, same)
        \/ Moved(t) /\ Pair(x) # Pair(here) /\ Goto(r, pair)
    BY <1>1 DEF UpdateMove
  <1>4. /\ t \in UpdateTxn /\ UpdateFine(t) /\ t.new \in Versions
        /\ Runs(t) /\ ~Indexes(t)
    BY <1>1, <1>2, FineTxn DEF UpdatePcs, Runs, Indexes, IndexPcs
  <1>5. /\ t.at \in Bank /\ t.at \in Question /\ row[t.at] \in Row
        /\ t.loaded \in Row
        /\ t.draft.category \in Category
        /\ \E n \in Nat : t.old = {n}
        /\ \A q \in Question : t.new[q] # NoRow =>
              q = t.at /\ t.new[q].archived = row[q].archived
    BY <1>2, <1>4, BankRow DEF UpdateFine, BankOK
  <1>6. here \in Row /\ here.archived = row[t.at].archived
    BY <1>1, <1>4, <1>5, RowType DEF Current, Touches, InTxn, Runs
  <1> HIDE DEF here
  <1>7. x \in Row /\ x.archived = row[t.at].archived
    BY <1>5, <1>6 DEF Row
  <1>8. ASSUME Moved(t)
        PROVE  \A s \in Request \ {r} : ~Touches(s, t.at)
    BY <1>1, <1>2, <1>8 DEF Free, WaitsFor
  <1> HIDE DEF x
  <1>9. CASE Goto(r, stay)
    <2>1. /\ stay \in UpdateTxn
          /\ stay.pc = "delete" /\ stay.at = t.at /\ stay.draft = t.draft
          /\ stay.loaded = t.loaded /\ stay.old = t.old
          /\ stay.new = t.new /\ stay.keys = t.keys
      BY <1>4 DEF UpdateTxn
    <2>2. Goto(r, stay)
      BY <1>9
    <2> HIDE DEF stay
    <2>3. Fine(stay)
      BY <1>5, <2>1 DEF Fine, UpdateFine, InsertPcs, BulkPcs, UpdatePcs
    <2>4. Passes(r, stay)
      BY <1>1, <1>4, <2>1 DEF Passes, Runs, Indexes, IndexPcs
    <2>5. QED
      BY <2>1, <2>2, <2>3, <2>4 DEF Moves, Move, Txn
  <1>10. CASE Moved(t) /\ Pair(x) = Pair(here) /\ Goto(r, same)
    <2>1. /\ same \in UpdateTxn
          /\ same.pc = "delete" /\ same.at = t.at /\ same.draft = t.draft
          /\ same.loaded = t.loaded /\ same.old = t.old
          /\ same.new = [t.new EXCEPT ![t.at] = x] /\ same.keys = t.keys
      BY <1>4, <1>5, <1>7 DEF UpdateTxn, Versions
    <2>2. Goto(r, same)
      BY <1>10
    <2> HIDE DEF same
    <2>3. \A q \in Question : same.new[q] # NoRow =>
             q = same.at /\ same.new[q].archived = row[q].archived
      BY <1>4, <1>5, <1>7, <2>1 DEF Versions
    <2>4. Fine(same)
      BY <1>5, <2>1, <2>3
         DEF Fine, UpdateFine, InsertPcs, BulkPcs, UpdatePcs
    <2>5. WritesRow(r, same, t.at, x)
      BY <1>1, <1>4, <1>8, <1>10, <2>1
         DEF WritesRow, Runs, Indexes, IndexPcs, here
    <2>6. QED
      BY <1>5, <1>7, <2>1, <2>2, <2>4, <2>5 DEF Moves, Move, Writes, Txn
  <1>11. CASE Moved(t) /\ Pair(x) # Pair(here) /\ Goto(r, pair)
    <2>1. /\ pair \in UpdateTxn
          /\ pair.pc = "index_move" /\ pair.at = t.at
          /\ pair.draft = t.draft
          /\ pair.loaded = t.loaded /\ pair.old = t.old
          /\ pair.new = [t.new EXCEPT ![t.at] = x] /\ pair.keys = t.keys
      BY <1>4, <1>5, <1>7 DEF UpdateTxn, Versions
    <2>2. Goto(r, pair)
      BY <1>11
    <2> HIDE DEF pair
    <2>3. \A q \in Question : pair.new[q] # NoRow =>
             q = pair.at /\ pair.new[q].archived = row[q].archived
      BY <1>4, <1>5, <1>7, <2>1 DEF Versions
    <2>4. pair.new[pair.at] # NoRow
      BY <1>4, <1>5, <1>7, <2>1, RowsAreNot DEF Versions
    <2>5. Fine(pair)
      BY <1>5, <2>1, <2>3, <2>4
         DEF Fine, UpdateFine, InsertPcs, BulkPcs, UpdatePcs
    <2>6. WritesRow(r, pair, t.at, x)
      BY <1>1, <1>4, <1>8, <1>11, <2>1
         DEF WritesRow, Runs, Indexes, IndexPcs
    <2>7. QED
      BY <1>5, <1>7, <2>1, <2>2, <2>5, <2>6 DEF Moves, Move, Writes, Txn
  <1>12. QED
    BY <1>3, <1>9, <1>10, <1>11

LEMMA UpdateIndexMoveMoves ==
    ASSUME BankOK, NEW r \in Request, UpdateIndexMove(r)
    PROVE  Moves(r)
  <1>1. PICK t : t = txn[r]
    OBVIOUS
  <1> DEFINE pair == Pair(t.new[t.at])
             u == [t EXCEPT !.pc = "delete", !.keys = @ \cup {pair}]
  <1>2. t.pc = "index_move" /\ Free(r)
    BY <1>1 DEF UpdateIndexMove
  <1>3. \/ Refuse(r, 500)
        \/ ~Taken(r, t.at, pair) /\ Goto(r, u)
    BY <1>1 DEF UpdateIndexMove
  <1>4. CASE Refuse(r, 500)
    BY <1>4, RefuseMoves
  <1>5. CASE ~Taken(r, t.at, pair) /\ Goto(r, u)
    <2>1. t \in UpdateTxn /\ UpdateFine(t) /\ t.new \in Versions
      BY <1>1, <1>2, FineTxn DEF UpdatePcs, Runs
    <2>2. t.at \in Bank /\ t.at \in Question /\ t.new[t.at] # NoRow
      BY <1>2, <2>1, BankRow DEF UpdateFine, BankOK
    <2>3. pair \in Title \X Category
      BY <2>1, <2>2, RowType, PairType
    <2>4. \A s \in Request \ {r} : pair \notin KeysOf(s)
      BY <1>1, <1>2 DEF Free, WaitsFor
    <2>5. ~Taken(r, t.at, pair) /\ Goto(r, u)
      BY <1>5
    <2> HIDE DEF pair
    <2>6. /\ u \in UpdateTxn
          /\ u.pc = "delete" /\ u.at = t.at /\ u.draft = t.draft
          /\ u.loaded = t.loaded /\ u.old = t.old
          /\ u.new = t.new /\ u.keys = t.keys \cup {pair}
      BY <2>1, <2>3 DEF UpdateTxn
    <2> HIDE DEF u
    <2>7. Fine(u)
      BY <1>2, <2>1, <2>6
         DEF Fine, UpdateFine, InsertPcs, BulkPcs, UpdatePcs
    <2>8. Enters(r, u)
      BY <1>1, <1>2, <2>2, <2>4, <2>5, <2>6
         DEF Enters, Runs, Indexes, IndexPcs, pair
    <2>9. QED
      BY <2>5, <2>6, <2>7, <2>8 DEF Moves, Move, Txn
  <1>6. QED
    BY <1>3, <1>4, <1>5

(* of the options it deletes it has loaded every one                       *)
LEMMA UpdateDeleteMoves ==
    ASSUME BankOK, NEW r \in Request, UpdateDelete(r)
    PROVE  Moves(r)
  <1>1. PICK t : t = txn[r]
    OBVIOUS
  <1> DEFINE u == [t EXCEPT !.pc = "options",
                            !.gone = t.old \cap options[t.at]]
  <1>2. t.pc = "delete" /\ Goto(r, u)
    BY <1>1 DEF UpdateDelete
  <1>3. t \in UpdateTxn /\ UpdateFine(t)
    BY <1>1, <1>2, FineTxn DEF UpdatePcs
  <1>4. /\ u \in UpdateTxn
        /\ u.pc = "options" /\ u.at = t.at /\ u.draft = t.draft
        /\ u.loaded = t.loaded /\ u.old = t.old
        /\ u.gone = t.old \cap options[t.at]
        /\ u.new = t.new /\ u.keys = t.keys
    BY <1>3 DEF UpdateTxn
  <1>5. Goto(r, u)
    BY <1>2
  <1> HIDE DEF u
  <1>6. Fine(u)
    BY <1>2, <1>3, <1>4
       DEF Fine, UpdateFine, InsertPcs, BulkPcs, UpdatePcs
  <1>7. Passes(r, u)
    BY <1>1, <1>2, <1>4 DEF Passes, Runs, Indexes, IndexPcs
  <1>8. QED
    BY <1>4, <1>5, <1>6, <1>7 DEF Moves, Move, Txn

(* a step commits, or else it is one of the moves                          *)
LEMMA StepKinds ==
    ASSUME BankOK, NEW r \in Request, Arrive(r) \/ Serve(r) \/ Crash(r)
    PROVE  \/ InsertCommit(r)
           \/ BulkCommit(r)
           \/ UpdateCommit(r) /\ ~Collides(txn[r])
           \/ Moves(r)
  <1>1. CASE Arrive(r)
    BY <1>1, CreateBeginMoves, ImportBeginMoves, UpdateBeginMoves,
       BulkBeginMoves, BankAssumption DEF Arrive, BankAssumption
  <1>2. CASE UpdateCommit(r)
    BY <1>2, RefuseMoves DEF UpdateCommit
  <1>3. CASE DeadlockAbort(r)
    BY <1>3, RefuseMoves DEF DeadlockAbort
  <1>4. CASE Respond(r)
    BY <1>4, LeavesMoves DEF Respond
  <1>5. CASE Crash(r)
    BY <1>5, LeavesMoves DEF Crash
  <1>6. QED
    BY <1>1, <1>2, <1>3, <1>4, <1>5, ImportCheckMoves, InsertRowMoves,
       BulkRowMoves, BulkIndexMoves, UpdateLoadMoves, UpdateLoadOptionsMoves,
       UpdateFlushMoves, UpdateIndexFlushMoves, UpdateMoveMoves,
       UpdateIndexMoveMoves, UpdateDeleteMoves DEF Serve

-----------------------------------------------------------------------------
(***************************************************************************)
(* What keeps titles unique while several requests change the bank: a row  *)
(* lock and an index entry have one owner each, every pair that a request  *)
(* may commit is among its entries, and the bank is free of duplicates as  *)
(* each request sees it, but for the pair that it is waiting to enter.     *)
(***************************************************************************)
LocksOK ==
    \A r, s \in Request, q \in Question :
        Touches(r, q) /\ Touches(s, q) => r = s

KeysApart ==
    \A r, s \in Request : r # s => KeysOf(r) \cap KeysOf(s) = {}

(* an entered pair that a committed row has is the entry's owner's to free *)
KeysTaken ==
    \A r \in Request, q \in Bank :
        InTxn(r) /\ Pair(row[q]) \in txn[r].keys => Touches(r, q)

(* q's new pair is still to be entered                                     *)
Waits(t, q) == Indexes(t) /\ t.at = q

Entered ==
    \A r \in Request, q \in Question :
        Touches(r, q) /\ ~Waits(txn[r], q)
           => Pair(txn[r].new[q]) \in KeysOf(r)

ViewsUnique ==
    \A r \in Request, p, q \in Question :
        /\ Current(r, p) # NoRow
        /\ Current(r, q) # NoRow
        /\ Pair(Current(r, p)) = Pair(Current(r, q))
        /\ ~Waits(txn[r], p)
        /\ ~Waits(txn[r], q)
        => p = q

PairsOK == /\ LocksOK
           /\ KeysApart
           /\ KeysTaken
           /\ Entered
           /\ ViewsUnique
           /\ UniquePairs

BankInv == BankOK /\ PairsOK /\ AffectedExact

LEMMA OwnView ==
    ASSUME NEW r \in Request
    PROVE  /\ InTxn(r) <=> Runs(txn[r])
           /\ \A q \in Question : Touches(r, q) <=> Holds(txn[r], q)
           /\ \A q \in Question : Current(r, q) = View(txn[r], q)
           /\ KeysOf(r) = Keys(txn[r])
  <1>1. InTxn(r) <=> Runs(txn[r])
    BY DEF InTxn, Runs
  <1>2. \A q \in Question : Touches(r, q) <=> Holds(txn[r], q)
    BY <1>1 DEF Touches, Holds
  <1>3. {p \in Bank : Touches(r, p)} = {p \in Bank : Holds(txn[r], p)}
    BY <1>2 DEF Bank
  <1>4. KeysOf(r) = Keys(txn[r])
    BY <1>1, <1>3 DEF KeysOf, Keys
  <1>5. QED
    BY <1>1, <1>2, <1>4 DEF Current, View

(* after a step of r that commits nothing                                  *)
LEMMA GotoView ==
    ASSUME TypeOK, NEW r \in Request, NEW t \in Txn, Goto(r, t)
    PROVE  /\ UNCHANGED <<row, options, edits, shelved>>
           /\ txn' = [txn EXCEPT ![r] = t]
           /\ txn'[r] = t
           /\ Bank' = Bank
           /\ InTxn(r)' <=> Runs(t)
           /\ \A q \in Question : Touches(r, q)' <=> Holds(t, q)
           /\ \A q \in Question : Current(r, q)' = View(t, q)
           /\ KeysOf(r)' = Keys(t)
           /\ \A s \in Request \ {r} :
                 /\ txn'[s] = txn[s]
                 /\ InTxn(s)' <=> InTxn(s)
                 /\ \A q \in Question : Touches(s, q)' <=> Touches(s, q)
                 /\ \A q \in Question : Current(s, q)' = Current(s, q)
                 /\ KeysOf(s)' = KeysOf(s)
  <1>1. /\ UNCHANGED <<row, options, edits, shelved>>
        /\ txn' = [txn EXCEPT ![r] = t]
    BY DEF Goto
  <1>2. /\ txn'[r] = t
        /\ \A s \in Request \ {r} : txn'[s] = txn[s]
    BY <1>1 DEF TypeOK
  <1>3. Bank' = Bank
    BY <1>1 DEF Bank
  <1>4. InTxn(r)' <=> Runs(t)
    BY <1>2 DEF InTxn, Runs
  <1>5. \A q \in Question : Touches(r, q)' <=> Holds(t, q)
    BY <1>2, <1>4 DEF Touches, Holds
  <1>6. \A q \in Question : Current(r, q)' = View(t, q)
    BY <1>1, <1>2, <1>5 DEF Current, View
  <1>7. KeysOf(r)' = Keys(t)
    <2>1. {p \in Bank : Touches(r, p)}' = {p \in Bank : Holds(t, p)}
      BY <1>3, <1>5 DEF Bank
    <2>2. QED
      BY <1>1, <1>2, <1>4, <2>1 DEF KeysOf, Keys
  <1>8. ASSUME NEW s \in Request \ {r}
        PROVE  /\ InTxn(s)' <=> InTxn(s)
               /\ \A q \in Question : Touches(s, q)' <=> Touches(s, q)
               /\ \A q \in Question : Current(s, q)' = Current(s, q)
               /\ KeysOf(s)' = KeysOf(s)
    <2>1. InTxn(s)' <=> InTxn(s)
      BY <1>2 DEF InTxn
    <2>2. \A q \in Question : Touches(s, q)' <=> Touches(s, q)
      BY <1>2, <2>1 DEF Touches
    <2>3. \A q \in Question : Current(s, q)' = Current(s, q)
      BY <1>1, <1>2, <2>2 DEF Current
    <2>4. {p \in Bank : Touches(s, p)}' = {p \in Bank : Touches(s, p)}
      BY <1>3, <2>2 DEF Bank
    <2>5. KeysOf(s)' = KeysOf(s)
      BY <1>1, <1>2, <2>1, <2>4 DEF KeysOf
    <2>6. QED
      BY <2>1, <2>2, <2>3, <2>5
  <1>9. QED
    BY <1>1, <1>2, <1>3, <1>4, <1>5, <1>6, <1>7, <1>8

(***************************************************************************)
(* What each kind of move does to the locks, the view and the index        *)
(* entries of r.                                                           *)
(***************************************************************************)
LEMMA FreshView ==
    ASSUME NEW t \in Txn, Leaves(t) \/ Opens(t)
    PROVE  /\ \A q \in Question : ~Holds(t, q) /\ View(t, q) = row[q]
           /\ Keys(t) = {}
           /\ Runs(t) => ~Indexes(t) /\ t.keys = {}
  <1>1. \A q \in Question : ~Holds(t, q)
    BY DEF Leaves, Opens, Holds
  <1>2. {p \in Bank : Holds(t, p)} = {}
    BY <1>1 DEF Bank
  <1>3. Keys(t) = {}
    BY <1>2 DEF Keys, Leaves, Opens
  <1>4. QED
    BY <1>1, <1>3 DEF View, Leaves, Opens

LEMMA PassesView ==
    ASSUME NEW r \in Request, NEW t \in Txn, Passes(r, t)
    PROVE  /\ \A q \in Question :
                 /\ Holds(t, q) <=> Holds(txn[r], q)
                 /\ View(t, q) = View(txn[r], q)
           /\ Keys(t) = Keys(txn[r])
  <1>1. \A q \in Question : Holds(t, q) <=> Holds(txn[r], q)
    BY DEF Passes, Holds
  <1>2. {p \in Bank : Holds(t, p)} = {p \in Bank : Holds(txn[r], p)}
    BY <1>1 DEF Bank
  <1>3. Keys(t) = Keys(txn[r])
    BY <1>2 DEF Keys, Passes
  <1>4. QED
    BY <1>1, <1>3 DEF View, Passes

LEMMA EntersView ==
    ASSUME NEW r \in Request, NEW t \in Txn, Enters(r, t)
    PROVE  /\ \A q \in Question :
                 /\ Holds(t, q) <=> Holds(txn[r], q)
                 /\ View(t, q) = View(txn[r], q)
           /\ Keys(t) = Keys(txn[r]) \cup {Pair(txn[r].new[txn[r].at])}
  <1>1. \A q \in Question : Holds(t, q) <=> Holds(txn[r], q)
    BY DEF Enters, Holds
  <1>2. {p \in Bank : Holds(t, p)} = {p \in Bank : Holds(txn[r], p)}
    BY <1>1 DEF Bank
  <1>3. Keys(t) = Keys(txn[r]) \cup {Pair(txn[r].new[txn[r].at])}
    BY <1>2 DEF Keys, Enters
  <1>4. QED
    BY <1>1, <1>3 DEF View, Enters

LEMMA WritesView ==
    ASSUME TypeOK, NEW r \in Request, NEW t \in Txn,
           NEW q \in Bank, NEW x \in Row, WritesRow(r, t, q, x)
    PROVE  /\ \A p \in Question :
                 /\ Holds(t, p) <=> p = q \/ Holds(txn[r], p)
                 /\ p = q => t.new[p] = x /\ View(t, p) = x
                 /\ p # q => /\ t.new[p] = txn[r].new[p]
                             /\ View(t, p) = View(txn[r], p)
           /\ Keys(t) = Keys(txn[r]) \cup {Pair(row[q])}
  <1>1. q \in Question /\ x # NoRow
    BY RowsAreNot DEF Bank
  <1>2. txn[r].new \in Versions
    BY TxnType, TxnKinds DEF WritesRow
  <1>3. \A p \in Question :
           t.new[p] = IF p = q THEN x ELSE txn[r].new[p]
    BY <1>2 DEF WritesRow, Versions
  <1>4. \A p \in Question : Holds(t, p) <=> p = q \/ Holds(txn[r], p)
    BY <1>1, <1>3 DEF WritesRow, Holds
  <1>5. {p \in Bank : Holds(t, p)} = {p \in Bank : Holds(txn[r], p)} \cup {q}
    BY <1>4 DEF Bank
  <1>6. Keys(t) = Keys(txn[r]) \cup {Pair(row[q])}
    BY <1>5 DEF Keys, WritesRow
  <1>7. \A p \in Question :
           View(t, p) = IF p = q THEN x ELSE View(txn[r], p)
    BY <1>3, <1>4 DEF View
  <1>8. QED
    BY <1>3, <1>4, <1>6, <1>7

LEMMA InsertsView ==
    ASSUME TypeOK, NEW r \in Request, NEW t \in Txn,
           NEW q \in Question \ Bank, NEW x \in Row, InsertsRow(r, t, q, x)
    PROVE  /\ \A p \in Question :
                 /\ Holds(t, p) <=> p = q \/ Holds(txn[r], p)
                 /\ p = q => t.new[p] = x /\ View(t, p) = x
                 /\ p # q => /\ t.new[p] = txn[r].new[p]
                             /\ View(t, p) = View(txn[r], p)
           /\ Keys(t) = Keys(txn[r]) \cup {Pair(x)}
  <1>1. x # NoRow
    BY RowsAreNot
  <1>2. txn[r].new \in Versions
    BY TxnType, TxnKinds DEF InsertsRow
  <1>3. \A p \in Question :
           t.new[p] = IF p = q THEN x ELSE txn[r].new[p]
    BY <1>2 DEF InsertsRow, Versions
  <1>4. \A p \in Question : Holds(t, p) <=> p = q \/ Holds(txn[r], p)
    BY <1>1, <1>3 DEF InsertsRow, Holds
  <1>5. {p \in Bank : Holds(t, p)} = {p \in Bank : Holds(txn[r], p)}
    BY <1>4 DEF Bank
  <1>6. Keys(t) = Keys(txn[r]) \cup {Pair(x)}
    BY <1>5 DEF Keys, InsertsRow
  <1>7. \A p \in Question :
           View(t, p) = IF p = q THEN x ELSE View(txn[r], p)
    BY <1>3, <1>4 DEF View
  <1>8. QED
    BY <1>3, <1>4, <1>6, <1>7

-----------------------------------------------------------------------------
(* The moves keep PairsOK, part by part.                                   *)

(* a row is locked by r only if nobody else has locked it                  *)
LEMMA MoveLocks ==
    ASSUME BankInv, NEW r \in Request, NEW t \in Txn, Move(r, t),
           NEW q \in Question, Holds(t, q), NEW s \in Request \ {r}
    PROVE  ~Touches(s, q)
  <1>1. Touches(r, q) => ~Touches(s, q)
    BY DEF BankInv, PairsOK, LocksOK
  <1>2. CASE Leaves(t) \/ Opens(t)
    BY <1>2, FreshView
  <1>3. CASE Passes(r, t)
    BY <1>1, <1>3, PassesView, OwnView
  <1>4. ASSUME NEW p \in Bank, NEW x \in Row, WritesRow(r, t, p, x)
        PROVE  ~Touches(s, q)
    <2>1. q = p \/ Touches(r, q)
      BY <1>4, WritesView, OwnView DEF BankInv, BankOK
    <2>2. QED
      BY <1>1, <1>4, <2>1 DEF WritesRow
  <1>5. CASE Enters(r, t)
    BY <1>1, <1>5, EntersView, OwnView
  <1>6. ASSUME NEW p \in Question \ Bank, NEW x \in Row,
               InsertsRow(r, t, p, x)
        PROVE  ~Touches(s, q)
    <2>1. q = p \/ Touches(r, q)
      BY <1>6, InsertsView, OwnView DEF BankInv, BankOK
    <2>2. QED
      BY <1>1, <1>6, <2>1 DEF InsertsRow
  <1>7. QED
    BY <1>2, <1>3, <1>4, <1>5, <1>6 DEF Move, Writes, Inserts

(* an entry that somebody else has is not for a row that nobody else has   *)
(* locked                                                                  *)
LEMMA UnlockedPair ==
    ASSUME BankInv, NEW s \in Request, NEW q \in Bank, ~Touches(s, q)
    PROVE  Pair(row[q]) \notin KeysOf(s)
  <1> SUFFICES ASSUME Pair(row[q]) \in KeysOf(s)
               PROVE  FALSE
    OBVIOUS
  <1>1. InTxn(s)
    BY DEF KeysOf
  <1>2. CASE Pair(row[q]) \in txn[s].keys
    BY <1>1, <1>2 DEF BankInv, PairsOK, KeysTaken
  <1>3. CASE Pair(row[q]) \notin txn[s].keys
    <2>1. PICK p \in Bank : Touches(s, p) /\ Pair(row[q]) = Pair(row[p])
      BY <1>1, <1>3 DEF KeysOf
    <2>2. p = q
      BY <2>1 DEF BankInv, PairsOK, UniquePairs
    <2>3. QED
      BY <2>1, <2>2
  <1>4. QED
    BY <1>2, <1>3

LEMMA MoveKeys ==
    ASSUME BankInv, NEW r \in Request, NEW t \in Txn, Move(r, t),
           NEW s \in Request \ {r}
    PROVE  Keys(t) \cap KeysOf(s) = {}
  <1>1. KeysOf(r) \cap KeysOf(s) = {} /\ KeysOf(r) = Keys(txn[r])
    BY OwnView DEF BankInv, PairsOK, KeysApart
  <1>2. CASE Leaves(t) \/ Opens(t)
    BY <1>2, FreshView
  <1>3. CASE Passes(r, t)
    BY <1>1, <1>3, PassesView
  <1>4. ASSUME NEW p \in Bank, NEW x \in Row, WritesRow(r, t, p, x)
        PROVE  Keys(t) \cap KeysOf(s) = {}
    <2>1. Keys(t) = KeysOf(r) \cup {Pair(row[p])}
      BY <1>1, <1>4, WritesView DEF BankInv, BankOK
    <2>2. Pair(row[p]) \notin KeysOf(s)
      BY <1>4, UnlockedPair DEF WritesRow
    <2>3. QED
      BY <1>1, <2>1, <2>2
  <1>5. CASE Enters(r, t)
    <2>1. Keys(t) = KeysOf(r) \cup {Pair(txn[r].new[txn[r].at])}
      BY <1>1, <1>5, EntersView
    <2>2. Pair(txn[r].new[txn[r].at]) \notin KeysOf(s)
      BY <1>5 DEF Enters
    <2>3. QED
      BY <1>1, <2>1, <2>2
  <1>6. ASSUME NEW p \in Question \ Bank, NEW x \in Row,
               InsertsRow(r, t, p, x)
        PROVE  Keys(t) \cap KeysOf(s) = {}
    <2>1. Keys(t) = KeysOf(r) \cup {Pair(x)}
      BY <1>1, <1>6, InsertsView DEF BankInv, BankOK
    <2>2. Pair(x) \notin KeysOf(s)
      BY <1>6 DEF InsertsRow
    <2>3. QED
      BY <1>1, <2>1, <2>2
  <1>7. QED
    BY <1>2, <1>3, <1>4, <1>5, <1>6 DEF Move, Writes, Inserts

(* a pair that the unique index lets in is nobody's that r has not locked  *)
LEMMA NotTaken ==
    ASSUME NEW r \in Request, NEW q \in Question, NEW pair,
           ~Taken(r, q, pair), NEW p \in Question \ {q},
           View(txn[r], p) # NoRow
    PROVE  Pair(View(txn[r], p)) # pair
  BY OwnView DEF Taken

LEMMA MoveTaken ==
    ASSUME BankInv, NEW r \in Request, NEW t \in Txn, Move(r, t),
           NEW q \in Bank, Runs(t), Pair(row[q]) \in t.keys
    PROVE  Holds(t, q)
  <1>1. q \in Question /\ row[q] # NoRow
    BY DEF Bank
  <1>2. Runs(txn[r]) /\ Pair(row[q]) \in txn[r].keys => Holds(txn[r], q)
    BY OwnView, <1>1 DEF BankInv, PairsOK, KeysTaken
  <1>3. CASE Leaves(t) \/ Opens(t)
    BY <1>3 DEF Leaves, Opens
  <1>4. CASE Passes(r, t)
    BY <1>1, <1>2, <1>4, PassesView DEF Passes
  <1>5. ASSUME NEW p \in Bank, NEW x \in Row, WritesRow(r, t, p, x)
        PROVE  Holds(t, q)
    BY <1>1, <1>2, <1>5, WritesView DEF WritesRow, BankInv, BankOK
  <1>6. CASE Enters(r, t)
    <2>1. CASE Pair(row[q]) \in txn[r].keys \/ Holds(txn[r], q)
      BY <1>1, <1>2, <1>6, <2>1, EntersView DEF Enters
    <2>2. CASE Pair(row[q]) \notin txn[r].keys /\ ~Holds(txn[r], q)
      <3>1. Pair(row[q]) = Pair(txn[r].new[txn[r].at])
        BY <1>6, <2>2 DEF Enters
      <3>2. View(txn[r], q) = row[q]
        BY <2>2 DEF View
      <3>3. q # txn[r].at
        BY <1>6, <2>2 DEF Enters, Holds
      <3>4. QED
        BY <1>1, <1>6, <3>1, <3>2, <3>3, NotTaken DEF Enters
    <2>3. QED
      BY <2>1, <2>2
  <1>7. ASSUME NEW p \in Question \ Bank, NEW x \in Row,
               InsertsRow(r, t, p, x)
        PROVE  Holds(t, q)
    <2>1. CASE Pair(row[q]) \in txn[r].keys \/ Holds(txn[r], q)
      BY <1>1, <1>2, <1>7, <2>1, InsertsView
         DEF InsertsRow, BankInv, BankOK
    <2>2. CASE Pair(row[q]) \notin txn[r].keys /\ ~Holds(txn[r], q)
      <3>1. Pair(row[q]) = Pair(x)
        BY <1>7, <2>2 DEF InsertsRow
      <3>2. View(txn[r], q) = row[q]
        BY <2>2 DEF View
      <3>3. QED
        BY <1>1, <1>7, <3>1, <3>2, NotTaken DEF InsertsRow
    <2>3. QED
      BY <2>1, <2>2
  <1>8. QED
    BY <1>3, <1>4, <1>5, <1>6, <1>7 DEF Move, Writes, Inserts

LEMMA MoveEntered ==
    ASSUME BankInv, NEW r \in Request, NEW t \in Txn, Move(r, t),
           NEW q \in Question, Holds(t, q), ~Waits(t, q)
    PROVE  Pair(t.new[q]) \in Keys(t)
  <1>1. Holds(txn[r], q) /\ ~Waits(txn[r], q)
           => Pair(txn[r].new[q]) \in Keys(txn[r])
    BY OwnView DEF BankInv, PairsOK, Entered
  <1>2. CASE Leaves(t) \/ Opens(t)
    BY <1>2, FreshView
  <1>3. CASE Passes(r, t)
    BY <1>1, <1>3, PassesView DEF Passes, Waits
  <1>4. ASSUME NEW p \in Bank, NEW x \in Row, WritesRow(r, t, p, x)
        PROVE  Pair(t.new[q]) \in Keys(t)
    <2>1. Keys(t) = Keys(txn[r]) \cup {Pair(row[p])}
      BY <1>4, WritesView DEF BankInv, BankOK
    <2>2. CASE q # p
      BY <1>1, <1>4, <2>1, <2>2, WritesView
         DEF WritesRow, Waits, BankInv, BankOK
    <2>3. CASE q = p
      <3>1. t.new[q] = x
        BY <1>4, <2>3, WritesView DEF BankInv, BankOK
      <3>2. Pair(x) = Pair(View(txn[r], q))
        BY <1>4, <2>3, OwnView DEF WritesRow, Waits
      <3>3. CASE Holds(txn[r], q)
        BY <1>1, <1>4, <2>1, <3>1, <3>2, <3>3 DEF View, WritesRow, Waits
      <3>4. CASE ~Holds(txn[r], q)
        BY <2>1, <2>3, <3>1, <3>2, <3>4 DEF View
      <3>5. QED
        BY <3>3, <3>4
    <2>4. QED
      BY <2>2, <2>3
  <1>5. CASE Enters(r, t)
    <2>1. /\ Keys(t) = Keys(txn[r]) \cup {Pair(txn[r].new[txn[r].at])}
          /\ t.new = txn[r].new
          /\ Holds(txn[r], q)
      BY <1>5, EntersView DEF Enters
    <2>2. CASE q = txn[r].at
      BY <2>1, <2>2
    <2>3. CASE q # txn[r].at
      BY <1>1, <2>1, <2>3 DEF Waits
    <2>4. QED
      BY <2>2, <2>3
  <1>6. ASSUME NEW p \in Question \ Bank, NEW x \in Row,
               InsertsRow(r, t, p, x)
        PROVE  Pair(t.new[q]) \in Keys(t)
    <2>1. Keys(t) = Keys(txn[r]) \cup {Pair(x)}
      BY <1>6, InsertsView DEF BankInv, BankOK
    <2>2. CASE q # p
      BY <1>1, <1>6, <2>1, <2>2, InsertsView
         DEF InsertsRow, Waits, BankInv, BankOK
    <2>3. CASE q = p
      BY <1>6, <2>1, <2>3, InsertsView DEF BankInv, BankOK
    <2>4. QED
      BY <2>2, <2>3
  <1>7. QED
    BY <1>2, <1>3, <1>4, <1>5, <1>6 DEF Move, Writes, Inserts

(* r's view before the move is free of duplicates                          *)
LEMMA OwnUnique ==
    ASSUME BankInv, NEW r \in Request,
           NEW p \in Question, NEW q \in Question,
           View(txn[r], p) # NoRow, View(txn[r], q) # NoRow,
           Pair(View(txn[r], p)) = Pair(View(txn[r], q)),
           ~Waits(txn[r], p), ~Waits(txn[r], q)
    PROVE  p = q
  BY OwnView DEF BankInv, PairsOK, ViewsUnique

(* what a move makes of one question does not meet another's pair          *)
LEMMA MoveUnique ==
    ASSUME BankInv, NEW r \in Request, NEW t \in Txn, Move(r, t),
           NEW p \in Question, NEW q \in Question,
           View(t, p) # NoRow, View(t, q) # NoRow,
           Pair(View(t, p)) = Pair(View(t, q)),
           ~Waits(t, p), ~Waits(t, q)
    PROVE  p = q
  <1>1. CASE Leaves(t) \/ Opens(t)
    <2>1. View(t, p) = row[p] /\ View(t, q) = row[q]
      BY <1>1, FreshView
    <2>2. QED
      BY <2>1 DEF BankInv, PairsOK, UniquePairs, Bank
  <1>2. CASE Passes(r, t)
    BY <1>2, PassesView, OwnUnique DEF Passes, Waits
  <1>3. ASSUME NEW o \in Bank, NEW x \in Row, WritesRow(r, t, o, x)
        PROVE  p = q
    <2>1. ~Waits(txn[r], p) /\ ~Waits(txn[r], q)
      BY <1>3 DEF WritesRow, Waits
    <2>2. ASSUME NEW z \in Question, ~Waits(t, z), View(t, z) # NoRow
          PROVE  /\ Pair(View(t, z)) = Pair(View(txn[r], z))
                 /\ View(txn[r], z) # NoRow
      <3>1. CASE z # o
        BY <1>3, <2>2, <3>1, WritesView DEF BankInv, BankOK
      <3>2. CASE z = o
        <4>1. View(t, z) = x
          BY <1>3, <3>2, WritesView DEF BankInv, BankOK
        <4>2. Pair(x) = Pair(View(txn[r], z))
          BY <1>3, <2>2, <3>2, OwnView DEF WritesRow, Waits
        <4>3. View(txn[r], z) # NoRow
          BY <3>2 DEF View, Holds, Bank
        <4>4. QED
          BY <4>1, <4>2, <4>3
      <3>3. QED
        BY <3>1, <3>2
    <2>3. QED
      BY <2>1, <2>2, OwnUnique
  <1>4. CASE Enters(r, t)
    <2>1. View(t, p) = View(txn[r], p) /\ View(t, q) = View(txn[r], q)
      BY <1>4, EntersView
    <2> DEFINE at == txn[r].at
    <2>2. /\ at \in Question
          /\ Pair(View(txn[r], at)) = Pair(txn[r].new[at])
          /\ ~Taken(r, at, Pair(txn[r].new[at]))
      BY <1>4 DEF Enters, View, Holds
    <2>3. CASE p = at /\ q # at
      BY <2>1, <2>2, <2>3, NotTaken
    <2>4. CASE q = at /\ p # at
      BY <2>1, <2>2, <2>4, NotTaken
    <2>5. CASE p # at /\ q # at
      BY <2>1, <2>5, OwnUnique DEF Waits
    <2>6. QED
      BY <2>3, <2>4, <2>5
  <1>5. ASSUME NEW o \in Question \ Bank, NEW x \in Row,
               InsertsRow(r, t, o, x)
        PROVE  p = q
    <2>1. ~Waits(txn[r], p) /\ ~Waits(txn[r], q)
      BY <1>5 DEF InsertsRow, Waits
    <2>2. /\ View(t, o) = x
          /\ \A z \in Question \ {o} : View(t, z) = View(txn[r], z)
      BY <1>5, InsertsView DEF BankInv, BankOK
    <2>3. ~Taken(r, o, Pair(x))
      BY <1>5 DEF InsertsRow
    <2>4. CASE p = o /\ q # o
      BY <2>2, <2>3, <2>4, NotTaken
    <2>5. CASE q = o /\ p # o
      BY <2>2, <2>3, <2>5, NotTaken
    <2>6. CASE p # o /\ q # o
      BY <2>1, <2>2, <2>6, OwnUnique
    <2>7. QED
      BY <2>4, <2>5, <2>6
  <1>6. QED
    BY <1>1, <1>2, <1>3, <1>4, <1>5 DEF Move, Writes, Inserts

LEMMA MovesKeep ==
    ASSUME BankInv, NEW r \in Request, NEW t \in Txn,
           Goto(r, t), Fine(t), Move(r, t)
    PROVE  BankInv'
  <1>1. TypeOK
    BY DEF BankInv, BankOK
  <1>2. /\ UNCHANGED <<row, options, edits, shelved>>
        /\ txn' = [txn EXCEPT ![r] = t]
        /\ txn'[r] = t
        /\ Bank' = Bank
        /\ InTxn(r)' <=> Runs(t)
        /\ \A q \in Question : Touches(r, q)' <=> Holds(t, q)
        /\ \A q \in Question : Current(r, q)' = View(t, q)
        /\ KeysOf(r)' = Keys(t)
    BY <1>1, GotoView
  <1>3. \A s \in Request \ {r} :
           /\ txn'[s] = txn[s]
           /\ InTxn(s)' <=> InTxn(s)
           /\ \A q \in Question : Touches(s, q)' <=> Touches(s, q)
           /\ \A q \in Question : Current(s, q)' = Current(s, q)
           /\ KeysOf(s)' = KeysOf(s)
    BY <1>1, GotoView
  <1>4. TypeOK'
    BY <1>1, <1>2 DEF TypeOK, Txn
  <1>5. FineOK'
    <2>1. Fine(txn[r])'
      BY <1>2 DEF Fine, InsertFine, BulkFine, UpdateFine, Bank
    <2>2. ASSUME NEW s \in Request \ {r}
          PROVE  Fine(txn[s])'
      <3>1. Fine(txn[s])
        BY DEF BankInv, BankOK, FineOK
      <3>2. txn'[s] = txn[s]
        BY <1>3
      <3>3. QED
        BY <1>2, <3>1, <3>2
           DEF Fine, InsertFine, BulkFine, UpdateFine, Bank
    <2>3. QED
      BY <2>1, <2>2 DEF FineOK
  <1>6. ListsOK' /\ AffectedExact' /\ UniquePairs'
    BY <1>2 DEF BankInv, BankOK, ListsOK, PairsOK, AffectedExact,
                UniquePairs, Bank
  <1>7. LocksOK'
    <2> SUFFICES ASSUME NEW a \in Request, NEW b \in Request,
                        NEW q \in Question,
                        Touches(a, q)', Touches(b, q)'
                 PROVE  a = b
      BY DEF LocksOK
    <2>1. CASE a = r /\ b # r
      BY <1>2, <1>3, <2>1, MoveLocks
    <2>2. CASE b = r /\ a # r
      BY <1>2, <1>3, <2>2, MoveLocks
    <2>3. CASE a # r /\ b # r
      BY <1>3, <2>3 DEF BankInv, PairsOK, LocksOK
    <2>4. QED
      BY <2>1, <2>2, <2>3
  <1>8. KeysApart'
    <2> SUFFICES ASSUME NEW a \in Request, NEW b \in Request, a # b
                 PROVE  KeysOf(a)' \cap KeysOf(b)' = {}
      BY DEF KeysApart
    <2>1. CASE a = r
      BY <1>2, <1>3, <2>1, MoveKeys
    <2>2. CASE b = r
      BY <1>2, <1>3, <2>2, MoveKeys
    <2>3. CASE a # r /\ b # r
      BY <1>3, <2>3 DEF BankInv, PairsOK, KeysApart
    <2>4. QED
      BY <2>1, <2>2, <2>3
  <1>9. KeysTaken'
    <2> SUFFICES ASSUME NEW a \in Request, NEW q \in Bank,
                        InTxn(a)', Pair(row[q]) \in txn'[a].keys
                 PROVE  Touches(a, q)'
      BY <1>2 DEF KeysTaken
    <2>1. q \in Question
      BY DEF Bank
    <2>2. CASE a = r
      BY <1>2, <2>1, <2>2, MoveTaken
    <2>3. CASE a # r
      BY <1>3, <2>1, <2>3 DEF BankInv, PairsOK, KeysTaken
    <2>4. QED
      BY <2>2, <2>3
  <1>10. Entered'
    <2> SUFFICES ASSUME NEW a \in Request, NEW q \in Question,
                        Touches(a, q)', ~Waits(txn'[a], q)
                 PROVE  Pair(txn'[a].new[q]) \in KeysOf(a)'
      BY DEF Entered
    <2>1. CASE a = r
      BY <1>2, <2>1, MoveEntered
    <2>2. CASE a # r
      BY <1>3, <2>2 DEF BankInv, PairsOK, Entered
    <2>3. QED
      BY <2>1, <2>2
  <1>11. ViewsUnique'
    <2> SUFFICES ASSUME NEW a \in Request,
                        NEW p \in Question, NEW q \in Question,
                        Current(a, p)' # NoRow, Current(a, q)' # NoRow,
                        Pair(Current(a, p)') = Pair(Current(a, q)'),
                        ~Waits(txn'[a], p), ~Waits(txn'[a], q)
                 PROVE  p = q
      BY DEF ViewsUnique
    <2>1. CASE a = r
      BY <1>2, <2>1, MoveUnique
    <2>2. CASE a # r
      BY <1>3, <2>2 DEF BankInv, PairsOK, ViewsUnique
    <2>3. QED
      BY <2>1, <2>2
  <1>12. QED
    BY <1>4, <1>5, <1>6, <1>7, <1>8, <1>9, <1>10, <1>11
       DEF BankInv, BankOK, PairsOK

-----------------------------------------------------------------------------
(* r commits: its versions become the rows, its locks and entries end      *)
Commits(r) ==
    /\ Runs(txn[r]) /\ ~Indexes(txn[r])
    /\ row' = Committed(txn[r])
    /\ Confirm(r)

LEMMA CommitView ==
    ASSUME TypeOK, LocksOK, NEW r \in Request, Commits(r)
    PROVE  /\ \A q \in Question : row'[q] = Current(r, q)
           /\ row' \in Versions
           /\ Bank \subseteq Bank'
           /\ txn'[r].pc = "reply" /\ txn'[r] \in Txn
           /\ ~InTxn(r)' /\ KeysOf(r)' = {}
           /\ \A q \in Question : ~Touches(r, q)'
           /\ \A q \in Question : Current(r, q)' = Current(r, q)
           /\ \A s \in Request \ {r} :
                 /\ txn'[s] = txn[s]
                 /\ InTxn(s)' <=> InTxn(s)
                 /\ \A q \in Question :
                       /\ Touches(s, q)' <=> Touches(s, q)
                       /\ Touches(s, q) => ~Touches(r, q)
                       /\ Current(s, q)' = IF Touches(r, q)
                                           THEN txn[r].new[q]
                                           ELSE Current(s, q)
                 /\ KeysOf(s)' = KeysOf(s)
  <1>1. txn[r].new \in Versions
    BY TxnType, TxnKinds DEF Commits
  <1>2. \A q \in Question : row'[q] = Current(r, q)
    BY DEF Commits, Committed, Current, Touches, InTxn, Runs
  <1>3. row' = Committed(txn[r])
    BY DEF Commits
  <1>4. row' \in Versions
    BY <1>1, <1>3 DEF TypeOK, Versions, Committed
  <1>5. \A q \in Bank : q \in Question /\ Current(r, q) # NoRow
    BY DEF Bank, Current, Touches
  <1>6. Bank \subseteq Bank'
    BY <1>2, <1>5 DEF Bank
  <1>7. /\ txn'[r] = [pc |-> "reply", code |-> 200]
        /\ \A s \in Request \ {r} : txn'[s] = txn[s]
    BY DEF Commits, Confirm, TypeOK
  <1>8. txn'[r].pc = "reply" /\ txn'[r] \in Txn
    BY <1>7 DEF Txn, Replying
  <1>9. ~InTxn(r)' /\ KeysOf(r)' = {}
    BY <1>8 DEF InTxn, KeysOf
  <1>10. \A q \in Question : ~Touches(r, q)'
    BY <1>9 DEF Touches
  <1>11. \A q \in Question : Current(r, q)' = Current(r, q)
    BY <1>2, <1>10 DEF Current
  <1>12. ASSUME NEW s \in Request \ {r}
         PROVE  /\ txn'[s] = txn[s]
                /\ InTxn(s)' <=> InTxn(s)
                /\ \A q \in Question :
                      /\ Touches(s, q)' <=> Touches(s, q)
                      /\ Touches(s, q) => ~Touches(r, q)
                      /\ Current(s, q)' = IF Touches(r, q)
                                          THEN txn[r].new[q]
                                          ELSE Current(s, q)
                /\ KeysOf(s)' = KeysOf(s)
    <2>1. txn'[s] = txn[s] /\ (InTxn(s)' <=> InTxn(s))
      BY <1>7 DEF InTxn
    <2>2. \A q \in Question : Touches(s, q)' <=> Touches(s, q)
      BY <2>1 DEF Touches
    <2>3. \A q \in Question : Touches(s, q) => ~Touches(r, q)
      BY DEF LocksOK
    <2>4. \A q \in Question :
             Current(s, q)' = IF Touches(r, q) THEN txn[r].new[q]
                                               ELSE Current(s, q)
      BY <1>2, <2>1, <2>2, <2>3 DEF Current
    <2>5. \A q \in Question : Touches(s, q) => row'[q] = row[q]
      BY <1>2, <2>3 DEF Current
    <2>6. {p \in Bank : Touches(s, p)}' = {p \in Bank : Touches(s, p)}
      BY <2>2, <2>5 DEF Bank
    <2>7. \A p \in {q \in Bank : Touches(s, q)} : row'[p] = row[p]
      BY <2>5 DEF Bank
    <2>8. {Pair(row[q]) : q \in {p \in Bank : Touches(s, p)}}'
             = {Pair(row[q]) : q \in {p \in Bank : Touches(s, p)}}
      BY <2>6, <2>7
    <2>9. KeysOf(s)' = KeysOf(s)
      BY <2>1, <2>8 DEF KeysOf
    <2>10. QED
      BY <2>1, <2>2, <2>3, <2>4, <2>9
  <1>13. QED
    BY <1>2, <1>4, <1>6, <1>8, <1>9, <1>10, <1>11, <1>12

(* what r has written no entry of another request covers                   *)
LEMMA CommitEntered ==
    ASSUME PairsOK, NEW r \in Request, Commits(r),
           NEW q \in Question, Touches(r, q), NEW s \in Request \ {r}
    PROVE  Pair(txn[r].new[q]) \notin KeysOf(s)
  <1>1. Pair(txn[r].new[q]) \in KeysOf(r)
    BY DEF PairsOK, Entered, Commits, Waits
  <1>2. QED
    BY <1>1 DEF PairsOK, KeysApart

LEMMA CommitsPairs ==
    ASSUME TypeOK, PairsOK, NEW r \in Request, Commits(r)
    PROVE  PairsOK'
  <1>1. /\ \A q \in Question : row'[q] = Current(r, q)
        /\ ~InTxn(r)' /\ KeysOf(r)' = {}
        /\ \A q \in Question : ~Touches(r, q)'
        /\ \A q \in Question : Current(r, q)' = Current(r, q)
    BY CommitView DEF PairsOK
  <1>2. \A s \in Request \ {r} :
           /\ txn'[s] = txn[s]
           /\ InTxn(s)' <=> InTxn(s)
           /\ \A q \in Question :
                 /\ Touches(s, q)' <=> Touches(s, q)
                 /\ Touches(s, q) => ~Touches(r, q)
                 /\ Current(s, q)' = IF Touches(r, q) THEN txn[r].new[q]
                                                      ELSE Current(s, q)
           /\ KeysOf(s)' = KeysOf(s)
    BY CommitView DEF PairsOK
  <1>3. \A q \in Question : ~Waits(txn[r], q)
    BY DEF Commits, Waits
  <1>4. LocksOK'
    BY <1>1, <1>2 DEF PairsOK, LocksOK
  <1>5. KeysApart'
    <2> SUFFICES ASSUME NEW a \in Request, NEW b \in Request, a # b
                 PROVE  KeysOf(a)' \cap KeysOf(b)' = {}
      BY DEF KeysApart
    <2>1. CASE a = r \/ b = r
      BY <1>1, <2>1
    <2>2. CASE a # r /\ b # r
      BY <1>2, <2>2 DEF PairsOK, KeysApart
    <2>3. QED
      BY <2>1, <2>2
  <1>6. KeysTaken'
    <2> SUFFICES ASSUME NEW a \in Request, NEW q \in Bank', InTxn(a)',
                        Pair(row'[q]) \in txn'[a].keys
                 PROVE  Touches(a, q)'
      BY DEF KeysTaken
    <2>1. a # r /\ q \in Question /\ row'[q] # NoRow
      BY <1>1 DEF Bank
    <2>2. InTxn(a) /\ txn'[a] = txn[a] /\ txn[a].keys \subseteq KeysOf(a)
      BY <1>2, <2>1 DEF KeysOf
    <2>3. CASE Touches(r, q)
      <3>1. row'[q] = txn[r].new[q]
        BY <1>1, <2>1, <2>3 DEF Current
      <3>2. Pair(txn[r].new[q]) \notin KeysOf(a)
        BY <2>1, <2>3, CommitEntered
      <3>3. QED
        BY <2>2, <3>1, <3>2
    <2>4. CASE ~Touches(r, q)
      <3>1. row'[q] = row[q] /\ q \in Bank
        BY <1>1, <2>1, <2>4 DEF Current, Bank
      <3>2. QED
        BY <1>2, <2>1, <2>2, <3>1 DEF PairsOK, KeysTaken
    <2>5. QED
      BY <2>3, <2>4
  <1>7. Entered'
    <2> SUFFICES ASSUME NEW a \in Request, NEW q \in Question,
                        Touches(a, q)', ~Waits(txn'[a], q)
                 PROVE  Pair(txn'[a].new[q]) \in KeysOf(a)'
      BY DEF Entered
    <2>1. a # r
      BY <1>1
    <2>2. QED
      BY <1>2, <2>1 DEF PairsOK, Entered
  <1>8. ViewsUnique'
    <2> SUFFICES ASSUME NEW a \in Request,
                        NEW p \in Question, NEW q \in Question,
                        Current(a, p)' # NoRow, Current(a, q)' # NoRow,
                        Pair(Current(a, p)') = Pair(Current(a, q)'),
                        ~Waits(txn'[a], p), ~Waits(txn'[a], q)
                 PROVE  p = q
      BY DEF ViewsUnique
    <2>1. CASE a = r
      BY <1>1, <1>3, <2>1 DEF PairsOK, ViewsUnique
    <2>2. CASE a # r /\ Touches(r, p) /\ Touches(r, q)
      <3>1. /\ Current(a, p)' = Current(r, p)
            /\ Current(a, q)' = Current(r, q)
        BY <1>2, <2>2 DEF Current
      <3>2. QED
        BY <1>3, <3>1 DEF PairsOK, ViewsUnique
    <2>3. CASE a # r /\ ~Touches(r, p) /\ ~Touches(r, q)
      <3>1. /\ Current(a, p)' = Current(a, p)
            /\ Current(a, q)' = Current(a, q)
            /\ txn'[a] = txn[a]
        BY <1>2, <2>3
      <3>2. QED
        BY <3>1 DEF PairsOK, ViewsUnique
    <2>4. ASSUME a # r, NEW x \in Question, NEW y \in Question,
                 Touches(r, x), ~Touches(r, y),
                 Current(a, x)' # NoRow, Current(a, y)' # NoRow,
                 Pair(Current(a, x)') = Pair(Current(a, y)'),
                 ~Waits(txn'[a], y)
          PROVE  x = y
      <3>1. /\ Current(a, x)' = txn[r].new[x]
            /\ Current(a, x)' = Current(r, x)
            /\ Current(a, y)' = Current(a, y)
            /\ txn'[a] = txn[a]
        BY <1>2, <2>4 DEF Current
      <3>2. CASE Touches(a, y)
        <4>1. Pair(Current(a, y)) \in KeysOf(a)
          BY <2>4, <3>1, <3>2 DEF PairsOK, Entered, Current
        <4>2. Pair(txn[r].new[x]) \notin KeysOf(a)
          BY <2>4, CommitEntered
        <4>3. QED
          BY <2>4, <3>1, <4>1, <4>2
      <3>3. CASE ~Touches(a, y)
        <4>1. Current(a, y) = Current(r, y)
          BY <2>4, <3>3 DEF Current
        <4>2. QED
          BY <1>3, <2>4, <3>1, <4>1 DEF PairsOK, ViewsUnique
      <3>4. QED
        BY <3>2, <3>3
    <2>5. QED
      BY <2>1, <2>2, <2>3, <2>4
  <1>9. UniquePairs'
    <2> SUFFICES ASSUME NEW p \in Bank', NEW q \in Bank',
                        Pair(row'[p]) = Pair(row'[q])
                 PROVE  p = q
      BY DEF UniquePairs
    <2>1. /\ p \in Question /\ q \in Question
          /\ row'[p] # NoRow /\ row'[q] # NoRow
      BY DEF Bank
    <2>2. QED
      BY <1>1, <1>3, <2>1 DEF PairsOK, ViewsUnique
  <1>10. QED
    BY <1>4, <1>5, <1>6, <1>7, <1>8, <1>9 DEF PairsOK

(* what the others know of their rows stays true                           *)
LEMMA CommitsFine ==
    ASSUME BankInv, NEW r \in Request, Commits(r)
    PROVE  FineOK'
  <1>1. /\ \A q \in Question : row'[q] = Current(r, q)
        /\ Bank \subseteq Bank'
        /\ txn'[r].pc = "reply"
        /\ \A s \in Request \ {r} :
              /\ txn'[s] = txn[s]
              /\ \A q \in Question : Touches(s, q) => ~Touches(r, q)
    BY CommitView DEF BankInv, BankOK, PairsOK
  <1>2. Fine(txn[r])'
    BY <1>1 DEF Fine, InsertPcs, BulkPcs, UpdatePcs
  <1>3. ASSUME NEW s \in Request \ {r}
        PROVE  Fine(txn[s])'
    <2>1. PICK t : t = txn[s]
      OBVIOUS
    <2>2. /\ t.pc \in InsertPcs => InsertFine(t)
          /\ t.pc \in BulkPcs => BulkFine(t)
          /\ t.pc \in UpdatePcs => t \in UpdateTxn /\ UpdateFine(t)
      BY <2>1, FineTxn DEF BankInv
    <2>3. t.pc \in InsertPcs \cup BulkPcs \cup UpdatePcs => Runs(t)
      BY DEF InsertPcs, BulkPcs, UpdatePcs, Runs
    <2>4. \A q \in Question : Runs(t) /\ t.new[q] # NoRow =>
             row'[q] = row[q] /\ (q \in Bank' <=> q \in Bank)
      BY <1>1, <2>1 DEF Current, Touches, InTxn, Runs, Bank
    <2>5. t.pc \in InsertPcs => InsertFine(t)'
      BY <2>2, <2>3, <2>4 DEF InsertFine
    <2>6. t.pc \in BulkPcs => BulkFine(t)'
      BY <1>1, <2>2, <2>3, <2>4 DEF BulkFine
    <2>7. t.pc \in UpdatePcs => UpdateFine(t)'
      BY <1>1, <2>2, <2>3, <2>4 DEF UpdateFine
    <2>8. txn'[s] = t
      BY <1>1, <2>1
    <2>9. QED
      BY <2>5, <2>6, <2>7, <2>8
         DEF Fine, InsertFine, BulkFine, UpdateFine
  <1>4. QED
    BY <1>2, <1>3 DEF FineOK

(* a commit leaves the reply behind, whatever else it writes               *)
LEMMA CommitTypes ==
    ASSUME BankInv, NEW r \in Request, Commits(r),
           options' \in [Question -> SUBSET Nat],
           edits' \in [Question -> Nat],
           shelved' \in [Question -> Int]
    PROVE  TypeOK'
  <1>1. row' \in Versions
    BY CommitView DEF BankInv, BankOK, PairsOK
  <1>2. txn' \in [Request -> Txn]
    BY DEF Commits, Confirm, BankInv, BankOK, TypeOK, Txn, Replying
  <1>3. QED
    BY <1>1, <1>2 DEF TypeOK, Txn

LEMMA InsertCommitKeeps ==
    ASSUME BankInv, NEW r \in Request, InsertCommit(r)
    PROVE  BankInv'
  <1>1. PICK t : t = txn[r]
    OBVIOUS
  <1> DEFINE created == {q \in Question : t.new[q] # NoRow}
  <1>2. /\ t.pc = "insert"
        /\ options' = [q \in Question |->
                         IF q \in created THEN {1} ELSE options[q]]
        /\ edits' = [q \in Question |->
                       IF q \in created THEN 1 ELSE edits[q]]
        /\ shelved' = shelved
    BY <1>1 DEF InsertCommit
  <1>3. Commits(r)
    BY DEF InsertCommit, Commits, Runs, Indexes, IndexPcs
  <1>4. InsertFine(t)
    BY <1>1, <1>2, FineTxn DEF BankInv, InsertPcs
  <1>5. TypeOK
    BY DEF BankInv, BankOK
  <1>6. \A q \in Question :
           row'[q] = IF q \in created THEN t.new[q] ELSE row[q]
    BY <1>1, <1>2, <1>3, CommitView
       DEF BankInv, BankOK, PairsOK, Current, Touches, InTxn
  <1>7. \A q \in created : q \notin Bank /\ ~t.new[q].archived
    BY <1>4 DEF InsertFine
  <1>8. TypeOK'
    <2>1. {1} \in SUBSET Nat
      OBVIOUS
    <2>2. /\ options' \in [Question -> SUBSET Nat]
          /\ edits' \in [Question -> Nat]
          /\ shelved' \in [Question -> Int]
      BY <1>2, <1>5, <2>1 DEF TypeOK
    <2>3. QED
      BY <1>3, <2>2, CommitTypes
  <1>9. ListsOK'
    <2> SUFFICES ASSUME NEW q \in Bank'
                 PROVE  \E n \in Nat : options'[q] = {n}
      BY DEF ListsOK
    <2>1. q \in Question /\ row'[q] # NoRow
      BY DEF Bank
    <2>2. CASE q \in created
      BY <1>2, <2>1, <2>2
    <2>3. CASE q \notin created
      <3>1. q \in Bank
        BY <1>6, <2>1, <2>3 DEF Bank
      <3>2. QED
        BY <1>2, <2>1, <2>3, <3>1 DEF BankInv, BankOK, ListsOK
    <2>4. QED
      BY <2>2, <2>3
  <1>10. AffectedExact'
    <2> SUFFICES ASSUME NEW q \in Question
                 PROVE  shelved'[q] = IF q \in Bank' /\ row'[q].archived
                                      THEN 1 ELSE 0
      BY DEF AffectedExact
    <2>1. shelved[q] = IF q \in Bank /\ row[q].archived THEN 1 ELSE 0
      BY DEF BankInv, AffectedExact
    <2>2. CASE q \in created
      BY <1>2, <1>6, <1>7, <2>1, <2>2
    <2>3. CASE q \notin created
      BY <1>2, <1>6, <2>1, <2>3 DEF Bank
    <2>4. QED
      BY <2>2, <2>3
  <1>11. QED
    BY <1>3, <1>5, <1>8, <1>9, <1>10, CommitsFine, CommitsPairs
       DEF BankInv, BankOK

(* an archive or restore that commits has reported each row it changed     *)
LEMMA BulkCommitKeeps ==
    ASSUME BankInv, NEW r \in Request, BulkCommit(r)
    PROVE  BankInv'
  <1>1. PICK t : t = txn[r]
    OBVIOUS
  <1> DEFINE affected == {q \in Question : t.new[q] # NoRow}
             step(q) == CASE q \in affected /\ t.kind = "archive" -> 1
                          [] q \in affected /\ t.kind = "restore" -> -1
                          [] OTHER -> 0
  <1>2. /\ t.pc = "rows"
        /\ shelved' = [q \in Question |-> shelved[q] + step(q)]
        /\ options' = options
        /\ edits' = edits
    BY <1>1 DEF BulkCommit
  <1>3. Commits(r)
    BY DEF BulkCommit, Commits, Runs, Indexes, IndexPcs
  <1>4. t \in BulkTxn /\ BulkFine(t)
    BY <1>1, <1>2, FineTxn DEF BankInv, BulkPcs
  <1>5. TypeOK
    BY DEF BankInv, BankOK
  <1>6. \A q \in Question :
           row'[q] = IF q \in affected THEN t.new[q] ELSE row[q]
    BY <1>1, <1>2, <1>3, CommitView
       DEF BankInv, BankOK, PairsOK, Current, Touches, InTxn
  <1>7. \A q \in affected :
           /\ q \in Bank
           /\ t.new[q] # NoRow
           /\ t.kind = "archive" => ~row[q].archived /\ t.new[q].archived
           /\ t.kind = "restore" => row[q].archived /\ ~t.new[q].archived
           /\ t.kind = "patch" => t.new[q].archived = row[q].archived
    BY <1>4 DEF BulkFine
  <1>8. t.kind \in {"patch", "archive", "restore"}
    BY <1>4 DEF BulkTxn
  <1>9. \A q \in Question : shelved[q] \in Int /\ step(q) \in Int
    BY <1>5 DEF TypeOK
  <1>10. \A q \in Question : q \in Bank' <=> q \in Bank
    BY <1>6, <1>7 DEF Bank
  <1>11. \A q \in Question :
            /\ q \in affected /\ t.kind = "archive" => step(q) = 1
            /\ q \in affected /\ t.kind = "restore" => step(q) = -1
            /\ q \notin affected \/ t.kind = "patch" => step(q) = 0
    OBVIOUS
  <1> HIDE DEF step, affected
  <1>12. TypeOK'
    <2>1. /\ options' \in [Question -> SUBSET Nat]
          /\ edits' \in [Question -> Nat]
          /\ shelved' \in [Question -> Int]
      BY <1>2, <1>5, <1>9 DEF TypeOK
    <2>2. QED
      BY <1>3, <2>1, CommitTypes
  <1>13. ListsOK'
    BY <1>2, <1>10 DEF BankInv, BankOK, ListsOK, Bank
  <1>14. AffectedExact'
    <2> SUFFICES ASSUME NEW q \in Question
                 PROVE  shelved'[q] = IF q \in Bank' /\ row'[q].archived
                                      THEN 1 ELSE 0
      BY DEF AffectedExact
    <2>1. shelved[q] = IF q \in Bank /\ row[q].archived THEN 1 ELSE 0
      BY DEF BankInv, AffectedExact
    <2>2. shelved'[q] = shelved[q] + step(q)
      BY <1>2
    <2>3. CASE q \in affected /\ t.kind = "archive"
      BY <1>6, <1>7, <1>10, <1>11, <2>1, <2>2, <2>3
    <2>4. CASE q \in affected /\ t.kind = "restore"
      BY <1>6, <1>7, <1>10, <1>11, <2>1, <2>2, <2>4
    <2>5. CASE q \notin affected \/ t.kind = "patch"
      <3>1. row'[q].archived = row[q].archived
        BY <1>6, <1>7, <2>5
      <3>2. QED
        BY <1>10, <1>11, <2>1, <2>2, <2>5, <3>1
    <2>6. QED
      BY <1>8, <2>3, <2>4, <2>5
  <1>15. QED
    BY <1>3, <1>5, <1>12, <1>13, <1>14, CommitsFine, CommitsPairs
       DEF BankInv, BankOK

(* An edit that has nothing in its way replaces the one list there is,     *)
(* which is the one it has loaded.                                         *)
LEMMA ReplacedList ==
    ASSUME BankInv, NEW r \in Request,
           txn[r].pc = "options", ~Collides(txn[r])
    PROVE  /\ txn[r].at \in Bank
           /\ Remaining(txn[r]) = {}
           /\ options[txn[r].at] = txn[r].old
  <1>1. UpdateFine(txn[r])
    BY FineTxn DEF BankInv, UpdatePcs
  <1>2. /\ txn[r].at \in Bank
        /\ txn[r].gone \subseteq txn[r].old
        /\ \E n \in Nat : txn[r].old = {n}
    BY <1>1 DEF UpdateFine
  <1>3. Remaining(txn[r]) = {}
    BY DEF Collides
  <1>4. \E m \in Nat : options[txn[r].at] = {m}
    BY <1>2 DEF BankInv, BankOK, ListsOK
  <1>5. options[txn[r].at] \subseteq txn[r].gone
    BY <1>3 DEF Remaining
  <1>6. QED
    BY <1>2, <1>3, <1>4, <1>5

LEMMA UpdateCommitKeeps ==
    ASSUME BankInv, NEW r \in Request,
           UpdateCommit(r), ~Collides(txn[r])
    PROVE  BankInv'
  <1>1. PICK t : t = txn[r]
    OBVIOUS
  <1>2. /\ t.pc = "options"
        /\ row' = Committed(t)
        /\ Confirm(r)
        /\ edits' = [edits EXCEPT ![t.at] = @ + 1]
        /\ options' = [options EXCEPT
                         ![t.at] = Remaining(t) \cup {edits'[t.at]}]
        /\ shelved' = shelved
    BY <1>1 DEF UpdateCommit, Collides
  <1>3. Commits(r)
    BY <1>1, <1>2 DEF Commits, Runs, Indexes, IndexPcs
  <1>4. UpdateFine(t)
    BY <1>1, <1>2, FineTxn DEF BankInv, UpdatePcs
  <1>5. TypeOK
    BY DEF BankInv, BankOK
  <1>6. t.at \in Bank /\ t.at \in Question /\ Remaining(t) = {}
    BY <1>1, <1>2, ReplacedList DEF Bank
  <1>7. /\ edits' \in [Question -> Nat]
        /\ edits'[t.at] \in Nat
    BY <1>2, <1>5, <1>6 DEF TypeOK
  <1>8. \A q \in Question :
           options'[q] = IF q = t.at THEN {edits'[q]} ELSE options[q]
    BY <1>2, <1>5, <1>6 DEF TypeOK
  <1>9. \A q \in Question :
           row'[q] = IF t.new[q] # NoRow THEN t.new[q] ELSE row[q]
    BY <1>2 DEF Committed
  <1>10. \A q \in Question : t.new[q] # NoRow =>
            q = t.at /\ t.new[q].archived = row[q].archived
    BY <1>4 DEF UpdateFine
  <1>11. \A q \in Question :
            /\ q \in Bank' <=> q \in Bank
            /\ q \in Bank => row'[q].archived = row[q].archived
    BY <1>6, <1>9, <1>10 DEF Bank
  <1>12. TypeOK'
    <2>1. {edits'[t.at]} \in SUBSET Nat
      BY <1>7
    <2>2. options' \in [Question -> SUBSET Nat]
      BY <1>2, <1>5, <1>6, <2>1 DEF TypeOK
    <2>3. shelved' \in [Question -> Int]
      BY <1>2, <1>5 DEF TypeOK
    <2>4. QED
      BY <1>3, <1>7, <2>2, <2>3, CommitTypes
  <1>13. ListsOK'
    <2> SUFFICES ASSUME NEW q \in Bank'
                 PROVE  \E n \in Nat : options'[q] = {n}
      BY DEF ListsOK
    <2>1. q \in Question /\ q \in Bank
      BY <1>11 DEF Bank
    <2>2. QED
      BY <1>7, <1>8, <2>1 DEF BankInv, BankOK, ListsOK
  <1>14. AffectedExact'
    BY <1>2, <1>11 DEF BankInv, AffectedExact
  <1>15. QED
    BY <1>3, <1>5, <1>12, <1>13, <1>14, CommitsFine, CommitsPairs
       DEF BankInv, BankOK

-----------------------------------------------------------------------------
LEMMA InitBank == Init => BankInv
  <1> SUFFICES ASSUME Init
               PROVE  BankInv
    OBVIOUS
  <1>1. /\ row = [q \in Question |-> NoRow]
        /\ options = [q \in Question |-> {}]
        /\ edits = [q \in Question |-> 0]
        /\ txn = [r \in Request |-> Idle]
        /\ shelved = [q \in Question |-> 0]
    BY DEF Init
  <1>2. Bank = {}
    BY <1>1 DEF Bank
  <1>3. \A r \in Request : txn[r].pc = "idle" /\ txn[r] = Idle
    BY <1>1 DEF Idle
  <1>4. TypeOK
    <2>1. {} \in SUBSET Nat
      OBVIOUS
    <2>2. QED
      BY <1>1, <2>1 DEF TypeOK, Versions
  <1>5. FineOK /\ ListsOK /\ AffectedExact
    BY <1>1, <1>2, <1>3 DEF FineOK, Fine, InsertPcs, BulkPcs, UpdatePcs,
                            ListsOK, AffectedExact
  <1>6. \A r \in Request :
           /\ ~InTxn(r)
           /\ KeysOf(r) = {}
           /\ \A q \in Question : ~Touches(r, q) /\ Current(r, q) = NoRow
    BY <1>1, <1>3 DEF InTxn, KeysOf, Touches, Current
  <1>7. PairsOK
    BY <1>2, <1>6 DEF PairsOK, LocksOK, KeysApart, KeysTaken, Entered,
                      ViewsUnique, UniquePairs
  <1>8. QED
    BY <1>4, <1>5, <1>7 DEF BankInv, BankOK

LEMMA NextBank == BankInv /\ [Next]_vars => BankInv'
  <1> SUFFICES ASSUME BankInv, [Next]_vars
               PROVE  BankInv'
    OBVIOUS
  <1>1. CASE Next
    <2>1. PICK r \in Request : Arrive(r) \/ Serve(r) \/ Crash(r)
      BY <1>1 DEF Next
    <2>2. CASE Moves(r)
      BY <2>2, MovesKeep DEF Moves
    <2>3. QED
      BY <2>1, <2>2, StepKinds, InsertCommitKeeps, BulkCommitKeeps,
         UpdateCommitKeeps DEF BankInv
  <1>2. CASE UNCHANGED vars
    BY <1>2 DEF vars, BankInv, BankOK, PairsOK, AffectedExact, TypeOK,
       FineOK, Fine, InsertFine, BulkFine, UpdateFine, ListsOK, LocksOK,
       KeysApart, KeysTaken, Entered, ViewsUnique, UniquePairs,
       Touches, InTxn, KeysOf, Current, Bank
  <1>3. QED
    BY <1>1, <1>2

LEMMA BankInvariant == Spec => []BankInv
  BY InitBank, NextBank, PTL DEF Spec

(***************************************************************************)
(* Type correctness: rows, requests and counters stay of their types, for  *)
(* any number of questions and of admin requests in flight.                *)
(***************************************************************************)
THEOREM BankTypes == Spec => []TypeOK
  <1>1. BankInv => TypeOK
    BY DEF BankInv, BankOK
  <1>2. QED
    BY <1>1, BankInvariant, PTL

(***************************************************************************)
(* No (title, category) is in the bank twice, whatever creates, imports,   *)
(* bulk moves and edits run at once and wherever they crash or deadlock.   *)
(***************************************************************************)
THEOREM TitlesUnique == Spec => []UniquePairs
  <1>1. BankInv => UniquePairs
    BY DEF BankInv, PairsOK
  <1>2. QED
    BY <1>1, BankInvariant, PTL

(***************************************************************************)
(* Every question in the bank has exactly one option list, also after      *)
(* edits that overlapped.                                                  *)
(***************************************************************************)
THEOREM OptionListsWhole == Spec => []OneOptionList
  <1>1. BankInv => OneOptionList
    BY FS_Singleton DEF BankInv, BankOK, ListsOK, OneOptionList
  <1>2. QED
    BY <1>1, BankInvariant, PTL

(***************************************************************************)
(* What archive and restore have reported adds up to what is archived.     *)
(***************************************************************************)
THEOREM AffectedCounted == Spec => []AffectedExact
  <1>1. BankInv => AffectedExact
    BY DEF BankInv
  <1>2. QED
    BY <1>1, BankInvariant, PTL

(***************************************************************************)
(* A confirmed edit of update_question has replaced the very option list   *)
(* that it had loaded.                                                     *)
(***************************************************************************)
THEOREM EditsReplaceWhatTheyLoaded == Spec => EditReplacesWhatItLoaded
  <1>1. BankInv /\ [Next]_vars =>
           [\A r \in Request :
               Edited(r) => options[txn[r].at] = txn[r].old]_vars
    <2> SUFFICES ASSUME BankInv, Next, NEW r \in Request, Edited(r)
                 PROVE  options[txn[r].at] = txn[r].old
      OBVIOUS
    <2>1. PICK s \in Request : Arrive(s) \/ Serve(s) \/ Crash(s)
      BY DEF Next
    <2>2. /\ txn[r].pc = "options"
          /\ txn'[r].pc = "reply"
          /\ txn'[r].code = 200
      BY DEF Edited
    <2>3. TypeOK
      BY DEF BankInv, BankOK
    <2>4. s = r
      <3>1. \E t : txn' = [txn EXCEPT ![s] = t]
        <4>1. Moves(s) => \E t : txn' = [txn EXCEPT ![s] = t]
          BY DEF Moves, Goto
        <4>2. QED
          BY <2>1, <4>1, StepKinds
             DEF BankInv, InsertCommit, BulkCommit, UpdateCommit, Confirm,
                 Refuse, Goto
      <3>2. QED
        BY <2>2, <2>3, <3>1 DEF TypeOK
    <2>5. \A code : Refuse(r, code) => code = 200
      BY <2>2, <2>3 DEF Refuse, Goto, TypeOK
    <2>6. ~Goto(r, Idle)
      BY <2>2, <2>3 DEF Goto, Idle, TypeOK
    <2>7. UpdateCommit(r)
      <3>1. ~Arrive(r)
        <4>1. Arrive(r) => txn[r] = Idle
          BY DEF Arrive, CreateBegin, ImportBegin, UpdateBegin,
                 ArchiveBegin, RestoreBegin, PatchBegin
        <4>2. QED
          BY <2>2, <4>1 DEF Idle
      <3>2. ~DeadlockAbort(r) /\ ~Respond(r) /\ ~Crash(r)
        BY <2>2, <2>5, <2>6 DEF DeadlockAbort, Respond, Crash
      <3>3. QED
        BY <2>1, <2>2, <2>4, <3>1, <3>2
           DEF Serve, ImportCheck, InsertRow, InsertCommit, BulkRow,
               BulkIndex, BulkCommit, UpdateLoad, UpdateLoadOptions,
               UpdateFlush, UpdateIndexFlush, UpdateMove, UpdateIndexMove,
               UpdateDelete
    <2>8. ~Collides(txn[r])
      BY <2>5, <2>7 DEF UpdateCommit
    <2>9. QED
      BY <2>2, <2>8, ReplacedList
  <1>2. QED
    BY <1>1, BankInvariant, PTL DEF Spec, EditReplacesWhatItLoaded

-----------------------------------------------------------------------------
(***************************************************************************)
(* The console implements BankContract.  What is needed beyond BankInv: a  *)
(* request's versions are what it asked for, made of the rows as they are, *)
(* and a question's option list is the last that it was given.             *)
(***************************************************************************)
Merged(t, x) ==
    [Flushed(t, x) EXCEPT !.category = IF Moved(t) THEN t.draft.category
                                                   ELSE @]

BulkExact(t) ==
    /\ t.todo \subseteq t.ids
    /\ \A q \in Question : t.new[q] # NoRow =>
          q \in t.ids /\ t.new[q] = Changed(t, row[q])

UpdateExact(t) ==
    /\ t.pc = "load" => t.loaded = NoRow
    /\ t.pc \in {"load", "load_options"} => t.old = {}
    /\ t.pc \in {"index_flush", "move"} =>
          t.new[t.at] = IF TitleFlushed(t) THEN Flushed(t, row[t.at])
                                           ELSE NoRow
    /\ t.pc \in {"index_move", "delete", "options"} =>
          t.new[t.at] = IF TitleFlushed(t) \/ Moved(t)
                        THEN Merged(t, row[t.at]) ELSE NoRow

Exact(t) ==
    /\ t.pc \in BulkPcs => BulkExact(t)
    /\ t.pc \in UpdatePcs => UpdateExact(t)

ExactOK == \A r \in Request : Exact(txn[r])

ListsCounted == \A q \in Bank : options[q] = {edits[q]}

ContractInv == BankInv /\ ExactOK /\ ListsCounted

(* what becomes of a request of the contract in a step that has no effect   *)
AskStep(a, b) ==
    \/ b = a
    \/ /\ a.op = "idle"
       /\ b \in Contract!Asks
       /\ b.op = "edit" => b.seen = NoRow /\ b.base = 0
       /\ Contract!Bulk(b) => b.over \subseteq Contract!Unsuited(b)
    \/ a.op \notin {"confirmed", "refused"} /\ b = [op |-> "refused"]
    \/ a.op # "idle" /\ b = [op |-> "idle"]
    \/ /\ a.op = "edit" /\ a.seen = NoRow /\ a.at \in Bank
       /\ b = [a EXCEPT !.seen = row[a.at]]
    \/ /\ a.op = "edit" /\ a.seen # NoRow /\ a.base = 0
       /\ a.at \in Question
       /\ b = [a EXCEPT !.base = Only(options[a.at])]
    \/ /\ Contract!Bulk(a)
       /\ \E q \in Contract!Unsuited(a) :
             b = [a EXCEPT !.over = @ \cup {q}]

Follows(r) ==
    \E t : Goto(r, t) /\ Exact(t) /\ AskStep(Asked(txn[r]), Asked(t))

(* the drafts of a create or an import, inserted or not                    *)
Drafts(t) ==
    t.todo \cup {Drafted(t.new[q]) : q \in {p \in Question : t.new[p] # NoRow}}

(* what a bulk change has passed over                                      *)
Over(t) == {q \in t.ids \ t.todo : t.new[q] = NoRow}

LEMMA AskedBy ==
    ASSUME NEW t
    PROVE  /\ t.pc = "idle" => Asked(t) = [op |-> "idle"]
           /\ t.pc = "reply" =>
                 Asked(t) = [op |-> IF t.code = 200 THEN "confirmed"
                                                    ELSE "refused"]
           /\ t.pc \in InsertPcs =>
                 Asked(t) = [op |-> "add", drafts |-> Drafts(t)]
           /\ t.pc \in BulkPcs =>
                 Asked(t) = [op |-> t.kind, ids |-> t.ids, over |-> Over(t),
                             category |-> t.category,
                             difficulty |-> t.difficulty]
           /\ t.pc \in UpdatePcs =>
                 Asked(t) = [op |-> "edit", at |-> t.at, draft |-> t.draft,
                             seen |-> t.loaded, base |-> Only(t.old)]
  BY DEF Asked, InsertPcs, BulkPcs, UpdatePcs, Drafts, Over

LEMMA AskedOp ==
    ASSUME NEW t \in Txn
    PROVE  /\ Asked(t).op = "idle" <=> t.pc = "idle"
           /\ Asked(t).op \in {"confirmed", "refused"} <=> t.pc = "reply"
  <1>1. t.pc \in {"idle", "reply"} \cup InsertPcs \cup BulkPcs \cup UpdatePcs
    BY TxnKinds DEF Runs
  <1>2. t.pc \in BulkPcs => t.kind \in {"patch", "archive", "restore"}
    BY TxnKinds DEF BulkTxn
  <1>3. QED
    BY <1>1, <1>2, AskedBy DEF InsertPcs, BulkPcs, UpdatePcs

(* an error is an answer, and leaves nothing behind                        *)
LEMMA RefuseFollows ==
    ASSUME TypeOK, NEW r \in Request, txn[r].pc # "reply",
           NEW code \in {400, 404, 409, 500}, Refuse(r, code)
    PROVE  Follows(r)
  <1> DEFINE t == [pc |-> "reply", code |-> code]
  <1>1. Goto(r, t)
    BY DEF Refuse
  <1>2. t.pc = "reply" /\ t.code # 200
    OBVIOUS
  <1> HIDE DEF t
  <1>3. Asked(t) = [op |-> "refused"]
    BY <1>2, AskedBy
  <1>4. Asked(txn[r]).op \notin {"confirmed", "refused"}
    BY TxnType, AskedOp
  <1>5. Exact(t)
    BY <1>2 DEF Exact, BulkPcs, UpdatePcs
  <1>6. QED
    BY <1>1, <1>3, <1>4, <1>5 DEF Follows, AskStep

LEMMA LeaveFollows ==
    ASSUME TypeOK, NEW r \in Request, txn[r].pc # "idle", Goto(r, Idle)
    PROVE  Follows(r)
  <1>1. Idle.pc = "idle"
    BY DEF Idle
  <1>2. Asked(Idle) = [op |-> "idle"]
    BY <1>1, AskedBy
  <1>3. Asked(txn[r]).op # "idle"
    BY TxnType, AskedOp
  <1>4. Exact(Idle)
    BY <1>1 DEF Exact, BulkPcs, UpdatePcs
  <1>5. QED
    BY <1>2, <1>3, <1>4 DEF Follows, AskStep

(* a request begins: t is its first record                                 *)
LEMMA BeginFollows ==
    ASSUME NEW r \in Request, txn[r] = Idle, NEW t, Goto(r, t), Exact(t),
           Asked(t) \in Contract!Asks,
           Asked(t).op = "edit" => Asked(t).seen = NoRow /\ Asked(t).base = 0,
           Contract!Bulk(Asked(t)) =>
              Asked(t).over \subseteq Contract!Unsuited(Asked(t))
    PROVE  Follows(r)
  <1>1. Asked(txn[r]) = [op |-> "idle"]
    BY AskedBy DEF Idle
  <1>2. QED
    BY <1>1 DEF Follows, AskStep

LEMMA AddAsks ==
    ASSUME NEW t, t.pc \in InsertPcs, t.new = Untouched,
           t.todo \in SUBSET Draft
    PROVE  /\ Asked(t) \in Contract!Asks /\ Asked(t).op = "add"
           /\ Exact(t)
  <1>1. Drafts(t) = t.todo
    BY UntouchedType DEF Drafts
  <1>2. Asked(t) = [op |-> "add", drafts |-> t.todo]
    BY <1>1, AskedBy
  <1>3. Exact(t)
    BY DEF Exact, InsertPcs, BulkPcs, UpdatePcs
  <1>4. QED
    BY <1>2, <1>3 DEF Contract!Asks, Contract!Draft, Draft

LEMMA CreateBeginFollows ==
    ASSUME TypeOK, NEW r \in Request, NEW d \in Draft, CreateBegin(r, d)
    PROVE  Follows(r)
  <1>1. txn[r] = Idle /\ txn[r].pc = "idle"
    BY DEF CreateBegin, Idle
  <1>2. CASE Refuse(r, 400)
    BY <1>1, <1>2, RefuseFollows
  <1>3. CASE Goto(r, [pc |-> "insert", kind |-> "create", todo |-> {d},
                      new |-> Untouched, keys |-> {}])
    <2> DEFINE t == [pc |-> "insert", kind |-> "create", todo |-> {d},
                     new |-> Untouched, keys |-> {}]
    <2>1. t.pc \in InsertPcs /\ t.new = Untouched /\ t.todo \in SUBSET Draft
      BY DEF InsertPcs
    <2>2. Goto(r, t)
      BY <1>3
    <2> HIDE DEF t
    <2>3. QED
      BY <1>1, <2>1, <2>2, AddAsks, BeginFollows DEF Contract!Bulk
  <1>4. QED
    BY <1>2, <1>3 DEF CreateBegin

LEMMA ImportBeginFollows ==
    ASSUME TypeOK, NEW r \in Request, NEW payload \in SUBSET Draft,
           ImportBegin(r, payload)
    PROVE  Follows(r)
  <1>1. txn[r] = Idle /\ txn[r].pc = "idle"
    BY DEF ImportBegin, Idle
  <1>2. CASE Refuse(r, 400) \/ Refuse(r, 409)
    BY <1>1, <1>2, RefuseFollows
  <1>3. CASE Goto(r, [pc |-> "check", kind |-> "import", todo |-> payload,
                      new |-> Untouched, keys |-> {}])
    <2> DEFINE t == [pc |-> "check", kind |-> "import", todo |-> payload,
                     new |-> Untouched, keys |-> {}]
    <2>1. t.pc \in InsertPcs /\ t.new = Untouched /\ t.todo \in SUBSET Draft
      BY DEF InsertPcs
    <2>2. Goto(r, t)
      BY <1>3
    <2> HIDE DEF t
    <2>3. QED
      BY <1>1, <2>1, <2>2, AddAsks, BeginFollows DEF Contract!Bulk
  <1>4. QED
    BY <1>2, <1>3 DEF ImportBegin

LEMMA ImportCheckFollows ==
    ASSUME BankOK, NEW r \in Request, ImportCheck(r)
    PROVE  Follows(r)
  <1> DEFINE t == txn[r]
             u == [t EXCEPT !.pc = "insert"]
  <1>1. t.pc = "check" /\ TypeOK
    BY DEF ImportCheck, BankOK
  <1>2. CASE Refuse(r, 409)
    BY <1>1, <1>2, RefuseFollows
  <1>3. CASE Goto(r, u)
    <2>1. t \in InsertTxn
      BY <1>1, FineTxn DEF InsertPcs
    <2>2. u.pc = "insert" /\ u.todo = t.todo /\ u.new = t.new
      BY <2>1 DEF InsertTxn
    <2>3. Goto(r, u)
      BY <1>3
    <2> HIDE DEF u
    <2>4. Asked(u) = Asked(t)
      <3>1. Drafts(u) = Drafts(t)
        BY <2>2 DEF Drafts
      <3>2. t.pc \in InsertPcs /\ u.pc \in InsertPcs
        BY <1>1, <2>2 DEF InsertPcs
      <3>3. QED
        BY <3>1, <3>2, AskedBy
    <2>5. Exact(u)
      BY <2>2 DEF Exact, BulkPcs, UpdatePcs
    <2>6. QED
      BY <2>3, <2>4, <2>5 DEF Follows, AskStep
  <1>4. QED
    BY <1>2, <1>3 DEF ImportCheck

(* a draft that is inserted was to be inserted                             *)
LEMMA InsertRowFollows ==
    ASSUME BankOK, NEW r \in Request, NEW d \in Draft, NEW q \in Question,
           InsertRow(r, d, q)
    PROVE  Follows(r)
  <1>1. PICK t : t = txn[r]
    OBVIOUS
  <1> DEFINE x == [title |-> d.title, category |-> d.category,
                   difficulty |-> d.difficulty, archived |-> FALSE]
             u == [t EXCEPT !.todo = @ \ {d}, !.new[q] = x,
                            !.keys = @ \cup {Pair(d)}]
  <1>2. t.pc = "insert" /\ TypeOK /\ d \in t.todo /\ ~Touches(r, q)
    BY <1>1 DEF InsertRow, BankOK
  <1>3. CASE Refuse(r, 409)
    BY <1>1, <1>2, <1>3, RefuseFollows
  <1>4. CASE Goto(r, u)
    <2>1. t \in InsertTxn /\ InsertFine(t) /\ t.new \in Versions
      BY <1>1, <1>2, FineTxn DEF InsertPcs, Runs
    <2>2. /\ u.pc = "insert"
          /\ u.todo = t.todo \ {d}
          /\ u.new = [t.new EXCEPT ![q] = x]
      BY <1>2, <2>1 DEF InsertTxn
    <2>3. Goto(r, u)
      BY <1>4
    <2> HIDE DEF u
    <2>4. t.new[q] = NoRow
      BY <1>1, <1>2 DEF Touches, InTxn
    <2>5. Drafted(x) = d
      BY DEF Drafted, Draft
    <2>6. x # NoRow
      <3>1. x \in Row
        BY <1>2, <2>1 DEF InsertFine, Draft, Row
      <3>2. QED
        BY <3>1, RowsAreNot
    <2> HIDE DEF x
    <2>7. \A p \in Question : u.new[p] = IF p = q THEN x ELSE t.new[p]
      BY <2>1, <2>2 DEF Versions
    <2>8. Drafts(u) = Drafts(t)
      <3>1. {Drafted(u.new[p]) : p \in {b \in Question : u.new[b] # NoRow}}
              = {Drafted(t.new[p]) : p \in {b \in Question : t.new[b] # NoRow}}
                  \cup {d}
        BY <2>4, <2>5, <2>6, <2>7
      <3>2. QED
        BY <1>2, <2>2, <3>1 DEF Drafts
    <2>9. Asked(u) = Asked(t)
      BY <1>2, <2>2, <2>8, AskedBy DEF InsertPcs
    <2>10. Exact(u)
      BY <2>2 DEF Exact, BulkPcs, UpdatePcs
    <2>11. QED
      BY <1>1, <2>3, <2>9, <2>10 DEF Follows, AskStep
  <1>5. QED
    BY <1>1, <1>3, <1>4 DEF InsertRow

(* a bulk change begins                                                    *)
LEMMA BulkStartFollows ==
    ASSUME NEW r \in Request, txn[r] = Idle,
           NEW kind \in {"patch", "archive", "restore"},
           NEW ids \in SUBSET Question, NEW rows \in SUBSET Bank,
           kind = "archive" => \A q \in Bank \ rows : row[q].archived,
           kind = "restore" => \A q \in Bank \ rows : ~row[q].archived,
           kind = "patch" => rows = Bank,
           NEW category \in Category \cup {Keep},
           NEW difficulty \in Difficulty \cup {Keep},
           BulkStart(r, kind, ids, rows, category, difficulty)
    PROVE  Follows(r)
  <1> DEFINE t == [pc |-> "rows", kind |-> kind, ids |-> ids,
                   todo |-> ids \cap rows, at |-> NoRow, category |-> category,
                   difficulty |-> difficulty, new |-> Untouched, keys |-> {}]
  <1>1. /\ t.pc = "rows" /\ t.kind = kind /\ t.new = Untouched
        /\ t.ids = ids /\ t.todo = ids \cap rows
        /\ t.category = category /\ t.difficulty = difficulty
    OBVIOUS
  <1>2. Goto(r, t)
    BY DEF BulkStart
  <1> HIDE DEF t
  <1>3. Asked(t) = [op |-> kind, ids |-> ids, over |-> Over(t),
                    category |-> category, difficulty |-> difficulty]
    BY <1>1, AskedBy DEF BulkPcs
  <1>4. PICK a : a = Asked(t)
    OBVIOUS
  <1>5. a.op = kind /\ a.ids = ids /\ a.over = Over(t)
    BY <1>3, <1>4
  <1>6. Over(t) \subseteq ids \ rows
    BY <1>1 DEF Over
  <1>7. Asked(t) \in Contract!Asks /\ Asked(t).op # "edit"
    BY <1>3, <1>6 DEF Contract!Asks
  <1>8. a.over \subseteq Contract!Unsuited(a)
    BY <1>5, <1>6 DEF Contract!Unsuited, Contract!Suits, Contract!Bank, Bank
  <1>9. Exact(t)
    BY <1>1, UntouchedType DEF Exact, BulkExact, BulkPcs, UpdatePcs
  <1>10. QED
    BY <1>2, <1>4, <1>7, <1>8, <1>9, BeginFollows

LEMMA BulkBeginFollows ==
    ASSUME TypeOK, NEW r \in Request, NEW ids \in SUBSET Question,
           \/ ArchiveBegin(r, ids)
           \/ RestoreBegin(r, ids)
           \/ \E c \in Slug \cup {Keep}, d \in Difficulty \cup {Keep} :
                 PatchBegin(r, ids, c, d)
    PROVE  Follows(r)
  <1>1. CASE ArchiveBegin(r, ids)
    <2>1. PICK rows : rows = {q \in Bank : ~row[q].archived}
      OBVIOUS
    <2>2. /\ rows \in SUBSET Bank
          /\ \A q \in Bank \ rows : row[q].archived
      BY <2>1
    <2>3. BulkStart(r, "archive", ids, rows, Keep, Keep) /\ txn[r] = Idle
      BY <1>1, <2>1 DEF ArchiveBegin
    <2>4. QED
      BY <2>2, <2>3, BulkStartFollows
  <1>2. CASE RestoreBegin(r, ids)
    <2>1. PICK rows : rows = {q \in Bank : row[q].archived}
      OBVIOUS
    <2>2. /\ rows \in SUBSET Bank
          /\ \A q \in Bank \ rows : ~row[q].archived
      BY <2>1
    <2>3. BulkStart(r, "restore", ids, rows, Keep, Keep) /\ txn[r] = Idle
      BY <1>2, <2>1 DEF RestoreBegin
    <2>4. QED
      BY <2>2, <2>3, BulkStartFollows
  <1>3. ASSUME NEW c \in Slug \cup {Keep}, NEW d \in Difficulty \cup {Keep},
               PatchBegin(r, ids, c, d)
        PROVE  Follows(r)
    <2>1. txn[r] = Idle /\ txn[r].pc # "reply"
      BY <1>3 DEF PatchBegin, Idle
    <2>2. QED
      BY <1>3, <2>1, BulkStartFollows, RefuseFollows DEF PatchBegin
  <1>4. QED
    BY <1>1, <1>2, <1>3

LEMMA PassesOver ==
    ASSUME NEW kind, NEW ids, NEW over, NEW category, NEW difficulty, NEW qs,
           NEW a, a = [op |-> kind, ids |-> ids, over |-> over,
                       category |-> category, difficulty |-> difficulty]
    PROVE  [a EXCEPT !.over = @ \cup qs]
             = [op |-> kind, ids |-> ids, over |-> over \cup qs,
                category |-> category, difficulty |-> difficulty]
  OBVIOUS

(* a bulk change goes on                                                   *)
LEMMA BulkGoesOn ==
    ASSUME NEW r \in Request, NEW t, NEW u, t = txn[r], Goto(r, u),
           t.pc \in BulkPcs, u.pc \in BulkPcs, u.kind = t.kind,
           u.ids = t.ids, u.todo \subseteq t.ids,
           u.category = t.category, u.difficulty = t.difficulty,
           \A q \in Question : u.new[q] # NoRow =>
              q \in t.ids /\ u.new[q] = Changed(t, row[q]),
           \/ Over(u) = Over(t)
           \/ \E q \in t.ids : /\ Over(u) = Over(t) \cup {q}
                              /\ ~Applies(t, row[q])
                              /\ t.kind \in {"archive", "restore"}
    PROVE  Follows(r)
  <1>1. PICK a, b : a = Asked(t) /\ b = Asked(u)
    OBVIOUS
  <1>2. /\ a = [op |-> t.kind, ids |-> t.ids, over |-> Over(t),
                category |-> t.category, difficulty |-> t.difficulty]
        /\ b = [op |-> t.kind, ids |-> t.ids, over |-> Over(u),
                category |-> t.category, difficulty |-> t.difficulty]
    BY <1>1, AskedBy
  <1>3. AskStep(a, b)
    <2>1. CASE Over(u) = Over(t)
      BY <1>2, <2>1 DEF AskStep
    <2>2. ASSUME NEW q \in t.ids, Over(u) = Over(t) \cup {q},
                 ~Applies(t, row[q]), t.kind \in {"archive", "restore"}
          PROVE  AskStep(a, b)
      <3>1. Contract!Bulk(a)
        BY <1>2, <2>2 DEF Contract!Bulk
      <3>2. q \in Contract!Unsuited(a)
        BY <1>2, <2>2 DEF Contract!Unsuited, Contract!Suits, Applies
      <3>3. b = [a EXCEPT !.over = @ \cup {q}]
        BY <1>2, <2>2, PassesOver
      <3>4. QED
        BY <3>1, <3>2, <3>3 DEF AskStep
    <2>3. QED
      BY <2>1, <2>2
  <1>4. \A x : Changed(u, x) = Changed(t, x)
    BY DEF Changed
  <1>5. Exact(u)
    BY <1>4 DEF Exact, BulkExact, BulkPcs, UpdatePcs
  <1>6. QED
    BY <1>1, <1>3, <1>5 DEF Follows

LEMMA BulkRowFollows ==
    ASSUME BankOK, ExactOK, NEW r \in Request, NEW q \in Question,
           BulkRow(r, q)
    PROVE  Follows(r)
  <1>1. PICK t : t = txn[r]
    OBVIOUS
  <1> DEFINE x == Changed(t, row[q])
             rest == [t EXCEPT !.todo = @ \ {q}]
             same == [rest EXCEPT !.new[q] = x]
             pair == [rest EXCEPT !.pc = "index", !.at = q, !.new[q] = x]
  <1>2. t.pc = "rows" /\ q \in t.todo
    BY <1>1 DEF BulkRow
  <1>3. \/ Goto(r, rest) /\ ~Applies(t, row[q])
        \/ Goto(r, same)
        \/ Goto(r, pair)
    BY <1>1 DEF BulkRow
  <1>4. t \in BulkTxn /\ t.new \in Versions /\ t.pc \in BulkPcs
    BY <1>1, <1>2, FineTxn DEF BulkPcs, Runs
  <1>5. /\ t.todo \subseteq t.ids
        /\ \A p \in Question : t.new[p] # NoRow =>
              p \in t.ids /\ t.new[p] = Changed(t, row[p])
    BY <1>1, <1>4 DEF ExactOK, Exact, BulkExact
  <1>6. q \in Bank /\ t.new[q] = NoRow
    BY <1>1, <1>2, <1>4, FineTxn DEF BulkFine
  <1>7. CASE Goto(r, rest) /\ ~Applies(t, row[q])
    <2>1. /\ rest.pc = "rows" /\ rest.kind = t.kind
          /\ rest.ids = t.ids /\ rest.todo = t.todo \ {q}
          /\ rest.category = t.category /\ rest.difficulty = t.difficulty
          /\ rest.new = t.new
      BY <1>2, <1>4 DEF BulkTxn
    <2> HIDE DEF rest
    <2>2. Over(rest) = Over(t) \cup {q}
      BY <1>2, <1>5, <1>6, <2>1 DEF Over
    <2>3. t.kind \in {"archive", "restore"}
      BY <1>4, <1>7 DEF BulkTxn, Applies
    <2>4. QED
      BY <1>1, <1>2, <1>4, <1>5, <1>7, <2>1, <2>2, <2>3, BulkGoesOn DEF BulkPcs
  <1>8. x # NoRow
    <2>1. row[q] \in Row
      BY <1>6, BankRow DEF BankOK
    <2>2. x \in Row
      BY <1>4, <2>1, ChangedRow
    <2>3. QED
      BY <2>2, RowsAreNot
  <1>9. ASSUME NEW u, u.new = [t.new EXCEPT ![q] = x], u.ids = t.ids,
               u.todo = t.todo \ {q}
        PROVE  /\ Over(u) = Over(t)
               /\ \A p \in Question : u.new[p] # NoRow =>
                     p \in t.ids /\ u.new[p] = Changed(t, row[p])
    <2>1. \A p \in Question : u.new[p] = IF p = q THEN x ELSE t.new[p]
      BY <1>4, <1>9 DEF Versions
    <2>2. t.ids \subseteq Question
      BY <1>4 DEF BulkTxn
    <2>3. \A p \in Question : u.new[p] # NoRow =>
             p \in t.ids /\ u.new[p] = Changed(t, row[p])
      BY <1>2, <1>5, <2>1
    <2> HIDE DEF x
    <2>4. Over(u) = Over(t)
      BY <1>2, <1>8, <1>9, <2>1, <2>2 DEF Over
    <2>5. QED
      BY <2>3, <2>4 DEF x
  <1> HIDE DEF x
  <1>10. CASE Goto(r, same)
    <2>1. /\ same.pc = "rows" /\ same.kind = t.kind
          /\ same.ids = t.ids /\ same.todo = t.todo \ {q}
          /\ same.category = t.category /\ same.difficulty = t.difficulty
      BY <1>2, <1>4 DEF BulkTxn
    <2>2. same.new = [t.new EXCEPT ![q] = x]
      BY <1>2, <1>4 DEF BulkTxn
    <2> HIDE DEF same
    <2>3. same.pc \in BulkPcs /\ same.todo \subseteq t.ids
      BY <1>5, <2>1 DEF BulkPcs
    <2>4. QED
      BY <1>1, <1>4, <1>9, <1>10, <2>1, <2>2, <2>3, BulkGoesOn
  <1>11. CASE Goto(r, pair)
    <2>1. /\ pair.pc = "index" /\ pair.kind = t.kind
          /\ pair.ids = t.ids /\ pair.todo = t.todo \ {q}
          /\ pair.category = t.category /\ pair.difficulty = t.difficulty
      BY <1>2, <1>4 DEF BulkTxn
    <2>2. pair.new = [t.new EXCEPT ![q] = x]
      BY <1>2, <1>4 DEF BulkTxn
    <2> HIDE DEF pair
    <2>3. pair.pc \in BulkPcs /\ pair.todo \subseteq t.ids
      BY <1>5, <2>1 DEF BulkPcs
    <2>4. QED
      BY <1>1, <1>4, <1>9, <1>11, <2>1, <2>2, <2>3, BulkGoesOn
  <1>12. QED
    BY <1>3, <1>7, <1>10, <1>11

LEMMA BulkIndexFollows ==
    ASSUME BankOK, ExactOK, NEW r \in Request, BulkIndex(r)
    PROVE  Follows(r)
  <1>1. PICK t : t = txn[r]
    OBVIOUS
  <1> DEFINE u == [t EXCEPT !.pc = "rows", !.at = NoRow,
                            !.keys = @ \cup {Pair(t.new[t.at])}]
  <1>2. t.pc = "index" /\ TypeOK
    BY <1>1 DEF BulkIndex, BankOK
  <1>3. CASE Refuse(r, 409)
    BY <1>1, <1>2, <1>3, RefuseFollows
  <1>4. CASE Goto(r, u)
    <2>1. t \in BulkTxn /\ t.pc \in BulkPcs
      BY <1>1, <1>2, FineTxn DEF BulkPcs
    <2>2. /\ t.todo \subseteq t.ids
          /\ \A p \in Question : t.new[p] # NoRow =>
                p \in t.ids /\ t.new[p] = Changed(t, row[p])
      BY <1>1, <2>1 DEF ExactOK, Exact, BulkExact
    <2>3. /\ u.pc = "rows" /\ u.kind = t.kind /\ u.category = t.category
          /\ u.difficulty = t.difficulty /\ u.new = t.new
          /\ u.ids = t.ids /\ u.todo = t.todo
      BY <2>1 DEF BulkTxn
    <2> HIDE DEF u
    <2>4. Over(u) = Over(t)
      BY <2>3 DEF Over
    <2>5. QED
      BY <1>1, <1>4, <2>1, <2>2, <2>3, <2>4, BulkGoesOn DEF BulkPcs
  <1>5. QED
    BY <1>1, <1>3, <1>4 DEF BulkIndex

-----------------------------------------------------------------------------
(* update_question begins, and loads                                       *)
LEMMA UpdateBeginFollows ==
    ASSUME NEW r \in Request, NEW q \in Question, NEW d \in Draft,
           UpdateBegin(r, q, d)
    PROVE  Follows(r)
  <1> DEFINE t == [pc |-> "load", kind |-> "update", at |-> q, draft |-> d,
                   loaded |-> NoRow, old |-> {}, gone |-> {},
                   new |-> Untouched, keys |-> {}]
  <1>1. /\ t.pc = "load" /\ t.at = q /\ t.draft = d
        /\ t.loaded = NoRow /\ t.old = {}
    OBVIOUS
  <1>2. Goto(r, t) /\ txn[r] = Idle
    BY DEF UpdateBegin
  <1> HIDE DEF t
  <1>3. Asked(t) = [op |-> "edit", at |-> q, draft |-> d,
                    seen |-> NoRow, base |-> 0]
    <2>1. Only(t.old) = 0
      BY <1>1 DEF Only
    <2>2. QED
      BY <1>1, <2>1, AskedBy DEF UpdatePcs
  <1>4. Asked(t) \in Contract!Asks
    BY <1>3 DEF Contract!Asks, Contract!Draft, Draft
  <1>5. Exact(t)
    BY <1>1 DEF Exact, UpdateExact, BulkPcs, UpdatePcs
  <1>6. QED
    BY <1>2, <1>3, <1>4, <1>5, BeginFollows DEF Contract!Bulk

LEMMA UpdateLoadFollows ==
    ASSUME BankOK, ExactOK, NEW r \in Request, UpdateLoad(r)
    PROVE  Follows(r)
  <1>1. PICK t : t = txn[r]
    OBVIOUS
  <1> DEFINE u == [t EXCEPT !.pc = "load_options", !.loaded = row[t.at]]
  <1>2. t.pc = "load" /\ TypeOK
    BY <1>1 DEF UpdateLoad, BankOK
  <1>3. CASE Refuse(r, 404)
    BY <1>1, <1>2, <1>3, RefuseFollows
  <1>4. CASE t.at \in Bank /\ Goto(r, u)
    <2>1. t \in UpdateTxn
      BY <1>1, <1>2, FineTxn DEF UpdatePcs
    <2>2. t.loaded = NoRow /\ t.old = {}
      BY <1>1, <1>2 DEF ExactOK, Exact, UpdateExact, UpdatePcs
    <2>3. /\ u.pc = "load_options" /\ u.at = t.at /\ u.draft = t.draft
          /\ u.loaded = row[t.at] /\ u.old = t.old
      BY <2>1 DEF UpdateTxn
    <2> HIDE DEF u
    <2>4. /\ Asked(t) = [op |-> "edit", at |-> t.at, draft |-> t.draft,
                         seen |-> NoRow, base |-> Only(t.old)]
          /\ Asked(u) = [op |-> "edit", at |-> t.at, draft |-> t.draft,
                         seen |-> row[t.at], base |-> Only(t.old)]
      BY <1>2, <2>2, <2>3, AskedBy DEF UpdatePcs
    <2>5. Exact(u)
      BY <2>2, <2>3 DEF Exact, UpdateExact, BulkPcs, UpdatePcs
    <2>6. QED
      BY <1>1, <1>4, <2>4, <2>5 DEF Follows, AskStep
  <1>5. QED
    BY <1>1, <1>3, <1>4 DEF UpdateLoad

LEMMA UpdateLoadOptionsFollows ==
    ASSUME BankOK, ExactOK, NEW r \in Request, UpdateLoadOptions(r)
    PROVE  Follows(r)
  <1>1. PICK t : t = txn[r]
    OBVIOUS
  <1> DEFINE u == [t EXCEPT !.pc = "flush", !.old = options[t.at]]
  <1>2. t.pc = "load_options" /\ Goto(r, u)
    BY <1>1 DEF UpdateLoadOptions
  <1>3. t \in UpdateTxn /\ UpdateFine(t)
    BY <1>1, <1>2, FineTxn DEF UpdatePcs
  <1>4. t.loaded \in Row /\ t.loaded # NoRow /\ t.at \in Question
    BY <1>2, <1>3, RowsAreNot DEF UpdateFine, UpdateTxn
  <1>5. t.old = {}
    BY <1>1, <1>2 DEF ExactOK, Exact, UpdateExact, UpdatePcs
  <1>6. /\ u.pc = "flush" /\ u.at = t.at /\ u.draft = t.draft
        /\ u.loaded = t.loaded /\ u.old = options[t.at]
    BY <1>3 DEF UpdateTxn
  <1>7. Goto(r, u)
    BY <1>2
  <1> HIDE DEF u
  <1>8. Only(t.old) = 0
    BY <1>5 DEF Only
  <1>9. /\ Asked(t) = [op |-> "edit", at |-> t.at, draft |-> t.draft,
                       seen |-> t.loaded, base |-> 0]
        /\ Asked(u) = [op |-> "edit", at |-> t.at, draft |-> t.draft,
                       seen |-> t.loaded, base |-> Only(options[t.at])]
    BY <1>2, <1>6, <1>8, AskedBy DEF UpdatePcs
  <1>10. Exact(u)
    BY <1>6 DEF Exact, UpdateExact, BulkPcs, UpdatePcs
  <1>11. QED
    BY <1>1, <1>4, <1>7, <1>9, <1>10 DEF Follows, AskStep

(* an edit goes on                                                         *)
LEMMA UpdateGoesOn ==
    ASSUME NEW r \in Request, NEW t, NEW u, t = txn[r], Goto(r, u),
           t.pc \in UpdatePcs, u.pc \in UpdatePcs, u.at = t.at,
           u.draft = t.draft, u.loaded = t.loaded, u.old = t.old,
           UpdateExact(u)
    PROVE  Follows(r)
  <1>1. Asked(u) = Asked(t)
    BY AskedBy
  <1>2. Exact(u)
    BY DEF Exact, BulkPcs, UpdatePcs
  <1>3. QED
    BY <1>1, <1>2 DEF Follows, AskStep

LEMMA LookupFollows ==
    ASSUME TypeOK, NEW r \in Request, NEW t, t = txn[r], t.pc \in UpdatePcs,
           NEW w \in UpdateTxn, Lookup(r, w), w.at = t.at,
           w.draft = t.draft, w.loaded = t.loaded, w.old = t.old,
           w.new[w.at] = IF TitleFlushed(w) THEN Flushed(w, row[w.at])
                                            ELSE NoRow
    PROVE  Follows(r)
  <1> DEFINE u == [w EXCEPT !.pc = "move"]
  <1>1. CASE Refuse(r, 400)
    BY <1>1, RefuseFollows DEF UpdatePcs
  <1>2. CASE Goto(r, u)
    <2>1. /\ u.pc = "move" /\ u.at = w.at /\ u.draft = w.draft
          /\ u.loaded = w.loaded /\ u.old = w.old /\ u.new = w.new
      BY DEF UpdateTxn
    <2> HIDE DEF u
    <2>2. UpdateExact(u)
      BY <2>1 DEF UpdateExact, TitleFlushed, Flushed
    <2>3. QED
      BY <1>2, <2>1, <2>2, UpdateGoesOn DEF UpdatePcs
  <1>3. QED
    BY <1>1, <1>2 DEF Lookup

LEMMA UpdateFlushFollows ==
    ASSUME BankOK, NEW r \in Request, UpdateFlush(r)
    PROVE  Follows(r)
  <1>1. PICK t : t = txn[r]
    OBVIOUS
  <1> DEFINE x == Flushed(t, row[t.at])
             written == [t EXCEPT !.new[t.at] = x]
             pair == [written EXCEPT !.pc = "index_flush"]
  <1>2. t.pc = "flush" /\ TypeOK
    BY <1>1 DEF UpdateFlush, BankOK
  <1>3. \/ ~TitleFlushed(t) /\ Lookup(r, t)
        \/ TitleFlushed(t) /\ Lookup(r, written)
        \/ TitleFlushed(t) /\ Goto(r, pair)
    BY <1>1 DEF UpdateFlush
  <1>4. /\ t \in UpdateTxn /\ UpdateFine(t) /\ t.new \in Versions
        /\ t.pc \in UpdatePcs
    BY <1>1, <1>2, FineTxn DEF UpdatePcs, Runs
  <1>5. /\ t.at \in Question /\ row[t.at] \in Row
        /\ t.new[t.at] = NoRow
    BY <1>2, <1>4, BankRow DEF UpdateFine, BankOK
  <1>6. x \in Row
    BY <1>4, <1>5, FlushedRow
  <1>7. CASE ~TitleFlushed(t) /\ Lookup(r, t)
    BY <1>1, <1>2, <1>4, <1>5, <1>7, LookupFollows
  <1>9. CASE TitleFlushed(t) /\ Lookup(r, written)
    <2>1. /\ written \in UpdateTxn
          /\ written.at = t.at /\ written.draft = t.draft
          /\ written.loaded = t.loaded
          /\ written.old = t.old /\ written.new[t.at] = x
      BY <1>4, <1>5, <1>6 DEF UpdateTxn, Versions
    <2>2. TitleFlushed(written) /\ Lookup(r, written)
      BY <1>9, <2>1 DEF TitleFlushed
    <2>3. Flushed(written, row[t.at]) = x
      BY <2>1 DEF Flushed
    <2> HIDE DEF written, x
    <2>4. QED
      BY <1>1, <1>2, <1>4, <2>1, <2>2, <2>3, LookupFollows
  <1>10. CASE TitleFlushed(t) /\ Goto(r, pair)
    <2>1. /\ pair.pc = "index_flush"
          /\ pair.at = t.at /\ pair.draft = t.draft
          /\ pair.loaded = t.loaded
          /\ pair.old = t.old /\ pair.new[t.at] = x
      BY <1>4, <1>5, <1>6 DEF UpdateTxn, Versions
    <2>2. TitleFlushed(pair) /\ Goto(r, pair)
      BY <1>10, <2>1 DEF TitleFlushed
    <2>3. Flushed(pair, row[t.at]) = x
      BY <2>1 DEF Flushed
    <2> HIDE DEF pair, x
    <2>4. UpdateExact(pair)
      BY <2>1, <2>2, <2>3 DEF UpdateExact
    <2>5. QED
      BY <1>1, <1>4, <2>1, <2>2, <2>4, UpdateGoesOn DEF UpdatePcs
  <1>11. QED
    BY <1>3, <1>7, <1>9, <1>10

LEMMA UpdateIndexFlushFollows ==
    ASSUME BankOK, ExactOK, NEW r \in Request, UpdateIndexFlush(r)
    PROVE  Follows(r)
  <1>1. PICK t : t = txn[r]
    OBVIOUS
  <1> DEFINE u == [t EXCEPT !.keys = @ \cup {Pair(t.new[t.at])}]
  <1>2. t.pc = "index_flush" /\ t.pc \in UpdatePcs /\ TypeOK
    BY <1>1 DEF UpdateIndexFlush, BankOK, UpdatePcs
  <1>3. CASE Refuse(r, 500)
    BY <1>1, <1>2, <1>3, RefuseFollows
  <1>4. CASE Lookup(r, u)
    <2>1. t \in UpdateTxn /\ UpdateFine(t) /\ t.new \in Versions
      BY <1>1, <1>2, FineTxn DEF Runs
    <2>2. Pair(t.new[t.at]) \in Title \X Category
      BY <1>2, <2>1, RowType, PairType DEF UpdateFine, Bank
    <2>3. t.new[t.at] = IF TitleFlushed(t) THEN Flushed(t, row[t.at])
                                           ELSE NoRow
      BY <1>1, <1>2 DEF ExactOK, Exact, UpdateExact
    <2>4. /\ u \in UpdateTxn
          /\ u.at = t.at /\ u.draft = t.draft /\ u.loaded = t.loaded
          /\ u.old = t.old /\ u.new = t.new
      BY <2>1, <2>2 DEF UpdateTxn
    <2>5. Lookup(r, u)
      BY <1>4
    <2> HIDE DEF u
    <2>6. u.new[u.at] = IF TitleFlushed(u) THEN Flushed(u, row[u.at])
                                           ELSE NoRow
      BY <2>3, <2>4 DEF TitleFlushed, Flushed
    <2>7. QED
      BY <1>1, <1>2, <2>4, <2>5, <2>6, LookupFollows
  <1>5. QED
    BY <1>1, <1>3, <1>4 DEF UpdateIndexFlush

(* A row that is not flushed is as the draft has it, so that what is moved *)
(* is the merged row in every case.                                        *)
LEMMA MergedRow ==
    ASSUME NEW t \in UpdateTxn, NEW x \in Row
    PROVE  /\ ~TitleFlushed(t) => Flushed(t, x) = x
           /\ ~Moved(t) => Merged(t, x) = Flushed(t, x)
           /\ Moved(t) => Merged(t, x) =
                 [Flushed(t, x) EXCEPT !.category = t.draft.category]
  <1>1. Flushed(t, x) \in Row
    BY FlushedRow
  <1>2. ~TitleFlushed(t) => Flushed(t, x) = x
    BY DEF TitleFlushed, Flushed, Row
  <1>3. ~Moved(t) => Merged(t, x) = Flushed(t, x)
    BY <1>1 DEF Merged, Row
  <1>4. QED
    BY <1>2, <1>3 DEF Merged

(* of a request's record only these matter to what its versions are        *)
LEMMA SameMerge ==
    ASSUME NEW t, NEW u, u.draft = t.draft, u.loaded = t.loaded
    PROVE  /\ TitleFlushed(u) <=> TitleFlushed(t)
           /\ Moved(u) <=> Moved(t)
           /\ \A x : Merged(u, x) = Merged(t, x)
  BY DEF TitleFlushed, Moved, Merged, Flushed

LEMMA UpdateMoveFollows ==
    ASSUME BankOK, ExactOK, NEW r \in Request, UpdateMove(r)
    PROVE  Follows(r)
  <1>1. PICK t : t = txn[r]
    OBVIOUS
  <1> DEFINE here == Current(r, t.at)
             x == [here EXCEPT !.category = t.draft.category]
             stay == [t EXCEPT !.pc = "delete"]
             same == [t EXCEPT !.pc = "delete", !.new[t.at] = x]
             pair == [t EXCEPT !.pc = "index_move", !.new[t.at] = x]
  <1>2. t.pc = "move" /\ t.pc \in UpdatePcs
    BY <1>1 DEF UpdateMove, UpdatePcs
  <1>3. \/ ~Moved(t) /\ Goto(r, stay)
        \/ Moved(t) /\ Goto(r, same)
        \/ Moved(t) /\ Goto(r, pair)
    BY <1>1 DEF UpdateMove
  <1>4. t \in UpdateTxn /\ UpdateFine(t) /\ t.new \in Versions
    BY <1>1, <1>2, FineTxn DEF Runs
  <1>5. t.at \in Question /\ row[t.at] \in Row
    BY <1>2, <1>4, BankRow DEF UpdateFine, BankOK
  <1>6. t.new[t.at] = IF TitleFlushed(t) THEN Flushed(t, row[t.at])
                                         ELSE NoRow
    BY <1>1, <1>2 DEF ExactOK, Exact, UpdateExact
  <1>7. Flushed(t, row[t.at]) \in Row /\ Flushed(t, row[t.at]) # NoRow
    BY <1>4, <1>5, FlushedRow, RowsAreNot
  <1>8. Current(r, t.at) = Flushed(t, row[t.at])
    BY <1>1, <1>2, <1>4, <1>5, <1>6, <1>7, MergedRow
       DEF Current, Touches, InTxn
  <1>9. Moved(t) => x = Merged(t, row[t.at])
    BY <1>4, <1>5, <1>8, MergedRow
  <1> HIDE DEF here, x
  <1>10. CASE ~Moved(t) /\ Goto(r, stay)
    <2>1. /\ stay.pc = "delete" /\ stay.at = t.at /\ stay.draft = t.draft
          /\ stay.loaded = t.loaded /\ stay.old = t.old
          /\ stay.new = t.new
      BY <1>4 DEF UpdateTxn
    <2>2. Goto(r, stay)
      BY <1>10
    <2> HIDE DEF stay
    <2>3. stay.new[stay.at] = IF TitleFlushed(t) \/ Moved(t)
                              THEN Merged(t, row[stay.at]) ELSE NoRow
      BY <1>4, <1>5, <1>6, <1>10, <2>1, MergedRow
    <2>4. UpdateExact(stay)
      BY <2>1, <2>3, SameMerge DEF UpdateExact
    <2>5. stay.pc \in UpdatePcs
      BY <2>1 DEF UpdatePcs
    <2>6. QED
      BY <1>1, <1>2, <2>1, <2>2, <2>4, <2>5, UpdateGoesOn
  <1>11. CASE Moved(t) /\ Goto(r, same)
    <2>1. /\ same.pc = "delete" /\ same.at = t.at /\ same.draft = t.draft
          /\ same.loaded = t.loaded /\ same.old = t.old
      BY <1>4 DEF UpdateTxn
    <2>2. same.new[same.at] = Merged(t, row[same.at])
      BY <1>4, <1>5, <1>9, <1>11 DEF UpdateTxn, Versions
    <2>3. Goto(r, same)
      BY <1>11
    <2> HIDE DEF same
    <2>4. UpdateExact(same)
      BY <1>11, <2>1, <2>2, SameMerge DEF UpdateExact
    <2>5. same.pc \in UpdatePcs
      BY <2>1 DEF UpdatePcs
    <2>6. QED
      BY <1>1, <1>2, <2>1, <2>3, <2>4, <2>5, UpdateGoesOn
  <1>12. CASE Moved(t) /\ Goto(r, pair)
    <2>1. /\ pair.pc = "index_move" /\ pair.at = t.at /\ pair.draft = t.draft
          /\ pair.loaded = t.loaded /\ pair.old = t.old
      BY <1>4 DEF UpdateTxn
    <2>2. pair.new[pair.at] = Merged(t, row[pair.at])
      BY <1>4, <1>5, <1>9, <1>12 DEF UpdateTxn, Versions
    <2>3. Goto(r, pair)
      BY <1>12
    <2> HIDE DEF pair
    <2>4. UpdateExact(pair)
      BY <1>12, <2>1, <2>2, SameMerge DEF UpdateExact
    <2>5. pair.pc \in UpdatePcs
      BY <2>1 DEF UpdatePcs
    <2>6. QED
      BY <1>1, <1>2, <2>1, <2>3, <2>4, <2>5, UpdateGoesOn
  <1>13. QED
    BY <1>3, <1>10, <1>11, <1>12

(* the row has been merged: what is left are the index and the options     *)
LEMMA MergedGoesOn ==
    ASSUME NEW r \in Request, NEW t, NEW u, t = txn[r], Goto(r, u), Exact(t),
           t.pc \in {"index_move", "delete", "options"},
           u.pc \in {"index_move", "delete", "options"}, u.at = t.at,
           u.draft = t.draft, u.loaded = t.loaded, u.old = t.old,
           u.new = t.new
    PROVE  Follows(r)
  <1>1. t.pc \in UpdatePcs /\ u.pc \in UpdatePcs
    BY DEF UpdatePcs
  <1>2. UpdateExact(t)
    BY <1>1 DEF Exact
  <1>3. UpdateExact(u)
    BY <1>2, SameMerge DEF UpdateExact
  <1>4. QED
    BY <1>1, <1>3, UpdateGoesOn

LEMMA UpdateIndexMoveFollows ==
    ASSUME BankOK, ExactOK, NEW r \in Request, UpdateIndexMove(r)
    PROVE  Follows(r)
  <1>1. PICK t : t = txn[r]
    OBVIOUS
  <1> DEFINE u == [t EXCEPT !.pc = "delete",
                            !.keys = @ \cup {Pair(t.new[t.at])}]
  <1>2. t.pc = "index_move" /\ TypeOK
    BY <1>1 DEF UpdateIndexMove, BankOK
  <1>3. CASE Refuse(r, 500)
    BY <1>1, <1>2, <1>3, RefuseFollows
  <1>4. CASE Goto(r, u)
    <2>1. t \in UpdateTxn
      BY <1>1, <1>2, FineTxn DEF UpdatePcs
    <2>2. /\ u.pc = "delete" /\ u.at = t.at /\ u.draft = t.draft
          /\ u.loaded = t.loaded /\ u.old = t.old /\ u.new = t.new
      BY <2>1 DEF UpdateTxn
    <2>3. Exact(t) /\ Goto(r, u)
      BY <1>1, <1>4 DEF ExactOK
    <2> HIDE DEF u
    <2>4. QED
      BY <1>1, <1>2, <2>2, <2>3, MergedGoesOn
  <1>5. QED
    BY <1>1, <1>3, <1>4 DEF UpdateIndexMove

LEMMA UpdateDeleteFollows ==
    ASSUME BankOK, ExactOK, NEW r \in Request, UpdateDelete(r)
    PROVE  Follows(r)
  <1>1. PICK t : t = txn[r]
    OBVIOUS
  <1> DEFINE u == [t EXCEPT !.pc = "options",
                            !.gone = t.old \cap options[t.at]]
  <1>2. t.pc = "delete" /\ Goto(r, u)
    BY <1>1 DEF UpdateDelete
  <1>3. t \in UpdateTxn
    BY <1>1, <1>2, FineTxn DEF UpdatePcs
  <1>4. /\ u.pc = "options" /\ u.at = t.at /\ u.draft = t.draft
        /\ u.loaded = t.loaded /\ u.old = t.old /\ u.new = t.new
    BY <1>3 DEF UpdateTxn
  <1>5. Exact(t) /\ Goto(r, u)
    BY <1>1, <1>2 DEF ExactOK
  <1> HIDE DEF u
  <1>6. QED
    BY <1>1, <1>2, <1>4, <1>5, MergedGoesOn

(* who is in a deadlock waits in the middle of a transaction               *)
LEMMA DeadlockAbortFollows ==
    ASSUME TypeOK, NEW r \in Request, DeadlockAbort(r)
    PROVE  Follows(r)
  <1>1. \E s : WaitsFor(r, s)
    BY DEF DeadlockAbort, Deadlocked
  <1>2. txn[r].pc # "reply"
    BY <1>1 DEF WaitsFor
  <1>3. QED
    BY <1>2, RefuseFollows DEF DeadlockAbort

(* a step that commits nothing is one of the contract without effect       *)
LEMMA StepFollows ==
    ASSUME BankOK, ExactOK, NEW r \in Request,
           Arrive(r) \/ Serve(r) \/ Crash(r)
    PROVE  \/ InsertCommit(r)
           \/ BulkCommit(r)
           \/ UpdateCommit(r) /\ ~Collides(txn[r])
           \/ Follows(r)
  <1>1. TypeOK
    BY DEF BankOK
  <1>2. CASE Arrive(r)
    BY <1>1, <1>2, CreateBeginFollows, ImportBeginFollows,
       UpdateBeginFollows, BulkBeginFollows, BankAssumption
       DEF Arrive, BankAssumption
  <1>3. CASE UpdateCommit(r) /\ Collides(txn[r])
    BY <1>1, <1>3, RefuseFollows DEF UpdateCommit
  <1>4. CASE Respond(r)
    BY <1>1, <1>4, LeaveFollows DEF Respond
  <1>5. CASE Crash(r)
    BY <1>1, <1>5, LeaveFollows DEF Crash, InTxn
  <1>6. QED
    BY <1>1, <1>2, <1>3, <1>4, <1>5, ImportCheckFollows, InsertRowFollows,
       BulkRowFollows, BulkIndexFollows, UpdateLoadFollows,
       UpdateLoadOptionsFollows, UpdateFlushFollows,
       UpdateIndexFlushFollows, UpdateMoveFollows, UpdateIndexMoveFollows,
       UpdateDeleteFollows, DeadlockAbortFollows DEF Serve

-----------------------------------------------------------------------------
(* The strengthened invariant is kept.                                     *)
LEMMA FollowsKeepsExact ==
    ASSUME TypeOK, ExactOK, NEW r \in Request, Follows(r)
    PROVE  ExactOK'
  <1>1. PICK t : Goto(r, t) /\ Exact(t)
    BY DEF Follows
  <1>2. txn'[r] = t /\ \A s \in Request \ {r} : txn'[s] = txn[s]
    BY <1>1 DEF Goto, TypeOK
  <1>3. row' = row
    BY <1>1 DEF Goto
  <1>4. \A s \in Request : Exact(txn'[s])
    BY <1>1, <1>2 DEF ExactOK
  <1>5. QED
    BY <1>3, <1>4 DEF ExactOK, Exact, BulkExact, UpdateExact

(* Nobody else's versions were made of a row that this commit changes.     *)
LEMMA CommitsKeepExact ==
    ASSUME BankInv, ExactOK, NEW r \in Request, Commits(r)
    PROVE  ExactOK'
  <1>1. /\ \A q \in Question : row'[q] = Current(r, q)
        /\ txn'[r].pc = "reply"
        /\ \A s \in Request \ {r} :
              /\ txn'[s] = txn[s]
              /\ \A q \in Question : Touches(s, q) => ~Touches(r, q)
    BY CommitView DEF BankInv, BankOK, PairsOK
  <1>2. Exact(txn[r])'
    BY <1>1 DEF Exact, BulkPcs, UpdatePcs
  <1>3. ASSUME NEW s \in Request \ {r}
        PROVE  Exact(txn[s])'
    <2>1. PICK t : t = txn[s]
      OBVIOUS
    <2>2. Exact(t)
      BY <2>1 DEF ExactOK
    <2>3. \A q \in Question : Runs(t) /\ t.new[q] # NoRow =>
             row'[q] = row[q]
      BY <1>1, <2>1 DEF Current, Touches, InTxn, Runs
    <2>4. t.pc \in BulkPcs \cup UpdatePcs => Runs(t)
      BY DEF BulkPcs, UpdatePcs, Runs
    <2>5. t.pc \in BulkPcs => BulkExact(t)'
      BY <2>2, <2>3, <2>4 DEF Exact, BulkExact
    <2>6. ASSUME t.pc \in UpdatePcs
          PROVE  UpdateExact(t)'
      <3>1. t \in UpdateTxn /\ UpdateFine(t) /\ UpdateExact(t)
        BY <2>1, <2>2, <2>6, FineTxn DEF BankInv, Exact
      <3>2. CASE t.pc \in {"load", "load_options", "flush"}
        BY <3>1, <3>2 DEF UpdateExact
      <3>3. CASE t.pc \notin {"load", "load_options", "flush"}
        <4>1. t.at \in Question /\ row[t.at] \in Row
          BY <3>1, <3>3, BankRow DEF UpdateFine, BankInv, BankOK
        <4>2. Flushed(t, row[t.at]) \in Row
          BY <3>1, <4>1, FlushedRow
        <4>3. t.pc \in {"index_move", "delete", "options"} =>
                 t.draft.category \in Category
          BY <3>1 DEF UpdateFine
        <4>4. t.pc \in {"index_move", "delete", "options"} =>
                 Merged(t, row[t.at]) \in Row
          BY <4>2, <4>3 DEF Merged, Row
        <4>5. t.new[t.at] # NoRow => row'[t.at] = row[t.at]
          BY <2>3, <2>4, <2>6, <4>1
        <4>6. /\ Flushed(t, row[t.at]) # NoRow
              /\ t.pc \in {"index_move", "delete", "options"} =>
                    Merged(t, row[t.at]) # NoRow
          BY <4>2, <4>4, RowsAreNot
        <4>7. CASE t.pc \in {"index_flush", "move"}
          <5>1. t.new[t.at] = IF TitleFlushed(t) THEN Flushed(t, row[t.at])
                                                 ELSE NoRow
            BY <3>1, <4>7 DEF UpdateExact
          <5>2. t.new[t.at] = IF TitleFlushed(t) THEN Flushed(t, row'[t.at])
                                                 ELSE NoRow
            BY <4>5, <4>6, <5>1
          <5>3. QED
            BY <3>3, <4>7, <5>2 DEF UpdateExact
        <4>8. CASE t.pc \in {"index_move", "delete", "options"}
          <5>1. t.new[t.at] = IF TitleFlushed(t) \/ Moved(t)
                              THEN Merged(t, row[t.at]) ELSE NoRow
            BY <3>1, <4>8 DEF UpdateExact
          <5>2. t.new[t.at] = IF TitleFlushed(t) \/ Moved(t)
                              THEN Merged(t, row'[t.at]) ELSE NoRow
            BY <4>5, <4>6, <4>8, <5>1
          <5>3. QED
            BY <3>3, <4>8, <5>2 DEF UpdateExact
        <4>9. QED
          BY <2>6, <3>3, <4>7, <4>8 DEF UpdatePcs
      <3>4. QED
        BY <3>2, <3>3
    <2>7. txn'[s] = t
      BY <1>1, <2>1
    <2>8. QED
      BY <2>5, <2>6, <2>7 DEF Exact, BulkExact, UpdateExact
  <1>4. QED
    BY <1>2, <1>3 DEF ExactOK

LEMMA InsertCommitCounts ==
    ASSUME BankInv, ListsCounted, NEW r \in Request, InsertCommit(r)
    PROVE  ListsCounted'
  <1> DEFINE created == {q \in Question : txn[r].new[q] # NoRow}
  <1>1. /\ row' = Committed(txn[r])
        /\ options' = [q \in Question |->
                         IF q \in created THEN {1} ELSE options[q]]
        /\ edits' = [q \in Question |->
                       IF q \in created THEN 1 ELSE edits[q]]
    BY DEF InsertCommit
  <1>2. \A q \in Question : q \notin created => row'[q] = row[q]
    BY <1>1 DEF Committed
  <1>3. QED
    BY <1>1, <1>2 DEF ListsCounted, Bank

LEMMA BulkCommitCounts ==
    ASSUME BankInv, ListsCounted, NEW r \in Request, BulkCommit(r)
    PROVE  ListsCounted'
  <1>1. /\ row' = Committed(txn[r]) /\ txn[r].pc = "rows"
        /\ options' = options /\ edits' = edits
    BY DEF BulkCommit
  <1>2. BulkFine(txn[r])
    BY <1>1, FineTxn DEF BankInv, BulkPcs
  <1>3. \A q \in Question : txn[r].new[q] # NoRow => q \in Bank
    BY <1>2 DEF BulkFine
  <1>4. Bank' \subseteq Bank
    BY <1>1, <1>3 DEF Committed, Bank
  <1>5. QED
    BY <1>1, <1>4 DEF ListsCounted

LEMMA UpdateCommitCounts ==
    ASSUME BankInv, ListsCounted, NEW r \in Request,
           UpdateCommit(r), ~Collides(txn[r])
    PROVE  /\ ListsCounted'
           /\ options' = [options EXCEPT ![txn[r].at] = {edits'[txn[r].at]}]
           /\ edits' = [edits EXCEPT ![txn[r].at] = @ + 1]
           /\ options[txn[r].at] = {edits[txn[r].at]}
           /\ options[txn[r].at] = txn[r].old
           /\ txn[r].at \in Question
  <1>1. PICK t : t = txn[r]
    OBVIOUS
  <1>2. /\ t.pc = "options"
        /\ row' = Committed(t)
        /\ edits' = [edits EXCEPT ![t.at] = @ + 1]
        /\ options' = [options EXCEPT
                         ![t.at] = Remaining(t) \cup {edits'[t.at]}]
    BY <1>1 DEF UpdateCommit, Collides
  <1>3. /\ t.at \in Bank /\ t.at \in Question
        /\ Remaining(t) = {} /\ options[t.at] = t.old
    BY <1>1, <1>2, ReplacedList DEF Bank
  <1>4. options' = [options EXCEPT ![t.at] = {edits'[t.at]}]
    BY <1>2, <1>3
  <1>5. UpdateFine(t)
    BY <1>1, <1>2, FineTxn DEF BankInv, UpdatePcs
  <1>6. Bank' \subseteq Bank
    BY <1>2, <1>3, <1>5 DEF UpdateFine, Committed, Bank
  <1>7. ListsCounted'
    <2> SUFFICES ASSUME NEW q \in Bank'
                 PROVE  options'[q] = {edits'[q]}
      BY DEF ListsCounted
    <2>1. q \in Bank /\ q \in Question /\ options[q] = {edits[q]}
      BY <1>6 DEF Bank, ListsCounted
    <2>2. QED
      BY <1>2, <1>3, <1>4, <2>1 DEF BankInv, BankOK, TypeOK
  <1>8. QED
    BY <1>1, <1>2, <1>3, <1>4, <1>7 DEF ListsCounted

LEMMA CommitIsCommits ==
    ASSUME NEW r \in Request,
           \/ InsertCommit(r)
           \/ BulkCommit(r)
           \/ UpdateCommit(r) /\ ~Collides(txn[r])
    PROVE  Commits(r)
  BY DEF InsertCommit, BulkCommit, UpdateCommit, Collides, Commits, Runs,
         Indexes, IndexPcs

LEMMA ContractInvariant == Spec => []ContractInv
  <1>1. Init => ContractInv
    <2> SUFFICES ASSUME Init
                 PROVE  ContractInv
      OBVIOUS
    <2>1. \A r \in Request : txn[r].pc = "idle"
      BY DEF Init, Idle
    <2>2. ExactOK
      BY <2>1 DEF ExactOK, Exact, BulkPcs, UpdatePcs
    <2>3. ListsCounted
      BY DEF Init, Bank, ListsCounted
    <2>4. QED
      BY <2>2, <2>3, InitBank DEF ContractInv
  <1>2. ContractInv /\ [Next]_vars => ContractInv'
    <2> SUFFICES ASSUME ContractInv, [Next]_vars
                 PROVE  ExactOK' /\ ListsCounted'
      BY NextBank DEF ContractInv
    <2>1. BankInv /\ BankOK /\ TypeOK /\ ExactOK /\ ListsCounted
      BY DEF ContractInv, BankInv, BankOK
    <2>2. CASE UNCHANGED vars
      BY <2>1, <2>2 DEF vars, ExactOK, Exact, BulkExact, UpdateExact,
                        ListsCounted, Bank
    <2>3. CASE Next
      <3>1. PICK r \in Request : Arrive(r) \/ Serve(r) \/ Crash(r)
        BY <2>3 DEF Next
      <3>2. CASE Follows(r)
        <4>1. UNCHANGED <<row, options, edits>>
          BY <3>2 DEF Follows, Goto
        <4>2. ListsCounted'
          BY <2>1, <4>1 DEF ListsCounted, Bank
        <4>3. QED
          BY <2>1, <3>2, <4>2, FollowsKeepsExact
      <3>3. CASE InsertCommit(r)
        BY <2>1, <3>3, CommitIsCommits, CommitsKeepExact, InsertCommitCounts
      <3>4. CASE BulkCommit(r)
        BY <2>1, <3>4, CommitIsCommits, CommitsKeepExact, BulkCommitCounts
      <3>5. CASE UpdateCommit(r) /\ ~Collides(txn[r])
        BY <2>1, <3>5, CommitIsCommits, CommitsKeepExact, UpdateCommitCounts
      <3>6. QED
        BY <2>1, <3>1, <3>2, <3>3, <3>4, <3>5, StepFollows
    <2>4. QED
      BY <2>2, <2>3
  <1>3. QED
    BY <1>1, <1>2, PTL DEF Spec
-----------------------------------------------------------------------------
(* Every step is one of the contract, or none.                             *)
LEMMA FollowsContract ==
    ASSUME TypeOK, NEW r \in Request, Follows(r)
    PROVE  [Contract!Next]_Contract!vars
  <1> DEFINE ask == [s \in Request |-> Asked(txn[s])]
  <1>1. PICK t : Goto(r, t) /\ AskStep(Asked(txn[r]), Asked(t))
    BY DEF Follows
  <1>2. /\ UNCHANGED <<row, options, edits, shelved>>
        /\ txn' = [txn EXCEPT ![r] = t]
    BY <1>1 DEF Goto
  <1>3. /\ ask' = [ask EXCEPT ![r] = Asked(t)]
        /\ ask[r] = Asked(txn[r])
        /\ ask'[r] = Asked(t)
    BY <1>2 DEF TypeOK
  <1>4. Contract!Untouched
    BY <1>2 DEF Contract!Untouched
  <1>5. PICK a, b : a = Asked(txn[r]) /\ b = Asked(t)
    OBVIOUS
  <1>6. AskStep(a, b) /\ ask[r] = a /\ ask'[r] = b /\ Contract!Become(r, b)
    BY <1>1, <1>3, <1>5 DEF Contract!Become
  <1>7. CASE b = a
    <2>1. ask' = ask
      BY <1>3, <1>5, <1>7
    <2>2. QED
      BY <1>2, <2>1 DEF Contract!vars
  <1>8. CASE /\ a.op = "idle"
             /\ b \in Contract!Asks
             /\ b.op = "edit" => b.seen = NoRow /\ b.base = 0
             /\ Contract!Bulk(b) => b.over \subseteq Contract!Unsuited(b)
    <2>1. Contract!Ask(r)
      BY <1>4, <1>6, <1>8 DEF Contract!Ask
    <2>2. QED
      BY <2>1 DEF Contract!Next
  <1>9. CASE a.op \notin {"confirmed", "refused"} /\ b = [op |-> "refused"]
    <2>1. Contract!Refuse(r)
      BY <1>4, <1>6, <1>9 DEF Contract!Refuse, Contract!Told
    <2>2. QED
      BY <2>1 DEF Contract!Next
  <1>10. CASE a.op # "idle" /\ b = [op |-> "idle"]
    <2>1. Contract!Leave(r)
      BY <1>4, <1>6, <1>10 DEF Contract!Leave, Contract!Told
    <2>2. QED
      BY <2>1 DEF Contract!Next
  <1>11. CASE /\ a.op = "edit" /\ a.seen = NoRow /\ a.at \in Bank
              /\ b = [a EXCEPT !.seen = row[a.at]]
    <2>1. Contract!See(r)
      BY <1>4, <1>6, <1>11 DEF Contract!See, Contract!Bank, Bank
    <2>2. QED
      BY <2>1 DEF Contract!Next
  <1>12. CASE /\ a.op = "edit" /\ a.seen # NoRow /\ a.base = 0
              /\ a.at \in Question
              /\ b = [a EXCEPT !.base = Only(options[a.at])]
    <2>1. Contract!See(r)
      BY <1>4, <1>6, <1>12 DEF Contract!See
    <2>2. QED
      BY <2>1 DEF Contract!Next
  <1>13. CASE /\ Contract!Bulk(a)
              /\ \E q \in Contract!Unsuited(a) :
                    b = [a EXCEPT !.over = @ \cup {q}]
    <2>1. Contract!Pass(r)
      BY <1>4, <1>6, <1>13 DEF Contract!Pass
    <2>2. QED
      BY <2>1 DEF Contract!Next
  <1>14. QED
    BY <1>6, <1>7, <1>8, <1>9, <1>10, <1>11, <1>12, <1>13 DEF AskStep

LEMMA KeepsUnique ==
    ASSUME UniquePairs'
    PROVE  Contract!NoTwins(row')
  BY DEF UniquePairs, Bank, Pair, Contract!NoTwins

(* the answer of a commit, as the contract sees it                         *)
LEMMA ConfirmContract ==
    ASSUME TypeOK, NEW r \in Request, Confirm(r)
    PROVE  Contract!Confirm(r)
  <1> DEFINE ask == [s \in Request |-> Asked(txn[s])]
             t == [pc |-> "reply", code |-> 200]
  <1>1. txn' = [txn EXCEPT ![r] = t]
    BY DEF Confirm
  <1>2. t.pc = "reply" /\ t.code = 200
    OBVIOUS
  <1> HIDE DEF t
  <1>3. Asked(t) = [op |-> "confirmed"]
    BY <1>2, AskedBy
  <1>4. ask' = [ask EXCEPT ![r] = Asked(t)]
    BY <1>1 DEF TypeOK
  <1>5. QED
    BY <1>3, <1>4 DEF Contract!Confirm, Contract!Become, Contract!Told

LEMMA InsertCommitContract ==
    ASSUME ContractInv, UniquePairs', NEW r \in Request, InsertCommit(r)
    PROVE  Contract!Next
  <1>1. PICK t : t = txn[r]
    OBVIOUS
  <1> DEFINE created == {q \in Question : t.new[q] # NoRow}
             ask == [s \in Request |-> Asked(txn[s])]
             born == {q \in Question : row'[q] # row[q]}
             list == [q \in Question |-> Only(options[q])]
  <1>2. /\ t.pc = "insert" /\ t.todo = {}
        /\ row' = Committed(t)
        /\ options' = [q \in Question |->
                         IF q \in created THEN {1} ELSE options[q]]
        /\ Confirm(r)
        /\ shelved' = shelved
    BY <1>1 DEF InsertCommit
  <1>3. BankOK /\ TypeOK
    BY DEF ContractInv, BankInv, BankOK
  <1>4. t \in InsertTxn /\ InsertFine(t) /\ t.new \in Versions
    BY <1>1, <1>2, <1>3, FineTxn DEF InsertPcs, Runs
  <1>5. \A q \in created : /\ q \notin Bank /\ row[q] = NoRow
                           /\ t.new[q] \in Row /\ ~t.new[q].archived
    BY <1>4, RowType DEF InsertFine, Bank
  <1>6. \A q \in Question :
           row'[q] = IF q \in created THEN t.new[q] ELSE row[q]
    BY <1>2 DEF Committed
  <1>7. born = created
    BY <1>5, <1>6
  <1>8. ask[r] = [op |-> "add",
                  drafts |-> {Drafted(t.new[q]) : q \in created}]
    <2>1. Asked(t) = [op |-> "add", drafts |-> Drafts(t)]
      BY <1>2, AskedBy DEF InsertPcs
    <2>2. Drafts(t) = {Drafted(t.new[q]) : q \in created}
      BY <1>2 DEF Drafts
    <2>3. QED
      BY <1>1, <2>1, <2>2
  <1>9. \A x \in Row : ~x.archived => Contract!New(Drafted(x)) = x
    BY DEF Row, Contract!New, Drafted
  <1>10. {row'[q] : q \in born} = {Contract!New(d) : d \in ask[r].drafts}
    <2>1. ask[r].drafts = {Drafted(t.new[q]) : q \in created}
      BY <1>8
    <2>2. \A q \in created : row'[q] = Contract!New(Drafted(t.new[q]))
      BY <1>5, <1>6, <1>9
    <2> HIDE DEF created, ask, born
    <2>3. QED
      BY <1>7, <2>1, <2>2
  <1>11. \A d \in ask[r].drafts : d.category \in Category
    BY <1>5, <1>8 DEF Drafted, Row
  <1>12. born \cap Contract!Bank = {}
    BY <1>5, <1>7 DEF Contract!Bank, Bank
  <1>13. list' = [q \in Question |-> IF q \in born THEN 1 ELSE list[q]]
    <2>1. Only({1}) = 1
      BY DEF Only
    <2>2. \A q \in Question :
             Only(options'[q]) = IF q \in born THEN 1 ELSE Only(options[q])
      BY <1>2, <1>7, <2>1
    <2>3. QED
      BY <2>2
  <1>14. Contract!Add(r)
    BY <1>2, <1>3, <1>8, <1>10, <1>11, <1>12, <1>13, ConfirmContract
       DEF Contract!Add
  <1>15. QED
    BY <1>14, KeepsUnique DEF Contract!Next

LEMMA SameRow ==
    ASSUME NEW x \in Row, NEW y \in Row,
           x.title = y.title, x.category = y.category,
           x.difficulty = y.difficulty, x.archived = y.archived
    PROVE  x = y
  BY DEF Row

(* the contract's idea of a bulk change and of an edit                     *)
LEMMA WithIsChanged ==
    ASSUME NEW t \in BulkTxn, NEW x \in Row, NEW a, a.op = t.kind,
           a.category = t.category, a.difficulty = t.difficulty
    PROVE  Contract!With(a, x) = Changed(t, x)
  <1>1. Changed(t, x) \in Row
    BY ChangedRow
  <1>2. /\ Changed(t, x).title = x.title
        /\ Changed(t, x).category =
              IF t.category = Keep THEN x.category ELSE t.category
        /\ Changed(t, x).difficulty =
              IF t.difficulty = Keep THEN x.difficulty ELSE t.difficulty
        /\ Changed(t, x).archived =
              IF t.kind = "patch" THEN x.archived ELSE t.kind = "archive"
    BY DEF Changed, Row
  <1>3. PICK y : y = Contract!With(a, x)
    OBVIOUS
  <1>4. /\ y.title = x.title
        /\ y.category = IF t.category = Keep THEN x.category ELSE t.category
        /\ y.difficulty =
              IF t.difficulty = Keep THEN x.difficulty ELSE t.difficulty
        /\ y.archived =
              IF t.kind = "patch" THEN x.archived ELSE t.kind = "archive"
    BY <1>3 DEF Contract!With
  <1>5. y \in Row
    BY <1>3 DEF Contract!With, Row, BulkTxn
  <1>6. QED
    BY <1>1, <1>2, <1>3, <1>4, <1>5, SameRow

LEMMA MergeIsMerged ==
    ASSUME NEW t \in UpdateTxn, NEW x \in Row, t.loaded \in Row,
           t.draft.category \in Category
    PROVE  Merged(t, x) =
             [title |-> Contract!Merge(t.draft.title, t.loaded.title,
                                       x.title),
              category |-> Contract!Merge(t.draft.category,
                                          t.loaded.category, x.category),
              difficulty |-> Contract!Merge(t.draft.difficulty,
                                 t.loaded.difficulty, x.difficulty),
              archived |-> x.archived]
  <1> DEFINE y == [title |-> Contract!Merge(t.draft.title, t.loaded.title,
                                            x.title),
                   category |-> Contract!Merge(t.draft.category,
                                    t.loaded.category, x.category),
                   difficulty |-> Contract!Merge(t.draft.difficulty,
                                      t.loaded.difficulty, x.difficulty),
                   archived |-> x.archived]
  <1>1. PICK f : f = Flushed(t, x)
    OBVIOUS
  <1>2. f \in Row
    BY <1>1, FlushedRow
  <1>3. /\ f.title = IF t.draft.title # t.loaded.title THEN t.draft.title
                                                      ELSE x.title
        /\ f.difficulty = IF t.draft.difficulty # t.loaded.difficulty
                          THEN t.draft.difficulty ELSE x.difficulty
        /\ f.category = x.category /\ f.archived = x.archived
    BY <1>1 DEF Flushed, Row
  <1>4. PICK m : m = Merged(t, x)
    OBVIOUS
  <1>5. m = [f EXCEPT !.category = IF Moved(t) THEN t.draft.category ELSE @]
    BY <1>1, <1>4 DEF Merged
  <1>6. /\ m \in Row
        /\ m.title = f.title /\ m.difficulty = f.difficulty
        /\ m.archived = f.archived
        /\ m.category = IF Moved(t) THEN t.draft.category ELSE f.category
    BY <1>2, <1>5 DEF Row
  <1>7. y.title = m.title /\ y.category = m.category
    BY <1>3, <1>6 DEF Contract!Merge, Moved
  <1>8. y.difficulty = m.difficulty /\ y.archived = m.archived
    BY <1>3, <1>6 DEF Contract!Merge
  <1>9. y \in Row
    <2>1. y.title \in Title /\ y.category \in Category
      BY <1>6, <1>7 DEF Row
    <2>2. y.difficulty \in Difficulty /\ y.archived \in BOOLEAN
      BY <1>6, <1>8 DEF Row
    <2>3. QED
      BY <2>1, <2>2 DEF Row
  <1> HIDE DEF y
  <1>10. m = y
    BY <1>6, <1>7, <1>8, <1>9, SameRow
  <1>11. QED
    BY <1>4, <1>10 DEF y

LEMMA BulkCommitContract ==
    ASSUME ContractInv, UniquePairs', NEW r \in Request, BulkCommit(r)
    PROVE  Contract!Next
  <1>1. PICK t : t = txn[r]
    OBVIOUS
  <1> DEFINE affected == {q \in Question : t.new[q] # NoRow}
             ask == [s \in Request |-> Asked(txn[s])]
             a == [op |-> t.kind, ids |-> t.ids, over |-> Over(t),
                   category |-> t.category, difficulty |-> t.difficulty]
             step(q) == CASE q \in affected /\ t.kind = "archive" -> 1
                          [] q \in affected /\ t.kind = "restore" -> -1
                          [] OTHER -> 0
  <1>2. /\ t.pc = "rows" /\ t.todo = {}
        /\ row' = Committed(t)
        /\ shelved' = [q \in Question |-> shelved[q] + step(q)]
        /\ options' = options
        /\ Confirm(r)
    BY <1>1 DEF BulkCommit
  <1>3. BankOK /\ TypeOK /\ ExactOK
    BY DEF ContractInv, BankInv, BankOK
  <1>4. /\ t \in BulkTxn /\ BulkFine(t) /\ t.pc \in BulkPcs
        /\ t.kind \in {"patch", "archive", "restore"}
    BY <1>1, <1>2, <1>3, FineTxn DEF BulkPcs, BulkTxn
  <1>5. ask[r] = a
    BY <1>1, <1>4, AskedBy
  <1>6. /\ a.op = t.kind /\ a.category = t.category
        /\ a.difficulty = t.difficulty
        /\ a.ids = t.ids /\ a.over = Over(t)
    OBVIOUS
  <1> HIDE DEF a
  <1>7. \A q \in affected : q \in Bank /\ Contract!Suits(a, row[q])
    BY <1>4, <1>6 DEF BulkFine, Contract!Suits
  <1>8. \A x \in Row : Changed(t, x) = Contract!With(a, x)
    BY <1>4, <1>6, WithIsChanged
  <1>9. \A q \in affected : t.new[q] = Contract!With(a, row[q])
    <2>1. \A q \in affected : t.new[q] = Changed(t, row[q])
      BY <1>1, <1>3, <1>4 DEF ExactOK, Exact, BulkExact
    <2>2. QED
      BY <1>3, <1>7, <1>8, <2>1, BankRow
  <1>10. row' = [q \in Question |-> IF q \in affected
                                    THEN Contract!With(a, row[q])
                                    ELSE row[q]]
    BY <1>2, <1>9 DEF Committed
  <1>11. \A q \in Question :
            step(q) = IF q \in affected THEN Contract!Count(a) ELSE 0
    BY <1>4, <1>6 DEF Contract!Count
  <1>12. shelved' = [q \in Question |-> shelved[q] +
                       IF q \in affected THEN Contract!Count(a) ELSE 0]
    <2> HIDE DEF step, affected
    <2>1. QED
      BY <1>2, <1>11
  <1>13. /\ affected = a.ids \ a.over
         /\ affected \cap Contract!Unsuited(a) = {}
    <2>1. t.ids \subseteq Question
      BY <1>4 DEF BulkTxn
    <2>2. affected \subseteq t.ids
      BY <1>1, <1>3, <1>4 DEF ExactOK, Exact, BulkExact
    <2>3. affected = t.ids \ Over(t)
      BY <1>2, <2>1, <2>2 DEF Over
    <2>4. QED
      BY <1>6, <1>7, <2>3 DEF Contract!Unsuited, Contract!Bank, Bank
  <1>14. UNCHANGED [q \in Question |-> Only(options[q])]
    BY <1>2
  <1>15. Contract!Confirm(r)
    BY <1>2, <1>3, ConfirmContract
  <1>16. Contract!Change(r)
    <2>1. Contract!Bulk(a)
      BY <1>4, <1>6 DEF Contract!Bulk
    <2> HIDE DEF affected, ask
    <2>2. QED
      BY <1>5, <1>10, <1>12, <1>13, <1>14, <1>15, <2>1
         DEF Contract!Change, ask
  <1>17. QED
    BY <1>16, KeepsUnique DEF Contract!Next

LEMMA UpdateCommitContract ==
    ASSUME ContractInv, UniquePairs', NEW r \in Request,
           UpdateCommit(r), ~Collides(txn[r])
    PROVE  Contract!Next
  <1>1. PICK t : t = txn[r]
    OBVIOUS
  <1> DEFINE ask == [s \in Request |-> Asked(txn[s])]
             list == [q \in Question |-> Only(options[q])]
             x == row[t.at]
             merged ==
               [title |-> Contract!Merge(t.draft.title, t.loaded.title,
                                         x.title),
                category |-> Contract!Merge(t.draft.category,
                                            t.loaded.category, x.category),
                difficulty |-> Contract!Merge(t.draft.difficulty,
                                   t.loaded.difficulty, x.difficulty),
                archived |-> x.archived]
  <1>2. /\ t.pc = "options" /\ t.pc \in UpdatePcs
        /\ row' = Committed(t)
        /\ Confirm(r)
        /\ shelved' = shelved
    BY <1>1 DEF UpdateCommit, Collides, UpdatePcs
  <1>3. BankInv /\ BankOK /\ TypeOK /\ ExactOK /\ ListsCounted
    BY DEF ContractInv, BankInv, BankOK
  <1>4. t \in UpdateTxn /\ UpdateFine(t) /\ UpdateExact(t)
    BY <1>1, <1>2, <1>3, FineTxn DEF ExactOK, Exact
  <1>5. /\ t.at \in Bank /\ t.at \in Question /\ x \in Row
        /\ t.loaded \in Row /\ t.loaded # NoRow
        /\ t.draft.category \in Category
    BY <1>2, <1>3, <1>4, BankRow, RowsAreNot DEF UpdateFine
  <1>6. ask[r] = [op |-> "edit", at |-> t.at, draft |-> t.draft,
                  seen |-> t.loaded, base |-> Only(t.old)]
    BY <1>1, <1>2, AskedBy
  <1>7. /\ options' = [options EXCEPT ![t.at] = {edits'[t.at]}]
        /\ edits' = [edits EXCEPT ![t.at] = @ + 1]
        /\ options[t.at] = {edits[t.at]}
        /\ options[t.at] = t.old
    BY <1>1, <1>3, UpdateCommitCounts
  <1>8. Merged(t, x) = merged
    BY <1>4, <1>5, MergeIsMerged
  <1>9. ~TitleFlushed(t) /\ ~Moved(t) => Merged(t, x) = x
    BY <1>4, <1>5, MergedRow
  <1>10. row' = [row EXCEPT ![t.at] = merged]
    <2>1. t.new[t.at] = IF TitleFlushed(t) \/ Moved(t)
                        THEN Merged(t, x) ELSE NoRow
      BY <1>2, <1>4 DEF UpdateExact
    <2>2. \A q \in Question : t.new[q] # NoRow => q = t.at
      BY <1>4 DEF UpdateFine
    <2>3. merged # NoRow
      <3>1. merged \in Row
        BY <1>4, <1>5 DEF Contract!Merge, Row, UpdateTxn, Draft
      <3>2. QED
        BY <3>1, RowsAreNot
    <2> HIDE DEF merged, x
    <2>4. row \in [Question -> Row \cup {NoRow}]
      BY <1>3 DEF TypeOK, Versions
    <2>5. \A q \in Question :
             row'[q] = IF q = t.at THEN merged ELSE row[q]
      BY <1>2, <1>8, <1>9, <2>1, <2>2, <2>3 DEF Committed, x
    <2>6. QED
      BY <1>2, <1>5, <2>4, <2>5 DEF Committed
  <1>11. \A n : Only({n}) = n
    BY DEF Only
  <1>12. /\ list[t.at] = edits[t.at]
         /\ Only(t.old) = list[t.at]
    BY <1>5, <1>7, <1>11
  <1>13. list' = [list EXCEPT ![t.at] = @ + 1]
    <2>1. \A q \in Question :
             Only(options'[q]) = IF q = t.at THEN edits[t.at] + 1
                                             ELSE Only(options[q])
      BY <1>3, <1>5, <1>7, <1>11 DEF TypeOK
    <2>2. QED
      BY <1>5, <1>12, <2>1
  <1>14. Contract!Confirm(r)
    BY <1>2, <1>3, ConfirmContract
  <1>15. Contract!Edit(r)
    <2>1. PICK a : a = ask[r]
      OBVIOUS
    <2>2. /\ a.op = "edit" /\ a.at = t.at /\ a.draft = t.draft
          /\ a.seen = t.loaded /\ a.base = Only(t.old)
      BY <1>6, <2>1
    <2>3. /\ a.seen # NoRow
          /\ a.draft.category \in Category
          /\ a.base = list[a.at]
          /\ list' = [list EXCEPT ![a.at] = @ + 1]
      BY <1>5, <1>12, <1>13, <2>2
    <2>4. row' = [row EXCEPT ![a.at] =
             [title |-> Contract!Merge(a.draft.title, a.seen.title,
                                       row[a.at].title),
              category |-> Contract!Merge(a.draft.category, a.seen.category,
                                          row[a.at].category),
              difficulty |-> Contract!Merge(a.draft.difficulty,
                                 a.seen.difficulty, row[a.at].difficulty),
              archived |-> row[a.at].archived]]
      BY <1>10, <2>2
    <2>5. QED
      BY <1>2, <1>14, <2>1, <2>2, <2>3, <2>4 DEF Contract!Edit
  <1>16. QED
    BY <1>15, KeepsUnique DEF Contract!Next

(***************************************************************************)
(* The handlers of the console implement BankContract: every confirmed     *)
(* create, import, bulk change and edit takes effect at one moment, as it  *)
(* was asked for, and every other request leaves the bank alone.           *)
(***************************************************************************)
THEOREM KeepsContract == Spec => ImplementsBank
  <1>1. Init => Contract!Init
    <2> SUFFICES ASSUME Init
                 PROVE  Contract!Init
      OBVIOUS
    <2>1. Only({}) = 0
      BY DEF Only
    <2>2. Asked(Idle) = [op |-> "idle"]
      BY AskedBy DEF Idle
    <2>3. [q \in Question |-> Only(options[q])] = [q \in Question |-> 0]
      BY <2>1 DEF Init
    <2>4. [r \in Request |-> Asked(txn[r])]
            = [r \in Request |-> Contract!Told("idle")]
      BY <2>2 DEF Init, Contract!Told
    <2>5. QED
      BY <2>3, <2>4 DEF Init, Contract!Init
  <1>2. ContractInv /\ UniquePairs' /\ [Next]_vars
           => [Contract!Next]_Contract!vars
    <2> SUFFICES ASSUME ContractInv, UniquePairs', [Next]_vars
                 PROVE  [Contract!Next]_Contract!vars
      OBVIOUS
    <2>1. BankOK /\ TypeOK /\ ExactOK
      BY DEF ContractInv, BankInv, BankOK
    <2>2. CASE UNCHANGED vars
      BY <2>2 DEF vars, Contract!vars
    <2>3. CASE Next
      <3>1. PICK r \in Request : Arrive(r) \/ Serve(r) \/ Crash(r)
        BY <2>3 DEF Next
      <3>2. QED
        BY <2>1, <3>1, StepFollows, FollowsContract, InsertCommitContract,
           BulkCommitContract, UpdateCommitContract
    <2>4. QED
      BY <2>2, <2>3
  <1>3. ContractInv => UniquePairs
    BY DEF ContractInv, BankInv, PairsOK
  <1>4. QED
    BY <1>1, <1>2, <1>3, ContractInvariant, PTL
       DEF Spec, ImplementsBank, Contract!Spec
===============================================================================
