------------------------------ MODULE QuestionBank ------------------------------
(***************************************************************************)
(* The admin console's writes to the question bank: create, edit, bulk     *)
(* change, archive, restore (endpoints/admin_questions.py) and the bulk    *)
(* import (endpoints/questions.py), run concurrently over PostgreSQL at    *)
(* READ COMMITTED.                                                         *)
(*                                                                         *)
(* Every awaited statement is a step, and one that touches several rows is *)
(* a step for each.  A request keeps its uncommitted row versions in its   *)
(* record; whoever needs the same row or the same (title, category) waits  *)
(* for it to commit or roll back, and a cycle of such waits is broken by   *)
(* PostgreSQL's deadlock detector.                                         *)
(*                                                                         *)
(* difficulty stands for the columns no unique constraint covers:          *)
(* description and explanation are read and written with it.               *)
(***************************************************************************)
EXTENDS Integers, FiniteSets

CONSTANTS
    Question,   \* ids of questions; an id is given to one question
    Title,
    Category,   \* slugs of the closed set of categories
    Slug,       \* what a body may name as its category
    Difficulty,
    Selection,  \* what a bulk change, an archive or a restore may name
    Request,    \* admin requests in flight at one time
    NoRow,      \* "no such questions row"
    Keep,       \* a bulk change that leaves a column alone
    MaxEdits    \* bound: an edit begins only below this many option lists

ASSUME BankAssumption ==
    /\ Category \subseteq Slug
    /\ Selection \subseteq SUBSET Question
    /\ Keep \notin Slug \cup Difficulty
    /\ NoRow \notin [title: Title, category: Category,
                     difficulty: Difficulty, archived: BOOLEAN]
    /\ MaxEdits \in Nat \ {0}

VARIABLES
    row,        \* questions, as committed
    options,    \* question_options: the lists a question has rows of
    edits,      \* how many option lists a question has been given
    txn,        \* each request's handler: its program counter and locals
    shelved     \* archivals minus restores reported, by question

vars == <<row, options, edits, txn, shelved>>

Row == [title: Title, category: Category,
        difficulty: Difficulty, archived: BOOLEAN]

(* AdminQuestionWrite and QuestionCreate, less the option texts            *)
Draft == [title: Title, category: Slug, difficulty: Difficulty]

Pair(x) == <<x.title, x.category>>

Versions == [Question -> Row \cup {NoRow}]

Untouched == [q \in Question |-> NoRow]

Idle == [pc |-> "idle"]

(* the status code a request is answered with                              *)
Replying == [pc: {"reply"}, code: {200, 400, 404, 409, 500}]

(* new: row versions written but not committed; keys: the pairs they have  *)
(* entered in the unique index                                             *)
InsertTxn ==
    [pc: {"check", "insert"}, kind: {"create", "import"},
     todo: SUBSET Draft, new: Versions, keys: SUBSET (Title \X Category)]

BulkTxn ==
    [pc: {"rows", "index"}, kind: {"patch", "archive", "restore"},
     ids: SUBSET Question, todo: SUBSET Question, at: Question \cup {NoRow},
     category: Category \cup {Keep}, difficulty: Difficulty \cup {Keep},
     new: Versions, keys: SUBSET (Title \X Category)]

UpdateTxn ==
    [pc: {"load", "load_options", "flush", "index_flush", "move",
          "index_move", "delete", "options"},
     kind: {"update"}, at: Question, draft: Draft,
     loaded: Row \cup {NoRow},      \* the columns the session has seen
     old: SUBSET Nat,               \* the option rows it has seen
     gone: SUBSET Nat,              \* those it has deleted
     new: Versions, keys: SUBSET (Title \X Category)]

TypeOK ==
    /\ row \in Versions
    /\ options \in [Question -> SUBSET Nat]
    /\ edits \in [Question -> Nat]
    /\ txn \in [Request -> {Idle} \cup Replying \cup InsertTxn
                              \cup BulkTxn \cup UpdateTxn]
    /\ shelved \in [Question -> Int]

-----------------------------------------------------------------------------
Bank == {q \in Question : row[q] # NoRow}

InTxn(r) == txn[r].pc \notin {"idle", "reply"}

(* r has an uncommitted version of the row, and so the row's lock          *)
Touches(r, q) == InTxn(r) /\ txn[r].new[q] # NoRow

(* the row as r's own statements see it                                    *)
Current(r, q) == IF Touches(r, q) THEN txn[r].new[q] ELSE row[q]

(* the index entries whose fate depends on whether r commits               *)
KeysOf(r) ==
    IF InTxn(r)
    THEN txn[r].keys \cup {Pair(row[q]) : q \in {p \in Bank : Touches(r, p)}}
    ELSE {}

(* questions without the unique constraint on (title, category)            *)
TakenMutant(r, q, pair) == FALSE

(* another question has the pair: the unique constraint is violated        *)
Taken(r, q, pair) ==
    \E p \in Question \ {q} :
        /\ Current(r, p) # NoRow
        /\ Pair(Current(r, p)) = pair

(* r's UPDATE of the row changes a key column, which also keeps out those  *)
(* who only reference the question                                         *)
KeyLocked(r, q) ==
    /\ Touches(r, q)
    /\ q \in Bank
    /\ Pair(txn[r].new[q]) # Pair(row[q])

(* the option rows an update's INSERT finds in its way                     *)
Remaining(t) == options[t.at] \ t.gone

Deletes(r, q, lists) ==
    /\ InTxn(r)
    /\ txn[r].kind = "update"
    /\ txn[r].at = q
    /\ txn[r].gone \cap lists # {}

TitleFlushed(t) ==
    \/ t.draft.title # t.loaded.title
    \/ t.draft.difficulty # t.loaded.difficulty

Moved(t) == t.draft.category # t.loaded.category

(* r's next statement waits for the transaction of s                       *)
WaitsFor(r, s) ==
    LET t == txn[r]
    IN  /\ r # s
        /\ \/ t.pc = "insert" /\ \E d \in t.todo : Pair(d) \in KeysOf(s)
           \/ t.pc = "rows" /\ \E q \in t.todo : Touches(s, q)
           \/ t.pc = "flush" /\ TitleFlushed(t) /\ Touches(s, t.at)
           \/ t.pc = "move" /\ Moved(t) /\ Touches(s, t.at)
           \/ /\ t.pc \in {"index", "index_flush", "index_move"}
              /\ Pair(t.new[t.at]) \in KeysOf(s)
           \/ t.pc = "delete" /\ Deletes(s, t.at, t.old \cap options[t.at])
           \/ /\ t.pc = "options"
              /\ KeyLocked(s, t.at) \/ Deletes(s, t.at, Remaining(t))

Free(r) == \A s \in Request : ~WaitsFor(r, s)

-----------------------------------------------------------------------------
Init ==
    /\ row = [q \in Question |-> NoRow]
    /\ options = [q \in Question |-> {}]
    /\ edits = [q \in Question |-> 0]
    /\ txn = [r \in Request |-> Idle]
    /\ shelved = [q \in Question |-> 0]

Goto(r, t) ==
    /\ txn' = [txn EXCEPT ![r] = t]
    /\ UNCHANGED <<row, options, edits, shelved>>

(* an error rolls the transaction back                                     *)
Refuse(r, code) == Goto(r, [pc |-> "reply", code |-> code])

Confirm(r) ==
    txn' = [txn EXCEPT ![r] = [pc |-> "reply", code |-> 200]]

Committed(t) == [q \in Question |-> IF t.new[q] # NoRow THEN t.new[q]
                                                        ELSE row[q]]

(* the response is sent                                                    *)
Respond(r) == txn[r].pc = "reply" /\ Goto(r, Idle)

-----------------------------------------------------------------------------
(* create_question and bulk_create_questions                               *)

(* the ids that are left suffice for this payload and those under way      *)
Room(payload) ==
    LET left == {q \in Question \ Bank : \A s \in Request : ~Touches(s, q)}
        inserting == {s \in Request : txn[s].pc \in {"check", "insert"}}
        due == UNION {{s} \X txn[s].todo : s \in inserting}
    IN  Cardinality(payload) + Cardinality(due) <= Cardinality(left)

CreateBegin(r, d) ==
    /\ txn[r] = Idle
    /\ Room({d})
    /\ \/ d.category \notin Category /\ Refuse(r, 400)
       \/ /\ d.category \in Category
          /\ Goto(r, [pc |-> "insert", kind |-> "create", todo |-> {d},
                      new |-> Untouched, keys |-> {}])

ImportBegin(r, payload) ==
    LET known == \A d \in payload : d.category \in Category
        distinct == \A d, e \in payload : Pair(d) = Pair(e) => d = e
    IN  /\ txn[r] = Idle
        /\ Room(payload)
        /\ \/ ~known /\ Refuse(r, 400)
           \/ known /\ ~distinct /\ Refuse(r, 409)
           \/ /\ known /\ distinct
              /\ Goto(r, [pc |-> "check", kind |-> "import", todo |-> payload,
                          new |-> Untouched, keys |-> {}])

(* the pairs that exist already are reported                               *)
ImportCheck(r) ==
    LET t == txn[r]
        present == \E d \in t.todo, q \in Bank : Pair(d) = Pair(row[q])
    IN  /\ t.pc = "check"
        /\ \/ present /\ Refuse(r, 409)
           \/ ~present /\ Goto(r, [t EXCEPT !.pc = "insert"])

(* one INSERT of the flush; q is the id the database generates             *)
InsertRow(r, d, q) ==
    LET t == txn[r]
    IN  /\ t.pc = "insert"
        /\ d \in t.todo
        /\ \A s \in Request \ {r} : Pair(d) \notin KeysOf(s)
        /\ q \notin Bank
        /\ \A s \in Request : ~Touches(s, q)
        /\ \/ Taken(r, q, Pair(d)) /\ Refuse(r, 409)
           \/ /\ ~Taken(r, q, Pair(d))
              /\ Goto(r, [t EXCEPT !.todo = @ \ {d},
                    !.new[q] = [title |-> d.title, category |-> d.category,
                                difficulty |-> d.difficulty,
                                archived |-> FALSE],
                    !.keys = @ \cup {Pair(d)}])

InsertCommit(r) ==
    LET t == txn[r]
        created == {q \in Question : t.new[q] # NoRow}
    IN  /\ t.pc = "insert"
        /\ t.todo = {}
        /\ row' = Committed(t)
        /\ options' = [q \in Question |->
                         IF q \in created THEN {1} ELSE options[q]]
        /\ edits' = [q \in Question |->
                       IF q \in created THEN 1 ELSE edits[q]]
        /\ Confirm(r)
        /\ UNCHANGED shelved

-----------------------------------------------------------------------------
(* bulk_patch_questions, archive_questions, restore_questions              *)

(* the UPDATE starts: its snapshot decides which rows it looks at          *)
BulkStart(r, kind, ids, rows, category, difficulty) ==
    Goto(r, [pc |-> "rows", kind |-> kind, ids |-> ids,
             todo |-> ids \cap rows, at |-> NoRow,
             category |-> category, difficulty |-> difficulty,
             new |-> Untouched, keys |-> {}])

PatchBegin(r, ids, category, difficulty) ==
    /\ txn[r] = Idle
    /\ category # Keep \/ difficulty # Keep
    /\ \/ category \notin Category \cup {Keep} /\ Refuse(r, 400)
       \/ /\ category \in Category \cup {Keep}
          /\ BulkStart(r, "patch", ids, Bank, category, difficulty)

ArchiveBegin(r, ids) ==
    /\ txn[r] = Idle
    /\ BulkStart(r, "archive", ids, {q \in Bank : ~row[q].archived},
                 Keep, Keep)

RestoreBegin(r, ids) ==
    /\ txn[r] = Idle
    /\ BulkStart(r, "restore", ids, {q \in Bank : row[q].archived},
                 Keep, Keep)

(* a row is changed whatever became of it since the statement began        *)
AppliesMutant(t, x) == TRUE

(* a bulk change, too, passes over archived questions                      *)
AppliesMutant2(t, x) == IF t.kind = "restore" THEN x.archived ELSE ~x.archived

(* the WHERE clause, checked again on the version a lock was waited for    *)
Applies(t, x) ==
    CASE t.kind = "archive" -> ~x.archived
      [] t.kind = "restore" -> x.archived
      [] t.kind = "patch" -> TRUE

Changed(t, x) ==
    [x EXCEPT !.category = IF t.category = Keep THEN @ ELSE t.category,
              !.difficulty = IF t.difficulty = Keep THEN @ ELSE t.difficulty,
              !.archived = IF t.kind = "patch" THEN @
                                               ELSE t.kind = "archive"]

(* the UPDATE reaches a row, in whatever order it scans them               *)
BulkRow(r, q) ==
    LET t == txn[r]
        x == Changed(t, row[q])
        rest == [t EXCEPT !.todo = @ \ {q}]
    IN  /\ t.pc = "rows"
        /\ q \in t.todo
        /\ \A s \in Request \ {r} : ~Touches(s, q)
        /\ \/ ~Applies(t, row[q]) /\ Goto(r, rest)
           \/ /\ Applies(t, row[q]) /\ Pair(x) = Pair(row[q])
              /\ Goto(r, [rest EXCEPT !.new[q] = x])
           \/ /\ Applies(t, row[q]) /\ Pair(x) # Pair(row[q])
              /\ Goto(r, [rest EXCEPT !.pc = "index", !.at = q, !.new[q] = x])

(* its new pair enters the unique index                                    *)
BulkIndex(r) ==
    LET t == txn[r]
        pair == Pair(t.new[t.at])
    IN  /\ t.pc = "index"
        /\ Free(r)
        /\ \/ Taken(r, t.at, pair) /\ Refuse(r, 409)
           \/ /\ ~Taken(r, t.at, pair)
              /\ Goto(r, [t EXCEPT !.pc = "rows", !.at = NoRow,
                                   !.keys = @ \cup {pair}])

BulkCommit(r) ==
    LET t == txn[r]
        affected == {q \in Question : t.new[q] # NoRow}
    IN  /\ t.pc = "rows"
        /\ t.todo = {}
        /\ row' = Committed(t)
        /\ shelved' = [q \in Question |->
              shelved[q] + CASE q \in affected /\ t.kind = "archive" -> 1
                             [] q \in affected /\ t.kind = "restore" -> -1
                             [] OTHER -> 0]
        /\ Confirm(r)
        /\ UNCHANGED <<options, edits>>

-----------------------------------------------------------------------------
(* update_question                                                         *)

(* the option lists given so far, and those that edits under way will give *)
Given == UNION {{q} \X (1..edits[q]) : q \in Question}

Editing == {r \in Request : InTxn(r) /\ txn[r].kind = "update"}

UpdateBegin(r, q, d) ==
    /\ txn[r] = Idle
    /\ Cardinality(Given) + Cardinality(Editing) < MaxEdits
    /\ Goto(r, [pc |-> "load", kind |-> "update", at |-> q, draft |-> d,
                loaded |-> NoRow, old |-> {}, gone |-> {},
                new |-> Untouched, keys |-> {}])

(* _load_question reads the row, then its options in a second statement    *)
UpdateLoad(r) ==
    LET t == txn[r]
    IN  /\ t.pc = "load"
        /\ \/ t.at \notin Bank /\ Refuse(r, 404)
           \/ /\ t.at \in Bank
              /\ Goto(r, [t EXCEPT !.pc = "load_options",
                                   !.loaded = row[t.at]])

UpdateLoadOptions(r) ==
    LET t == txn[r]
    IN  /\ t.pc = "load_options"
        /\ Goto(r, [t EXCEPT !.pc = "flush", !.old = options[t.at]])

(* a category that does not exist is stored as it is                       *)
LookupMutant(r, t) == Goto(r, [t EXCEPT !.pc = "move"])

(* the category of the draft is looked up                                  *)
Lookup(r, t) ==
    \/ t.draft.category \notin Category /\ Refuse(r, 400)
    \/ t.draft.category \in Category /\ Goto(r, [t EXCEPT !.pc = "move"])

(* the columns that differ from what was loaded are written                *)
Flushed(t, x) ==
    [x EXCEPT !.title = IF t.draft.title # t.loaded.title
                        THEN t.draft.title ELSE @,
              !.difficulty = IF t.draft.difficulty # t.loaded.difficulty
                             THEN t.draft.difficulty ELSE @]

(* The lookup of the category autoflushes what has been assigned so far.   *)
UpdateFlush(r) ==
    LET t == txn[r]
        x == Flushed(t, row[t.at])
        written == [t EXCEPT !.new[t.at] = x]
    IN  /\ t.pc = "flush"
        /\ Free(r)
        /\ \/ ~TitleFlushed(t) /\ Lookup(r, t)
           \/ /\ TitleFlushed(t) /\ Pair(x) = Pair(row[t.at])
              /\ Lookup(r, written)
           \/ /\ TitleFlushed(t) /\ Pair(x) # Pair(row[t.at])
              /\ Goto(r, [written EXCEPT !.pc = "index_flush"])

(* The IntegrityError of the autoflush is handled nowhere.                 *)
UpdateIndexFlush(r) ==
    LET t == txn[r]
        pair == Pair(t.new[t.at])
    IN  /\ t.pc = "index_flush"
        /\ Free(r)
        /\ \/ Taken(r, t.at, pair) /\ Refuse(r, 500)
           \/ /\ ~Taken(r, t.at, pair)
              /\ Lookup(r, [t EXCEPT !.keys = @ \cup {pair}])

(* options.clear() and flush: the category is written, if it changed, ...  *)
UpdateMove(r) ==
    LET t == txn[r]
        here == Current(r, t.at)
        x == [here EXCEPT !.category = t.draft.category]
    IN  /\ t.pc = "move"
        /\ Free(r)
        /\ \/ ~Moved(t) /\ Goto(r, [t EXCEPT !.pc = "delete"])
           \/ /\ Moved(t) /\ Pair(x) = Pair(here)
              /\ Goto(r, [t EXCEPT !.pc = "delete", !.new[t.at] = x])
           \/ /\ Moved(t) /\ Pair(x) # Pair(here)
              /\ Goto(r, [t EXCEPT !.pc = "index_move", !.new[t.at] = x])

(* (again outside _commit_or_conflict)                                     *)
UpdateIndexMove(r) ==
    LET t == txn[r]
        pair == Pair(t.new[t.at])
    IN  /\ t.pc = "index_move"
        /\ Free(r)
        /\ \/ Taken(r, t.at, pair) /\ Refuse(r, 500)
           \/ /\ ~Taken(r, t.at, pair)
              /\ Goto(r, [t EXCEPT !.pc = "delete", !.keys = @ \cup {pair}])

(* whatever options the question has by now are deleted                    *)
UpdateDeleteMutant(r) ==
    LET t == txn[r]
    IN  /\ t.pc = "delete"
        /\ Free(r)
        /\ Goto(r, [t EXCEPT !.pc = "options", !.gone = options[t.at]])

(* ... and the option rows it has loaded are deleted, where they still are *)
UpdateDelete(r) ==
    LET t == txn[r]
    IN  /\ t.pc = "delete"
        /\ Free(r)
        /\ Goto(r, [t EXCEPT !.pc = "options", 
                             !.gone = t.old \cap options[t.at]])

(* question_options without UniqueConstraint("question_id", "position")    *)
CollidesMutant(t) == FALSE

(* position 0 is there already                                             *)
Collides(t) == Remaining(t) # {}

(* _commit_or_conflict: the new options are inserted and all is committed  *)
UpdateCommit(r) ==
    LET t == txn[r]
    IN  /\ t.pc = "options"
        /\ Free(r)
        /\ \/ Collides(t) /\ Refuse(r, 409)
           \/ /\ ~Collides(t)
              /\ row' = Committed(t)
              /\ edits' = [edits EXCEPT ![t.at] = @ + 1]
              /\ options' = [options EXCEPT
                               ![t.at] = Remaining(t) \cup {edits'[t.at]}]
              /\ Confirm(r)
              /\ UNCHANGED shelved

-----------------------------------------------------------------------------
DeadlockedMutant(rs) == FALSE   \* deadlock detection is off

(* Every member waits for one and is waited for by one.                    *)
Deadlocked(rs) ==
    \A r \in rs : /\ \E s \in rs : WaitsFor(r, s)
                  /\ \E s \in rs : WaitsFor(s, r)

(* PostgreSQL aborts one of them; only the import has a handler for it     *)
DeadlockAbort(r) ==
    /\ \E rs \in SUBSET Request : r \in rs /\ Deadlocked(rs)
    /\ \/ txn[r].kind = "import" /\ Refuse(r, 400)
       \/ txn[r].kind # "import" /\ Refuse(r, 500)

(* the process or the connection dies before the commit                    *)
Crash(r) == InTxn(r) /\ Goto(r, Idle)

-----------------------------------------------------------------------------
Arrive(r) ==
    \/ \E d \in Draft : CreateBegin(r, d)
    \/ \E payload \in SUBSET Draft \ {{}} : ImportBegin(r, payload)
    \/ \E q \in Question, d \in Draft : UpdateBegin(r, q, d)
    \/ \E ids \in Selection :
          \/ ArchiveBegin(r, ids)
          \/ RestoreBegin(r, ids)
          \/ \E c \in Slug \cup {Keep}, d \in Difficulty \cup {Keep} :
                PatchBegin(r, ids, c, d)

Serve(r) ==
    \/ ImportCheck(r)
    \/ \E d \in Draft, q \in Question : InsertRow(r, d, q)
    \/ InsertCommit(r)
    \/ \E q \in Question : BulkRow(r, q)
    \/ BulkIndex(r)
    \/ BulkCommit(r)
    \/ UpdateLoad(r)
    \/ UpdateLoadOptions(r)
    \/ UpdateFlush(r)
    \/ UpdateIndexFlush(r)
    \/ UpdateMove(r)
    \/ UpdateIndexMove(r)
    \/ UpdateDelete(r)
    \/ UpdateCommit(r)
    \/ DeadlockAbort(r)
    \/ Respond(r)

Next == \E r \in Request : Arrive(r) \/ Serve(r) \/ Crash(r)

Spec == Init /\ [][Next]_vars

FairSpec == Spec /\ \A r \in Request : SF_vars(Serve(r))

-----------------------------------------------------------------------------
(* What the console relies on                                              *)

(***************************************************************************)
(* A title is used once in a category, however creates, imports, moves and *)
(* edits interleave (questions_title_category_unique).                     *)
(***************************************************************************)
UniquePairs ==
    \A p, q \in Bank : Pair(row[p]) = Pair(row[q]) => p = q

(***************************************************************************)
(* A question is served with one option list, never without one and never  *)
(* with the rows of two drafts: update_question deletes the rows it has    *)
(* loaded, whatever another edit has put there since.                      *)
(***************************************************************************)
OneOptionList ==
    \A q \in Bank : Cardinality(options[q]) = 1

(***************************************************************************)
(* The affected counts of archive and restore are exact: of two requests   *)
(* that archive a question at once only one reports it, and an edit that   *)
(* was loaded before an archive does not undo it.                          *)
(***************************************************************************)
AffectedExact ==
    \A q \in Question :
        shelved[q] = IF q \in Bank /\ row[q].archived THEN 1 ELSE 0

(* r's edit is committed in this step                                      *)
Edited(r) == /\ txn[r].pc = "options"
             /\ txn'[r].pc = "reply"
             /\ txn'[r].code = 200

(***************************************************************************)
(* An edit is confirmed only if the option list it replaces is the one it  *)
(* has loaded: of two overlapping edits of a question one gets a 409.      *)
(***************************************************************************)
EditReplacesWhatItLoaded ==
    [][\A r \in Request :
          Edited(r) => options[txn[r].at] = txn[r].old]_vars

(***************************************************************************)
(* Every admin request is answered, deadlocks included.                    *)
(***************************************************************************)
RequestsAnswered ==
    \A r \in Request : txn[r] # Idle ~> txn[r] = Idle

-----------------------------------------------------------------------------
(* the draft a row version was made from                                   *)
Drafted(x) == [title |-> x.title, category |-> x.category,
               difficulty |-> x.difficulty]

(* the one option list of a question, 0 where there is none                *)
Only(lists) == IF lists = {} THEN 0 ELSE CHOOSE n \in lists : TRUE

(* what a request has asked for or was told, with nothing of how far it is *)
Asked(t) ==
    CASE t.pc = "idle" -> [op |-> "idle"]
      [] t.pc = "reply" ->
            [op |-> IF t.code = 200 THEN "confirmed" ELSE "refused"]
      [] t.pc \in {"check", "insert"} ->
            [op |-> "add",
             drafts |-> t.todo \cup {Drafted(t.new[q]) :
                           q \in {p \in Question : t.new[p] # NoRow}}]
      [] t.pc \in {"rows", "index"} ->
            [op |-> t.kind, ids |-> t.ids,
             over |-> {q \in t.ids \ t.todo : t.new[q] = NoRow},
             category |-> t.category, difficulty |-> t.difficulty]
      [] OTHER ->
            [op |-> "edit", at |-> t.at, draft |-> t.draft,
             seen |-> t.loaded, base |-> Only(t.old)]

Contract == INSTANCE BankContract WITH
    list <- [q \in Question |-> Only(options[q])],
    ask <- [r \in Request |-> Asked(txn[r])]

(***************************************************************************)
(* The console keeps its contract: a request that is confirmed has had the *)
(* effect it asked for at one moment and as a whole, whatever statements   *)
(* of others ran between its own, and any other request has had none.  A   *)
(* bulk change has changed all questions it names but those that were      *)
(* unknown or did not suit while it ran, and no others.                    *)
(***************************************************************************)
ImplementsBank == Contract!Spec
=============================================================================
