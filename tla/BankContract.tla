----------------------------- MODULE BankContract -----------------------------
(***************************************************************************)
(* What the admin console promises about the question bank: a request that *)
(* is confirmed has had the effect it asked for, as a whole and at one     *)
(* moment, and any other request has had none.  There are no statements    *)
(* here, no transactions, no locks and no index.                           *)
(***************************************************************************)
EXTENDS Integers

CONSTANTS
    Question, Title, Category, Slug, Difficulty, Request,
    NoRow,      \* "no such question"
    Keep        \* a column that a bulk change leaves alone

VARIABLES
    row,        \* the questions
    list,       \* which of its option lists a question is served with
    shelved,    \* archivals minus restores reported, by question
    ask         \* what each request has asked for, or was told

vars == <<row, list, shelved, ask>>

Row == [title: Title, category: Category,
        difficulty: Difficulty, archived: BOOLEAN]

Draft == [title: Title, category: Slug, difficulty: Difficulty]

Told(answer) == [op |-> answer]

(* seen and base: the row and the option list the edit starts from; over:  *)
(* the questions of ids that a bulk change has passed over                 *)
Asks ==
    [op: {"add"}, drafts: SUBSET Draft]
      \cup [op: {"patch", "archive", "restore"},
            ids: SUBSET Question, over: SUBSET Question,
            category: Category \cup {Keep}, difficulty: Difficulty \cup {Keep}]
      \cup [op: {"edit"}, at: Question, draft: Draft,
            seen: Row \cup {NoRow}, base: Nat]

Bank == {q \in Question : row[q] # NoRow}

Init ==
    /\ row = [q \in Question |-> NoRow]
    /\ list = [q \in Question |-> 0]
    /\ shelved = [q \in Question |-> 0]
    /\ ask = [r \in Request |-> Told("idle")]

Become(r, a) == ask' = [ask EXCEPT ![r] = a]

Untouched == UNCHANGED <<row, list, shelved>>

Bulk(a) == a.op \in {"patch", "archive", "restore"}

(* a question is archived once, and restored only when it is archived      *)
Suits(a, x) ==
    /\ a.op = "archive" => ~x.archived
    /\ a.op = "restore" => x.archived

(* the questions named that are unknown or do not suit, as of now          *)
Unsuited(a) == {q \in a.ids : q \in Bank => ~Suits(a, row[q])}

Ask(r) ==
    /\ ask[r].op = "idle"
    /\ ask'[r] \in Asks
    /\ ask'[r].op = "edit" => ask'[r].seen = NoRow /\ ask'[r].base = 0
    /\ Bulk(ask'[r]) => ask'[r].over \subseteq Unsuited(ask'[r])
    /\ Become(r, ask'[r])
    /\ Untouched

Refuse(r) ==
    /\ ask[r].op \notin {"confirmed", "refused"}
    /\ Become(r, Told("refused"))
    /\ Untouched

(* the answer arrives, or the server dies before there is one              *)
Leave(r) ==
    /\ ask[r].op # "idle"
    /\ Become(r, Told("idle"))
    /\ Untouched

(* An edit takes the row and the option list it replaces at two moments.   *)
See(r) ==
    LET a == ask[r]
    IN  /\ a.op = "edit"
        /\ \/ /\ a.seen = NoRow
              /\ a.at \in Bank
              /\ Become(r, [a EXCEPT !.seen = row[a.at]])
           \/ /\ a.seen # NoRow
              /\ a.base = 0
              /\ Become(r, [a EXCEPT !.base = list[a.at]])
        /\ Untouched

(* A bulk change passes over a question while it does not suit.            *)
Pass(r) ==
    LET a == ask[r]
    IN  /\ Bulk(a)
        /\ \E q \in Unsuited(a) : Become(r, [a EXCEPT !.over = @ \cup {q}])
        /\ Untouched

-----------------------------------------------------------------------------
Confirm(r) == Become(r, Told("confirmed"))

New(d) == [title |-> d.title, category |-> d.category,
           difficulty |-> d.difficulty, archived |-> FALSE]

(* every draft becomes a question, with its first option list              *)
Add(r) ==
    LET a == ask[r]
        born == {q \in Question : row'[q] # row[q]}
    IN  /\ a.op = "add"
        /\ \A d \in a.drafts : d.category \in Category
        /\ born \cap Bank = {}
        /\ {row'[q] : q \in born} = {New(d) : d \in a.drafts}
        /\ list' = [q \in Question |-> IF q \in born THEN 1 ELSE list[q]]
        /\ Confirm(r)
        /\ UNCHANGED shelved

With(a, x) ==
    [title |-> x.title,
     category |-> IF a.category = Keep THEN x.category ELSE a.category,
     difficulty |-> IF a.difficulty = Keep THEN x.difficulty ELSE a.difficulty,
     archived |-> IF a.op = "patch" THEN x.archived ELSE a.op = "archive"]

Count(a) ==
    CASE a.op = "archive" -> 1
      [] a.op = "restore" -> -1
      [] OTHER -> 0

(* all questions it names and has not passed over are changed and reported *)
(* as affected, and no others                                              *)
Change(r) ==
    LET a == ask[r]
        affected == a.ids \ a.over
    IN  /\ Bulk(a)
        /\ affected \cap Unsuited(a) = {}
        /\ row' = [q \in Question |->
                     IF q \in affected THEN With(a, row[q]) ELSE row[q]]
        /\ shelved' = [q \in Question |->
              shelved[q] + IF q \in affected THEN Count(a) ELSE 0]
        /\ Confirm(r)
        /\ UNCHANGED list

(* the draft's value where the draft changes what was seen, else as it is  *)
Merge(draft, seen, now) == IF draft # seen THEN draft ELSE now

Edit(r) ==
    LET a == ask[r]
        x == row[a.at]
    IN  /\ a.op = "edit"
        /\ a.seen # NoRow
        /\ a.draft.category \in Category
        /\ a.base = list[a.at]     \* no other edit has been confirmed since
        /\ row' = [row EXCEPT ![a.at] =
               [title |-> Merge(a.draft.title, a.seen.title, x.title),
                category |-> Merge(a.draft.category, a.seen.category,
                                   x.category),
                difficulty |-> Merge(a.draft.difficulty, a.seen.difficulty,
                                     x.difficulty),
                archived |-> x.archived]]
        /\ list' = [list EXCEPT ![a.at] = @ + 1]
        /\ Confirm(r)
        /\ UNCHANGED shelved

(* No two questions have the same title and category.                      *)
NoTwins(table) ==
    \A p, q \in Question :
        /\ table[p] # NoRow /\ table[q] # NoRow
        /\ table[p].title = table[q].title
        /\ table[p].category = table[q].category
        => p = q

Next ==
    \E r \in Request :
        \/ Ask(r) \/ Refuse(r) \/ Leave(r) \/ See(r) \/ Pass(r)
        \/ (Add(r) \/ Change(r) \/ Edit(r)) /\ NoTwins(row')

Spec == Init /\ [][Next]_vars
=============================================================================
