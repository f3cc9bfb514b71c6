--------------------------- MODULE QuestionSelection ---------------------------
(***************************************************************************)
(* Which questions a new attempt gets (_select_question_ids), while the    *)
(* admin console archives, restores and moves questions.  Without a filter *)
(* the rows come from TABLESAMPLE SYSTEM_ROWS over the whole table and the *)
(* archived ones are dropped afterwards; with one, from an exact query.    *)
(*                                                                         *)
(* category stands for both filters: difficulty narrows the pool in the    *)
(* same way.                                                               *)
(***************************************************************************)
EXTENDS Integers, FiniteSets

CONSTANTS
    Question,   \* rows of the questions table
    Category,
    All,        \* no filter; the empty string filters nothing either
    Request,    \* create_attempt requests in flight at one time
    MaxCount    \* the largest question_count a body may ask for

ASSUME SelectionAssumption ==
    /\ IsFiniteSet(Question)
    /\ All \notin Category
    /\ MaxCount \in Nat \ {0}

VARIABLES
    archived,   \* questions whose archived_at is set
    home,       \* the category of each question
    sel         \* each request's handler

vars == <<archived, home, sel>>

Idle == [pc |-> "idle"]

(* what has been selected, and the bank it was selected from               *)
Selection ==
    [pc: {"selected"}, count: 1..MaxCount, filter: Category \cup {All},
     ids: SUBSET Question, archived: SUBSET Question,
     home: [Question -> Category]]

SelectionTypeOK ==
    /\ archived \in SUBSET Question
    /\ home \in [Question -> Category]
    /\ sel \in [Request -> {Idle} \cup Selection]

AtMost(m, n) == IF m <= n THEN m ELSE n

(* LIMIT n over the rows that are left, in whatever order they come        *)
Limited(pool, n) ==
    {ids \in SUBSET pool : Cardinality(ids) = AtMost(n, Cardinality(pool))}

(* SYSTEM_ROWS(n): exactly n rows of the table, or all it has              *)
SystemRows(n) == Limited(Question, n)

OversampledMutant(n) == n   \* only as many rows as are asked for

(* :sample, twice the count                                                *)
Oversampled(n) == 2 * n

(* the WHERE clause of the filtered query                                  *)
Pool(filter) == {q \in Question \ archived : filter \in {All, home[q]}}

FastPath(n) ==
    UNION {Limited(sample \ archived, n) : sample \in SystemRows(Oversampled(n))}

(* _select_question_ids                                                    *)
Selected(n, filter) ==
    IF filter = All THEN FastPath(n) ELSE Limited(Pool(filter), n)

-----------------------------------------------------------------------------
Init ==
    /\ archived = {}
    /\ home \in [Question -> Category]
    /\ sel = [r \in Request |-> Idle]

Select(r, n, filter) ==
    /\ sel[r] = Idle
    /\ \E ids \in Selected(n, filter) :
          sel' = [sel EXCEPT ![r] =
                    [pc |-> "selected", count |-> n, filter |-> filter,
                     ids |-> ids, archived |-> archived, home |-> home]]
    /\ UNCHANGED <<archived, home>>

(* 400 when nothing was selected, otherwise the attempt is stored          *)
Answer(r) ==
    /\ sel[r] # Idle
    /\ sel' = [sel EXCEPT ![r] = Idle]
    /\ UNCHANGED <<archived, home>>

Archive(q) ==
    /\ archived' = archived \cup {q}
    /\ UNCHANGED <<home, sel>>

Restore(q) ==
    /\ archived' = archived \ {q}
    /\ UNCHANGED <<home, sel>>

Move(q, category) ==
    /\ home' = [home EXCEPT ![q] = category]
    /\ UNCHANGED <<archived, sel>>

Next ==
    \/ \E r \in Request, n \in 1..MaxCount, filter \in Category \cup {All} :
          Select(r, n, filter)
    \/ \E r \in Request : Answer(r)
    \/ \E q \in Question : Archive(q) \/ Restore(q)
    \/ \E q \in Question, category \in Category : Move(q, category)

Spec == Init /\ [][Next]_vars

-----------------------------------------------------------------------------
(* the questions that could have been served                               *)
Servable(s) == {q \in Question \ s.archived : s.filter \in {All, s.home[q]}}

Full(s) == Cardinality(s.ids) = AtMost(s.count, Cardinality(Servable(s)))

(***************************************************************************)
(* A quiz is as long as was asked for, or has every question there is: a   *)
(* filtered one always, an unfiltered one as long as no more questions are *)
(* archived than it asks for, so that the oversampling makes up for them.  *)
(***************************************************************************)
QuizIsFull ==
    \A r \in Request :
        LET s == sel[r]
        IN  s # Idle =>
              /\ s.ids \subseteq Servable(s)
              /\ s.filter # All \/ Cardinality(s.archived) <= s.count
                 => Full(s)
=============================================================================
