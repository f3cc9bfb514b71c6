------------------------ MODULE QuestionSelectionProofs ------------------------
(***************************************************************************)
(* Proofs about QuestionSelection, for any bank and any counts.            *)
(***************************************************************************)
EXTENDS QuestionSelection, FiniteSetTheorems, TLAPS

LEMMA QuestionsFinite ==
    ASSUME NEW S \in SUBSET Question
    PROVE  IsFiniteSet(S) /\ Cardinality(S) \in Nat
           /\ Cardinality(S) <= Cardinality(Question)
           /\ Cardinality(Question) \in Nat
  BY SelectionAssumption, FS_Subset, FS_CardinalityType
     DEF SelectionAssumption

LEMMA LeftOver ==
    ASSUME NEW S \in SUBSET Question, NEW T \in SUBSET Question
    PROVE  /\ Cardinality(S \ T) \in Nat
           /\ Cardinality(S \ T) >= Cardinality(S) - Cardinality(T)
  <1>1. Cardinality(S \ T) = Cardinality(S) - Cardinality(S \cap T)
    BY QuestionsFinite, FS_Difference
  <1>2. Cardinality(S \cap T) <= Cardinality(T)
    BY QuestionsFinite, FS_Subset
  <1>3. /\ Cardinality(S) \in Nat /\ Cardinality(T) \in Nat
        /\ Cardinality(S \cap T) \in Nat /\ Cardinality(S \ T) \in Nat
    BY QuestionsFinite
  <1>4. QED
    BY <1>1, <1>2, <1>3

(***************************************************************************)
(* The oversampling is enough for as many archived questions as the quiz   *)
(* has: either the sample is the whole table, or at least half of twice    *)
(* the count is left of it.                                                *)
(***************************************************************************)
LEMMA SampleSuffices ==
    ASSUME NEW gone \in SUBSET Question, NEW n \in 1..MaxCount,
           Cardinality(gone) <= n,
           NEW sample \in SystemRows(Oversampled(n))
    PROVE  AtMost(n, Cardinality(sample \ gone)) =
              AtMost(n, Cardinality(Question \ gone))
  <1> n \in Nat
    BY SelectionAssumption DEF SelectionAssumption
  <1>1. /\ sample \in SUBSET Question
        /\ Cardinality(sample) = AtMost(2 * n, Cardinality(Question))
    BY DEF SystemRows, Limited, Oversampled
  <1>2. /\ Cardinality(Question) \in Nat /\ Cardinality(gone) \in Nat
        /\ Cardinality(sample \ gone) \in Nat
        /\ Cardinality(Question \ gone) \in Nat
        /\ Cardinality(sample \ gone) >= Cardinality(sample) - Cardinality(gone)
        /\ Cardinality(Question \ gone)
              >= Cardinality(Question) - Cardinality(gone)
    BY <1>1, QuestionsFinite, LeftOver
  <1>3. CASE 2 * n <= Cardinality(Question)
    BY <1>1, <1>2, <1>3 DEF AtMost
  <1>4. CASE ~(2 * n <= Cardinality(Question))
    <2>1. Cardinality(sample) = Cardinality(Question)
      BY <1>1, <1>4 DEF AtMost
    <2>2. sample = Question
      BY <1>1, <2>1, SelectionAssumption, FS_Subset DEF SelectionAssumption
    <2>3. QED
      BY <2>2
  <1>5. QED
    BY <1>3, <1>4

(* what a selection holds                                                  *)
Good(s) ==
    /\ s.ids \subseteq Servable(s)
    /\ s.filter # All \/ Cardinality(s.archived) <= s.count => Full(s)

SelInv == SelectionTypeOK /\ QuizIsFull

LEMMA SelectedGood ==
    ASSUME NEW gone \in SUBSET Question, NEW n \in 1..MaxCount,
           NEW filter \in Category \cup {All},
           gone = archived, NEW ids \in Selected(n, filter)
    PROVE  Good([pc |-> "selected", count |-> n, filter |-> filter,
                 ids |-> ids, archived |-> archived, home |-> home])
  <1> DEFINE s == [pc |-> "selected", count |-> n, filter |-> filter,
                   ids |-> ids, archived |-> archived, home |-> home]
  <1>1. CASE filter # All
    <2>1. Pool(filter) = Servable(s)
      BY DEF Pool, Servable
    <2>2. ids \in Limited(Servable(s), n)
      BY <1>1, <2>1 DEF Selected
    <2>3. QED
      BY <2>2 DEF Good, Full, Limited
  <1>2. CASE filter = All
    <2>1. Servable(s) = Question \ archived
      BY <1>2 DEF Servable
    <2>2. PICK sample \in SystemRows(Oversampled(n)) :
             ids \in Limited(sample \ archived, n)
      BY <1>2 DEF Selected, FastPath
    <2>3. sample \subseteq Question
      BY <2>2 DEF SystemRows, Limited
    <2>4. ids \subseteq Servable(s)
      BY <2>1, <2>2, <2>3 DEF Limited
    <2>5. ASSUME Cardinality(archived) <= n
          PROVE  Full(s)
      <3>1. Cardinality(ids) = AtMost(n, Cardinality(sample \ archived))
        BY <2>2 DEF Limited
      <3>2. Cardinality(ids) = AtMost(n, Cardinality(Question \ archived))
        BY <3>1, <2>5, SampleSuffices
      <3>3. QED
        BY <2>1, <3>2 DEF Full
    <2>6. QED
      BY <1>2, <2>4, <2>5 DEF Good
  <1>3. QED
    BY <1>1, <1>2

(***************************************************************************)
(* A filtered quiz is always full, an unfiltered one as long as no more    *)
(* questions are archived than it asks for: _select_question_ids.          *)
(***************************************************************************)
THEOREM QuizFull == Spec => []QuizIsFull
  <1>1. Init => SelInv
    BY DEF Init, SelInv, SelectionTypeOK, QuizIsFull, Idle
  <1>2. SelInv /\ [Next]_vars => SelInv'
    <2> SUFFICES ASSUME SelInv, [Next]_vars
                 PROVE  SelInv'
      OBVIOUS
    <2>1. QuizIsFull <=> \A r \in Request : sel[r] # Idle => Good(sel[r])
      BY DEF QuizIsFull, Good
    <2>2. ASSUME NEW r \in Request, NEW n \in 1..MaxCount,
                 NEW filter \in Category \cup {All}, Select(r, n, filter)
          PROVE  SelInv'
      <3>1. PICK ids \in Selected(n, filter) :
               sel' = [sel EXCEPT ![r] =
                         [pc |-> "selected", count |-> n, filter |-> filter,
                          ids |-> ids, archived |-> archived, home |-> home]]
        BY <2>2 DEF Select
      <3> DEFINE s == [pc |-> "selected", count |-> n, filter |-> filter,
                       ids |-> ids, archived |-> archived, home |-> home]
      <3>2. archived \in SUBSET Question /\ home \in [Question -> Category]
        BY DEF SelInv, SelectionTypeOK
      <3>3. Good(s)
        BY <3>2, SelectedGood
      <3>4. ids \subseteq Question
        BY <3>3 DEF Good, Servable
      <3>5. s \in Selection
        BY <3>2, <3>4 DEF Selection
      <3>6. SelectionTypeOK'
        BY <2>2, <3>1, <3>5 DEF SelInv, SelectionTypeOK, Select
      <3>7. QuizIsFull'
        BY <2>1, <3>1, <3>3 DEF SelInv, SelectionTypeOK, QuizIsFull, Good
      <3>8. QED
        BY <3>6, <3>7 DEF SelInv
    <2>3. ASSUME NEW r \in Request, Answer(r)
          PROVE  SelInv'
      BY <2>3 DEF SelInv, SelectionTypeOK, QuizIsFull, Answer
    <2>4. ASSUME sel' = sel, SelectionTypeOK'
          PROVE  SelInv'
      BY <2>4 DEF SelInv, QuizIsFull
    <2>5. ASSUME NEW q \in Question, Archive(q) \/ Restore(q)
          PROVE  SelInv'
      BY <2>4, <2>5 DEF SelInv, SelectionTypeOK, Archive, Restore
    <2>6. ASSUME NEW q \in Question, NEW c \in Category, Move(q, c)
          PROVE  SelInv'
      BY <2>4, <2>6 DEF SelInv, SelectionTypeOK, Move
    <2>7. CASE UNCHANGED vars
      BY <2>4, <2>7 DEF SelInv, SelectionTypeOK, vars
    <2>8. QED
      BY <2>2, <2>3, <2>5, <2>6, <2>7 DEF Next
  <1>3. QED
    BY <1>1, <1>2, PTL DEF Spec, SelInv
=============================================================================
