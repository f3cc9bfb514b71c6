----------------------- MODULE PlaceholderMigrationProofs -----------------------
(***************************************************************************)
(* What 0009 and 0010 keep, for any number of attempts, questions and      *)
(* processes, deploys, rollbacks and repetitions.                          *)
(***************************************************************************)
EXTENDS PlaceholderMigration, TLAPS

(* an attempt that was not started has left nothing anywhere               *)
FreshOK ==
    \A a \in Attempt :
        Fresh(a) => /\ picked[a] = {}
                    /\ ids[a] = {}
                    /\ pending[a] = {}
                    /\ Rows(a) = {}

(* which code may be running                                               *)
VersionsOK ==
    /\ schema = "0008" => \A p \in Process : version[p] = "old"
    /\ schema \in {"updating", "0010"} => \A p \in Process : version[p] = "new"

(* Until 0010 all placeholders of what the old code started are there, and *)
(* from 0009 on the ids of what it had started by then.                    *)
PlacesOK ==
    \A a \in Attempt :
        /\ author[a] = "lost" \/ Rows(a) \subseteq picked[a]
        /\ author[a] \in {"old", "late"} /\ schema # "0010"
             => Rows(a) = picked[a]
        /\ author[a] = "old"
             => ids[a] = IF schema = "0008" THEN {} ELSE picked[a]
        /\ author[a] = "late"
             => /\ schema # "0008"
                /\ ids[a] = IF schema = "0010" THEN picked[a] ELSE {}
        /\ author[a] = "new" => schema # "0008" /\ ids[a] = picked[a]

(* what 0010 is about to store                                             *)
PendingOK ==
    \A a \in Attempt :
        /\ schema # "updating" => pending[a] = {}
        /\ schema = "updating" /\ author[a] \in {"old", "late"}
             => pending[a] = picked[a]
        /\ author[a] = "new" => pending[a] \in {{}, picked[a]}

MigrationInv ==
    /\ TypeOK
    /\ FreshOK
    /\ VersionsOK
    /\ PlacesOK
    /\ PendingOK
    /\ CreditKept

-----------------------------------------------------------------------------
(* no step leaves the types                                                *)
LEMMA TypeStep == TypeOK /\ [Next]_vars => TypeOK'
<1> SUFFICES ASSUME TypeOK, [Next]_vars PROVE TypeOK'
  OBVIOUS
<1> USE DEF TypeOK, RowState
<1>1. CASE Migrate9
  BY <1>1 DEF Migrate9, Backfilled, Rows
<1>2. CASE Migrate10Update
  BY <1>2 DEF Migrate10Update, Backfilled, Rows
<1>3. CASE Migrate10Delete
  BY <1>3 DEF Migrate10Delete, NoUpdate
<1>4. CASE Migrate10Abort
  BY <1>4 DEF Migrate10Abort, NoUpdate
<1>5. CASE Revert10
  BY <1>5 DEF Revert10
<1>6. CASE Revert9
  BY <1>6 DEF Revert9
<1>7. ASSUME NEW q \in Question, Edit(q) PROVE TypeOK'
  BY <1>7 DEF Edit, WithoutOption
<1>8. ASSUME NEW p \in Process, NEW code \in {"old", "new"}, Deploy(p, code)
      PROVE  TypeOK'
  BY <1>8 DEF Deploy
<1>9. ASSUME NEW p \in Process, NEW a \in Attempt,
             NEW questions \in SUBSET Question \ {{}},
             OldCreate(p, a, questions)
      PROVE  TypeOK'
  BY <1>9 DEF OldCreate
<1>10. ASSUME NEW p \in Process, NEW a \in Attempt,
              NEW questions \in SUBSET Question \ {{}},
              NewCreate(p, a, questions)
       PROVE  TypeOK'
  BY <1>10 DEF NewCreate
<1>11. ASSUME NEW p \in Process, NEW a \in Attempt, NEW q \in Question,
              NEW verdict \in {"right", "wrong"}, Submit(p, a, q, verdict)
       PROVE  TypeOK'
  BY <1>11 DEF Submit
<1>12. CASE UNCHANGED vars
  BY <1>12 DEF vars
<1> HIDE DEF TypeOK, RowState
<1> QED
  BY <1>1, <1>2, <1>3, <1>4, <1>5, <1>6, <1>7, <1>8, <1>9, <1>10, <1>11, <1>12
     DEF Next

(* a step leaves nothing of an attempt that is not started                 *)
LEMMA FreshStep == MigrationInv /\ [Next]_vars => FreshOK'
<1> SUFFICES ASSUME MigrationInv, [Next]_vars PROVE FreshOK'
  OBVIOUS
<1> USE DEF MigrationInv, TypeOK, RowState, FreshOK, PendingOK, Fresh, Rows
<1>1. CASE Migrate9
  BY <1>1 DEF Migrate9, Backfilled
<1>2. CASE Migrate10Update
  BY <1>2 DEF Migrate10Update, Backfilled
<1>3. CASE Migrate10Delete
  BY <1>3 DEF Migrate10Delete, NoUpdate
<1>4. CASE Migrate10Abort
  BY <1>4 DEF Migrate10Abort, NoUpdate
<1>5. CASE Revert10
  BY <1>5 DEF Revert10
<1>6. CASE Revert9
  BY <1>6 DEF Revert9
<1>7. ASSUME NEW q \in Question, Edit(q) PROVE FreshOK'
  BY <1>7 DEF Edit, WithoutOption
<1>8. ASSUME NEW p \in Process, NEW code \in {"old", "new"}, Deploy(p, code)
      PROVE  FreshOK'
  BY <1>8 DEF Deploy
<1>9. ASSUME NEW p \in Process, NEW a \in Attempt,
             NEW questions \in SUBSET Question \ {{}},
             OldCreate(p, a, questions)
      PROVE  FreshOK'
  BY <1>9 DEF OldCreate
<1>10. ASSUME NEW p \in Process, NEW a \in Attempt,
             NEW questions \in SUBSET Question \ {{}},
             NewCreate(p, a, questions)
       PROVE  FreshOK'
  BY <1>10 DEF NewCreate
<1>11. ASSUME NEW p \in Process, NEW a \in Attempt, NEW q \in Question,
              NEW verdict \in {"right", "wrong"}, Submit(p, a, q, verdict)
       PROVE  FreshOK'
  BY <1>11 DEF Submit, Shown
<1>12. CASE UNCHANGED vars
  BY <1>12 DEF vars
<1> HIDE DEF MigrationInv, TypeOK, RowState, FreshOK, PendingOK, Fresh, Rows
<1> QED
  BY <1>1, <1>2, <1>3, <1>4, <1>5, <1>6, <1>7, <1>8, <1>9, <1>10, <1>11, <1>12
     DEF Next

(* a deploy is only between 0009 and 0010                                  *)
LEMMA VersionsStep == MigrationInv /\ [Next]_vars => VersionsOK'
<1> SUFFICES ASSUME MigrationInv, [Next]_vars PROVE VersionsOK'
  OBVIOUS
<1> USE DEF MigrationInv, TypeOK, RowState, VersionsOK
<1>1. CASE Migrate9
  BY <1>1 DEF Migrate9
<1>2. CASE Migrate10Update
  BY <1>2 DEF Migrate10Update, Deployed
<1>3. CASE Migrate10Delete
  BY <1>3 DEF Migrate10Delete
<1>4. CASE Migrate10Abort
  BY <1>4 DEF Migrate10Abort
<1>5. CASE Revert10
  BY <1>5 DEF Revert10
<1>6. CASE Revert9
  BY <1>6 DEF Revert9
<1>7. ASSUME NEW q \in Question, Edit(q) PROVE VersionsOK'
  BY <1>7 DEF Edit
<1>8. ASSUME NEW p \in Process, NEW code \in {"old", "new"}, Deploy(p, code)
      PROVE  VersionsOK'
  BY <1>8 DEF Deploy
<1>9. ASSUME NEW p \in Process, NEW a \in Attempt,
             NEW questions \in SUBSET Question \ {{}},
             OldCreate(p, a, questions)
      PROVE  VersionsOK'
  BY <1>9 DEF OldCreate
<1>10. ASSUME NEW p \in Process, NEW a \in Attempt,
             NEW questions \in SUBSET Question \ {{}},
             NewCreate(p, a, questions)
       PROVE  VersionsOK'
  BY <1>10 DEF NewCreate
<1>11. ASSUME NEW p \in Process, NEW a \in Attempt, NEW q \in Question,
              NEW verdict \in {"right", "wrong"}, Submit(p, a, q, verdict)
       PROVE  VersionsOK'
  BY <1>11 DEF Submit
<1>12. CASE UNCHANGED vars
  BY <1>12 DEF vars
<1> HIDE DEF MigrationInv, TypeOK, RowState, VersionsOK
<1> QED
  BY <1>1, <1>2, <1>3, <1>4, <1>5, <1>6, <1>7, <1>8, <1>9, <1>10, <1>11, <1>12
     DEF Next

(* what 0010 is about to store is right                                    *)
LEMMA PendingStep == MigrationInv /\ [Next]_vars => PendingOK'
<1> SUFFICES ASSUME MigrationInv, [Next]_vars PROVE PendingOK'
  OBVIOUS
<1> USE DEF MigrationInv, TypeOK, RowState, FreshOK, VersionsOK, PlacesOK, PendingOK, Fresh, Rows
<1>1. CASE Migrate9
  BY <1>1 DEF Migrate9
<1>2. CASE Migrate10Update
  BY <1>2 DEF Migrate10Update, Backfilled
<1>3. CASE Migrate10Delete
  BY <1>3 DEF Migrate10Delete, NoUpdate
<1>4. CASE Migrate10Abort
  BY <1>4 DEF Migrate10Abort, NoUpdate
<1>5. CASE Revert10
  BY <1>5 DEF Revert10
<1>6. CASE Revert9
  BY <1>6 DEF Revert9
<1>7. ASSUME NEW q \in Question, Edit(q) PROVE PendingOK'
  BY <1>7 DEF Edit
<1>8. ASSUME NEW p \in Process, NEW code \in {"old", "new"}, Deploy(p, code)
      PROVE  PendingOK'
  BY <1>8 DEF Deploy
<1>9. ASSUME NEW p \in Process, NEW a \in Attempt,
             NEW questions \in SUBSET Question \ {{}},
             OldCreate(p, a, questions)
      PROVE  PendingOK'
  BY <1>9 DEF OldCreate
<1>10. ASSUME NEW p \in Process, NEW a \in Attempt,
             NEW questions \in SUBSET Question \ {{}},
             NewCreate(p, a, questions)
       PROVE  PendingOK'
  BY <1>10 DEF NewCreate
<1>11. ASSUME NEW p \in Process, NEW a \in Attempt, NEW q \in Question,
              NEW verdict \in {"right", "wrong"}, Submit(p, a, q, verdict)
       PROVE  PendingOK'
  BY <1>11 DEF Submit
<1>12. CASE UNCHANGED vars
  BY <1>12 DEF vars
<1> HIDE DEF MigrationInv, TypeOK, RowState, FreshOK, VersionsOK, PlacesOK, PendingOK, Fresh, Rows
<1> QED
  BY <1>1, <1>2, <1>3, <1>4, <1>5, <1>6, <1>7, <1>8, <1>9, <1>10, <1>11, <1>12
     DEF Next

(* no step loses the questions of an attempt but Revert9                   *)
LEMMA PlacesStep == MigrationInv /\ [Next]_vars => PlacesOK'
<1> SUFFICES ASSUME MigrationInv, [Next]_vars PROVE PlacesOK'
  OBVIOUS
<1> USE DEF MigrationInv, TypeOK, RowState, FreshOK, VersionsOK, PlacesOK, PendingOK, Fresh, Rows
<1>1. CASE Migrate9
  BY <1>1 DEF Migrate9, Backfilled
<1>2. CASE Migrate10Update
  BY <1>2 DEF Migrate10Update
<1>3. CASE Migrate10Delete
  BY <1>3 DEF Migrate10Delete, Placeholder, NoUpdate
<1>4. CASE Migrate10Abort
  BY <1>4 DEF Migrate10Abort
<1>5. CASE Revert10
  BY <1>5 DEF Revert10
<1>6. CASE Revert9
  BY <1>6 DEF Revert9
<1>7. ASSUME NEW q \in Question, Edit(q) PROVE PlacesOK'
  BY <1>7 DEF Edit, WithoutOption
<1>8. ASSUME NEW p \in Process, NEW code \in {"old", "new"}, Deploy(p, code)
      PROVE  PlacesOK'
  BY <1>8 DEF Deploy
<1>9. ASSUME NEW p \in Process, NEW a \in Attempt,
             NEW questions \in SUBSET Question \ {{}},
             OldCreate(p, a, questions)
      PROVE  PlacesOK'
  BY <1>9 DEF OldCreate
<1>10. ASSUME NEW p \in Process, NEW a \in Attempt,
             NEW questions \in SUBSET Question \ {{}},
             NewCreate(p, a, questions)
       PROVE  PlacesOK'
  BY <1>10 DEF NewCreate
<1>11. ASSUME NEW p \in Process, NEW a \in Attempt, NEW q \in Question,
              NEW verdict \in {"right", "wrong"}, Submit(p, a, q, verdict)
       PROVE  PlacesOK'
  BY <1>11 DEF Submit, Shown
<1>12. CASE UNCHANGED vars
  BY <1>12 DEF vars
<1> HIDE DEF MigrationInv, TypeOK, RowState, FreshOK, VersionsOK, PlacesOK, PendingOK, Fresh, Rows
<1> QED
  BY <1>1, <1>2, <1>3, <1>4, <1>5, <1>6, <1>7, <1>8, <1>9, <1>10, <1>11, <1>12
     DEF Next

(* credit is kept in the rows                                              *)
LEMMA CreditStep == MigrationInv /\ [Next]_vars => CreditKept'
<1> SUFFICES ASSUME MigrationInv, [Next]_vars PROVE CreditKept'
  OBVIOUS
<1> USE DEF MigrationInv, TypeOK, RowState, FreshOK, CreditKept, Fresh, Rows
<1>1. CASE Migrate9
  BY <1>1 DEF Migrate9
<1>2. CASE Migrate10Update
  BY <1>2 DEF Migrate10Update
<1>3. CASE Migrate10Delete
  BY <1>3 DEF Migrate10Delete, Placeholder
<1>4. CASE Migrate10Abort
  BY <1>4 DEF Migrate10Abort
<1>5. CASE Revert10
  BY <1>5 DEF Revert10
<1>6. CASE Revert9
  BY <1>6 DEF Revert9
<1>7. ASSUME NEW q \in Question, Edit(q) PROVE CreditKept'
  <2> SUFFICES ASSUME NEW a \in Attempt, NEW x \in Question
               PROVE  <<a, x>> \in credit' <=> row'[a][x] \in {"right", "kept"}
    OBVIOUS
  <2>1. row'[a] = [row[a] EXCEPT ![q] = WithoutOption(@)]
    BY <1>7 DEF Edit
  <2>2. row'[a][x] = IF x = q THEN WithoutOption(row[a][x]) ELSE row[a][x]
    BY <2>1
  <2>3. row[a][x] \in RowState
    OBVIOUS
  <2>4. credit' = credit
    BY <1>7 DEF Edit
  <2> QED
    BY <2>2, <2>3, <2>4 DEF WithoutOption
<1>8. ASSUME NEW p \in Process, NEW code \in {"old", "new"}, Deploy(p, code)
      PROVE  CreditKept'
  BY <1>8 DEF Deploy
<1>9. ASSUME NEW p \in Process, NEW a \in Attempt,
             NEW questions \in SUBSET Question \ {{}},
             OldCreate(p, a, questions)
      PROVE  CreditKept'
  <2> SUFFICES ASSUME NEW b \in Attempt, NEW x \in Question
               PROVE  <<b, x>> \in credit' <=> row'[b][x] \in {"right", "kept"}
    OBVIOUS
  <2>1. credit' = credit
    BY <1>9 DEF OldCreate
  <2>2. CASE b = a
    <3>1. row'[a] = [z \in Question |-> IF z \in questions THEN "blank"
                                                          ELSE "none"]
      BY <1>9 DEF OldCreate
    <3>2. row[a][x] = "none"
      BY <1>9 DEF OldCreate
    <3> QED
      BY <2>1, <2>2, <3>1, <3>2
  <2>3. CASE b # a
    <3>1. row'[b] = row[b]
      BY <1>9, <2>3 DEF OldCreate
    <3> QED
      BY <2>1, <3>1
  <2> QED
    BY <2>2, <2>3
<1>10. ASSUME NEW p \in Process, NEW a \in Attempt,
             NEW questions \in SUBSET Question \ {{}},
             NewCreate(p, a, questions)
       PROVE  CreditKept'
  BY <1>10 DEF NewCreate
<1>11. ASSUME NEW p \in Process, NEW a \in Attempt, NEW q \in Question,
              NEW verdict \in {"right", "wrong"}, Submit(p, a, q, verdict)
       PROVE  CreditKept'
  <2> SUFFICES ASSUME NEW b \in Attempt, NEW x \in Question
               PROVE  <<b, x>> \in credit' <=> row'[b][x] \in {"right", "kept"}
    OBVIOUS
  <2>1. row' = [row EXCEPT ![a][q] = verdict]
    BY <1>11 DEF Submit
  <2>2. credit' = IF verdict = "right" THEN credit \cup {<<a, q>>}
                                       ELSE credit \ {<<a, q>>}
    BY <1>11 DEF Submit
  <2>3. CASE <<b, x>> = <<a, q>>
    <3>1. row'[b][x] = verdict
      BY <2>1, <2>3
    <3> QED
      BY <2>2, <2>3, <3>1
  <2>4. CASE <<b, x>> # <<a, q>>
    <3>1. row'[b][x] = row[b][x]
      BY <2>1, <2>4
    <3>2. <<b, x>> \in credit' <=> <<b, x>> \in credit
      BY <2>2, <2>4
    <3> QED
      BY <3>1, <3>2
  <2> QED
    BY <2>3, <2>4
<1>12. CASE UNCHANGED vars
  BY <1>12 DEF vars
<1> HIDE DEF MigrationInv, TypeOK, RowState, FreshOK, CreditKept, Fresh, Rows
<1> QED
  BY <1>1, <1>2, <1>3, <1>4, <1>5, <1>6, <1>7, <1>8, <1>9, <1>10, <1>11, <1>12
     DEF Next

-----------------------------------------------------------------------------
(* the invariant holds initially and in every step                         *)
LEMMA MigrationSafe == Spec => []MigrationInv
<1>1. Init => MigrationInv
  BY DEF Init, MigrationInv, TypeOK, RowState, FreshOK, VersionsOK, PlacesOK,
         PendingOK, CreditKept, Fresh, Rows, NoUpdate
<1>2. MigrationInv /\ [Next]_vars => MigrationInv'
  <2> SUFFICES ASSUME MigrationInv, [Next]_vars PROVE MigrationInv'
    OBVIOUS
  <2>1. TypeOK'
    BY TypeStep DEF MigrationInv
  <2> QED
    BY <2>1, FreshStep, VersionsStep, PendingStep, PlacesStep, CreditStep
       DEF MigrationInv
<1> QED
  BY <1>1, <1>2, PTL DEF Spec

(***************************************************************************)
(* Once 0010 is committed, every attempt is served with the questions it   *)
(* was started with, whichever code started it and whenever, unless it was *)
(* lost to 0009.down.                                                      *)
(***************************************************************************)
THEOREM NoQuestionLost == Spec => []QuestionsKept
<1>1. MigrationInv => QuestionsKept
  BY DEF MigrationInv, TypeOK, FreshOK, PlacesOK, QuestionsKept, Fresh
<1> QED
  BY <1>1, MigrationSafe, PTL

(***************************************************************************)
(* While both versions of the code serve, each shows what it has started,  *)
(* and the new one also what was there when 0009 was applied.              *)
(***************************************************************************)
THEOREM OwnAttemptsServed == Spec => []VersionServesItsOwn
<1>1. MigrationInv => VersionServesItsOwn
  <2> SUFFICES ASSUME MigrationInv, NEW p \in Process, NEW a \in Attempt,
                      author[a] # "lost",
                      ~(version[p] = "old" /\ author[a] = "new"),
                      ~(version[p] = "new" /\ author[a] = "late"
                          /\ schema # "0010")
               PROVE  Shown(p, a) = picked[a]
    BY DEF VersionServesItsOwn
  <2>1. CASE Fresh(a)
    BY <2>1 DEF MigrationInv, FreshOK, Shown
  <2>2. CASE ~Fresh(a) /\ version[p] = "old"
    BY <2>2 DEF MigrationInv, TypeOK, VersionsOK, PlacesOK, Shown, Fresh
  <2>3. CASE ~Fresh(a) /\ version[p] # "old"
    BY <2>3 DEF MigrationInv, TypeOK, VersionsOK, PlacesOK, Shown, Fresh
  <2> QED
    BY <2>1, <2>2, <2>3
<1> QED
  BY <1>1, MigrationSafe, PTL

(***************************************************************************)
(* No migration takes the credit of a right answer or gives one for        *)
(* another, edits of the options in between included.                      *)
(***************************************************************************)
THEOREM CreditSafe == Spec => []CreditKept
<1>1. MigrationInv => CreditKept
  BY DEF MigrationInv
<1> QED
  BY <1>1, MigrationSafe, PTL
=============================================================================
