-------------------------- MODULE QuizAttemptsProofs --------------------------
(***************************************************************************)
(* Proofs about QuizAttempts, for any sets of attempts, questions, slots   *)
(* and requests and any bounds.                                            *)
(***************************************************************************)
EXTENDS QuizAttempts, FiniteSetTheorems, TLAPS

USE DEF attemptVars, bankVars, purgeVars, clientVars

(***************************************************************************)
(* How many rows are correct is a number: there are finitely many          *)
(* questions.                                                              *)
(***************************************************************************)
LEMMA CountType ==
    ASSUME NEW a \in Attempt
    PROVE  Cardinality(CorrectRows(a)) \in Nat
  <1>1. CorrectRows(a) \subseteq Question
    BY DEF CorrectRows, Rows
  <1>2. QED
    BY <1>1, ConstantsAssumption, FS_Subset, FS_CardinalityType
       DEF ConstantsAssumption

(* the initial state is well typed                                         *)
LEMMA InitTypeOK == Init => TypeOK
  <1> SUFFICES ASSUME Init PROVE TypeOK
    OBVIOUS
  <1>1. NoEdit \in Edit
    BY DEF NoEdit, Edit
  <1>2. txn \in [Request -> {Idle} \cup SubmitTxn \cup CompleteTxn]
    BY DEF Init
  <1>3. QED
    BY <1>1, <1>2 DEF Init, TypeOK, Status

(* The record of a request in a given place is the one of its handler.     *)
LEMMA TxnKinds ==
    ASSUME TypeOK, NEW r \in Request
    PROVE  /\ txn[r].pc \in {"read_stored", "read_options", "store",
                             "attempt_key", "option_key", "commit",
                             "respond"}
                => txn[r] \in SubmitTxn
           /\ txn[r].pc \in {"lock", "read_answers", "close", "track"}
                => txn[r] \in CompleteTxn
           /\ txn[r] = Idle <=> txn[r].pc = "idle"
  BY DEF TypeOK, SubmitTxn, CompleteTxn, Idle

Txn == {Idle} \cup SubmitTxn \cup CompleteTxn

LEMMA GotoTypeOK ==
    ASSUME TypeOK, NEW r \in Request, NEW t \in Txn, Goto(r, t)
    PROVE  txn' \in [Request -> Txn]
  BY DEF TypeOK, Goto, Txn

LEMMA GotoSets ==
    ASSUME TypeOK, NEW r \in Request, NEW t, Goto(r, t)
    PROVE  /\ txn'[r] = t
           /\ \A s \in Request \ {r} : txn'[s] = txn[s]
  BY DEF TypeOK, Goto

(* the records of a submit after its statements                            *)
Reread(t) == [t EXCEPT !.pc = "read_options",
                       !.stored = Stored(t.attempt, t.question)]

ToStore(t) == [t EXCEPT !.pc = "store", !.correct = IsCorrect(t.option)]

ToCommit(t) == [t EXCEPT !.pc = "commit"]

ToWrite(t, pc, w) == [t EXCEPT !.pc = pc, !.write = w]

ToOption(t) == [t EXCEPT !.pc = "option_key"]

ToWritten(t) == [t EXCEPT !.pc = "commit", !.stored = Written(t)]

ToHeld(t, row) == [t EXCEPT !.pc = "commit", !.stored = row, !.write = "held"]

ToRespond(t) == [t EXCEPT !.pc = "respond", !.write = "none"]

SameRequest(t, u) ==
    /\ u.attempt = t.attempt
    /\ u.question = t.question
    /\ u.option = t.option
    /\ u.closed = t.closed

LEMMA RereadFields ==
    ASSUME NEW t \in SubmitTxn
    PROVE  /\ Reread(t).pc = "read_options"
           /\ Reread(t).stored = Stored(t.attempt, t.question)
           /\ Reread(t).correct = t.correct
           /\ Reread(t).write = t.write
           /\ SameRequest(t, Reread(t))
  BY DEF SubmitTxn, Reread, SameRequest

LEMMA ToStoreFields ==
    ASSUME NEW t \in SubmitTxn
    PROVE  /\ ToStore(t).pc = "store"
           /\ ToStore(t).stored = t.stored
           /\ ToStore(t).correct = IsCorrect(t.option)
           /\ ToStore(t).write = t.write
           /\ SameRequest(t, ToStore(t))
  BY DEF SubmitTxn, ToStore, SameRequest

LEMMA ToCommitFields ==
    ASSUME NEW t \in SubmitTxn
    PROVE  /\ ToCommit(t).pc = "commit"
           /\ ToCommit(t).stored = t.stored
           /\ ToCommit(t).correct = t.correct
           /\ ToCommit(t).write = t.write
           /\ SameRequest(t, ToCommit(t))
  BY DEF SubmitTxn, ToCommit, SameRequest

LEMMA ToWriteFields ==
    ASSUME NEW t \in SubmitTxn, NEW pc, NEW w
    PROVE  /\ ToWrite(t, pc, w).pc = pc
           /\ ToWrite(t, pc, w).stored = t.stored
           /\ ToWrite(t, pc, w).correct = t.correct
           /\ ToWrite(t, pc, w).write = w
           /\ SameRequest(t, ToWrite(t, pc, w))
  BY DEF SubmitTxn, ToWrite, SameRequest

LEMMA ToOptionFields ==
    ASSUME NEW t \in SubmitTxn
    PROVE  /\ ToOption(t).pc = "option_key"
           /\ ToOption(t).stored = t.stored
           /\ ToOption(t).correct = t.correct
           /\ ToOption(t).write = t.write
           /\ SameRequest(t, ToOption(t))
  BY DEF SubmitTxn, ToOption, SameRequest

LEMMA ToWrittenFields ==
    ASSUME NEW t \in SubmitTxn
    PROVE  /\ ToWritten(t).pc = "commit"
           /\ ToWritten(t).stored = Written(t)
           /\ ToWritten(t).correct = t.correct
           /\ ToWritten(t).write = t.write
           /\ SameRequest(t, ToWritten(t))
  BY DEF SubmitTxn, ToWritten, SameRequest

LEMMA ToHeldFields ==
    ASSUME NEW t \in SubmitTxn, NEW row
    PROVE  /\ ToHeld(t, row).pc = "commit"
           /\ ToHeld(t, row).stored = row
           /\ ToHeld(t, row).correct = t.correct
           /\ ToHeld(t, row).write = "held"
           /\ SameRequest(t, ToHeld(t, row))
  BY DEF SubmitTxn, ToHeld, SameRequest

LEMMA ToRespondFields ==
    ASSUME NEW t \in SubmitTxn
    PROVE  /\ ToRespond(t).pc = "respond"
           /\ ToRespond(t).stored = t.stored
           /\ ToRespond(t).correct = t.correct
           /\ ToRespond(t).write = "none"
           /\ SameRequest(t, ToRespond(t))
  BY DEF SubmitTxn, ToRespond, SameRequest

(* where the handler of a submit goes on, before its commit                *)
Continues(r, u) ==
    LET t == txn[r]
    IN  \/ /\ SubmitReadStored(r)
           /\ u = Reread(t)
           /\ ~Conflicts(t, Stored(t.attempt, t.question))
        \/ /\ SubmitReadOptions(r)
           /\ u = ToStore(t)
           /\ Belongs(t)
           /\ t.stored = NoRow
        \/ /\ SubmitReadOptions(r)
           /\ u = ToCommit(t)
           /\ Belongs(t)
           /\ t.stored # NoRow
        \/ StoreInsert(r) /\ u = ToWrite(t, "attempt_key", "insert")
        \/ StoreRefill(r) /\ u = ToWrite(t, "option_key", "refill")
        \/ /\ StoreConflict(r)
           /\ u = ToHeld(t, answer[t.attempt][t.question])
           /\ answer[t.attempt][t.question].option = t.option
        \/ StoreAttemptKey(r) /\ u = ToOption(t) /\ Exists(t.attempt)
        \/ StoreOptionKey(r) /\ u = ToWritten(t) /\ Live(t.option)

(* the statements of submit_answer before its commit                       *)
Submitting(r) ==
    \/ SubmitReadStored(r)
    \/ SubmitReadOptions(r)
    \/ StoreInsert(r)
    \/ StoreRefill(r)
    \/ StoreConflict(r)
    \/ StoreAttemptKey(r)
    \/ StoreOptionKey(r)

LEMMA SubmitMoves ==
    ASSUME NEW r \in Request, Submitting(r)
    PROVE  /\ \/ Goto(r, Idle)
              \/ \E u : Goto(r, u) /\ Continues(r, u)
           /\ txn[r].pc \in {"read_stored", "read_options", "store",
                             "attempt_key", "option_key"}
           /\ UNCHANGED <<attemptVars, answer, bankVars, edit, purgeVars,
                          clientVars>>
  BY DEF Submitting, SubmitReadStored, SubmitReadOptions, StoreInsert,
         StoreRefill, StoreConflict, StoreAttemptKey, StoreOptionKey,
         ReadyToStore, Finish, Continues, Reread, ToStore, ToCommit, ToWrite,
         ToOption, ToWritten, ToHeld

(* The record a submit goes on with is well typed.                         *)
LEMMA ContinuesTxn ==
    ASSUME TypeOK, NEW r \in Request, NEW u, Continues(r, u)
    PROVE  u \in SubmitTxn
  <1> DEFINE t == txn[r]
             row == answer[t.attempt][t.question]
  <1>1. t \in SubmitTxn
    BY TxnKinds DEF Continues, SubmitReadStored, SubmitReadOptions,
       StoreInsert, StoreRefill, StoreConflict, StoreAttemptKey,
       StoreOptionKey, ReadyToStore
  <1>2. row \in AnswerRow \cup {NoRow}
    BY <1>1 DEF TypeOK, SubmitTxn
  <1>3. CASE u = Reread(t)
    <2>1. Stored(t.attempt, t.question) \in StoredAnswer \cup {NoRow}
      BY <1>1, <1>2 DEF Stored, Rows, AnswerRow, StoredAnswer, SubmitTxn
    <2>2. QED
      BY <1>1, <1>3, <2>1 DEF Reread, SubmitTxn
  <1>4. CASE u = ToStore(t)
    <2>1. IsCorrect(t.option) \in BOOLEAN
      BY DEF IsCorrect
    <2>2. QED
      BY <1>1, <1>4, <2>1 DEF ToStore, SubmitTxn
  <1>5. CASE u = ToCommit(t) /\ t.stored # NoRow
    BY <1>1, <1>5 DEF ToCommit, SubmitTxn
  <1>6. CASE \/ u = ToWrite(t, "attempt_key", "insert")
             \/ u = ToWrite(t, "option_key", "refill")
    BY <1>1, <1>6 DEF ToWrite, SubmitTxn
  <1>7. CASE StoreConflict(r) /\ u = ToHeld(t, row)
    <2>1. row \in StoredAnswer /\ row # NoRow
      BY <1>2, <1>7 DEF StoreConflict, Vacant, AnswerRow, StoredAnswer
    <2>2. QED
      BY <1>1, <1>7, <2>1 DEF ToHeld, SubmitTxn
  <1>8. CASE u = ToOption(t)
    BY <1>1, <1>8 DEF ToOption, SubmitTxn
  <1>9. CASE u = ToWritten(t)
    <2>1. Written(t) \in StoredAnswer
      BY <1>1 DEF Written, SubmitTxn, StoredAnswer
    <2>2. Written(t) # NoRow
      BY <2>1, ConstantsAssumption
         DEF ConstantsAssumption, StoredAnswer, AnswerRow
    <2>3. QED
      BY <1>1, <1>9, <2>1, <2>2 DEF ToWritten, SubmitTxn
  <1>10. QED
    BY <1>3, <1>4, <1>5, <1>6, <1>7, <1>8, <1>9 DEF Continues

(* The steps of submit_answer keep the types.                              *)
LEMMA SubmitTypeOK ==
    ASSUME TypeOK, NEW r \in Request,
           Submitting(r) \/ SubmitCommit(r) \/ SubmitRespond(r)
    PROVE  TypeOK'
  <1> DEFINE t == txn[r]
  <1>1. CASE Submitting(r)
    <2>1. PICK u \in Txn : Goto(r, u)
      BY <1>1, SubmitMoves, ContinuesTxn DEF Txn
    <2>2. txn' \in [Request -> Txn]
      BY <2>1, GotoTypeOK
    <2>3. UNCHANGED <<attemptVars, answer, bankVars, edit, purgeVars,
                      clientVars>>
      BY <1>1, SubmitMoves
    <2>4. QED
      BY <2>2, <2>3 DEF TypeOK, Txn
  <1>2. CASE SubmitCommit(r) \/ SubmitRespond(r)
    <2>1. t \in SubmitTxn /\ t.stored \in StoredAnswer
      BY <1>2, TxnKinds DEF SubmitCommit, SubmitRespond, SubmitTxn
    <2>2. t.stored \in AnswerRow /\ ClaimOf(t) \in Claim
      BY <2>1 DEF StoredAnswer, AnswerRow, ClaimOf, Claim, SubmitTxn
    <2>3. /\ t.attempt \in Attempt
          /\ t.question \in Question
      BY <2>1 DEF SubmitTxn
    <2>4. CASE SubmitCommit(r)
      <3>1. answer' \in [Attempt -> [Question -> AnswerRow \cup {NoRow}]]
        BY <2>2, <2>3, <2>4 DEF SubmitCommit, TypeOK
      <3>2. ToRespond(t) \in SubmitTxn
        BY <2>1, <2>4 DEF ToRespond, SubmitTxn, SubmitCommit
      <3>3. txn' \in [Request -> Txn]
        BY <2>4, <3>2, GotoTypeOK DEF SubmitCommit, ToRespond, Txn
      <3>4. recorded' \in SUBSET Claim /\ overtaken' \in SUBSET Attempt
        BY <2>2, <2>3, <2>4 DEF SubmitCommit, TypeOK
      <3>5. QED
        BY <2>4, <3>1, <3>3, <3>4 DEF SubmitCommit, TypeOK, Txn
    <2>5. CASE SubmitRespond(r)
      BY <2>2, <2>5 DEF SubmitRespond, TypeOK, Goto, Finish
    <2>6. QED
      BY <1>2, <2>4, <2>5
  <1>3. QED
    BY <1>1, <1>2

(* The steps of complete_attempt keep the types.                           *)
LEMMA CompleteTypeOK ==
    ASSUME TypeOK, NEW r \in Request,
           \/ CompleteLock(r)
           \/ CompleteReadAnswers(r)
           \/ CompleteClose(r)
           \/ CompleteTrack(r)
    PROVE  TypeOK'
  <1> DEFINE t == txn[r]
  <1>1. t \in CompleteTxn
    BY TxnKinds DEF CompleteLock, CompleteReadAnswers, CompleteClose,
                    CompleteTrack
  <1>2. t.attempt \in Attempt /\ t.score \in Nat
    BY <1>1 DEF CompleteTxn
  <1>3. CASE CompleteLock(r)
    <2>1. [t EXCEPT !.pc = "read_answers"] \in CompleteTxn
      BY <1>1 DEF CompleteTxn
    <2>2. Goto(r, Idle) \/ Goto(r, [t EXCEPT !.pc = "read_answers"])
      BY <1>3 DEF CompleteLock, Finish
    <2>3. txn' \in [Request -> Txn]
      BY <2>1, <2>2, GotoTypeOK DEF Txn
    <2>4. score[t.attempt] \in Nat
      BY <1>2 DEF TypeOK
    <2>5. reported' \in [Attempt -> SUBSET Nat]
      BY <1>2, <1>3, <2>4 DEF CompleteLock, TypeOK
    <2>6. QED
      BY <1>3, <2>3, <2>5 DEF CompleteLock, TypeOK, Txn
  <1>4. CASE CompleteReadAnswers(r)
    <2> DEFINE n == Cardinality(CorrectRows(t.attempt))
               u == [t EXCEPT !.pc = "close", !.score = n]
    <2>1. u \in CompleteTxn
      BY <1>1, <1>2, CountType DEF CompleteTxn
    <2>2. Goto(r, Idle) \/ Goto(r, u)
      BY <1>4 DEF CompleteReadAnswers, Finish
    <2>3. txn' \in [Request -> Txn]
      BY <2>1, <2>2, GotoTypeOK DEF Txn
    <2>4. QED
      BY <1>4, <2>3 DEF CompleteReadAnswers, TypeOK, Txn
  <1>5. CASE CompleteClose(r)
    <2>1. [t EXCEPT !.pc = "track"] \in CompleteTxn
      BY <1>1 DEF CompleteTxn
    <2>2. txn' \in [Request -> Txn]
      BY <1>5, <2>1, GotoTypeOK DEF CompleteClose, Txn
    <2>3. QED
      BY <1>2, <1>5, <2>2 DEF CompleteClose, TypeOK, Status, Txn
  <1>6. CASE CompleteTrack(r)
    BY <1>1, <1>2, <1>6
       DEF CompleteTrack, TypeOK, Goto, Finish
  <1>7. QED
    BY <1>3, <1>4, <1>5, <1>6 DEF CompleteLock

(* Arriving requests, the admin console and the purge keep the types.      *)
LEMMA OtherTypeOK ==
    ASSUME TypeOK,
           \/ \E a \in Attempt, questions \in SUBSET Question :
                 CreateAttempt(a, questions)
           \/ \E r \in Request : Arrive(r) \/ Crash(r)
           \/ \E q \in Question : EditStep(q) \/ EditAbort(q)
           \/ \E a \in Attempt : Age(a)
           \/ Purge
    PROVE  TypeOK'
  <1>1. ASSUME NEW a \in Attempt, NEW questions \in SUBSET Question,
               CreateAttempt(a, questions)
        PROVE  TypeOK'
    BY <1>1 DEF CreateAttempt, TypeOK, Status
  <1>2. ASSUME NEW r \in Request, Arrive(r)
        PROVE  TypeOK'
    <2>1. ASSUME NEW a \in Attempt, NEW q \in Question, NEW p \in Question,
                 NEW s \in Slot, NEW e \in 0..edition[p],
                 SubmitLoad(r, a, q,
                            [question |-> p, edition |-> e, slot |-> s])
          PROVE  TypeOK'
      <3> DEFINE t == [pc |-> "read_stored", attempt |-> a, question |-> q,
                       option |-> [question |-> p, edition |-> e, slot |-> s],
                       closed |-> status[a] = "completed",
                       stored |-> NoRow, correct |-> FALSE, write |-> "none"]
      <3>1. t \in SubmitTxn
        BY <2>1 DEF SubmitTxn, Option
      <3>2. txn' \in [Request -> Txn]
        BY <2>1, <3>1, GotoTypeOK DEF SubmitLoad, Txn
      <3>3. QED
        BY <2>1, <3>2 DEF SubmitLoad, TypeOK, Txn
    <2>2. ASSUME NEW a \in Attempt, CompleteBegin(r, a)
          PROVE  TypeOK'
      <3>1. [pc |-> "lock", attempt |-> a, score |-> 0] \in Txn
        BY DEF CompleteTxn, Txn
      <3>2. txn' \in [Request -> Txn]
        BY <2>2, <3>1, GotoTypeOK DEF CompleteBegin
      <3>3. QED
        BY <2>2, <3>2 DEF CompleteBegin, TypeOK, Txn
    <2>3. QED
      BY <1>2, <2>1, <2>2 DEF Arrive
  <1>3. ASSUME NEW r \in Request, Crash(r)
        PROVE  TypeOK'
    BY <1>3 DEF Crash, Finish, Goto, TypeOK
  <1>4. ASSUME NEW q \in Question, NEW correctSlots \in (SUBSET Slot) \ {{}},
               ReplaceOptions(q, correctSlots)
        PROVE  TypeOK'
    <2>1. NoEdit \in Edit
      BY DEF NoEdit, Edit
    <2>2. ASSUME NEW a \in Attempt, q \in Rows(a)
          PROVE  [answer[a] EXCEPT ![q].option = NULL]
                    \in [Question -> AnswerRow \cup {NoRow}]
      <3>1. answer[a][q] \in AnswerRow
        BY <2>2 DEF TypeOK, Rows
      <3>2. [answer[a][q] EXCEPT !.option = NULL] \in AnswerRow
        BY <3>1 DEF AnswerRow
      <3>3. QED
        BY <3>2 DEF TypeOK
    <2>3. answer' \in [Attempt -> [Question -> AnswerRow \cup {NoRow}]]
      BY <1>4, <2>2 DEF ReplaceOptions, TypeOK
    <2>4. QED
      BY <1>4, <2>1, <2>3 DEF ReplaceOptions, TypeOK
  <1>8. ASSUME NEW q \in Question,
               \/ \E s \in Slot : EditDelete(q, s)
               \/ \E a \in Attempt : EditNull(q, a)
               \/ EditAbort(q)
        PROVE  TypeOK'
    <2>1. edit[q] \in Edit /\ NoEdit \in Edit
      BY DEF TypeOK, NoEdit, Edit
    <2>2. \A s \in Slot :
             [edit[q] EXCEPT !.deleted = edit[q].deleted \cup {s}] \in Edit
      BY <2>1 DEF Edit
    <2>3. \A a \in Attempt :
             [edit[q] EXCEPT !.nulled = edit[q].nulled \cup {a}] \in Edit
      BY <2>1 DEF Edit
    <2>4. edit' \in [Question -> Edit]
      <3>1. CASE \E s \in Slot : EditDelete(q, s)
        <4>1. PICK s \in Slot : EditDelete(q, s)
          BY <3>1
        <4>2. edit' = [edit EXCEPT ![q] =
                         [edit[q] EXCEPT !.deleted = edit[q].deleted \cup {s}]]
          BY <4>1 DEF EditDelete, TypeOK
        <4>3. QED
          BY <2>2, <4>2 DEF TypeOK
      <3>2. CASE \E a \in Attempt : EditNull(q, a)
        <4>1. PICK a \in Attempt : EditNull(q, a)
          BY <3>2
        <4>2. edit' = [edit EXCEPT ![q] =
                         [edit[q] EXCEPT !.nulled = edit[q].nulled \cup {a}]]
          BY <4>1 DEF EditNull, TypeOK
        <4>3. QED
          BY <2>3, <4>2 DEF TypeOK
      <3>3. CASE EditAbort(q)
        BY <2>1, <3>3 DEF EditAbort, TypeOK
      <3>4. QED
        BY <1>8, <3>1, <3>2, <3>3
    <2>5. QED
      BY <1>8, <2>4 DEF EditDelete, EditNull, EditAbort, TypeOK
  <1>5. ASSUME NEW a \in Attempt, Age(a)
        PROVE  TypeOK'
    BY <1>5 DEF Age, TypeOK
  <1>6. CASE Purge
    <2>1. CASE PurgeDelete
      BY <2>1 DEF PurgeDelete, TypeOK, Status
    <2>2. CASE \/ PurgeStart
               \/ \E batch \in SUBSET Attempt : PurgeSelect(batch)
               \/ \E a \in Attempt : PurgeTake(a)
               \/ PurgeFinish
               \/ PurgeCrash
      BY <2>2 DEF PurgeStart, PurgeSelect, PurgeTake, PurgeFinish, PurgeCrash,
                  TypeOK
    <2>3. ASSUME NEW a \in Attempt, NEW q \in Question, PurgeSweep(a, q)
          PROVE  TypeOK'
      <3>1. <<a, q>> \in Attempt \X Question
        OBVIOUS
      <3>2. swept' \in SUBSET (Attempt \X Question)
        BY <2>3, <3>1 DEF PurgeSweep, TypeOK
      <3>3. QED
        BY <2>3, <3>2 DEF PurgeSweep, TypeOK
    <2>4. QED
      BY <1>6, <2>1, <2>2, <2>3 DEF Purge, PurgeStep
  <1>7. QED
    BY <1>1, <1>2, <1>3, <1>4, <1>5, <1>6, <1>8 DEF EditStep

LEMMA StepTypeOK == TypeOK /\ [Next]_vars => TypeOK'
  <1>1. CASE UNCHANGED vars
    BY <1>1 DEF vars, TypeOK
  <1>2. CASE \E r \in Request : Serve(r)
    BY <1>2, SubmitTypeOK, CompleteTypeOK DEF Serve, Submitting
  <1>3. QED
    BY <1>1, <1>2, OtherTypeOK DEF Next

(***************************************************************************)
(* Every variable keeps its type, through all interleavings of requests,   *)
(* edits and the purge.                                                    *)
(***************************************************************************)
THEOREM TypeCorrect == Spec => []TypeOK
  BY InitTypeOK, StepTypeOK, PTL DEF Spec

-----------------------------------------------------------------------------
(* r holds the FOR UPDATE lock of complete_attempt                         *)
Closing(r) == txn[r].pc \in {"read_answers", "close"}

(***************************************************************************)
(* The FOR UPDATE lock works: one request at most is scoring an attempt,   *)
(* and meanwhile the attempt stays open and the purge does not reach it.   *)
(***************************************************************************)
ClosersOK ==
    \A r \in Request : Closing(r) =>
        /\ status[txn[r].attempt] = "open"
        /\ txn[r].attempt \notin doomed
        /\ \A s \in Request :
              Closing(s) /\ txn[s].attempt = txn[r].attempt => s = r

(* A request moves on, but not into the lock.                              *)
LEMMA ClosersLeave ==
    ASSUME TypeOK, ClosersOK, NEW r \in Request, NEW u \in Txn, Goto(r, u),
           u.pc \in {"read_answers", "close"} =>
              Closing(r) /\ u.attempt = txn[r].attempt,
           UNCHANGED <<status, doomed>>
    PROVE  ClosersOK'
  BY DEF ClosersOK, Closing, Goto, TypeOK

LEMMA StepClosersOK ==
    ASSUME TypeOK, ClosersOK, [Next]_vars
    PROVE  ClosersOK'
  <1>1. CASE UNCHANGED vars
    BY <1>1 DEF vars, ClosersOK, Closing
  <1>2. ASSUME NEW r \in Request, Serve(r) \/ Crash(r) \/ Arrive(r)
        PROVE  ClosersOK'
    <2> DEFINE t == txn[r]
    <2>1. TypeOK'
      BY <1>2, StepTypeOK DEF Next
    <2>2. txn'[r] \in Txn
      BY <2>1 DEF TypeOK, Txn
    <2>3. CASE CompleteLock(r) /\ status[t.attempt] = "open"
      <3>1. /\ t \in CompleteTxn
            /\ ~AttemptLocked(t.attempt)
            /\ UNCHANGED <<status, doomed>>
        BY <2>3, TxnKinds DEF CompleteLock
      <3>5. /\ t.attempt \notin doomed
            /\ \A s \in Request : ~Scoring(s, t.attempt)
        BY <3>1 DEF AttemptLocked, HasAttempt, Actor
      <3>2. CASE Goto(r, [t EXCEPT !.pc = "read_answers"])
        BY <2>3, <3>1, <3>2, <3>5
           DEF Goto, TypeOK, ClosersOK, Closing, Scoring, CompleteTxn
      <3>3. CASE Finish(r)
        BY <3>1, <3>3, ClosersLeave DEF Finish, Idle, Txn
      <3>4. QED
        BY <2>3, <3>2, <3>3 DEF CompleteLock
    <2>4. CASE CompleteReadAnswers(r)
      <3> DEFINE u == [t EXCEPT !.pc = "close",
                            !.score = Cardinality(CorrectRows(t.attempt))]
      <3>1. t \in CompleteTxn
        BY <2>4, TxnKinds DEF CompleteReadAnswers
      <3>2. u \in CompleteTxn
        BY <3>1, CountType DEF CompleteTxn
      <3>3. u.attempt = t.attempt /\ Closing(r)
        BY <2>4, <3>1 DEF CompleteReadAnswers, CompleteTxn, Closing
      <3>4. Goto(r, Idle) \/ Goto(r, u)
        BY <2>4 DEF CompleteReadAnswers, Finish
      <3>5. QED
        BY <2>4, <3>2, <3>3, <3>4, ClosersLeave
           DEF CompleteReadAnswers, Txn, Idle
    <2>5. CASE CompleteClose(r)
      <3>1. t \in CompleteTxn /\ Closing(r)
        BY <2>5, TxnKinds DEF CompleteClose, Closing
      <3>2. [t EXCEPT !.pc = "track"].pc = "track"
        BY <3>1 DEF CompleteTxn
      <3>3. QED
        BY <2>5, <3>1, <3>2 DEF CompleteClose, Goto, TypeOK, ClosersOK, Closing
    <2>6. CASE \/ Crash(r)
               \/ SubmitRespond(r)
               \/ CompleteTrack(r)
               \/ CompleteLock(r) /\ status[t.attempt] # "open"
      <3>1. Goto(r, Idle) /\ UNCHANGED <<status, doomed>>
        BY <2>6 DEF Crash, SubmitRespond, CompleteTrack, CompleteLock, Finish
      <3>2. QED
        BY <3>1, ClosersLeave DEF Txn, Idle
    <2>10. CASE SubmitCommit(r)
      <3>1. t \in SubmitTxn
        BY <2>10, TxnKinds DEF SubmitCommit
      <3>2. Goto(r, ToRespond(t)) /\ UNCHANGED <<status, doomed>>
        BY <2>10 DEF SubmitCommit, ToRespond
      <3>3. ToRespond(t) \in Txn
        BY <2>2, <3>2, GotoSets
      <3>4. QED
        BY <3>1, <3>2, <3>3, ToRespondFields, ClosersLeave
    <2>7. CASE Arrive(r)
      <3>1. txn' = [txn EXCEPT ![r] = txn'[r]]
        BY <2>7 DEF Arrive, SubmitLoad, CompleteBegin, Goto, TypeOK
      <3>2. txn'[r].pc \in {"read_stored", "lock"}
        BY <2>7 DEF Arrive, SubmitLoad, CompleteBegin, Goto, TypeOK
      <3>3. UNCHANGED <<status, doomed>>
        BY <2>7 DEF Arrive, SubmitLoad, CompleteBegin
      <3>4. QED
        BY <2>2, <3>1, <3>2, <3>3, ClosersLeave DEF Goto
    <2>8. CASE Submitting(r)
      <3>1. txn[r].pc \in {"read_stored", "read_options", "store",
                          "attempt_key", "option_key"}
        BY <2>8, SubmitMoves
      <3>2. t \in SubmitTxn /\ UNCHANGED <<status, doomed>>
        BY <2>8, <3>1, SubmitMoves, TxnKinds
      <3>3. ASSUME NEW u, Goto(r, u), Continues(r, u)
            PROVE  ClosersOK'
        <4>1. u.pc \in {"read_options", "store", "attempt_key", "option_key",
                       "commit"}
          BY <3>2, <3>3, RereadFields, ToStoreFields, ToCommitFields,
             ToWriteFields, ToHeldFields, ToOptionFields, ToWrittenFields
             DEF Continues
        <4>2. u \in Txn
          BY <3>3, <2>2, GotoSets
        <4>3. QED
          BY <3>2, <3>3, <4>1, <4>2, ClosersLeave
      <3>4. CASE Goto(r, Idle)
        BY <3>2, <3>4, ClosersLeave DEF Txn, Idle
      <3>5. QED
        BY <2>8, <3>3, <3>4, SubmitMoves
    <2>9. QED
      BY <1>2, <2>3, <2>4, <2>5, <2>6, <2>7, <2>8, <2>10
         DEF Serve, Submitting
  <1>3. CASE \E a \in Attempt, questions \in SUBSET Question :
                CreateAttempt(a, questions)
    BY <1>3 DEF CreateAttempt, ClosersOK, Closing, TypeOK
  <1>4. CASE \E q \in Question : EditStep(q) \/ EditAbort(q)
    <2>1. UNCHANGED <<status, doomed, txn>>
      BY <1>4 DEF EditStep, EditDelete, EditNull, ReplaceOptions, EditAbort
    <2>2. QED
      BY <2>1 DEF ClosersOK, Closing
  <1>5. CASE \E a \in Attempt : Age(a)
    BY <1>5 DEF Age, ClosersOK, Closing
  <1>6. CASE Purge
    <2>1. CASE \E a \in Attempt : PurgeTake(a)
      <3>1. PICK a \in Attempt : PurgeTake(a)
        BY <2>1
      <3>2. \A r \in Request : ~Scoring(r, a)
        BY <3>1 DEF PurgeTake, AttemptLocked, HasAttempt, Actor
      <3>3. QED
        BY <3>1, <3>2 DEF PurgeTake, ClosersOK, Closing, Scoring
    <2>2. CASE PurgeDelete
      <3>1. ASSUME NEW r \in Request, Closing(r)
            PROVE  txn[r].attempt \in Attempt
        BY <3>1, TxnKinds DEF Closing, CompleteTxn
      <3>2. QED
        BY <2>2, <3>1 DEF PurgeDelete, ClosersOK, Closing, TypeOK
    <2>3. CASE \/ PurgeStart
               \/ \E batch \in SUBSET Attempt : PurgeSelect(batch)
               \/ \E a \in Attempt, q \in Question : PurgeSweep(a, q)
               \/ PurgeFinish
               \/ PurgeCrash
      <3>1. doomed' \subseteq doomed /\ UNCHANGED <<status, txn>>
        BY <2>3 DEF PurgeStart, PurgeSelect, PurgeSweep, PurgeFinish,
                    PurgeCrash
      <3>2. QED
        BY <3>1 DEF ClosersOK, Closing
    <2>4. QED
      BY <1>6, <2>1, <2>2, <2>3 DEF Purge, PurgeStep
  <1>7. QED
    BY <1>1, <1>2, <1>3, <1>4, <1>5, <1>6 DEF Next

LEMMA InitClosersOK == Init => ClosersOK
  BY DEF Init, ClosersOK, Closing, Idle

LEMMA ClosersInv == Spec => []ClosersOK
  <1>1. TypeOK /\ ClosersOK /\ [Next]_vars => ClosersOK'
    BY StepClosersOK
  <1>2. QED
    BY <1>1, InitClosersOK, TypeCorrect, PTL DEF Spec

-----------------------------------------------------------------------------
(***************************************************************************)
(* An acknowledged answer is unique, kept, and never refused to a retry.   *)
(*                                                                         *)
(* An answer is claimed once it is recorded, or held by an upsert that is  *)
(* about to commit.  The invariant says how every claim relates to the     *)
(* rows: a recorded one is what its row holds as long as its option is     *)
(* there, and one being written holds the lock of a row that has no option *)
(* yet.  A step that makes a new claim has that lock, so it agrees with    *)
(* all the others.  What a request returns has been recorded before.       *)
(***************************************************************************)

(* r's upsert wrote an answer that is not committed yet                    *)
Writing(r) ==
    /\ txn[r].pc = "commit"
    /\ txn[r].write \in {"insert", "refill"}

(* t belongs to a request that returns an answer stored already            *)
Replays(t) ==
    /\ t.pc \in {"read_options", "commit", "respond"}
    /\ t.stored # NoRow
    /\ t.write \notin {"insert", "refill"}

Claimed(c) ==
    \/ c \in recorded
    \/ \E r \in Request : Writing(r) /\ ClaimOf(txn[r]) = c

(* an option as update_question may have left it                           *)
Known(o) == o.edition <= edition[o.question]

RowClaim(a, q) == [attempt |-> a, question |-> q,
                   option |-> answer[a][q].option,
                   correct |-> answer[a][q].correct]

RowsOK ==
    \A a \in Attempt : \A q \in Rows(a) :
        /\ Exists(a)
        /\ answer[a][q].option # NULL =>
              /\ Live(answer[a][q].option)
              /\ answer[a][q].option.question = q
              /\ answer[a][q].correct = IsCorrect(answer[a][q].option)
              /\ RowClaim(a, q) \in recorded

(* what a request knows, by where it is                                    *)
KnowsOK(t) ==
    /\ status[t.attempt] # "unborn"
    /\ Known(t.option)
    /\ t.pc \notin {"attempt_key", "option_key", "commit"} => t.write = "none"
    /\ t.pc = "attempt_key" => t.write = "insert"
    /\ t.pc = "option_key" => t.write \in {"insert", "refill"}
    /\ t.pc \in {"read_stored", "store", "attempt_key", "option_key"}
          => t.stored = NoRow
    /\ t.stored # NoRow => t.stored.option = t.option
    /\ t.stored # NoRow \/ t.pc \in {"store", "attempt_key", "option_key"}
          => t.option.question = t.question
    /\ t.pc \in {"store", "attempt_key", "option_key"} /\ Live(t.option)
          => t.correct = IsCorrect(t.option)

(* what its upsert holds until it commits                                  *)
HoldsOK(t) ==
    /\ t.write \in {"insert", "refill"}
          => Stored(t.attempt, t.question) = NoRow
    /\ t.write = "insert" => t.question \notin Rows(t.attempt)
    /\ t.write = "refill" => t.question \in Rows(t.attempt)
    /\ t.write = "insert" /\ t.pc \in {"option_key", "commit"}
          => Exists(t.attempt) /\ t.attempt \notin doomed
    /\ t.write \in {"insert", "refill"} /\ t.pc = "commit"
          => /\ Live(t.option) /\ ~Deleting(t.option)
             /\ t.stored.correct = IsCorrect(t.option)

Submits == {"read_stored", "read_options", "store", "attempt_key",
            "option_key", "commit", "respond"}

SubmitsOK ==
    \A r \in Request :
        txn[r].pc \in Submits => KnowsOK(txn[r]) /\ HoldsOK(txn[r])

(* an answer row has one holder: a submit, an edit or the purge            *)
LocksOK ==
    \A x, y \in Actor : \A a \in Attempt, q \in Question :
        HasAnswer(x, a, q) /\ HasAnswer(y, a, q) => x = y

ToldOK ==
    /\ told \subseteq recorded
    /\ \A r \in Request : Replays(txn[r]) => ClaimOf(txn[r]) \in recorded

ClaimsOK ==
    \A c \in Claim : Claimed(c) =>
        /\ status[c.attempt] # "unborn"
        /\ c.option.question = c.question
        /\ Known(c.option)

KeptOK ==
    \A c \in recorded :
        Live(c.option) /\ Exists(c.attempt)
        => answer[c.attempt][c.question] =
              [option |-> c.option, correct |-> c.correct]

AgreeOK ==
    \A c, d \in Claim :
        /\ Claimed(c)
        /\ Claimed(d)
        /\ c.attempt = d.attempt
        /\ c.question = d.question
        /\ c.option.edition = d.option.edition
        => c = d

AnswersOK ==
    /\ TypeOK
    /\ RowsOK
    /\ SubmitsOK
    /\ LocksOK
    /\ ToldOK
    /\ ClaimsOK
    /\ KeptOK
    /\ AgreeOK
-----------------------------------------------------------------------------
(* what the answers depend on besides the requests; clients may learn of   *)
(* answers that are recorded                                               *)
SameData ==
    /\ \A a \in Attempt : Exists(a)' <=> Exists(a)
    /\ \A a \in Attempt : status'[a] = "unborn" <=> status[a] = "unborn"
    /\ UNCHANGED <<answer, edition, key, edit, doomed, swept, recorded>>
    /\ told' \subseteq recorded

(* A claim in flight is well typed.                                        *)
LEMMA ClaimTypeOK ==
    ASSUME TypeOK, NEW r \in Request, Writing(r) \/ Replays(txn[r])
    PROVE  /\ txn[r] \in SubmitTxn
           /\ txn[r].stored \in StoredAnswer
           /\ ClaimOf(txn[r]) \in Claim
  <1>1. txn[r] \in SubmitTxn
    BY TxnKinds DEF Writing, Replays
  <1>2. txn[r].stored \in StoredAnswer
    BY <1>1 DEF Writing, Replays, SubmitTxn
  <1>3. ClaimOf(txn[r]) \in Claim
    BY <1>1, <1>2 DEF ClaimOf, Claim, SubmitTxn, StoredAnswer
  <1>4. QED
    BY <1>1, <1>2, <1>3

LEMMA NoRowStored == NoRow \notin StoredAnswer
  BY ConstantsAssumption DEF ConstantsAssumption, StoredAnswer, AnswerRow

LEMMA NullStored == \A row \in StoredAnswer : row.option # NULL
  BY ConstantsAssumption DEF ConstantsAssumption, StoredAnswer

(* What is known of a request that serves a submit.                        *)
LEMMA SubmitKnows ==
    ASSUME AnswersOK, NEW r \in Request, txn[r].pc \in Submits
    PROVE  KnowsOK(txn[r]) /\ HoldsOK(txn[r])
  BY DEF AnswersOK, SubmitsOK

(* The row lock of a request is that of its upsert.                        *)
LEMMA RequestHas ==
    ASSUME NEW r \in Request, NEW a, NEW q \in Question
    PROVE  HasAnswer(r, a, q) <=> HoldsAnswer(r, a, q)
  BY ConstantsAssumption DEF ConstantsAssumption, HasAnswer

(* The row of an upsert is out of reach of everybody else.                 *)
LEMMA HolderAlone ==
    ASSUME AnswersOK, NEW r \in Request, NEW a \in Attempt, NEW q \in Question,
           HoldsAnswer(r, a, q)
    PROVE  /\ \A s \in Request : HoldsAnswer(s, a, q) => s = r
           /\ a \notin edit[q].nulled
           /\ <<a, q>> \notin swept
  <1>1. r \in Actor /\ HasAnswer(r, a, q) /\ q \in Actor /\ Purger \in Actor
    BY RequestHas DEF Actor
  <1>2. \A y \in Actor : HasAnswer(y, a, q) => y = r
    BY <1>1 DEF AnswersOK, LocksOK
  <1>3. r # q /\ r # Purger
    BY ConstantsAssumption DEF ConstantsAssumption
  <1>4. \A s \in Request : s \in Actor
    BY DEF Actor
  <1>5. QED
    BY <1>1, <1>2, <1>3, <1>4 DEF HasAnswer

LEMMA HolderOnly ==
    ASSUME AnswersOK, NEW r \in Request, NEW a \in Attempt, NEW q \in Question,
           HoldsAnswer(r, a, q)
    PROVE  \A x \in Actor \ {r} : ~HasAnswer(x, a, q)
  <1>1. r \in Actor /\ HasAnswer(r, a, q)
    BY RequestHas DEF Actor
  <1>2. QED
    BY <1>1 DEF AnswersOK, LocksOK

(* An answer being written holds the lock of a row without an option.      *)
LEMMA WriterHolds ==
    ASSUME AnswersOK, NEW s \in Request, Writing(s)
    PROVE  LET c == ClaimOf(txn[s])
           IN  /\ HoldsAnswer(s, c.attempt, c.question)
               /\ Stored(c.attempt, c.question) = NoRow
  <1>1. HoldsOK(txn[s])
    BY SubmitKnows DEF Writing, Submits
  <1>2. QED
    BY <1>1 DEF HoldsOK, Writing, HoldsAnswer, ClaimOf

(* A recorded answer whose option is there is what submit_answer finds.    *)
LEMMA SettledStored ==
    ASSUME AnswersOK, NEW c \in recorded, Live(c.option),
           Exists(c.attempt)
    PROVE  /\ Stored(c.attempt, c.question) =
                 [option |-> c.option, correct |-> c.correct]
           /\ Stored(c.attempt, c.question) # NoRow
  <1> DEFINE row == [option |-> c.option, correct |-> c.correct]
  <1>1. answer[c.attempt][c.question] = row
    BY DEF AnswersOK, KeptOK
  <1>2. row \in StoredAnswer /\ c \in Claim
    BY DEF AnswersOK, TypeOK, Claim, StoredAnswer
  <1>3. QED
    BY <1>1, <1>2, NoRowStored, NullStored DEF Stored, Rows, Claim

(***************************************************************************)
(* One request's handler moves on and leaves the data alone.  If it holds  *)
(* an answer row nobody else does, and what it is going to return has been *)
(* recorded.                                                               *)
(***************************************************************************)
LEMMA MoveOn ==
    ASSUME AnswersOK, TypeOK', SameData,
           NEW r \in Request, NEW u \in Txn, Goto(r, u),
           u.pc \in Submits => KnowsOK(u) /\ HoldsOK(u),
           /\ u.pc \in {"attempt_key", "option_key", "commit"}
           /\ u.write # "none"
           => \A x \in Actor \ {r} : ~HasAnswer(x, u.attempt, u.question),
           Replays(u) => ClaimOf(u) \in recorded
    PROVE  AnswersOK'
  <1> USE DEF AnswersOK, SameData
  <1>1. /\ txn'[r] = u
        /\ \A s \in Request \ {r} : txn'[s] = txn[s]
    BY DEF Goto, TypeOK
  <1>2. RowsOK'
    BY DEF RowsOK, Rows, Live, IsCorrect, RowClaim
  <1>3. SubmitsOK'
    <2> SUFFICES ASSUME NEW s \in Request, (txn[s].pc \in Submits)'
                 PROVE  (KnowsOK(txn[s]) /\ HoldsOK(txn[s]))'
      BY DEF SubmitsOK
    <2>1. KnowsOK(txn'[s]) /\ HoldsOK(txn'[s])
      BY <1>1 DEF SubmitsOK
    <2>2. txn'[s] \in SubmitTxn
      <3>1. txn'[s] \in {Idle} \cup SubmitTxn \cup CompleteTxn
        BY TypeOK' DEF TypeOK
      <3>2. QED
        BY <3>1 DEF Submits, CompleteTxn, Idle
    <2>3. txn'[s].attempt \in Attempt
      BY <2>2 DEF SubmitTxn
    <2>4. KnowsOK(txn[s])'
      BY <2>1, <2>3 DEF KnowsOK, Known, Live, IsCorrect
    <2>5. HoldsOK(txn[s])'
      BY <2>1, <2>3 DEF HoldsOK, Live, IsCorrect, Stored, Rows, Deleting
    <2>6. QED
      BY <2>4, <2>5
  <1>4. LocksOK'
    <2> SUFFICES ASSUME NEW x \in Actor, NEW y \in Actor,
                        NEW a \in Attempt, NEW q \in Question,
                        HasAnswer(x, a, q)', HasAnswer(y, a, q)'
                 PROVE  x = y
      BY DEF LocksOK
    <2>1. ASSUME NEW z \in Actor \ {r}, HasAnswer(z, a, q)'
          PROVE  HasAnswer(z, a, q)
      BY <1>1, <2>1 DEF HoldsAnswer, HasAnswer
    <2>2. ASSUME HasAnswer(r, a, q)'
          PROVE  \A z \in Actor \ {r} : ~HasAnswer(z, a, q)
      <3>1. HoldsAnswer(r, a, q)'
        BY <2>2, ConstantsAssumption DEF HasAnswer, ConstantsAssumption
      <3>2. QED
        BY <1>1, <3>1 DEF HoldsAnswer
    <2>3. QED
      BY <2>1, <2>2 DEF LocksOK
  <1>5. ToldOK'
    BY <1>1 DEF ToldOK, Replays, ClaimOf
  <1> DEFINE New(c) ==
          /\ c = ClaimOf(u)
          /\ u \in SubmitTxn
          /\ u.stored \in StoredAnswer
          /\ KnowsOK(u)
          /\ HoldsOK(u)
          /\ u.pc = "commit"
          /\ u.write \in {"insert", "refill"}
             Old(c) ==
          \/ c \in recorded
          \/ \E s \in Request \ {r} : Writing(s) /\ ClaimOf(txn[s]) = c
  <1>6. ASSUME NEW c \in Claim, Claimed(c)'
        PROVE  Old(c) \/ New(c)
    <2>1. CASE \E s \in Request : (Writing(s) /\ ClaimOf(txn[s]) = c)'
      <3>1. PICK s \in Request : (Writing(s) /\ ClaimOf(txn[s]) = c)'
        BY <2>1
      <3>2. CASE s # r
        BY <3>1, <3>2, <1>1 DEF Writing, ClaimOf
      <3>3. CASE s = r
        <4>1. /\ u.pc = "commit"
              /\ u.write \in {"insert", "refill"}
              /\ c = ClaimOf(u)
          BY <3>1, <3>3, <1>1 DEF Writing, ClaimOf
        <4>2. u \in SubmitTxn /\ u.stored \in StoredAnswer
          BY <4>1 DEF Txn, SubmitTxn, CompleteTxn, Idle
        <4>3. QED
          BY <4>1, <4>2 DEF Submits
      <3>4. QED
        BY <3>2, <3>3
    <2>2. QED
      BY <1>6, <2>1 DEF Claimed
  <1>7. ASSUME NEW c \in Claim, New(c)
        PROVE  /\ status[c.attempt] # "unborn"
               /\ c.option.question = c.question
               /\ Known(c.option)
               /\ c.attempt = u.attempt /\ c.question = u.question
               /\ c.option = u.option
    <2>1. u.stored # NoRow
      BY <1>7, NoRowStored
    <2>2. QED
      BY <1>7, <2>1 DEF KnowsOK, ClaimOf, StoredAnswer
  <1>8. \A c \in Claim : Old(c) => Claimed(c)
    BY DEF Claimed
  <1>9. ASSUME NEW c \in Claim, NEW d \in Claim, New(c), Old(d),
               c.attempt = d.attempt, c.question = d.question,
               c.option.edition = d.option.edition
        PROVE  FALSE
    <2>1. d.option.question = d.question /\ c.option.question = c.question
      BY <1>7, <1>8, <1>9 DEF ClaimsOK
    <2>2. /\ d.attempt = u.attempt /\ d.question = u.question
          /\ u.attempt \in Attempt /\ u.question \in Question
          /\ c.option = u.option
      BY <1>7, <1>9 DEF SubmitTxn
    <2>3. /\ Live(c.option)
          /\ Stored(u.attempt, u.question) = NoRow
          /\ \A x \in Actor \ {r} : ~HasAnswer(x, u.attempt, u.question)
          /\ Exists(u.attempt)
      <3>1. HoldsOK(u) /\ u.pc = "commit" /\ u.write \in {"insert", "refill"}
        BY <1>9
      <3>2. u.write = "refill" => Exists(u.attempt)
        BY <2>2, <3>1 DEF HoldsOK, RowsOK
      <3>3. QED
        BY <2>2, <3>1, <3>2 DEF HoldsOK
    <2>4. Live(d.option)
      BY <1>9, <2>1, <2>3 DEF Live
    <2>5. CASE d \in recorded
      BY <2>2, <2>3, <2>4, <2>5, SettledStored
    <2>6. CASE \E s \in Request \ {r} : Writing(s) /\ ClaimOf(txn[s]) = d
      <3>1. PICK s \in Request \ {r} : Writing(s) /\ ClaimOf(txn[s]) = d
        BY <2>6
      <3>2. HasAnswer(s, u.attempt, u.question)
        BY <2>2, <3>1, WriterHolds, RequestHas
      <3>3. QED
        BY <2>3, <3>1, <3>2 DEF Actor
    <2>7. QED
      BY <1>9, <2>5, <2>6
  <1> HIDE DEF New
  <1>10. ClaimsOK'
    <2> HIDE DEF Old
    <2>1. QED
      BY <1>6, <1>7, <1>8 DEF ClaimsOK, Known, Claim
  <1>11. KeptOK'
    BY DEF KeptOK, Live, TypeOK, Claim
  <1>12. AgreeOK'
    <2> SUFFICES ASSUME NEW c \in Claim, NEW d \in Claim,
                        Claimed(c)', Claimed(d)',
                        c.attempt = d.attempt, c.question = d.question,
                        c.option.edition = d.option.edition
                 PROVE  c = d
      BY DEF AgreeOK
    <2> HIDE DEF Old
    <2>1. CASE Old(c) /\ Old(d)
      BY <1>8, <2>1 DEF AgreeOK
    <2>2. CASE New(c) /\ New(d)
      BY <2>2 DEF New
    <2>3. CASE New(c) /\ Old(d)
      BY <2>3, <1>9
    <2>4. CASE Old(c) /\ New(d)
      BY <2>4, <1>9
    <2>5. QED
      BY <1>6, <2>1, <2>2, <2>3, <2>4
  <1>13. QED
    BY <1>2, <1>3, <1>4, <1>5, <1>10, <1>11, <1>12

(* A request ends, or is one of complete_attempt.                          *)
LEMMA StandDown ==
    ASSUME AnswersOK, TypeOK', SameData, NEW r \in Request, NEW u \in Txn,
           Goto(r, u), u.pc \notin Submits
    PROVE  AnswersOK'
  BY MoveOn DEF Submits, Replays

LEMMA CompleteAnswersOK ==
    ASSUME AnswersOK, ClosersOK, TypeOK', NEW r \in Request,
           \/ CompleteLock(r)
           \/ CompleteReadAnswers(r)
           \/ CompleteClose(r)
           \/ CompleteTrack(r)
           \/ \E a \in Attempt : CompleteBegin(r, a)
    PROVE  AnswersOK'
  <1> DEFINE t == txn[r]
             n == Cardinality(CorrectRows(t.attempt))
  <1>1. TypeOK /\ told \subseteq recorded
    BY DEF AnswersOK, ToldOK
  <1>2. CASE \E a \in Attempt : CompleteBegin(r, a)
    <2>1. PICK a \in Attempt : CompleteBegin(r, a)
      BY <1>2
    <2> DEFINE u == [pc |-> "lock", attempt |-> a, score |-> 0]
    <2>2. Goto(r, u) /\ SameData
      BY <1>1, <2>1 DEF CompleteBegin, SameData, Exists
    <2>3. u \in Txn /\ u.pc \notin Submits
      BY DEF Txn, CompleteTxn, Submits
    <2>4. QED
      BY <2>2, <2>3, StandDown
  <1>3. ASSUME \/ CompleteLock(r)
               \/ CompleteReadAnswers(r)
               \/ CompleteClose(r)
               \/ CompleteTrack(r)
        PROVE  AnswersOK'
    <2>1. t \in CompleteTxn
      BY <1>1, <1>3, TxnKinds
         DEF CompleteLock, CompleteReadAnswers, CompleteClose, CompleteTrack
    <2>2. SameData
      <3>1. CASE CompleteClose(r)
        <4>1. t.attempt \in Attempt /\ status[t.attempt] = "open"
          BY <2>1, <3>1 DEF CompleteTxn, CompleteClose, ClosersOK, Closing
        <4>2. status' = [status EXCEPT ![t.attempt] = "completed"]
          BY <3>1 DEF CompleteClose
        <4>3. QED
          BY <1>1, <3>1, <4>1, <4>2
             DEF CompleteClose, SameData, Exists, TypeOK
      <3>2. CASE CompleteLock(r) \/ CompleteReadAnswers(r) \/ CompleteTrack(r)
        BY <1>1, <3>2 DEF CompleteLock, CompleteReadAnswers, CompleteTrack,
                          SameData, Exists
      <3>3. QED
        BY <1>3, <3>1, <3>2
    <2>3. \/ Goto(r, Idle)
          \/ Goto(r, [t EXCEPT !.pc = "read_answers"])
          \/ Goto(r, [t EXCEPT !.pc = "close", !.score = n])
          \/ Goto(r, [t EXCEPT !.pc = "track"])
      BY <1>3 DEF CompleteLock, CompleteReadAnswers, CompleteClose,
                  CompleteTrack, Finish
    <2>4. /\ Idle.pc \notin Submits
          /\ [t EXCEPT !.pc = "read_answers"].pc \notin Submits
          /\ [t EXCEPT !.pc = "close", !.score = n].pc \notin Submits
          /\ [t EXCEPT !.pc = "track"].pc \notin Submits
      BY <2>1 DEF CompleteTxn, Submits, Idle
    <2>5. PICK u : Goto(r, u) /\ u.pc \notin Submits
      BY <2>3, <2>4
    <2>6. u \in Txn
      BY <1>1, <2>5, TypeOK', GotoSets DEF TypeOK, Txn
    <2>7. QED
      BY <2>2, <2>5, <2>6, StandDown
  <1>4. QED
    BY <1>2, <1>3

LEMMA LoadAnswersOK ==
    ASSUME AnswersOK, TypeOK', NEW r \in Request,
           NEW a \in Attempt, NEW q \in Question, NEW p \in Question,
           NEW s \in Slot, NEW e \in 0..edition[p],
           SubmitLoad(r, a, q, [question |-> p, edition |-> e, slot |-> s])
    PROVE  AnswersOK'
  <1> DEFINE u == [pc |-> "read_stored", attempt |-> a, question |-> q,
                   option |-> [question |-> p, edition |-> e, slot |-> s],
                   closed |-> status[a] = "completed",
                   stored |-> NoRow, correct |-> FALSE, write |-> "none"]
  <1>1. TypeOK /\ told \subseteq recorded
    BY DEF AnswersOK, ToldOK
  <1>2. Goto(r, u) /\ SameData
    BY <1>1 DEF SubmitLoad, SameData, Exists
  <1>3. u \in Txn
    BY <1>1, <1>2, TypeOK', GotoSets DEF TypeOK, Txn
  <1>4. KnowsOK(u)
    BY <1>1 DEF SubmitLoad, KnowsOK, Exists, Known, TypeOK
  <1>5. HoldsOK(u)
    BY DEF HoldsOK
  <1> HIDE DEF u
  <1>6. u.pc = "read_stored" /\ u.stored = NoRow
    BY DEF u
  <1>7. QED
    BY <1>2, <1>3, <1>4, <1>5, <1>6, MoveOn DEF Replays

(* The statements of submit_answer up to its commit.                       *)
LEMMA ContinueAnswersOK ==
    ASSUME AnswersOK, TypeOK', SameData, NEW r \in Request, NEW u,
           Goto(r, u), Continues(r, u)
    PROVE  AnswersOK'
  <1> DEFINE t == txn[r]
             row == answer[t.attempt][t.question]
  <1>1. TypeOK
    BY DEF AnswersOK
  <1>2. u \in Txn
    BY <1>1, TypeOK', GotoSets DEF TypeOK, Txn
  <1>3. t.pc \in Submits
    BY DEF Continues, SubmitReadStored, SubmitReadOptions, StoreInsert,
           StoreRefill, StoreConflict, StoreAttemptKey, StoreOptionKey,
           ReadyToStore, Submits
  <1>4. KnowsOK(t) /\ HoldsOK(t)
    BY <1>3, SubmitKnows
  <1>5. t \in SubmitTxn
    BY <1>1, <1>3, TxnKinds DEF Submits
  <1>6. t.attempt \in Attempt /\ t.question \in Question
    BY <1>5 DEF SubmitTxn
  <1>7. ASSUME t.question \in Rows(t.attempt), row.option # NULL
        PROVE  /\ row.option.question = t.question
               /\ Exists(t.attempt)
               /\ RowClaim(t.attempt, t.question) \in recorded
    BY <1>6, <1>7 DEF AnswersOK, RowsOK
  <1>8. CASE SubmitReadStored(r) /\ u = Reread(t)
             /\ ~Conflicts(t, Stored(t.attempt, t.question))
    <2> DEFINE found == Stored(t.attempt, t.question)
    <2>1. t.pc = "read_stored" /\ t.write = "none"
      BY <1>4, <1>8 DEF SubmitReadStored, KnowsOK
    <2>2. /\ u.pc = "read_options" /\ u.stored = found /\ u.write = "none"
          /\ SameRequest(t, u)
      BY <1>5, <1>8, <2>1, RereadFields
    <2>3. ASSUME found # NoRow
          PROVE  /\ t.question \in Rows(t.attempt)
                 /\ found = row
                 /\ row.option # NULL
      BY <2>3 DEF Stored
    <2>4. found # NoRow => found.option = t.option
      BY <1>8 DEF Conflicts
    <2>5. KnowsOK(u)
      BY <1>4, <1>7, <2>2, <2>3, <2>4 DEF KnowsOK, SameRequest, Known
    <2>6. HoldsOK(u)
      BY <2>2 DEF HoldsOK
    <2>7. u.stored # NoRow => ClaimOf(u) \in recorded
      BY <1>7, <2>2, <2>3 DEF ClaimOf, RowClaim, SameRequest
    <2>8. QED
      BY <1>2, <2>2, <2>5, <2>6, <2>7, MoveOn DEF Replays
  <1>9. CASE SubmitReadOptions(r) /\ u = ToStore(t) /\ Belongs(t)
             /\ t.stored = NoRow
    <2>1. t.pc = "read_options" /\ t.write = "none"
      BY <1>4, <1>9 DEF SubmitReadOptions, KnowsOK
    <2>2. /\ u.pc = "store" /\ u.stored = NoRow /\ u.write = "none"
          /\ u.correct = IsCorrect(t.option)
          /\ SameRequest(t, u)
      BY <1>5, <1>9, <2>1, ToStoreFields
    <2>3. KnowsOK(u)
      BY <1>4, <1>9, <2>2 DEF KnowsOK, SameRequest, Known, Belongs
    <2>4. HoldsOK(u)
      BY <2>2 DEF HoldsOK
    <2>5. QED
      BY <1>2, <2>2, <2>3, <2>4, MoveOn DEF Replays
  <1>10. CASE SubmitReadOptions(r) /\ u = ToCommit(t) /\ t.stored # NoRow
    <2>1. t.pc = "read_options" /\ t.write = "none"
      BY <1>4, <1>10 DEF SubmitReadOptions, KnowsOK
    <2>2. /\ u.pc = "commit" /\ u.stored = t.stored /\ u.write = "none"
          /\ SameRequest(t, u)
      BY <1>5, <1>10, <2>1, ToCommitFields
    <2>3. KnowsOK(u)
      BY <1>4, <1>10, <2>2 DEF KnowsOK, SameRequest, Known
    <2>4. HoldsOK(u)
      BY <2>2 DEF HoldsOK
    <2>5. ClaimOf(u) \in recorded
      <3>1. Replays(t) /\ ClaimOf(u) = ClaimOf(t)
        BY <1>10, <2>1, <2>2 DEF Replays, ClaimOf, SameRequest
      <3>2. QED
        BY <3>1 DEF AnswersOK, ToldOK
    <2>6. QED
      BY <1>2, <2>2, <2>3, <2>4, <2>5, MoveOn
  <1>11. CASE StoreInsert(r) /\ u = ToWrite(t, "attempt_key", "insert")
    <2>1. /\ t.pc = "store"
          /\ ~AnswerLocked(t.attempt, t.question)
          /\ row = NoRow
      BY <1>11 DEF StoreInsert, ReadyToStore
    <2>2. /\ u.pc = "attempt_key" /\ u.stored = t.stored
          /\ u.correct = t.correct /\ u.write = "insert"
          /\ SameRequest(t, u)
      BY <1>5, <1>11, ToWriteFields
    <2>3. KnowsOK(u)
      BY <1>4, <2>1, <2>2
         DEF KnowsOK, SameRequest, Known, Live, IsCorrect
    <2>4. HoldsOK(u)
      BY <1>6, <2>1, <2>2 DEF HoldsOK, SameRequest, Stored, Rows
    <2>5. QED
      BY <1>2, <2>1, <2>2, <2>3, <2>4, MoveOn
         DEF SameRequest, AnswerLocked, Replays
  <1>12. CASE StoreRefill(r) /\ u = ToWrite(t, "option_key", "refill")
    <2>1. /\ t.pc = "store"
          /\ ~AnswerLocked(t.attempt, t.question)
          /\ row # NoRow /\ row.option = NULL
      BY <1>12 DEF StoreRefill, ReadyToStore, Vacant
    <2>2. /\ u.pc = "option_key" /\ u.stored = t.stored
          /\ u.correct = t.correct /\ u.write = "refill"
          /\ SameRequest(t, u)
      BY <1>5, <1>12, ToWriteFields
    <2>3. KnowsOK(u)
      BY <1>4, <2>1, <2>2
         DEF KnowsOK, SameRequest, Known, Live, IsCorrect
    <2>4. HoldsOK(u)
      BY <1>6, <2>1, <2>2 DEF HoldsOK, SameRequest, Stored, Rows
    <2>5. QED
      BY <1>2, <2>1, <2>2, <2>3, <2>4, MoveOn
         DEF SameRequest, AnswerLocked, Replays
  <1>13. CASE StoreConflict(r) /\ u = ToHeld(t, row) /\ row.option = t.option
    <2>1. /\ t.pc = "store"
          /\ ~AnswerLocked(t.attempt, t.question)
          /\ row # NoRow /\ row.option # NULL
      BY <1>13 DEF StoreConflict, ReadyToStore, Vacant
    <2>2. /\ u.pc = "commit" /\ u.stored = row /\ u.write = "held"
          /\ SameRequest(t, u)
      BY <1>5, <1>13, ToHeldFields
    <2>3. KnowsOK(u)
      BY <1>4, <1>13, <2>1, <2>2 DEF KnowsOK, SameRequest, Known
    <2>4. HoldsOK(u)
      BY <2>2 DEF HoldsOK
    <2>5. ClaimOf(u) \in recorded
      BY <1>6, <1>7, <2>1, <2>2 DEF ClaimOf, RowClaim, SameRequest, Rows
    <2>6. QED
      BY <1>2, <2>1, <2>2, <2>3, <2>4, <2>5, MoveOn
         DEF SameRequest, AnswerLocked
  <1>14. CASE StoreAttemptKey(r) /\ u = ToOption(t) /\ Exists(t.attempt)
    <2>1. /\ t.pc = "attempt_key" /\ t.write = "insert"
          /\ t.attempt \notin doomed
      BY <1>4, <1>14
         DEF StoreAttemptKey, KnowsOK, AttemptLocked, HasAttempt, Actor
    <2>2. /\ u.pc = "option_key" /\ u.stored = t.stored
          /\ u.correct = t.correct /\ u.write = "insert"
          /\ SameRequest(t, u)
      BY <1>5, <1>14, <2>1, ToOptionFields
    <2>3. KnowsOK(u)
      BY <1>4, <2>1, <2>2
         DEF KnowsOK, SameRequest, Known, Live, IsCorrect
    <2>4. HoldsOK(u)
      BY <1>4, <1>14, <2>1, <2>2
         DEF HoldsOK, SameRequest, Stored, Rows, Exists
    <2>5. \A x \in Actor \ {r} : ~HasAnswer(x, t.attempt, t.question)
      BY <1>6, <2>1, HolderOnly DEF HoldsAnswer
    <2>6. QED
      BY <1>2, <2>2, <2>3, <2>4, <2>5, MoveOn DEF SameRequest, Replays
  <1>15. CASE StoreOptionKey(r) /\ u = ToWritten(t) /\ Live(t.option)
    <2>1. /\ t.pc = "option_key" /\ t.write \in {"insert", "refill"}
          /\ ~Deleting(t.option)
      BY <1>4, <1>15 DEF StoreOptionKey, KnowsOK
    <2>2. /\ u.pc = "commit" /\ u.stored = Written(t)
          /\ u.write = t.write
          /\ SameRequest(t, u)
      BY <1>5, <1>15, ToWrittenFields
    <2>3. KnowsOK(u)
      BY <1>4, <2>1, <2>2 DEF KnowsOK, SameRequest, Known, Written
    <2>4. u.stored.correct = IsCorrect(t.option)
      BY <1>4, <1>15, <2>1, <2>2 DEF KnowsOK, Written
    <2>5. HoldsOK(u)
      BY <1>4, <1>15, <2>1, <2>2, <2>4
         DEF HoldsOK, SameRequest, Stored, Rows, Exists, Live, Deleting,
             IsCorrect
    <2>6. \A x \in Actor \ {r} : ~HasAnswer(x, t.attempt, t.question)
      BY <1>6, <2>1, HolderOnly DEF HoldsAnswer
    <2>7. QED
      BY <1>2, <2>1, <2>2, <2>3, <2>5, <2>6, MoveOn DEF SameRequest, Replays
  <1>16. QED
    BY <1>8, <1>9, <1>10, <1>11, <1>12, <1>13, <1>14, <1>15 DEF Continues

(* The client learns of an answer that has been recorded.                  *)
LEMMA RespondAnswersOK ==
    ASSUME AnswersOK, TypeOK', NEW r \in Request, SubmitRespond(r)
    PROVE  AnswersOK'
  <1>1. Replays(txn[r])
    <2>1. txn[r].pc = "respond" /\ txn[r] \in SubmitTxn /\ KnowsOK(txn[r])
      BY TxnKinds, SubmitKnows DEF SubmitRespond, AnswersOK, Submits
    <2>2. QED
      BY <2>1 DEF Replays, KnowsOK, SubmitTxn
  <1>2. told \subseteq recorded /\ ClaimOf(txn[r]) \in recorded
    BY <1>1 DEF AnswersOK, ToldOK
  <1>3. SameData /\ Goto(r, Idle)
    BY <1>2 DEF SubmitRespond, SameData, Exists, Finish
  <1>4. QED
    BY <1>3, StandDown DEF Txn, Idle, Submits

(* The commit makes the answer visible and records it.                     *)
LEMMA CommitAnswersOK ==
    ASSUME AnswersOK, TypeOK', NEW r \in Request, SubmitCommit(r)
    PROVE  AnswersOK'
  <1> DEFINE t == txn[r]
             a == t.attempt
             q == t.question
             u == ToRespond(t)
             claim == ClaimOf(t)
  <1>1. TypeOK
    BY DEF AnswersOK
  <1>2. /\ t \in SubmitTxn /\ t.stored \in StoredAnswer
        /\ t.pc = "commit" /\ t.stored # NoRow
    BY <1>1, TxnKinds DEF SubmitCommit, SubmitTxn
  <1>3. a \in Attempt /\ q \in Question
    BY <1>2 DEF SubmitTxn
  <1>4. KnowsOK(t) /\ HoldsOK(t)
    BY <1>2, SubmitKnows DEF Submits
  <1>5. /\ txn'[r] = u
        /\ \A s \in Request \ {r} : txn'[s] = txn[s]
    BY <1>1, GotoSets DEF SubmitCommit, ToRespond
  <1>6. /\ UNCHANGED <<status, edition, key, edit, doomed, swept, told>>
        /\ recorded' = IF Writing(r) THEN recorded \cup {claim} ELSE recorded
    BY <1>2 DEF SubmitCommit, Writing
  <1>7. /\ claim.attempt = a /\ claim.question = q
        /\ claim.option = t.option
        /\ t.stored = [option |-> claim.option, correct |-> claim.correct]
    BY <1>2, <1>4 DEF ClaimOf, KnowsOK, StoredAnswer
  <1>8. IF Writing(r)
        THEN answer' = [answer EXCEPT ![a][q] = t.stored]
        ELSE answer' = answer
    BY <1>2 DEF SubmitCommit, Writing
  <1>9. /\ u.pc = "respond" /\ u.stored = t.stored /\ u.write = "none"
        /\ SameRequest(t, u)
        /\ ClaimOf(u) = claim
    BY <1>2, ToRespondFields DEF ClaimOf, SameRequest
  <1>10. ASSUME Writing(r)
         PROVE  /\ HoldsAnswer(r, a, q)
                /\ Stored(a, q) = NoRow
                /\ Exists(a)
    BY <1>2, <1>3, <1>4, <1>10
       DEF Writing, HoldsAnswer, HoldsOK, AnswersOK, RowsOK
  <1>11. claim \in recorded'
    <2>1. ~Writing(r) => Replays(t)
      BY <1>2 DEF Writing, Replays
    <2>2. QED
      BY <1>6, <2>1 DEF AnswersOK, ToldOK
  <1> HIDE DEF u, claim
  <1>12. ASSUME NEW c \in Claim, Claimed(c)'
         PROVE  Claimed(c)
    <2>1. Writing(r) => Claimed(claim)
      BY DEF Claimed, claim
    <2>2. c \in recorded' => Claimed(c)
      BY <1>6, <2>1 DEF Claimed
    <2>3. (\E s \in Request : Writing(s) /\ ClaimOf(txn[s]) = c)' => Claimed(c)
      BY <1>5, <1>9 DEF Claimed, Writing, ClaimOf
    <2>4. QED
      BY <1>12, <2>2, <2>3 DEF Claimed
  <1>13. \A b \in Attempt, p \in Question :
            ~Writing(r) \/ b # a \/ p # q => answer'[b][p] = answer[b][p]
    BY <1>1, <1>3, <1>8 DEF TypeOK
  <1>14. Writing(r) => answer'[a][q] = t.stored
    BY <1>1, <1>3, <1>8 DEF TypeOK
  <1>15. RowsOK'
    <2> SUFFICES ASSUME NEW b \in Attempt, NEW p \in Rows(b)'
                 PROVE  LET row == answer'[b][p]
                        IN  /\ Exists(b)
                            /\ row.option # NULL =>
                                  /\ Live(row.option)
                                  /\ row.option.question = p
                                  /\ row.correct = IsCorrect(row.option)
                                  /\ RowClaim(b, p)' \in recorded'
      BY <1>6 DEF RowsOK, Exists, Live, IsCorrect
    <2>1. p \in Question
      BY DEF Rows
    <2>2. CASE Writing(r) /\ b = a /\ p = q
      <3>1. RowClaim(b, p)' = claim
        BY <1>14, <2>2 DEF RowClaim, ClaimOf, claim
      <3>2. /\ Live(t.option) /\ t.stored.correct = IsCorrect(t.option)
            /\ t.stored.option = t.option /\ t.option.question = q
        BY <1>2, <1>4, <2>2 DEF KnowsOK, HoldsOK, Writing
      <3>3. QED
        BY <1>10, <1>11, <1>14, <2>2, <3>1, <3>2
    <2>3. CASE ~(Writing(r) /\ b = a /\ p = q)
      <3>1. answer'[b][p] = answer[b][p] /\ p \in Rows(b)
        BY <1>13, <2>1, <2>3 DEF Rows
      <3>2. RowClaim(b, p)' = RowClaim(b, p) /\ recorded \subseteq recorded'
        BY <1>6, <3>1 DEF RowClaim
      <3>3. QED
        BY <3>1, <3>2 DEF AnswersOK, RowsOK
    <2>4. QED
      BY <2>2, <2>3
  <1>16. SubmitsOK'
    <2> SUFFICES ASSUME NEW s \in Request, (txn[s].pc \in Submits)'
                 PROVE  (KnowsOK(txn[s]) /\ HoldsOK(txn[s]))'
      BY DEF SubmitsOK
    <2>1. CASE s = r
      <3>1. KnowsOK(txn[r])'
        BY <1>2, <1>4, <1>5, <1>6, <1>9 DEF KnowsOK, Known, SameRequest
      <3>2. HoldsOK(txn[r])'
        BY <1>5, <1>9 DEF HoldsOK
      <3>3. QED
        BY <2>1, <3>1, <3>2
    <2>2. CASE s # r
      <3>1. txn'[s] = txn[s]
        BY <1>5, <2>2
      <3>2. KnowsOK(txn[s]) /\ HoldsOK(txn[s]) /\ txn[s] \in SubmitTxn
        BY <1>1, <3>1, SubmitKnows, TxnKinds DEF Submits
      <3>3. txn[s].attempt \in Attempt /\ txn[s].question \in Question
        BY <3>2 DEF SubmitTxn
      <3>4. KnowsOK(txn[s])'
        BY <1>6, <3>1, <3>2 DEF KnowsOK, Known, Live, IsCorrect
      <3>5. txn[s].write \in {"insert", "refill"} =>
               answer'[txn[s].attempt][txn[s].question] =
                  answer[txn[s].attempt][txn[s].question]
        <4>1. CASE Writing(r) /\ txn[s].attempt = a /\ txn[s].question = q
                   /\ txn[s].write \in {"insert", "refill"}
          <5>1. HoldsAnswer(s, a, q)
            BY <3>2, <4>1 DEF KnowsOK, HoldsAnswer
          <5>2. QED
            BY <1>3, <1>10, <2>2, <4>1, <5>1, HolderAlone
        <4>2. QED
          BY <1>13, <3>3, <4>1
      <3>6. HoldsOK(txn[s])'
        BY <1>6, <3>1, <3>2, <3>3, <3>5
           DEF HoldsOK, Exists, Live, IsCorrect, Stored, Rows, Deleting
      <3>7. QED
        BY <3>4, <3>6
    <2>3. QED
      BY <2>1, <2>2
  <1>17. LocksOK'
    <2>1. ASSUME NEW x \in Actor, NEW b \in Attempt, NEW p \in Question,
                 HasAnswer(x, b, p)'
          PROVE  HasAnswer(x, b, p)
      BY <1>5, <1>6, <1>9, <2>1 DEF HasAnswer, HoldsAnswer
    <2>2. QED
      BY <2>1 DEF AnswersOK, LocksOK
  <1>18. ToldOK'
    <2>1. told' \subseteq recorded'
      BY <1>6 DEF AnswersOK, ToldOK
    <2>2. ASSUME NEW s \in Request, Replays(txn[s])'
          PROVE  ClaimOf(txn'[s]) \in recorded'
      <3>1. CASE s = r
        BY <1>5, <1>9, <1>11, <3>1
      <3>2. CASE s # r
        BY <1>5, <1>6, <2>2, <3>2 DEF AnswersOK, ToldOK, Replays
      <3>3. QED
        BY <3>1, <3>2
    <2>3. QED
      BY <2>1, <2>2 DEF ToldOK, ClaimOf
  <1>19. ClaimsOK'
    BY <1>6, <1>12 DEF AnswersOK, ClaimsOK, Known
  <1>20. KeptOK'
    <2> SUFFICES ASSUME NEW c \in recorded', Live(c.option), Exists(c.attempt)
                 PROVE  answer'[c.attempt][c.question] =
                           [option |-> c.option, correct |-> c.correct]
      BY <1>6 DEF KeptOK, Live, Exists
    <2>1. c \in Claim
      BY TypeOK' DEF TypeOK
    <2>2. c.attempt \in Attempt /\ c.question \in Question
      BY <2>1 DEF Claim
    <2>3. CASE c \in recorded
      <3>1. /\ Stored(c.attempt, c.question) # NoRow
            /\ answer[c.attempt][c.question] =
                  [option |-> c.option, correct |-> c.correct]
        BY <2>3, SettledStored DEF AnswersOK, KeptOK
      <3>2. ~(Writing(r) /\ c.attempt = a /\ c.question = q)
        BY <1>10, <3>1
      <3>3. QED
        BY <1>13, <2>2, <3>1, <3>2
    <2>4. CASE c = claim /\ Writing(r)
      BY <1>7, <1>14, <2>4
    <2>5. QED
      BY <1>6, <2>3, <2>4
  <1>21. AgreeOK'
    BY <1>12 DEF AnswersOK, AgreeOK
  <1>22. QED
    BY <1>15, <1>16, <1>17, <1>18, <1>19, <1>20, <1>21 DEF AnswersOK

(* Neither the rows nor the requests change.                               *)
LEMMA SameAnswers ==
    ASSUME AnswersOK, TypeOK', SubmitsOK', LocksOK',
           UNCHANGED <<status, answer, edition, key, txn, recorded, told>>
    PROVE  AnswersOK'
  <1>1. RowsOK' /\ KeptOK'
    BY DEF AnswersOK, RowsOK, Rows, Exists, Live, IsCorrect, RowClaim, KeptOK
  <1>2. \A c : Claimed(c)' <=> Claimed(c)
    BY DEF Claimed, Writing, ClaimOf
  <1>3. ToldOK' /\ ClaimsOK' /\ AgreeOK'
    BY <1>2 DEF AnswersOK, ToldOK, Replays, ClaimOf, ClaimsOK, Known, AgreeOK
  <1>4. QED
    BY <1>1, <1>3 DEF AnswersOK

(* An edit deletes no option an upsert has checked, and sets no row to     *)
(* NULL that another one holds.                                            *)
LEMMA EditAnswersOK ==
    ASSUME AnswersOK, TypeOK', NEW q \in Question,
           \/ \E s \in Slot : EditDelete(q, s)
           \/ \E a \in Attempt : EditNull(q, a)
           \/ EditAbort(q)
    PROVE  AnswersOK'
  <1>1. /\ UNCHANGED <<status, answer, edition, key, txn, recorded, told,
                       doomed, swept>>
        /\ \A p \in Question \ {q} : edit'[p] = edit[p]
        /\ TypeOK
    BY DEF EditDelete, EditNull, EditAbort, AnswersOK, TypeOK
  <1>2. CASE \E s \in Slot : EditDelete(q, s)
    <2>1. PICK s \in Slot : EditDelete(q, s)
      BY <1>2
    <2>2. /\ edit'[q].deleted = edit[q].deleted \cup {s}
          /\ edit'[q].nulled = edit[q].nulled
      BY <1>1, <2>1 DEF EditDelete, TypeOK, Edit
    <2>3. SubmitsOK'
      <3> SUFFICES ASSUME NEW r \in Request, txn[r].pc \in Submits
                   PROVE  (KnowsOK(txn[r]) /\ HoldsOK(txn[r]))'
        BY <1>1 DEF SubmitsOK
      <3> DEFINE t == txn[r]
      <3>1. KnowsOK(t) /\ HoldsOK(t) /\ t \in SubmitTxn
        BY <1>1, SubmitKnows, TxnKinds DEF Submits
      <3>2. /\ t.option \in Option
            /\ t.option = [question |-> t.option.question,
                           edition |-> t.option.edition,
                           slot |-> t.option.slot]
            /\ t.option.question \in Question
        BY <3>1 DEF SubmitTxn, Option
      <3>3. ASSUME t.write \in {"insert", "refill"}, t.pc = "commit"
            PROVE  ~Deleting(t.option)'
        <4>1. /\ ~Deleting(t.option) /\ Live(t.option)
              /\ SharesOption(r, t.option)
          BY <3>1, <3>3 DEF HoldsOK, SharesOption
        <4>2. t.option.question = q => t.option.slot # s
          BY <2>1, <3>2, <4>1 DEF EditDelete, Live
        <4>3. QED
          BY <1>1, <2>2, <3>2, <4>1, <4>2 DEF Deleting, Live
      <3>4. KnowsOK(t)'
        BY <1>1, <3>1 DEF KnowsOK, Known, Live, IsCorrect
      <3>5. HoldsOK(t)'
        BY <1>1, <3>1, <3>3 DEF HoldsOK, Exists, Live, IsCorrect, Stored, Rows
      <3>6. QED
        BY <3>4, <3>5
    <2>4. \A x \in Actor, a \in Attempt, p \in Question :
             HasAnswer(x, a, p)' => HasAnswer(x, a, p)
      BY <1>1, <2>2 DEF HasAnswer, HoldsAnswer
    <2>5. LocksOK'
      BY <2>4 DEF AnswersOK, LocksOK
    <2>6. QED
      BY <1>1, <2>3, <2>5, SameAnswers
  <1>3. CASE (\E a \in Attempt : EditNull(q, a)) \/ EditAbort(q)
    <2>1. edit'[q].deleted \subseteq edit[q].deleted
      BY <1>1, <1>3 DEF EditNull, EditAbort, TypeOK, Edit, NoEdit
    <2>2. SubmitsOK'
      <3>1. \A o \in Option : Deleting(o)' => Deleting(o)
        BY <1>1, <2>1 DEF Deleting, Live, Option
      <3> SUFFICES ASSUME NEW r \in Request, txn[r].pc \in Submits
                   PROVE  (KnowsOK(txn[r]) /\ HoldsOK(txn[r]))'
        BY <1>1 DEF SubmitsOK
      <3>2. /\ KnowsOK(txn[r]) /\ HoldsOK(txn[r])
            /\ txn[r].option \in Option
        BY <1>1, SubmitKnows, TxnKinds DEF Submits, SubmitTxn
      <3>3. KnowsOK(txn[r])'
        BY <1>1, <3>2 DEF KnowsOK, Known, Live, IsCorrect
      <3>4. HoldsOK(txn[r])'
        BY <1>1, <3>1, <3>2 DEF HoldsOK, Exists, Live, IsCorrect, Stored, Rows
      <3>5. QED
        BY <3>3, <3>4
    <2>3. LocksOK'
      <3>1. CASE EditAbort(q)
        <4>1. edit'[q].nulled = {}
          BY <1>1, <3>1 DEF EditAbort, TypeOK, NoEdit
        <4>2. \A x \in Actor, a \in Attempt, p \in Question :
                 HasAnswer(x, a, p)' => HasAnswer(x, a, p)
          BY <1>1, <4>1 DEF HasAnswer, HoldsAnswer
        <4>3. QED
          BY <4>2 DEF AnswersOK, LocksOK
      <3>2. CASE \E a \in Attempt : EditNull(q, a)
        <4>1. PICK a \in Attempt : EditNull(q, a)
          BY <3>2
        <4>2. /\ edit'[q].nulled = edit[q].nulled \cup {a}
              /\ \A x \in Actor : ~HasAnswer(x, a, q)
          BY <1>1, <4>1 DEF EditNull, TypeOK, Edit, AnswerLocked
        <4>3. ASSUME NEW x \in Actor, NEW b \in Attempt, NEW p \in Question,
                     HasAnswer(x, b, p)'
              PROVE  HasAnswer(x, b, p) \/ (x = q /\ b = a /\ p = q)
          BY <1>1, <4>2, <4>3 DEF HasAnswer, HoldsAnswer
        <4>4. QED
          BY <4>2, <4>3 DEF AnswersOK, LocksOK
      <3>3. QED
        BY <1>3, <3>1, <3>2
    <2>4. QED
      BY <1>1, <2>2, <2>3, SameAnswers
  <1>4. QED
    BY <1>2, <1>3

(* An edit commits: no claim is left on a live option of its question.     *)
LEMMA ReplaceAnswersOK ==
    ASSUME AnswersOK, TypeOK', NEW q \in Question,
           NEW correctSlots \in (SUBSET Slot) \ {{}},
           ReplaceOptions(q, correctSlots)
    PROVE  AnswersOK'
  <1>1. TypeOK
    BY DEF AnswersOK
  <1>2. /\ UNCHANGED <<status, txn, doomed, swept, recorded, told>>
        /\ edition' = [edition EXCEPT ![q] = @ + 1]
        /\ key' = [key EXCEPT ![q] = correctSlots]
        /\ edit' = [edit EXCEPT ![q] = NoEdit]
    BY DEF ReplaceOptions
  <1>3. /\ edition'[q] = edition[q] + 1 /\ edition[q] \in Nat
        /\ edit'[q] = NoEdit
        /\ \A p \in Question \ {q} : /\ edition'[p] = edition[p]
                                     /\ key'[p] = key[p]
                                     /\ edit'[p] = edit[p]
    BY <1>1, <1>2 DEF TypeOK
  <1>4. ASSUME NEW o \in Option, Known(o)
        PROVE  /\ Known(o)'
               /\ Live(o)' => /\ o.question # q
                              /\ Live(o)
                              /\ IsCorrect(o)' <=> IsCorrect(o)
               /\ o.question # q => /\ Live(o)' <=> Live(o)
                                    /\ IsCorrect(o)' <=> IsCorrect(o)
    <2>1. o.question \in Question /\ o.edition \in Nat
      BY DEF Option
    <2>2. CASE o.question = q
      BY <1>3, <1>4, <2>1, <2>2 DEF Known, Live
    <2>3. CASE o.question # q
      BY <1>3, <1>4, <2>1, <2>3 DEF Known, Live, IsCorrect
    <2>4. QED
      BY <2>2, <2>3
  <1>5. /\ \A a \in Attempt, p \in Question \ {q} :
              answer'[a][p] = answer[a][p]
        /\ \A a \in Attempt : Rows(a)' = Rows(a)
        /\ \A a \in Attempt : q \in Rows(a) => answer'[a][q].option = NULL
    <2>1. \A a \in Attempt : answer'[a] =
             IF q \in Rows(a) THEN [answer[a] EXCEPT ![q].option = NULL]
             ELSE answer[a]
      BY DEF ReplaceOptions
    <2>2. ASSUME NEW a \in Attempt, q \in Rows(a)
          PROVE  /\ answer'[a][q] = [answer[a][q] EXCEPT !.option = NULL]
                 /\ \A p \in Question \ {q} : answer'[a][p] = answer[a][p]
                 /\ answer[a][q] \in AnswerRow
      <3>1. /\ answer[a] \in [Question -> AnswerRow \cup {NoRow}]
            /\ answer[a][q] # NoRow
        BY <1>1, <2>2 DEF TypeOK, Rows
      <3>2. answer'[a] = [answer[a] EXCEPT ![q].option = NULL]
        BY <2>1, <2>2
      <3>3. QED
        BY <3>1, <3>2
    <2>3. ASSUME NEW a \in Attempt, q \in Rows(a)
          PROVE  answer'[a][q].option = NULL /\ answer'[a][q] # NoRow
      <3>1. /\ [answer[a][q] EXCEPT !.option = NULL].option = NULL
            /\ [answer[a][q] EXCEPT !.option = NULL] \in AnswerRow
        BY <2>2, <2>3 DEF AnswerRow
      <3>2. QED
        BY <2>2, <2>3, <3>1, ConstantsAssumption DEF ConstantsAssumption
    <2>4. ASSUME NEW a \in Attempt
          PROVE  /\ \A p \in Question \ {q} : answer'[a][p] = answer[a][p]
                 /\ Rows(a)' = Rows(a)
      <3>1. CASE q \in Rows(a)
        BY <2>2, <2>3, <3>1 DEF Rows
      <3>2. CASE q \notin Rows(a)
        BY <2>1, <3>2 DEF Rows
      <3>3. QED
        BY <3>1, <3>2
    <2>5. QED
      BY <2>3, <2>4
  <1>6. RowsOK'
    <2> SUFFICES ASSUME NEW a \in Attempt, NEW p \in Rows(a)
                 PROVE  LET row == answer'[a][p]
                            o == row.option
                        IN  /\ Exists(a)
                            /\ o # NULL =>
                                  /\ o.edition = edition'[o.question]
                                  /\ o.question = p
                                  /\ row.correct = (o.slot \in key'[o.question])
                                  /\ RowClaim(a, p)' \in recorded
      BY <1>2, <1>5 DEF RowsOK, Exists, Live, IsCorrect
    <2>1. Exists(a)
      BY DEF AnswersOK, RowsOK
    <2>2. CASE p = q
      BY <1>5, <2>1, <2>2
    <2>3. CASE p # q
      <3> DEFINE row == answer[a][p]
      <3>1. answer'[a][p] = row /\ row \in AnswerRow
        BY <1>1, <1>5, <2>3 DEF Rows, TypeOK
      <3>2. ASSUME row.option # NULL
            PROVE  /\ row.option \in Option
                   /\ Live(row.option)
                   /\ row.option.question = p
                   /\ row.correct = IsCorrect(row.option)
                   /\ RowClaim(a, p)' \in recorded
        BY <3>1, <3>2 DEF AnswersOK, RowsOK, AnswerRow, RowClaim
      <3>3. ASSUME row.option # NULL
            PROVE  Known(row.option)
        BY <1>1, <3>2, <3>3 DEF Live, Known, TypeOK, Option
      <3>4. QED
        BY <1>4, <2>1, <2>3, <3>1, <3>2, <3>3 DEF Live, IsCorrect
    <2>4. QED
      BY <2>2, <2>3
  <1>7. SubmitsOK'
    <2> SUFFICES ASSUME NEW s \in Request, txn[s].pc \in Submits
                 PROVE  (KnowsOK(txn[s]) /\ HoldsOK(txn[s]))'
      BY <1>2 DEF SubmitsOK
    <2> DEFINE t == txn[s]
    <2>1. KnowsOK(t) /\ HoldsOK(t) /\ t \in SubmitTxn
      BY <1>1, SubmitKnows, TxnKinds DEF Submits
    <2>2. /\ t.attempt \in Attempt /\ t.question \in Question
          /\ t.option \in Option
      BY <2>1 DEF SubmitTxn
    <2>3. Known(t.option)
      BY <2>1 DEF KnowsOK
    <2>4. KnowsOK(t)'
      BY <1>2, <1>4, <2>1, <2>2, <2>3 DEF KnowsOK, Known, Live, IsCorrect
    <2>5. Stored(t.attempt, t.question) = NoRow
             => Stored(t.attempt, t.question)' = NoRow
      BY <1>2, <1>5, <2>2 DEF Stored
    <2>6. ASSUME t.write \in {"insert", "refill"}, t.pc = "commit"
          PROVE  (/\ Live(t.option) /\ ~Deleting(t.option)
                  /\ t.stored.correct = IsCorrect(t.option))'
      <3>1. /\ Live(t.option) /\ ~Deleting(t.option)
            /\ t.stored.correct = IsCorrect(t.option)
        BY <2>1, <2>6 DEF HoldsOK
      <3>2. t.option.question # q
        BY <2>2, <3>1 DEF ReplaceOptions, Deleted, Deleting, Option
      <3>3. t.option.question \in Question
        BY <2>2 DEF Option
      <3>4. QED
        BY <1>2, <1>3, <3>1, <3>2, <3>3 DEF Live, Deleting, IsCorrect
    <2>7. HoldsOK(t)'
      BY <1>2, <1>5, <2>1, <2>2, <2>5, <2>6 DEF HoldsOK, Exists
    <2>8. QED
      BY <1>2, <2>4, <2>7
  <1>8. LocksOK'
    <2>1. edit'[q].nulled = {}
      BY <1>3 DEF NoEdit
    <2>2. \A x \in Actor, a \in Attempt, p \in Question :
             HasAnswer(x, a, p)' => HasAnswer(x, a, p)
      BY <1>2, <1>3, <2>1 DEF HasAnswer, HoldsAnswer
    <2>3. QED
      BY <2>2 DEF AnswersOK, LocksOK
  <1>9. \A c : Claimed(c)' <=> Claimed(c)
    BY <1>2 DEF Claimed, Writing, ClaimOf
  <1>10. ClaimsOK'
    BY <1>2, <1>4, <1>9 DEF AnswersOK, ClaimsOK, Claim
  <1>11. KeptOK'
    <2> SUFFICES ASSUME NEW c \in recorded, Live(c.option)',
                        Exists(c.attempt)
                 PROVE  answer'[c.attempt][c.question] =
                           [option |-> c.option, correct |-> c.correct]
      BY <1>2 DEF KeptOK, Exists
    <2>1. /\ c.option.question = c.question /\ Known(c.option)
          /\ c.option \in Option
          /\ c.attempt \in Attempt /\ c.question \in Question
      BY <1>1 DEF AnswersOK, ClaimsOK, Claimed, Claim, TypeOK
    <2>2. c.question # q /\ Live(c.option)
      BY <1>4, <2>1
    <2>3. QED
      BY <1>5, <2>1, <2>2 DEF AnswersOK, KeptOK
  <1>12. AgreeOK' /\ ToldOK'
    BY <1>2, <1>9 DEF AnswersOK, AgreeOK, ToldOK, Replays, ClaimOf
  <1>13. QED
    BY <1>6, <1>7, <1>8, <1>10, <1>11, <1>12 DEF AnswersOK

(* Nothing but the age of attempts or the state of the job changes.        *)
LEMMA IdleAnswersOK ==
    ASSUME AnswersOK, TypeOK', doomed' \subseteq doomed, swept' \subseteq swept,
           UNCHANGED <<status, answer, edition, key, txn, edit, recorded, told>>
    PROVE  AnswersOK'
  <1>1. SubmitsOK'
    BY DEF AnswersOK, SubmitsOK, KnowsOK, HoldsOK, Known, Exists, Live,
           IsCorrect, Deleting, Stored, Rows
  <1>2. \A x \in Actor, a \in Attempt, q \in Question :
           HasAnswer(x, a, q)' => HasAnswer(x, a, q)
    BY DEF HasAnswer, HoldsAnswer
  <1>3. LocksOK'
    BY <1>2 DEF AnswersOK, LocksOK
  <1>4. QED
    BY <1>1, <1>3, SameAnswers

LEMMA CreateAnswersOK ==
    ASSUME AnswersOK, TypeOK', NEW a \in Attempt,
           NEW questions \in SUBSET Question, CreateAttempt(a, questions)
    PROVE  AnswersOK'
  <1>1. /\ UNCHANGED <<answer, edition, key, txn, edit, recorded, told, doomed,
                       swept>>
        /\ status[a] = "unborn"
        /\ status' = [status EXCEPT ![a] = "open"]
        /\ TypeOK
    BY DEF CreateAttempt, AnswersOK
  <1>2. \A b \in Attempt : /\ status[b] # "unborn" => status'[b] = status[b]
                           /\ status[b] # "unborn" => (Exists(b)' <=> Exists(b))
    BY <1>1 DEF TypeOK, Exists
  <1>3. RowsOK'
    <2>1. \A b \in Attempt : Exists(b) => Exists(b)'
      BY <1>2 DEF Exists
    <2>2. QED
      BY <1>1, <2>1 DEF AnswersOK, RowsOK, Rows, Live, IsCorrect, RowClaim
  <1>4. SubmitsOK'
    <2> SUFFICES ASSUME NEW s \in Request, txn[s].pc \in Submits
                 PROVE  (KnowsOK(txn[s]) /\ HoldsOK(txn[s]))'
      BY <1>1 DEF SubmitsOK
    <2>1. KnowsOK(txn[s]) /\ HoldsOK(txn[s]) /\ txn[s].attempt \in Attempt
      BY <1>1, SubmitKnows, TxnKinds DEF Submits, SubmitTxn
    <2>2. /\ status[txn[s].attempt] # "unborn"
          /\ status'[txn[s].attempt] = status[txn[s].attempt]
      BY <1>2, <2>1 DEF KnowsOK
    <2>3. QED
      BY <1>1, <2>1, <2>2
         DEF KnowsOK, HoldsOK, Known, Live, IsCorrect, Deleting, Exists,
             Stored, Rows
  <1>5. LocksOK'
    BY <1>1 DEF AnswersOK, LocksOK, HasAnswer, HoldsAnswer
  <1>9. \A c : Claimed(c)' <=> Claimed(c)
    BY <1>1 DEF Claimed, Writing, ClaimOf
  <1>6. ClaimsOK'
    BY <1>1, <1>2, <1>9 DEF AnswersOK, ClaimsOK, Known, Claim
  <1>7. KeptOK'
    <2> SUFFICES ASSUME NEW c \in recorded, Live(c.option),
                        Exists(c.attempt)'
                 PROVE  answer[c.attempt][c.question] =
                           [option |-> c.option, correct |-> c.correct]
      BY <1>1 DEF KeptOK, Live
    <2>1. c.attempt \in Attempt /\ status[c.attempt] # "unborn"
      BY <1>1 DEF AnswersOK, ClaimsOK, Claimed, Claim, TypeOK
    <2>2. QED
      BY <1>2, <2>1 DEF AnswersOK, KeptOK
  <1>8. AgreeOK' /\ ToldOK'
    BY <1>1, <1>9 DEF AnswersOK, AgreeOK, ToldOK, Replays, ClaimOf
  <1>10. QED
    BY <1>3, <1>4, <1>5, <1>6, <1>7, <1>8 DEF AnswersOK

(* The DELETE takes no attempt that a new answer refers to.                *)
LEMMA TakeAnswersOK ==
    ASSUME AnswersOK, TypeOK', NEW a \in Attempt, PurgeTake(a)
    PROVE  AnswersOK'
  <1>1. /\ UNCHANGED <<status, answer, edition, key, txn, edit, swept,
                       recorded, told>>
        /\ doomed' = doomed \cup {a}
        /\ ~KeyShared(a)
    BY DEF PurgeTake
  <1>2. SubmitsOK'
    <2> SUFFICES ASSUME NEW s \in Request, txn[s].pc \in Submits
                 PROVE  (KnowsOK(txn[s]) /\ HoldsOK(txn[s]))'
      BY <1>1 DEF SubmitsOK
    <2>1. KnowsOK(txn[s]) /\ HoldsOK(txn[s])
      BY SubmitKnows
    <2>2. txn[s].write = "insert" /\ txn[s].pc \in {"option_key", "commit"}
             => txn[s].attempt # a
      BY <1>1, <2>1 DEF KeyShared, SharesAttempt
    <2>3. QED
      BY <1>1, <2>1, <2>2
         DEF KnowsOK, HoldsOK, Known, Live, IsCorrect, Deleting, Exists,
             Stored, Rows
  <1>3. LocksOK'
    BY <1>1 DEF AnswersOK, LocksOK, HasAnswer, HoldsAnswer
  <1>4. QED
    BY <1>1, <1>2, <1>3, SameAnswers

(* The cascade takes no answer that somebody else holds.                   *)
LEMMA SweepAnswersOK ==
    ASSUME AnswersOK, TypeOK', NEW a \in Attempt, NEW q \in Question,
           PurgeSweep(a, q)
    PROVE  AnswersOK'
  <1>1. /\ UNCHANGED <<status, answer, edition, key, txn, edit, doomed,
                       recorded, told>>
        /\ swept' = swept \cup {<<a, q>>}
        /\ \A x \in Actor : ~HasAnswer(x, a, q)
    BY DEF PurgeSweep, AnswerLocked
  <1>2. SubmitsOK'
    BY <1>1 DEF AnswersOK, SubmitsOK, KnowsOK, HoldsOK, Known, Exists, Live,
                IsCorrect, Deleting, Stored, Rows
  <1>3. ASSUME NEW x \in Actor, NEW b \in Attempt, NEW p \in Question,
               HasAnswer(x, b, p)'
        PROVE  HasAnswer(x, b, p) \/ (x = Purger /\ b = a /\ p = q)
    BY <1>1, <1>3 DEF HasAnswer, HoldsAnswer
  <1>4. LocksOK'
    BY <1>1, <1>3 DEF AnswersOK, LocksOK
  <1>5. QED
    BY <1>1, <1>2, <1>4, SameAnswers

(* The purge deletes attempts no answer is being written to.               *)
LEMMA DeleteAnswersOK ==
    ASSUME AnswersOK, TypeOK', PurgeDelete
    PROVE  AnswersOK'
  <1>1. /\ UNCHANGED <<edition, key, txn, edit, recorded, told>>
        /\ doomed' = {} /\ swept' = {}
        /\ TypeOK
    BY DEF PurgeDelete, AnswersOK
  <1>2. \A a \in Attempt :
           /\ a \in doomed => /\ status'[a] = "deleted"
                              /\ answer'[a] = [q \in Question |-> NoRow]
           /\ a \notin doomed => /\ status'[a] = status[a]
                                 /\ answer'[a] = answer[a]
    BY DEF PurgeDelete
  <1>3. \A a \in Attempt : Exists(a)' <=> Exists(a) /\ a \notin doomed
    BY <1>2 DEF Exists
  <1>4. RowsOK'
    <2> SUFFICES ASSUME NEW a \in Attempt, NEW q \in Rows(a)'
                 PROVE  a \notin doomed /\ q \in Rows(a)
      BY <1>1, <1>2, <1>3
         DEF AnswersOK, RowsOK, Live, IsCorrect, RowClaim
    <2>1. QED
      BY <1>2 DEF Rows
  <1>5. SubmitsOK'
    <2> SUFFICES ASSUME NEW s \in Request, txn[s].pc \in Submits
                 PROVE  (KnowsOK(txn[s]) /\ HoldsOK(txn[s]))'
      BY <1>1 DEF SubmitsOK
    <2> DEFINE t == txn[s]
    <2>1. /\ KnowsOK(t) /\ HoldsOK(t)
          /\ t \in SubmitTxn
          /\ t.attempt \in Attempt /\ t.question \in Question
      BY <1>1, SubmitKnows, TxnKinds DEF Submits, SubmitTxn
    <2>2. KnowsOK(t)'
      BY <1>1, <1>2, <2>1 DEF KnowsOK, Known, Live, IsCorrect
    <2>3. ASSUME t.write = "refill"
          PROVE  t.attempt \notin doomed
      <3>1. HoldsAnswer(s, t.attempt, t.question)
        BY <2>1, <2>3 DEF KnowsOK, HoldsAnswer
      <3>2. <<t.attempt, t.question>> \notin swept
        BY <2>1, <3>1, HolderAlone
      <3>3. QED
        BY <2>1, <2>3, <3>2 DEF PurgeDelete, HoldsOK
    <2>4. HoldsOK(t)'
      <3>1. CASE t.attempt \notin doomed
        <4>1. /\ answer'[t.attempt] = answer[t.attempt]
              /\ status'[t.attempt] = status[t.attempt]
              /\ txn'[s] = t
          BY <1>1, <1>2, <2>1, <3>1
        <4>2. /\ Stored(t.attempt, t.question)' =
                    Stored(t.attempt, t.question)
              /\ (t.question \in Rows(t.attempt))'
                    <=> t.question \in Rows(t.attempt)
          BY <4>1 DEF Stored, Rows
        <4>3. QED
          BY <1>1, <2>1, <3>1, <4>1, <4>2
             DEF HoldsOK, Exists, Live, Deleting, IsCorrect
      <3>2. CASE t.attempt \in doomed
        <4>1. answer'[t.attempt] = [q \in Question |-> NoRow]
          BY <1>2, <2>1, <3>2
        <4>2. answer'[t.attempt][t.question] = NoRow /\ txn'[s] = t
          BY <1>1, <2>1, <4>1
        <4>3. t.question \notin Rows(t.attempt)'
          BY <4>2 DEF Rows
        <4>4. t.write = "insert" => t.pc \notin {"option_key", "commit"}
          BY <2>1, <3>2 DEF HoldsOK
        <4>5. QED
          BY <1>1, <2>3, <3>2, <4>3, <4>4 DEF HoldsOK, Stored
      <3>3. QED
        BY <3>1, <3>2
    <2>5. QED
      BY <2>2, <2>4
  <1>6. LocksOK'
    <2>1. \A x \in Actor, a \in Attempt, q \in Question :
             HasAnswer(x, a, q)' => HasAnswer(x, a, q)
      BY <1>1 DEF HasAnswer, HoldsAnswer
    <2>2. QED
      BY <2>1 DEF AnswersOK, LocksOK
  <1>7. \A c : Claimed(c)' <=> Claimed(c)
    BY <1>1 DEF Claimed, Writing, ClaimOf
  <1>8. ClaimsOK'
    <2>1. \A c \in Claim : status[c.attempt] # "unborn"
                             => status'[c.attempt] # "unborn"
      BY <1>2 DEF Claim
    <2>2. QED
      BY <1>1, <1>7, <2>1 DEF AnswersOK, ClaimsOK, Known
  <1>9. KeptOK'
    BY <1>1, <1>2, <1>3 DEF AnswersOK, KeptOK, Live, Claim, TypeOK
  <1>10. AgreeOK' /\ ToldOK'
    BY <1>1, <1>7 DEF AnswersOK, AgreeOK, ToldOK, Replays, ClaimOf
  <1>11. QED
    BY <1>4, <1>5, <1>6, <1>8, <1>9, <1>10 DEF AnswersOK

LEMMA InitAnswersOK == Init => AnswersOK
  <1> SUFFICES ASSUME Init
               PROVE  AnswersOK
    OBVIOUS
  <1>1. \A a \in Attempt : Rows(a) = {}
    BY DEF Init, Rows
  <1>2. \A r \in Request : txn[r] = Idle
    BY DEF Init
  <1>3. \A c : ~Claimed(c)
    BY <1>2 DEF Init, Claimed, Writing, Idle
  <1>4. \A x \in Actor, a \in Attempt, q \in Question : ~HasAnswer(x, a, q)
    BY <1>2 DEF Init, HasAnswer, HoldsAnswer, NoEdit, Idle
  <1>5. RowsOK /\ SubmitsOK /\ LocksOK
    BY <1>1, <1>2, <1>4 DEF RowsOK, SubmitsOK, Submits, LocksOK, Idle
  <1>6. ToldOK /\ ClaimsOK /\ KeptOK /\ AgreeOK
    BY <1>2, <1>3 DEF Init, ToldOK, Replays, ClaimsOK, KeptOK, AgreeOK, Idle
  <1>7. QED
    BY <1>5, <1>6, InitTypeOK DEF AnswersOK

LEMMA StepAnswersOK ==
    ASSUME AnswersOK, ClosersOK, [Next]_vars
    PROVE  AnswersOK'
  <1>1. TypeOK /\ TypeOK' /\ told \subseteq recorded
    BY StepTypeOK DEF AnswersOK, ToldOK
  <1>2. CASE UNCHANGED vars
    BY <1>1, <1>2, IdleAnswersOK DEF vars
  <1>3. ASSUME NEW r \in Request, Arrive(r)
        PROVE  AnswersOK'
    BY <1>1, <1>3, LoadAnswersOK, CompleteAnswersOK DEF Arrive
  <1>4. ASSUME NEW r \in Request, Serve(r) \/ Crash(r)
        PROVE  AnswersOK'
    <2>1. CASE SubmitCommit(r) \/ SubmitRespond(r)
      BY <1>1, <2>1, CommitAnswersOK, RespondAnswersOK
    <2>2. CASE \/ CompleteLock(r)
               \/ CompleteReadAnswers(r)
               \/ CompleteClose(r)
               \/ CompleteTrack(r)
      BY <1>1, <2>2, CompleteAnswersOK
    <2>3. CASE Crash(r)
      <3>1. SameData /\ Goto(r, Idle)
        BY <1>1, <2>3 DEF Crash, Finish, SameData, Exists
      <3>2. QED
        BY <1>1, <3>1, StandDown DEF Txn, Idle, Submits
    <2>4. CASE Submitting(r)
      <3>1. SameData
        BY <1>1, <2>4, SubmitMoves DEF SameData, Exists
      <3>2. CASE Goto(r, Idle)
        BY <1>1, <3>1, <3>2, StandDown DEF Txn, Idle, Submits
      <3>3. QED
        BY <1>1, <2>4, <3>1, <3>2, SubmitMoves, ContinueAnswersOK
    <2>5. QED
      BY <1>4, <2>1, <2>2, <2>3, <2>4 DEF Serve, Submitting
  <1>5. CASE \E a \in Attempt : Age(a)
    BY <1>1, <1>5, IdleAnswersOK DEF Age
  <1>6. CASE Purge
    <2>1. CASE \/ PurgeStart
               \/ \E batch \in SUBSET Attempt : PurgeSelect(batch)
               \/ PurgeFinish
               \/ PurgeCrash
      <3>1. /\ doomed' \subseteq doomed /\ swept' \subseteq swept
            /\ UNCHANGED <<status, answer, edition, key, txn, edit, recorded,
                           told>>
        BY <2>1 DEF PurgeStart, PurgeSelect, PurgeFinish, PurgeCrash
      <3>2. QED
        BY <1>1, <3>1, IdleAnswersOK
    <2>2. QED
      BY <1>1, <1>6, <2>1, TakeAnswersOK, SweepAnswersOK, DeleteAnswersOK
         DEF Purge, PurgeStep
  <1>7. CASE \E q \in Question : EditStep(q) \/ EditAbort(q)
    BY <1>1, <1>7, EditAnswersOK, ReplaceAnswersOK DEF EditStep
  <1>8. QED
    BY <1>1, <1>2, <1>3, <1>4, <1>5, <1>6, <1>7, CreateAnswersOK DEF Next

LEMMA AnswersInv == Spec => []AnswersOK
  <1>1. AnswersOK /\ ClosersOK /\ [Next]_vars => AnswersOK'
    BY StepAnswersOK
  <1>2. QED
    BY <1>1, InitAnswersOK, ClosersInv, PTL DEF Spec

-----------------------------------------------------------------------------
(***************************************************************************)
(* Of one question's options at most one is ever accepted from the players *)
(* of an attempt, with one verdict, for any number of concurrent submits,  *)
(* retries, edits, crashes and purges.                                     *)
(***************************************************************************)
THEOREM OneOption == Spec => []OneAcceptedOption
  <1>1. AnswersOK => OneAcceptedOption
    BY DEF AnswersOK, AgreeOK, OneAcceptedOption, Claimed, ToldOK, TypeOK
  <1>2. QED
    BY <1>1, AnswersInv, PTL

(***************************************************************************)
(* What a client was told of an answer stays in user_answers until its     *)
(* attempt or its option is deleted.                                       *)
(***************************************************************************)
THEOREM AnswerKept == Spec => []AckedAnswerKept
  <1>1. AnswersOK => AckedAnswerKept
    BY DEF AnswersOK, KeptOK, AckedAnswerKept, Acked, ToldOK
  <1>2. QED
    BY <1>1, AnswersInv, PTL

(***************************************************************************)
(* A client that retries an acknowledged answer gets no 409.               *)
(***************************************************************************)
THEOREM RetriesAccepted == Spec => []RetryAccepted
  <1>1. ASSUME AnswersOK
        PROVE  RetryAccepted
    <2> SUFFICES ASSUME NEW r \in Request,
                        txn[r].pc \in {"read_stored", "store"},
                        Acked(txn[r].attempt, txn[r].question, txn[r].option)
                 PROVE  ~Conflicts(txn[r],
                                   Stored(txn[r].attempt, txn[r].question))
      BY DEF RetryAccepted
    <2>1. PICK c \in told : /\ c.attempt = txn[r].attempt
                            /\ c.question = txn[r].question
                            /\ c.option = txn[r].option
      BY DEF Acked
    <2>2. c \in recorded
      BY <1>1 DEF AnswersOK, ToldOK
    <2>3. Exists(c.attempt) /\ Live(c.option)
      BY <2>1 DEF Acked
    <2>4. Stored(c.attempt, c.question) =
             [option |-> c.option, correct |-> c.correct]
      BY <1>1, <2>2, <2>3, SettledStored
    <2>5. Stored(txn[r].attempt, txn[r].question) =
             [option |-> txn[r].option, correct |-> c.correct]
      BY <2>1, <2>4
    <2>6. Stored(c.attempt, c.question) # NoRow
      BY <1>1, <2>2, <2>3, SettledStored
    <2>7. QED
      BY <2>1, <2>5, <2>6 DEF Conflicts
  <1>2. QED
    BY <1>1, AnswersInv, PTL

(***************************************************************************)
(* A verdict is stored with a live option only if the answer key says so.  *)
(***************************************************************************)
THEOREM VerdictRight == Spec => []VerdictMatchesKey
  <1>1. AnswersOK => VerdictMatchesKey
    BY DEF AnswersOK, RowsOK, VerdictMatchesKey
  <1>2. QED
    BY <1>1, AnswersInv, PTL

(***************************************************************************)
(* A stored option is never replaced by another submit.                    *)
(***************************************************************************)
THEOREM AnswersFinal == Spec => AnswerFinal
  <1> DEFINE Final ==
          \A a \in Attempt : \A q \in Rows(a) :
             LET row == answer[a][q]
             IN  row.option # NULL =>
                   \/ answer'[a][q] = row
                   \/ /\ answer'[a][q] = [row EXCEPT !.option = NULL]
                      /\ edition'[q] > edition[q]
                   \/ answer'[a][q] = NoRow /\ status'[a] = "deleted"
  <1>1. ASSUME AnswersOK, [Next]_vars
        PROVE  Final
    <2>1. TypeOK
      BY <1>1 DEF AnswersOK
    <2>2. ASSUME NEW r \in Request, SubmitCommit(r)
          PROVE  Final
      <3> DEFINE t == txn[r]
      <3>1. HoldsOK(t) /\ t.pc = "commit"
        BY <1>1, <2>2, SubmitKnows DEF SubmitCommit, Submits
      <3>2. CASE t.write \in {"insert", "refill"}
        <4>1. /\ answer' = [answer EXCEPT ![t.attempt][t.question] = t.stored]
              /\ Stored(t.attempt, t.question) = NoRow
          BY <2>2, <3>1, <3>2 DEF SubmitCommit, HoldsOK
        <4>2. ASSUME NEW a \in Attempt, NEW q \in Rows(a),
                     answer[a][q].option # NULL
              PROVE  answer'[a][q] = answer[a][q]
          <5>1. q \in Question
            BY DEF Rows
          <5>2. a # t.attempt \/ q # t.question
            BY <4>1, <4>2 DEF Stored, Rows
          <5>3. QED
            BY <2>1, <4>1, <5>1, <5>2 DEF TypeOK
        <4>3. QED
          BY <4>2
      <3>3. CASE t.write \notin {"insert", "refill"}
        BY <2>2, <3>3 DEF SubmitCommit
      <3>4. QED
        BY <3>2, <3>3
    <2>3. ASSUME NEW p \in Question, NEW slots \in (SUBSET Slot) \ {{}},
                 ReplaceOptions(p, slots)
          PROVE  Final
      <3>1. edition'[p] = edition[p] + 1 /\ edition[p] \in Nat
        BY <2>1, <2>3 DEF ReplaceOptions, TypeOK
      <3>2. ASSUME NEW a \in Attempt, NEW q \in Rows(a)
            PROVE  \/ answer'[a][q] = answer[a][q]
                   \/ /\ q = p
                      /\ answer'[a][q] = [answer[a][q] EXCEPT !.option = NULL]
        <4>1. /\ answer[a] \in [Question -> AnswerRow \cup {NoRow}]
              /\ q \in Question
          BY <2>1 DEF TypeOK, Rows
        <4>2. answer'[a] = IF p \in Rows(a)
                           THEN [answer[a] EXCEPT ![p].option = NULL]
                           ELSE answer[a]
          BY <2>3 DEF ReplaceOptions
        <4>3. QED
          BY <4>1, <4>2
      <3>3. edition'[p] > edition[p]
        BY <3>1
      <3>4. QED
        BY <3>2, <3>3
    <2>4. CASE PurgeDelete
      BY <2>4 DEF PurgeDelete, Rows
    <2>5. CASE answer' = answer
      BY <2>5
    <2>6. \/ answer' = answer
          \/ PurgeDelete
          \/ \E r \in Request : SubmitCommit(r)
          \/ \E p \in Question, slots \in (SUBSET Slot) \ {{}} :
                ReplaceOptions(p, slots)
      <3>1. CASE UNCHANGED vars
        BY <3>1 DEF vars
      <3>2. ASSUME NEW r \in Request, Arrive(r) \/ Crash(r)
            PROVE  answer' = answer
        BY <3>2 DEF Arrive, SubmitLoad, CompleteBegin, Crash
      <3>3. ASSUME NEW r \in Request, Serve(r)
            PROVE  answer' = answer \/ SubmitCommit(r)
        <4>1. CASE Submitting(r)
          BY <4>1, SubmitMoves
        <4>2. CASE ~Submitting(r)
          BY <3>3, <4>2
             DEF Serve, Submitting, SubmitRespond, CompleteLock,
                 CompleteReadAnswers, CompleteClose, CompleteTrack
        <4>3. QED
          BY <4>1, <4>2
      <3>4. CASE Purge
        BY <3>4 DEF Purge, PurgeStep, PurgeStart, PurgeSelect, PurgeTake,
                    PurgeSweep, PurgeFinish, PurgeCrash
      <3>5. CASE \/ \E a \in Attempt : Age(a)
                 \/ \E a \in Attempt, questions \in SUBSET Question :
                       CreateAttempt(a, questions)
        BY <3>5 DEF Age, CreateAttempt
      <3>6. ASSUME NEW q \in Question, EditStep(q) \/ EditAbort(q)
            PROVE  \/ answer' = answer
                   \/ \E slots \in (SUBSET Slot) \ {{}} :
                         ReplaceOptions(q, slots)
        BY <3>6 DEF EditStep, EditDelete, EditNull, EditAbort
      <3>7. QED
        BY <1>1, <3>1, <3>2, <3>3, <3>4, <3>5, <3>6 DEF Next
    <2>7. QED
      BY <2>2, <2>3, <2>4, <2>5, <2>6
  <1>2. AnswersOK /\ [Next]_vars => [Final]_vars
    BY <1>1
  <1>3. Spec => [][Final]_vars
    BY <1>2, AnswersInv, PTL DEF Spec
  <1>4. QED
    BY <1>3 DEF AnswerFinal
-----------------------------------------------------------------------------
(* Waiting: who can be part of a circle of row locks.                      *)

(* the DELETE has not reached the attempts it is still going to take       *)
Apart == victims \cap doomed = {}

LEMMA StepApart == Apart /\ [Next]_vars => Apart'
  <1> SUFFICES ASSUME Apart, [Next]_vars PROVE Apart'
    OBVIOUS
  <1>1. CASE Purge
    BY <1>1 DEF Purge, PurgeStep, PurgeStart, PurgeSelect, PurgeTake,
                PurgeSweep, PurgeDelete, PurgeFinish, PurgeCrash, Apart
  <1>2. ASSUME NEW r \in Request, Serve(r) \/ Arrive(r) \/ Crash(r)
        PROVE  UNCHANGED <<victims, doomed>>
    <2>1. CASE Submitting(r)
      BY <2>1, SubmitMoves
    <2>2. CASE ~Submitting(r)
      BY <1>2, <2>2
         DEF Serve, Submitting, Arrive, Crash, SubmitLoad, SubmitCommit,
             SubmitRespond, CompleteBegin, CompleteLock, CompleteReadAnswers,
             CompleteClose, CompleteTrack
    <2>3. QED
      BY <2>1, <2>2
  <1>3. ASSUME NEW q \in Question, EditStep(q) \/ EditAbort(q)
        PROVE  UNCHANGED <<victims, doomed>>
    BY <1>3 DEF EditStep, EditDelete, EditNull, ReplaceOptions, EditAbort
  <1>4. QED
    BY <1>1, <1>2, <1>3 DEF Next, vars, Apart, CreateAttempt, Age

(* A request that waits and is waited for has its answer row, and waits    *)
(* for the purge or for an edit.                                           *)
LEMMA RequestInCircle ==
    ASSUME AnswersOK, NEW xs \in SUBSET Actor, Deadlocked(xs),
           NEW r \in Request, r \in xs
    PROVE  \/ /\ txn[r].pc = "attempt_key"
              /\ Purger \in xs
           \/ /\ txn[r].pc = "option_key"
              /\ \E q \in Question : q \in xs
  <1> DEFINE t == txn[r]
  <1>1. r \notin Question /\ r # Purger
    BY ConstantsAssumption DEF ConstantsAssumption
  <1>2. PICK y \in xs : RequestWaits(r, y)
    BY <1>1 DEF Deadlocked, WaitsFor
  <1>3. PICK z \in xs : WaitsFor(z, r)
    BY DEF Deadlocked
  <1>4. t.pc \in {"attempt_key", "option_key"}
    <2>1. t.pc \in {"store", "attempt_key", "lock", "option_key"}
      BY <1>2 DEF RequestWaits
    <2>2. t.pc \in {"store", "lock"} =>
             /\ \A a \in Attempt, q \in Question : ~HasAnswer(r, a, q)
             /\ \A a : ~HasAttempt(r, a) /\ ~SharesAttempt(r, a)
             /\ \A o : ~SharesOption(r, o)
      BY <1>1, RequestHas
         DEF HoldsAnswer, HasAttempt, Scoring, SharesAttempt, SharesOption
    <2>3. t.pc \in {"store", "lock"} => ~WaitsFor(z, r)
      <3> SUFFICES ASSUME t.pc \in {"store", "lock"}
                   PROVE  ~WaitsFor(z, r)
        OBVIOUS
      <3>1. z \in Request => ~RequestWaits(z, r)
        <4> SUFFICES ASSUME z \in Request, RequestWaits(z, r)
                     PROVE  FALSE
          OBVIOUS
        <4>1. \/ /\ txn[z].pc = "option_key"
                 /\ r = txn[z].option.question
              \/ /\ txn[z].pc = "store"
                 /\ HasAnswer(r, txn[z].attempt, txn[z].question)
          BY <2>2 DEF RequestWaits
        <4>2. txn[z] \in SubmitTxn
          BY <4>1, TxnKinds DEF AnswersOK
        <4>3. QED
          BY <1>1, <2>2, <4>1, <4>2 DEF SubmitTxn, Option
      <3>2. z \in Question => ~EditWaits(z, r)
        BY <2>2 DEF EditWaits, ToNull
      <3>3. ~PurgeWaits(r)
        <4>1. \A a \in doomed : \A q \in Rows(a) : ~HasAnswer(r, a, q)
          BY <2>2 DEF AnswersOK, TypeOK, Rows
        <4>2. QED
          BY <2>2, <4>1 DEF PurgeWaits
      <3>4. QED
        BY <3>1, <3>2, <3>3 DEF WaitsFor
    <2>4. QED
      BY <1>3, <2>1, <2>3
  <1>5. ASSUME NEW s \in Request, s \in xs
        PROVE  txn[s].pc \in {"store", "attempt_key", "lock", "option_key"}
    <2>1. s \notin Question /\ s # Purger
      BY ConstantsAssumption DEF ConstantsAssumption
    <2>2. \E x \in xs : RequestWaits(s, x)
      BY <1>5, <2>1 DEF Deadlocked, WaitsFor
    <2>3. QED
      BY <2>2 DEF RequestWaits
  <1>6. CASE t.pc = "attempt_key"
    <2>1. HasAttempt(y, t.attempt)
      BY <1>2, <1>6 DEF RequestWaits
    <2>2. y = Purger
      BY <1>5, <2>1 DEF HasAttempt, Scoring
    <2>3. QED
      BY <1>6, <2>2
  <1>7. CASE t.pc = "option_key"
    <2>1. y = t.option.question
      BY <1>2, <1>7 DEF RequestWaits
    <2>2. t \in SubmitTxn
      BY <1>7, TxnKinds DEF AnswersOK
    <2>3. t.option.question \in Question
      BY <2>2 DEF SubmitTxn, Option
    <2>4. QED
      BY <1>7, <2>1, <2>3
  <1>8. QED
    BY <1>4, <1>6, <1>7

(* An edit in a circle waits for the purge: the answers it has to set to   *)
(* NULL have an option, which no upsert that waits is about to change.     *)
LEMMA EditInCircle ==
    ASSUME AnswersOK, NEW xs \in SUBSET Actor, Deadlocked(xs),
           NEW q \in Question, q \in xs
    PROVE  Purger \in xs
  <1>1. q \notin Request /\ q # Purger
    BY ConstantsAssumption DEF ConstantsAssumption
  <1>2. PICK y \in xs : EditWaits(q, y)
    BY <1>1 DEF Deadlocked, WaitsFor
  <1>3. ASSUME y \in Request
        PROVE  /\ txn[y].pc \in {"attempt_key", "option_key"}
               /\ KnowsOK(txn[y]) /\ HoldsOK(txn[y])
    BY <1>3, RequestInCircle, SubmitKnows DEF Submits
  <1>4. ~(y \in Request /\ \E o : SharesOption(y, o))
    BY <1>3 DEF SharesOption
  <1>5. PICK a \in ToNull(q) : HasAnswer(y, a, q)
    BY <1>2, <1>4 DEF EditWaits
  <1>6. y \notin Request
    <2> SUFFICES ASSUME y \in Request PROVE FALSE
      OBVIOUS
    <2>1. HoldsAnswer(y, a, q)
      BY <1>5, RequestHas
    <2>2. Stored(a, q) = NoRow
      BY <1>3, <2>1 DEF HoldsAnswer, KnowsOK, HoldsOK
    <2>3. a \in Attempt /\ q \in Rows(a) /\ answer[a][q].option # NULL
      BY <1>5 DEF ToNull
    <2>4. QED
      BY <2>2, <2>3 DEF Stored, Rows
  <1>7. y # q
    BY <1>5, <1>1 DEF HasAnswer, ToNull
  <1>8. QED
    BY <1>5, <1>6, <1>7 DEF HasAnswer

(* The purge in a circle waits, by way of a submit or at once, for an      *)
(* edit.                                                                   *)
LEMMA PurgeInCircle ==
    ASSUME AnswersOK, Apart, NEW xs \in SUBSET Actor, Deadlocked(xs),
           Purger \in xs
    PROVE  \E q \in Question : q \in xs
  <1>1. PICK y \in xs : PurgeWaits(y)
    BY ConstantsAssumption DEF ConstantsAssumption, Deadlocked, WaitsFor
  <1>2. ASSUME y \in Request, txn[y].pc # "option_key"
        PROVE  /\ txn[y].pc = "attempt_key"
               /\ KnowsOK(txn[y]) /\ HoldsOK(txn[y])
    <2>1. txn[y].pc = "attempt_key"
      BY <1>2, RequestInCircle
    <2>2. QED
      BY <1>2, <2>1, SubmitKnows DEF Submits
  <1>3. CASE \E a \in victims : HasAttempt(y, a)
    BY <1>2, <1>3, RequestInCircle DEF HasAttempt, Scoring, Apart
  <1>4. CASE y \in Request /\ \E a \in victims : SharesAttempt(y, a)
    BY <1>2, <1>4, RequestInCircle DEF SharesAttempt
  <1>5. CASE \E a \in doomed : \E q \in Rows(a) :
                <<a, q>> \notin swept /\ HasAnswer(y, a, q)
    <2> PICK a \in doomed : \E q \in Rows(a) :
                <<a, q>> \notin swept /\ HasAnswer(y, a, q)
      BY <1>5
    <2>1. PICK q \in Rows(a) : <<a, q>> \notin swept /\ HasAnswer(y, a, q)
      OBVIOUS
    <2>2. q \in Question
      BY DEF Rows
    <2>3. ASSUME y \in Request
          PROVE  txn[y].pc = "option_key"
      <3>1. HoldsAnswer(y, a, q)
        BY <2>1, <2>2, <2>3, RequestHas
      <3>2. QED
        BY <1>2, <2>3, <3>1 DEF HoldsAnswer, KnowsOK, HoldsOK
    <2>4. y \in Request => \E p \in Question : p \in xs
      BY <2>3, RequestInCircle
    <2>5. QED
      BY <2>1, <2>2, <2>4 DEF HasAnswer
  <1>6. QED
    BY <1>1, <1>3, <1>4, <1>5 DEF PurgeWaits

(***************************************************************************)
(* For any number of requests, attempts and questions: whoever waits for   *)
(* each other in a circle, the purge and an edit are among them.           *)
(***************************************************************************)
THEOREM CirclesNeedBoth == Spec => []DeadlockNeedsEditAndPurge
  <1>1. Init => Apart
    BY DEF Init, Apart
  <1>2. ASSUME AnswersOK, Apart, NEW xs \in SUBSET Actor, Deadlocked(xs)
        PROVE  Purger \in xs /\ xs \cap Question # {}
    <2>1. PICK x \in xs : x \in Request \cup Question \cup {Purger}
      BY <1>2 DEF Deadlocked, Actor
    <2>2. Purger \in xs
      BY <1>2, <2>1, RequestInCircle, EditInCircle
    <2>3. QED
      BY <1>2, <2>2, PurgeInCircle
  <1>3. AnswersOK /\ Apart => DeadlockNeedsEditAndPurge
    BY <1>2 DEF DeadlockNeedsEditAndPurge
  <1>4. QED
    BY <1>1, <1>3, StepApart, AnswersInv, PTL DEF Spec
===============================================================================
