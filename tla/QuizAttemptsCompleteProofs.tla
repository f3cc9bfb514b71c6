---------------------- MODULE QuizAttemptsCompleteProofs ----------------------
(***************************************************************************)
(* An attempt is completed once, with an answer, and with the score its    *)
(* answers have.                                                           *)
(*                                                                         *)
(* What a completing request has counted stays true until it closes the    *)
(* attempt: the FOR UPDATE lock and the FOR KEY SHARE lock of a new answer *)
(* exclude each other, an edit keeps the verdicts, and the purge does not  *)
(* reach a locked attempt.  Only an answer that fills in a row whose       *)
(* option was deleted can slip in, which makes the attempt overtaken.      *)
(*                                                                         *)
(* Beneath it, the promise of AttemptContract kept, and what a page of     *)
(* AttemptRead shows.                                                      *)
(***************************************************************************)
EXTENDS AttemptRead, QuizAttemptsProofs

USE DEF attemptVars, bankVars, purgeVars, clientVars

(* complete_attempt has committed, and has not told anyone yet             *)
Tracking(r) == txn[r].pc = "track"

(* what was reported is the score, and only the request that closed the    *)
(* attempt is going to send its event                                      *)
TrackOK ==
    /\ \A a \in Attempt :
          /\ reported[a] \subseteq {score[a]}
          /\ tracked[a] <= 1
          /\ status[a] \in {"unborn", "open"}
             => reported[a] = {} /\ tracked[a] = 0
    /\ \A r \in Request : Tracking(r) =>
          /\ status[txn[r].attempt] \in {"completed", "deleted"}
          /\ txn[r].score = score[txn[r].attempt]
          /\ tracked[txn[r].attempt] = 0
          /\ \A s \in Request :
                Tracking(s) /\ txn[s].attempt = txn[r].attempt => s = r

(* r has inserted an answer, and holds the FOR KEY SHARE lock of its       *)
(* attempt until it commits                                                *)
Inserting(r) ==
    /\ txn[r].pc \in {"option_key", "commit"}
    /\ txn[r].write = "insert"

(* no answer is being inserted into an attempt that is being scored        *)
FenceOK ==
    \A r, s \in Request :
        Inserting(r) /\ Closing(s) => txn[r].attempt # txn[s].attempt

Exact(a, n) ==
    /\ Rows(a) # {}
    /\ a \in overtaken \/ n = Cardinality(CorrectRows(a))

(* a count is still right when it is stored, and afterwards                *)
ScoresOK ==
    /\ \A r \in Request : txn[r].pc = "close"
                          => Exact(txn[r].attempt, txn[r].score)
    /\ \A a \in Attempt : status[a] = "completed" => Exact(a, score[a])
-----------------------------------------------------------------------------
(* A step of the console, the job or time that clients cannot notice.      *)
Unseen == UNCHANGED <<attemptVars, answer, bankVars, txn, clientVars>>

LEMMA Steps ==
    ASSUME [Next]_vars
    PROVE  \/ \E a \in Attempt, questions \in SUBSET Question :
                 CreateAttempt(a, questions)
           \/ \E r \in Request : Serve(r) \/ Arrive(r) \/ Crash(r)
           \/ \E q \in Question, correctSlots \in (SUBSET Slot) \ {{}} :
                 ReplaceOptions(q, correctSlots)
           \/ PurgeDelete
           \/ Unseen
  <1>1. ASSUME NEW q \in Question,
               \/ \E s \in Slot : EditDelete(q, s)
               \/ \E a \in Attempt : EditNull(q, a)
               \/ EditAbort(q)
        PROVE  Unseen
    BY <1>1 DEF EditDelete, EditNull, EditAbort, Unseen
  <1>2. CASE (\E a \in Attempt : Age(a)) \/ UNCHANGED vars
    BY <1>2 DEF Age, vars, Unseen
  <1>3. CASE Purge /\ ~PurgeDelete
    BY <1>3 DEF Purge, PurgeStep, PurgeStart, PurgeSelect, PurgeTake,
                PurgeSweep, PurgeFinish, PurgeCrash, Unseen
  <1>4. QED
    BY <1>1, <1>2, <1>3 DEF Next, EditStep

(* Where a step takes the request that makes it, and what it leaves alone. *)
LEMMA RequestSteps ==
    ASSUME TypeOK, NEW r \in Request, Serve(r) \/ Arrive(r) \/ Crash(r)
    PROVE  /\ UNCHANGED <<edition, key, edit, purge, victims, doomed, stale>>
           /\ \E u \in Txn : Goto(r, u)
           /\ \A s \in Request \ {r} : txn'[s] = txn[s]
  <1>1. UNCHANGED <<edition, key, edit, purge, victims, doomed, stale>>
    BY DEF Serve, Arrive, Crash, SubmitLoad, SubmitReadStored,
           SubmitReadOptions, StoreInsert, StoreRefill, StoreConflict,
           StoreAttemptKey, StoreOptionKey, SubmitCommit, SubmitRespond,
           CompleteBegin, CompleteLock, CompleteReadAnswers, CompleteClose,
           CompleteTrack
  <1>2. txn' = [txn EXCEPT ![r] = txn'[r]]
    BY DEF Serve, Arrive, Crash, SubmitLoad, SubmitReadStored,
           SubmitReadOptions, StoreInsert, StoreRefill, StoreConflict,
           StoreAttemptKey, StoreOptionKey, SubmitCommit, SubmitRespond,
           CompleteBegin, CompleteLock, CompleteReadAnswers, CompleteClose,
           CompleteTrack,
           Finish, Goto, TypeOK
  <1>3. TypeOK'
    BY StepTypeOK DEF Next
  <1>4. txn'[r] \in Txn /\ Goto(r, txn'[r])
    BY <1>2, <1>3 DEF Goto, TypeOK, Txn
  <1>5. QED
    BY <1>1, <1>2, <1>4 DEF TypeOK

(* the record of a completing request after the count                      *)
Counted(t) == [t EXCEPT !.pc = "close",
                        !.score = Cardinality(CorrectRows(t.attempt))]

LEMMA CountedFields ==
    ASSUME NEW t \in CompleteTxn
    PROVE  /\ Counted(t).pc = "close"
           /\ Counted(t).attempt = t.attempt
           /\ Counted(t).score = Cardinality(CorrectRows(t.attempt))
  BY DEF CompleteTxn, Counted

(* A submit goes on to another place of submit_answer, or is over.         *)
LEMMA SubmitPlaces ==
    ASSUME TypeOK, SubmitsOK, NEW r \in Request, Submitting(r)
    PROVE  /\ txn[r] \in SubmitTxn
           /\ txn'[r].pc \in {"idle", "read_options", "store", "attempt_key",
                              "option_key", "commit"}
           /\ Inserting(r)' => /\ StoreAttemptKey(r) \/ Inserting(r)
                               /\ txn'[r].attempt = txn[r].attempt
           /\ UNCHANGED <<status, score, answer, tracked, reported, overtaken>>
  <1>1. txn[r] \in SubmitTxn
    BY SubmitMoves, TxnKinds
  <1>2. UNCHANGED <<status, score, answer, tracked, reported, overtaken>>
    BY SubmitMoves
  <1>3. ASSUME NEW u, Continues(r, u)
        PROVE  /\ u.pc \in {"read_options", "store", "attempt_key",
                            "option_key", "commit"}
               /\ u.pc \in {"option_key", "commit"} /\ u.write = "insert"
                  => /\ StoreAttemptKey(r) \/ Inserting(r)
                     /\ u.attempt = txn[r].attempt
    <2> DEFINE t == txn[r]
    <2>1. CASE u = Reread(t)
      BY <1>1, <2>1, RereadFields
    <2>2. CASE u = ToStore(t)
      BY <1>1, <2>2, ToStoreFields
    <2>3. CASE SubmitReadOptions(r) /\ u = ToCommit(t)
      <3>1. t.write = "none"
        BY <2>3 DEF SubmitReadOptions, SubmitsOK, KnowsOK, Submits
      <3>2. QED
        BY <1>1, <2>3, <3>1, ToCommitFields
    <2>4. CASE \/ u = ToWrite(t, "attempt_key", "insert")
               \/ u = ToWrite(t, "option_key", "refill")
      BY <1>1, <2>4, ToWriteFields
    <2>5. CASE u = ToHeld(t, answer[t.attempt][t.question])
      BY <1>1, <2>5, ToHeldFields
    <2>6. CASE StoreAttemptKey(r) /\ u = ToOption(t)
      BY <1>1, <2>6, ToOptionFields DEF SameRequest
    <2>7. CASE StoreOptionKey(r) /\ u = ToWritten(t)
      BY <1>1, <2>7, ToWrittenFields
         DEF SameRequest, StoreOptionKey, Inserting
    <2>8. QED
      BY <1>3, <2>1, <2>2, <2>3, <2>4, <2>5, <2>6, <2>7 DEF Continues
  <1>4. CASE Goto(r, Idle)
    BY <1>1, <1>2, <1>4, GotoSets DEF Idle, Inserting
  <1>5. CASE \E u : Goto(r, u) /\ Continues(r, u)
    <2> PICK u : Goto(r, u) /\ Continues(r, u)
      BY <1>5
    <2>1. txn'[r] = u
      BY GotoSets
    <2>2. QED
      BY <1>1, <1>2, <1>3, <2>1 DEF Inserting
  <1>6. QED
    BY <1>4, <1>5, SubmitMoves

(* What a commit, or a response, leaves in txn.                            *)
LEMMA CommitMoves ==
    ASSUME TypeOK, NEW r \in Request, SubmitCommit(r) \/ SubmitRespond(r)
    PROVE  /\ txn[r] \in SubmitTxn
           /\ txn'[r].pc \in {"respond", "idle"}
           /\ SubmitCommit(r) => txn'[r] = ToRespond(txn[r])
           /\ SubmitRespond(r) => txn'[r] = Idle
           /\ \A s \in Request \ {r} : txn'[s] = txn[s]
           /\ UNCHANGED <<status, picked, score, tracked, reported>>
  <1>1. txn[r] \in SubmitTxn
    BY TxnKinds DEF SubmitCommit, SubmitRespond
  <1>2. ToRespond(txn[r]).pc = "respond"
    BY <1>1, ToRespondFields
  <1>3. /\ SubmitCommit(r) => Goto(r, ToRespond(txn[r]))
        /\ SubmitRespond(r) => Goto(r, Idle)
        /\ UNCHANGED <<status, picked, score, tracked, reported>>
    BY DEF SubmitCommit, SubmitRespond, Finish, ToRespond
  <1>4. QED
    BY <1>1, <1>2, <1>3, GotoSets DEF Idle

-----------------------------------------------------------------------------
(* Closed once, told once                                                  *)

(* A step that leads no request to the event leaves the reports alone.     *)
LEMMA TrackLeave ==
    ASSUME TypeOK, TrackOK, NEW r \in Request, txn'[r].pc # "track",
           \A s \in Request \ {r} : txn'[s] = txn[s],
           UNCHANGED <<status, score, tracked, reported>>
    PROVE  TrackOK'
  BY DEF TrackOK, Tracking

LEMMA CompleteTrackOK ==
    ASSUME TypeOK, ClosersOK, TrackOK, NEW r \in Request,
           \/ CompleteLock(r)
           \/ CompleteClose(r)
           \/ CompleteTrack(r)
    PROVE  TrackOK'
  <1> DEFINE t == txn[r]
             a == t.attempt
  <1>1. t \in CompleteTxn /\ a \in Attempt
    BY TxnKinds DEF CompleteLock, CompleteClose, CompleteTrack, CompleteTxn
  <1>2. CASE CompleteLock(r)
    <2>1. /\ txn'[r] = Idle \/ txn'[r] = [t EXCEPT !.pc = "read_answers"]
          /\ \A s \in Request \ {r} : txn'[s] = txn[s]
      BY <1>2, GotoSets DEF CompleteLock, Finish
    <2>2. txn'[r].pc # "track"
      BY <1>1, <2>1 DEF Idle, CompleteTxn
    <2>3. CASE UNCHANGED reported
      BY <1>2, <2>1, <2>2, <2>3, TrackLeave DEF CompleteLock
    <2>4. CASE /\ status[a] = "completed"
               /\ reported' = [reported EXCEPT ![a] = @ \cup {score[a]}]
      <3>1. UNCHANGED <<status, score, tracked>>
        BY <1>2 DEF CompleteLock
      <3>2. \A b \in Attempt :
               reported'[b] = IF b = a THEN reported[a] \cup {score[a]}
                                       ELSE reported[b]
        BY <1>1, <2>4 DEF TypeOK
      <3>3. QED
        BY <2>1, <2>2, <2>4, <3>1, <3>2 DEF TrackOK, Tracking
    <2>5. QED
      BY <1>2, <2>3, <2>4 DEF CompleteLock
  <1>3. CASE CompleteClose(r)
    <2>1. /\ Closing(r)
          /\ status[a] = "open"
      BY <1>3 DEF CompleteClose, Closing, ClosersOK
    <2>2. /\ txn'[r] = [t EXCEPT !.pc = "track"]
          /\ \A s \in Request \ {r} : txn'[s] = txn[s]
      BY <1>3, GotoSets DEF CompleteClose
    <2>3. /\ txn'[r].pc = "track"
          /\ txn'[r].attempt = a
          /\ txn'[r].score = t.score
      BY <1>1, <2>2 DEF CompleteTxn
    <2>4. /\ \A b \in Attempt \ {a} : /\ status'[b] = status[b]
                                       /\ score'[b] = score[b]
          /\ status'[a] = "completed"
          /\ score'[a] = t.score
          /\ UNCHANGED <<tracked, reported>>
      BY <1>1, <1>3 DEF CompleteClose, TypeOK
    <2>5. reported[a] = {} /\ tracked[a] = 0
      BY <1>1, <2>1 DEF TrackOK
    <2>6. \A s \in Request : Tracking(s) =>
              txn[s].attempt # a /\ txn[s].attempt \in Attempt
      <3>1. \A s \in Request : Tracking(s) => txn[s].attempt # a
        BY <2>1 DEF TrackOK
      <3>2. \A s \in Request : Tracking(s) => txn[s].attempt \in Attempt
        BY TxnKinds DEF Tracking, CompleteTxn
      <3>3. QED
        BY <3>1, <3>2
    <2>7. ASSUME NEW b \in Attempt
          PROVE  /\ reported'[b] \subseteq {score'[b]}
                 /\ tracked'[b] <= 1
                 /\ status'[b] \in {"unborn", "open"}
                    => reported'[b] = {} /\ tracked'[b] = 0
      BY <2>4, <2>5 DEF TrackOK
    <2>8. ASSUME NEW s \in Request, Tracking(s)'
          PROVE  /\ status'[txn'[s].attempt] \in {"completed", "deleted"}
                 /\ txn'[s].score = score'[txn'[s].attempt]
                 /\ tracked'[txn'[s].attempt] = 0
                 /\ \A q \in Request :
                       Tracking(q)' /\ txn'[q].attempt = txn'[s].attempt
                       => q = s
      <3>1. CASE s = r
        BY <2>2, <2>3, <2>4, <2>5, <2>6, <3>1 DEF Tracking
      <3>2. CASE s # r
        <4>1. txn'[s] = txn[s] /\ Tracking(s)
          BY <2>2, <2>8, <3>2 DEF Tracking
        <4>2. txn[s].attempt \in Attempt \ {a}
          BY <2>6, <4>1
        <4>3. /\ status'[txn'[s].attempt] \in {"completed", "deleted"}
              /\ txn'[s].score = score'[txn'[s].attempt]
              /\ tracked'[txn'[s].attempt] = 0
          BY <2>4, <4>1, <4>2 DEF TrackOK
        <4>4. ASSUME NEW q \in Request, Tracking(q)',
                     txn'[q].attempt = txn'[s].attempt
              PROVE  q = s
          <5>1. q # r
            BY <2>3, <4>1, <4>2, <4>4
          <5>2. Tracking(q) /\ txn[q].attempt = txn[s].attempt
            BY <2>2, <4>1, <4>4, <5>1 DEF Tracking
          <5>3. QED
            BY <4>1, <5>2 DEF TrackOK
        <4>5. QED
          BY <4>3, <4>4
      <3>3. QED
        BY <3>1, <3>2
    <2>9. QED
      BY <2>7, <2>8 DEF TrackOK
  <1>4. CASE CompleteTrack(r)
    <2>1. /\ txn'[r] = Idle
          /\ \A s \in Request \ {r} : txn'[s] = txn[s]
          /\ UNCHANGED <<status, score>>
      BY <1>4, GotoSets DEF CompleteTrack, Finish
    <2>2. Tracking(r)
      BY <1>4 DEF CompleteTrack, Tracking
    <2>3. /\ \A b \in Attempt \ {a} : /\ tracked'[b] = tracked[b]
                                       /\ reported'[b] = reported[b]
          /\ tracked'[a] = tracked[a] + 1
          /\ reported'[a] = reported[a] \cup {t.score}
      BY <1>1, <1>4 DEF CompleteTrack, TypeOK
    <2>4. /\ status[a] \in {"completed", "deleted"}
          /\ t.score = score[a]
          /\ tracked[a] = 0
      BY <2>2 DEF TrackOK
    <2>5. \A s \in Request \ {r} : Tracking(s) => txn[s].attempt # a
      BY <2>2 DEF TrackOK
    <2>6. \A s \in Request : Tracking(s) => txn[s].attempt \in Attempt
      BY TxnKinds DEF Tracking, CompleteTxn
    <2>7. ASSUME NEW b \in Attempt
          PROVE  /\ reported'[b] \subseteq {score'[b]}
                 /\ tracked'[b] <= 1
                 /\ status'[b] \in {"unborn", "open"}
                    => reported'[b] = {} /\ tracked'[b] = 0
      BY <2>1, <2>3, <2>4 DEF TrackOK
    <2>8. \A s \in Request : Tracking(s)' => Tracking(s) /\ s # r
      BY <2>1 DEF Tracking, Idle
    <2>9. QED
      BY <2>1, <2>3, <2>5, <2>6, <2>7, <2>8 DEF TrackOK, Tracking
  <1>5. QED
    BY <1>2, <1>3, <1>4

LEMMA StepTrackOK ==
    ASSUME TypeOK, SubmitsOK, ClosersOK, TrackOK, [Next]_vars
    PROVE  TrackOK'
  <1>1. CASE Unseen
    BY <1>1 DEF Unseen, TrackOK, Tracking
  <1>2. ASSUME NEW r \in Request, Serve(r) \/ Arrive(r) \/ Crash(r)
        PROVE  TrackOK'
    <2>1. \A s \in Request \ {r} : txn'[s] = txn[s]
      BY <1>2, RequestSteps
    <2>2. CASE Submitting(r)
      <3>1. /\ txn'[r].pc # "track"
            /\ UNCHANGED <<status, score, tracked, reported>>
        BY <2>2, SubmitPlaces
      <3>2. QED
        BY <2>1, <3>1, TrackLeave
    <2>3. CASE SubmitCommit(r) \/ SubmitRespond(r)
      <3>1. /\ txn'[r].pc # "track"
            /\ UNCHANGED <<status, score, tracked, reported>>
        BY <2>3, CommitMoves
      <3>2. QED
        BY <2>1, <3>1, TrackLeave
    <2>4. CASE CompleteReadAnswers(r)
      <3>1. txn[r] \in CompleteTxn
        BY <2>4, TxnKinds DEF CompleteReadAnswers
      <3>2. Counted(txn[r]).pc = "close"
        BY <3>1, CountedFields
      <3>3. txn'[r] \in {Idle, Counted(txn[r])}
        BY <2>4, GotoSets DEF CompleteReadAnswers, Finish, Counted
      <3>4. /\ txn'[r].pc # "track"
            /\ UNCHANGED <<status, score, tracked, reported>>
        BY <2>4, <3>2, <3>3 DEF CompleteReadAnswers, Idle
      <3>5. QED
        BY <2>1, <3>4, TrackLeave
    <2>5. CASE Arrive(r) \/ Crash(r)
      <3>1. /\ txn'[r].pc \in {"idle", "read_stored", "lock"}
            /\ UNCHANGED <<status, score, tracked, reported>>
        BY <2>5 DEF Arrive, SubmitLoad, CompleteBegin, Crash, Finish, Idle,
                    Goto, TypeOK
      <3>2. QED
        BY <2>1, <3>1, TrackLeave
    <2>6. CASE CompleteLock(r) \/ CompleteClose(r) \/ CompleteTrack(r)
      BY <2>6, CompleteTrackOK
    <2>7. QED
      BY <1>2, <2>2, <2>3, <2>4, <2>5, <2>6 DEF Serve, Submitting
  <1>3. ASSUME NEW a \in Attempt, NEW questions \in SUBSET Question,
               CreateAttempt(a, questions)
        PROVE  TrackOK'
    <2>1. /\ UNCHANGED <<score, tracked, reported, txn>>
          /\ status[a] = "unborn"
          /\ status'[a] = "open"
          /\ \A b \in Attempt \ {a} : status'[b] = status[b]
      BY <1>3 DEF CreateAttempt, TypeOK
    <2>2. \A s \in Request : Tracking(s) => txn[s].attempt \in Attempt \ {a}
      BY <2>1, TxnKinds DEF Tracking, CompleteTxn, TrackOK
    <2>3. QED
      BY <2>1, <2>2 DEF TrackOK, Tracking
  <1>4. CASE PurgeDelete
    <2>1. /\ UNCHANGED <<score, tracked, reported, txn>>
          /\ \A b \in Attempt : status'[b] \in {status[b], "deleted"}
      BY <1>4 DEF PurgeDelete
    <2>2. \A s \in Request : Tracking(s) => txn[s].attempt \in Attempt
      BY TxnKinds DEF Tracking, CompleteTxn
    <2>3. QED
      BY <2>1, <2>2 DEF TrackOK, Tracking
  <1>5. CASE \E q \in Question, correctSlots \in (SUBSET Slot) \ {{}} :
                ReplaceOptions(q, correctSlots)
    BY <1>5 DEF ReplaceOptions, TrackOK, Tracking
  <1>6. QED
    BY <1>1, <1>2, <1>3, <1>4, <1>5, Steps

LEMMA InitTrackOK == Init => TrackOK
  BY DEF Init, TrackOK, Tracking, Idle

(* What every further proof about completing starts from.                  *)
LEMMA TrackInv == Spec => [](AnswersOK /\ ClosersOK /\ TrackOK)
  <1>1. AnswersOK /\ ClosersOK /\ TrackOK /\ [Next]_vars => TrackOK'
    BY StepTrackOK DEF AnswersOK
  <1>2. QED
    BY <1>1, InitTrackOK, AnswersInv, ClosersInv, PTL DEF Spec

(***************************************************************************)
(* Concurrent and retried completes of an attempt all report one score,    *)
(* and send one event (complete_attempt).                                  *)
(***************************************************************************)
THEOREM ClosedOnce == Spec => []CompletedOnce
  <1>1. TrackOK => CompletedOnce
    <2> SUFFICES ASSUME TrackOK, NEW a \in Attempt
                 PROVE  /\ tracked[a] <= 1
                        /\ Cardinality(reported[a]) <= 1
                        /\ status[a] = "completed"
                           => reported[a] \subseteq {score[a]}
      BY DEF CompletedOnce
    <2>1. tracked[a] <= 1 /\ reported[a] \subseteq {score[a]}
      BY DEF TrackOK
    <2>2. reported[a] = {} \/ reported[a] = {score[a]}
      BY <2>1
    <2>3. Cardinality({}) = 0 /\ Cardinality({score[a]}) = 1
      BY FS_EmptySet, FS_Singleton
    <2>4. QED
      BY <2>1, <2>2, <2>3
  <1>2. QED
    BY <1>1, TrackInv, PTL

-----------------------------------------------------------------------------
(* The count                                                               *)

(* A step that takes no lock and inserts nothing keeps the locks apart.    *)
LEMMA FenceLeave ==
    ASSUME TypeOK, FenceOK, NEW r \in Request, ~Inserting(r)', ~Closing(r)',
           \A s \in Request \ {r} : txn'[s] = txn[s]
    PROVE  FenceOK'
  BY DEF FenceOK, Inserting, Closing

LEMMA StepFenceOK ==
    ASSUME TypeOK, SubmitsOK, FenceOK, [Next]_vars
    PROVE  FenceOK'
  <1>1. CASE UNCHANGED txn
    BY <1>1 DEF FenceOK, Inserting, Closing
  <1>2. ASSUME NEW r \in Request, Serve(r) \/ Arrive(r) \/ Crash(r)
        PROVE  FenceOK'
    <2> DEFINE t == txn[r]
    <2>1. \A s \in Request \ {r} : txn'[s] = txn[s]
      BY <1>2, RequestSteps
    <2>2. CASE Submitting(r)
      <3>1. /\ ~Closing(r)'
            /\ Inserting(r)' => /\ StoreAttemptKey(r) \/ Inserting(r)
                                /\ txn'[r].attempt = t.attempt
        BY <2>2, SubmitPlaces DEF Closing
      <3>2. StoreAttemptKey(r) =>
               \A s \in Request : Closing(s) => txn[s].attempt # t.attempt
        BY DEF StoreAttemptKey, AttemptLocked, HasAttempt, Actor, Scoring,
               Closing
      <3>3. Inserting(r)' =>
               \A s \in Request : Closing(s) => txn[s].attempt # t.attempt
        BY <3>1, <3>2 DEF FenceOK
      <3>4. QED
        BY <2>1, <3>1, <3>3 DEF FenceOK, Inserting, Closing
    <2>3. CASE SubmitCommit(r) \/ SubmitRespond(r)
      <3>1. ~Inserting(r)' /\ ~Closing(r)'
        BY <2>3, CommitMoves DEF Inserting, Closing
      <3>2. QED
        BY <2>1, <3>1, FenceLeave
    <2>4. CASE Crash(r) \/ CompleteTrack(r)
      <3>1. ~Inserting(r)' /\ ~Closing(r)'
        BY <2>4, GotoSets DEF Crash, CompleteTrack, Finish, Idle, Inserting,
                              Closing
      <3>2. QED
        BY <2>1, <3>1, FenceLeave
    <2>5. CASE CompleteLock(r)
      <3>1. t \in CompleteTxn
        BY <2>5, TxnKinds DEF CompleteLock
      <3>2. txn'[r] \in {Idle, [t EXCEPT !.pc = "read_answers"]}
        BY <2>5, GotoSets DEF CompleteLock, Finish
      <3>3. \A s \in Request : Inserting(s) => txn[s].attempt # t.attempt
        BY <2>5 DEF CompleteLock, KeyShared, SharesAttempt, Inserting
      <3>4. ~Inserting(r)' /\ (Closing(r)' => txn'[r].attempt = t.attempt)
        BY <3>1, <3>2 DEF Inserting, Closing, Idle, CompleteTxn
      <3>5. QED
        BY <2>1, <3>3, <3>4 DEF FenceOK, Inserting, Closing
    <2>6. CASE CompleteReadAnswers(r)
      <3>1. t \in CompleteTxn /\ Closing(r)
        BY <2>6, TxnKinds DEF CompleteReadAnswers, Closing
      <3>2. txn'[r] \in {Idle, Counted(t)}
        BY <2>6, GotoSets DEF CompleteReadAnswers, Finish, Counted
      <3>3. ~Inserting(r)' /\ (Closing(r)' => txn'[r].attempt = t.attempt)
        BY <3>1, <3>2, CountedFields DEF Inserting, Closing, Idle
      <3>4. QED
        BY <2>1, <3>1, <3>3 DEF FenceOK, Inserting, Closing
    <2>7. CASE CompleteClose(r)
      <3>1. t \in CompleteTxn /\ txn'[r] = [t EXCEPT !.pc = "track"]
        BY <2>7, TxnKinds, GotoSets DEF CompleteClose
      <3>2. ~Inserting(r)' /\ ~Closing(r)'
        BY <3>1 DEF Inserting, Closing, CompleteTxn
      <3>3. QED
        BY <2>1, <3>2, FenceLeave
    <2>8. CASE Arrive(r)
      <3>1. txn'[r].pc \in {"read_stored", "lock"}
        BY <2>8 DEF Arrive, SubmitLoad, CompleteBegin, Goto, TypeOK
      <3>2. ~Inserting(r)' /\ ~Closing(r)'
        BY <3>1 DEF Inserting, Closing
      <3>3. QED
        BY <2>1, <3>2, FenceLeave
    <2>9. QED
      BY <1>2, <2>2, <2>3, <2>4, <2>5, <2>6, <2>7, <2>8
         DEF Serve, Submitting
  <1>3. CASE \/ \E a \in Attempt, questions \in SUBSET Question :
                   CreateAttempt(a, questions)
             \/ \E q \in Question, correctSlots \in (SUBSET Slot) \ {{}} :
                   ReplaceOptions(q, correctSlots)
             \/ PurgeDelete
             \/ Unseen
    BY <1>1, <1>3 DEF CreateAttempt, ReplaceOptions, PurgeDelete, Unseen
  <1>4. QED
    BY <1>2, <1>3, Steps

(* An attempt whose rows and verdicts a step does not change.              *)
SameRows(a) ==
    /\ Rows(a)' = Rows(a)
    /\ CorrectRows(a)' = CorrectRows(a)

LEMMA SameExact ==
    ASSUME NEW a \in Attempt, NEW n, SameRows(a), Exact(a, n),
           overtaken \subseteq overtaken'
    PROVE  Exact(a, n)'
  BY DEF SameRows, Exact

LEMMA UntouchedRows ==
    ASSUME NEW a \in Attempt,
           \A q \in Question : answer'[a][q] = answer[a][q]
    PROVE  SameRows(a)
  BY DEF SameRows, Rows, CorrectRows

(* A step that counts nothing, stores nothing and closes nothing.          *)
LEMMA ScoresLeave ==
    ASSUME TypeOK, ScoresOK, NEW r \in Request, txn'[r].pc # "close",
           \A s \in Request \ {r} : txn'[s] = txn[s],
           UNCHANGED <<status, score, answer, overtaken>>
    PROVE  ScoresOK'
  BY DEF ScoresOK, Exact, Rows, CorrectRows

(* A step that changes no row: the new counts and scores are right of the  *)
(* old rows.                                                               *)
LEMMA SameScores ==
    ASSUME UNCHANGED <<answer, overtaken>>,
           \A r \in Request : txn'[r].pc = "close"
                             => Exact(txn'[r].attempt, txn'[r].score),
           \A a \in Attempt : status'[a] = "completed" => Exact(a, score'[a])
    PROVE  ScoresOK'
  BY DEF ScoresOK, Exact, Rows, CorrectRows

(* A late answer is the only one that changes a count in use.              *)
LEMMA CommitScoresOK ==
    ASSUME TypeOK, ScoresOK, FenceOK, NEW r \in Request, SubmitCommit(r)
    PROVE  ScoresOK'
  <1> DEFINE t == txn[r]
             writes == t.write \in {"insert", "refill"}
  <1>1. /\ t \in SubmitTxn /\ t.stored # NoRow
        /\ t.attempt \in Attempt /\ t.question \in Question
    BY TxnKinds DEF SubmitCommit, SubmitTxn
  <1>2. /\ txn'[r].pc \in {"respond", "idle"}
        /\ \A s \in Request \ {r} : txn'[s] = txn[s]
        /\ UNCHANGED <<status, score>>
        /\ overtaken \subseteq overtaken'
    BY CommitMoves DEF SubmitCommit
  <1>3. ASSUME NEW a \in Attempt, a # t.attempt \/ ~writes
        PROVE  SameRows(a)
    <2>1. \A q \in Question : answer'[a][q] = answer[a][q]
      BY <1>1, <1>3 DEF SubmitCommit, TypeOK
    <2>2. QED
      BY <2>1, UntouchedRows
  <1>4. ASSUME NEW a \in Attempt, a = t.attempt, writes
        PROVE  Rows(a)' # {}
    <2>1. answer' = [answer EXCEPT ![a][t.question] = t.stored]
      BY <1>4 DEF SubmitCommit
    <2>2. answer'[a][t.question] # NoRow
      BY <1>1, <2>1 DEF TypeOK
    <2>3. QED
      BY <1>1, <2>2 DEF Rows
  <1>5. ASSUME NEW a \in Attempt, NEW n, Exact(a, n),
               a = t.attempt /\ writes => Overtakes(t)
        PROVE  Exact(a, n)'
    <2>1. CASE a = t.attempt /\ writes
      <3>1. overtaken' = overtaken \cup {t.attempt}
        BY <1>5, <2>1 DEF SubmitCommit
      <3>2. Rows(a)' # {}
        BY <1>4, <1>5, <2>1
      <3>3. a \in overtaken'
        BY <2>1, <3>1
      <3>4. QED
        BY <3>2, <3>3 DEF Exact
    <2>2. CASE ~(a = t.attempt /\ writes)
      BY <1>2, <1>3, <1>5, <2>2, SameExact
    <2>3. QED
      BY <2>1, <2>2
  <1>6. ASSUME NEW s \in Request, (txn[s].pc = "close")'
        PROVE  Exact(txn[s].attempt, txn[s].score)'
    <2>1. /\ txn'[s] = txn[s]
          /\ txn[s] \in CompleteTxn
          /\ txn[s].pc = "close"
      BY <1>2, <1>6, TxnKinds
    <2>2. txn[s].attempt \in Attempt /\ Exact(txn[s].attempt, txn[s].score)
      BY <2>1 DEF ScoresOK, CompleteTxn
    <2>3. ASSUME txn[s].attempt = t.attempt, writes
          PROVE  Overtakes(t)
      <3>1. t.write # "insert"
        BY <2>1, <2>3 DEF FenceOK, Inserting, Closing, SubmitCommit
      <3>2. QED
        BY <2>1, <2>3, <3>1 DEF Overtakes
    <2>4. QED
      BY <1>5, <2>1, <2>2, <2>3 DEF Exact, Rows, CorrectRows
  <1>7. ASSUME NEW a \in Attempt, status'[a] = "completed"
        PROVE  Exact(a, score[a])'
    <2>1. status[a] = "completed" /\ Exact(a, score[a])
      BY <1>2, <1>7 DEF ScoresOK
    <2>2. writes /\ a = t.attempt => Overtakes(t)
      BY <2>1 DEF Overtakes
    <2>3. QED
      BY <1>2, <1>5, <2>1, <2>2 DEF Exact, Rows, CorrectRows
  <1>8. QED
    BY <1>6, <1>7 DEF ScoresOK

(* The count is taken, and stored, under the lock.                         *)
LEMMA CloseScoresOK ==
    ASSUME TypeOK, ScoresOK, NEW r \in Request,
           CompleteReadAnswers(r) \/ CompleteClose(r)
    PROVE  ScoresOK'
  <1> DEFINE t == txn[r]
             a == t.attempt
  <1>1. t \in CompleteTxn /\ a \in Attempt
    BY TxnKinds DEF CompleteReadAnswers, CompleteClose, CompleteTxn
  <1>2. CASE CompleteReadAnswers(r)
    <2>1. /\ UNCHANGED <<status, score, answer, overtaken>>
          /\ \A s \in Request \ {r} : txn'[s] = txn[s]
      BY <1>2, GotoSets DEF CompleteReadAnswers, Finish
    <2>2. CASE txn'[r] = Idle
      BY <2>1, <2>2, ScoresLeave DEF Idle
    <2>3. CASE txn'[r] = Counted(t) /\ HasAnswers(a)
      <3>1. Exact(txn'[r].attempt, txn'[r].score)
        BY <1>1, <2>3, CountedFields DEF Exact, HasAnswers
      <3>2. \A s \in Request : txn'[s].pc = "close"
                                => Exact(txn'[s].attempt, txn'[s].score)
        BY <2>1, <3>1 DEF ScoresOK
      <3>3. QED
        BY <2>1, <3>2, SameScores DEF ScoresOK
    <2>4. QED
      BY <1>2, <2>2, <2>3, GotoSets DEF CompleteReadAnswers, Finish, Counted
  <1>3. CASE CompleteClose(r)
    <2>1. /\ txn'[r] = [t EXCEPT !.pc = "track"]
          /\ \A s \in Request \ {r} : txn'[s] = txn[s]
      BY <1>3, GotoSets DEF CompleteClose
    <2>2. txn'[r].pc = "track"
      BY <1>1, <2>1 DEF CompleteTxn
    <2>3. /\ \A b \in Attempt \ {a} : /\ status'[b] = status[b]
                                       /\ score'[b] = score[b]
          /\ score'[a] = t.score
          /\ UNCHANGED <<answer, overtaken>>
      BY <1>1, <1>3 DEF CompleteClose, TypeOK
    <2>4. Exact(a, t.score)
      BY <1>3 DEF CompleteClose, ScoresOK
    <2>5. \A b \in Attempt : status'[b] = "completed" => Exact(b, score'[b])
      BY <2>3, <2>4 DEF ScoresOK
    <2>6. \A s \in Request : txn'[s].pc = "close"
                              => Exact(txn'[s].attempt, txn'[s].score)
      BY <2>1, <2>2 DEF ScoresOK
    <2>7. QED
      BY <2>3, <2>5, <2>6, SameScores
  <1>4. QED
    BY <1>2, <1>3

(* An edit takes the options of answers, and leaves rows and verdicts.     *)
LEMMA ReplaceScoresOK ==
    ASSUME TypeOK, ScoresOK, NEW q \in Question,
           NEW correctSlots \in (SUBSET Slot) \ {{}},
           ReplaceOptions(q, correctSlots)
    PROVE  ScoresOK'
  <1>1. UNCHANGED <<status, score, txn, overtaken>>
    BY DEF ReplaceOptions
  <1>2. ASSUME NEW a \in Attempt
        PROVE  SameRows(a)
    <2>1. answer'[a] = IF q \in Rows(a)
                       THEN [answer[a] EXCEPT ![q].option = NULL]
                       ELSE answer[a]
      BY DEF ReplaceOptions
    <2>2. answer[a] \in [Question -> AnswerRow \cup {NoRow}]
      BY DEF TypeOK
    <2>3. CASE q \in Rows(a)
      <3> DEFINE row == [answer[a][q] EXCEPT !.option = NULL]
      <3>1. answer[a][q] \in AnswerRow
        BY <2>2, <2>3 DEF Rows
      <3>2. row \in AnswerRow /\ row.correct = answer[a][q].correct
        BY <3>1 DEF AnswerRow
      <3>3. row # NoRow
        BY <3>2, ConstantsAssumption DEF ConstantsAssumption
      <3>4. /\ answer'[a][q] = row
            /\ \A p \in Question \ {q} : answer'[a][p] = answer[a][p]
        BY <2>1, <2>2, <2>3
      <3> HIDE DEF row
      <3>5. Rows(a)' = Rows(a)
        BY <2>3, <3>3, <3>4 DEF Rows
      <3>6. \A p \in Rows(a) : answer'[a][p].correct = answer[a][p].correct
        BY <3>2, <3>4 DEF Rows
      <3>7. QED
        BY <3>5, <3>6 DEF SameRows, CorrectRows
    <2>4. CASE q \notin Rows(a)
      BY <2>1, <2>4, UntouchedRows
    <2>5. QED
      BY <2>3, <2>4
  <1>3. ASSUME NEW a \in Attempt, NEW n, Exact(a, n)
        PROVE  Exact(a, n)'
    BY <1>1, <1>2, <1>3, SameExact
  <1>4. ASSUME NEW s \in Request, txn[s].pc = "close"
        PROVE  txn[s].attempt \in Attempt
    BY <1>4, TxnKinds DEF CompleteTxn
  <1>5. QED
    BY <1>1, <1>3, <1>4 DEF ScoresOK, Exact, Rows, CorrectRows

(* The purge takes an attempt with all its answers, and none being scored. *)
LEMMA DeleteScoresOK ==
    ASSUME TypeOK, ScoresOK, ClosersOK, PurgeDelete
    PROVE  ScoresOK'
  <1>1. /\ UNCHANGED <<score, txn, overtaken>>
        /\ \A a \in Attempt :
              /\ a \in doomed => status'[a] = "deleted"
              /\ a \notin doomed => /\ status'[a] = status[a]
                                    /\ answer'[a] = answer[a]
    BY DEF PurgeDelete
  <1>2. ASSUME NEW a \in Attempt \ doomed, NEW n, Exact(a, n)
        PROVE  Exact(a, n)'
    BY <1>1, <1>2, UntouchedRows, SameExact
  <1>3. ASSUME NEW s \in Request, txn[s].pc = "close"
        PROVE  txn[s].attempt \in Attempt \ doomed
    BY <1>3, TxnKinds DEF CompleteTxn, ClosersOK, Closing
  <1>4. \A a \in Attempt : status'[a] = "completed"
                           => a \notin doomed /\ status[a] = "completed"
    BY <1>1
  <1>5. QED
    BY <1>1, <1>2, <1>3, <1>4 DEF ScoresOK, Exact, Rows, CorrectRows

LEMMA StepScoresOK ==
    ASSUME TypeOK, SubmitsOK, ClosersOK, FenceOK, ScoresOK, [Next]_vars
    PROVE  ScoresOK'
  <1>1. CASE Unseen
    BY <1>1 DEF Unseen, ScoresOK, Exact, Rows, CorrectRows
  <1>2. ASSUME NEW r \in Request, Serve(r) \/ Arrive(r) \/ Crash(r)
        PROVE  ScoresOK'
    <2>1. \A s \in Request \ {r} : txn'[s] = txn[s]
      BY <1>2, RequestSteps
    <2>2. CASE Submitting(r)
      <3>1. /\ txn'[r].pc # "close"
            /\ UNCHANGED <<status, score, answer, overtaken>>
        BY <2>2, SubmitPlaces
      <3>2. QED
        BY <2>1, <3>1, ScoresLeave
    <2>3. CASE CompleteLock(r)
      <3>1. txn[r] \in CompleteTxn
        BY <2>3, TxnKinds DEF CompleteLock
      <3>2. txn'[r] \in {Idle, [txn[r] EXCEPT !.pc = "read_answers"]}
        BY <2>3, GotoSets DEF CompleteLock, Finish
      <3>3. /\ txn'[r].pc # "close"
            /\ UNCHANGED <<status, score, answer, overtaken>>
        BY <2>3, <3>1, <3>2 DEF CompleteLock, Idle, CompleteTxn
      <3>4. QED
        BY <2>1, <3>3, ScoresLeave
    <2>4. CASE SubmitRespond(r) \/ CompleteTrack(r) \/ Crash(r)
      <3>1. /\ txn'[r].pc # "close"
            /\ UNCHANGED <<status, score, answer, overtaken>>
        BY <2>4, GotoSets DEF SubmitRespond, CompleteTrack, Crash, Finish, Idle
      <3>2. QED
        BY <2>1, <3>1, ScoresLeave
    <2>5. CASE Arrive(r)
      <3>1. /\ txn'[r].pc \in {"read_stored", "lock"}
            /\ UNCHANGED <<status, score, answer, overtaken>>
        BY <2>5 DEF Arrive, SubmitLoad, CompleteBegin, Goto, TypeOK
      <3>2. QED
        BY <2>1, <3>1, ScoresLeave
    <2>6. QED
      BY <1>2, <2>2, <2>3, <2>4, <2>5, CommitScoresOK, CloseScoresOK
         DEF Serve, Submitting
  <1>3. ASSUME NEW a \in Attempt, NEW questions \in SUBSET Question,
               CreateAttempt(a, questions)
        PROVE  ScoresOK'
    <2>1. /\ UNCHANGED <<score, answer, overtaken, txn>>
          /\ \A b \in Attempt : status'[b] = "completed"
                                 => status[b] = "completed"
      BY <1>3 DEF CreateAttempt, TypeOK
    <2>2. QED
      BY <2>1, SameScores DEF ScoresOK
  <1>4. CASE \E q \in Question, correctSlots \in (SUBSET Slot) \ {{}} :
                ReplaceOptions(q, correctSlots)
    BY <1>4, ReplaceScoresOK
  <1>5. CASE PurgeDelete
    BY <1>5, DeleteScoresOK
  <1>6. QED
    BY <1>1, <1>2, <1>3, <1>4, <1>5, Steps

LEMMA InitScoresOK == Init => FenceOK /\ ScoresOK
  BY DEF Init, FenceOK, Inserting, Closing, ScoresOK, Idle

LEMMA ScoresInv == Spec => [](FenceOK /\ ScoresOK)
  <1>1. AnswersOK /\ ClosersOK /\ FenceOK /\ ScoresOK /\ [Next]_vars
        => (FenceOK /\ ScoresOK)'
    BY StepFenceOK, StepScoresOK DEF AnswersOK
  <1>2. QED
    BY <1>1, InitScoresOK, AnswersInv, ClosersInv, PTL DEF Spec

(***************************************************************************)
(* No completed attempt is without answers, for any interleaving of        *)
(* completes with submits, edits and the purge (complete_attempt).         *)
(***************************************************************************)
THEOREM ClosedAnswered == Spec => []CompletedHasAnswer
  <1>1. ScoresOK => CompletedHasAnswer
    BY DEF ScoresOK, Exact, CompletedHasAnswer
  <1>2. QED
    BY <1>1, ScoresInv, PTL

(***************************************************************************)
(* The score of a completed attempt is the number of its correct answers,  *)
(* but for answers that came in while or after it was scored.              *)
(***************************************************************************)
THEOREM ClosedExactly == Spec => []ScoreExactUnlessOvertaken
  <1>1. ScoresOK => ScoreExactUnlessOvertaken
    BY DEF ScoresOK, Exact, ScoreExactUnlessOvertaken
  <1>2. QED
    BY <1>1, ScoresInv, PTL

Frozen ==
    \A a \in Attempt : status[a] = "completed" =>
        /\ status'[a] \in {"completed", "deleted"}
        /\ score'[a] = score[a]

(* who closes an attempt still finds it open                               *)
LEMMA StepFrozen ==
    ASSUME TypeOK, ClosersOK, [Next]_vars
    PROVE  Frozen
  <1>1. ASSUME NEW r \in Request, CompleteClose(r)
        PROVE  Frozen
    <2>1. status[txn[r].attempt] = "open"
      BY <1>1 DEF CompleteClose, ClosersOK, Closing
    <2>2. QED
      BY <1>1, <2>1 DEF Frozen, CompleteClose, TypeOK
  <1>2. ASSUME NEW r \in Request, Serve(r), ~CompleteClose(r)
        PROVE  Frozen
    BY <1>2 DEF Frozen, Serve, SubmitReadStored, SubmitReadOptions,
                StoreInsert, StoreRefill, StoreConflict, StoreAttemptKey,
                StoreOptionKey, SubmitCommit, SubmitRespond, CompleteLock,
                CompleteReadAnswers, CompleteTrack
  <1>3. ASSUME NEW r \in Request, Arrive(r) \/ Crash(r)
        PROVE  Frozen
    BY <1>3 DEF Frozen, Arrive, SubmitLoad, CompleteBegin, Crash
  <1>4. CASE \E a \in Attempt, questions \in SUBSET Question :
                CreateAttempt(a, questions)
    BY <1>4 DEF Frozen, CreateAttempt, TypeOK
  <1>5. CASE PurgeDelete
    BY <1>5 DEF Frozen, PurgeDelete
  <1>6. CASE \/ \E q \in Question, correctSlots \in (SUBSET Slot) \ {{}} :
                   ReplaceOptions(q, correctSlots)
             \/ Unseen
    BY <1>6 DEF Frozen, ReplaceOptions, Unseen
  <1>7. QED
    BY <1>1, <1>2, <1>3, <1>4, <1>5, <1>6, Steps

(***************************************************************************)
(* A completed attempt is scored no second time, and never reopened.       *)
(***************************************************************************)
THEOREM ClosedForGood == Spec => ScoreFrozen
  <1>1. TypeOK /\ ClosersOK /\ [Next]_vars => [Frozen]_vars
    BY StepFrozen
  <1>2. Spec => [][Frozen]_vars
    BY <1>1, TypeCorrect, ClosersInv, PTL DEF Spec
  <1>3. QED
    BY <1>2 DEF ScoreFrozen, Frozen

-----------------------------------------------------------------------------
(***************************************************************************)
(* The handlers implement AttemptContract.                                 *)
(*                                                                         *)
(* What the earlier proofs leave open is the score: the contract bounds it *)
(* by the answers accepted, while complete_attempt counts rows.  So the    *)
(* invariant relates the two: every row's verdict was accepted, every      *)
(* answer accepted has its row, and a count taken stays within the answers *)
(* accepted, since only an answer to a question that has one already can   *)
(* be committed while an attempt is being scored.                          *)
(***************************************************************************)

(* t is about a question of the quiz, and about its row if it found one    *)
Asks(t) ==
    /\ status[t.attempt] # "unborn"
    /\ t.question \in picked[t.attempt]
    /\ t.stored # NoRow /\ t.write # "insert" /\ Exists(t.attempt)
       => t.question \in Rows(t.attempt)

AskedOK == \A r \in Request : txn[r].pc \in Submits => Asks(txn[r])

Backs(c, a, q) ==
    /\ c.attempt = a
    /\ c.question = q
    /\ c.correct = answer[a][q].correct

RecordedOK ==
    /\ \A c \in recorded :
          /\ c.question \in picked[c.attempt]
          /\ Exists(c.attempt) => c.question \in Rows(c.attempt)
    /\ \A a \in Attempt : \A q \in Rows(a) :
          \E c \in recorded : Backs(c, a, q)

VictimsOK == \A a \in victims \cup doomed : status[a] # "unborn"

Within(a, n) ==
    Cardinality(Contract!Sure(a)) <= n /\ n <= Cardinality(Contract!Right(a))

BoundsOK ==
    \A r \in Request :
        txn[r].pc = "close" => Within(txn[r].attempt, txn[r].score)
-----------------------------------------------------------------------------
(* Verdicts and rows                                                       *)

(* no answer is committed, and rows go only with their attempt             *)
KeepsData ==
    /\ recorded' = recorded
    /\ \A a \in Attempt : status[a] # "unborn" =>
          /\ status'[a] # "unborn"
          /\ picked'[a] = picked[a]
          /\ Exists(a)' => Exists(a)
    /\ \A a \in Attempt : \A q \in Question :
          /\ Exists(a)' /\ q \in Rows(a) => q \in Rows(a)'
          /\ q \in Rows(a)' =>
                q \in Rows(a) /\ answer'[a][q].correct = answer[a][q].correct

LEMMA KeepsRecorded ==
    ASSUME TypeOK, ClaimsOK, RecordedOK, KeepsData
    PROVE  RecordedOK'
  <1>1. ASSUME NEW c \in recorded
        PROVE  /\ c.question \in picked'[c.attempt]
               /\ Exists(c.attempt)' => c.question \in Rows(c.attempt)'
    <2>1. /\ c.attempt \in Attempt /\ c.question \in Question
          /\ status[c.attempt] # "unborn"
      BY DEF TypeOK, ClaimsOK, Claimed, Claim
    <2>2. QED
      BY <2>1 DEF RecordedOK, KeepsData
  <1>2. ASSUME NEW a \in Attempt, NEW q \in Rows(a)'
        PROVE  \E c \in recorded : Backs(c, a, q)'
    <2>1. /\ q \in Question /\ q \in Rows(a)
          /\ answer'[a][q].correct = answer[a][q].correct
      BY DEF KeepsData, Rows
    <2>2. PICK c \in recorded : Backs(c, a, q)
      BY <2>1 DEF RecordedOK
    <2>3. QED
      BY <2>1, <2>2 DEF Backs
  <1>3. QED
    BY <1>1, <1>2 DEF RecordedOK, KeepsData

LEMMA KeepsAsked ==
    ASSUME TypeOK, TypeOK', AskedOK, KeepsData,
           \A r \in Request : \/ txn'[r] = txn[r]
                              \/ txn'[r].pc \notin Submits
                              \/ Asks(txn'[r])
    PROVE  AskedOK'
  <1> SUFFICES ASSUME NEW r \in Request, NEW t, t = txn'[r], t.pc \in Submits
               PROVE  Asks(t)'
    BY DEF AskedOK
  <1>1. Asks(t)
    BY DEF AskedOK
  <1>2. t \in {Idle} \cup SubmitTxn \cup CompleteTxn
    BY DEF TypeOK
  <1>3. t.attempt \in Attempt /\ t.question \in Question
    BY <1>2 DEF Submits, SubmitTxn, CompleteTxn, Idle
  <1>4. QED
    BY <1>1, <1>3 DEF Asks, KeepsData

LEMMA SameKeeps ==
    ASSUME UNCHANGED <<recorded, answer, picked>>,
           \A a \in Attempt : Exists(a)' <=> Exists(a),
           \A a \in Attempt : status'[a] = "unborn" <=> status[a] = "unborn"
    PROVE  KeepsData
  BY DEF KeepsData, Rows

(* A submit on its way to the commit.                                      *)
LEMMA SubmitAsked ==
    ASSUME TypeOK, TypeOK', SubmitsOK, AskedOK, NEW r \in Request,
           Submitting(r)
    PROVE  KeepsData /\ AskedOK'
  <1> DEFINE t == txn[r]
             row == answer[t.attempt][t.question]
  <1>1. KeepsData
    <2>1. UNCHANGED <<recorded, answer, status, picked>>
      BY SubmitMoves
    <2>2. QED
      BY <2>1, SameKeeps DEF Exists
  <1>2. t \in SubmitTxn
    BY SubmitMoves, TxnKinds
  <1>3. t.pc \in Submits /\ Asks(t) /\ KnowsOK(t) /\ HoldsOK(t)
    BY SubmitMoves DEF Submits, AskedOK, SubmitsOK
  <1>4. ASSUME NEW u, Continues(r, u)
        PROVE  Asks(u)
    <2>1. CASE u = Reread(t)
      <3>1. /\ u.attempt = t.attempt /\ u.question = t.question
            /\ u.stored = Stored(t.attempt, t.question)
        BY <1>2, <2>1, RereadFields DEF SameRequest
      <3>2. QED
        BY <1>3, <3>1 DEF Asks, Stored
    <2>2. CASE u = ToStore(t) \/ u = ToCommit(t) \/ u = ToOption(t)
      <3>1. /\ u.attempt = t.attempt /\ u.question = t.question
            /\ u.stored = t.stored /\ u.write = t.write
        BY <1>2, <2>2, ToStoreFields, ToCommitFields, ToOptionFields
           DEF SameRequest
      <3>2. QED
        BY <1>3, <3>1 DEF Asks
    <2>3. CASE /\ StoreInsert(r) \/ StoreRefill(r)
               /\ \/ u = ToWrite(t, "attempt_key", "insert")
                  \/ u = ToWrite(t, "option_key", "refill")
      <3>1. /\ u.attempt = t.attempt /\ u.question = t.question
            /\ u.stored = t.stored
        BY <1>2, <2>3, ToWriteFields DEF SameRequest
      <3>2. t.stored = NoRow
        BY <1>3, <2>3
           DEF StoreInsert, StoreRefill, ReadyToStore, KnowsOK
      <3>3. QED
        BY <1>3, <3>1, <3>2 DEF Asks
    <2>4. CASE StoreConflict(r) /\ u = ToHeld(t, row)
      <3>1. u.attempt = t.attempt /\ u.question = t.question
        BY <1>2, <2>4, ToHeldFields DEF SameRequest
      <3>2. t.question \in Rows(t.attempt)
        BY <1>2, <2>4 DEF StoreConflict, Rows, SubmitTxn
      <3>3. QED
        BY <1>3, <3>1, <3>2 DEF Asks
    <2>5. CASE StoreOptionKey(r) /\ u = ToWritten(t)
      <3>1. /\ u.attempt = t.attempt /\ u.question = t.question
            /\ u.write = t.write
        BY <1>2, <2>5, ToWrittenFields DEF SameRequest
      <3>2. t.write # "insert" => t.question \in Rows(t.attempt)
        BY <1>3, <2>5 DEF StoreOptionKey, KnowsOK, HoldsOK
      <3>3. QED
        BY <1>3, <3>1, <3>2 DEF Asks
    <2>6. QED
      BY <1>4, <2>1, <2>2, <2>3, <2>4, <2>5 DEF Continues
  <1>5. CASE Goto(r, Idle)
    <2>1. \A s \in Request : txn'[s] = txn[s] \/ txn'[s].pc \notin Submits
      BY <1>5, GotoSets DEF Idle, Submits
    <2>2. QED
      BY <1>1, <2>1, KeepsAsked
  <1>6. CASE \E u : Goto(r, u) /\ Continues(r, u)
    <2>1. PICK u : Goto(r, u) /\ Continues(r, u)
      BY <1>6
    <2>2. \A s \in Request : txn'[s] = txn[s] \/ Asks(txn'[s])
      BY <1>4, <2>1, GotoSets
    <2>3. QED
      BY <1>1, <2>2, KeepsAsked
  <1>7. QED
    BY <1>1, <1>5, <1>6, SubmitMoves

(* The commit records the verdict that it stores.                          *)
LEMMA CommitRecorded ==
    ASSUME TypeOK, TypeOK', AskedOK, RecordedOK,
           NEW r \in Request, SubmitCommit(r)
    PROVE  AskedOK' /\ RecordedOK'
  <1> SUFFICES ASSUME NEW t, t = txn[r]
               PROVE  AskedOK' /\ RecordedOK'
    OBVIOUS
  <1> DEFINE writes == t.write \in {"insert", "refill"}
  <1>1. /\ t \in SubmitTxn /\ t.stored # NoRow
        /\ t.attempt \in Attempt /\ t.question \in Question
        /\ Asks(t)
    BY TxnKinds DEF SubmitCommit, SubmitTxn, AskedOK, Submits
  <1>2. /\ txn'[r] = ToRespond(t)
        /\ \A s \in Request \ {r} : txn'[s] = txn[s]
        /\ UNCHANGED <<status, picked>>
        /\ recorded' = IF writes THEN recorded \cup {ClaimOf(t)} ELSE recorded
    BY CommitMoves DEF SubmitCommit
  <1>3. \A a \in Attempt, q \in Question :
           ~(writes /\ a = t.attempt /\ q = t.question)
           => answer'[a][q] = answer[a][q]
    BY <1>1 DEF SubmitCommit, TypeOK
  <1>4. writes => answer'[t.attempt][t.question] = t.stored
    BY <1>1 DEF SubmitCommit, TypeOK
  <1>5. \A a \in Attempt : Rows(a) \subseteq Rows(a)'
    BY <1>1, <1>3, <1>4 DEF Rows
  <1>6. writes => t.question \in Rows(t.attempt)'
    BY <1>1, <1>4 DEF Rows
  <1>7. AskedOK'
    <2> SUFFICES ASSUME NEW s \in Request, NEW u, u = txn'[s], u.pc \in Submits
                 PROVE  Asks(u)'
      BY DEF AskedOK
    <2>1. CASE s = r
      <3>1. /\ u.attempt = t.attempt /\ u.question = t.question
            /\ u.stored = t.stored
        BY <1>1, <1>2, <2>1, ToRespondFields DEF SameRequest
      <3>2. Exists(t.attempt)' => t.question \in Rows(t.attempt)'
        BY <1>1, <1>2, <1>5, <1>6 DEF Asks, Exists
      <3>3. QED
        BY <1>1, <1>2, <3>1, <3>2 DEF Asks, Exists
    <2>2. CASE s # r
      <3>1. u = txn[s] /\ u \in SubmitTxn /\ Asks(u)
        BY <1>2, <2>2, TxnKinds DEF Submits, AskedOK
      <3>2. QED
        BY <1>2, <1>5, <3>1 DEF Asks, Exists, SubmitTxn
    <2>3. QED
      BY <2>1, <2>2
  <1>8. ASSUME NEW c \in recorded'
        PROVE  /\ c.question \in picked'[c.attempt]
               /\ Exists(c.attempt)' => c.question \in Rows(c.attempt)'
    <2>1. CASE c \in recorded
      <3>1. c.attempt \in Attempt
        BY <2>1 DEF TypeOK, Claim
      <3>2. QED
        BY <1>2, <1>5, <2>1, <3>1 DEF RecordedOK, Exists
    <2>2. CASE c = ClaimOf(t) /\ writes
      <3>1. c.attempt = t.attempt /\ c.question = t.question
        BY <2>2 DEF ClaimOf
      <3>2. QED
        BY <1>1, <1>2, <1>6, <2>2, <3>1 DEF Asks
    <2>3. QED
      BY <1>2, <2>1, <2>2
  <1>9. ASSUME NEW a \in Attempt, NEW q \in Rows(a)'
        PROVE  \E c \in recorded' : Backs(c, a, q)'
    <2>1. CASE writes /\ a = t.attempt /\ q = t.question
      <3>1. Backs(ClaimOf(t), a, q)'
        BY <1>4, <2>1 DEF Backs, ClaimOf
      <3>2. QED
        BY <1>2, <2>1, <3>1
    <2>2. CASE ~(writes /\ a = t.attempt /\ q = t.question)
      <3>1. q \in Question /\ answer'[a][q] = answer[a][q]
        BY <1>3, <2>2 DEF Rows
      <3>2. q \in Rows(a)
        BY <3>1 DEF Rows
      <3>3. PICK c \in recorded : Backs(c, a, q)
        BY <3>2 DEF RecordedOK
      <3>4. QED
        BY <1>2, <3>1, <3>3 DEF Backs
    <2>3. QED
      BY <2>1, <2>2
  <1>10. QED
    BY <1>7, <1>8, <1>9 DEF RecordedOK

(* where complete_attempt goes                                             *)
LEMMA CompletePlaces ==
    ASSUME TypeOK, NEW r \in Request,
           \/ CompleteLock(r)
           \/ CompleteReadAnswers(r)
           \/ CompleteClose(r)
           \/ CompleteTrack(r)
    PROVE  /\ txn[r] \in CompleteTxn
           /\ txn'[r].pc \in {"idle", "read_answers", "close", "track"}
           /\ txn'[r].pc = "close" => CompleteReadAnswers(r)
  <1>1. txn[r].pc \in {"lock", "read_answers", "close", "track"}
    BY DEF CompleteLock, CompleteReadAnswers, CompleteClose, CompleteTrack
  <1>2. txn[r] \in CompleteTxn
    BY <1>1, TxnKinds
  <1>3. CASE Goto(r, Idle)
    BY <1>2, <1>3, GotoSets DEF Idle
  <1>4. CASE Goto(r, [txn[r] EXCEPT !.pc = "read_answers"])
    BY <1>2, <1>4, GotoSets DEF CompleteTxn
  <1>5. CASE CompleteReadAnswers(r) /\ Goto(r, Counted(txn[r]))
    BY <1>2, <1>5, GotoSets, CountedFields
  <1>6. CASE Goto(r, [txn[r] EXCEPT !.pc = "track"])
    BY <1>2, <1>6, GotoSets DEF CompleteTxn
  <1>7. QED
    BY <1>3, <1>4, <1>5, <1>6
       DEF CompleteLock, CompleteReadAnswers, CompleteClose, CompleteTrack,
           Finish, Counted

(* every step of a request but the ones above: no answer comes of it       *)
LEMMA OtherAsked ==
    ASSUME TypeOK, TypeOK', ClosersOK, AskedOK, NEW r \in Request,
           \/ Arrive(r)
           \/ Crash(r)
           \/ SubmitRespond(r)
           \/ CompleteLock(r)
           \/ CompleteReadAnswers(r)
           \/ CompleteClose(r)
           \/ CompleteTrack(r)
    PROVE  KeepsData /\ AskedOK'
  <1>1. KeepsData
    <2>1. CASE CompleteClose(r)
      <3>1. /\ status[txn[r].attempt] = "open"
            /\ txn[r].attempt \in Attempt
        BY <2>1, TxnKinds DEF CompleteClose, ClosersOK, Closing, CompleteTxn
      <3>2. QED
        BY <2>1, <3>1, SameKeeps DEF CompleteClose, Exists, TypeOK
    <2>2. CASE UNCHANGED status
      <3>1. UNCHANGED <<recorded, answer, status, picked>>
        BY <2>2 DEF Arrive, SubmitLoad, CompleteBegin, Crash, SubmitRespond,
                    CompleteLock, CompleteReadAnswers, CompleteClose,
                    CompleteTrack
      <3>2. QED
        BY <3>1, SameKeeps DEF Exists
    <2>3. QED
      BY <2>1, <2>2 DEF Arrive, SubmitLoad, CompleteBegin, Crash,
                        SubmitRespond, CompleteLock, CompleteReadAnswers,
                        CompleteTrack
  <1>2. \A s \in Request \ {r} : txn'[s] = txn[s]
    BY RequestSteps DEF Serve
  <1>3. txn'[r].pc \notin Submits \/ Asks(txn'[r])
    <2>1. CASE Arrive(r)
      BY <2>1 DEF Arrive, SubmitLoad, CompleteBegin, Goto, TypeOK, Asks,
                  Submits, Exists
    <2>2. CASE Crash(r) \/ SubmitRespond(r)
      BY <2>2, GotoSets DEF Crash, SubmitRespond, Finish, Idle, Submits
    <2>3. CASE ~Arrive(r) /\ ~Crash(r) /\ ~SubmitRespond(r)
      BY <2>3, CompletePlaces DEF Submits
    <2>4. QED
      BY <2>1, <2>2, <2>3
  <1>4. QED
    BY <1>1, <1>2, <1>3, KeepsAsked

(* what admins, the job and new attempts do                                *)
LEMMA RestAsked ==
    ASSUME TypeOK, TypeOK', VictimsOK, AskedOK,
           \/ \E a \in Attempt, questions \in SUBSET Question :
                 CreateAttempt(a, questions)
           \/ \E q \in Question, correctSlots \in (SUBSET Slot) \ {{}} :
                 ReplaceOptions(q, correctSlots)
           \/ PurgeDelete
           \/ Unseen
    PROVE  KeepsData /\ AskedOK'
  <1>1. UNCHANGED txn
    BY DEF CreateAttempt, ReplaceOptions, PurgeDelete, Unseen
  <1>2. CASE \E a \in Attempt, questions \in SUBSET Question :
                CreateAttempt(a, questions)
    <2>1. PICK a \in Attempt, questions \in SUBSET Question :
             CreateAttempt(a, questions)
      BY <1>2
    <2>2. /\ UNCHANGED <<recorded, answer>>
          /\ status[a] = "unborn" /\ status'[a] = "open"
          /\ \A b \in Attempt \ {a} : /\ status'[b] = status[b]
                                      /\ picked'[b] = picked[b]
      BY <2>1 DEF CreateAttempt, TypeOK
    <2>3. KeepsData
      BY <2>2 DEF KeepsData, Exists, Rows
    <2>4. QED
      BY <1>1, <2>3, KeepsAsked
  <1>3. CASE \E q \in Question, correctSlots \in (SUBSET Slot) \ {{}} :
                ReplaceOptions(q, correctSlots)
    <2>1. PICK q \in Question, correctSlots \in (SUBSET Slot) \ {{}} :
             ReplaceOptions(q, correctSlots)
      BY <1>3
    <2>2. ASSUME NEW a \in Attempt, NEW p \in Question
          PROVE  /\ p \in Rows(a) <=> p \in Rows(a)'
                 /\ p \in Rows(a)
                    => answer'[a][p].correct = answer[a][p].correct
      <3>1. answer'[a] = IF q \in Rows(a)
                         THEN [answer[a] EXCEPT ![q].option = NULL]
                         ELSE answer[a]
        BY <2>1 DEF ReplaceOptions
      <3>2. answer[a] \in [Question -> AnswerRow \cup {NoRow}]
        BY DEF TypeOK
      <3>3. CASE p = q /\ q \in Rows(a)
        <4>1. answer[a][q] \in AnswerRow
          BY <3>2, <3>3 DEF Rows
        <4>2. answer'[a][p] = [answer[a][q] EXCEPT !.option = NULL]
          BY <3>1, <3>2, <3>3
        <4>3. answer'[a][p] \in AnswerRow
              /\ answer'[a][p].correct = answer[a][p].correct
          BY <3>3, <4>1, <4>2 DEF AnswerRow
        <4>4. QED
          BY <3>3, <4>3, ConstantsAssumption DEF Rows, ConstantsAssumption
      <3>4. CASE ~(p = q /\ q \in Rows(a))
        <4>1. answer'[a][p] = answer[a][p]
          BY <3>1, <3>2, <3>4
        <4>2. QED
          BY <4>1 DEF Rows
      <3>5. QED
        BY <3>3, <3>4
    <2>3. UNCHANGED <<recorded, status, picked>>
      BY <2>1 DEF ReplaceOptions
    <2>4. KeepsData
      BY <2>2, <2>3 DEF KeepsData, Exists
    <2>5. QED
      BY <1>1, <2>4, KeepsAsked
  <1>4. CASE PurgeDelete
    <2>1. /\ UNCHANGED <<recorded, picked>>
          /\ \A a \in Attempt :
                /\ a \in doomed =>
                      /\ status'[a] = "deleted"
                      /\ \A q \in Question : answer'[a][q] = NoRow
                /\ a \notin doomed =>
                      status'[a] = status[a] /\ answer'[a] = answer[a]
      BY <1>4 DEF PurgeDelete
    <2>2. KeepsData
      BY <2>1 DEF KeepsData, Exists, Rows
    <2>3. QED
      BY <1>1, <2>2, KeepsAsked
  <1>5. CASE Unseen
    <2>1. KeepsData
      BY <1>5, SameKeeps DEF Unseen, Exists
    <2>2. QED
      BY <1>1, <2>1, KeepsAsked
  <1>6. QED
    BY <1>2, <1>3, <1>4, <1>5

LEMMA StepVictimsOK ==
    ASSUME TypeOK, VictimsOK, [Next]_vars
    PROVE  VictimsOK'
  <1>1. CASE UNCHANGED <<victims, doomed, status>>
    BY <1>1 DEF VictimsOK
  <1>2. ASSUME NEW r \in Request, Serve(r) \/ Arrive(r) \/ Crash(r)
        PROVE  VictimsOK'
    <2>1. UNCHANGED <<victims, doomed>>
      BY <1>2, RequestSteps
    <2>2. \A a \in Attempt : status[a] # "unborn" => status'[a] # "unborn"
      <3>1. CASE Submitting(r)
        BY <3>1, SubmitMoves
      <3>2. CASE ~Submitting(r)
        BY <1>2, <3>2
           DEF Serve, Submitting, Arrive, Crash, SubmitLoad, SubmitCommit,
               SubmitRespond, CompleteBegin, CompleteLock,
               CompleteReadAnswers, CompleteClose, CompleteTrack, TypeOK
      <3>3. QED
        BY <3>1, <3>2
    <2>3. QED
      BY <2>1, <2>2 DEF VictimsOK, TypeOK
  <1>3. CASE \/ \E a \in Attempt, questions \in SUBSET Question :
                   CreateAttempt(a, questions)
             \/ \E q \in Question : EditStep(q) \/ EditAbort(q)
             \/ \E a \in Attempt : Age(a)
    BY <1>3 DEF CreateAttempt, EditStep, EditDelete, EditNull, ReplaceOptions,
                EditAbort, Age, VictimsOK, TypeOK
  <1>4. CASE Purge
    BY <1>4 DEF Purge, PurgeStep, PurgeStart, PurgeSelect, PurgeTake,
                PurgeSweep, PurgeDelete, PurgeFinish, PurgeCrash, Abandoned,
                VictimsOK, TypeOK
  <1>5. QED
    BY <1>1, <1>2, <1>3, <1>4 DEF Next, vars

LEMMA StepRecordedOK ==
    ASSUME AnswersOK, ClosersOK, VictimsOK, AskedOK, RecordedOK, [Next]_vars
    PROVE  AskedOK' /\ RecordedOK'
  <1>1. TypeOK /\ TypeOK' /\ SubmitsOK /\ ClaimsOK
    BY StepTypeOK DEF AnswersOK
  <1>2. ASSUME NEW r \in Request, Serve(r), ~SubmitCommit(r)
        PROVE  KeepsData /\ AskedOK'
    BY <1>1, <1>2, SubmitAsked, OtherAsked DEF Serve, Submitting
  <1>3. ASSUME NEW r \in Request, SubmitCommit(r)
        PROVE  AskedOK' /\ RecordedOK'
    BY <1>1, <1>3, CommitRecorded
  <1>4. ASSUME NEW r \in Request, Arrive(r) \/ Crash(r)
        PROVE  KeepsData /\ AskedOK'
    BY <1>1, <1>4, OtherAsked
  <1>5. QED
    BY <1>1, <1>2, <1>3, <1>4, RestAsked, KeepsRecorded, Steps
-----------------------------------------------------------------------------
(* The score                                                               *)

LEMMA SureRight ==
    ASSUME NEW a \in Attempt
    PROVE  /\ IsFiniteSet(Contract!Right(a)) /\ IsFiniteSet(Contract!Sure(a))
           /\ Cardinality(Contract!Right(a)) \in Nat
           /\ Cardinality(Contract!Sure(a)) \in Nat
  <1>1. /\ Contract!Right(a) \subseteq Question
        /\ Contract!Sure(a) \subseteq Question
    BY DEF Contract!Right, Contract!Sure
  <1>2. QED
    BY <1>1, ConstantsAssumption, FS_Subset, FS_CardinalityType
       DEF ConstantsAssumption

(* The rows are between the answers surely right and those called right.   *)
LEMMA CountWithin ==
    ASSUME TypeOK, RecordedOK, NEW a \in Attempt, Exists(a)
    PROVE  Within(a, Cardinality(CorrectRows(a)))
  <1>1. Contract!Sure(a) \subseteq CorrectRows(a)
    <2> SUFFICES ASSUME NEW q \in Contract!Sure(a)
                 PROVE  q \in CorrectRows(a)
      OBVIOUS
    <2>1. PICK c \in recorded : c.attempt = a /\ c.question = q
      BY DEF Contract!Sure, Contract!Right, Contract!AcceptedOn
    <2>2. q \in Rows(a)
      BY <2>1 DEF RecordedOK
    <2>3. PICK d \in recorded : Backs(d, a, q)
      BY <2>2 DEF RecordedOK
    <2>4. d.correct
      BY <2>3 DEF Backs, Contract!Sure, Contract!AcceptedOn
    <2>5. QED
      BY <2>2, <2>3, <2>4 DEF Backs, CorrectRows
  <1>2. CorrectRows(a) \subseteq Contract!Right(a)
    <2> SUFFICES ASSUME NEW q \in CorrectRows(a)
                 PROVE  q \in Contract!Right(a)
      OBVIOUS
    <2>1. q \in Rows(a) /\ q \in Question /\ answer[a][q].correct
      BY DEF CorrectRows, Rows
    <2>2. PICK c \in recorded : Backs(c, a, q)
      BY <2>1 DEF RecordedOK
    <2>3. QED
      BY <2>1, <2>2 DEF Backs, Contract!Right, Contract!AcceptedOn
  <1>3. IsFiniteSet(CorrectRows(a))
    BY <1>2, SureRight, FS_Subset
  <1>4. QED
    BY <1>1, <1>2, <1>3, SureRight, FS_Subset DEF Within

(* Another verdict on a question that has one leaves the bounds apart.     *)
LEMMA BoundsWiden ==
    ASSUME NEW a \in Attempt, NEW n \in Nat, Within(a, n),
           NEW c, recorded' = recorded \cup {c},
           c.attempt = a =>
              \E d \in recorded : d.attempt = a /\ d.question = c.question
    PROVE  Within(a, n)'
  <1>1. Contract!Right(a) \subseteq Contract!Right(a)'
    BY DEF Contract!Right, Contract!AcceptedOn
  <1>2. Contract!Sure(a)' \subseteq Contract!Sure(a)
    BY DEF Contract!Sure, Contract!Right, Contract!AcceptedOn
  <1>3. /\ IsFiniteSet(Contract!Right(a)')
        /\ Cardinality(Contract!Right(a)') \in Nat
    <2>1. Contract!Right(a)' \subseteq Question
      BY DEF Contract!Right
    <2>2. QED
      BY <2>1, ConstantsAssumption, FS_Subset, FS_CardinalityType
         DEF ConstantsAssumption
  <1>4. /\ Cardinality(Contract!Right(a)) <= Cardinality(Contract!Right(a)')
        /\ Cardinality(Contract!Sure(a)') <= Cardinality(Contract!Sure(a))
        /\ Cardinality(Contract!Sure(a)') \in Nat
    BY <1>1, <1>2, <1>3, SureRight, FS_Subset, FS_CardinalityType
  <1>5. QED
    BY <1>3, <1>4, SureRight DEF Within

LEMMA StepBoundsOK ==
    ASSUME TypeOK, SubmitsOK, ClosersOK, FenceOK, AskedOK, RecordedOK, BoundsOK,
           [Next]_vars
    PROVE  BoundsOK'
  <1>1. CASE UNCHANGED <<txn, recorded>>
    BY <1>1 DEF BoundsOK, Within, Contract!Right, Contract!Sure,
                Contract!AcceptedOn
  <1>2. ASSUME NEW r \in Request, SubmitCommit(r)
        PROVE  BoundsOK'
    <2> SUFFICES ASSUME NEW s \in Request, txn'[s].pc = "close",
                        NEW u, u = txn[s], NEW t, t = txn[r],
                        NEW c, c = ClaimOf(t)
                 PROVE  Within(txn[s].attempt, txn[s].score)'
      BY DEF BoundsOK
    <2>1. /\ s # r /\ txn'[s] = u /\ u.pc = "close"
          /\ u \in CompleteTxn
          /\ t.pc = "commit" /\ t \in SubmitTxn /\ t.stored # NoRow
      BY <1>2, CommitMoves, TxnKinds DEF SubmitCommit, SubmitTxn
    <2>2. /\ u.attempt \in Attempt /\ u.score \in Nat
          /\ Within(u.attempt, u.score)
          /\ status[u.attempt] = "open"
      BY <2>1 DEF CompleteTxn, BoundsOK, ClosersOK, Closing
    <2>3. ASSUME c.attempt = u.attempt, t.write = "refill"
          PROVE  \E d \in recorded :
                    d.attempt = u.attempt /\ d.question = c.question
      <3>1. t.attempt = u.attempt /\ c.question = t.question
        BY <2>3 DEF ClaimOf
      <3>2. t.question \in Rows(t.attempt)
        BY <2>1, <2>2, <2>3, <3>1 DEF AskedOK, Asks, Submits, Exists
      <3>3. QED
        BY <2>2, <3>1, <3>2 DEF RecordedOK, Backs
    <2>4. t.write = "insert" => c.attempt # u.attempt
      BY <2>1 DEF FenceOK, Inserting, Closing, ClaimOf
    <2>5. Within(u.attempt, u.score)'
      <3>1. CASE t.write \in {"insert", "refill"}
        <4>1. recorded' = recorded \cup {c}
          BY <1>2, <3>1 DEF SubmitCommit
        <4>2. QED
          BY <2>1, <2>2, <2>3, <2>4, <3>1, <4>1, BoundsWiden
      <3>2. CASE t.write \notin {"insert", "refill"}
        <4>1. recorded' = recorded
          BY <1>2, <3>2 DEF SubmitCommit
        <4>2. QED
          BY <2>1, <2>2, <4>1 DEF Within, Contract!Right, Contract!Sure,
                                  Contract!AcceptedOn
      <3>3. QED
        BY <3>1, <3>2
    <2>6. QED
      BY <2>1, <2>5
  <1>3. ASSUME NEW r \in Request, CompleteReadAnswers(r)
        PROVE  BoundsOK'
    <2> SUFFICES ASSUME NEW s \in Request, txn'[s].pc = "close",
                        NEW u, u = txn'[s]
                 PROVE  Within(u.attempt, u.score)
      BY <1>3 DEF CompleteReadAnswers, BoundsOK, Within, Contract!Right,
                  Contract!Sure, Contract!AcceptedOn
    <2>1. CASE s # r
      BY <1>3, <2>1, GotoSets DEF CompleteReadAnswers, Finish, BoundsOK
    <2>2. CASE s = r
      <3>1. txn[r] \in CompleteTxn /\ txn[r].attempt \in Attempt
        BY <1>3, TxnKinds DEF CompleteReadAnswers, CompleteTxn
      <3>2. u = Counted(txn[r])
        BY <1>3, <2>2, GotoSets DEF CompleteReadAnswers, Finish, Counted, Idle
      <3>3. Exists(txn[r].attempt)
        BY <1>3 DEF CompleteReadAnswers, ClosersOK, Closing, Exists
      <3>4. Within(txn[r].attempt, Cardinality(CorrectRows(txn[r].attempt)))
        BY <3>1, <3>3, CountWithin
      <3>5. QED
        BY <3>1, <3>2, <3>4, CountedFields
    <2>3. QED
      BY <2>1, <2>2
  <1>4. ASSUME NEW r \in Request, Serve(r) \/ Arrive(r) \/ Crash(r),
               ~SubmitCommit(r), ~CompleteReadAnswers(r)
        PROVE  BoundsOK'
    <2>1. UNCHANGED recorded
      <3>1. CASE Submitting(r)
        BY <3>1, SubmitMoves
      <3>2. CASE ~Submitting(r)
        BY <1>4, <3>2
           DEF Serve, Submitting, Arrive, Crash, SubmitLoad, SubmitRespond,
               CompleteBegin, CompleteLock, CompleteClose, CompleteTrack
      <3>3. QED
        BY <3>1, <3>2
    <2>2. txn'[r].pc # "close"
      <3>1. CASE Arrive(r)
        BY <3>1 DEF Arrive, SubmitLoad, CompleteBegin, Goto, TypeOK
      <3>2. CASE Crash(r)
        BY <3>2, GotoSets DEF Crash, Finish, Idle
      <3>3. CASE ~Arrive(r) /\ ~Crash(r)
        BY <1>4, <3>3, CompletePlaces, SubmitPlaces, CommitMoves
           DEF Serve, Submitting
      <3>4. QED
        BY <3>1, <3>2, <3>3
    <2>3. \A s \in Request \ {r} : txn'[s] = txn[s]
      BY <1>4, RequestSteps
    <2>4. QED
      BY <2>1, <2>2, <2>3 DEF BoundsOK, Within, Contract!Right,
                              Contract!Sure, Contract!AcceptedOn
  <1>5. CASE \/ \E a \in Attempt, questions \in SUBSET Question :
                   CreateAttempt(a, questions)
             \/ \E q \in Question, correctSlots \in (SUBSET Slot) \ {{}} :
                   ReplaceOptions(q, correctSlots)
             \/ PurgeDelete
             \/ Unseen
    <2>1. UNCHANGED <<txn, recorded>>
      BY <1>5 DEF CreateAttempt, ReplaceOptions, PurgeDelete, Unseen
    <2>2. QED
      BY <1>1, <2>1
  <1>6. QED
    BY <1>2, <1>3, <1>4, <1>5, Steps
-----------------------------------------------------------------------------
(* The refinement                                                          *)

(* the contract extends FiniteSets by itself                               *)
LEMMA SameCardinality == \A S : Contract!Cardinality(S) = Cardinality(S)
  BY DEF Contract!Cardinality, Cardinality

(* what the contract does not see                                          *)
LEMMA Stutters ==
    ASSUME UNCHANGED <<attemptVars, recorded, told, reported, tracked>>
    PROVE  UNCHANGED Contract!vars
  BY DEF Contract!vars

LEMMA CommitAccepts ==
    ASSUME AnswersOK, AskedOK, NEW r \in Request, SubmitCommit(r)
    PROVE  [Contract!Next]_Contract!vars
  <1> SUFFICES ASSUME NEW t, t = txn[r], NEW c, c = ClaimOf(t),
                      c \notin recorded, t.write \in {"insert", "refill"}
               PROVE  Contract!Next
    BY Stutters DEF SubmitCommit, Contract!vars
  <1>1. /\ recorded' = recorded \cup {c}
        /\ UNCHANGED <<attemptVars, told, reported, tracked>>
        /\ t.pc = "commit"
    BY DEF SubmitCommit
  <1>2. Writing(r)
    BY <1>1 DEF Writing
  <1>3. c \in Claim /\ Claimed(c)
    BY <1>2, ClaimTypeOK DEF AnswersOK, Claimed
  <1>4. /\ c.attempt = t.attempt /\ c.question = t.question
        /\ status[c.attempt] # "unborn"
        /\ c.option.question = c.question
        /\ c.question \in picked[c.attempt]
    BY <1>1, <1>3 DEF AnswersOK, ClaimsOK, AskedOK, Asks, Submits, ClaimOf
  <1>5. ASSUME NEW d \in recorded
        PROVE  ~Contract!SameList(c, d)
    <2>1. d \in Claim /\ Claimed(d)
      BY DEF AnswersOK, TypeOK, Claimed
    <2>2. QED
      BY <1>3, <2>1 DEF AnswersOK, AgreeOK, Contract!SameList
  <1>6. Contract!Accept(c)
    BY <1>1, <1>4, <1>5 DEF Contract!Accept
  <1>7. QED
    BY <1>1, <1>6 DEF Contract!Next

LEMMA RespondTells ==
    ASSUME AnswersOK, NEW r \in Request, SubmitRespond(r)
    PROVE  Contract!Next
  <1> SUFFICES ASSUME NEW t, t = txn[r], NEW c, c = ClaimOf(t)
               PROVE  Contract!Next
    OBVIOUS
  <1>1. /\ told' = told \cup {c}
        /\ UNCHANGED <<attemptVars, recorded, reported, tracked>>
        /\ t.pc = "respond"
    BY DEF SubmitRespond
  <1>2. t.stored # NoRow /\ t.write = "none"
    BY <1>1, TxnKinds, SubmitKnows DEF AnswersOK, SubmitTxn, Submits, KnowsOK
  <1>3. c \in recorded
    BY <1>1, <1>2 DEF AnswersOK, ToldOK, Replays
  <1>4. Contract!Tell(c)
    BY <1>1, <1>3 DEF Contract!Tell
  <1>5. QED
    BY <1>1, <1>3, <1>4 DEF Contract!Next

LEMMA CloseCompletes ==
    ASSUME TypeOK, ClosersOK, ScoresOK, RecordedOK, BoundsOK,
           NEW r \in Request, CompleteClose(r)
    PROVE  Contract!Next
  <1> SUFFICES ASSUME NEW t, t = txn[r], NEW a, a = t.attempt
               PROVE  Contract!Next
    OBVIOUS
  <1>1. /\ t.pc = "close"
        /\ t \in CompleteTxn /\ a \in Attempt /\ t.score \in Nat
        /\ status[a] = "open"
    BY TxnKinds DEF CompleteClose, CompleteTxn, ClosersOK, Closing
  <1>2. /\ status' = [status EXCEPT ![a] = "completed"]
        /\ score' = [score EXCEPT ![a] = t.score]
        /\ UNCHANGED <<picked, recorded, told, reported, tracked>>
    BY DEF CompleteClose
  <1>3. t.score \in Cardinality(Contract!Sure(a))
                   .. Cardinality(Contract!Right(a))
    BY <1>1, SureRight DEF BoundsOK, Within
  <1>4. PICK q : q \in Rows(a)
    BY <1>1 DEF ScoresOK, Exact
  <1>5. \E p \in Question : Contract!AcceptedOn(a, p) # {}
    BY <1>1, <1>4 DEF RecordedOK, Backs, Contract!AcceptedOn, Rows
  <1>6. Contract!Complete(a)
    <2>1. \E n \in Cardinality(Contract!Sure(a))
                  .. Cardinality(Contract!Right(a)) :
             score' = [score EXCEPT ![a] = n]
      BY <1>2, <1>3
    <2>2. UNCHANGED <<picked, recorded, told, reported, tracked>>
      BY <1>2
    <2>3. QED
      BY <1>1, <1>2, <1>5, <2>1, <2>2, SameCardinality DEF Contract!Complete
  <1>7. QED
    BY <1>1, <1>6 DEF Contract!Next

LEMMA ScoreReported ==
    ASSUME TypeOK, TrackOK, NEW r \in Request,
           CompleteLock(r) \/ CompleteTrack(r)
    PROVE  [Contract!Next]_Contract!vars
  <1> SUFFICES ASSUME NEW t, t = txn[r], NEW a, a = t.attempt
               PROVE  [Contract!Next]_Contract!vars
    OBVIOUS
  <1>1. t \in CompleteTxn /\ a \in Attempt
    BY TxnKinds DEF CompleteLock, CompleteTrack, CompleteTxn
  <1>2. reported[a] \subseteq {score[a]}
    BY <1>1 DEF TrackOK
  <1>3. CASE CompleteLock(r)
    <2>1. CASE UNCHANGED reported
      BY <1>3, <2>1, Stutters DEF CompleteLock
    <2>2. CASE /\ status[a] = "completed"
               /\ reported' = [reported EXCEPT ![a] = @ \cup {score[a]}]
      <3>1. reported' = [reported EXCEPT ![a] = {score[a]}]
        BY <1>1, <1>2, <2>2 DEF TypeOK
      <3>2. Contract!Report(a)
        BY <1>3, <2>2, <3>1 DEF CompleteLock, Contract!Report
      <3>3. QED
        BY <1>1, <3>2 DEF Contract!Next
    <2>3. QED
      BY <1>3, <2>1, <2>2 DEF CompleteLock
  <1>4. CASE CompleteTrack(r)
    <2>1. /\ status[a] \in {"completed", "deleted"}
          /\ t.score = score[a]
          /\ tracked[a] = 0
      BY <1>4 DEF CompleteTrack, TrackOK, Tracking
    <2>2. reported' = [reported EXCEPT ![a] = {score[a]}]
      BY <1>1, <1>2, <1>4, <2>1 DEF CompleteTrack, TypeOK
    <2>3. tracked' = [tracked EXCEPT ![a] = 1]
      BY <1>1, <1>4, <2>1 DEF CompleteTrack, TypeOK
    <2>4. Contract!Report(a)
      BY <1>4, <2>1, <2>2, <2>3 DEF CompleteTrack, Contract!Report
    <2>5. QED
      BY <1>1, <2>4 DEF Contract!Next
  <1>5. QED
    BY <1>3, <1>4

ContractInv ==
    /\ AnswersOK
    /\ ClosersOK
    /\ TrackOK
    /\ FenceOK
    /\ ScoresOK
    /\ VictimsOK
    /\ AskedOK
    /\ RecordedOK
    /\ BoundsOK

LEMMA StepImplements ==
    ASSUME ContractInv, [Next]_vars
    PROVE  [Contract!Next]_Contract!vars
  <1>1. TypeOK
    BY DEF ContractInv, AnswersOK
  <1>3. ASSUME NEW r \in Request, Serve(r)
        PROVE  [Contract!Next]_Contract!vars
    <2>1. CASE SubmitCommit(r)
      BY <2>1, CommitAccepts DEF ContractInv
    <2>2. CASE CompleteClose(r)
      BY <1>1, <2>2, CloseCompletes DEF ContractInv
    <2>3. CASE CompleteLock(r) \/ CompleteTrack(r)
      BY <1>1, <2>3, ScoreReported DEF ContractInv
    <2>4. CASE SubmitRespond(r)
      BY <2>4, RespondTells DEF ContractInv
    <2>5. CASE Submitting(r)
      BY <2>5, SubmitMoves, Stutters
    <2>6. CASE CompleteReadAnswers(r)
      BY <2>6, Stutters DEF CompleteReadAnswers
    <2>7. QED
      BY <1>3, <2>1, <2>2, <2>3, <2>4, <2>5, <2>6 DEF Serve, Submitting
  <1>4. ASSUME NEW r \in Request, Arrive(r) \/ Crash(r)
        PROVE  [Contract!Next]_Contract!vars
    BY <1>4, Stutters DEF Arrive, SubmitLoad, CompleteBegin, Crash
  <1>5. ASSUME NEW a \in Attempt, NEW questions \in SUBSET Question,
               CreateAttempt(a, questions)
        PROVE  [Contract!Next]_Contract!vars
    <2>1. Contract!Start(a)
      BY <1>5 DEF CreateAttempt, Contract!Start
    <2>2. QED
      BY <2>1 DEF Contract!Next
  <1>6. CASE PurgeDelete
    <2>1. Contract!Discard(doomed)
      BY <1>6 DEF PurgeDelete, Contract!Discard, ContractInv, VictimsOK
    <2>2. QED
      BY <1>1, <2>1 DEF Contract!Next, TypeOK
  <1>7. CASE \/ \E q \in Question, correctSlots \in (SUBSET Slot) \ {{}} :
                   ReplaceOptions(q, correctSlots)
             \/ Unseen
    BY <1>7, Stutters DEF ReplaceOptions, Unseen
  <1>8. QED
    BY <1>3, <1>4, <1>5, <1>6, <1>7, Steps

LEMMA InitImplements ==
    ASSUME Init
    PROVE  /\ VictimsOK /\ AskedOK /\ RecordedOK /\ BoundsOK
           /\ Contract!Init
  BY DEF Init, VictimsOK, AskedOK, RecordedOK, BoundsOK, Rows, Idle, Submits,
         Contract!Init

(***************************************************************************)
(* Whatever the number of requests, attempts and edits, what clients and   *)
(* analytics are told of an attempt follows the contract: one option and   *)
(* verdict per question and option list, whether or not its response got   *)
(* through, one score, from these verdicts, and at most one event          *)
(* (endpoints/attempts.py).                                                *)
(***************************************************************************)
THEOREM Implements == Spec => ImplementsContract
  <1>1. ContractInv /\ [Next]_vars
           => (VictimsOK /\ AskedOK /\ RecordedOK /\ BoundsOK)'
    BY StepVictimsOK, StepRecordedOK, StepBoundsOK DEF ContractInv, AnswersOK
  <1>2. ContractInv /\ [Next]_vars => [Contract!Next]_Contract!vars
    BY StepImplements
  <1>3. Init => VictimsOK /\ AskedOK /\ RecordedOK /\ BoundsOK /\ Contract!Init
    BY InitImplements
  <1>4. ContractInv <=>
           /\ AnswersOK /\ ClosersOK /\ TrackOK /\ FenceOK /\ ScoresOK
           /\ VictimsOK /\ AskedOK /\ RecordedOK /\ BoundsOK
    BY DEF ContractInv
  <1>5. QED
    BY <1>1, <1>2, <1>3, <1>4, TrackInv, ScoresInv, PTL
       DEF Spec, ImplementsContract, Contract!Spec

-----------------------------------------------------------------------------
(***************************************************************************)
(* What a page shows, for any number of attempts, questions, slots and     *)
(* requests and any number of edits.                                       *)
(*                                                                         *)
(* The page is put together from what three reads saw.  What it relies on  *)
(* is that nothing it has seen comes back in another form: option lists    *)
(* are only superseded, claims and late answers only added, a score only   *)
(* stored once, and an attempt that is gone stays gone.                    *)
(***************************************************************************)

(* the score read is that of the attempt, which can only be deleted        *)
ScoreRead ==
    get.score # NULL =>
        \/ status[get.attempt] = "deleted"
        \/ /\ status[get.attempt] = "completed"
           /\ get.score = score[get.attempt]

(* the lists read are those served now, or earlier ones                    *)
ListsRead ==
    \A q \in Question :
        /\ get.list[q] <= edition[q]
        /\ get.list[q] = edition[q] => get.marked[q] = key[q]

(* an answer read that is about the list served now                        *)
AnswersRead ==
    \A q \in Question :
        LET row == get.seen[q]
        IN  row # NoRow /\ row.option # NULL =>
              \/ get.list[q] # edition[q]
              \/ /\ get.list[q] = row.option.edition
                 /\ row.correct <=> row.option.slot \in get.marked[q]

PageOK ==
    get # Idle =>
        /\ get \in Page
        /\ status[get.attempt] # "unborn"
        /\ get.since \subseteq told
        /\ ScoreRead
        /\ get.pc \in {"answers", "page"} => ListsRead
        /\ get.pc = "page" => AnswersRead /\ ScoreShown /\ AckedShown

-----------------------------------------------------------------------------
(* What no step of the other handlers takes back.                          *)
Onward ==
    /\ \A q \in Question : \/ edition'[q] = edition[q] /\ key'[q] = key[q]
                           \/ edition'[q] > edition[q]
    /\ told \subseteq told'
    /\ overtaken \subseteq overtaken'
    /\ \A a \in Attempt :
          /\ status[a] # "unborn" => status'[a] # "unborn"
          /\ status[a] = "deleted" => status'[a] = "deleted"
          /\ status[a] # "unborn" /\ Exists(a)' => Exists(a)

LEMMA StepOnward ==
    ASSUME TypeOK, ClosersOK, [Next]_vars
    PROVE  Onward
  <1>1. ASSUME NEW r \in Request, CompleteClose(r)
        PROVE  Onward
    <2>1. status[txn[r].attempt] = "open"
      BY <1>1 DEF CompleteClose, ClosersOK, Closing
    <2>2. QED
      BY <1>1, <2>1 DEF Onward, CompleteClose, TypeOK, Exists
  <1>2. ASSUME NEW r \in Request, Submitting(r)
        PROVE  Onward
    BY <1>2, SubmitMoves DEF Onward, Exists
  <1>3. ASSUME NEW r \in Request,
               \/ SubmitCommit(r) \/ SubmitRespond(r)
               \/ CompleteLock(r) \/ CompleteReadAnswers(r)
               \/ CompleteTrack(r) \/ Arrive(r) \/ Crash(r)
        PROVE  Onward
    BY <1>3 DEF Onward, Exists, SubmitCommit, SubmitRespond, CompleteLock,
                CompleteReadAnswers, CompleteTrack, Arrive, SubmitLoad,
                CompleteBegin, Crash
  <1>4. ASSUME NEW a \in Attempt, NEW questions \in SUBSET Question,
               CreateAttempt(a, questions)
        PROVE  Onward
    BY <1>4 DEF Onward, Exists, CreateAttempt, TypeOK
  <1>5. CASE PurgeDelete
    BY <1>5 DEF Onward, Exists, PurgeDelete
  <1>6. ASSUME NEW q \in Question, NEW correctSlots \in (SUBSET Slot) \ {{}},
               ReplaceOptions(q, correctSlots)
        PROVE  Onward
    <2>1. edition' = [edition EXCEPT ![q] = @ + 1]
          /\ key' = [key EXCEPT ![q] = correctSlots]
          /\ UNCHANGED <<status, told, overtaken>>
      BY <1>6 DEF ReplaceOptions
    <2>2. QED
      BY <2>1 DEF Onward, Exists, TypeOK
  <1>7. CASE Unseen
    BY <1>7 DEF Unseen, Onward, Exists
  <1>8. QED
    BY <1>1, <1>2, <1>3, <1>4, <1>5, <1>6, <1>7, Steps
       DEF Serve, Submitting

(* The other handlers leave a page right.                                  *)
LEMMA OthersPageOK ==
    ASSUME AnswersOK, ClosersOK, PageOK, [Next]_vars, UNCHANGED get
    PROVE  PageOK'
  <1> SUFFICES ASSUME get # Idle PROVE PageOK'
    BY DEF PageOK
  <1>1. Onward /\ Frozen
    BY StepOnward, StepFrozen DEF AnswersOK
  <1>2. get \in Page /\ get.attempt \in Attempt /\ get.since \subseteq Claim
    BY DEF PageOK, Page
  <1>3. edition \in [Question -> Nat] /\ edition' \in [Question -> Nat]
    BY StepTypeOK DEF AnswersOK, TypeOK
  <1>4. /\ status'[get.attempt] # "unborn"
        /\ get.since \subseteq told'
        /\ ScoreRead'
    BY <1>1, <1>2 DEF PageOK, Onward, Frozen, ScoreRead
  <1>5. ASSUME ListsRead
        PROVE  /\ ListsRead'
               /\ \A q \in Question : get.list[q] # edition[q]
                                       => get.list[q] # edition'[q]
    <2>1. get.list \in [Question -> Nat]
      BY <1>2 DEF Page
    <2>2. QED
      BY <1>1, <1>3, <1>5, <2>1 DEF ListsRead, Onward
  <1>6. ASSUME ListsRead, AnswersRead
        PROVE  AnswersRead'
    BY <1>5, <1>6 DEF AnswersRead
  <1>7. ASSUME ScoreShown, get.pc = "page"
        PROVE  ScoreShown'
    BY <1>1, <1>2, <1>7 DEF PageOK, Onward, ScoreShown
  <1>8. ASSUME AckedShown, get.pc = "page"
        PROVE  AckedShown'
    <2> SUFFICES ASSUME NEW c \in get.since, c.attempt = get.attempt,
                        Live(c.option)', Exists(c.attempt)'
                 PROVE  Live(c.option) /\ Exists(c.attempt)
      BY <1>8 DEF AckedShown
    <2>1. c \in Claim /\ Claimed(c) /\ c.option \in Option
      BY <1>2 DEF PageOK, AnswersOK, ToldOK, Claimed, Claim
    <2>2. c.option.question \in Question /\ c.option.edition \in Nat
          /\ c.option.edition <= edition[c.option.question]
      BY <2>1 DEF AnswersOK, ClaimsOK, Known, Option
    <2>3. Live(c.option)
      BY <1>1, <1>3, <2>2 DEF Live, Onward
    <2>4. QED
      BY <1>1, <1>2, <2>3 DEF PageOK, Onward
  <1>9. QED
    BY <1>2, <1>4, <1>5, <1>6, <1>7, <1>8 DEF PageOK

-----------------------------------------------------------------------------
(* The reads of the GET itself                                             *)

LEMMA AttemptPageOK ==
    ASSUME AnswersOK, NEW a \in Attempt, GetAttempt(a), UNCHANGED vars
    PROVE  PageOK'
  <1>1. get'.pc = "questions" /\ get'.attempt = a /\ get'.since = told
        /\ get'.score = (IF status[a] = "completed" THEN score[a] ELSE NULL)
    BY DEF GetAttempt, After
  <1>2. get' \in Page
    BY DEF GetAttempt, After, Page, AnswersOK, TypeOK
  <1>3. UNCHANGED <<status, score, told>>
    BY DEF vars
  <1>4. Exists(a)
    BY DEF GetAttempt
  <1>5. ScoreRead'
    BY <1>1, <1>3 DEF ScoreRead
  <1>6. QED
    BY <1>1, <1>2, <1>3, <1>4, <1>5 DEF PageOK, Exists

LEMMA QuestionsPageOK ==
    ASSUME AnswersOK, PageOK, GetQuestions, UNCHANGED vars
    PROVE  PageOK'
  <1>1. get \in Page /\ get # Idle
    BY DEF PageOK, GetQuestions, Idle
  <1>2. /\ get'.pc = "answers" /\ get'.attempt = get.attempt
        /\ get'.since = get.since /\ get'.score = get.score
        /\ get'.list = edition /\ get'.marked = key
        /\ get' \in Page
    BY <1>1 DEF GetQuestions, After, Page, AnswersOK, TypeOK
  <1>3. edition \in [Question -> Nat]
    BY DEF AnswersOK, TypeOK
  <1>4. ListsRead' /\ ScoreRead'
    BY <1>1, <1>2, <1>3 DEF PageOK, ListsRead, ScoreRead, vars
  <1>5. QED
    BY <1>1, <1>2, <1>4 DEF PageOK, vars

LEMMA AnswersPageOK ==
    ASSUME AnswersOK, ScoresOK, PageOK, GetAnswers, UNCHANGED vars
    PROVE  PageOK'
  <1> DEFINE a == get.attempt
  <1>1. get \in Page /\ get # Idle /\ a \in Attempt
    BY DEF PageOK, GetAnswers, Idle, Page
  <1>2. /\ get'.pc = "page" /\ get'.attempt = a
        /\ get'.since = get.since /\ get'.score = get.score
        /\ get'.list = get.list /\ get'.marked = get.marked
        /\ get'.seen = answer[a]
        /\ get' \in Page
    BY <1>1 DEF GetAnswers, After, Page, AnswersOK, TypeOK
  <1>3. ListsRead' /\ ScoreRead'
    BY <1>1, <1>2 DEF PageOK, GetAnswers, ListsRead, ScoreRead, vars
  <1>4. AnswersRead'
    <2> SUFFICES ASSUME NEW q \in Question, answer[a][q] # NoRow,
                        answer[a][q].option # NULL,
                        get.list[q] = edition[q]
                 PROVE  /\ get.list[q] = answer[a][q].option.edition
                        /\ answer[a][q].correct
                             <=> answer[a][q].option.slot \in get.marked[q]
      BY <1>2 DEF AnswersRead, vars
    <2>1. /\ Live(answer[a][q].option)
          /\ answer[a][q].option.question = q
          /\ answer[a][q].correct = IsCorrect(answer[a][q].option)
      BY <1>1 DEF AnswersOK, RowsOK, Rows
    <2>2. get.marked[q] = key[q]
      BY <1>1 DEF PageOK, GetAnswers, ListsRead
    <2>3. QED
      BY <2>1, <2>2 DEF Live, IsCorrect
  <1>5. ScoreShown'
    <2> SUFFICES ASSUME get.score # NULL, a \notin overtaken, Exists(a)
                 PROVE  get.score = Cardinality({q \in Question :
                              answer[a][q] # NoRow /\ answer[a][q].correct})
      BY <1>2 DEF ScoreShown, Exists, vars
    <2>1. status[a] = "completed" /\ get.score = score[a]
      BY <1>1 DEF PageOK, ScoreRead, Exists
    <2>2. get.score = Cardinality(CorrectRows(a))
      BY <1>1, <2>1 DEF ScoresOK, Exact
    <2>3. CorrectRows(a) = {q \in Question :
                              answer[a][q] # NoRow /\ answer[a][q].correct}
      BY DEF CorrectRows, Rows
    <2>4. QED
      BY <2>2, <2>3
  <1>6. AckedShown'
    <2> SUFFICES ASSUME NEW c \in get.since, c.attempt = a,
                        Live(c.option), Exists(a)
                 PROVE  answer[a][c.question] = [option |-> c.option,
                                                 correct |-> c.correct]
      BY <1>2 DEF AckedShown, Exists, Live, vars
    <2>1. c \in Claim /\ c \in recorded
      BY <1>1 DEF PageOK, Page, AnswersOK, ToldOK
    <2>2. QED
      BY <2>1 DEF AnswersOK, KeptOK
  <1>7. QED
    BY <1>1, <1>2, <1>3, <1>4, <1>5, <1>6 DEF PageOK, vars

LEMMA ReadPageOK ==
    ASSUME AnswersOK, ClosersOK, ScoresOK, PageOK, [ReadNext]_<<vars, get>>
    PROVE  PageOK'
  <1>1. CASE Get /\ UNCHANGED vars
    <2>1. CASE GetRespond
      BY <2>1 DEF GetRespond, PageOK
    <2>2. QED
      BY <1>1, <2>1, AttemptPageOK, QuestionsPageOK, AnswersPageOK DEF Get
  <1>2. CASE [Next]_vars /\ UNCHANGED get
    BY <1>2, OthersPageOK
  <1>3. QED
    BY <1>1, <1>2 DEF ReadNext

(* The GET is invisible to the other handlers.                             *)
LEMMA ReadImplements == ReadSpec => Spec
  <1>1. ReadInit => Init
    BY DEF ReadInit
  <1>2. [ReadNext]_<<vars, get>> => [Next]_vars
    BY DEF ReadNext
  <1>3. QED
    BY <1>1, <1>2, PTL DEF ReadSpec, Spec

LEMMA PageInv == ReadSpec => []PageOK
  <1>1. ReadInit => PageOK
    BY DEF ReadInit, PageOK
  <1>2. AnswersOK /\ ClosersOK /\ ScoresOK /\ PageOK
          /\ [ReadNext]_<<vars, get>> => PageOK'
    BY ReadPageOK
  <1>3. QED
    BY <1>1, <1>2, ReadImplements, AnswersInv, ClosersInv, ScoresInv, PTL
       DEF ReadSpec

(***************************************************************************)
(* Type correctness of the page.                                           *)
(***************************************************************************)
THEOREM PageTyped == ReadSpec => []GetTypeOK
  <1>1. PageOK => GetTypeOK
    BY DEF PageOK, GetTypeOK
  <1>2. QED
    BY <1>1, PageInv, PTL

(***************************************************************************)
(* A page pairs an answer with the list its option is on, and with its     *)
(* key, or is of a list that is no longer served (_attempt_question).      *)
(***************************************************************************)
THEOREM PageRight == ReadSpec => []PageCoherent
  <1>1. PageOK => PageCoherent
    BY DEF PageOK, AnswersRead, PageCoherent, Answered, Idle
  <1>2. QED
    BY <1>1, PageInv, PTL

(***************************************************************************)
(* No page gives away the key of a list that is being served and that its  *)
(* attempt has not answered (_attempt_question).                           *)
(***************************************************************************)
THEOREM KeySecret == ReadSpec => []KeyStaysSecret
  <1>1. PageOK => KeyStaysSecret
    BY DEF PageOK, AnswersRead, KeyStaysSecret, ShowsKey, Answered, Idle
  <1>2. QED
    BY <1>1, PageInv, PTL

(***************************************************************************)
(* The score and the answers of a page agree, but for late answers.        *)
(***************************************************************************)
THEOREM ScoreRight == ReadSpec => []ScoreShown
  <1>1. PageOK => ScoreShown
    BY DEF PageOK, ScoreShown, Idle
  <1>2. QED
    BY <1>1, PageInv, PTL

(***************************************************************************)
(* A page shows every answer acknowledged before it was asked for.         *)
(***************************************************************************)
THEOREM AnswersShown == ReadSpec => []AckedShown
  <1>1. PageOK => AckedShown
    BY DEF PageOK, AckedShown, Idle
  <1>2. QED
    BY <1>1, PageInv, PTL
=============================================================================
