------------------------------ MODULE QuizAttempts ------------------------------
(***************************************************************************)
(* Quiz attempts as the API serves them: POST /quiz-attempts, POST         *)
(* .../answers and POST .../complete (endpoints/attempts.py), racing the   *)
(* admin console's option replacement (endpoints/admin_questions.py) and   *)
(* the retention job (scripts/purge_stale_attempts.py).                    *)
(*                                                                         *)
(* The handlers run concurrently over PostgreSQL at READ COMMITTED: every  *)
(* awaited statement is one step and sees what is committed by then.       *)
(* Who holds a row lock follows from where each request is: the SELECT ... *)
(* FOR UPDATE of complete, the lock of the upsert on its user_answers row, *)
(* and the FOR KEY SHARE locks that the foreign keys of a new answer take  *)
(* on the attempt and on the option.  An edit and the purge lock rows one  *)
(* by one until they commit; `edit' and `swept' say which.                 *)
(***************************************************************************)
EXTENDS Integers, FiniteSets

CONSTANTS
    Attempt,    \* ids of quiz_attempts rows; an id is used at most once
    Question,   \* ids of questions
    Slot,       \* positions in a question's option list
    Request,    \* HTTP requests in flight at one time
    NoRow,      \* "no such user_answers row"
    NULL,       \* the SQL null of user_answers.selected_option_id
    Purger,     \* the purge job, among those who wait for locks
    MaxEdits,   \* bound: how often one question's options are replaced
    BatchSize   \* BATCH_SIZE of the purge job

(***************************************************************************)
(* Replacing a question's options deletes every option row and inserts new *)
(* ones, so an option id belongs to one edition of its question's list.    *)
(***************************************************************************)
Option == [question: Question, edition: Nat, slot: Slot]

AnswerRow == [option: Option \cup {NULL}, correct: BOOLEAN]

StoredAnswer == [option: Option, correct: BOOLEAN]

ASSUME ConstantsAssumption ==
    /\ IsFiniteSet(Question)
    /\ NULL \notin Option
    /\ NoRow \notin AnswerRow
    /\ Request \cap Question = {}
    /\ Purger \notin Request \cup Question
    /\ MaxEdits \in Nat
    /\ BatchSize \in Nat \ {0}

VARIABLES
    (* the database *)
    status,     \* quiz_attempts: "completed" iff completed_at is set
    picked,     \* quiz_attempts.question_ids
    score,      \* quiz_attempts.score
    answer,     \* user_answers, by attempt and question
    edition,    \* question_options: the edition now stored for a question
    key,        \* question_options.is_correct: the slots marked correct
    (* the processes *)
    txn,        \* each request's handler: its program counter and locals
    edit,       \* by question, the edit under way: rows it has locked
    stale,      \* attempts older than attempt_retention_days
    purge,      \* whether the purge job is running
    victims,    \* ids its DELETE has selected but not reached yet
    doomed,     \* rows it has deleted but not committed
    swept,      \* answers its cascade has deleted but not committed
    (* what has been answered to clients, and to analytics *)
    recorded,   \* every answer committed, also when nobody was told
    told,       \* every AnswerResult returned
    reported,   \* every score returned by complete, by attempt
    tracked,    \* number of quiz_completed events, by attempt
    overtaken   \* attempts that got an answer too late for their score

attemptVars == <<status, picked, score>>
bankVars    == <<edition, key>>
purgeVars   == <<stale, purge, victims, doomed, swept>>
clientVars  == <<recorded, told, reported, tracked, overtaken>>
vars == <<attemptVars, answer, bankVars, txn, edit, purgeVars, clientVars>>

Status == {"unborn", "open", "completed", "deleted"}

Idle == [pc |-> "idle"]

(* submit_answer: body, what it has read so far, and what it has written   *)
SubmitTxn ==
    {t \in [pc: {"read_stored", "read_options", "store",
                 "attempt_key", "option_key", "commit", "respond"},
            attempt: Attempt, question: Question, option: Option,
            closed: BOOLEAN,                   \* completed_at was set at load
            stored: StoredAnswer \cup {NoRow}, \* the answer read or written
            correct: BOOLEAN,                  \* is_correct of the option read
            write: {"none", "held", "insert", "refill"}] : \* uncommitted
        t.pc \in {"commit", "respond"} => t.stored # NoRow}

CompleteTxn ==
    [pc: {"lock", "read_answers", "close", "track"},
     attempt: Attempt, score: Nat]

(* the options an edit has deleted, the answers it has set to NULL         *)
Edit == [deleted: SUBSET Slot, nulled: SUBSET Attempt]

NoEdit == [deleted |-> {}, nulled |-> {}]

Claim == [attempt: Attempt, question: Question,
          option: Option, correct: BOOLEAN]

TypeOK ==
    /\ status \in [Attempt -> Status]
    /\ picked \in [Attempt -> SUBSET Question]
    /\ score \in [Attempt -> Nat]
    /\ answer \in [Attempt -> [Question -> AnswerRow \cup {NoRow}]]
    /\ edition \in [Question -> Nat]
    /\ key \in [Question -> (SUBSET Slot) \ {{}}]
    /\ txn \in [Request -> {Idle} \cup SubmitTxn \cup CompleteTxn]
    /\ edit \in [Question -> Edit]
    /\ stale \in SUBSET Attempt
    /\ purge \in BOOLEAN
    /\ victims \in SUBSET Attempt
    /\ doomed \in SUBSET Attempt
    /\ swept \in SUBSET (Attempt \X Question)
    /\ recorded \in SUBSET Claim
    /\ told \in SUBSET Claim
    /\ reported \in [Attempt -> SUBSET Nat]
    /\ tracked \in [Attempt -> Nat]
    /\ overtaken \in SUBSET Attempt

-----------------------------------------------------------------------------
(* Reading the tables                                                      *)

Exists(a) == status[a] \in {"open", "completed"}

(* the option row is there: foreign keys to it hold, and it is served      *)
Live(o) == o.edition = edition[o.question]

IsCorrect(o) == o.slot \in key[o.question]

Rows(a) == {q \in Question : answer[a][q] # NoRow}

HasAnswers(a) == Rows(a) # {}

(* every answer counts                                                     *)
CorrectRowsMutant(a) == Rows(a)

CorrectRows(a) == {q \in Rows(a) : answer[a][q].correct}

(* _stored_answer: a row whose option was deleted counts as unanswered     *)
Stored(a, q) ==
    IF q \in Rows(a) /\ answer[a][q].option # NULL
    THEN answer[a][q] ELSE NoRow

(* Who holds which row lock: a request, the edit of a question, the purge  *)
Actor == Request \cup Question \cup {Purger}

(* the upsert of a request, until it commits                               *)
HoldsAnswer(r, a, q) ==
    /\ txn[r].pc \in {"attempt_key", "option_key", "commit"}
    /\ txn[r].write # "none"
    /\ txn[r].attempt = a
    /\ txn[r].question = q

HasAnswer(x, a, q) ==
    \/ x \in Request /\ HoldsAnswer(x, a, q)
    \/ x = q /\ a \in edit[q].nulled
    \/ x = Purger /\ <<a, q>> \in swept

AnswerLocked(a, q) == \E x \in Actor : HasAnswer(x, a, q)

(* the foreign key of a new answer is checked without a lock               *)
SharesAttemptMutant(r, a) == FALSE

(* FOR KEY SHARE, by the foreign key attempt_id of a new row               *)
SharesAttempt(r, a) ==
    /\ txn[r].pc \in {"option_key", "commit"}
    /\ txn[r].write = "insert"
    /\ txn[r].attempt = a

(* FOR KEY SHARE, by the foreign key selected_option_id                    *)
SharesOption(r, o) ==
    /\ txn[r].pc = "commit"
    /\ txn[r].write \in {"insert", "refill"}
    /\ txn[r].option = o

(* complete loads the attempt without FOR UPDATE                           *)
ScoringMutant(r, a) == FALSE

(* FOR UPDATE, by complete                                                 *)
Scoring(r, a) ==
    /\ txn[r].pc \in {"read_answers", "close"}
    /\ txn[r].attempt = a

HasAttempt(x, a) ==
    \/ x \in Request /\ Scoring(x, a)
    \/ x = Purger /\ a \in doomed

AttemptLocked(a) == \E x \in Actor : HasAttempt(x, a)

KeyShared(a) == \E r \in Request : SharesAttempt(r, a)

(* an edit under way has deleted the row                                   *)
Deleting(o) == Live(o) /\ o.slot \in edit[o.question].deleted

(* answers with an option it has deleted, whose SET NULL is still to come  *)
ToNull(q) ==
    {a \in Attempt \ edit[q].nulled :
        /\ q \in Rows(a)
        /\ answer[a][q].option # NULL
        /\ Deleting(answer[a][q].option)}

-----------------------------------------------------------------------------
Init ==
    /\ status = [a \in Attempt |-> "unborn"]
    /\ picked = [a \in Attempt |-> {}]
    /\ score = [a \in Attempt |-> 0]
    /\ answer = [a \in Attempt |-> [q \in Question |-> NoRow]]
    /\ edition = [q \in Question |-> 0]
    /\ key \in [Question -> (SUBSET Slot) \ {{}}]
    /\ txn = [r \in Request |-> Idle]
    /\ edit = [q \in Question |-> NoEdit]
    /\ stale = {}
    /\ purge = FALSE
    /\ victims = {}
    /\ doomed = {}
    /\ swept = {}
    /\ recorded = {}
    /\ told = {}
    /\ reported = [a \in Attempt |-> {}]
    /\ tracked = [a \in Attempt |-> 0]
    /\ overtaken = {}

(* create_attempt: a non-empty selection becomes one quiz_attempts row     *)
CreateAttempt(a, questions) ==
    /\ status[a] = "unborn"
    /\ questions # {}
    /\ status' = [status EXCEPT ![a] = "open"]
    /\ picked' = [picked EXCEPT ![a] = questions]
    /\ UNCHANGED <<score, answer, bankVars, txn, edit, purgeVars, clientVars>>

Goto(r, t) == txn' = [txn EXCEPT ![r] = t]

(* any early return or exception: the session closes and rolls back        *)
Finish(r) == Goto(r, Idle)

-----------------------------------------------------------------------------
(* submit_answer                                                           *)

(* _load_attempt and the membership test; other requests get a 404 or 400  *)
SubmitLoad(r, a, q, o) ==
    /\ txn[r] = Idle
    /\ Exists(a)
    /\ q \in picked[a]
    /\ Goto(r, [pc |-> "read_stored", attempt |-> a, question |-> q,
                option |-> o, closed |-> status[a] = "completed",
                stored |-> NoRow, correct |-> FALSE, write |-> "none"])
    /\ UNCHANGED <<attemptVars, answer, bankVars, edit, purgeVars, clientVars>>

(* the closed attempt is refused before the replay case                    *)
ConflictsMutant(t, found) ==
    \/ t.closed
    \/ found # NoRow /\ found.option # t.option

(* 409: another option is stored, or nothing is and the attempt is closed  *)
Conflicts(t, found) ==
    \/ found # NoRow /\ found.option # t.option
    \/ found = NoRow /\ t.closed

SubmitReadStored(r) ==
    LET t == txn[r]
        found == Stored(t.attempt, t.question)
    IN  /\ t.pc = "read_stored"
        /\ \/ /\ Conflicts(t, found)
              /\ Finish(r)
           \/ /\ ~Conflicts(t, found)
              /\ Goto(r, [t EXCEPT !.pc = "read_options", !.stored = found])
        /\ UNCHANGED <<attemptVars, answer, bankVars, edit, purgeVars,
                       clientVars>>

(* the option is looked up among the options of every question             *)
BelongsMutant(t) == Live(t.option)

(* 400 when the option is not (or no longer) one of the question's         *)
Belongs(t) == t.option.question = t.question /\ Live(t.option)

SubmitReadOptions(r) ==
    LET t == txn[r]
    IN  /\ t.pc = "read_options"
        /\ \/ /\ ~Belongs(t)
              /\ Finish(r)
           \/ /\ Belongs(t)
              /\ t.stored = NoRow
              /\ Goto(r, [t EXCEPT !.pc = "store",
                                   !.correct = IsCorrect(t.option)])
           \/ /\ Belongs(t)
              /\ t.stored # NoRow
              /\ Goto(r, [t EXCEPT !.pc = "commit"])
        /\ UNCHANGED <<attemptVars, answer, bankVars, edit, purgeVars,
                       clientVars>>

(* user_answers without its unique index                                   *)
ReadyToStoreMutant(r) == txn[r].pc = "store"

(***************************************************************************)
(* _store_answer: the upsert.  It waits for the row to be free of other    *)
(* submits, of an edit's SET NULL and of the purge's cascade, and keeps it *)
(* locked.  At its end the foreign keys of what it has written are checked *)
(* one after the other, each with a FOR KEY SHARE lock.                    *)
(***************************************************************************)
ReadyToStore(r) ==
    /\ txn[r].pc = "store"
    /\ ~AnswerLocked(txn[r].attempt, txn[r].question)

WrittenMutant(t) == [option |-> NULL, correct |-> t.correct]

Written(t) == [option |-> t.option, correct |-> t.correct]

VacantMutant(row) == TRUE   \* the upsert without its WHERE

(* the row is there without an option: the upsert fills it in              *)
Vacant(row) == row.option = NULL

StoreInsert(r) ==
    LET t == txn[r]
    IN  /\ ReadyToStore(r)
        /\ answer[t.attempt][t.question] = NoRow
        /\ Goto(r, [t EXCEPT !.pc = "attempt_key", !.write = "insert"])
        /\ UNCHANGED <<attemptVars, answer, bankVars, edit, purgeVars,
                       clientVars>>

(* the attempt is locked once more when a row has been filled in           *)
StoreRefillMutant(r) ==
    LET t == txn[r]
        row == answer[t.attempt][t.question]
    IN  /\ ReadyToStore(r)
        /\ row # NoRow /\ Vacant(row)
        /\ Goto(r, [t EXCEPT !.pc = "attempt_key", !.write = "refill"])
        /\ UNCHANGED <<attemptVars, answer, bankVars, edit, purgeVars,
                       clientVars>>

(* attempt_id does not change, so its foreign key is not checked again and *)
(* the attempt is not locked.                                              *)
StoreRefill(r) ==
    LET t == txn[r]
        row == answer[t.attempt][t.question]
    IN  /\ ReadyToStore(r)
        /\ row # NoRow /\ Vacant(row)
        /\ Goto(r, [t EXCEPT !.pc = "option_key", !.write = "refill"])
        /\ UNCHANGED <<attemptVars, answer, bankVars, edit, purgeVars,
                       clientVars>>

(* Another request answered first.  The upsert changes nothing but keeps   *)
(* the row locked; another option than ours is a 409.                      *)
StoreConflict(r) ==
    LET t == txn[r]
        row == answer[t.attempt][t.question]
    IN  /\ ReadyToStore(r)
        /\ row # NoRow /\ ~Vacant(row)
        /\ \/ /\ row.option # t.option
              /\ Finish(r)
           \/ /\ row.option = t.option
              /\ Goto(r, [t EXCEPT !.pc = "commit", !.stored = row,
                                   !.write = "held"])
        /\ UNCHANGED <<attemptVars, answer, bankVars, edit, purgeVars,
                       clientVars>>

(* attempt_id: an attempt purged since it was read is a 500                *)
StoreAttemptKey(r) ==
    LET t == txn[r]
    IN  /\ t.pc = "attempt_key"
        /\ ~AttemptLocked(t.attempt)
        /\ \/ /\ ~Exists(t.attempt)
              /\ Finish(r)
           \/ /\ Exists(t.attempt)
              /\ Goto(r, [t EXCEPT !.pc = "option_key"])
        /\ UNCHANGED <<attemptVars, answer, bankVars, edit, purgeVars,
                       clientVars>>

(* selected_option_id: an option replaced since it was read is a 500.      *)
(* Otherwise the answer is read back as it was written.                    *)
StoreOptionKey(r) ==
    LET t == txn[r]
    IN  /\ t.pc = "option_key"
        /\ ~Deleting(t.option)
        /\ \/ /\ ~Live(t.option)
              /\ Finish(r)
           \/ /\ Live(t.option)
              /\ Goto(r, [t EXCEPT !.pc = "commit", !.stored = Written(t)])
        /\ UNCHANGED <<attemptVars, answer, bankVars, edit, purgeVars,
                       clientVars>>

(* The answer lands although its attempt has been scored already, or is    *)
(* being scored on the rows as they were before a refill.                  *)
Overtakes(t) ==
    \/ t.write \in {"insert", "refill"} /\ status[t.attempt] = "completed"
    \/ /\ t.write = "refill"
       /\ \E c \in Request : txn[c].pc = "close" /\ txn[c].attempt = t.attempt

ClaimOf(t) == [attempt |-> t.attempt, question |-> t.question,
               option |-> t.stored.option, correct |-> t.stored.correct]

(* the answer that fills in a row is acknowledged but not committed        *)
SubmitCommitMutant(r) ==
    LET t == txn[r]
    IN  /\ t.pc = "commit"
        /\ answer' = IF t.write = "insert"
                     THEN [answer EXCEPT ![t.attempt][t.question] = t.stored]
                     ELSE answer
        /\ recorded' = IF t.write \in {"insert", "refill"}
                       THEN recorded \cup {ClaimOf(t)} ELSE recorded
        /\ overtaken' = IF Overtakes(t) THEN overtaken \cup {t.attempt}
                        ELSE overtaken
        /\ Goto(r, [t EXCEPT !.pc = "respond", !.write = "none"])
        /\ UNCHANGED <<attemptVars, bankVars, edit, purgeVars,
                       told, reported, tracked>>

(* the commit makes the answer visible and releases the locks              *)
SubmitCommit(r) ==
    LET t == txn[r]
    IN  /\ t.pc = "commit"
        /\ answer' = IF t.write \in {"insert", "refill"}
                     THEN [answer EXCEPT ![t.attempt][t.question] = t.stored]
                     ELSE answer
        /\ recorded' = IF t.write \in {"insert", "refill"}
                       THEN recorded \cup {ClaimOf(t)} ELSE recorded
        /\ overtaken' = IF Overtakes(t) THEN overtaken \cup {t.attempt}
                        ELSE overtaken
        /\ Goto(r, [t EXCEPT !.pc = "respond", !.write = "none"])
        /\ UNCHANGED <<attemptVars, bankVars, edit, purgeVars,
                       told, reported, tracked>>

(* the client gets the verdict; a Crash before that loses it               *)
SubmitRespond(r) ==
    LET t == txn[r]
    IN  /\ t.pc = "respond"
        /\ told' = told \cup {ClaimOf(t)}
        /\ Finish(r)
        /\ UNCHANGED <<attemptVars, answer, bankVars, edit, purgeVars,
                       recorded, reported, tracked, overtaken>>

-----------------------------------------------------------------------------
(* complete_attempt                                                        *)

CompleteBegin(r, a) ==
    /\ txn[r] = Idle
    /\ status[a] # "unborn"
    /\ Goto(r, [pc |-> "lock", attempt |-> a, score |-> 0])
    /\ UNCHANGED <<attemptVars, answer, bankVars, edit, purgeVars, clientVars>>

(* SELECT ... FOR UPDATE; a completed attempt replays its stored score     *)
CompleteLock(r) ==
    LET t == txn[r]
    IN  /\ t.pc = "lock"
        /\ ~AttemptLocked(t.attempt)
        /\ ~KeyShared(t.attempt)
        /\ \/ /\ ~Exists(t.attempt)
              /\ Finish(r)
              /\ UNCHANGED reported
           \/ /\ status[t.attempt] = "completed"
              /\ reported' = [reported EXCEPT ![t.attempt] =
                                  @ \cup {score[t.attempt]}]
              /\ Finish(r)
           \/ /\ status[t.attempt] = "open"
              /\ Goto(r, [t EXCEPT !.pc = "read_answers"])
              /\ UNCHANGED reported
        /\ UNCHANGED <<attemptVars, answer, bankVars, edit, purgeVars,
                       recorded, told, tracked, overtaken>>

(* 409 without any answer row; a row that lost its option still counts     *)
CompleteReadAnswers(r) ==
    LET t == txn[r]
    IN  /\ t.pc = "read_answers"
        /\ \/ /\ ~HasAnswers(t.attempt)
              /\ Finish(r)
           \/ /\ HasAnswers(t.attempt)
              /\ Goto(r, [t EXCEPT !.pc = "close",
                              !.score = Cardinality(CorrectRows(t.attempt))])
        /\ UNCHANGED <<attemptVars, answer, bankVars, edit, purgeVars,
                       clientVars>>

CompleteClose(r) ==
    LET t == txn[r]
    IN  /\ t.pc = "close"
        /\ status' = [status EXCEPT ![t.attempt] = "completed"]
        /\ score' = [score EXCEPT ![t.attempt] = t.score]
        /\ Goto(r, [t EXCEPT !.pc = "track"])
        /\ UNCHANGED <<picked, answer, bankVars, edit, purgeVars, clientVars>>

(* after the commit: the quiz_completed event and the response             *)
CompleteTrack(r) ==
    LET t == txn[r]
    IN  /\ t.pc = "track"
        /\ tracked' = [tracked EXCEPT ![t.attempt] = @ + 1]
        /\ reported' = [reported EXCEPT ![t.attempt] = @ \cup {t.score}]
        /\ Finish(r)
        /\ UNCHANGED <<attemptVars, answer, bankVars, edit, purgeVars,
                       recorded, told, overtaken>>

(* The process or the connection dies, or PostgreSQL ends a deadlock: the  *)
(* open transaction rolls back, and no response arrives.                   *)
Crash(r) ==
    /\ txn[r] # Idle
    /\ Finish(r)
    /\ UNCHANGED <<attemptVars, answer, bankVars, edit, purgeVars, clientVars>>

-----------------------------------------------------------------------------
(***************************************************************************)
(* update_question as this module needs it: the options are deleted one by *)
(* one, and after each the foreign key sets selected_option_id to NULL in  *)
(* the answers that picked it.  Every row stays locked until the commit,   *)
(* which also brings the new options.  Edits of one question are not       *)
(* concurrent here; QuestionBank has what happens then.                    *)
(***************************************************************************)
EditDelete(q, s) ==
    /\ edition[q] < MaxEdits
    /\ s \notin edit[q].deleted
    /\ ToNull(q) = {}
    /\ LET o == [question |-> q, edition |-> edition[q], slot |-> s]
       IN  \A r \in Request : ~SharesOption(r, o)
    /\ edit' = [edit EXCEPT ![q].deleted = @ \cup {s}]
    /\ UNCHANGED <<attemptVars, answer, bankVars, txn, purgeVars, clientVars>>

EditNull(q, a) ==
    /\ a \in ToNull(q)
    /\ ~AnswerLocked(a, q)
    /\ edit' = [edit EXCEPT ![q].nulled = @ \cup {a}]
    /\ UNCHANGED <<attemptVars, answer, bankVars, txn, purgeVars, clientVars>>

Deleted(q) == edit[q].deleted = Slot /\ ToNull(q) = {}

(* the options keep their ids                                              *)
ReplaceOptionsMutant(q, correctSlots) ==
    /\ Deleted(q)
    /\ key' = [key EXCEPT ![q] = correctSlots]
    /\ edit' = [edit EXCEPT ![q] = NoEdit]
    /\ UNCHANGED <<attemptVars, answer, edition, txn, purgeVars, clientVars>>

(* an answer loses its verdict with its option                             *)
ReplaceOptionsMutant2(q, correctSlots) ==
    /\ Deleted(q)
    /\ edition' = [edition EXCEPT ![q] = @ + 1]
    /\ key' = [key EXCEPT ![q] = correctSlots]
    /\ answer' = [a \in Attempt |->
                    IF q \in Rows(a)
                    THEN [answer[a] EXCEPT ![q] = [option |-> NULL,
                                                   correct |-> FALSE]]
                    ELSE answer[a]]
    /\ edit' = [edit EXCEPT ![q] = NoEdit]
    /\ UNCHANGED <<attemptVars, txn, purgeVars, clientVars>>

ReplaceOptions(q, correctSlots) ==
    /\ Deleted(q)
    /\ edition' = [edition EXCEPT ![q] = @ + 1]
    /\ key' = [key EXCEPT ![q] = correctSlots]
    /\ answer' = [a \in Attempt |->
                    IF q \in Rows(a)
                    THEN [answer[a] EXCEPT ![q].option = NULL]
                    ELSE answer[a]]
    /\ edit' = [edit EXCEPT ![q] = NoEdit]
    /\ UNCHANGED <<attemptVars, txn, purgeVars, clientVars>>

(* a duplicate title, a crash, or the victim of a deadlock: all is undone  *)
EditAbort(q) ==
    /\ edit[q] # NoEdit
    /\ edit' = [edit EXCEPT ![q] = NoEdit]
    /\ UNCHANGED <<attemptVars, answer, bankVars, txn, purgeVars, clientVars>>

(* an attempt grows older than attempt_retention_days                      *)
Age(a) ==
    /\ status[a] = "open"
    /\ a \notin stale
    /\ stale' = stale \cup {a}
    /\ UNCHANGED <<attemptVars, answer, bankVars, txn, edit,
                   purge, victims, doomed, swept, clientVars>>

(* attempts without an answer are left alone                               *)
AbandonedMutant == {a \in stale : status[a] = "open" /\ HasAnswers(a)}

(***************************************************************************)
(* purge_stale_attempts: DELETE ... WHERE id IN (SELECT ... LIMIT), again  *)
(* until nothing is deleted.  The sub-select runs on the statement's       *)
(* snapshot, then the DELETE takes the selected rows one by one.  When one *)
(* was changed meanwhile, PostgreSQL re-checks only the DELETE's own       *)
(* condition on its new version: the id is still in the list.              *)
(***************************************************************************)
Abandoned == {a \in stale : status[a] = "open"}

PurgeStart ==
    /\ ~purge
    /\ purge' = TRUE
    /\ UNCHANGED <<attemptVars, answer, bankVars, txn, edit,
                   stale, victims, doomed, swept, clientVars>>

PurgeSelect(batch) ==
    /\ purge
    /\ victims \cup doomed = {}
    /\ batch \subseteq Abandoned
    /\ batch # {}
    /\ \/ Cardinality(batch) = BatchSize
       \/ Cardinality(batch) < BatchSize /\ batch = Abandoned
    /\ victims' = batch
    /\ UNCHANGED <<attemptVars, answer, bankVars, txn, edit,
                   stale, purge, doomed, swept, clientVars>>

PurgeTake(a) ==
    /\ a \in victims
    /\ ~AttemptLocked(a)
    /\ ~KeyShared(a)
    /\ victims' = victims \ {a}
    /\ doomed' = doomed \cup {a}
    /\ UNCHANGED <<attemptVars, answer, bankVars, txn, edit,
                   stale, purge, swept, clientVars>>

(* the cascade deletes the answers of the batch one by one                 *)
PurgeSweep(a, q) ==
    /\ victims = {}
    /\ a \in doomed
    /\ q \in Rows(a)
    /\ ~AnswerLocked(a, q)
    /\ swept' = swept \cup {<<a, q>>}
    /\ UNCHANGED <<attemptVars, answer, bankVars, txn, edit,
                   stale, purge, victims, doomed, clientVars>>

(* the answers of every stale attempt are deleted, not only the batch's    *)
PurgeDeleteMutant ==
    /\ victims = {}
    /\ doomed # {}
    /\ status' = [a \in Attempt |->
                    IF a \in doomed THEN "deleted" ELSE status[a]]
    /\ answer' = [a \in Attempt |->
                    IF a \in stale THEN [q \in Question |-> NoRow]
                    ELSE answer[a]]
    /\ stale' = stale \ doomed
    /\ doomed' = {}
    /\ swept' = {}
    /\ UNCHANGED <<picked, score, bankVars, txn, edit, purge, victims,
                   clientVars>>

(* COMMIT, once the cascade has reached every answer                       *)
PurgeDelete ==
    /\ victims = {}
    /\ doomed # {}
    /\ \A a \in doomed, q \in Question : q \in Rows(a) => <<a, q>> \in swept
    /\ status' = [a \in Attempt |->
                    IF a \in doomed THEN "deleted" ELSE status[a]]
    /\ answer' = [a \in Attempt |->
                    IF a \in doomed THEN [q \in Question |-> NoRow]
                    ELSE answer[a]]
    /\ stale' = stale \ doomed
    /\ doomed' = {}
    /\ swept' = {}
    /\ UNCHANGED <<picked, score, bankVars, txn, edit, purge, victims,
                   clientVars>>

PurgeFinish ==
    /\ purge
    /\ victims \cup doomed = {}
    /\ Abandoned = {}
    /\ purge' = FALSE
    /\ UNCHANGED <<attemptVars, answer, bankVars, txn, edit,
                   stale, victims, doomed, swept, clientVars>>

(* the job is killed, or the victim of a deadlock: what it had not         *)
(* committed is rolled back                                                *)
PurgeCrash ==
    /\ purge
    /\ purge' = FALSE
    /\ victims' = {}
    /\ doomed' = {}
    /\ swept' = {}
    /\ UNCHANGED <<attemptVars, answer, bankVars, txn, edit, stale, clientVars>>

-----------------------------------------------------------------------------
(***************************************************************************)
(* Who waits for whom.  A statement takes the rows it locks in no fixed    *)
(* order, so it waits for whoever holds any of those it has not reached.   *)
(***************************************************************************)
RequestWaits(r, y) ==
    LET t == txn[r]
    IN  \/ t.pc = "store" /\ HasAnswer(y, t.attempt, t.question)
        \/ t.pc \in {"attempt_key", "lock"} /\ HasAttempt(y, t.attempt)
        \/ t.pc = "lock" /\ y \in Request /\ SharesAttempt(y, t.attempt)
        \/ /\ t.pc = "option_key"
           /\ y = t.option.question /\ Deleting(t.option)

EditWaits(q, y) ==
    \/ \E a \in ToNull(q) : HasAnswer(y, a, q)
    \/ /\ edit[q] # NoEdit
       /\ y \in Request
       /\ \E s \in Slot \ edit[q].deleted :
             SharesOption(y, [question |-> q, edition |-> edition[q],
                              slot |-> s])

PurgeWaits(y) ==
    \/ \E a \in victims : HasAttempt(y, a)
    \/ y \in Request /\ \E a \in victims : SharesAttempt(y, a)
    \/ /\ victims = {}
       /\ \E a \in doomed : \E q \in Rows(a) :
             <<a, q>> \notin swept /\ HasAnswer(y, a, q)

WaitsFor(x, y) ==
    \/ x \in Request /\ RequestWaits(x, y)
    \/ x \in Question /\ EditWaits(x, y)
    \/ x = Purger /\ PurgeWaits(y)

(* everyone in xs waits for one of them, and is waited for by one          *)
Deadlocked(xs) ==
    /\ xs # {}
    /\ \A x \in xs : /\ \E y \in xs : WaitsFor(x, y)
                     /\ \E y \in xs : WaitsFor(y, x)

(* what the server does for a request once it has arrived                  *)
Serve(r) ==
    \/ SubmitReadStored(r)
    \/ SubmitReadOptions(r)
    \/ StoreInsert(r)
    \/ StoreRefill(r)
    \/ StoreConflict(r)
    \/ StoreAttemptKey(r)
    \/ StoreOptionKey(r)
    \/ SubmitCommit(r)
    \/ SubmitRespond(r)
    \/ CompleteLock(r)
    \/ CompleteReadAnswers(r)
    \/ CompleteClose(r)
    \/ CompleteTrack(r)

(* a client can only send the option ids it has been served                *)
Arrive(r) ==
    \/ \E a \in Attempt, q, p \in Question, s \in Slot :
          \E e \in 0..edition[p] :
             SubmitLoad(r, a, q, [question |-> p, edition |-> e, slot |-> s])
    \/ \E a \in Attempt : CompleteBegin(r, a)

(* the statements of the console's PATCH                                   *)
EditStep(q) ==
    \/ \E s \in Slot : EditDelete(q, s)
    \/ \E a \in Attempt : EditNull(q, a)
    \/ \E correctSlots \in (SUBSET Slot) \ {{}} :
          ReplaceOptions(q, correctSlots)

(* the statements of the purge job                                         *)
PurgeStep ==
    \/ \E batch \in SUBSET Attempt : PurgeSelect(batch)
    \/ \E a \in Attempt : PurgeTake(a)
    \/ \E a \in Attempt, q \in Question : PurgeSweep(a, q)
    \/ PurgeDelete
    \/ PurgeFinish

Purge == PurgeStart \/ PurgeStep \/ PurgeCrash

Next ==
    \/ \E a \in Attempt, questions \in SUBSET Question :
          CreateAttempt(a, questions)
    \/ \E r \in Request : Arrive(r) \/ Serve(r) \/ Crash(r)
    \/ \E q \in Question : EditStep(q) \/ EditAbort(q)
    \/ \E a \in Attempt : Age(a)
    \/ Purge

Spec == Init /\ [][Next]_vars

(***************************************************************************)
(* The event loop runs every handler whose statement has returned, and     *)
(* PostgreSQL hands a row lock on to those who wait for it, so what can    *)
(* proceed again and again does; an edit that has begun goes on.  The job  *)
(* is scheduled daily.  Neither it nor the server is killed forever, or    *)
(* the victim of deadlocks forever: in the end what looks like a crash is  *)
(* the early return of a request, or the job's own end.  Nothing is        *)
(* assumed of clients and admins.                                          *)
(***************************************************************************)
Fairness ==
    /\ \A r \in Request : SF_vars(Serve(r))
    /\ \A q \in Question : SF_vars(edit[q] # NoEdit /\ EditStep(q))
    /\ SF_vars(PurgeStart \/ PurgeStep)
    /\ <>[][PurgeCrash => PurgeStep]_vars
    /\ <>[][\A r \in Request : Crash(r) => Serve(r)]_vars

FairSpec == Spec /\ Fairness

-----------------------------------------------------------------------------
(* What the endpoints promise                                              *)

(***************************************************************************)
(* Two AnswerResults for one question of one attempt, both for options of  *)
(* the list now served or both of an earlier one, are for the same option  *)
(* and carry the same verdict: a second option is refused with a 409       *)
(* however the submits interleave (submit_answer, _store_answer).          *)
(***************************************************************************)
OneAcceptedOption ==
    \A c, d \in told :
        /\ c.attempt = d.attempt
        /\ c.question = d.question
        /\ c.option.edition = d.option.edition
        => c = d

(* an answer that was acknowledged, as long as its option is there         *)
Acked(a, q, o) ==
    /\ Exists(a)
    /\ Live(o)
    /\ \E c \in told : c.attempt = a /\ c.question = q /\ c.option = o

(***************************************************************************)
(* An acknowledged answer is not lost: until the attempt is purged or the  *)
(* option deleted, user_answers holds it with the verdict the client saw.  *)
(***************************************************************************)
AckedAnswerKept ==
    \A c \in told :
        Acked(c.attempt, c.question, c.option)
        => answer[c.attempt][c.question] =
              [option |-> c.option, correct |-> c.correct]

(***************************************************************************)
(* A retry of an acknowledged answer is never refused, also when the       *)
(* attempt was completed in between (submit_answer: "idempotent for the    *)
(* same option"; the closed check comes after the replay case).            *)
(***************************************************************************)
RetryAccepted ==
    \A r \in Request :
        LET t == txn[r]
        IN  /\ t.pc \in {"read_stored", "store"}
            /\ Acked(t.attempt, t.question, t.option)
            => ~Conflicts(t, Stored(t.attempt, t.question))

(***************************************************************************)
(* The verdict stored with an option that is there is the one its question *)
(* has in the answer key: submit_answer reads the key in one statement and *)
(* stores the verdict in a later one, while the admin console edits.       *)
(***************************************************************************)
VerdictMatchesKey ==
    \A a \in Attempt : \A q \in Rows(a) :
        LET row == answer[a][q]
        IN  row.option # NULL =>
              /\ Live(row.option)
              /\ row.option.question = q
              /\ row.correct = IsCorrect(row.option)

(***************************************************************************)
(* Concurrent and retried completes score an attempt once: every response  *)
(* reports the same score, and at most one quiz_completed event is sent    *)
(* ("rather than scoring (and tracking) twice", complete_attempt).         *)
(***************************************************************************)
CompletedOnce ==
    \A a \in Attempt :
        /\ tracked[a] <= 1
        /\ Cardinality(reported[a]) <= 1
        /\ status[a] = "completed" => reported[a] \subseteq {score[a]}

(***************************************************************************)
(* A completed attempt, which the purge never selects, has an answer:      *)
(* starting and completing quizzes in a loop leaves nothing forever        *)
(* (complete_attempt), whatever edits and crashes come in between.         *)
(***************************************************************************)
CompletedHasAnswer ==
    \A a \in Attempt : status[a] = "completed" => Rows(a) # {}

(***************************************************************************)
(* The score of a completed attempt is the number of its answers stored as *)
(* correct, except where an answer came in after the scoring.  The FOR     *)
(* UPDATE lock of complete keeps new rows out while it counts.             *)
(***************************************************************************)
ScoreExactUnlessOvertaken ==
    \A a \in Attempt :
        status[a] = "completed" /\ a \notin overtaken
        => score[a] = Cardinality(CorrectRows(a))

(***************************************************************************)
(* A completed attempt keeps its score and is never reopened.              *)
(***************************************************************************)
ScoreFrozen ==
    [][\A a \in Attempt : status[a] = "completed" =>
          /\ status'[a] \in {"completed", "deleted"}
          /\ score'[a] = score[a]]_vars

(***************************************************************************)
(* A stored option is final: an answer changes only when its option is     *)
(* deleted (which keeps the verdict), or goes with its whole attempt.      *)
(***************************************************************************)
AnswerFinal ==
    [][\A a \in Attempt : \A q \in Rows(a) :
          LET row == answer[a][q]
          IN  row.option # NULL =>
                \/ answer'[a][q] = row
                \/ /\ answer'[a][q] = [row EXCEPT !.option = NULL]
                   /\ edition'[q] > edition[q]
                \/ answer'[a][q] = NoRow /\ status'[a] = "deleted"]_vars

(***************************************************************************)
(* Players never deadlock among themselves, nor with an edit or the purge  *)
(* alone: a circle of row locks needs the purge's cascade and an edit's    *)
(* SET NULL at the same time.  submit takes its answer before the attempt  *)
(* and the option, complete and the purge take the attempt first; that a   *)
(* row filled in again leaves the attempt alone keeps them apart.          *)
(***************************************************************************)
DeadlockNeedsEditAndPurge ==
    \A xs \in SUBSET Actor :
        Deadlocked(xs) => Purger \in xs /\ xs \cap Question # {}

(***************************************************************************)
(* The purge keeps up: an attempt in progress for longer than              *)
(* attempt_retention_days is deleted, unless its player completes it.      *)
(***************************************************************************)
AbandonedGoes ==
    \A a \in Attempt : a \in stale /\ status[a] = "open"
                       ~> status[a] \in {"deleted", "completed"}

(***************************************************************************)
(* "Completed attempts are kept: the attempt id is the only handle a guest *)
(* has on their own history" (scripts/purge_stale_attempts.py:7).          *)
(***************************************************************************)
CompletedKept ==
    [][\A a \in Attempt :
          status[a] = "completed" => status'[a] = "completed"]_vars

(***************************************************************************)
(* The handlers implement the contract: verdicts, scores and events come   *)
(* in no other order than it allows, whatever requests, edits, crashes and *)
(* purges interleave; every other step is invisible to clients.            *)
(***************************************************************************)
Contract == INSTANCE AttemptContract WITH
    phase <- status, quiz <- picked, accepted <- recorded, given <- told,
    final <- score, events <- tracked

ImplementsContract == Contract!Spec
=============================================================================
