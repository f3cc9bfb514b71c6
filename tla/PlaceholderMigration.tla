-------------------------- MODULE PlaceholderMigration --------------------------
(***************************************************************************)
(* Migrations 0009 and 0010, the deploy between them and the way back.     *)
(* The code before 0009 (the old code) wrote a user_answers row without an *)
(* option for every question it picked and served a quiz from these rows;  *)
(* the code in this repository serves it from quiz_attempts.question_ids   *)
(* and writes a row with the first answer.  Both run while processes are   *)
(* replaced.                                                               *)
(***************************************************************************)
EXTENDS FiniteSets

CONSTANTS
    Attempt,
    Question,
    Process

VARIABLES
    schema,     \* the last migration committed, "updating": 0010 has begun
    pending,    \* question_ids as 0010 has updated them
    version,    \* the code each process runs
    picked,     \* the questions an attempt was started with
    ids,        \* quiz_attempts.question_ids; {} is its default
    row,        \* user_answers: selected_option_id and is_correct
    author,     \* the code that started an attempt, "late" if after 0009;
                \* "lost" once no table has its questions any more
    credit      \* the questions answered correctly

vars == <<schema, pending, version, picked, ids, row, author, credit>>

(* A blank row has neither option nor credit: it is a placeholder, or a    *)
(* wrong answer whose option was deleted.  "kept" has credit alone.        *)
RowState == {"none", "blank", "kept", "right", "wrong"}

TypeOK ==
    /\ schema \in {"0008", "0009", "updating", "0010"}
    /\ pending \in [Attempt -> SUBSET Question]
    /\ version \in [Process -> {"old", "new"}]
    /\ picked \in [Attempt -> SUBSET Question]
    /\ ids \in [Attempt -> SUBSET Question]
    /\ row \in [Attempt -> [Question -> RowState]]
    /\ author \in [Attempt -> {"none", "old", "late", "new", "lost"}]
    /\ credit \subseteq Attempt \X Question

Rows(a) == {q \in Question : row[a][q] # "none"}

Fresh(a) == author[a] = "none"

-----------------------------------------------------------------------------
NoUpdate == [a \in Attempt |-> {}]

Init ==
    /\ schema = "0008"
    /\ pending = NoUpdate
    /\ version = [p \in Process |-> "old"]
    /\ picked = [a \in Attempt |-> {}]
    /\ ids = [a \in Attempt |-> {}]
    /\ row = [a \in Attempt |-> [q \in Question |-> "none"]]
    /\ author = [a \in Attempt |-> "none"]
    /\ credit = {}

(* the old code's INSERT names no question_ids                             *)
OldCreate(p, a, questions) ==
    /\ version[p] = "old"
    /\ schema # "0010"
    /\ Fresh(a)
    /\ picked' = [picked EXCEPT ![a] = questions]
    /\ row' = [row EXCEPT ![a] =
                 [q \in Question |-> IF q \in questions THEN "blank"
                                                        ELSE "none"]]
    /\ author' = [author EXCEPT ![a] = IF schema = "0008" THEN "old"
                                                          ELSE "late"]
    /\ UNCHANGED <<pending, schema, version, ids, credit>>

(* create_attempt                                                          *)
NewCreate(p, a, questions) ==
    /\ version[p] = "new"
    /\ Fresh(a)
    /\ picked' = [picked EXCEPT ![a] = questions]
    /\ ids' = [ids EXCEPT ![a] = questions]
    /\ author' = [author EXCEPT ![a] = "new"]
    /\ UNCHANGED <<pending, schema, version, row, credit>>

(* the questions a process shows, and takes answers for                    *)
Shown(p, a) == IF version[p] = "old" THEN Rows(a) ELSE ids[a]

(* an answer to a question that has none                                   *)
Submit(p, a, q, verdict) ==
    /\ q \in Shown(p, a)
    /\ row[a][q] \in {"none", "blank", "kept"}
    /\ row' = [row EXCEPT ![a][q] = verdict]
    /\ credit' = IF verdict = "right" THEN credit \cup {<<a, q>>}
                                      ELSE credit \ {<<a, q>>}
    /\ UNCHANGED <<pending, schema, version, picked, ids, author>>

(* ON DELETE SET NULL                                                      *)
WithoutOption(x) ==
    CASE x = "right" -> "kept"
      [] x = "wrong" -> "blank"
      [] OTHER -> x

(* an edit deletes the question's options                                  *)
Edit(q) ==
    /\ row' = [a \in Attempt |-> [row[a] EXCEPT ![q] = WithoutOption(@)]]
    /\ UNCHANGED <<pending, schema, version, picked, ids, author, credit>>

-----------------------------------------------------------------------------
(* whatever ids an attempt has are replaced                                *)
BackfilledMutant == [a \in Attempt |-> Rows(a)]

(* attempts without ids get those of their rows: the UPDATE of both        *)
Backfilled == [a \in Attempt |-> IF ids[a] = {} THEN Rows(a) ELSE ids[a]]

(* ADD COLUMN keeps every other statement on the table out until it        *)
(* commits.                                                                *)
Migrate9 ==
    /\ schema = "0008"
    /\ schema' = "0009"
    /\ ids' = Backfilled
    /\ UNCHANGED <<pending, version, picked, row, author, credit>>

(* both versions need the column, and its default                          *)
Deploy(p, code) ==
    /\ schema = "0009"
    /\ version' = [version EXCEPT ![p] = code]
    /\ UNCHANGED <<pending, schema, picked, ids, row, author, credit>>

(* a process of the new code is live, others are still to be replaced      *)
DeployedMutant == \E p \in Process : version[p] = "new"

(* 0010 comes after the deploy                                             *)
Deployed == \A p \in Process : version[p] = "new"

(* 0010's first statement, an UPDATE that is not committed yet             *)
Migrate10Update ==
    /\ schema = "0009"
    /\ Deployed
    /\ schema' = "updating"
    /\ pending' = Backfilled
    /\ UNCHANGED <<version, picked, ids, row, author, credit>>

(* every row without an option goes                                        *)
PlaceholderMutant(x) == x \in {"blank", "kept"}

(* WHERE selected_option_id IS NULL AND NOT is_correct                     *)
Placeholder(x) == x = "blank"

(* DROP DEFAULT waits for all who have read the table and keeps others out *)
(* until the DELETE is committed.                                          *)
Migrate10Delete ==
    /\ schema = "updating"
    /\ schema' = "0010"
    /\ ids' = [a \in Attempt |->
                  IF pending[a] = {} THEN ids[a] ELSE pending[a]]
    /\ row' = [a \in Attempt |-> [q \in Question |->
                 IF Placeholder(row[a][q]) THEN "none" ELSE row[a][q]]]
    /\ pending' = NoUpdate
    /\ UNCHANGED <<version, picked, author, credit>>

(* the connection of the migration is lost, and it is rolled back          *)
Migrate10Abort ==
    /\ schema = "updating"
    /\ schema' = "0009"
    /\ pending' = NoUpdate
    /\ UNCHANGED <<version, picked, ids, row, author, credit>>

(* 0010.down puts a placeholder back for every question without a row      *)
Revert10 ==
    /\ schema = "0010"
    /\ schema' = "0009"
    /\ row' = [a \in Attempt |-> [q \in Question |->
                 IF q \in ids[a] \ Rows(a) THEN "blank" ELSE row[a][q]]]
    /\ author' = [a \in Attempt |-> IF author[a] \in {"none", "lost"}
                                    THEN author[a] ELSE "old"]
    /\ UNCHANGED <<pending, version, picked, ids, credit>>

(* 0009.down drops the column, after a rollback to the old code            *)
Revert9 ==
    /\ schema = "0009"
    /\ \A p \in Process : version[p] = "old"
    /\ schema' = "0008"
    /\ ids' = [a \in Attempt |-> {}]
    /\ author' = [a \in Attempt |->
                     CASE author[a] = "new" -> "lost"
                       [] author[a] = "late" -> "old"
                       [] OTHER -> author[a]]
    /\ UNCHANGED <<pending, version, picked, row, credit>>

-----------------------------------------------------------------------------
Next ==
    \/ Migrate9
    \/ Migrate10Update
    \/ Migrate10Delete
    \/ Migrate10Abort
    \/ Revert10
    \/ Revert9
    \/ \E q \in Question : Edit(q)
    \/ \E p \in Process :
          \/ \E code \in {"old", "new"} : Deploy(p, code)
          \/ \E a \in Attempt :
                \/ \E questions \in SUBSET Question \ {{}} :
                      OldCreate(p, a, questions) \/ NewCreate(p, a, questions)
                \/ \E q \in Question, verdict \in {"right", "wrong"} :
                      Submit(p, a, q, verdict)

Spec == Init /\ [][Next]_vars

-----------------------------------------------------------------------------
(* What the two migrations promise                                         *)

(***************************************************************************)
(* After 0010 every attempt is served with the questions it was started    *)
(* with, also those begun by the old code between 0009 and the deploy, and *)
(* after a rollback and a second upgrade; only what the new code started   *)
(* after 0010.down is lost with the column.                                *)
(***************************************************************************)
QuestionsKept ==
    schema = "0010" =>
        \A a \in Attempt : author[a] = "lost" \/ ids[a] = picked[a]

(***************************************************************************)
(* Until then a process serves every attempt that its own version started, *)
(* and all that were there when 0009 or 0010.down was applied; what is     *)
(* started with one version and continued with the other during a deploy   *)
(* may show no questions ("an attempt the old code starts gets the empty   *)
(* default and shows no questions", 0010).                                 *)
(***************************************************************************)
VersionServesItsOwn ==
    \A p \in Process, a \in Attempt :
        \/ author[a] = "lost"
        \/ version[p] = "old" /\ author[a] = "new"
        \/ version[p] = "new" /\ author[a] = "late" /\ schema # "0010"
        \/ Shown(p, a) = picked[a]

(***************************************************************************)
(* A correct answer keeps its credit through both migrations and back,    *)
(* also when an edit has deleted its option.                               *)
(***************************************************************************)
CreditKept ==
    \A a \in Attempt, q \in Question :
        <<a, q>> \in credit <=> row[a][q] \in {"right", "kept"}
=============================================================================
