------------------------------ MODULE AttemptRead ------------------------------
(***************************************************************************)
(* GET /quiz-attempts/{id} beside everything QuizAttempts does: the client *)
(* that resumes an attempt, or looks at its result, gets a page put        *)
(* together from three reads in one session (get_attempt).  Between them   *)
(* answers are stored, options replaced and attempts purged.               *)
(***************************************************************************)
EXTENDS QuizAttempts

VARIABLE get    \* the handler of the one GET in flight

Page ==
    [pc: {"questions", "answers", "page"}, attempt: Attempt,
     since: SUBSET Claim,               \* told before the GET arrived
     score: Nat \cup {NULL},            \* the score, of a completed attempt
     list: [Question -> Nat],           \* the option list it has read,
     marked: [Question -> SUBSET Slot], \* which of it are correct,
     seen: [Question -> AnswerRow \cup {NoRow}]]   \* and the answer row

GetTypeOK == get \in {Idle} \cup Page

ReadInit == Init /\ get = Idle

(* the answers are read before the questions                               *)
AfterMutant(read) ==
    CASE read = "attempt" -> "answers"
      [] read = "answers" -> "questions"
      [] read = "questions" -> "page"

(* the order of the reads                                                  *)
After(read) ==
    CASE read = "attempt" -> "questions"
      [] read = "questions" -> "answers"
      [] read = "answers" -> "page"

(* _load_attempt; an attempt that is not there is a 404                    *)
GetAttempt(a) ==
    /\ get = Idle
    /\ Exists(a)
    /\ get' = [pc |-> After("attempt"), attempt |-> a, since |-> told,
               score |-> IF status[a] = "completed" THEN score[a] ELSE NULL,
               list |-> [q \in Question |-> 0],
               marked |-> [q \in Question |-> {}],
               seen |-> [q \in Question |-> NoRow]]

(* _questions_by_id: the questions, then the options of all of them        *)
GetQuestions ==
    /\ get.pc = "questions"
    /\ get' = [get EXCEPT !.pc = After("questions"),
                          !.list = edition, !.marked = key]

(* _answers_by_question                                                    *)
GetAnswers ==
    /\ get.pc = "answers"
    /\ get' = [get EXCEPT !.pc = After("answers"), !.seen = answer[get.attempt]]

(* the page has been sent                                                  *)
GetRespond == get.pc = "page" /\ get' = Idle

Get ==
    \/ \E a \in Attempt : GetAttempt(a)
    \/ GetQuestions
    \/ GetAnswers
    \/ GetRespond

ReadNext ==
    \/ Next /\ UNCHANGED get
    \/ Get /\ UNCHANGED vars

ReadSpec == ReadInit /\ [][ReadNext]_<<vars, get>>

-----------------------------------------------------------------------------
(* _attempt_question: what the page says of a question                     *)

Answered(q) ==
    /\ q \in picked[get.attempt]
    /\ get.seen[q] # NoRow
    /\ get.seen[q].option # NULL

(* correct_option_id is filled in                                          *)
ShowsKey(q) == Answered(q) /\ ~get.seen[q].correct

(***************************************************************************)
(* A page never gives away the answer key of an option list that is being  *)
(* served and that the attempt has not answered: an edit between the reads *)
(* must not pair an answer to the old list with the key of the new one     *)
(* ("The answer key is filled in only for a question that has already been *)
(* answered", _attempt_question).                                          *)
(***************************************************************************)
KeyStaysSecret ==
    get.pc = "page" =>
        \A q \in Question :
            ShowsKey(q) => \/ get.list[q] = get.seen[q].option.edition
                           \/ get.list[q] # edition[q]

(***************************************************************************)
(* An answered question is shown with the list its option is on, and its   *)
(* verdict agrees with the key that is shown; a page that pairs an answer  *)
(* with another list (the options are read before the answers) is of a     *)
(* list that is no longer served.                                          *)
(***************************************************************************)
PageCoherent ==
    get.pc = "page" =>
        \A q \in Question :
            Answered(q) =>
                LET row == get.seen[q]
                IN  \/ get.list[q] # edition[q]
                    \/ /\ get.list[q] = row.option.edition
                       /\ row.correct <=> row.option.slot \in get.marked[q]

(***************************************************************************)
(* The score on a page counts the correct answers read for it, although it *)
(* was read before them, unless an answer was stored after the scoring or  *)
(* the attempt is gone.                                                    *)
(***************************************************************************)
ScoreShown ==
    get.pc = "page" /\ get.score # NULL =>
        \/ get.attempt \in overtaken
        \/ ~Exists(get.attempt)
        \/ get.score = Cardinality({q \in Question :
                            get.seen[q] # NoRow /\ get.seen[q].correct})

(***************************************************************************)
(* A resumed attempt shows every answer that was acknowledged before the   *)
(* page was asked for, with the verdict the client was told, unless its    *)
(* option has been deleted or the attempt purged since.                    *)
(***************************************************************************)
AckedShown ==
    get.pc = "page" =>
        \A c \in get.since :
            /\ c.attempt = get.attempt
            /\ Live(c.option)
            /\ Exists(c.attempt)
            => get.seen[c.question] = [option |-> c.option,
                                       correct |-> c.correct]
=============================================================================
