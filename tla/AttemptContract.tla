----------------------------- MODULE AttemptContract -----------------------------
(***************************************************************************)
(* What the API promises a client about its quiz attempts, with nothing of *)
(* how it is kept: no requests in flight, no locks, no answer rows.        *)
(***************************************************************************)
EXTENDS Integers, FiniteSets

CONSTANTS
    Attempt,    \* ids of attempts
    Question    \* ids of questions

VARIABLES
    phase,      \* where each attempt is
    quiz,       \* the questions it was started with
    accepted,   \* every answer taken, with its verdict
    given,      \* those whose verdict has reached a client
    final,      \* the score it was completed with
    reported,   \* the scores clients have been told
    events      \* how often its completion was counted by analytics

vars == <<phase, quiz, accepted, given, final, reported, events>>

Init ==
    /\ phase = [a \in Attempt |-> "unborn"]
    /\ quiz = [a \in Attempt |-> {}]
    /\ accepted = {}
    /\ given = {}
    /\ final = [a \in Attempt |-> 0]
    /\ reported = [a \in Attempt |-> {}]
    /\ events = [a \in Attempt |-> 0]

Start(a) ==
    /\ phase[a] = "unborn"
    /\ phase' = [phase EXCEPT ![a] = "open"]
    /\ \E questions \in (SUBSET Question) \ {{}} :
          quiz' = [quiz EXCEPT ![a] = questions]
    /\ UNCHANGED <<accepted, given, final, reported, events>>

(* two verdicts on one question of an attempt, for the same option list    *)
SameList(c, d) ==
    /\ c.attempt = d.attempt
    /\ c.question = d.question
    /\ c.option.edition = d.option.edition

(* One option per question is accepted, with one verdict, as long as the   *)
(* question keeps its options.                                             *)
Accept(c) ==
    /\ phase[c.attempt] # "unborn"
    /\ c.question \in quiz[c.attempt]
    /\ c.option.question = c.question
    /\ \A d \in accepted : ~SameList(c, d)
    /\ accepted' = accepted \cup {c}
    /\ UNCHANGED <<phase, quiz, given, final, reported, events>>

(* The verdict reaches the client, perhaps only on a retry, perhaps never. *)
Tell(c) ==
    /\ c \in accepted
    /\ given' = given \cup {c}
    /\ UNCHANGED <<phase, quiz, accepted, final, reported, events>>

AcceptedOn(a, q) == {c \in accepted : c.attempt = a /\ c.question = q}

(* questions some answer to which was called right, and those where all were *)
Right(a) == {q \in Question : \E c \in AcceptedOn(a, q) : c.correct}

Sure(a) == {q \in Right(a) : \A c \in AcceptedOn(a, q) : c.correct}

(* The score is the number of right answers, by their verdicts; a          *)
(* question whose options were replaced may have several.                  *)
Complete(a) ==
    /\ phase[a] = "open"
    /\ phase' = [phase EXCEPT ![a] = "completed"]
    /\ \E n \in Cardinality(Sure(a)) .. Cardinality(Right(a)) :
          final' = [final EXCEPT ![a] = n]
    /\ \E q \in Question : AcceptedOn(a, q) # {}
    /\ UNCHANGED <<quiz, accepted, given, reported, events>>

(* the score is told as often as asked for, and counted at most once       *)
Report(a) ==
    /\ phase[a] \in {"completed", "deleted"}
    /\ reported' = [reported EXCEPT ![a] = {final[a]}]
    /\ \/ UNCHANGED events
       \/ events[a] = 0 /\ events' = [events EXCEPT ![a] = 1]
    /\ UNCHANGED <<phase, quiz, accepted, given, final>>

(* retention                                                               *)
Discard(gone) ==
    /\ \A a \in gone : phase[a] # "unborn"
    /\ phase' = [a \in Attempt |-> IF a \in gone THEN "deleted" ELSE phase[a]]
    /\ UNCHANGED <<quiz, accepted, given, final, reported, events>>

Next ==
    \/ \E a \in Attempt : Start(a) \/ Complete(a) \/ Report(a)
    \/ \E c \in accepted' : Accept(c) \/ Tell(c)
    \/ \E gone \in SUBSET Attempt : Discard(gone)

Spec == Init /\ [][Next]_vars
==============================================================================
