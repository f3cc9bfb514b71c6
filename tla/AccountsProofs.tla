----------------------------- MODULE AccountsProofs -----------------------------
(***************************************************************************)
(* Accounts and refresh tokens, for any number of users, names, tokens and *)
(* requests.                                                               *)
(*                                                                         *)
(* Only four steps write a table: a new token, a logout, a rename and a    *)
(* delete.  All others move one request on, and matter by what they let    *)
(* it rely on.                                                             *)
(***************************************************************************)
EXTENDS Accounts, FiniteSetTheorems, TLAPS

(* a request is where its handler can be, with the locals it has by then   *)
Proper(t) ==
    /\ t \in Running
    /\ t.user \in User
    /\ \/ t.kind = "signup" /\ t.pc \in {"insert", "insert_email", "issue"}
       \/ t.kind = "login" /\ t.pc = "issue"
       \/ t.kind = "refresh" /\ t.pc \in {"read_user", "revoke", "issue"}
       \/ t.kind = "logout" /\ t.pc = "revoke"
       \/ t.kind = "rename" /\ t.pc \in {"rename", "index", "index_email",
                                         "reread"}
       \/ t.kind = "delete" /\ t.pc \in {"delete", "cascade"}
    /\ t.kind = "signup" => t.body \in Account
    /\ IF t.kind \in {"refresh", "logout"} THEN t.token \in Token
                                           ELSE t.token = None

RequestsOK == \A r \in Request : txn[r] = Idle \/ Proper(txn[r])

Issues(t) == t.pc # "idle" /\ t.kind \in {"signup", "login", "refresh"}

Issuers == {r \in Request : Issues(txn[r])}

(* an id is left for every token to come                                   *)
RoomOK == Cardinality(Issuers) <= Cardinality(Left)

SigningUpTo(r, u) == ~At(r, "idle") /\ txn[r].kind = "signup" /\ txn[r].user = u

(* the id of a user to come has no row and is nobody else's                *)
FreshOK ==
    \A r \in Request, u \in User : SigningUpTo(r, u) =>
        /\ account[u] = Unused
        /\ \A s \in Request : SigningUpTo(s, u) => s = r

(* a users row that is being written exists and is written by one request  *)
RowsHeldOK ==
    \A r \in Request, u \in User : LocksUser(r, u) =>
        /\ u \in Users
        /\ \A s \in Request : LocksUser(s, u) => s = r

(* what is in a unique index and not committed is nobody else's            *)
EntriesOK ==
    \A r \in Request : \A c \in Entered(txn[r]) :
        /\ ~Taken(txn[r], c)
        /\ \A s \in Request :
              /\ c \in Entered(txn[s])
              /\ Wanted(txn[s], c) = Wanted(txn[r], c)
              => s = r

(* a token that is being exchanged cannot be deleted                       *)
HeldOK == \A r \in Request, tk \in Token : LocksToken(r, tk) => tk \in Tokens

Spent(tk) ==
    \/ token[tk] = Gone
    \/ tk \in Tokens /\ token[tk].revoked

(* a token was issued for one that is spent                                *)
FromOK ==
    \A new \in Token :
        /\ token[new] = Unused => from[new] = None
        /\ from[new] # None => Spent(from[new])

StateOK ==
    /\ TypeOK
    /\ RequestsOK
    /\ RoomOK
    /\ FreshOK
    /\ RowsHeldOK
    /\ EntriesOK
    /\ HeldOK
    /\ FromOK

AccountsInv ==
    /\ StateOK
    /\ UniqueAccounts
    /\ TokensHaveUser
    /\ SuccessorsBounded

-----------------------------------------------------------------------------
(* The kinds of steps                                                      *)

Writing == {"index", "index_email", "cascade"}

(* r takes up a new request                                                *)
Enters(r, t) ==
    /\ txn[r] = Idle
    /\ Proper(t)
    /\ Entered(t) = {}
    /\ t.pc \notin Writing
    /\ t.kind = "signup" => t.user \in Unclaimed
    /\ Issues(t) => Room
    /\ t.kind = "refresh" => t.pc = "read_user" /\ Usable(t.token)

(* r goes on with its request                                              *)
Moves(r, t) ==
    /\ Proper(txn[r])
    /\ Proper(t)
    /\ t.kind = txn[r].kind
    /\ t.user = txn[r].user
    /\ t.token = txn[r].token
    /\ t.body = txn[r].body
    /\ \A c \in Entered(t) \ Entered(txn[r]) :
          Free(r) /\ c \in Entering(txn[r]) /\ ~Taken(txn[r], c)
    /\ t.pc \in Writing /\ txn[r].pc \notin Writing =>
          /\ Free(r)
          /\ txn[r].pc \in {"rename", "delete"}
          /\ t.user \in Users
    /\ t.kind = "refresh" /\ t.pc = "issue" => t.token \in Tokens

Quiet(r, t) ==
    /\ Goto(r, t)
    /\ t = Idle \/ Enters(r, t) \/ Moves(r, t)

Inserts(r, new) ==
    LET t == txn[r]
    IN  /\ t.pc = "issue"
        /\ new \in Left
        /\ ~Orphan(t)
        /\ token' = [Revoked(t) EXCEPT ![new] = [user |-> t.user,
                                                 revoked |-> FALSE]]
        /\ from' = [from EXCEPT ![new] = t.token]
        /\ account' = IF t.kind = "signup"
                      THEN [account EXCEPT ![t.user] = t.body] ELSE account
        /\ Answered(r)

LogsOut(r) ==
    LET tk == txn[r].token
    IN  /\ txn[r].pc = "revoke"
        /\ txn[r].kind = "logout"
        /\ tk \in Tokens
        /\ token' = [token EXCEPT ![tk].revoked = TRUE]
        /\ Answered(r)
        /\ UNCHANGED <<account, from>>

Renames(r) ==
    LET t == txn[r]
    IN  /\ t.pc = "index_email"
        /\ Free(r)
        /\ ~Taken(t, "email")
        /\ account' = [account EXCEPT ![t.user] = Renamed(t)]
        /\ Become(r, [t EXCEPT !.pc = "reread"])
        /\ UNCHANGED <<token, from>>

Deletes(r) == Cascade(r)

Step(r) ==
    \/ \E t : Quiet(r, t)
    \/ \E new \in Token : Inserts(r, new)
    \/ LogsOut(r)
    \/ Renames(r)
    \/ Deletes(r)

LEMMA IdsDiffer ==
    /\ Unused \notin Row /\ Gone \notin Row /\ Unused # Gone
    /\ None \notin Token
    /\ Unused \notin Account /\ Gone \notin Account
    /\ Nothing \in Body /\ Account \subseteq Body
  BY AccountsAssumption DEF AccountsAssumption, Row, Account, Body, Nothing

LEMMA LeftFinite ==
    /\ IsFiniteSet(Left)
    /\ Cardinality(Left) \in Nat
  <1>1. Left \subseteq Token /\ IsFiniteSet(Token)
    BY AccountsAssumption DEF AccountsAssumption, Left
  <1>2. QED
    BY <1>1, FS_Subset, FS_CardinalityType

LEMMA RequestsFinite ==
    ASSUME NEW S \in SUBSET Request
    PROVE  /\ IsFiniteSet(S)
           /\ Cardinality(S) \in Nat
           /\ Cardinality(S) <= Cardinality(Request)
  BY AccountsAssumption, FS_Subset, FS_CardinalityType DEF AccountsAssumption

(* Who issues a token finds an id left.                                    *)
LEMMA LeftForIssue ==
    ASSUME RoomOK, NEW r \in Issuers
    PROVE  Left # {}
  <1>1. Issuers \in SUBSET Request
    BY DEF Issuers
  <1>2. Cardinality(Issuers) # 0 /\ Cardinality(Issuers) \in Nat
    BY <1>1, RequestsFinite, FS_EmptySet
  <1>3. Cardinality(Left) # 0
    BY <1>2, LeftFinite DEF RoomOK
  <1>4. QED
    BY <1>3, FS_EmptySet

(* A record moved on keeps its locals.                                     *)
LEMMA MovedFields ==
    ASSUME NEW t, Proper(t),
           NEW pc \in {"insert_email", "read_user", "revoke", "issue",
                       "index", "index_email", "reread", "cascade"}
    PROVE  LET u == [t EXCEPT !.pc = pc]
           IN  /\ u \in Running
               /\ u.pc = pc
               /\ u.kind = t.kind
               /\ u.user = t.user
               /\ u.token = t.token
               /\ u.body = t.body
  BY DEF Proper, Running

LEMMA ArriveStep ==
    ASSUME TypeOK, NEW r \in Request, Arrive(r)
    PROVE  \E t : Quiet(r, t)
  <1>1. /\ txn[r] = Idle
        /\ \A u \in Users : u \in User /\ account[u] \in Account
        /\ \A tk \in Tokens : tk \in Token /\ token[tk].user \in User
    BY DEF TypeOK, Arrive, Signup, Login, Refresh, Logout, UpdateUser,
           DeleteUser, At, Running, Users, Tokens, Row
  <1>2. CASE Answer(r)
    BY <1>2 DEF Answer, Quiet
  <1>3. ASSUME NEW e \in Account, Signup(r, e)
        PROVE  \E t : Quiet(r, t)
    <2> DEFINE u == CHOOSE u \in Unclaimed : TRUE
    <2>1. u \in User /\ u \in Unclaimed
      BY <1>3 DEF Signup, Unclaimed
    <2> HIDE DEF u
    <2> DEFINE t == [pc |-> "insert", kind |-> "signup", user |-> u,
                     token |-> None, body |-> e]
    <2>2. Goto(r, t) /\ Room
      BY <1>3 DEF Signup, Start, u
    <2>3. Enters(r, t)
      <3>1. t \in Running
        BY <2>1, IdsDiffer DEF Running
      <3>2. Entered(t) = {} /\ t.pc \notin Writing
        BY DEF Entered, Writing
      <3>3. QED
        BY <1>1, <2>1, <2>2, <3>1, <3>2 DEF Enters, Proper
    <2> HIDE DEF t
    <2>4. QED
      BY <2>2, <2>3 DEF Quiet
  <1>4. ASSUME NEW e \in Email, Login(r, e), ~Answer(r)
        PROVE  \E t : Quiet(r, t)
    <2>1. PICK u \in Users : Start(r, "issue", "login", u, None, Nothing)
      BY <1>4 DEF Login
    <2> DEFINE t == [pc |-> "issue", kind |-> "login", user |-> u,
                     token |-> None, body |-> Nothing]
    <2>2. Goto(r, t) /\ Room
      BY <1>4, <2>1 DEF Login, Start
    <2>3. Enters(r, t)
      BY <1>1, <2>1, <2>2, IdsDiffer
         DEF Enters, Proper, Running, Entered, Writing
    <2> HIDE DEF t
    <2>4. QED
      BY <2>2, <2>3 DEF Quiet
  <1>5. ASSUME NEW tk \in Token, Refresh(r, tk), ~Answer(r)
        PROVE  \E t : Quiet(r, t)
    <2> DEFINE t == [pc |-> "read_user", kind |-> "refresh",
                     user |-> token[tk].user, token |-> tk, body |-> Nothing]
    <2>1. Goto(r, t) /\ Room /\ Usable(tk)
      BY <1>5 DEF Refresh, Start
    <2>2. token[tk].user \in User
      BY <1>1, <2>1 DEF Usable
    <2>3. Enters(r, t)
      BY <1>1, <2>1, <2>2, IdsDiffer
         DEF Enters, Proper, Running, Entered, Writing
    <2> HIDE DEF t
    <2>4. QED
      BY <2>1, <2>3 DEF Quiet
  <1>6. ASSUME NEW tk \in Token, Logout(r, tk), ~Answer(r)
        PROVE  \E t : Quiet(r, t)
    <2> DEFINE t == [pc |-> "revoke", kind |-> "logout",
                     user |-> token[tk].user, token |-> tk, body |-> Nothing]
    <2>1. Goto(r, t) /\ tk \in Tokens
      BY <1>6 DEF Logout, Start
    <2>2. Enters(r, t)
      BY <1>1, <2>1, IdsDiffer
         DEF Enters, Proper, Running, Entered, Writing, Issues
    <2> HIDE DEF t
    <2>3. QED
      BY <2>1, <2>2 DEF Quiet
  <1>7. ASSUME NEW u \in User, NEW e \in Body, UpdateUser(r, u, e), ~Answer(r)
        PROVE  \E t : Quiet(r, t)
    <2> DEFINE body == Changed(u, e)
               pc == IF body = Nothing THEN "reread" ELSE "rename"
               t == [pc |-> pc, kind |-> "rename", user |-> u,
                     token |-> None, body |-> body]
    <2>1. Goto(r, t) /\ pc \in {"reread", "rename"} /\ u \in Users
      BY <1>7 DEF UpdateUser, Start
    <2>2. body \in Body
      BY <1>1, <2>1 DEF Changed, Account, Body, Column
    <2> HIDE DEF pc, body
    <2>3. Enters(r, t)
      BY <1>1, <2>1, <2>2 DEF Enters, Proper, Running, Entered, Writing, Issues
    <2> HIDE DEF t
    <2>4. QED
      BY <2>1, <2>3 DEF Quiet
  <1>8. ASSUME NEW u \in User, DeleteUser(r, u), ~Answer(r)
        PROVE  \E t : Quiet(r, t)
    <2> DEFINE t == [pc |-> "delete", kind |-> "delete", user |-> u,
                     token |-> None, body |-> Nothing]
    <2>1. Goto(r, t)
      BY <1>8 DEF DeleteUser, Start
    <2>2. Enters(r, t)
      BY <1>1, IdsDiffer
         DEF Enters, Proper, Running, Entered, Writing, Issues
    <2> HIDE DEF t
    <2>3. QED
      BY <2>1, <2>2 DEF Quiet
  <1>9. QED
    BY <1>2, <1>3, <1>4, <1>5, <1>6, <1>7, <1>8 DEF Arrive

LEMMA ServeStep ==
    ASSUME TypeOK, RequestsOK, RoomOK, NEW r \in Request, Serve(r)
    PROVE  Step(r)
  <1> DEFINE t == txn[r]
  <1>1. CASE Answer(r)
    BY <1>1 DEF Answer, Quiet, Step
  <1>2. Answer(r) \/ Proper(t)
    BY DEF RequestsOK, Serve, EnterUsername, InsertUser, ReadUser, Revoke, Issue,
           Rename, RenameCommit, Reread, DeleteRow, Cascade, DeadlockAbort, At, Idle
  <1>3. ASSUME NEW pc \in {"insert_email", "read_user", "revoke", "issue",
                           "index", "index_email", "reread", "cascade"},
               Proper(t), Proceed(r, pc),
               \/ /\ EnterUsername(r) /\ ~Taken(t, "username")
                  /\ pc = IF t.pc = "insert" THEN "insert_email" ELSE "index_email"
               \/ InsertUser(r) /\ pc = "issue" /\ ~Taken(t, "email")
               \/ ReadUser(r) /\ pc = "revoke"
               \/ /\ Revoke(r) /\ pc = "issue"
                  /\ t.kind = "refresh" /\ t.token \in Tokens
               \/ Rename(r) /\ pc \in {"reread", "index"} /\ t.user \in Users
               \/ DeleteRow(r) /\ pc = "cascade" /\ t.user \in Users
        PROVE  Step(r)
    <2> DEFINE u == [t EXCEPT !.pc = pc]
    <2>1. Goto(r, u)
      BY <1>3 DEF Proceed
    <2>2. /\ u \in Running
          /\ u.pc = pc
          /\ u.kind = t.kind
          /\ u.user = t.user
          /\ u.token = t.token
          /\ u.body = t.body
      BY <1>3, MovedFields
    <2> HIDE DEF u
    <2>3. Proper(u)
      BY <1>3, <2>2 DEF Proper, EnterUsername, InsertUser, ReadUser, Revoke,
                        Rename, DeleteRow, At
    <2>4. ASSUME NEW c \in Entered(u) \ Entered(t)
          PROVE  Free(r) /\ c \in Entering(t) /\ ~Taken(t, c)
      BY <1>3, <2>2 DEF Proper, Entered, Entering, EnterUsername, InsertUser,
                        ReadUser, Revoke, Rename, DeleteRow, At, Column
    <2>5. u.pc \in Writing /\ t.pc \notin Writing =>
             Free(r) /\ t.pc \in {"rename", "delete"} /\ u.user \in Users
      BY <1>3, <2>2 DEF Writing, EnterUsername, InsertUser, ReadUser, Revoke,
                        Rename, DeleteRow, At
    <2>6. u.kind = "refresh" /\ u.pc = "issue" => u.token \in Tokens
      BY <1>3, <2>2 DEF Proper, EnterUsername, InsertUser, Rename, DeleteRow, At
    <2>7. Moves(r, u)
      BY <1>3, <2>2, <2>3, <2>4, <2>5, <2>6 DEF Moves
    <2>8. QED
      BY <2>1, <2>7 DEF Quiet, Step
  <1>4. CASE Issue(r) /\ Proper(t) /\ ~Answer(r)
    <2> DEFINE new == CHOOSE tk \in Left : TRUE
    <2>1. r \in Issuers
      BY <1>4 DEF Issue, At, Issuers, Issues, Proper
    <2>2. new \in Left /\ new \in Token
      BY <2>1, LeftForIssue DEF Left
    <2>3. Inserts(r, new)
      BY <1>4, <2>2 DEF Issue, Inserts, At
    <2>4. QED
      BY <2>2, <2>3 DEF Step
  <1>5. CASE Revoke(r) /\ Proper(t) /\ ~Answer(r)
    BY <1>3, <1>5 DEF Revoke, LogsOut, Step, At
  <1>6. CASE RenameCommit(r) /\ ~Answer(r)
    BY <1>6 DEF RenameCommit, Renames, Step, At
  <1>7. CASE Cascade(r)
    BY <1>7 DEF Step, Deletes
  <1>8. CASE \/ EnterUsername(r) \/ InsertUser(r) \/ ReadUser(r)
             \/ Rename(r) \/ DeleteRow(r)
    BY <1>1, <1>2, <1>3, <1>8
       DEF EnterUsername, InsertUser, ReadUser, Rename, DeleteRow
  <1>9. CASE Reread(r) \/ DeadlockAbort(r)
    BY <1>1, <1>9 DEF Reread, DeadlockAbort
  <1>10. QED
    BY <1>1, <1>2, <1>4, <1>5, <1>6, <1>7, <1>8, <1>9 DEF Serve

LEMMA Steps ==
    ASSUME TypeOK, RequestsOK, RoomOK, Next
    PROVE  \E r \in Request : Step(r)
  <1>1. ASSUME NEW r \in Request, Crash(r)
        PROVE  Step(r)
    BY <1>1 DEF Crash, Quiet, Step
  <1>2. QED
    BY <1>1, ArriveStep, ServeStep DEF Next, Step
-----------------------------------------------------------------------------
(* Types and places                                                        *)

(* A step moves the request that makes it and no other.                    *)
LEMMA Becomes ==
    ASSUME TypeOK, NEW r \in Request, NEW t, Become(r, t)
    PROVE  /\ txn'[r] = t
           /\ \A s \in Request \ {r} : txn'[s] = txn[s]
  BY DEF TypeOK, Become

LEMMA Reaches ==
    ASSUME TypeOK, RequestsOK, NEW r \in Request, Step(r)
    PROVE  /\ txn'[r] = Idle \/ Proper(txn'[r])
           /\ \A s \in Request \ {r} : txn'[s] = txn[s]
           /\ txn' \in [Request -> {Idle} \cup Running]
  <1>1. PICK t : /\ Become(r, t)
                 /\ t = Idle \/ Proper(t)
    <2>1. CASE \E t : Quiet(r, t)
      BY <2>1 DEF Quiet, Goto, Enters, Moves
    <2>2. CASE \/ \E new \in Token : Inserts(r, new)
               \/ LogsOut(r)
               \/ Deletes(r)
      BY <2>2 DEF Inserts, LogsOut, Deletes, Cascade, Answered
    <2>3. CASE Renames(r)
      <3> DEFINE u == [txn[r] EXCEPT !.pc = "reread"]
      <3>1. Become(r, u) /\ txn[r].pc = "index_email"
        BY <2>3 DEF Renames
      <3>2. Proper(txn[r])
        BY <3>1 DEF RequestsOK, Idle
      <3>3. /\ u \in Running
            /\ u.pc = "reread"
            /\ u.kind = txn[r].kind
            /\ u.user = txn[r].user
            /\ u.token = txn[r].token
            /\ u.body = txn[r].body
        BY <3>2, MovedFields
      <3> HIDE DEF u
      <3>4. Proper(u)
        BY <3>1, <3>2, <3>3 DEF Proper
      <3>5. QED
        BY <3>1, <3>4
    <2>4. QED
      BY <2>1, <2>2, <2>3 DEF Step
  <1>2. t \in {Idle} \cup Running
    BY <1>1 DEF Proper
  <1>3. QED
    BY <1>1, <1>2, Becomes DEF TypeOK, Become

(* A token is revoked.                                                     *)
RevokedFor(u) == [user |-> u, revoked |-> TRUE]

LEMMA RevokedRow ==
    ASSUME NEW row \in Row
    PROVE  /\ [row EXCEPT !.revoked = TRUE] = RevokedFor(row.user)
           /\ RevokedFor(row.user) \in Row
           /\ RevokedFor(row.user).user = row.user
           /\ RevokedFor(row.user).revoked
  <1> DEFINE new == [row EXCEPT !.revoked = TRUE]
  <1>1. new \in Row /\ new.user = row.user /\ new.revoked = TRUE
    BY DEF Row
  <1> HIDE DEF new
  <1>2. PICK u \in User, b \in BOOLEAN : new = [user |-> u, revoked |-> b]
    BY <1>1 DEF Row
  <1>3. new = [user |-> row.user, revoked |-> TRUE]
    BY <1>1, <1>2
  <1>4. /\ RevokedFor(row.user) \in Row
        /\ RevokedFor(row.user).user = row.user
    BY DEF RevokedFor, Row
  <1>5. RevokedFor(row.user).revoked
    BY DEF RevokedFor
  <1>6. QED
    BY <1>3, <1>4, <1>5 DEF new, RevokedFor

(* What the issue of a token does to the one it was issued for.            *)
LEMMA RevokedFields ==
    ASSUME TypeOK, HeldOK, NEW r \in Request, Proper(txn[r]),
           txn[r].pc = "issue"
    PROVE  LET t == txn[r]
           IN  /\ Revoked(t) \in [Token -> Row \cup {Unused, Gone}]
               /\ \A tk \in Token :
                     IF t.kind = "refresh" /\ tk = t.token
                     THEN Revoked(t)[tk] = RevokedFor(token[tk].user)
                     ELSE Revoked(t)[tk] = token[tk]
  <1> DEFINE t == txn[r]
  <1>1. CASE t.kind = "refresh"
    <2>1. t.token \in Token /\ LocksToken(r, t.token)
      BY <1>1 DEF Proper, LocksToken, At
    <2>2. token[t.token] \in Row
      BY <2>1 DEF HeldOK, Tokens
    <2>3. /\ [token[t.token] EXCEPT !.revoked = TRUE]
                = RevokedFor(token[t.token].user)
          /\ RevokedFor(token[t.token].user) \in Row
      BY <2>2, RevokedRow
    <2>4. Revoked(t) = [token EXCEPT ![t.token] =
                                         RevokedFor(token[t.token].user)]
      BY <1>1, <2>3 DEF Revoked
    <2>5. QED
      BY <1>1, <2>1, <2>3, <2>4 DEF TypeOK
  <1>2. CASE t.kind # "refresh"
    BY <1>2 DEF Revoked, TypeOK
  <1>3. QED
    BY <1>1, <1>2

(* A new token: what it was issued for is revoked, and nothing else.       *)
LEMMA InsertsFields ==
    ASSUME TypeOK, RequestsOK, HeldOK, NEW r \in Request, NEW new \in Token,
           Inserts(r, new)
    PROVE  /\ Proper(txn[r])
           /\ txn[r].kind \in {"signup", "login", "refresh"}
           /\ IF txn[r].kind = "refresh"
              THEN txn[r].token \in Tokens \ {new}
              ELSE txn[r].token = None
           /\ token[new] = Unused
           /\ token'[new] \in Row
           /\ token'[new].user = txn[r].user
           /\ \A tk \in Token \ {new} :
                 IF tk = txn[r].token
                 THEN /\ tk \in Tokens
                      /\ token'[tk] \in Row
                      /\ token'[tk].user = token[tk].user
                      /\ token'[tk].revoked
                 ELSE token'[tk] = token[tk]
           /\ token' \in [Token -> Row \cup {Unused, Gone}]
           /\ from'[new] = txn[r].token
           /\ \A tk \in Token \ {new} : from'[tk] = from[tk]
           /\ from' \in [Token -> Token \cup {None}]
  <1> DEFINE t == txn[r]
  <1>1. Proper(t)
    BY DEF RequestsOK, Inserts, Idle
  <1>2. /\ t.kind \in {"signup", "login", "refresh"}
        /\ IF t.kind = "refresh" THEN t.token \in Token ELSE t.token = None
        /\ t.user \in User
    BY <1>1 DEF Proper, Inserts
  <1>3. token[new] = Unused
    BY DEF Inserts, Left
  <1>4. [user |-> t.user, revoked |-> FALSE] \in Row
    BY <1>2 DEF Row
  <1>5. ASSUME t.kind = "refresh"
        PROVE  t.token \in Tokens \ {new}
    <2>1. LocksToken(r, t.token) /\ t.token \in Token
      BY <1>2, <1>5 DEF LocksToken, At, Inserts
    <2>2. t.token \in Tokens
      BY <2>1 DEF HeldOK
    <2>3. QED
      BY <1>3, <2>2, IdsDiffer DEF Tokens
  <1>6. /\ Revoked(t) \in [Token -> Row \cup {Unused, Gone}]
        /\ \A tk \in Token :
              IF t.kind = "refresh" /\ tk = t.token
              THEN Revoked(t)[tk] = RevokedFor(token[tk].user)
              ELSE Revoked(t)[tk] = token[tk]
    BY <1>1, RevokedFields DEF Inserts
  <1>7. token' = [Revoked(t) EXCEPT ![new] = [user |-> t.user,
                                              revoked |-> FALSE]]
    BY DEF Inserts
  <1>8. /\ token' \in [Token -> Row \cup {Unused, Gone}]
        /\ token'[new] = [user |-> t.user, revoked |-> FALSE]
        /\ \A tk \in Token \ {new} : token'[tk] = Revoked(t)[tk]
    BY <1>4, <1>6, <1>7
  <1>9. /\ from'[new] = t.token
        /\ \A tk \in Token \ {new} : from'[tk] = from[tk]
        /\ from' \in [Token -> Token \cup {None}]
    BY <1>2 DEF Inserts, TypeOK
  <1>10. ASSUME NEW tk \in Token \ {new}, tk = t.token
         PROVE  /\ tk \in Tokens
                /\ token'[tk] \in Row
                /\ token'[tk].user = token[tk].user
                /\ token'[tk].revoked
    <2>1. t.kind = "refresh"
      BY <1>2, <1>10, IdsDiffer
    <2>2. tk \in Tokens /\ token[tk] \in Row
      BY <1>5, <1>10, <2>1 DEF Tokens
    <2>3. token'[tk] = RevokedFor(token[tk].user)
      BY <1>6, <1>8, <1>10, <2>1
    <2>4. QED
      BY <2>2, <2>3, RevokedRow
  <1>11. QED
    BY <1>1, <1>2, <1>3, <1>4, <1>5, <1>6, <1>8, <1>9, <1>10

LEMMA LogsOutFields ==
    ASSUME TypeOK, NEW r \in Request, LogsOut(r)
    PROVE  /\ txn[r].token \in Tokens
           /\ token' \in [Token -> Row \cup {Unused, Gone}]
           /\ \A tk \in Token :
                 IF tk = txn[r].token
                 THEN /\ token'[tk] \in Row
                      /\ token'[tk].user = token[tk].user
                      /\ token'[tk].revoked
                 ELSE token'[tk] = token[tk]
  <1> DEFINE tk == txn[r].token
  <1>1. tk \in Token /\ token[tk] \in Row
    BY DEF LogsOut, Tokens
  <1> DEFINE new == RevokedFor(token[tk].user)
  <1>2. /\ [token[tk] EXCEPT !.revoked = TRUE] = new
        /\ new \in Row /\ new.user = token[tk].user /\ new.revoked
    BY <1>1, RevokedRow
  <1> HIDE DEF new
  <1>3. token' = [token EXCEPT ![tk] = new]
    BY <1>2 DEF LogsOut
  <1>4. token \in [Token -> Row \cup {Unused, Gone}]
    BY DEF TypeOK
  <1>5. /\ token' \in [Token -> Row \cup {Unused, Gone}]
        /\ \A k \in Token : token'[k] = IF k = tk THEN new ELSE token[k]
    BY <1>1, <1>2, <1>3, <1>4
  <1>6. QED
    BY <1>2, <1>5 DEF LogsOut

(* The row a rename commits.                                               *)
LEMMA RenamedFields ==
    ASSUME TypeOK, RequestsOK, RowsHeldOK, NEW r \in Request, Renames(r)
    PROVE  /\ Proper(txn[r])
           /\ txn[r].kind = "rename"
           /\ txn[r].user \in Users
           /\ LocksUser(r, txn[r].user)
           /\ Renamed(txn[r]) \in Account
           /\ \A c \in Column : Renamed(txn[r])[c] = Wanted(txn[r], c)
  <1> DEFINE t == txn[r]
  <1>1. Proper(t) /\ t.kind = "rename"
    BY DEF RequestsOK, Renames, Idle, Proper
  <1>2. LocksUser(r, t.user) /\ t.user \in User /\ t.body \in Body
    BY <1>1 DEF LocksUser, Renames, Proper, Running
  <1>3. t.user \in Users /\ account[t.user] \in Account
    BY <1>2 DEF RowsHeldOK, Users
  <1>4. Renamed(t) \in Account
    BY <1>2, <1>3 DEF Renamed, Wanted, Account, Body, Column
  <1>5. \A c \in Column : Renamed(t)[c] = Wanted(t, c)
    BY DEF Renamed
  <1>6. QED
    BY <1>1, <1>2, <1>3, <1>4, <1>5

LEMMA StepTypeOK ==
    ASSUME TypeOK, RequestsOK, RowsHeldOK, HeldOK, NEW r \in Request, Step(r)
    PROVE  TypeOK'
  <1>1. txn' \in [Request -> {Idle} \cup Running]
    BY Reaches
  <1>2. CASE \E t : Quiet(r, t)
    BY <1>1, <1>2 DEF Quiet, Goto, TypeOK
  <1>3. ASSUME NEW new \in Token, Inserts(r, new)
        PROVE  TypeOK'
    <2>1. account' \in [User -> Account \cup {Unused, Gone}]
      BY <1>3, InsertsFields DEF Inserts, Proper, TypeOK
    <2>2. QED
      BY <1>1, <1>3, <2>1, InsertsFields DEF TypeOK
  <1>4. CASE LogsOut(r)
    BY <1>1, <1>4, LogsOutFields DEF LogsOut, TypeOK
  <1>5. CASE Renames(r)
    <2>1. Renamed(txn[r]) \in Account
      BY <1>5, RenamedFields
    <2>2. QED
      BY <1>1, <1>5, <2>1 DEF Renames, TypeOK
  <1>6. CASE Deletes(r)
    BY <1>1, <1>6 DEF Deletes, Cascade, Cascaded, TypeOK
  <1>7. QED
    BY <1>2, <1>3, <1>4, <1>5, <1>6 DEF Step

LEMMA StepRequestsOK ==
    ASSUME TypeOK, RequestsOK, NEW r \in Request, Step(r)
    PROVE  RequestsOK'
  BY Reaches DEF RequestsOK, Proper
-----------------------------------------------------------------------------
(* What a step does to tokens and to who is exchanging them                *)

(* Rows keep their user, what is spent stays spent, and an id is used once.*)
LEMMA TokensStep ==
    ASSUME TypeOK, RequestsOK, HeldOK, NEW r \in Request, Step(r),
           NEW tk \in Token
    PROVE  /\ Spent(tk) => Spent(tk)'
           /\ token'[tk] = Unused => token[tk] = Unused
           /\ tk \in Tokens => \/ token'[tk] = Gone /\ Deletes(r)
                               \/ tk \in Tokens' /\ token'[tk].user = token[tk].user
           /\ tk \notin Tokens => \/ token'[tk] = token[tk]
                                  \/ Inserts(r, tk)
  <1> USE IdsDiffer DEF Spent, Tokens
  <1>1. token[tk] \in Row \cup {Unused, Gone}
    BY DEF TypeOK
  <1>2. CASE token' = token
    BY <1>2
  <1>3. ASSUME NEW new \in Token, Inserts(r, new)
        PROVE  /\ Spent(tk) => Spent(tk)'
               /\ token'[tk] = Unused => token[tk] = Unused
               /\ tk \in Tokens => /\ tk \in Tokens'
                                   /\ token'[tk].user = token[tk].user
               /\ tk \notin Tokens => \/ token'[tk] = token[tk]
                                      \/ Inserts(r, tk)
    <2>1. CASE tk = new
      BY <1>1, <1>3, <2>1, InsertsFields
    <2>2. CASE tk # new /\ tk = txn[r].token
      BY <1>1, <1>3, <2>2, InsertsFields
    <2>3. CASE tk # new /\ tk # txn[r].token
      BY <1>1, <1>3, <2>3, InsertsFields
    <2>4. QED
      BY <2>1, <2>2, <2>3
  <1>4. CASE LogsOut(r)
    <2>1. CASE tk = txn[r].token
      BY <1>1, <1>4, <2>1, LogsOutFields
    <2>2. CASE tk # txn[r].token
      BY <1>1, <1>4, <2>2, LogsOutFields
    <2>3. QED
      BY <2>1, <2>2
  <1>5. CASE Deletes(r)
    <2>1. token'[tk] = IF tk \in Tokens /\ token[tk].user = txn[r].user
                       THEN Gone ELSE token[tk]
      BY <1>5 DEF Deletes, Cascade, Cascaded
    <2>2. QED
      BY <1>1, <1>5, <2>1
  <1>6. CASE (\E t : Quiet(r, t)) \/ Renames(r)
    BY <1>2, <1>6 DEF Quiet, Goto, Renames
  <1>7. QED
    BY <1>3, <1>4, <1>5, <1>6 DEF Step

(* Only a refresh of a token that is not spent starts to exchange it.      *)
LEMMA ExchangingStep ==
    ASSUME TypeOK, RequestsOK, NEW r \in Request, Step(r),
           NEW tk \in Token, ~Usable(tk)
    PROVE  Exchanging(tk)' \subseteq Exchanging(tk)
  <1> SUFFICES ASSUME NEW s \in Request, s \in Exchanging(tk)'
               PROVE  s \in Exchanging(tk)
    BY DEF Exchanging
  <1> DEFINE Exchanges(t) == /\ t.pc \in {"read_user", "revoke", "issue"}
                              /\ t.kind = "refresh"
                              /\ t.token = tk
  <1>1. Exchanges(txn'[s])
    BY DEF Exchanging
  <1>2. ASSUME Exchanges(txn[s])
        PROVE  s \in Exchanging(tk)
    BY <1>2 DEF Exchanging
  <1>3. \A u \in Request \ {r} : txn'[u] = txn[u]
    BY Reaches
  <1>4. ASSUME NEW t, Quiet(r, t), s = r
        PROVE  Exchanges(txn[s])
    <2>1. Exchanges(t)
      BY <1>1, <1>4, Becomes DEF Quiet, Goto
    <2>2. ~Enters(r, t) /\ t # Idle
      BY <2>1 DEF Enters, Idle
    <2>3. Moves(r, t)
      BY <1>4, <2>2 DEF Quiet
    <2>4. QED
      BY <1>4, <2>1, <2>3 DEF Moves, Proper
  <1>5. CASE \/ \E new \in Token : Inserts(r, new)
             \/ LogsOut(r)
             \/ Deletes(r)
    <2>1. txn'[r] = Idle
      BY <1>5, Becomes DEF Inserts, LogsOut, Deletes, Cascade, Answered
    <2>2. QED
      BY <1>1, <1>2, <1>3, <2>1 DEF Idle
  <1>6. CASE Renames(r)
    <2>1. /\ txn'[r] = [txn[r] EXCEPT !.pc = "reread"]
          /\ Proper(txn[r])
      BY <1>6, Becomes DEF Renames, RequestsOK, Idle
    <2>2. txn'[r].pc = "reread"
      BY <2>1, MovedFields
    <2>3. QED
      BY <1>1, <1>2, <1>3, <2>2
  <1>7. QED
    BY <1>1, <1>2, <1>3, <1>4, <1>5, <1>6 DEF Step

(* What a step does to successors.                                         *)
LEMMA SuccessorsStep ==
    ASSUME TypeOK, RequestsOK, HeldOK, FromOK, NEW r \in Request, Step(r),
           NEW tk \in Token
    PROVE  \/ Successors(tk)' = Successors(tk)
           \/ /\ r \in Exchanging(tk) \ Exchanging(tk)'
              /\ ~Usable(tk)'
              /\ \E new \in Token : Successors(tk)' = Successors(tk) \cup {new}
  <1>1. CASE from' = from
    BY <1>1 DEF Successors
  <1>2. ASSUME NEW new \in Token, Inserts(r, new)
        PROVE  \/ Successors(tk)' = Successors(tk)
               \/ /\ r \in Exchanging(tk) \ Exchanging(tk)'
                  /\ ~Usable(tk)'
                  /\ Successors(tk)' = Successors(tk) \cup {new}
    <2>1. from[new] = None /\ tk # None
      BY <1>2, InsertsFields, IdsDiffer DEF FromOK
    <2>2. /\ from'[new] = txn[r].token
          /\ \A k \in Token \ {new} : from'[k] = from[k]
      BY <1>2, InsertsFields
    <2>3. CASE tk # txn[r].token
      BY <2>1, <2>2, <2>3 DEF Successors
    <2>4. CASE tk = txn[r].token
      <3>1. /\ tk # new
            /\ txn[r].kind = "refresh"
            /\ token'[tk].revoked
        BY <1>2, <2>1, <2>4, InsertsFields
      <3>2. ~Usable(tk)'
        BY <3>1 DEF Usable
      <3>3. r \in Exchanging(tk)
        BY <1>2, <2>4, <3>1 DEF Exchanging, Inserts
      <3>4. r \notin Exchanging(tk)'
        BY <1>2, Becomes DEF Exchanging, Inserts, Answered, Idle
      <3>5. Successors(tk)' = Successors(tk) \cup {new}
        BY <2>2, <2>4 DEF Successors
      <3>6. QED
        BY <3>2, <3>3, <3>4, <3>5
    <2>5. QED
      BY <2>3, <2>4
  <1>3. QED
    BY <1>1, <1>2 DEF Step, Quiet, Goto, LogsOut, Renames, Deletes, Cascade

LEMMA StepFromOK ==
    ASSUME TypeOK, RequestsOK, HeldOK, FromOK, NEW r \in Request, Step(r)
    PROVE  FromOK'
  <1>1. \A k \in Token : Spent(k) => Spent(k)'
    BY TokensStep
  <1> DEFINE Right(new) == /\ token[new] = Unused => from[new] = None
                           /\ from[new] # None => Spent(from[new])
  <1>2. ASSUME NEW new \in Token, from'[new] = from[new]
        PROVE  Right(new)'
    <2>1. token'[new] = Unused => token[new] = Unused
      BY TokensStep
    <2>2. from[new] \in Token \cup {None}
      BY DEF TypeOK
    <2>3. ASSUME from[new] # None
          PROVE  Spent(from[new])'
      <3>1. from[new] \in Token /\ Spent(from[new])
        BY <2>2, <2>3 DEF FromOK
      <3>2. PICK tk \in Token : tk = from[new] /\ Spent(tk)
        BY <3>1
      <3>3. Spent(tk)'
        BY <1>1, <3>2
      <3>4. QED
        BY <1>2, <3>2, <3>3 DEF Spent, Tokens
    <2>4. QED
      BY <1>2, <2>1, <2>3 DEF FromOK
  <1>3. ASSUME NEW new \in Token, Inserts(r, new)
        PROVE  Right(new)'
    <2>1. token'[new] # Unused
      BY <1>3, InsertsFields, IdsDiffer
    <2>2. from'[new] = txn[r].token
      BY <1>3, InsertsFields
    <2>3. ASSUME txn[r].token # None
          PROVE  Spent(from[new])'
      <3>1. /\ from'[new] \in Token \ {new}
            /\ token'[from'[new]] \in Row
            /\ token'[from'[new]].revoked
        BY <1>3, <2>2, <2>3, InsertsFields DEF Tokens
      <3>2. QED
        BY <3>1 DEF Spent, Tokens
    <2>4. QED
      BY <2>1, <2>2, <2>3
  <1>4. CASE from' = from
    BY <1>2, <1>4 DEF FromOK
  <1>5. ASSUME NEW new \in Token, Inserts(r, new)
        PROVE  FromOK'
    <2>1. \A k \in Token \ {new} : from'[k] = from[k]
      BY <1>5, InsertsFields
    <2>2. QED
      BY <1>2, <1>3, <1>5, <2>1 DEF FromOK
  <1>6. QED
    BY <1>4, <1>5 DEF Step, Quiet, Goto, LogsOut, Renames, Deletes, Cascade
-----------------------------------------------------------------------------
(* Ids, addresses and users                                                *)

LEMMA StepHeldOK ==
    ASSUME TypeOK, RequestsOK, HeldOK, NEW r \in Request, Step(r)
    PROVE  HeldOK'
  <1> SUFFICES ASSUME NEW s \in Request, NEW tk \in Token,
                      LocksToken(s, tk)'
               PROVE  tk \in Tokens'
    BY DEF HeldOK
  <1>1. \A u \in Request \ {r} : txn'[u] = txn[u]
    BY Reaches
  <1>2. CASE s # r
    <2>1. LocksToken(s, tk) /\ tk \in Tokens
      BY <1>1, <1>2 DEF LocksToken, At, HeldOK
    <2>2. ~(Deletes(r) /\ token'[tk] = Gone)
      <3> SUFFICES ASSUME Deletes(r), token'[tk] = Gone PROVE FALSE
        OBVIOUS
      <3>1. token[tk].user = txn[r].user
        BY <2>1, IdsDiffer DEF Deletes, Cascade, Cascaded, Tokens
      <3>2. WaitsFor(r, s)
        BY <1>2, <2>1, <3>1 DEF WaitsFor, Deletes, Cascade
      <3>3. QED
        BY <3>2 DEF Deletes, Cascade, Free
    <2>3. QED
      BY <2>1, <2>2, TokensStep
  <1>3. CASE s = r
    <2>1. ASSUME NEW t, Quiet(r, t)
          PROVE  tk \in Tokens'
      <3>1. /\ t.pc = "issue" /\ t.kind = "refresh" /\ t.token = tk
            /\ token' = token
        BY <1>3, <2>1, Becomes DEF Quiet, Goto, LocksToken, At
      <3>2. Moves(r, t)
        BY <2>1, <3>1 DEF Quiet, Enters, Idle
      <3>3. QED
        BY <3>1, <3>2 DEF Moves, Tokens
    <2>2. CASE \/ \E new \in Token : Inserts(r, new)
               \/ LogsOut(r)
               \/ Deletes(r)
      <3>1. txn'[r] = Idle
        BY <2>2, Becomes DEF Inserts, LogsOut, Deletes, Cascade, Answered
      <3>2. QED
        BY <1>3, <3>1 DEF LocksToken, At, Idle
    <2>3. CASE Renames(r)
      <3>1. /\ txn'[r] = [txn[r] EXCEPT !.pc = "reread"]
            /\ Proper(txn[r])
        BY <2>3, Becomes DEF Renames, RequestsOK, Idle
      <3>2. txn'[r].pc = "reread"
        BY <3>1, MovedFields
      <3>3. QED
        BY <1>3, <3>2 DEF LocksToken, At
    <2>4. QED
      BY <2>1, <2>2, <2>3 DEF Step
  <1>4. QED
    BY <1>2, <1>3

(* Only an arrival adds to those who issue a token.                        *)
LEMMA IssuersStep ==
    ASSUME TypeOK, RequestsOK, NEW r \in Request, Step(r)
    PROVE  \/ Issuers' \subseteq Issuers
           \/ /\ txn[r] = Idle /\ Room
              /\ token' = token
              /\ Issuers' \subseteq Issuers \cup {r}
  <1>1. \A u \in Request \ {r} : txn'[u] = txn[u]
    BY Reaches
  <1>2. ASSUME Issues(txn'[r]) => Issues(txn[r])
        PROVE  Issuers' \subseteq Issuers
    BY <1>1, <1>2 DEF Issuers
  <1>3. ASSUME NEW t, Quiet(r, t)
        PROVE  \/ Issues(txn'[r]) => Issues(txn[r])
               \/ txn[r] = Idle /\ Room /\ token' = token
    <2>1. txn'[r] = t /\ token' = token
      BY <1>3, Becomes DEF Quiet, Goto
    <2>2. CASE t = Idle
      BY <2>1, <2>2 DEF Issues, Idle
    <2>3. CASE Enters(r, t)
      BY <2>1, <2>3 DEF Enters
    <2>4. CASE Moves(r, t)
      BY <2>1, <2>4 DEF Moves, Issues, Proper
    <2>5. QED
      BY <1>3, <2>2, <2>3, <2>4 DEF Quiet
  <1>4. CASE \/ \E new \in Token : Inserts(r, new)
             \/ LogsOut(r)
             \/ Deletes(r)
    <2>1. txn'[r] = Idle
      BY <1>4, Becomes DEF Inserts, LogsOut, Deletes, Cascade, Answered
    <2>2. QED
      BY <1>2, <2>1 DEF Issues, Idle
  <1>5. CASE Renames(r)
    <2>1. /\ txn'[r] = [txn[r] EXCEPT !.pc = "reread"]
          /\ Proper(txn[r]) /\ txn[r].pc = "index_email"
      BY <1>5, Becomes DEF Renames, RequestsOK, Idle
    <2>2. txn'[r].kind = txn[r].kind
      BY <2>1, MovedFields
    <2>3. QED
      BY <1>2, <2>1, <2>2 DEF Issues
  <1>6. Issuers' \subseteq Issuers \cup {r}
    BY <1>1 DEF Issuers
  <1>7. QED
    BY <1>2, <1>3, <1>4, <1>5, <1>6 DEF Step

LEMMA StepRoomOK ==
    ASSUME TypeOK, RequestsOK, HeldOK, RoomOK, NEW r \in Request, Step(r)
    PROVE  RoomOK'
  <1>1. Issuers \in SUBSET Request /\ Issuers' \in SUBSET Request
    BY DEF Issuers
  <1>2. /\ Cardinality(Issuers) \in Nat
        /\ Cardinality(Issuers') \in Nat
    BY <1>1, RequestsFinite
  <1>3. CASE Issuers' \subseteq Issuers /\ Left' = Left
    <2>1. Cardinality(Issuers') <= Cardinality(Issuers)
      BY <1>1, <1>3, RequestsFinite, FS_Subset
    <2>2. QED
      BY <1>2, <1>3, <2>1, LeftFinite DEF RoomOK
  <1>4. CASE /\ txn[r] = Idle /\ Room
             /\ token' = token
             /\ Issuers' \subseteq Issuers \cup {r}
    <2> DEFINE Busy == {s \in Request : ~At(s, "idle")}
    <2>1. Busy \in SUBSET Request /\ Busy \cup {r} \in SUBSET Request
      OBVIOUS
    <2>2. r \notin Busy /\ Issuers' \subseteq Busy \cup {r}
      BY <1>4 DEF Issuers, Issues, At, Idle
    <2>3. Cardinality(Busy) < Cardinality(Left)
      BY <1>4 DEF Room
    <2> HIDE DEF Busy
    <2>4. /\ Cardinality(Busy \cup {r}) = Cardinality(Busy) + 1
          /\ Cardinality(Busy) \in Nat
      BY <2>1, <2>2, RequestsFinite, FS_AddElement
    <2>5. Cardinality(Issuers') <= Cardinality(Busy \cup {r})
      BY <2>1, <2>2, RequestsFinite, FS_Subset
    <2>6. Left' = Left
      BY <1>4 DEF Left
    <2>7. QED
      BY <1>2, <2>3, <2>4, <2>5, <2>6, LeftFinite DEF RoomOK
  <1>5. ASSUME NEW new \in Token, Inserts(r, new)
        PROVE  RoomOK'
    <2>1. r \in Issuers /\ r \notin Issuers'
      <3>1. txn'[r] = Idle
        BY <1>5, Becomes DEF Inserts, Answered
      <3>2. Issues(txn[r])
        BY <1>5, InsertsFields DEF Issues, Inserts
      <3>3. QED
        BY <3>1, <3>2 DEF Issuers, Issues, Idle
    <2>2. Issuers' \subseteq Issuers \ {r}
      <3>1. \A u \in Request \ {r} : txn'[u] = txn[u]
        BY Reaches
      <3>2. QED
        BY <2>1, <3>1 DEF Issuers
    <2>3. Left' = Left \ {new} /\ new \in Left
      BY <1>5, InsertsFields, IdsDiffer DEF Left, Tokens
    <2>4. Cardinality(Issuers \ {r}) = Cardinality(Issuers) - 1
      BY <1>1, <2>1, RequestsFinite, FS_RemoveElement
    <2>5. Cardinality(Issuers') <= Cardinality(Issuers \ {r})
      BY <1>1, <2>2, RequestsFinite, FS_Subset
    <2>6. Cardinality(Left \ {new}) = Cardinality(Left) - 1
      BY <2>3, LeftFinite, FS_RemoveElement
    <2>7. QED
      BY <1>2, <2>3, <2>4, <2>5, <2>6, LeftFinite DEF RoomOK
  <1>6. ASSUME \A new \in Token : ~Inserts(r, new)
        PROVE  Left' = Left
    <2>1. ASSUME NEW tk \in Token
          PROVE  token[tk] = Unused <=> token'[tk] = Unused
      BY <1>6, <2>1, TokensStep, IdsDiffer DEF Tokens
    <2>2. QED
      BY <2>1 DEF Left
  <1>7. QED
    BY <1>3, <1>4, <1>5, <1>6, IssuersStep

(* Who holds names in an index, and who writes a row.                      *)
LEMMA EnteredFields ==
    ASSUME TypeOK, RequestsOK, NEW r \in Request, NEW c \in Entered(txn[r])
    PROVE  /\ c \in Column
           /\ Proper(txn[r])
           /\ txn[r].user \in User
           /\ \/ /\ SigningUpTo(r, txn[r].user)
                 /\ Wanted(txn[r], c) = txn[r].body[c]
              \/ LocksUser(r, txn[r].user) /\ c = "username"
  <1>1. c \in Column
    BY DEF Entered
  <1>2. Proper(txn[r])
    BY DEF RequestsOK, Entered, Idle
  <1>3. txn[r].kind = "signup" => Wanted(txn[r], c) = txn[r].body[c]
    BY <1>1, <1>2, AccountsAssumption
       DEF AccountsAssumption, Proper, Wanted, Account, Column
  <1>4. QED
    BY <1>1, <1>2, <1>3 DEF Proper, Entered, SigningUpTo, At, LocksUser

(* A user gets names that are nobody else's, also not those that another   *)
(* request has in an index, or names go with their user; the row is one    *)
(* that no other request is writing or is about to insert.                 *)
LEMMA AccountsStep ==
    ASSUME TypeOK, RequestsOK, FreshOK, RowsHeldOK, EntriesOK, HeldOK,
           NEW r \in Request, Step(r), account' # account
    PROVE  \E u \in User :
              /\ \/ account' = [account EXCEPT ![u] = Gone]
                 \/ \E a \in Account :
                       /\ account' = [account EXCEPT ![u] = a]
                       /\ \A v \in Users \ {u}, c \in Column : account[v][c] # a[c]
                       /\ \A s \in Request \ {r} : \A c \in Entered(txn[s]) :
                             Wanted(txn[s], c) # a[c]
              /\ \A s \in Request \ {r} : ~LocksUser(s, u) /\ ~SigningUpTo(s, u)
              /\ SigningUpTo(r, u) \/ LocksUser(r, u)
              /\ txn'[r].pc \in {"idle", "reread"}
  <1> DEFINE t == txn[r]
             u == t.user
  <1>1. CASE Renames(r)
    <2> DEFINE a == Renamed(t)
    <2>1. /\ u \in Users /\ LocksUser(r, u) /\ a \in Account /\ Proper(t)
          /\ \A c \in Column : a[c] = Wanted(t, c)
      BY <1>1, RenamedFields
    <2>2. account' = [account EXCEPT ![u] = a] /\ u \in User
      BY <1>1, <2>1 DEF Renames, Users
    <2>3. "username" \in Entered(t) /\ "email" \in Entering(t)
      BY <1>1 DEF Renames, Entered, Entering, Column
    <2>4. \A v \in Users \ {u}, c \in Column : account[v][c] # a[c]
      <3>1. \A v \in Users \ {u} : account[v]["username"] # Wanted(t, "username")
        BY <2>3 DEF EntriesOK, Taken
      <3>2. \A v \in Users \ {u} : account[v]["email"] # Wanted(t, "email")
        BY <1>1 DEF Renames, Taken
      <3>3. QED
        BY <2>1, <3>1, <3>2 DEF Column
    <2>5. ASSUME NEW s \in Request \ {r}, NEW c \in Entered(txn[s]),
                 Wanted(txn[s], c) = a[c]
          PROVE  FALSE
      <3>1. c \in Column
        BY DEF Entered
      <3>2. CASE c = "username"
        BY <2>1, <2>3, <2>5, <3>1, <3>2 DEF EntriesOK
      <3>3. CASE c = "email"
        <4>1. Unsettled(s, "email", Wanted(t, "email"))
          BY <2>1, <2>5, <3>1, <3>3 DEF Unsettled
        <4>2. WaitsFor(r, s)
          BY <2>3, <4>1 DEF WaitsFor
        <4>3. QED
          BY <1>1, <4>2 DEF Renames, Free
      <3>4. QED
        BY <3>1, <3>2, <3>3 DEF Column
    <2>6. \A s \in Request \ {r} : ~LocksUser(s, u) /\ ~SigningUpTo(s, u)
      BY <2>1, <2>2, IdsDiffer DEF RowsHeldOK, FreshOK, Users
    <2>7. txn'[r].pc = "reread"
      <3>1. txn'[r] = [t EXCEPT !.pc = "reread"]
        BY <1>1, Becomes DEF Renames
      <3>2. QED
        BY <2>1, <3>1, MovedFields
    <2> HIDE DEF a
    <2>8. QED
      BY <2>1, <2>2, <2>4, <2>5, <2>6, <2>7
  <1>2. ASSUME NEW new \in Token, Inserts(r, new), t.kind = "signup"
        PROVE  \E v \in User :
                  /\ \E a \in Account :
                        /\ account' = [account EXCEPT ![v] = a]
                        /\ \A w \in Users \ {v}, c \in Column :
                              account[w][c] # a[c]
                        /\ \A s \in Request \ {r} : \A c \in Entered(txn[s]) :
                              Wanted(txn[s], c) # a[c]
                  /\ \A s \in Request \ {r} :
                        ~LocksUser(s, v) /\ ~SigningUpTo(s, v)
                  /\ SigningUpTo(r, v)
                  /\ txn'[r].pc = "idle"
    <2>1. Proper(t) /\ u \in User /\ t.body \in Account
      BY <1>2, InsertsFields DEF Proper
    <2>2. SigningUpTo(r, u)
      BY <1>2 DEF SigningUpTo, At, Inserts
    <2>3. Entered(t) = Column
      BY <1>2 DEF Inserts, Entered
    <2>4. \A c \in Column : Wanted(t, c) = t.body[c]
      BY <2>1, AccountsAssumption
         DEF AccountsAssumption, Wanted, Account, Column
    <2>5. \A v \in Users \ {u}, c \in Column : account[v][c] # t.body[c]
      BY <2>3, <2>4 DEF EntriesOK, Taken
    <2>6. \A s \in Request \ {r} : \A c \in Entered(txn[s]) :
             Wanted(txn[s], c) # t.body[c]
      BY <2>3, <2>4 DEF EntriesOK, Entered
    <2>7. \A s \in Request \ {r} : ~LocksUser(s, u) /\ ~SigningUpTo(s, u)
      BY <2>1, <2>2, IdsDiffer DEF RowsHeldOK, FreshOK, Users
    <2>8. account' = [account EXCEPT ![u] = t.body] /\ txn'[r] = Idle
      BY <1>2, Becomes DEF Inserts, Answered
    <2>9. \E a \in Account :
             /\ account' = [account EXCEPT ![u] = a]
             /\ \A w \in Users \ {u}, c \in Column : account[w][c] # a[c]
             /\ \A s \in Request \ {r} : \A c \in Entered(txn[s]) :
                   Wanted(txn[s], c) # a[c]
      BY <2>1, <2>5, <2>6, <2>8
    <2>10. txn'[r].pc = "idle"
      BY <2>8 DEF Idle
    <2> HIDE DEF u, t
    <2>11. QED
      BY <2>1, <2>2, <2>7, <2>9, <2>10
  <1>3. ASSUME NEW new \in Token, Inserts(r, new), t.kind # "signup"
        PROVE  account' = account
    BY <1>3 DEF Inserts
  <1>4. CASE Deletes(r)
    <2>1. Proper(t) /\ u \in User
      BY <1>4 DEF RequestsOK, Deletes, Cascade, At, Idle, Proper
    <2>2. LocksUser(r, u)
      BY <1>4 DEF LocksUser, Deletes, Cascade, At
    <2>3. u \in Users /\ \A s \in Request \ {r} : ~LocksUser(s, u)
      BY <2>1, <2>2 DEF RowsHeldOK
    <2>4. \A s \in Request \ {r} : ~SigningUpTo(s, u)
      BY <2>1, <2>3, IdsDiffer DEF FreshOK, Users
    <2>5. account' = [account EXCEPT ![u] = Gone] /\ txn'[r] = Idle
      BY <1>4, Becomes DEF Deletes, Cascade, Answered
    <2>6. txn'[r].pc = "idle"
      BY <2>5 DEF Idle
    <2> HIDE DEF u, t
    <2>7. QED
      BY <2>1, <2>2, <2>3, <2>4, <2>5, <2>6
  <1>5. QED
    BY <1>1, <1>2, <1>3, <1>4 DEF Step, Quiet, Goto, LogsOut

LEMMA StepUniqueAccounts ==
    ASSUME TypeOK, RequestsOK, FreshOK, RowsHeldOK, EntriesOK, HeldOK,
           UniqueAccounts, NEW r \in Request, Step(r)
    PROVE  UniqueAccounts'
  <1>1. CASE account' = account
    BY <1>1 DEF UniqueAccounts, Users
  <1>2. ASSUME NEW u \in User, NEW a \in Account,
               account' = [account EXCEPT ![u] = a],
               \A v \in Users \ {u}, c \in Column : account[v][c] # a[c]
        PROVE  UniqueAccounts'
    <2>1. /\ account'[u] = a
          /\ \A v \in User \ {u} : account'[v] = account[v]
      BY <1>2 DEF TypeOK
    <2>2. QED
      BY <1>2, <2>1 DEF UniqueAccounts, Users
  <1>3. ASSUME NEW u \in User, account' = [account EXCEPT ![u] = Gone]
        PROVE  UniqueAccounts'
    <2>1. /\ account'[u] = Gone
          /\ \A v \in User \ {u} : account'[v] = account[v]
      BY <1>3 DEF TypeOK
    <2>2. QED
      BY <2>1, IdsDiffer DEF UniqueAccounts, Users
  <1>4. QED
    BY <1>1, <1>2, <1>3, AccountsStep

(* What the request that makes a step holds after it and not before.       *)
LEMMA OwnStep ==
    ASSUME TypeOK, RequestsOK, NEW r \in Request, Step(r)
    PROVE  /\ \A u \in User : SigningUpTo(r, u)' =>
                 \/ SigningUpTo(r, u)
                 \/ u \in Unclaimed /\ account' = account
           /\ \A u \in User : LocksUser(r, u)' =>
                 \/ LocksUser(r, u)
                 \/ /\ u \in Users
                    /\ \A s \in Request : ~LocksUser(s, u)
                    /\ account' = account
           /\ \A c \in Entered(txn'[r]) :
                 /\ account' = account
                 /\ Wanted(txn[r], c)' = Wanted(txn[r], c)
                 /\ txn'[r].user = txn[r].user
                 /\ \/ c \in Entered(txn[r])
                    \/ Free(r) /\ c \in Entering(txn[r]) /\ ~Taken(txn[r], c)
  <1>1. CASE \/ txn'[r] = Idle
             \/ txn'[r].pc = "reread" /\ txn'[r].kind = "rename"
    BY <1>1 DEF SigningUpTo, At, LocksUser, Entered, Idle
  <1>2. ASSUME NEW t, Quiet(r, t), Enters(r, t)
        PROVE  /\ \A u \in User : SigningUpTo(r, u)' =>
                     u \in Unclaimed /\ account' = account
               /\ \A u \in User : ~LocksUser(r, u)'
               /\ Entered(txn'[r]) = {}
    <2>1. txn'[r] = t /\ account' = account
      BY <1>2, Becomes DEF Quiet, Goto
    <2>2. QED
      BY <1>2, <2>1 DEF Enters, SigningUpTo, LocksUser, Writing
  <1>3. ASSUME NEW t, Quiet(r, t), Moves(r, t)
        PROVE  /\ \A u \in User : SigningUpTo(r, u)' => SigningUpTo(r, u)
               /\ \A u \in User : LocksUser(r, u)' =>
                     \/ LocksUser(r, u)
                     \/ /\ u \in Users
                        /\ \A s \in Request : ~LocksUser(s, u)
                        /\ account' = account
               /\ \A c \in Entered(txn'[r]) :
                     /\ account' = account
                     /\ Wanted(txn[r], c)' = Wanted(txn[r], c)
                     /\ txn'[r].user = txn[r].user
                     /\ \/ c \in Entered(txn[r])
                        \/ Free(r) /\ c \in Entering(txn[r]) /\ ~Taken(txn[r], c)
    <2>1. txn'[r] = t /\ account' = account
      BY <1>3, Becomes DEF Quiet, Goto
    <2>2. \A u \in User : SigningUpTo(r, u)' => SigningUpTo(r, u)
      BY <1>3, <2>1 DEF Moves, Proper, SigningUpTo, At
    <2>3. ASSUME NEW u \in User, LocksUser(r, u)', ~LocksUser(r, u)
          PROVE  u \in Users /\ \A s \in Request : ~LocksUser(s, u)
      <3>1. /\ t.pc \in Writing /\ txn[r].pc \notin Writing
            /\ t.user = u /\ txn[r].user = u
        BY <1>3, <2>1, <2>3 DEF Moves, LocksUser, Writing
      <3>2. Free(r) /\ txn[r].pc \in {"rename", "delete"} /\ u \in Users
        BY <1>3, <3>1 DEF Moves
      <3>3. txn[r].kind # "signup"
        BY <1>3, <3>2 DEF Moves, Proper
      <3>4. ASSUME NEW s \in Request, LocksUser(s, u)
            PROVE  FALSE
        <4>1. s # r
          BY <2>3, <3>4
        <4>2. WaitsFor(r, s)
          BY <3>1, <3>2, <3>3, <3>4, <4>1 DEF WaitsFor
        <4>3. QED
          BY <3>2, <4>2 DEF Free
      <3>5. QED
        BY <3>2, <3>4
    <2>4. ASSUME NEW c \in Entered(t)
          PROVE  /\ Wanted(txn[r], c)' = Wanted(txn[r], c)
                 /\ t.user = txn[r].user
                 /\ \/ c \in Entered(txn[r])
                    \/ Free(r) /\ c \in Entering(txn[r]) /\ ~Taken(txn[r], c)
      BY <1>3, <2>1, <2>4 DEF Moves, Wanted
    <2>5. QED
      BY <2>1, <2>2, <2>3, <2>4
  <1>4. CASE \/ \E new \in Token : Inserts(r, new)
             \/ LogsOut(r)
             \/ Deletes(r)
    <2>1. txn'[r] = Idle
      BY <1>4, Becomes DEF Inserts, LogsOut, Deletes, Cascade, Answered
    <2>2. QED
      BY <1>1, <2>1
  <1>5. CASE Renames(r)
    <2>1. /\ txn'[r] = [txn[r] EXCEPT !.pc = "reread"]
          /\ Proper(txn[r]) /\ txn[r].kind = "rename"
      BY <1>5, Becomes DEF Renames, RequestsOK, Idle, Proper
    <2>2. txn'[r].pc = "reread" /\ txn'[r].kind = "rename"
      BY <2>1, MovedFields
    <2>3. QED
      BY <1>1, <2>2
  <1>6. ASSUME NEW t, Quiet(r, t), t = Idle
        PROVE  txn'[r] = Idle
    BY <1>6, Becomes DEF Quiet, Goto
  <1>7. QED
    BY <1>1, <1>2, <1>3, <1>4, <1>5, <1>6 DEF Step, Quiet

LEMMA StepFreshOK ==
    ASSUME TypeOK, RequestsOK, FreshOK, RowsHeldOK, EntriesOK, HeldOK,
           NEW r \in Request, Step(r)
    PROVE  FreshOK'
  <1> SUFFICES ASSUME NEW s \in Request, NEW u \in User, SigningUpTo(s, u)'
               PROVE  /\ account'[u] = Unused
                      /\ \A q \in Request : SigningUpTo(q, u)' => q = s
    BY DEF FreshOK
  <1>1. \A q \in Request \ {r} : txn'[q] = txn[q]
    BY Reaches
  <1>2. \A q \in Request \ {r} : SigningUpTo(q, u)' => SigningUpTo(q, u)
    BY <1>1 DEF SigningUpTo, At
  <1>3. CASE u \in Unclaimed /\ account' = account /\ s = r
    BY <1>2, <1>3 DEF Unclaimed, SigningUpTo, At
  <1>4. CASE SigningUpTo(s, u)
    <2>1. account'[u] = Unused
      <3>1. CASE account' = account
        BY <1>4, <3>1 DEF FreshOK
      <3>2. CASE account' # account
        <4>1. PICK v \in User :
                 /\ \A q \in User \ {v} : account'[q] = account[q]
                 /\ \A q \in Request \ {r} : ~SigningUpTo(q, v)
                 /\ txn'[r].pc \in {"idle", "reread"}
          BY <3>2, AccountsStep DEF TypeOK
        <4>2. s # r
          <5>1. txn'[r] = Idle \/ Proper(txn'[r])
            BY Reaches
          <5>2. QED
            BY <4>1, <5>1 DEF SigningUpTo, At, Proper, Idle
        <4>3. u # v
          BY <1>4, <4>1, <4>2
        <4>4. QED
          BY <1>4, <4>1, <4>3 DEF FreshOK
      <3>3. QED
        BY <3>1, <3>2
    <2>2. ASSUME NEW q \in Request, SigningUpTo(q, u)'
          PROVE  q = s
      <3>1. SigningUpTo(q, u) \/ (q = r /\ u \in Unclaimed)
        BY <1>2, <2>2, OwnStep
      <3>2. u \notin Unclaimed
        BY <1>4 DEF Unclaimed, SigningUpTo, At
      <3>3. QED
        BY <1>4, <3>1, <3>2 DEF FreshOK
    <2>3. QED
      BY <2>1, <2>2
  <1>5. QED
    BY <1>2, <1>3, <1>4, OwnStep

LEMMA StepRowsHeldOK ==
    ASSUME TypeOK, RequestsOK, FreshOK, RowsHeldOK, EntriesOK, HeldOK,
           NEW r \in Request, Step(r)
    PROVE  RowsHeldOK'
  <1> SUFFICES ASSUME NEW s \in Request, NEW u \in User, LocksUser(s, u)'
               PROVE  /\ u \in Users'
                      /\ \A q \in Request : LocksUser(q, u)' => q = s
    BY DEF RowsHeldOK
  <1>1. \A q \in Request \ {r} : txn'[q] = txn[q]
    BY Reaches
  <1>2. \A q \in Request \ {r} : LocksUser(q, u)' => LocksUser(q, u)
    BY <1>1 DEF LocksUser
  <1>3. \A q \in Request : LocksUser(q, u)' =>
           \/ LocksUser(q, u)
           \/ /\ q = r /\ u \in Users /\ account' = account
              /\ \A p \in Request : ~LocksUser(p, u)
    BY <1>2, OwnStep
  <1>4. \A q \in Request : LocksUser(q, u)' => q = s
    BY <1>3 DEF RowsHeldOK
  <1>5. u \in Users
    BY <1>3 DEF RowsHeldOK
  <1>6. u \in Users'
    <2>1. CASE account' = account
      BY <1>5, <2>1 DEF Users
    <2>2. CASE account' # account
      <3>1. PICK v \in User :
               /\ \A q \in User \ {v} : account'[q] = account[q]
               /\ \A q \in Request \ {r} : ~LocksUser(q, v)
               /\ txn'[r].pc \in {"idle", "reread"}
        BY <2>2, AccountsStep DEF TypeOK
      <3>2. s # r
        BY <3>1 DEF LocksUser
      <3>3. u # v
        BY <1>2, <3>1, <3>2
      <3>4. QED
        BY <1>5, <3>1, <3>3 DEF Users
    <2>3. QED
      BY <2>1, <2>2
  <1>7. QED
    BY <1>4, <1>6

(* What another request has in an index stays what it was.                 *)
LEMMA WantedStays ==
    ASSUME TypeOK, RequestsOK, FreshOK, RowsHeldOK, EntriesOK, HeldOK,
           NEW r \in Request, Step(r),
           NEW s \in Request \ {r}, NEW c \in Entered(txn[s])
    PROVE  Wanted(txn[s], c)' = Wanted(txn[s], c)
  <1>1. txn'[s] = txn[s]
    BY Reaches
  <1>2. CASE account'[txn[s].user] = account[txn[s].user]
    BY <1>1, <1>2 DEF Wanted
  <1>3. CASE account'[txn[s].user] # account[txn[s].user]
    <2>1. PICK v \in User :
             /\ \A q \in User \ {v} : account'[q] = account[q]
             /\ ~LocksUser(s, v) /\ ~SigningUpTo(s, v)
      BY <1>3, AccountsStep DEF TypeOK
    <2>2. txn[s].user \in User
      BY EnteredFields
    <2>3. txn[s].user = v
      BY <1>3, <2>1, <2>2
    <2>4. QED
      BY <2>1, <2>3, EnteredFields
  <1>4. QED
    BY <1>2, <1>3

LEMMA StepEntriesOK ==
    ASSUME TypeOK, RequestsOK, FreshOK, RowsHeldOK, EntriesOK, HeldOK,
           NEW r \in Request, Step(r)
    PROVE  EntriesOK'
  <1>1. \A s \in Request \ {r} : txn'[s] = txn[s]
    BY Reaches
  <1>2. ASSUME NEW s \in Request \ {r}, NEW c \in Entered(txn[s])
        PROVE  ~Taken(txn[s], c)'
    <2>1. SUFFICES ASSUME NEW v \in User, account'[v] \in Account,
                          v # txn[s].user,
                          account'[v][c] = Wanted(txn[s], c)
                   PROVE  FALSE
      BY <1>1, WantedStays DEF Taken, Users
    <2>2. account'[v] # account[v]
      BY <2>1 DEF EntriesOK, Taken, Users
    <2>3. PICK u \in User :
             /\ \A q \in User \ {u} : account'[q] = account[q]
             /\ \/ account'[u] = Gone
                \/ \E a \in Account : /\ account'[u] = a
                                      /\ Wanted(txn[s], c) # a[c]
      BY <2>2, AccountsStep DEF TypeOK
    <2>4. QED
      BY <2>1, <2>2, <2>3, IdsDiffer
  <1>3. ASSUME NEW c \in Entered(txn'[r]),
               NEW s \in Request \ {r}, c \in Entered(txn[s]),
               Wanted(txn[s], c) = Wanted(txn[r], c)
        PROVE  FALSE
    <2>1. CASE c \in Entered(txn[r])
      BY <1>3, <2>1 DEF EntriesOK
    <2>2. CASE Free(r) /\ c \in Entering(txn[r])
      <3>1. WaitsFor(r, s)
        BY <1>3, <2>2 DEF WaitsFor, Unsettled
      <3>2. QED
        BY <2>2, <3>1 DEF Free
    <2>3. QED
      BY <2>1, <2>2, OwnStep
  <1>4. ASSUME NEW c \in Entered(txn'[r])
        PROVE  ~Taken(txn[r], c)'
    <2>1. /\ account' = account
          /\ Wanted(txn[r], c)' = Wanted(txn[r], c)
          /\ txn'[r].user = txn[r].user
          /\ ~Taken(txn[r], c)
      BY <1>4, OwnStep DEF EntriesOK
    <2>2. QED
      BY <2>1 DEF Taken, Users
  <1>5. ASSUME NEW s \in Request, NEW c \in Entered(txn'[s]),
               NEW q \in Request, c \in Entered(txn'[q]),
               Wanted(txn[q], c)' = Wanted(txn[s], c)'
        PROVE  q = s
    <2>1. CASE q # r /\ s # r
      <3>1. /\ Wanted(txn[q], c) = Wanted(txn[s], c)
            /\ c \in Entered(txn[s]) /\ c \in Entered(txn[q])
        BY <1>1, <1>5, <2>1, WantedStays
      <3>2. QED
        BY <3>1 DEF EntriesOK
    <2>2. CASE q = r /\ s # r
      <3>1. /\ c \in Entered(txn[s]) /\ c \in Entered(txn'[r])
            /\ Wanted(txn[s], c) = Wanted(txn[r], c)
        BY <1>1, <1>5, <2>2, WantedStays, OwnStep
      <3>2. QED
        BY <1>3, <2>2, <3>1
    <2>3. CASE q # r /\ s = r
      <3>1. /\ c \in Entered(txn[q]) /\ c \in Entered(txn'[r])
            /\ Wanted(txn[q], c) = Wanted(txn[r], c)
        BY <1>1, <1>5, <2>3, WantedStays, OwnStep
      <3>2. QED
        BY <1>3, <2>3, <3>1
    <2>4. QED
      BY <2>1, <2>2, <2>3
  <1>6. ASSUME NEW s \in Request, NEW c \in Entered(txn'[s])
        PROVE  ~Taken(txn[s], c)'
    BY <1>1, <1>2, <1>4, <1>6
  <1>7. QED
    BY <1>5, <1>6 DEF EntriesOK

LEMMA StepTokensHaveUser ==
    ASSUME TypeOK, RequestsOK, FreshOK, RowsHeldOK, EntriesOK, HeldOK,
           TokensHaveUser, NEW r \in Request, Step(r)
    PROVE  TokensHaveUser'
  <1> SUFFICES ASSUME NEW tk \in Token, tk \in Tokens'
               PROVE  token'[tk].user \in Users'
    BY DEF TokensHaveUser, Tokens
  <1>1. CASE Deletes(r)
    <2> DEFINE u == txn[r].user
    <2>1. /\ tk \in Tokens
          /\ token'[tk] = token[tk]
          /\ token[tk].user # u
      BY <1>1, IdsDiffer DEF Deletes, Cascade, Cascaded, Tokens
    <2>2. account' = [account EXCEPT ![u] = Gone]
      BY <1>1 DEF Deletes, Cascade
    <2>3. token[tk].user \in Users
      BY <2>1 DEF TokensHaveUser
    <2>4. QED
      BY <2>1, <2>2, <2>3 DEF Users, TypeOK
  <1>2. CASE ~Deletes(r)
    <2>1. Users \subseteq Users'
      <3>1. \/ account' = account
            \/ \E u \in User, e \in Account : account' = [account EXCEPT ![u] = e]
        <4>1. CASE \/ \E t : Quiet(r, t)
                   \/ LogsOut(r)
          BY <4>1 DEF Quiet, Goto, LogsOut
        <4>2. CASE Renames(r)
          BY <4>2, RenamedFields DEF Renames, Users
        <4>3. ASSUME NEW new \in Token, Inserts(r, new)
              PROVE  \/ account' = account
                     \/ \E u \in User, e \in Account :
                           account' = [account EXCEPT ![u] = e]
          BY <4>3, InsertsFields DEF Inserts, Proper
        <4>4. QED
          BY <1>2, <4>1, <4>2, <4>3 DEF Step
      <3>2. QED
        BY <3>1 DEF Users, TypeOK
    <2>2. CASE tk \in Tokens
      <3>1. token[tk].user \in Users
        BY <2>2 DEF TokensHaveUser
      <3>2. token'[tk].user = token[tk].user
        BY <1>2, <2>2, TokensStep
      <3>3. QED
        BY <2>1, <3>1, <3>2
    <2>3. CASE tk \notin Tokens
      <3>1. Inserts(r, tk)
        BY <2>3, TokensStep DEF Tokens
      <3>2. Proper(txn[r]) /\ token'[tk].user = txn[r].user
        BY <3>1, InsertsFields
      <3>3. txn[r].user \in Users'
        <4>1. CASE txn[r].kind = "signup"
          BY <3>1, <3>2, <4>1 DEF Inserts, Proper, Users, TypeOK
        <4>2. CASE txn[r].kind # "signup"
          BY <2>1, <3>1, <4>2 DEF Inserts, Orphan
        <4>3. QED
          BY <4>1, <4>2
      <3>4. QED
        BY <3>2, <3>3
    <2>4. QED
      BY <2>2, <2>3
  <1>3. QED
    BY <1>1, <1>2

(* Before a token is spent nobody has succeeded it; from then on each      *)
(* successor takes the place of a refresh that was exchanging it.          *)
LEMMA StepSuccessorsBounded ==
    ASSUME TypeOK, RequestsOK, HeldOK, FromOK, SuccessorsBounded,
           NEW r \in Request, Step(r)
    PROVE  SuccessorsBounded'
  <1> SUFFICES ASSUME NEW tk \in Token
               PROVE  Cardinality(Successors(tk)') + Cardinality(Exchanging(tk)')
                        <= Cardinality(Request)
    BY DEF SuccessorsBounded
  <1> DEFINE succ == Successors(tk)
             exch == Exchanging(tk)
             succ1 == Successors(tk)'
             exch1 == Exchanging(tk)'
  <1>1. /\ exch \in SUBSET Request /\ exch1 \in SUBSET Request
        /\ succ \in SUBSET Token /\ succ1 \in SUBSET Token
    BY DEF Exchanging, Successors
  <1>2. IsFiniteSet(succ) /\ Cardinality(succ) \in Nat
    BY <1>1, AccountsAssumption, FS_Subset, FS_CardinalityType
       DEF AccountsAssumption
  <1>3. /\ IsFiniteSet(exch) /\ Cardinality(exch) \in Nat
        /\ Cardinality(exch1) \in Nat
        /\ Cardinality(exch1) <= Cardinality(Request)
        /\ Cardinality(Request) \in Nat
    BY <1>1, RequestsFinite
  <1>4. Cardinality(succ) + Cardinality(exch) <= Cardinality(Request)
    BY DEF SuccessorsBounded
  <1>5. \/ succ1 = succ
        \/ /\ r \in exch \ exch1
           /\ \E new \in Token : succ1 = succ \cup {new}
    BY SuccessorsStep
  <1>6. CASE Usable(tk)
    <2>1. succ = {}
      <3> SUFFICES ASSUME NEW new \in Token, from[new] = tk PROVE FALSE
        BY DEF Successors
      <3>1. Spent(tk)
        BY IdsDiffer DEF FromOK
      <3>2. QED
        BY <1>6, <3>1, IdsDiffer DEF Usable, Spent, Tokens
    <2>2. CASE succ1 = succ
      <3>1. Cardinality(succ1) = 0
        BY <2>1, <2>2, FS_EmptySet
      <3>2. QED
        BY <1>3, <3>1
    <2>3. CASE succ1 # succ
      <3>1. PICK new \in Token : succ1 = {new}
        BY <1>5, <2>1, <2>3
      <3>2. Cardinality(succ1) = 1
        BY <3>1, FS_Singleton
      <3>3. exch1 \subseteq Request \ {r}
        BY <1>1, <1>5, <2>3
      <3>4. Cardinality(exch1) <= Cardinality(Request \ {r})
        BY <3>3, AccountsAssumption, FS_Subset, FS_RemoveElement
           DEF AccountsAssumption
      <3>5. Cardinality(Request \ {r}) = Cardinality(Request) - 1
        BY AccountsAssumption, FS_RemoveElement DEF AccountsAssumption
      <3>6. QED
        BY <1>3, <3>2, <3>4, <3>5
    <2>4. QED
      BY <2>2, <2>3
  <1>7. CASE ~Usable(tk)
    <2>1. exch1 \subseteq exch
      BY <1>7, ExchangingStep
    <2>2. CASE succ1 = succ
      <3>1. Cardinality(exch1) <= Cardinality(exch)
        BY <1>3, <2>1, FS_Subset
      <3>2. QED
        BY <1>2, <1>3, <1>4, <2>2, <3>1
    <2>3. CASE succ1 # succ
      <3>1. PICK new \in Token : succ1 = succ \cup {new}
        BY <1>5, <2>3
      <3>2. Cardinality(succ1) = Cardinality(succ) + 1
        <4>1. new \notin succ
          BY <2>3, <3>1
        <4> HIDE DEF succ, succ1
        <4>2. QED
          BY <1>2, <3>1, <4>1, FS_AddElement
      <3>3. exch1 \subseteq exch \ {r} /\ r \in exch
        BY <1>5, <2>1, <2>3
      <3>4. /\ Cardinality(exch \ {r}) = Cardinality(exch) - 1
            /\ IsFiniteSet(exch \ {r})
        BY <1>3, <3>3, FS_RemoveElement
      <3>5. Cardinality(exch1) <= Cardinality(exch \ {r})
        BY <3>3, <3>4, FS_Subset
      <3>6. QED
        BY <1>2, <1>3, <1>4, <3>2, <3>4, <3>5
    <2>4. QED
      BY <2>2, <2>3
  <1>8. QED
    BY <1>6, <1>7

-----------------------------------------------------------------------------
LEMMA InitAccountsInv == Init => AccountsInv
  <1> SUFFICES ASSUME Init PROVE AccountsInv
    OBVIOUS
  <1>1. /\ TypeOK /\ RequestsOK
        /\ \A r \in Request : txn[r] = Idle
        /\ Users = {} /\ Tokens = {}
        /\ \A tk \in Token : token[tk] = Unused /\ from[tk] = None
    BY IdsDiffer DEF Init, TypeOK, RequestsOK, Users, Tokens
  <1>2. Issuers = {}
    BY <1>1 DEF Issuers, Issues, Idle
  <1>3. RoomOK
    BY <1>2, FS_EmptySet, LeftFinite DEF RoomOK
  <1>4. /\ FreshOK /\ RowsHeldOK /\ EntriesOK /\ HeldOK /\ FromOK
        /\ UniqueAccounts /\ TokensHaveUser
    BY <1>1 DEF FreshOK, SigningUpTo, RowsHeldOK, LocksUser, EntriesOK, Entered,
                Idle, HeldOK, LocksToken, At, FromOK, UniqueAccounts,
                TokensHaveUser
  <1>5. SuccessorsBounded
    <2> SUFFICES ASSUME NEW tk \in Token
                 PROVE  Cardinality(Successors(tk)) + Cardinality(Exchanging(tk))
                          <= Cardinality(Request)
      BY DEF SuccessorsBounded
    <2>1. Successors(tk) = {} /\ Exchanging(tk) = {}
      BY <1>1, IdsDiffer DEF Successors, Exchanging, Idle
    <2>2. QED
      BY <2>1, FS_EmptySet, RequestsFinite
  <1>6. QED
    BY <1>1, <1>3, <1>4, <1>5 DEF AccountsInv, StateOK

LEMMA StepAccountsInv == AccountsInv /\ [Next]_vars => AccountsInv'
  <1> SUFFICES ASSUME AccountsInv, [Next]_vars PROVE AccountsInv'
    OBVIOUS
  <1>1. CASE UNCHANGED vars
    BY <1>1 DEF vars, AccountsInv, StateOK, TypeOK, RequestsOK, RoomOK,
                Issuers, Left, FreshOK, SigningUpTo, RowsHeldOK, LocksUser,
                EntriesOK, Wanted, Taken, Users, HeldOK, LocksToken, At,
                Tokens, FromOK, Spent, UniqueAccounts, TokensHaveUser,
                SuccessorsBounded, Successors, Exchanging
  <1>2. ASSUME NEW r \in Request, Step(r)
        PROVE  AccountsInv'
    BY <1>2, StepTypeOK, StepRequestsOK, StepRoomOK, StepFreshOK, StepRowsHeldOK,
       StepEntriesOK, StepHeldOK, StepFromOK, StepUniqueAccounts,
       StepTokensHaveUser, StepSuccessorsBounded
       DEF AccountsInv, StateOK
  <1>3. QED
    BY <1>1, <1>2, Steps DEF AccountsInv, StateOK

LEMMA AccountsSafe == Spec => []AccountsInv
  BY InitAccountsInv, StepAccountsInv, PTL DEF Spec

(***************************************************************************)
(* Type correctness of the account handlers.                               *)
(***************************************************************************)
THEOREM AccountsTyped == Spec => []TypeOK
  <1>1. AccountsInv => TypeOK
    BY DEF AccountsInv, StateOK
  <1>2. QED
    BY <1>1, AccountsSafe, PTL

(***************************************************************************)
(* No two users have one username or one address, however sign-ups,        *)
(* renames and deletes overlap.                                            *)
(***************************************************************************)
THEOREM AccountsUnique == Spec => []UniqueAccounts
  <1>1. AccountsInv => UniqueAccounts
    BY DEF AccountsInv
  <1>2. QED
    BY <1>1, AccountsSafe, PTL

(***************************************************************************)
(* No token outlives its user, whatever logins and refreshes have read.    *)
(***************************************************************************)
THEOREM NoOrphans == Spec => []TokensHaveUser
  <1>1. AccountsInv => TokensHaveUser
    BY DEF AccountsInv
  <1>2. QED
    BY <1>1, AccountsSafe, PTL

(***************************************************************************)
(* One token yields at most as many successors as requests run at a time.  *)
(***************************************************************************)
THEOREM FewSuccessors == Spec => []SuccessorsBounded
  <1>1. AccountsInv => SuccessorsBounded
    BY DEF AccountsInv
  <1>2. QED
    BY <1>1, AccountsSafe, PTL

(***************************************************************************)
(* A revoked token that nobody is exchanging any more is never exchanged   *)
(* again (refresh, logout).                                                *)
(***************************************************************************)
THEOREM StaysSpent == Spec => SpentForGood
  <1> DEFINE Kept ==
          \A tk \in Tokens :
             token[tk].revoked /\ Exchanging(tk) = {}
             => Successors(tk)' = Successors(tk) /\ Exchanging(tk)' = {}
  <1>1. ASSUME AccountsInv, Next
        PROVE  Kept
    <2> SUFFICES ASSUME NEW tk \in Tokens, token[tk].revoked,
                        Exchanging(tk) = {}
                 PROVE  Successors(tk)' = Successors(tk) /\ Exchanging(tk)' = {}
      OBVIOUS
    <2>1. tk \in Token /\ ~Usable(tk)
      BY DEF Tokens, Usable
    <2>2. PICK r \in Request : Step(r)
      BY <1>1, Steps DEF AccountsInv, StateOK
    <2>3. Exchanging(tk)' = {}
      BY <1>1, <2>1, <2>2, ExchangingStep DEF AccountsInv, StateOK
    <2>4. Successors(tk)' = Successors(tk)
      BY <1>1, <2>1, <2>2, SuccessorsStep DEF AccountsInv, StateOK
    <2>5. QED
      BY <2>3, <2>4
  <1>2. AccountsInv /\ [Next]_vars => [Kept]_vars
    BY <1>1
  <1>3. Spec => [][Kept]_vars
    BY <1>2, AccountsSafe, PTL DEF Spec
  <1>4. QED
    BY <1>3 DEF SpentForGood
-----------------------------------------------------------------------------
(* Waiting                                                                 *)

(* What r holds in a deadlock, by what the one that waits for it needs.    *)
LEMMA StuckPlaces ==
    ASSUME RequestsOK, NEW rs \in SUBSET Request, Deadlocked(rs), NEW r \in rs
    PROVE  \/ Indexing(r)
           \/ SigningUp(r) /\ \E s \in rs : Doing(s, {"index"}, "rename")
           \/ Refreshing(r) /\ \E s \in rs : Deleting(s)
           \/ Deleting(r) /\ \E s \in rs : Refreshing(s)
  <1>1. PICK s \in rs : WaitsFor(s, r)
    BY DEF Deadlocked
  <1>2. PICK v \in rs : WaitsFor(r, v)
    BY DEF Deadlocked
  <1>3. PICK w \in rs : WaitsFor(w, s)
    BY DEF Deadlocked
  <1> USE DEF WaitsFor, Unsettled, LocksUser, LocksToken, Entered, Entering, At
  <1>4. ASSUME NEW x \in rs, NEW y \in rs, WaitsFor(x, y)
        PROVE  Proper(txn[x]) /\ Proper(txn[y])
    BY <1>4 DEF RequestsOK, Idle
  <1>5. /\ Proper(txn[r]) /\ Proper(txn[s]) /\ Proper(txn[v])
    BY <1>1, <1>2, <1>4
  <1>6. /\ txn[r].pc \in {"insert_email", "index", "index_email", "cascade", "issue"}
        /\ txn[r].pc = "issue" => txn[r].kind # "signup"
    BY <1>1, <1>2
  <1>7. CASE txn[r].pc = "issue"
    <2>1. /\ txn[r].kind = "refresh"
          /\ txn[s].pc \in {"revoke", "cascade"}
      BY <1>1, <1>6, <1>7
    <2>2. txn[s].pc # "revoke"
      BY <1>3
    <2>3. QED
      BY <1>5, <1>7, <2>1, <2>2 DEF Proper, Doing, Refreshing, Deleting
  <1>8. CASE txn[r].pc = "cascade"
    BY <1>2, <1>5, <1>8 DEF Proper, Doing, Refreshing, Deleting
  <1>9. CASE txn[r].pc = "insert_email"
    <2>1. txn[s].pc \in {"insert", "index"}
      BY <1>1, <1>9 DEF Column
    <2>2. txn[s].pc # "insert"
      BY <1>3
    <2>3. QED
      BY <1>5, <1>9, <2>1, <2>2 DEF Proper, Doing, SigningUp
  <1>10. CASE txn[r].pc \in {"index", "index_email"}
    BY <1>5, <1>10 DEF Proper, Doing, Indexing
  <1>11. QED
    BY <1>6, <1>7, <1>8, <1>9, <1>10

(***************************************************************************)
(* Renames, sign-ups that have entered a username a rename is waiting for, *)
(* and refreshes with deletes are all that deadlocks consist of, for any   *)
(* number of requests.                                                     *)
(***************************************************************************)
THEOREM DeadlocksHaveShapes == Spec => []DeadlockShapes
  <1>1. AccountsInv => DeadlockShapes
    BY StuckPlaces DEF DeadlockShapes, AccountsInv, StateOK, Indexing,
                       SigningUp, Refreshing, Deleting, Doing
  <1>2. QED
    BY <1>1, AccountsSafe, PTL
=============================================================================
