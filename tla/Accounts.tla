-------------------------------- MODULE Accounts --------------------------------
(***************************************************************************)
(* User accounts and their refresh tokens (endpoints/auth.py,              *)
(* endpoints/admin_users.py), which routes.py keeps unmounted while the    *)
(* site is guest-only: sign up, login, refresh, logout, rename and delete, *)
(* concurrently over PostgreSQL at READ COMMITTED.                         *)
(*                                                                         *)
(* A request arrives with its first statement, and an INSERT that the      *)
(* COMMIT follows is one step with it.  A row of users enters the unique   *)
(* index of its username and then that of its email, and keeps the first   *)
(* entry while it waits for the second.                                    *)
(***************************************************************************)
EXTENDS Integers, FiniteSets

CONSTANTS
    User,       \* ids of users; an id is given once
    Token,      \* ids of refresh tokens, likewise
    Username,
    Email,
    Request,    \* requests in flight at one time
    Unused,     \* an id that no row has had
    Gone,       \* an id whose row was deleted
    None

ASSUME AccountsAssumption ==
    /\ None \notin Username \cup Email \cup User \cup Token \cup {Unused, Gone}
    /\ {Unused, Gone} \cap [username: Username, email: Email] = {}
    /\ {Unused, Gone} \cap [user: User, revoked: BOOLEAN] = {}
    /\ Unused # Gone
    /\ IsFiniteSet(Request)
    /\ IsFiniteSet(Token)

VARIABLES
    account,    \* users, as committed
    token,      \* refresh_tokens, as committed
    from,       \* the token a token was issued for
    txn         \* each request's handler: its program counter and locals

vars == <<account, token, from, txn>>

Account == [username: Username, email: Email]

(* the unique columns of users                                             *)
Column == {"username", "email"}

(* what a request writes to users, None where it leaves a column alone     *)
Body == [username: Username \cup {None}, email: Email \cup {None}]

Nothing == [username |-> None, email |-> None]

Row == [user: User, revoked: BOOLEAN]

Idle == [pc |-> "idle"]

Running ==
    [pc: {"insert", "insert_email", "read_user", "revoke", "issue", "rename",
          "index", "index_email", "reread", "delete", "cascade"},
     kind: {"signup", "login", "refresh", "logout", "rename", "delete"},
     user: User \cup {None}, token: Token \cup {None}, body: Body]

TypeOK ==
    /\ account \in [User -> Account \cup {Unused, Gone}]
    /\ token \in [Token -> Row \cup {Unused, Gone}]
    /\ from \in [Token -> Token \cup {None}]
    /\ txn \in [Request -> {Idle} \cup Running]

-----------------------------------------------------------------------------
Users == {u \in User : account[u] \in Account}

Tokens == {tk \in Token : token[tk] \in Row}

At(r, pc) == txn[r].pc = pc

(* the value of a column once t has written the row                        *)
Wanted(t, c) == IF t.body[c] = None THEN account[t.user][c] ELSE t.body[c]

(* a token is issued with an update of the users row it references         *)
LocksUserMutant(r, u) ==
    /\ txn[r].pc \in {"issue", "index", "index_email", "cascade"}
    /\ txn[r].user = u

(* r has written the users row and not committed                           *)
LocksUser(r, u) ==
    /\ txn[r].pc \in {"index", "index_email", "cascade"}
    /\ txn[r].user = u

(* a refresh has revoked the token and not committed                       *)
LocksToken(r, tk) ==
    /\ At(r, "issue")
    /\ txn[r].kind = "refresh"
    /\ txn[r].token = tk

(* the unique indexes that t's uncommitted row has been entered in         *)
Entered(t) ==
    {c \in Column : \/ t.pc \in {"insert_email", "index_email"} /\ c = "username"
                    \/ t.pc = "issue" /\ t.kind = "signup"}

(* the one it is about to be entered in                                    *)
Entering(t) ==
    {c \in Column : \/ t.pc \in {"insert", "index"} /\ c = "username"
                    \/ t.pc \in {"insert_email", "index_email"} /\ c = "email"}

(* a value of which it depends on r's commit whether it is in use          *)
Unsettled(r, c, x) ==
    \/ c \in Entered(txn[r]) /\ Wanted(txn[r], c) = x
    \/ \E u \in Users : LocksUser(r, u) /\ account[u][c] = x

(* r's next statement waits for the transaction of s                       *)
WaitsFor(r, s) ==
    /\ r # s
    /\ \/ \E c \in Entering(txn[r]) : Unsettled(s, c, Wanted(txn[r], c))
       \/ /\ txn[r].pc \in {"rename", "delete", "issue"}
          /\ txn[r].kind # "signup"
          /\ LocksUser(s, txn[r].user)
       \/ At(r, "revoke") /\ LocksToken(s, txn[r].token)
       \/ At(r, "cascade") /\ \E tk \in Tokens :
             token[tk].user = txn[r].user /\ LocksToken(s, tk)

Free(r) == \A s \in Request : ~WaitsFor(r, s)

(* users without its unique constraints                                    *)
TakenMutant(t, c) == FALSE

(* the unique constraint of the column is violated                         *)
Taken(t, c) == \E u \in Users \ {t.user} : account[u][c] = Wanted(t, c)

-----------------------------------------------------------------------------
Init ==
    /\ account = [u \in User |-> Unused]
    /\ token = [tk \in Token |-> Unused]
    /\ from = [tk \in Token |-> None]
    /\ txn = [r \in Request |-> Idle]

Become(r, t) == txn' = [txn EXCEPT ![r] = t]

Goto(r, t) == Become(r, t) /\ UNCHANGED <<account, token, from>>

(* an answer before anything was written, or an error, which rolls back    *)
Answer(r) == Goto(r, Idle)

Answered(r) == Become(r, Idle)

Start(r, pc, kind, u, tk, body) ==
    Goto(r, [pc |-> pc, kind |-> kind, user |-> u, token |-> tk,
             body |-> body])

Proceed(r, pc) == Goto(r, [txn[r] EXCEPT !.pc = pc])

Unclaimed == {u \in User : /\ account[u] = Unused
                           /\ \A r \in Request :
                                 At(r, "idle") \/ txn[r].user # u}

Left == {tk \in Token : token[tk] = Unused}

(* bound: an id is left for every token under way                          *)
Room == Cardinality({r \in Request : ~At(r, "idle")}) < Cardinality(Left)

-----------------------------------------------------------------------------
(* auth.py                                                                 *)

Signup(r, body) ==
    /\ At(r, "idle")
    /\ Room
    /\ Unclaimed # {}
    /\ Start(r, "insert", "signup", CHOOSE u \in Unclaimed : TRUE, None, body)

(* the new version of a row enters the index of its username, ...          *)
EnterUsername(r) ==
    LET t == txn[r]
    IN  /\ t.pc \in {"insert", "index"}
        /\ Free(r)
        /\ \/ Taken(t, "username") /\ Answer(r)   \* 409
           \/ /\ ~Taken(t, "username")
              /\ Proceed(r, IF t.pc = "insert" THEN "insert_email"
                                              ELSE "index_email")

(* ... and the row of a sign-up that of its email                          *)
InsertUser(r) ==
    /\ At(r, "insert_email")
    /\ Free(r)
    /\ \/ Taken(txn[r], "email") /\ Answer(r)   \* 409
       \/ ~Taken(txn[r], "email") /\ Proceed(r, "issue")

Login(r, e) ==
    /\ At(r, "idle")
    /\ Room
    /\ \/ Answer(r)   \* 401: no such user, or another password
       \/ \E u \in Users : /\ account[u].email = e
                           /\ Start(r, "issue", "login", u, None, Nothing)

(* a token is checked for its expiry alone                                 *)
UsableMutant(tk) == tk \in Tokens

(* it may still be past its expiry                                         *)
Usable(tk) == tk \in Tokens /\ ~token[tk].revoked

Refresh(r, tk) ==
    /\ At(r, "idle")
    /\ Room
    /\ \/ Answer(r)   \* 401: not usable, or expired
       \/ /\ Usable(tk)
          /\ Start(r, "read_user", "refresh", token[tk].user, tk, Nothing)

ReadUser(r) ==
    /\ At(r, "read_user")
    /\ \/ txn[r].user \notin Users /\ Answer(r)   \* 401
       \/ txn[r].user \in Users /\ Proceed(r, "revoke")

Logout(r, tk) ==
    /\ At(r, "idle")
    /\ \/ /\ tk \in Tokens => token[tk].revoked
          /\ Answer(r)
       \/ /\ tk \in Tokens
          /\ ~token[tk].revoked
          /\ Start(r, "revoke", "logout", token[tk].user, tk, Nothing)

(* UPDATE refresh_tokens: a row that is gone is a StaleDataError           *)
Revoke(r) ==
    LET tk == txn[r].token
    IN  /\ At(r, "revoke")
        /\ Free(r)
        /\ \/ tk \notin Tokens /\ Answer(r)   \* 500
           \/ /\ tk \in Tokens
              /\ txn[r].kind = "refresh"
              /\ Proceed(r, "issue")
           \/ /\ tk \in Tokens
              /\ txn[r].kind = "logout"
              /\ token' = [token EXCEPT ![tk].revoked = TRUE]
              /\ Answered(r)
              /\ UNCHANGED <<account, from>>

(* the presented token is left as it is                                    *)
RevokedMutant(t) == token

(* refresh_tokens with the presented token revoked, if there is one        *)
Revoked(t) ==
    IF t.kind = "refresh" THEN [token EXCEPT ![t.token].revoked = TRUE]
                          ELSE token

(* refresh_tokens.user_id without its foreign key                          *)
OrphanMutant(t) == FALSE

(* the foreign key is violated                                             *)
Orphan(t) == t.kind # "signup" /\ t.user \notin Users

(* _issue_tokens: the new token is inserted and all is committed           *)
Issue(r) ==
    LET t == txn[r]
        new == CHOOSE tk \in Left : TRUE
    IN  /\ At(r, "issue")
        /\ Free(r)
        /\ \/ Orphan(t) /\ Answer(r)   \* 500
           \/ /\ ~Orphan(t)
              /\ token' = [Revoked(t) EXCEPT ![new] =
                               [user |-> t.user, revoked |-> FALSE]]
              /\ from' = [from EXCEPT ![new] = t.token]
              /\ account' = IF t.kind = "signup"
                            THEN [account EXCEPT ![t.user] = t.body] ELSE account
              /\ Answered(r)

-----------------------------------------------------------------------------
(* admin_users.py                                                          *)

(* only columns that differ from what was loaded will be written           *)
Changed(u, body) ==
    [c \in Column |-> IF body[c] = account[u][c] THEN None ELSE body[c]]

UpdateUser(r, u, body) ==
    /\ At(r, "idle")
    /\ \/ u \notin Users /\ Answer(r)   \* 404
       \/ /\ u \in Users
          /\ Start(r, IF Changed(u, body) = Nothing THEN "reread" ELSE "rename",
                   "rename", u, None, Changed(u, body))

(* the row as t's UPDATE leaves it                                         *)
Renamed(t) == [c \in Column |-> Wanted(t, c)]

(* UPDATE users: no row any more is a StaleDataError; an UPDATE that       *)
(* changes no indexed value makes no index entries                         *)
Rename(r) ==
    LET t == txn[r]
    IN  /\ At(r, "rename")
        /\ Free(r)
        /\ \/ t.user \notin Users /\ Answer(r)   \* 500
           \/ /\ t.user \in Users
              /\ Proceed(r, IF Renamed(t) = account[t.user] THEN "reread"
                                                            ELSE "index")

(* it enters the index of its email and is committed                       *)
RenameCommit(r) ==
    LET t == txn[r]
    IN  /\ At(r, "index_email")
        /\ Free(r)
        /\ \/ Taken(t, "email") /\ Answer(r)   \* 409
           \/ /\ ~Taken(t, "email")
              /\ account' = [account EXCEPT ![t.user] = Renamed(t)]
              /\ Become(r, [t EXCEPT !.pc = "reread"])
              /\ UNCHANGED <<token, from>>

(* session.refresh(user), in a transaction of its own                      *)
Reread(r) ==
    /\ At(r, "reread")
    /\ Answer(r)    \* 200 with the user, or 500 where it is gone

DeleteUser(r, u) ==
    /\ At(r, "idle")
    /\ \/ u \notin Users /\ Answer(r)   \* 404
       \/ u \in Users /\ Start(r, "delete", "delete", u, None, Nothing)

(* DELETE FROM users: that another request did it is only a warning        *)
DeleteRow(r) ==
    /\ At(r, "delete")
    /\ Free(r)
    /\ \/ txn[r].user \notin Users /\ Answer(r)   \* 200
       \/ txn[r].user \in Users /\ Proceed(r, "cascade")

(* refresh_tokens without the rows of the user: ON DELETE CASCADE          *)
Cascaded(u) ==
    [tk \in Token |->
        IF tk \in Tokens /\ token[tk].user = u THEN Gone ELSE token[tk]]

(* the cascade reaches the user's tokens and it is committed               *)
Cascade(r) ==
    LET u == txn[r].user
    IN  /\ At(r, "cascade")
        /\ Free(r)
        /\ account' = [account EXCEPT ![u] = Gone]
        /\ token' = Cascaded(u)
        /\ Answered(r)
        /\ UNCHANGED from

-----------------------------------------------------------------------------
(* Every member waits for one and is waited for by one.                    *)
Deadlocked(rs) ==
    \A r \in rs : /\ \E s \in rs : WaitsFor(r, s)
                  /\ \E s \in rs : WaitsFor(s, r)

(* PostgreSQL aborts one of them, which no handler expects                 *)
DeadlockAbort(r) ==
    /\ \E rs \in SUBSET Request : r \in rs /\ Deadlocked(rs)
    /\ Answer(r)   \* 500

(* the process or the connection dies before the commit                    *)
Crash(r) == ~At(r, "idle") /\ Goto(r, Idle)

-----------------------------------------------------------------------------
Arrive(r) ==
    \/ \E body \in Account : Signup(r, body)
    \/ \E e \in Email : Login(r, e)
    \/ \E tk \in Token : Refresh(r, tk) \/ Logout(r, tk)
    \/ \E u \in User : \/ DeleteUser(r, u)
                      \/ \E body \in Body \ {Nothing} : UpdateUser(r, u, body)

Serve(r) ==
    \/ EnterUsername(r)
    \/ InsertUser(r)
    \/ ReadUser(r)
    \/ Revoke(r)
    \/ Issue(r)
    \/ Rename(r)
    \/ RenameCommit(r)
    \/ Reread(r)
    \/ DeleteRow(r)
    \/ Cascade(r)
    \/ DeadlockAbort(r)

Next == \E r \in Request : Arrive(r) \/ Serve(r) \/ Crash(r)

Spec == Init /\ [][Next]_vars

-----------------------------------------------------------------------------
(* What accounts rely on                                                   *)

(***************************************************************************)
(* A username and an address belong to one user, however sign-ups and      *)
(* renames overlap (login finds its user with scalar_one_or_none, which a  *)
(* second row would turn into an error).                                   *)
(***************************************************************************)
UniqueAccounts ==
    \A u, v \in Users, c \in Column : account[u][c] = account[v][c] => u = v

(***************************************************************************)
(* Every token stored is of a user that exists, however logins and         *)
(* refreshes that have read the user overlap with its deletion.            *)
(***************************************************************************)
TokensHaveUser ==
    \A tk \in Tokens : token[tk].user \in Users

Successors(tk) == {new \in Token : from[new] = tk}

(* the refreshes that have found the token usable                          *)
Exchanging(tk) ==
    {r \in Request : /\ txn[r].pc \in {"read_user", "revoke", "issue"}
                     /\ txn[r].kind = "refresh"
                     /\ txn[r].token = tk}

(***************************************************************************)
(* A token is exchanged by at most as many refreshes as are in flight at   *)
(* one time: rotation does not make an exchange exclusive, since all that  *)
(* read the token before the first one commits go through, but it ends     *)
(* there.                                                                  *)
(***************************************************************************)
SuccessorsBounded ==
    \A tk \in Token :
        Cardinality(Successors(tk)) + Cardinality(Exchanging(tk))
            <= Cardinality(Request)

(***************************************************************************)
(* Once a token is revoked, by a refresh or a logout, only refreshes that  *)
(* had read it by then can still exchange it: a retry with it never        *)
(* succeeds.                                                               *)
(***************************************************************************)
SpentForGood ==
    [][\A tk \in Tokens :
          token[tk].revoked /\ Exchanging(tk) = {}
          => Successors(tk)' = Successors(tk) /\ Exchanging(tk)' = {}]_vars

Doing(r, pcs, kind) == txn[r].pc \in pcs /\ txn[r].kind = kind

Indexing(r) == Doing(r, {"index", "index_email"}, "rename")

SigningUp(r) == Doing(r, {"insert_email"}, "signup")

Refreshing(r) == Doing(r, {"issue"}, "refresh")

Deleting(r) == Doing(r, {"cascade"}, "delete")

(***************************************************************************)
(* Who can deadlock: renames that wait for each other's names, a sign-up   *)
(* that has entered its username and waits for an address, together with a *)
(* rename that waits for that username, and a refresh that holds its token *)
(* and waits for a user, together with a delete that waits for a token.    *)
(* So players alone, without an admin's rename or delete, never deadlock,  *)
(* and no login or logout is ever aborted.                                 *)
(***************************************************************************)
DeadlockShapes ==
    \A rs \in SUBSET Request : Deadlocked(rs) =>
        /\ \A r \in rs :
              Indexing(r) \/ SigningUp(r) \/ Refreshing(r) \/ Deleting(r)
        /\ (\E r \in rs : SigningUp(r)) => \E r \in rs : Doing(r, {"index"}, "rename")
        /\ (\E r \in rs : Refreshing(r)) <=> \E r \in rs : Deleting(r)
=============================================================================
