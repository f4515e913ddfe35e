------------------------------- MODULE Accounts -------------------------------
(***************************************************************************)
(* Users, sessions and administration: auth.service.js, user.service.js    *)
(* and the middlewares authenticate and authorize in front of them.        *)
(*                                                                         *)
(* A call is one HTTP request; each of its database queries is a step, so  *)
(* what a call has read may be old by the time it writes.  There is no     *)
(* transaction and no lock: an UPDATE writes the columns it names.  Calls  *)
(* are answered with the status codes that error.middleware.js sends: the  *)
(* errors of auth.service.js are no AppErrors and become a 500.            *)
(*                                                                         *)
(* The schemas of the PATCH routes describe { body: ... } and are parsed   *)
(* against the body itself, unknown keys being dropped.  A flat body is    *)
(* refused, and after a nested one the controllers read undefined.         *)
(***************************************************************************)
EXTENDS Naturals

CONSTANTS
    Users,      \* users, named by their unique e-mail addresses
    Calls,      \* requests, each sent once
    Passwords,  \* passwords
    LastSecond, \* the last second of the clock that JWTs are issued by
    NoToken,    \* null in User.refreshToken
    NoPassword  \* no password at all

ASSUME AccountsAssumption ==
    /\ LastSecond \in Nat
    /\ NoPassword \notin Passwords

VARIABLES
    user,       \* user[u]: the row of u
    now,        \* the current second
    issued,     \* users to whom an access token has been issued
    handed,     \* refresh tokens that have been handed out
    call,       \* call[c]: what c asks for
    at,         \* at[c]: where c is
    seen,       \* seen[c]: the row that c has read
    token,      \* token[c]: the refresh token that c has signed
    answer      \* answer[c]: the status code, 0 before there is one

clientVars == <<issued, handed>>
callVars == <<call, at, seen, token, answer>>
vars == <<user, now, clientVars, callVars>>

Suspended == {"BLOCKED", "INACTIVE"}        \* LOCKED is treated as BLOCKED is
Status == {"ACTIVE"} \cup Suspended
Role == {"ADMIN", "CUSTOMER"}               \* the others are as CUSTOMER here

\* Equal payloads signed in the same second are equal tokens.
Tokens == [user : Users, second : 0 .. LastSecond]

UserType == [exists : BOOLEAN, password : Passwords \cup {NoPassword},
             refresh : Tokens \cup {NoToken}, status : Status, role : Role]
NoUser == [exists |-> FALSE, password |-> NoPassword, refresh |-> NoToken,
           status |-> "ACTIVE", role |-> "CUSTOMER"]

\* The requests of the auth routes, with valid bodies, and of the user routes.
Credentials == [kind : {"REGISTER", "LOGIN"}, user : Users, password : Passwords]
Refreshes == [kind : {"REFRESH"}, token : Tokens]
Own == [kind : {"LOGOUT", "PROFILE", "DELETE"}, user : Users]
\* Of one's own profile or password; of the status or the role of a user.
Patches == [kind : {"PATCH"}, user : Users, nested : BOOLEAN]
Administrative ==
    [kind : {"ADMINISTER"}, user : Users, target : Users, nested : BOOLEAN]
NoCall == [kind |-> "NONE"]

Labels == {"idle", "read", "sign", "authenticate", "find", "write", "done"}
Codes == {0, 200, 201, 401, 403, 404, 409, 500}

Public == Credentials \cup Refreshes
Protected == Own \cup Patches \cup Administrative

Is(c, kind) == call[c].kind = kind
IsAdministrative(c) == Is(c, "ADMINISTER")
Caller(c) == call[c].user
Subject(c) == IF IsAdministrative(c) THEN call[c].target ELSE call[c].user

-----------------------------------------------------------------------------
\* Any users have registered before, and some of them have logged in.
Init ==
    /\ user \in [Users -> {NoUser} \cup
                    [exists : {TRUE}, password : Passwords, refresh : {NoToken},
                     status : {"ACTIVE", "BLOCKED"}, role : Role]]
    /\ now = 0
    /\ issued = {u \in Users : user[u].exists}
    /\ handed = {}
    /\ call = [c \in Calls |-> NoCall]
    /\ at = [c \in Calls |-> "idle"]
    /\ seen = [c \in Calls |-> NoUser]
    /\ token = [c \in Calls |-> NoToken]
    /\ answer = [c \in Calls |-> 0]

Goto(c, label) ==
    /\ at' = [at EXCEPT ![c] = label]
    /\ UNCHANGED answer

Keep == UNCHANGED <<seen, token>>

\* What the handler has read and signed is gone when it returns.
Answer(c, code) ==
    /\ at' = [at EXCEPT ![c] = "done"]
    /\ answer' = [answer EXCEPT ![c] = code]
    /\ seen' = [seen EXCEPT ![c] = NoUser]
    /\ token' = [token EXCEPT ![c] = NoToken]

\* The reply of a query that was carried out may get lost.
AnswerWrite(c, code) == Answer(c, code) \/ Answer(c, 500)

\* A client sends a request, with a token it has been given if one is needed.
Send(c, q) ==
    /\ at[c] = "idle"
    /\ q \in Protected => q.user \in issued
    /\ q \in Refreshes => q.token \in handed
    /\ call' = [call EXCEPT ![c] = q]
    /\ Goto(c, IF q \in Public THEN "read" ELSE "authenticate")
    /\ Keep
    /\ UNCHANGED <<user, now, clientVars>>

-----------------------------------------------------------------------------
(* Registration.                                                           *)

\* findUserByEmail; EmailAlreadyExistsError if there is one.
CheckEmail(c) ==
    /\ at[c] = "read"
    /\ Is(c, "REGISTER")
    /\ IF user[Caller(c)].exists THEN Answer(c, 500) ELSE Goto(c, "write") /\ Keep
    /\ UNCHANGED <<user, now, clientVars, call>>

\* Bug: the role is left for the request to say.
NewUserWithoutRole(c) ==
    [NoUser EXCEPT !.exists = TRUE, !.password = call[c].password, !.role = "NONE"]

\* The role and the status are those that the schema defaults to.
NewUser(c) == [NoUser EXCEPT !.exists = TRUE, !.password = call[c].password]

\* Bug: User.email is not unique.
InsertAnyUser(c) ==
    /\ at[c] = "write"
    /\ Is(c, "REGISTER")
    /\ user' = [user EXCEPT ![Caller(c)] = NewUser(c)]
    /\ AnswerWrite(c, 201)
    /\ UNCHANGED <<now, clientVars, call>>

\* createUser, after the password has been hashed.
InsertUser(c) ==
    /\ at[c] = "write"
    /\ Is(c, "REGISTER")
    /\ ~user[Caller(c)].exists
    /\ user' = [user EXCEPT ![Caller(c)] = NewUser(c)]
    /\ AnswerWrite(c, 201)
    /\ UNCHANGED <<now, clientVars, call>>

\* The e-mail is unique: P2002, which is mapped to a 409.
EmailConflict(c) ==
    /\ at[c] = "write"
    /\ Is(c, "REGISTER")
    /\ user[Caller(c)].exists
    /\ Answer(c, 409)
    /\ UNCHANGED <<user, now, clientVars, call>>

-----------------------------------------------------------------------------
(* Login and refresh.                                                      *)

\* findUserByEmail; InvalidCredentialsError if there is none.
ReadCredentials(c) ==
    /\ at[c] = "read"
    /\ Is(c, "LOGIN")
    /\ IF user[Caller(c)].exists
       THEN /\ seen' = [seen EXCEPT ![c] = user[Caller(c)]]
            /\ Goto(c, "sign")
            /\ UNCHANGED token
       ELSE Answer(c, 500)
    /\ UNCHANGED <<user, now, clientVars, call>>

\* comparePassword with the hash that was read, then the tokens are signed.
Sign(c) ==
    /\ at[c] = "sign"
    /\ Is(c, "LOGIN")
    /\ IF seen[c].password = call[c].password
       THEN /\ token' = [token EXCEPT ![c] =
                  [user |-> Caller(c), second |-> now]]
            /\ Goto(c, "write")
            /\ UNCHANGED seen
       ELSE Answer(c, 500)
    /\ UNCHANGED <<user, now, clientVars, call>>

\* Bug: the row that was read is saved with the new token in it.
StoreInRow(c) ==
    /\ at[c] = "write"
    /\ Is(c, "LOGIN")
    /\ user' = [user EXCEPT ![Caller(c)] = [seen[c] EXCEPT !.refresh = token[c]]]
    /\ AnswerWrite(c, 200)
    /\ UNCHANGED <<now, clientVars, call>>

\* updateRefreshToken, and the session is returned.
StoreToken(c) ==
    /\ at[c] = "write"
    /\ Is(c, "LOGIN")
    /\ user' = [user EXCEPT ![Caller(c)].refresh = token[c]]
    /\ \/ /\ issued' = issued \cup {Caller(c)}
          /\ handed' = handed \cup {token[c]}
          /\ Answer(c, 200)
       \/ UNCHANGED clientVars /\ Answer(c, 500)
    /\ UNCHANGED <<now, call>>

\* findUserByRefreshToken; UnauthorizedError if nobody has that token.
Refresh(c) ==
    LET Owners == {u \in Users : user[u].refresh = call[c].token}
    IN  /\ at[c] = "read"
        /\ Is(c, "REFRESH")
        /\ issued' = issued \cup Owners
        /\ Answer(c, IF Owners = {} THEN 500 ELSE 200)
        /\ UNCHANGED <<user, now, handed, call>>

\* The token has expired by the time it is verified.
TokenExpired(c) ==
    /\ \/ at[c] = "authenticate" /\ Answer(c, 401)
       \/ at[c] = "read" /\ Is(c, "REFRESH") /\ Answer(c, 500)
    /\ UNCHANGED <<user, now, clientVars, call>>

-----------------------------------------------------------------------------
(* The middlewares authenticate and authorize.                             *)

\* The row of the caller: not suspended, and of the role the route asks for.
MayPass(c) ==
    /\ user[Caller(c)].exists
    /\ user[Caller(c)].status = "ACTIVE"
    /\ IsAdministrative(c) => user[Caller(c)].role = "ADMIN"

IsFlat(c) == call[c] \in Patches \cup Administrative /\ ~call[c].nested

Admit(c) ==
    /\ at[c] = "authenticate"
    /\ MayPass(c)
    /\ ~IsFlat(c)
    /\ Goto(c, IF Is(c, "LOGOUT") THEN "write" ELSE "find")
    /\ Keep
    /\ UNCHANGED <<user, now, clientVars, call>>

\* parse throws a ZodError, which has no errors property to map: a TypeError.
RejectBody(c) ==
    /\ at[c] = "authenticate"
    /\ MayPass(c)
    /\ IsFlat(c)
    /\ Answer(c, 500)
    /\ UNCHANGED <<user, now, clientVars, call>>

Deny(c) ==
    /\ at[c] = "authenticate"
    /\ ~MayPass(c)
    /\ Answer(c, IF user[Caller(c)].exists THEN 403 ELSE 401)
    /\ UNCHANGED <<user, now, clientVars, call>>

-----------------------------------------------------------------------------
(* The user service.                                                       *)

\* findUserById of the user the call is about.  A profile is answered with it;
\* Prisma knows no field named body, and undefined cannot be hashed.
Find(c) ==
    LET r == user[Subject(c)]
    IN  /\ at[c] = "find"
        /\ IF ~r.exists THEN Answer(c, 404)
           ELSE IF Is(c, "PROFILE") THEN Answer(c, 200)
           ELSE IF call[c] \in Patches THEN Answer(c, 500)
           ELSE /\ seen' = [seen EXCEPT ![c] = r]
                /\ Goto(c, "write")
                /\ UNCHANGED token
        /\ UNCHANGED <<user, now, clientVars, call>>

\* An UPDATE leaves row r of the call's subject; the call is answered.
Update(c, r) ==
    /\ at[c] = "write"
    /\ user' = [user EXCEPT ![Subject(c)] = r]
    /\ AnswerWrite(c, 200)
    /\ UNCHANGED <<now, clientVars, call>>

Row(c) == user[Subject(c)]

Logout(c) == Is(c, "LOGOUT") /\ Update(c, [Row(c) EXCEPT !.refresh = NoToken])
SoftDelete(c) == Is(c, "DELETE") /\ Update(c, [Row(c) EXCEPT !.status = "INACTIVE"])

\* Bug: the row that was read is saved again.
SaveRow(c) == IsAdministrative(c) /\ Update(c, seen[c])

\* changeStatus and changeRole: a column that is undefined is not written.
Administer(c) == IsAdministrative(c) /\ Update(c, Row(c))

\* A query fails or the process dies: the client gets no answer or a 500.
Break(c) ==
    /\ at[c] \in {"read", "sign", "authenticate", "find", "write"}
    /\ Answer(c, 500)
    /\ UNCHANGED <<user, now, clientVars, call>>

Tick ==
    /\ now < LastSecond
    /\ now' = now + 1
    /\ UNCHANGED <<user, clientVars, callVars>>

Progress(c) ==
    \/ CheckEmail(c) \/ InsertUser(c) \/ EmailConflict(c)
    \/ ReadCredentials(c) \/ Sign(c) \/ StoreToken(c)
    \/ Refresh(c) \/ TokenExpired(c) \/ Admit(c) \/ Deny(c) \/ RejectBody(c)
    \/ Find(c) \/ Logout(c) \/ SoftDelete(c) \/ Administer(c)

\* Every call has been answered.
Quiescent == (\A c \in Calls : at[c] = "done") /\ UNCHANGED vars

Next ==
    \/ \E c \in Calls :
          \/ \E q \in Public \cup Protected : Send(c, q)
          \/ Progress(c)
          \/ Break(c)
    \/ Tick
    \/ Quiescent

Spec == Init /\ [][Next]_vars
Fairness == \A c \in Calls : WF_vars(Progress(c))
FairSpec == Spec /\ Fairness

-----------------------------------------------------------------------------
FitsLabel(c) ==
    /\ at[c] \in {"authenticate", "find"} => call[c] \in Protected
    /\ at[c] = "write" /\ Is(c, "LOGIN") =>
          token[c] \in Tokens /\ token[c].user = Caller(c)

\* The type of every variable.
TypeOK ==
    /\ user \in [Users -> UserType]
    /\ now \in 0 .. LastSecond
    /\ issued \subseteq Users
    /\ handed \subseteq Tokens
    /\ call \in [Calls -> Public \cup Protected \cup {NoCall}]
    /\ at \in [Calls -> Labels]
    /\ \A c \in Calls : FitsLabel(c)
    /\ seen \in [Calls -> UserType]
    /\ token \in [Calls -> Tokens \cup {NoToken}]
    /\ answer \in [Calls -> Codes]

HasAccount(c) == user[Caller(c)].exists /\ user[Caller(c)].password = call[c].password

\* What a call has been told, or is about to be told, stays true.
IsTruthful(c) ==
    /\ at[c] # "done" => answer[c] = 0
    /\ Is(c, "REGISTER") /\ answer[c] = 201 => HasAccount(c)
    /\ Is(c, "LOGIN") /\ at[c] \in {"sign", "write"} =>
          user[Caller(c)].exists /\ user[Caller(c)].password = seen[c].password
    /\ Is(c, "LOGIN") /\ at[c] = "write" => seen[c].password = call[c].password
    /\ Is(c, "LOGIN") /\ answer[c] = 200 => HasAccount(c)
    /\ Is(c, "DELETE") /\ answer[c] = 200 =>
          user[Caller(c)].exists /\ user[Caller(c)].status = "INACTIVE"

\* Who was let in is a user, for an administrative call an administrator, and
\* the row that was found is there.
IsEntitled(c) ==
    /\ at[c] = "idle" <=> Is(c, "NONE")
    /\ call[c] \in Protected /\ at[c] \in {"find", "write"} =>
          /\ user[Caller(c)].exists
          /\ IsAdministrative(c) => user[Caller(c)].role = "ADMIN"
    /\ call[c] \in Protected /\ at[c] = "write" => user[Subject(c)].exists

\* The inductive invariant: rows are added and updated beside a call, but what
\* it has read of the password and the role, and that a deleted user is
\* INACTIVE, stay as they are (user.repository.js:53-115).
AccountInv == TypeOK /\ \A c \in Calls : IsTruthful(c) /\ IsEntitled(c)

\* However registrations overlap, one of an e-mail succeeds: the check and the
\* INSERT are two queries (auth.service.js:62, 71).
RegisteredOnce ==
    \A c, d \in Calls :
        /\ Is(c, "REGISTER") /\ Is(d, "REGISTER") /\ Caller(c) = Caller(d)
        /\ answer[c] = 201 /\ answer[d] = 201
        => c = d

\* Whoever was told that the registration succeeded owns the account: only with
\* that password does a login succeed, also when somebody else's registration
\* ran beside it (auth.service.js:62-76, 99).
AccountIsKept ==
    \A c, d \in Calls :
        /\ Is(c, "REGISTER") /\ answer[c] = 201
        /\ Is(d, "LOGIN") /\ answer[d] = 200
        /\ Caller(c) = Caller(d)
        => call[c].password = call[d].password

IsAdmitted(c) == at[c] = "authenticate" /\ at'[c] \in {"find", "write"}

\* After a user's deletion has been confirmed, no request of that user gets past
\* authenticate, whatever other calls had read before and write afterwards
\* (user.service.js:81-88, auth.middleware.js:33-40).
DeletedIsShutOut ==
    [][\A c, d \in Calls :
          Is(d, "DELETE") /\ answer[d] = 200 /\ IsAdmitted(c)
          => Caller(c) # Caller(d)]_vars

\* A session that was ended, or replaced by another login, comes back by a login
\* only: no other call restores a refresh token that it had read
\* (user.repository.js:56, 68).
SessionsStartByLogin ==
    [][\A u \in Users :
          user'[u].refresh \in {user[u].refresh, NoToken}
          \/ \E c \in Calls : Is(c, "LOGIN") /\ Caller(c) = u /\ at[c] = "write"
                             /\ at'[c] = "done"]_vars

Atomic ==
    INSTANCE AtomicAccounts WITH
        user <- user, call <- call, answer <- answer,
        Requests <- Public \cup Protected

\* Every call takes effect at one instant, on the row as it is then, although
\* the services read, compare and write in separate queries without a
\* transaction (auth.service.js:59-142, user.service.js:17-88).
ImplementsAtomicAccounts == Atomic!Spec

\* What a test expects: a logout blocks the requests that follow, until the next
\* login (auth.test.js:116-131).
LoggedOutIsBlocked ==
    [][\A c, d \in Calls :
          /\ Is(d, "LOGOUT") /\ answer[d] = 200 /\ IsAdmitted(c)
          /\ Caller(c) = Caller(d)
          => user[Caller(c)].refresh # NoToken]_vars
=============================================================================
