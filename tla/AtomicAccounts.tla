---------------------------- MODULE AtomicAccounts ----------------------------
(***************************************************************************)
(* What the API promises to the users of an account: a call takes effect   *)
(* at one instant between its being sent and its being answered, on the    *)
(* row as it is at that instant, and there on its own column only.  What   *)
(* it had read before, and in how many queries, nobody can tell.           *)
(*                                                                         *)
(* A call that is refused has no effect.  One that is answered 500 may     *)
(* have had its effect: the reply of its last query may have been lost.    *)
(***************************************************************************)
CONSTANTS Users, Calls, Requests, Passwords, NoPassword, Tokens, NoToken

VARIABLES user, call, answer

vars == <<user, call, answer>>

Is(c, kind) == call[c].kind = kind
Caller(c) == user[call[c].user]
Subject(c) == IF Is(c, "ADMINISTER") THEN user[call[c].target] ELSE Caller(c)

Registered(passwords, statuses, roles) ==
    [exists : {TRUE}, password : passwords, refresh : {NoToken},
     status : statuses, role : roles]

NoUser == [exists |-> FALSE, password |-> NoPassword, refresh |-> NoToken,
           status |-> "ACTIVE", role |-> "CUSTOMER"]

Init ==
    /\ user \in [Users -> {NoUser} \cup
          Registered(Passwords, {"ACTIVE", "BLOCKED"}, {"ADMIN", "CUSTOMER"})]
    /\ call = [c \in Calls |-> [kind |-> "NONE"]]
    /\ answer = [c \in Calls |-> 0]

Send(c) ==
    /\ Is(c, "NONE")
    /\ \E q \in Requests : call' = [call EXCEPT ![c] = q]
    /\ UNCHANGED <<user, answer>>

Answer(c, code) ==
    /\ ~Is(c, "NONE")
    /\ answer[c] = 0
    /\ answer' = [answer EXCEPT ![c] = code]
    /\ UNCHANGED call

Succeed(c, code) == Answer(c, code) \/ Answer(c, 500)

Register(c) ==
    /\ Is(c, "REGISTER")
    /\ ~Caller(c).exists
    /\ \E r \in Registered({call[c].password}, {"ACTIVE"}, {"CUSTOMER"}) :
          user' = [user EXCEPT ![call[c].user] = r]
    /\ Succeed(c, 201)

Login(c) ==
    /\ Is(c, "LOGIN")
    /\ Caller(c).exists
    /\ Caller(c).password = call[c].password
    /\ \E t \in Tokens :
          /\ t.user = call[c].user
          /\ user' = [user EXCEPT ![call[c].user].refresh = t]
    /\ Succeed(c, 200)

Refresh(c) ==
    /\ Is(c, "REFRESH")
    /\ \E u \in Users : user[u].refresh = call[c].token
    /\ Succeed(c, 200)
    /\ UNCHANGED user

Logout(c) ==
    /\ Is(c, "LOGOUT")
    /\ Caller(c).exists
    /\ user' = [user EXCEPT ![call[c].user].refresh = NoToken]
    /\ Succeed(c, 200)

Delete(c) ==
    /\ Is(c, "DELETE")
    /\ Caller(c).exists
    /\ user' = [user EXCEPT ![call[c].user].status = "INACTIVE"]
    /\ Succeed(c, 200)

\* A look at one's own profile, and what an administrator does to a user.
Look(c) ==
    /\ Is(c, "PROFILE") \/ Is(c, "ADMINISTER")
    /\ Caller(c).exists /\ Subject(c).exists
    /\ Is(c, "ADMINISTER") => Caller(c).role = "ADMIN"
    /\ Succeed(c, 200)
    /\ UNCHANGED user

\* The reason that is given holds when it is given.
Refuse(c) ==
    /\ \/ Answer(c, 401)
       \/ /\ Answer(c, 403)
          /\ Caller(c).exists
          /\ \/ Caller(c).status # "ACTIVE"
             \/ Is(c, "ADMINISTER") /\ Caller(c).role # "ADMIN"
       \/ Answer(c, 404) /\ ~Subject(c).exists
       \/ Answer(c, 409) /\ Is(c, "REGISTER") /\ Caller(c).exists
       \/ Answer(c, 500)
    /\ UNCHANGED user

Next ==
    \E c \in Calls :
        \/ Send(c) \/ Refuse(c)
        \/ Register(c) \/ Login(c) \/ Refresh(c)
        \/ Logout(c) \/ Delete(c) \/ Look(c)

Spec == Init /\ [][Next]_vars
=============================================================================
