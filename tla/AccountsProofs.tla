---------------------------- MODULE AccountsProofs ----------------------------
(***************************************************************************)
(* Theorems about Accounts: registrations do not take accounts over, and   *)
(* deletions and the end of sessions are not undone, for any users and any *)
(* number of requests.                                                     *)
(***************************************************************************)
EXTENDS Accounts, TLAPS

\* Answering a call keeps the types of what it clears.
LEMMA AnswerType ==
    ASSUME TypeOK, NEW c \in Calls,
           NEW code \in Codes, Answer(c, code)
    PROVE  /\ at' \in [Calls -> Labels]
           /\ at'[c] = "done"
           /\ \A d \in Calls \ {c} : at'[d] = at[d]
           /\ seen' \in [Calls -> UserType]
           /\ token' \in [Calls -> Tokens \cup {NoToken}]
           /\ answer' \in [Calls -> Codes]
<1>1. NoUser \in UserType
  BY DEF NoUser, UserType, Status, Role
<1> QED  BY <1>1 DEF TypeOK, Answer, Labels

\* So does going on with it.
LEMMA GotoType ==
    ASSUME TypeOK, NEW c \in Calls,
           NEW label \in Labels,
           Goto(c, label)
    PROVE  /\ at' \in [Calls -> Labels]
           /\ at'[c] = label
           /\ \A d \in Calls \ {c} : at'[d] = at[d]
           /\ answer' \in [Calls -> Codes]
BY DEF TypeOK, Goto

\* What a call asks for names a user.
LEMMA CallType ==
    ASSUME TypeOK, NEW c \in Calls
    PROVE  /\ Is(c, "REGISTER") \/ Is(c, "LOGIN") => call[c] \in Credentials
           /\ Is(c, "LOGOUT") \/ Is(c, "DELETE") => call[c] \in Own
           /\ Is(c, "ADMINISTER") => call[c] \in Administrative
BY DEF TypeOK, Is, Public, Protected, Credentials, Refreshes, Own, Patches,
       Administrative, NoCall

\* A row that an update leaves is a row.
LEMMA RowType ==
    ASSUME NEW r \in UserType
    PROVE  /\ [r EXCEPT !.refresh = NoToken] \in UserType
           /\ [r EXCEPT !.status = "INACTIVE"] \in UserType
           /\ \A t \in Tokens : [r EXCEPT !.refresh = t] \in UserType
BY DEF UserType, Status, Suspended

LEMMA NewUserType ==
    ASSUME TypeOK, NEW c \in Calls, Is(c, "REGISTER")
    PROVE  NewUser(c) \in UserType /\ Caller(c) \in Users
<1>1. call[c] \in Credentials
  BY CallType
<1> QED  BY <1>1 DEF NewUser, NoUser, UserType, Status, Role, Credentials, Caller

\* The initial state has the types.
LEMMA InitType == Init => TypeOK
<1> SUFFICES ASSUME Init PROVE TypeOK
  OBVIOUS
<1>1. NoUser \in UserType
  BY DEF NoUser, UserType, Status, Role
<1>2. [exists : {TRUE}, password : Passwords, refresh : {NoToken},
        status : {"ACTIVE", "BLOCKED"}, role : Role] \subseteq UserType
  BY DEF UserType, Status, Suspended
<1>3. user \in [Users -> UserType]
  <2> DEFINE Rows == {NoUser} \cup [exists : {TRUE}, password : Passwords,
                 refresh : {NoToken}, status : {"ACTIVE", "BLOCKED"}, role : Role]
  <2>1. user \in [Users -> Rows]
    BY DEF Init
  <2>2. Rows \subseteq UserType
    BY <1>1, <1>2
  <2> HIDE DEF Rows
  <2> QED  BY <2>1, <2>2
<1>4. now \in 0 .. LastSecond
  BY AccountsAssumption DEF Init
<1>5. issued \subseteq Users /\ handed \subseteq Tokens
  BY DEF Init
<1>6. /\ call \in [Calls -> Public \cup Protected \cup {NoCall}]
      /\ at \in [Calls -> Labels]
      /\ seen \in [Calls -> UserType]
      /\ token \in [Calls -> Tokens \cup {NoToken}]
      /\ answer \in [Calls -> Codes]
  BY <1>1 DEF Init, Labels, Codes
<1>7. \A c \in Calls : FitsLabel(c)
  BY DEF Init, FitsLabel
<1> QED  BY <1>3, <1>4, <1>5, <1>6, <1>7 DEF TypeOK

\* An answer keeps the types if what is written has them.
LEMMA AnswerKeepsTypes ==
    ASSUME TypeOK, NEW c \in Calls, NEW code \in Codes, Answer(c, code),
           UNCHANGED <<now, call>>,
           user' \in [Users -> UserType],
           issued' \subseteq Users, handed' \subseteq Tokens
    PROVE  TypeOK'
<1>1. \A d \in Calls \ {c} : token'[d] = token[d]
  BY DEF Answer, TypeOK
<1>2. ASSUME NEW d \in Calls PROVE FitsLabel(d)'
  BY <1>1, AnswerType DEF TypeOK, FitsLabel, Is, Caller
<1> QED  BY <1>2, AnswerType DEF TypeOK

\* So does going on with what is read and signed.
LEMMA GotoKeepsTypes ==
    ASSUME TypeOK, NEW c \in Calls, NEW label \in Labels, Goto(c, label),
           label \in {"authenticate", "find"} => call'[c] \in Protected,
           label = "write" /\ call'[c].kind = "LOGIN" =>
              token'[c] \in Tokens /\ token'[c].user = call'[c].user,
           \A d \in Calls \ {c} : call'[d] = call[d] /\ token'[d] = token[d],
           call' \in [Calls -> Public \cup Protected \cup {NoCall}],
           seen' \in [Calls -> UserType],
           token' \in [Calls -> Tokens \cup {NoToken}],
           UNCHANGED <<user, now, clientVars>>
    PROVE  TypeOK'
<1>1. ASSUME NEW d \in Calls PROVE FitsLabel(d)'
  BY GotoType DEF TypeOK, FitsLabel, Is, Caller
<1> QED  BY <1>1, GotoType DEF TypeOK, clientVars

\* Every step of the handling of a call keeps the types.
LEMMA ProgressType ==
    ASSUME TypeOK, NEW c \in Calls, Progress(c)
    PROVE  TypeOK'
<1> USE DEF clientVars, Keep
<1>1. CASE CheckEmail(c)
  <2>1. CASE user[Caller(c)].exists
    BY <1>1, <2>1, AnswerKeepsTypes DEF CheckEmail, Codes, TypeOK
  <2>2. CASE ~user[Caller(c)].exists
    <3>1. Goto(c, "write") /\ call'[c].kind # "LOGIN"
      BY <1>1, <2>2 DEF CheckEmail, Is
    <3> QED  BY <1>1, <2>2, <3>1, GotoKeepsTypes DEF CheckEmail, Labels, TypeOK
  <2> QED  BY <2>1, <2>2
<1>2. CASE InsertUser(c)
  <2>1. user' \in [Users -> UserType]
    BY <1>2, NewUserType DEF InsertUser, TypeOK
  <2>2. PICK code \in Codes : Answer(c, code)
    BY <1>2 DEF InsertUser, AnswerWrite, Codes
  <2> QED  BY <1>2, <2>1, <2>2, AnswerKeepsTypes DEF InsertUser, TypeOK
<1>3. CASE EmailConflict(c)
  BY <1>3, AnswerKeepsTypes DEF EmailConflict, Codes, TypeOK
<1>4. CASE ReadCredentials(c)
  <2>1. Caller(c) \in Users
    BY <1>4, CallType DEF ReadCredentials, Credentials, Caller
  <2>2. CASE user[Caller(c)].exists
    BY <1>4, <2>1, <2>2, GotoKeepsTypes DEF ReadCredentials, Labels, TypeOK
  <2>3. CASE ~user[Caller(c)].exists
    BY <1>4, <2>3, AnswerKeepsTypes DEF ReadCredentials, Codes, TypeOK
  <2> QED  BY <2>2, <2>3
<1>5. CASE Sign(c)
  <2>1. CASE seen[c].password = call[c].password
    <3>1. [user |-> Caller(c), second |-> now] \in Tokens
      BY <1>5, CallType DEF Sign, Credentials, Caller, Tokens, TypeOK
    <3>2. /\ token' \in [Calls -> Tokens \cup {NoToken}]
          /\ token'[c] \in Tokens /\ token'[c].user = call'[c].user
          /\ \A d \in Calls \ {c} : token'[d] = token[d]
      BY <1>5, <2>1, <3>1 DEF Sign, Caller, TypeOK
    <3> QED  BY <1>5, <2>1, <3>2, GotoKeepsTypes DEF Sign, Labels, TypeOK
  <2>2. CASE seen[c].password # call[c].password
    BY <1>5, <2>2, AnswerKeepsTypes DEF Sign, Codes, TypeOK
  <2> QED  BY <2>1, <2>2
<1>6. CASE StoreToken(c)
  <2>1. Caller(c) \in Users /\ token[c] \in Tokens
    BY <1>6, CallType DEF StoreToken, Credentials, Caller, TypeOK, FitsLabel
  <2>2. user' \in [Users -> UserType]
    <3>1. [user[Caller(c)] EXCEPT !.refresh = token[c]] \in UserType
      BY <2>1, RowType DEF TypeOK
    <3> QED  BY <1>6, <2>1, <3>1 DEF StoreToken, TypeOK
  <2>3. PICK code \in Codes : Answer(c, code)
    BY <1>6 DEF StoreToken, Codes
  <2>4. issued' \subseteq Users /\ handed' \subseteq Tokens
    BY <1>6, <2>1 DEF StoreToken, TypeOK
  <2> QED  BY <1>6, <2>2, <2>3, <2>4, AnswerKeepsTypes DEF StoreToken
<1>7. CASE Refresh(c)
  <2>1. PICK code \in Codes : Answer(c, code)
    BY <1>7 DEF Refresh, Codes
  <2>2. issued' \subseteq Users
    BY <1>7 DEF Refresh, TypeOK
  <2> QED  BY <1>7, <2>1, <2>2, AnswerKeepsTypes DEF Refresh, TypeOK
<1>8. CASE TokenExpired(c)
  <2>1. PICK code \in Codes : Answer(c, code)
    BY <1>8 DEF TokenExpired, Codes
  <2> QED  BY <1>8, <2>1, AnswerKeepsTypes DEF TokenExpired, TypeOK
<1>9. CASE Admit(c)
  <2>1. call[c] \in Protected
    BY <1>9 DEF Admit, TypeOK, FitsLabel
  <2>2. CASE Is(c, "LOGOUT")
    BY <1>9, <2>2, GotoKeepsTypes DEF Admit, Labels, Is, TypeOK
  <2>3. CASE ~Is(c, "LOGOUT")
    BY <1>9, <2>1, <2>3, GotoKeepsTypes DEF Admit, Labels, TypeOK
  <2> QED  BY <2>2, <2>3
<1>10. CASE RejectBody(c)
  BY <1>10, AnswerKeepsTypes DEF RejectBody, Codes, TypeOK
<1>11. CASE Deny(c)
  <2>1. PICK code \in Codes : Answer(c, code)
    BY <1>11 DEF Deny, Codes
  <2> QED  BY <1>11, <2>1, AnswerKeepsTypes DEF Deny, TypeOK
<1>12. CASE Find(c)
  <2>1. call[c] \in Protected
    BY <1>12 DEF Find, TypeOK, FitsLabel
  <2>2. Subject(c) \in Users
    BY <2>1 DEF Subject, IsAdministrative, Is, Protected, Own, Patches, Administrative
  <2>3. CASE \E code \in Codes : Answer(c, code)
    BY <1>12, <2>3, AnswerKeepsTypes DEF Find, TypeOK
  <2>4. CASE /\ seen' = [seen EXCEPT ![c] = user[Subject(c)]]
             /\ Goto(c, "write")
             /\ UNCHANGED token
    <3>1. seen' \in [Calls -> UserType]
      BY <2>2, <2>4 DEF TypeOK
    <3>2. call'[c].kind # "LOGIN"
      BY <1>12, <2>1 DEF Find, Protected, Own, Patches, Administrative
    <3> QED  BY <1>12, <2>4, <3>1, <3>2, GotoKeepsTypes DEF Find, Labels, TypeOK
  <2> QED  BY <1>12, <2>3, <2>4 DEF Find, Codes
<1>13. ASSUME NEW r \in UserType, Update(c, r) PROVE TypeOK'
  <2>1. user' \in [Users -> UserType]
    BY <1>13 DEF Update, TypeOK
  <2>2. PICK code \in Codes : Answer(c, code)
    BY <1>13 DEF Update, AnswerWrite, Codes
  <2> QED  BY <1>13, <2>1, <2>2, AnswerKeepsTypes DEF Update, TypeOK
<1>14. CASE Logout(c)
  <2>1. Row(c) \in UserType
    BY <1>14, CallType DEF Logout, Row, Subject, IsAdministrative, Is, Own, TypeOK
  <2> QED  BY <1>13, <1>14, <2>1, RowType DEF Logout
<1>15. CASE SoftDelete(c)
  <2>1. Row(c) \in UserType
    BY <1>15, CallType DEF SoftDelete, Row, Subject, IsAdministrative, Is, Own, TypeOK
  <2> QED  BY <1>13, <1>15, <2>1, RowType DEF SoftDelete
<1>16. CASE Administer(c)
  <2>1. Row(c) \in UserType
    BY <1>16, CallType DEF Administer, Row, Subject, IsAdministrative, Administrative, TypeOK
  <2> QED  BY <1>13, <1>16, <2>1 DEF Administer
<1> QED
  BY <1>1, <1>2, <1>3, <1>4, <1>5, <1>6, <1>7, <1>8, <1>9, <1>10, <1>11, <1>12,
     <1>14, <1>15, <1>16 DEF Progress

\* Every step keeps the types.
LEMMA TypeStep == TypeOK /\ [Next]_vars => TypeOK'
<1> SUFFICES ASSUME TypeOK, [Next]_vars PROVE TypeOK'
  OBVIOUS
<1>1. ASSUME NEW c \in Calls, NEW q \in Public \cup Protected, Send(c, q)
      PROVE  TypeOK'
  <2>1. /\ call' \in [Calls -> Public \cup Protected \cup {NoCall}]
        /\ call'[c] = q
        /\ \A d \in Calls \ {c} : call'[d] = call[d]
    BY <1>1 DEF Send, TypeOK
  <2>2. CASE q \in Public
    BY <1>1, <2>1, <2>2, GotoKeepsTypes DEF Send, Keep, clientVars, Labels, TypeOK
  <2>3. CASE q \notin Public
    BY <1>1, <2>1, <2>3, GotoKeepsTypes DEF Send, Keep, clientVars, Labels, TypeOK
  <2> QED  BY <2>2, <2>3
<1>2. ASSUME NEW c \in Calls, Break(c) PROVE TypeOK'
  BY <1>2, AnswerKeepsTypes DEF Break, clientVars, Codes, TypeOK
<1>3. CASE Tick
  BY <1>3, AccountsAssumption DEF Tick, clientVars, callVars, TypeOK, FitsLabel, Is, Caller
<1>4. CASE UNCHANGED vars
  BY <1>4 DEF vars, clientVars, callVars, TypeOK, FitsLabel, Is, Caller
<1> QED
  BY <1>1, <1>2, <1>3, <1>4, ProgressType DEF Next, Quiescent

\* Every variable has its type, in every behaviour.
THEOREM TypeCorrect == Spec => []TypeOK
<1> QED  BY InitType, TypeStep, PTL DEF Spec
-----------------------------------------------------------------------------
(* The invariant.                                                          *)

\* A row that is there keeps its password and role, and stays INACTIVE if it is.
LEMMA RowsGrow ==
    ASSUME TypeOK, NEW c \in Calls, Progress(c),
           NEW u \in Users, user[u].exists
    PROVE  /\ user'[u].exists
           /\ user'[u].password = user[u].password
           /\ user'[u].role = user[u].role
           /\ user[u].status = "INACTIVE" => user'[u].status = "INACTIVE"
<1>1. user[u] \in UserType
  BY DEF TypeOK
<1>2. CASE InsertUser(c)
  BY <1>2 DEF InsertUser, TypeOK
<1>3. CASE StoreToken(c)
  BY <1>1, <1>3 DEF StoreToken, TypeOK, UserType
<1>4. CASE Logout(c)
  BY <1>1, <1>4 DEF Logout, Update, Row, TypeOK, UserType
<1>5. CASE SoftDelete(c)
  BY <1>1, <1>5 DEF SoftDelete, Update, Row, TypeOK, UserType
<1>6. CASE Administer(c)
  BY <1>1, <1>6 DEF Administer, Update, Row, TypeOK, UserType
<1>7. CASE UNCHANGED user
  BY <1>7
<1> QED
  BY <1>2, <1>3, <1>4, <1>5, <1>6, <1>7
  DEF Progress, CheckEmail, EmailConflict, ReadCredentials, Sign, Refresh,
      TokenExpired, Admit, Deny, RejectBody, Find

\* A step of one call leaves the other calls where they are.
LEMMA OthersWait ==
    ASSUME TypeOK, NEW c \in Calls, Progress(c), NEW d \in Calls \ {c}
    PROVE  /\ at'[d] = at[d] /\ answer'[d] = answer[d]
           /\ call'[d] = call[d] /\ seen'[d] = seen[d]
BY DEF TypeOK, Progress, CheckEmail, InsertUser, EmailConflict, ReadCredentials,
       Sign, StoreToken, Refresh, TokenExpired, Admit, Deny, RejectBody, Find,
       Logout, SoftDelete, Administer, Update, AnswerWrite, Answer, Goto, Keep

\* What a waiting call relies on, the rows still say.
LEMMA WaitingIsTruthful ==
    ASSUME TypeOK, NEW d \in Calls, IsTruthful(d),
           at'[d] = at[d], answer'[d] = answer[d],
           call'[d] = call[d], seen'[d] = seen[d],
           \A u \in Users : user[u].exists =>
              /\ user'[u].exists
              /\ user'[u].password = user[u].password
              /\ user[u].status = "INACTIVE" => user'[u].status = "INACTIVE"
    PROVE  IsTruthful(d)'
<1>1. Is(d, "REGISTER") \/ Is(d, "LOGIN") \/ Is(d, "DELETE") => Caller(d) \in Users
  BY CallType DEF Credentials, Own, Caller
<1>2. /\ Is(d, "REGISTER")' = Is(d, "REGISTER") /\ Is(d, "LOGIN")' = Is(d, "LOGIN")
      /\ Is(d, "DELETE")' = Is(d, "DELETE") /\ Caller(d)' = Caller(d)
  BY DEF Is, Caller
<1>3. HasAccount(d) /\ Caller(d) \in Users => HasAccount(d)'
  BY <1>2 DEF HasAccount
<1> QED  BY <1>1, <1>2, <1>3 DEF IsTruthful

\* So do they of who was let in.
LEMMA WaitingIsEntitled ==
    ASSUME TypeOK, NEW d \in Calls, IsEntitled(d),
           at'[d] = at[d], call'[d] = call[d],
           \A u \in Users : user[u].exists =>
              user'[u].exists /\ user'[u].role = user[u].role
    PROVE  IsEntitled(d)'
<1>1. call[d] \in Protected => Caller(d) \in Users /\ Subject(d) \in Users
  BY DEF Protected, Own, Patches, Administrative, Caller, Subject,
         IsAdministrative, Is
<1>2. /\ Is(d, "NONE")' = Is(d, "NONE")
      /\ IsAdministrative(d)' = IsAdministrative(d)
      /\ Caller(d)' = Caller(d) /\ Subject(d)' = Subject(d)
  BY DEF Is, IsAdministrative, Caller, Subject
<1> QED  BY <1>1, <1>2 DEF IsEntitled

\* Only who passes authenticate is let in, and only a row that is there found.
LEMMA StepIsEntitled ==
    ASSUME TypeOK, NEW c \in Calls, IsEntitled(c), Progress(c)
    PROVE  IsEntitled(c)'
<1> USE DEF Keep
<1>1. /\ Is(c, "NONE")' = Is(c, "NONE")
      /\ IsAdministrative(c)' = IsAdministrative(c)
      /\ Caller(c)' = Caller(c) /\ Subject(c)' = Subject(c)
      /\ call'[c] = call[c]
      /\ at[c] # "idle"
  BY DEF Is, IsAdministrative, Caller, Subject, Progress, CheckEmail, InsertUser,
       EmailConflict, ReadCredentials, Sign, StoreToken, Refresh, TokenExpired, Admit,
       Deny, RejectBody, Find, Logout, SoftDelete, Administer, Update
<1>2. ASSUME NEW code \in Codes, Answer(c, code) PROVE IsEntitled(c)'
  BY <1>1, <1>2 DEF IsEntitled, Answer, TypeOK
<1>3. ASSUME NEW label \in {"sign", "write"}, Goto(c, label),
             Is(c, "REGISTER") \/ Is(c, "LOGIN")
      PROVE  IsEntitled(c)'
  <2>1. call[c] \notin Protected
    BY <1>3 DEF Protected, Own, Patches, Administrative, Is
  <2> QED  BY <1>1, <1>3, <2>1 DEF IsEntitled, Goto, TypeOK
<1>4. CASE Admit(c)
  <2>1. at'[c] \in {"find", "write"} /\ UNCHANGED user
    BY <1>4 DEF Admit, Goto, TypeOK
  <2>2. at'[c] = "write" => Subject(c) = Caller(c)
    BY <1>4 DEF Admit, Goto, TypeOK, Is, Subject, Caller, IsAdministrative
  <2> QED  BY <1>1, <1>4, <2>1, <2>2 DEF Admit, MayPass, IsEntitled
<1>5. CASE Find(c)
  <2>1. CASE Answer(c, 404) \/ Answer(c, 200) \/ Answer(c, 500)
    BY <1>2, <2>1 DEF Codes
  <2>2. CASE user[Subject(c)].exists /\ Goto(c, "write")
    BY <1>1, <1>5, <2>2 DEF Find, Goto, IsEntitled, TypeOK
  <2> QED  BY <1>5, <2>1, <2>2 DEF Find
<1>6. CheckEmail(c) \/ ReadCredentials(c) \/ Sign(c) => IsEntitled(c)'
  BY <1>2, <1>3 DEF CheckEmail, ReadCredentials, Sign, Codes
<1> QED
  BY <1>2, <1>4, <1>5, <1>6
  DEF Progress, InsertUser, EmailConflict, StoreToken, Refresh, TokenExpired, Deny,
      RejectBody, Logout, SoftDelete, Administer, Update, AnswerWrite, Codes

\* Whatever a call does by itself leaves what it is told true.
LEMMA StepIsTruthful ==
    ASSUME TypeOK, NEW c \in Calls, IsTruthful(c), IsEntitled(c), Progress(c)
    PROVE  IsTruthful(c)'
<1>1. /\ Is(c, "REGISTER")' = Is(c, "REGISTER") /\ Is(c, "LOGIN")' = Is(c, "LOGIN")
      /\ Is(c, "DELETE")' = Is(c, "DELETE") /\ Caller(c)' = Caller(c)
      /\ call'[c] = call[c]
  BY DEF Is, Caller, Progress, CheckEmail, InsertUser, EmailConflict, ReadCredentials,
       Sign, StoreToken, Refresh, TokenExpired, Admit, Deny, RejectBody, Find,
       Logout, SoftDelete, Administer, Update
<1>2. ASSUME NEW code \in {401, 403, 404, 409, 500}, Answer(c, code)
      PROVE  IsTruthful(c)'
  BY <1>1, <1>2 DEF IsTruthful, Answer, TypeOK
<1>3. ASSUME NEW code \in {200, 201}, Answer(c, code), ~Is(c, "REGISTER"),
             ~Is(c, "LOGIN"), ~Is(c, "DELETE")
      PROVE  IsTruthful(c)'
  BY <1>1, <1>3 DEF IsTruthful, Answer, TypeOK
<1>4. CASE CheckEmail(c)
  <2>1. CASE user[Caller(c)].exists
    BY <1>2, <1>4, <2>1 DEF CheckEmail
  <2>2. CASE ~user[Caller(c)].exists
    BY <1>1, <1>4, <2>2 DEF CheckEmail, Goto, Keep, IsTruthful, Is, TypeOK
  <2> QED  BY <2>1, <2>2
<1>5. CASE InsertUser(c)
  <2>1. CASE Answer(c, 201)
    <3>1. HasAccount(c)'
      BY <1>1, <1>5, CallType DEF InsertUser, HasAccount, NewUser, NoUser, Credentials, Caller, TypeOK
    <3> QED  BY <1>1, <1>5, <2>1, <3>1 DEF InsertUser, Answer, IsTruthful, Is, TypeOK
  <2>2. CASE Answer(c, 500)
    BY <1>2, <2>2
  <2> QED  BY <1>5, <2>1, <2>2 DEF InsertUser, AnswerWrite
<1>6. CASE EmailConflict(c)
  BY <1>2, <1>6 DEF EmailConflict
<1>7. CASE ReadCredentials(c)
  <2>1. CASE user[Caller(c)].exists
    BY <1>1, <1>7, <2>1 DEF ReadCredentials, Goto, IsTruthful, Is, TypeOK
  <2>2. CASE ~user[Caller(c)].exists
    BY <1>2, <1>7, <2>2 DEF ReadCredentials
  <2> QED  BY <2>1, <2>2
<1>8. CASE Sign(c)
  <2>1. CASE seen[c].password = call[c].password
    BY <1>1, <1>8, <2>1 DEF Sign, Goto, IsTruthful, Is, TypeOK
  <2>2. CASE seen[c].password # call[c].password
    BY <1>2, <1>8, <2>2 DEF Sign
  <2> QED  BY <2>1, <2>2
<1>9. CASE StoreToken(c)
  <2>1. CASE Answer(c, 200)
    <3>1. HasAccount(c)
      BY <1>9 DEF StoreToken, IsTruthful, HasAccount
    <3>2. Caller(c) \in Users
      BY <1>9, CallType DEF StoreToken, Credentials, Caller
    <3>3. HasAccount(c)'
      BY <1>1, <3>1, <3>2, RowsGrow DEF HasAccount
    <3> QED  BY <1>1, <1>9, <2>1, <3>3 DEF StoreToken, Answer, IsTruthful, Is, TypeOK
  <2>2. CASE Answer(c, 500)
    BY <1>2, <2>2
  <2> QED  BY <1>9, <2>1, <2>2 DEF StoreToken
<1>10. CASE Refresh(c)
  BY <1>2, <1>3, <1>10 DEF Refresh, Is
<1>11. CASE TokenExpired(c)
  BY <1>2, <1>11 DEF TokenExpired
<1>12. CASE Admit(c)
  BY <1>1, <1>12 DEF Admit, Goto, Keep, IsTruthful, Is, TypeOK
<1>13. CASE RejectBody(c)
  BY <1>2, <1>13 DEF RejectBody
<1>14. CASE Deny(c)
  BY <1>2, <1>14 DEF Deny
<1>15. CASE Find(c)
  <2>1. CASE Answer(c, 404) \/ Answer(c, 500)
    BY <1>2, <2>1
  <2>2. CASE Is(c, "PROFILE") /\ Answer(c, 200)
    BY <1>3, <2>2 DEF Is
  <2>3. CASE user[Subject(c)].exists /\ Goto(c, "write")
    <3>1. call[c] \in Protected
      BY <1>15 DEF Find, TypeOK, FitsLabel
    <3>2. ~Is(c, "LOGIN") /\ ~Is(c, "REGISTER")
      BY <3>1 DEF Protected, Own, Patches, Administrative, Is
    <3>3. Is(c, "DELETE") => Subject(c) = Caller(c)
      BY DEF Is, IsAdministrative, Subject, Caller
    <3> QED  BY <1>1, <1>15, <2>3, <3>2, <3>3 DEF Find, Goto, IsTruthful, TypeOK
  <2> QED  BY <1>15, <2>1, <2>2, <2>3 DEF Find
<1>16. CASE Logout(c)
  <2>1. CASE Answer(c, 200)
    BY <1>3, <1>16, <2>1 DEF Logout, Is
  <2> QED  BY <1>2, <1>16, <2>1 DEF Logout, Update, AnswerWrite
<1>17. CASE SoftDelete(c)
  <2>1. CASE Answer(c, 200)
    <3>1. Caller(c) \in Users /\ Subject(c) = Caller(c)
      BY <1>17, CallType DEF SoftDelete, Own, Caller, Subject, IsAdministrative, Is
    <3>2. user[Caller(c)].exists
      BY <1>17, <3>1, CallType DEF SoftDelete, Update, IsEntitled, Protected
    <3>3. user'[Caller(c)].exists /\ user'[Caller(c)].status = "INACTIVE"
      BY <1>17, <3>1, <3>2 DEF SoftDelete, Update, Row, TypeOK, UserType
    <3> QED  BY <1>1, <1>17, <2>1, <3>3 DEF SoftDelete, Answer, IsTruthful, Is, TypeOK
  <2> QED  BY <1>2, <1>17, <2>1 DEF SoftDelete, Update, AnswerWrite
<1>18. CASE Administer(c)
  <2>1. CASE Answer(c, 200)
    BY <1>3, <1>18, <2>1 DEF Administer, IsAdministrative, Is
  <2> QED  BY <1>2, <1>18, <2>1 DEF Administer, Update, AnswerWrite
<1> QED
  BY <1>4, <1>5, <1>6, <1>7, <1>8, <1>9, <1>10, <1>11, <1>12, <1>13, <1>14,
     <1>15, <1>16, <1>17, <1>18 DEF Progress

\* Every step keeps the invariant.
LEMMA InvStep == AccountInv /\ [Next]_vars => AccountInv'
<1> SUFFICES ASSUME AccountInv, [Next]_vars PROVE AccountInv'
  OBVIOUS
<1>0. TypeOK /\ TypeOK'
  BY TypeStep DEF AccountInv
<1> DEFINE Fine(d) == IsTruthful(d)' /\ IsEntitled(d)'
<1>1. ASSUME NEW c \in Calls, NEW q \in Public \cup Protected, Send(c, q)
      PROVE  \A d \in Calls : Fine(d)
  <2>1. IsTruthful(c)'
    BY <1>0, <1>1 DEF Send, Goto, Keep, IsTruthful, AccountInv, TypeOK
  <2>2. IsEntitled(c)'
    <3>1. at'[c] \in {"read", "authenticate"} /\ call'[c] = q
      BY <1>0, <1>1 DEF Send, Goto, TypeOK
    <3>2. q.kind # "NONE"
      BY DEF Public, Protected, Credentials, Refreshes, Own, Patches, Administrative
    <3> QED  BY <3>1, <3>2 DEF IsEntitled, Is
  <2>3. ASSUME NEW d \in Calls \ {c} PROVE Fine(d)
    BY <1>0, <1>1, WaitingIsTruthful, WaitingIsEntitled DEF Send, Goto, Keep, AccountInv, TypeOK
  <2> QED  BY <2>1, <2>2, <2>3
<1>2. ASSUME NEW c \in Calls, Progress(c)
      PROVE  \A d \in Calls : Fine(d)
  <2>1. Fine(c)
    BY <1>0, <1>2, StepIsTruthful, StepIsEntitled DEF AccountInv
  <2>2. ASSUME NEW d \in Calls \ {c} PROVE Fine(d)
    <3>1. IsTruthful(d) /\ IsEntitled(d)
      BY DEF AccountInv
    <3> QED  BY <1>0, <1>2, <3>1, RowsGrow, OthersWait, WaitingIsTruthful, WaitingIsEntitled
  <2> QED  BY <2>1, <2>2
<1>3. ASSUME NEW c \in Calls, Break(c)
      PROVE  \A d \in Calls : Fine(d)
  <2>1. IsTruthful(c)'
    BY <1>0, <1>3 DEF Break, Answer, IsTruthful, TypeOK
  <2>2. IsEntitled(c)'
    BY <1>0, <1>3 DEF Break, Answer, IsEntitled, Is, AccountInv, TypeOK
  <2>3. ASSUME NEW d \in Calls \ {c} PROVE Fine(d)
    BY <1>0, <1>3, WaitingIsTruthful, WaitingIsEntitled DEF Break, Answer, AccountInv, TypeOK
  <2> QED  BY <2>1, <2>2, <2>3
<1>4. CASE Tick \/ UNCHANGED vars
  <2>1. UNCHANGED <<user, call, at, seen, answer>>
    BY <1>4 DEF Tick, vars, clientVars, callVars
  <2> QED
    BY <1>0, <2>1 DEF AccountInv, IsTruthful, IsEntitled, HasAccount, Is,
         IsAdministrative, Caller, Subject
<1> QED
  BY <1>0, <1>1, <1>2, <1>3, <1>4 DEF AccountInv, Next, Quiescent

\* What calls have been told, or are about to be told, stays true.
THEOREM InvariantHolds == Spec => []AccountInv
<1>1. Init => AccountInv
  <2> SUFFICES ASSUME Init, NEW c \in Calls
               PROVE  IsTruthful(c) /\ IsEntitled(c)
    BY InitType DEF AccountInv
  <2>1. call[c].kind = "NONE" /\ at[c] = "idle" /\ answer[c] = 0
    BY DEF Init, NoCall
  <2> QED  BY <2>1 DEF IsTruthful, IsEntitled, Is
<1> QED  BY <1>1, InvStep, PTL DEF Spec

\* A login succeeds only with the password of the registration that succeeded.
THEOREM AccountsAreKept == Spec => []AccountIsKept
<1>1. AccountInv => AccountIsKept
  BY DEF AccountInv, IsTruthful, HasAccount, AccountIsKept
<1> QED  BY <1>1, InvariantHolds, PTL

\* A registration is told that it succeeded when its user was not there before.
LEMMA SuccessIsNew ==
    ASSUME AccountInv, [Next]_vars, NEW c \in Calls,
           Is(c, "REGISTER")', answer'[c] = 201
    PROVE  \/ Is(c, "REGISTER") /\ answer[c] = 201 /\ UNCHANGED call[c]
           \/ InsertUser(c)
<1> USE DEF AccountInv, TypeOK
<1>1. ASSUME NEW d \in Calls, NEW q \in Public \cup Protected, Send(d, q)
      PROVE  answer[c] = 201 /\ Is(c, "REGISTER") /\ UNCHANGED call[c]
  BY <1>1 DEF Send, Goto, IsTruthful, Is
<1>2. ASSUME NEW d \in Calls \ {c}, Progress(d) \/ Break(d)
      PROVE  answer[c] = 201 /\ Is(c, "REGISTER") /\ UNCHANGED call[c]
  BY <1>2, OthersWait DEF Break, Answer, Is
<1>3. ASSUME Break(c) PROVE FALSE
  BY <1>3 DEF Break, Answer
<1>4. ASSUME Progress(c) PROVE InsertUser(c)
  <2>1. Is(c, "REGISTER")
    BY <1>4 DEF Is, Progress, CheckEmail, InsertUser, EmailConflict, ReadCredentials,
         Sign, StoreToken, Refresh, TokenExpired, Admit, Deny, RejectBody, Find,
         Logout, SoftDelete, Administer, Update
  <2>2. ~Find(c)
    BY <2>1 DEF Find, Is, FitsLabel, Protected, Own, Patches, Administrative
  <2>3. Admit(c) => FALSE
    BY <2>1 DEF Admit, Is, FitsLabel, Protected, Own, Patches, Administrative
  <2>4. CheckEmail(c) => FALSE
    BY DEF CheckEmail, Answer, Goto, IsTruthful
  <2> QED
    BY <1>4, <2>1, <2>2, <2>3, <2>4
    DEF Is, Progress, EmailConflict, ReadCredentials, Sign, StoreToken, Refresh,
        TokenExpired, Deny, RejectBody, Logout, SoftDelete, Administer,
        IsAdministrative, Answer
<1>5. CASE Tick \/ UNCHANGED vars
  BY <1>5 DEF Tick, vars, callVars, Is
<1> QED
  BY <1>1, <1>2, <1>3, <1>4, <1>5 DEF Next, Quiescent

\* Of the registrations of one e-mail that overlap, one succeeds.
THEOREM RegistersOnce == Spec => []RegisteredOnce
<1>1. Init => RegisteredOnce
  BY DEF Init, RegisteredOnce
<1>2. AccountInv /\ RegisteredOnce /\ [Next]_vars => RegisteredOnce'
  <2> SUFFICES ASSUME AccountInv, RegisteredOnce, [Next]_vars,
                      NEW c \in Calls, NEW d \in Calls,
                      Is(c, "REGISTER")', Is(d, "REGISTER")', Caller(c)' = Caller(d)',
                      answer'[c] = 201, answer'[d] = 201, c # d
               PROVE  FALSE
    BY DEF RegisteredOnce
  <2>1. ASSUME NEW e \in Calls, InsertUser(e), NEW f \in Calls \ {e},
               Is(f, "REGISTER"), answer[f] = 201, Caller(e)' = Caller(f)'
        PROVE  FALSE
    <3>1. Caller(e) = Caller(f)
      BY <2>1 DEF InsertUser, Caller
    <3>2. HasAccount(f)
      BY <2>1 DEF AccountInv, IsTruthful
    <3> QED  BY <2>1, <3>1, <3>2 DEF InsertUser, HasAccount
  <2>2. ~(InsertUser(c) /\ InsertUser(d))
    <3> SUFFICES ASSUME InsertUser(c), InsertUser(d) PROVE FALSE
      OBVIOUS
    <3>1. at'[d] = at[d]
      BY OthersWait DEF AccountInv, Progress
    <3>2. at'[d] = "done"
      BY DEF AccountInv, TypeOK, InsertUser, AnswerWrite, Answer
    <3> QED  BY <3>1, <3>2 DEF InsertUser
  <2>3. CASE InsertUser(c)
    BY <2>1, <2>2, <2>3, SuccessIsNew
  <2>4. CASE InsertUser(d)
    BY <2>1, <2>2, <2>4, SuccessIsNew
  <2>5. CASE ~InsertUser(c) /\ ~InsertUser(d)
    <3>1. /\ Is(c, "REGISTER") /\ answer[c] = 201
          /\ Is(d, "REGISTER") /\ answer[d] = 201
          /\ UNCHANGED <<call[c], call[d]>>
      BY <2>5, SuccessIsNew
    <3>2. Caller(c) = Caller(d)
      BY <3>1 DEF Caller
    <3> QED  BY <3>1, <3>2 DEF RegisteredOnce
  <2> QED  BY <2>3, <2>4, <2>5
<1> QED  BY <1>1, <1>2, InvariantHolds, PTL DEF Spec

-----------------------------------------------------------------------------
(* What a step may not do.                                                 *)

\* Nobody whose deletion was confirmed gets past authenticate.
THEOREM DeletedStaysOut == Spec => DeletedIsShutOut
<1>1. AccountInv /\ [Next]_vars =>
        [\A c, d \in Calls :
            Is(d, "DELETE") /\ answer[d] = 200 /\ IsAdmitted(c)
            => Caller(c) # Caller(d)]_vars
  <2> SUFFICES ASSUME AccountInv, Next, NEW c \in Calls, NEW d \in Calls,
                      Is(d, "DELETE"), answer[d] = 200, IsAdmitted(c)
               PROVE  Caller(c) # Caller(d)
    OBVIOUS
  <2>1. user[Caller(d)].status = "INACTIVE"
    BY DEF AccountInv, IsTruthful
  <2>2. Admit(c)
    <3>1. at[c] = "authenticate" /\ at'[c] \in {"find", "write"}
      BY DEF IsAdmitted
    <3>2. ASSUME NEW e \in Calls \ {c}, Progress(e) PROVE FALSE
      BY <3>1, <3>2, OthersWait DEF AccountInv
    <3>3. ASSUME NEW e \in Calls,
                 Break(e) \/ (\E q \in Public \cup Protected : Send(e, q))
          PROVE  FALSE
      BY <3>1, <3>3 DEF Break, Answer, Send, Goto, AccountInv, TypeOK
    <3>4. ~(Tick \/ Quiescent)
      BY <3>1 DEF Tick, Quiescent, vars, callVars
    <3>5. Progress(c)
      BY <3>2, <3>3, <3>4 DEF Next
    <3>6. ~Answer(c, 401) /\ ~Answer(c, 403) /\ ~Answer(c, 500)
      BY <3>1 DEF Answer, AccountInv, TypeOK
    <3> QED
      BY <3>1, <3>5, <3>6
      DEF Progress, CheckEmail, InsertUser, EmailConflict, ReadCredentials, Sign,
          StoreToken, Refresh, TokenExpired, Deny, RejectBody, Find, Logout,
          SoftDelete, Administer, Update
  <2> QED  BY <2>1, <2>2 DEF Admit, MayPass
<1> QED  BY <1>1, InvariantHolds, PTL DEF Spec, DeletedIsShutOut

\* A refresh token becomes a user's by a login only.
THEOREM OnlyLoginsStartSessions == Spec => SessionsStartByLogin
<1>1. AccountInv /\ [Next]_vars =>
        [\A u \in Users :
            user'[u].refresh \in {user[u].refresh, NoToken}
            \/ \E c \in Calls : Is(c, "LOGIN") /\ Caller(c) = u /\ at[c] = "write"
                               /\ at'[c] = "done"]_vars
  <2> SUFFICES ASSUME AccountInv, Next, NEW u \in Users
               PROVE  \/ user'[u].refresh \in {user[u].refresh, NoToken}
                      \/ \E c \in Calls : /\ Is(c, "LOGIN") /\ Caller(c) = u
                                          /\ at[c] = "write" /\ at'[c] = "done"
    OBVIOUS
  <2> USE DEF AccountInv, TypeOK
  <2>1. user[u] \in UserType
    OBVIOUS
  <2>2. ASSUME NEW c \in Calls, InsertUser(c)
        PROVE  user'[u].refresh \in {user[u].refresh, NoToken}
    BY <2>2 DEF InsertUser, NewUser, NoUser
  <2>3. ASSUME NEW c \in Calls, StoreToken(c)
        PROVE  \/ user'[u].refresh = user[u].refresh
               \/ /\ Is(c, "LOGIN") /\ Caller(c) = u
                  /\ at[c] = "write" /\ at'[c] = "done"
    BY <2>3 DEF StoreToken, Answer
  <2>4. ASSUME NEW c \in Calls, Logout(c) \/ SoftDelete(c) \/ Administer(c)
        PROVE  user'[u].refresh \in {user[u].refresh, NoToken}
    BY <2>1, <2>4 DEF Logout, SoftDelete, Administer, Update, Row, UserType
  <2>5. CASE UNCHANGED user
    BY <2>5
  <2> QED
    BY <2>2, <2>3, <2>4, <2>5
    DEF Next, Send, Progress, Break, Tick, Quiescent, vars, CheckEmail, EmailConflict,
        ReadCredentials, Sign, Refresh, TokenExpired, Admit, Deny, RejectBody, Find
<1> QED  BY <1>1, InvariantHolds, PTL DEF Spec, SessionsStartByLogin

-----------------------------------------------------------------------------
(* Every call takes effect at one instant.                                 *)

\* The users that are there at first are users of the atomic accounts.
LEMMA InitRefines == Init => Atomic!Init
BY DEF Init, Atomic!Init, Atomic!Registered, Atomic!NoUser, NoUser, NoCall, Role

\* A call under way is answered once.
LEMMA AnswerRefines ==
    ASSUME AccountInv, NEW c \in Calls, NEW code,
           at[c] \notin {"idle", "done"}, Answer(c, code), UNCHANGED call
    PROVE  Atomic!Answer(c, code)
BY DEF AccountInv, IsTruthful, IsEntitled, Is, Answer, Atomic!Answer, Atomic!Is

LEMMA WriteRefines ==
    ASSUME AccountInv, NEW c \in Calls, NEW code,
           at[c] \notin {"idle", "done"}, AnswerWrite(c, code), UNCHANGED call
    PROVE  Atomic!Succeed(c, code)
BY AnswerRefines DEF AnswerWrite, Atomic!Succeed

\* Whatever fails may be answered 500.
LEMMA FailureRefines ==
    ASSUME AccountInv, NEW c \in Calls, at[c] \notin {"idle", "done"},
           Answer(c, 500), UNCHANGED <<user, call>>
    PROVE  Atomic!Refuse(c)
BY AnswerRefines DEF Atomic!Refuse

\* A registration that takes effect finds no user at that instant.
LEMMA InsertRefines ==
    ASSUME AccountInv, NEW c \in Calls, InsertUser(c)
    PROVE  Atomic!Register(c)
<1>1. Atomic!Succeed(c, 201)
  BY WriteRefines DEF InsertUser
<1>2. NewUser(c) \in Atomic!Registered({call[c].password}, {"ACTIVE"}, {"CUSTOMER"})
  BY DEF NewUser, NoUser, Atomic!Registered
<1> QED
  BY <1>1, <1>2 DEF InsertUser, Atomic!Register, Atomic!Is, Atomic!Caller, Is, Caller

\* The password that a login compared is the user's when its token is stored.
LEMMA StoreRefines ==
    ASSUME AccountInv, NEW c \in Calls, StoreToken(c)
    PROVE  Atomic!Login(c)
<1>1. Atomic!Succeed(c, 200)
  BY AnswerRefines DEF StoreToken, Atomic!Succeed
<1>2. user[Caller(c)].exists /\ user[Caller(c)].password = call[c].password
  BY DEF StoreToken, AccountInv, IsTruthful
<1>3. token[c] \in Tokens /\ token[c].user = Caller(c)
  BY DEF StoreToken, AccountInv, TypeOK, FitsLabel
<1> QED
  BY <1>1, <1>2, <1>3
  DEF StoreToken, Atomic!Login, Atomic!Is, Atomic!Caller, Is, Caller

\* What is refused, is refused for the reason that is given.
LEMMA RefusalRefines ==
    ASSUME AccountInv, NEW c \in Calls,
           EmailConflict(c) \/ TokenExpired(c) \/ Deny(c) \/ RejectBody(c) \/ Break(c)
    PROVE  Atomic!Refuse(c)
<1>1. CASE EmailConflict(c)
  BY <1>1, AnswerRefines
  DEF EmailConflict, Atomic!Refuse, Atomic!Is, Atomic!Caller, Is, Caller
<1>2. CASE TokenExpired(c)
  BY <1>2, AnswerRefines DEF TokenExpired, Atomic!Refuse
<1>3. CASE Deny(c)
  <2>1. CASE user[Caller(c)].exists
    BY <1>3, <2>1, AnswerRefines
    DEF Deny, MayPass, Atomic!Refuse, Atomic!Is, Atomic!Caller, IsAdministrative, Is, Caller
  <2>2. CASE ~user[Caller(c)].exists
    BY <1>3, <2>2, AnswerRefines DEF Deny, Atomic!Refuse
  <2> QED  BY <2>1, <2>2
<1>4. CASE RejectBody(c)
  BY <1>4, FailureRefines DEF RejectBody
<1>5. CASE Break(c)
  BY <1>5, FailureRefines DEF Break
<1> QED  BY <1>1, <1>2, <1>3, <1>4, <1>5

\* A step of a call is its effect, its refusal, or not to be seen.
LEMMA ProgressRefines ==
    ASSUME AccountInv, NEW c \in Calls, Progress(c)
    PROVE  [Atomic!Next]_Atomic!vars
<1> DEFINE Hidden == UNCHANGED <<user, call, answer>>
           Effect == \/ Atomic!Register(c) \/ Atomic!Login(c) \/ Atomic!Refresh(c)
                     \/ Atomic!Logout(c) \/ Atomic!Delete(c) \/ Atomic!Look(c)
<1> SUFFICES Hidden \/ Effect \/ Atomic!Refuse(c)
  BY DEF Atomic!Next, Atomic!vars
<1>1. CASE CheckEmail(c) \/ ReadCredentials(c) \/ Sign(c)
  <2>1. CASE Answer(c, 500)
    BY <1>1, <2>1, FailureRefines DEF CheckEmail, ReadCredentials, Sign
  <2>2. CASE ~Answer(c, 500)
    BY <1>1, <2>2 DEF CheckEmail, ReadCredentials, Sign, Goto
  <2> QED  BY <2>1, <2>2
<1>2. CASE InsertUser(c) \/ StoreToken(c)
  BY <1>2, InsertRefines, StoreRefines
<1>3. CASE Refresh(c)
  <2>1. CASE \E u \in Users : user[u].refresh = call[c].token
    BY <1>3, <2>1, AnswerRefines
    DEF Refresh, Atomic!Refresh, Atomic!Is, Atomic!Succeed, Is
  <2>2. CASE ~ \E u \in Users : user[u].refresh = call[c].token
    BY <1>3, <2>2, FailureRefines DEF Refresh
  <2> QED  BY <2>1, <2>2
<1>4. CASE Admit(c)
  BY <1>4 DEF Admit, Goto
<1>5. CASE Find(c)
  <2>1. CASE ~user[Subject(c)].exists
    BY <1>5, <2>1, AnswerRefines
    DEF Find, Atomic!Refuse, Atomic!Subject, Atomic!Caller, Atomic!Is, Subject,
        IsAdministrative, Is
  <2>2. CASE user[Subject(c)].exists /\ Is(c, "PROFILE")
    <3>1. Atomic!Succeed(c, 200)
      BY <1>5, <2>2, AnswerRefines DEF Find, Atomic!Succeed
    <3>2. Subject(c) = Caller(c) /\ ~Is(c, "ADMINISTER")
      BY <2>2 DEF Is, IsAdministrative, Subject, Caller
    <3> QED
      BY <1>5, <2>2, <3>1, <3>2
      DEF Find, Atomic!Look, Atomic!Subject, Atomic!Caller, Atomic!Is, Is, Caller
  <2>3. CASE user[Subject(c)].exists /\ ~Is(c, "PROFILE") /\ call[c] \in Patches
    BY <1>5, <2>3, FailureRefines DEF Find
  <2>4. CASE user[Subject(c)].exists /\ ~Is(c, "PROFILE") /\ call[c] \notin Patches
    BY <1>5, <2>4 DEF Find, Goto
  <2> QED  BY <2>1, <2>2, <2>3, <2>4
<1>6. ASSUME Logout(c) \/ SoftDelete(c) \/ Administer(c)
      PROVE  Atomic!Succeed(c, 200) /\ call[c] \in Protected
             /\ user[Caller(c)].exists /\ user[Subject(c)].exists
  <2>1. Atomic!Succeed(c, 200)
    BY <1>6, WriteRefines DEF Logout, SoftDelete, Administer, Update
  <2>2. call[c] \in Protected
    BY <1>6, CallType DEF Logout, SoftDelete, Administer, IsAdministrative,
         Protected, AccountInv
  <2> QED
    BY <1>6, <2>1, <2>2
    DEF Logout, SoftDelete, Administer, Update, AccountInv, IsEntitled
<1>7. CASE Logout(c)
  <2>1. Subject(c) = Caller(c) /\ Caller(c) = call[c].user
    BY <1>7 DEF Logout, Is, IsAdministrative, Subject, Caller
  <2> QED
    BY <1>6, <1>7, <2>1
    DEF Logout, Update, Row, Atomic!Logout, Atomic!Is, Atomic!Caller, Is, AccountInv, TypeOK
<1>8. CASE SoftDelete(c)
  <2>1. Subject(c) = Caller(c) /\ Caller(c) = call[c].user
    BY <1>8 DEF SoftDelete, Is, IsAdministrative, Subject, Caller
  <2> QED
    BY <1>6, <1>8, <2>1
    DEF SoftDelete, Update, Row, Atomic!Delete, Atomic!Is, Atomic!Caller, Is, AccountInv, TypeOK
<1>9. CASE Administer(c)
  <2>1. user[Caller(c)].role = "ADMIN"
    BY <1>6, <1>9 DEF Administer, Update, AccountInv, IsEntitled
  <2>2. Subject(c) \in Users /\ UNCHANGED user
    BY <1>9, CallType DEF Administer, Update, Row, Subject, IsAdministrative,
         Administrative, AccountInv, TypeOK
  <2> QED
    BY <1>6, <1>9, <2>1, <2>2
    DEF Administer, Atomic!Look, Atomic!Is, Atomic!Caller, Atomic!Subject, Is,
        IsAdministrative, Caller, Subject
<1> QED
  BY <1>1, <1>2, <1>3, <1>4, <1>5, <1>7, <1>8, <1>9, RefusalRefines DEF Progress

\* Every call takes effect at one instant, or is refused and has none.
THEOREM Refinement == Spec => ImplementsAtomicAccounts
<1>1. AccountInv /\ [Next]_vars => [Atomic!Next]_Atomic!vars
  <2> SUFFICES ASSUME AccountInv, [Next]_vars PROVE [Atomic!Next]_Atomic!vars
    OBVIOUS
  <2>1. ASSUME NEW c \in Calls, NEW q \in Public \cup Protected, Send(c, q)
        PROVE  Atomic!Send(c)
    <3>1. Is(c, "NONE")
      BY <2>1 DEF Send, AccountInv, IsEntitled
    <3> QED  BY <2>1, <3>1 DEF Send, Goto, Atomic!Send, Atomic!Is, Is
  <2>2. CASE Tick \/ UNCHANGED vars
    BY <2>2 DEF Tick, vars, callVars, Atomic!vars
  <2>3. ASSUME NEW c \in Calls, Break(c) PROVE Atomic!Refuse(c)
    BY <2>3, RefusalRefines
  <2> QED
    BY <2>1, <2>2, <2>3, ProgressRefines DEF Next, Quiescent, Atomic!Next
<1> QED
  BY <1>1, InitRefines, InvariantHolds, PTL
  DEF Spec, ImplementsAtomicAccounts, Atomic!Spec
=============================================================================
