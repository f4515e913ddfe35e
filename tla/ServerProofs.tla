----------------------------- MODULE ServerProofs -----------------------------
(***************************************************************************)
(* Proofs about Server, for any connections, requests and number of        *)
(* signals and errors.                                                     *)
(***************************************************************************)
EXTENDS Server, TLAPS

(***************************************************************************)
(* The request pipeline yields stages and statuses.                        *)
(***************************************************************************)
Outcomes == [stage : Stages \ {"idle"}, reply : Statuses \cup {0}]

LEMMA ErrorsHaveAStatus == \A err0 : errorMiddleware(err0) \in Statuses
  <1> TAKE err0
  <1>1. \A e \in DOMAIN StatusCode : StatusCode[e] \in Statuses
    BY DEF StatusCode, Statuses
  <1>2. 500 \in Statuses
    BY DEF Statuses
  <1>. QED BY <1>1, <1>2 DEF errorMiddleware

LEMMA GoIsAnOutcome ==
  ASSUME NEW next \in Stages \ {"idle"} PROVE Go(next) \in Outcomes
  BY DEF Go, Outcomes

LEMMA SayIsAnOutcome ==
  ASSUME NEW status \in Statuses PROVE Say(status) \in Outcomes
  BY DEF Say, Outcomes, Stages

LEMMA ValidatedIsAnOutcome == \A req : Validated(req) \in Outcomes
  BY ErrorsHaveAStatus, GoIsAnOutcome, SayIsAnOutcome DEF Validated, Stages

LEMMA RoutedIsAnOutcome == \A req : Routed(req) \in Outcomes
  <1>1. 401 \in Statuses
    BY DEF Statuses
  <1>. QED BY <1>1, ErrorsHaveAStatus, GoIsAnOutcome, SayIsAnOutcome, ValidatedIsAnOutcome
           DEF Routed, Stages

LEMMA EnteredIsAnOutcome == \A req : Entered(req) \in Outcomes
  BY GoIsAnOutcome, RoutedIsAnOutcome DEF Entered, Stages

LEMMA AuthenticatedIsAnOutcome == \A req : Authenticated(req) \in Outcomes
  <1>1. 401 \in Statuses /\ 403 \in Statuses
    BY DEF Statuses
  <1>. QED BY <1>1, ErrorsHaveAStatus, SayIsAnOutcome, ValidatedIsAnOutcome DEF Authenticated

LEMMA SuccessOfRoute ==
  \A at, roles, schema, serves, success, errors :
      success \in {200, 201, 404} =>
          Route(at, roles, schema, serves, success, errors).success \in Statuses
  BY DEF Route, Statuses

LEMMA SuccessIsAStatus == \A r \in Routes : r.success \in Statuses
  <1>1. \A r \in AuthRoutes : r.success \in Statuses
    BY SuccessOfRoute DEF AuthRoutes
  <1>2. \A r \in UserRoutes : r.success \in Statuses
    BY SuccessOfRoute DEF UserRoutes
  <1>3. \A r \in WalletRoutes : r.success \in Statuses
    BY SuccessOfRoute DEF WalletRoutes
  <1>4. \A r \in TransactionRoutes : r.success \in Statuses
    BY SuccessOfRoute DEF TransactionRoutes, Movement
  <1>5. \A r \in PaymentRoutes \cup WebhookRoutes \cup LedgerRoutes : r.success \in Statuses
    BY SuccessOfRoute DEF PaymentRoutes, WebhookRoutes, LedgerRoutes
  <1>6. \A r \in AuditRoutes \cup AccountRoutes : r.success \in Statuses
    BY SuccessOfRoute DEF AuditRoutes, AccountRoutes
  <1>7. \A r \in {Live, Ready, Health, NoSuch} : r.success \in Statuses
    BY SuccessOfRoute DEF Live, Ready, Health, NoSuch
  <1>. QED BY <1>1, <1>2, <1>3, <1>4, <1>5, <1>6, <1>7 DEF Routes, apiRouter

LEMMA AnswersAreStatuses == \A req \in AllRequests : Answers(req) \subseteq Statuses
  <1> TAKE req \in AllRequests
  <1>1. req.route.success \in Statuses
    BY SuccessIsAStatus DEF AllRequests
  <1>2. 503 \in Statuses
    BY DEF Statuses
  <1>. QED BY <1>1, <1>2, ErrorsHaveAStatus DEF Answers

-----------------------------------------------------------------------------
(***************************************************************************)
(* Type correctness.                                                       *)
(***************************************************************************)
LEMMA BecomeTypeOK ==
  ASSUME TypeOK, NEW c \in Conns, NEW next \in Outcomes, stage[c] # "idle", Become(c, next)
  PROVE  TypeOK'
  <1>1. stage' \in [Conns -> Stages] /\ reply' \in [Conns -> Statuses \cup {0}]
    BY DEF TypeOK, Become, Outcomes
  <1>2. \A d \in Conns : stage'[d] = "idle" <=> stage[d] = "idle"
    BY DEF TypeOK, Become, Outcomes
  <1>. QED BY <1>1, <1>2 DEF TypeOK, Become, processVars, workVars

LEMMA ServeTypeOK ==
  ASSUME TypeOK, NEW c \in Conns, Serve(c) PROVE TypeOK'
  <1>1. \A status \in Statuses : Say(status) \in Outcomes
    BY SayIsAnOutcome
  <1>2. {429, 200, 503} \subseteq Statuses
    BY DEF Statuses
  <1>3. CASE Limit(c)
    BY <1>1, <1>2, <1>3, BecomeTypeOK, RoutedIsAnOutcome, ErrorsHaveAStatus DEF Limit
  <1>4. CASE Authenticate(c)
    BY <1>1, <1>4, BecomeTypeOK, AuthenticatedIsAnOutcome, ErrorsHaveAStatus DEF Authenticate
  <1>5. CASE Handle(c)
    <2>1. stage[c] = "handler"
      BY <1>5 DEF Handle
    <2>2. request[c] \in AllRequests
      BY <2>1, ServerAssumption DEF TypeOK
    <2>3. Go("ping") \in Outcomes
      BY GoIsAnOutcome DEF Stages
    <2>. QED BY <1>1, <1>5, <2>1, <2>2, <2>3, BecomeTypeOK, AnswersAreStatuses DEF Handle
  <1>6. CASE Ping(c)
    BY <1>1, <1>2, <1>6, BecomeTypeOK DEF Ping
  <1>. QED BY <1>3, <1>4, <1>5, <1>6 DEF Serve

LEMMA ClientTypeOK ==
  ASSUME TypeOK, NEW c \in Conns, Client(c) PROVE TypeOK'
  <1>1. CASE \E req \in Requests : Receive(c, req)
    <2>1. PICK req \in Requests : Receive(c, req)
      BY <1>1
    <2>2. Entered(req) \in Outcomes
      BY EnteredIsAnOutcome
    <2>3. request' \in [Conns -> Requests \cup {NoRequest}] /\ stage' \in [Conns -> Stages]
             /\ reply' \in [Conns -> Statuses \cup {0}] /\ socket' \in SUBSET Conns
      BY <2>1, <2>2 DEF TypeOK, Receive, Outcomes
    <2>4. \A d \in Conns : stage'[d] = "idle" <=> request'[d] = NoRequest
      BY <2>1, <2>2, ServerAssumption DEF TypeOK, Receive, Outcomes
    <2>. QED BY <2>1, <2>3, <2>4 DEF TypeOK, Receive, processVars, workVars
  <1>2. CASE Sent(c)
    <2>1. stage' \in [Conns -> Stages] /\ reply' \in [Conns -> Statuses \cup {0}]
             /\ request' \in [Conns -> Requests \cup {NoRequest}]
      BY <1>2 DEF TypeOK, Sent, Stages
    <2>2. \A d \in Conns : stage'[d] = "idle" <=> request'[d] = NoRequest
      BY <1>2 DEF TypeOK, Sent
    <2>. QED BY <1>2, <2>1, <2>2 DEF TypeOK, Sent, processVars, workVars
  <1>3. CASE HangUp(c)
    BY <1>3 DEF TypeOK, HangUp, processVars, workVars
  <1>. QED BY <1>1, <1>2, <1>3 DEF Client

LEMMA OtherStepsTypeOK ==
  ASSUME TypeOK, Bootstrap \/ Work \/ (\E s \in Calls : Shutdown(s)) PROVE TypeOK'
  <1>1. CASE Bootstrap
    BY <1>1 DEF TypeOK, Bootstrap, ConnectFails, Listen, Kill, Exit, workVars, connVars
  <1>2. CASE Work
    BY <1>2 DEF TypeOK, Work, TakeJob, FinishJob, RedisToggles, processVars, connVars
  <1>3. ASSUME NEW s \in Calls, NEW error \in BOOLEAN, Begin(s, error) PROVE TypeOK'
    BY <1>3 DEF TypeOK, Begin, Idle, Steps, workVars
  <1>4. ASSUME NEW s \in Calls, Shutdown(s), ~Crash(s), ~Signal(s) PROVE TypeOK'
    BY <1>4 DEF TypeOK, Shutdown, HttpClosed, Disconnect, WorkersClosed, Quit, StepFails,
                TimerFires, Exit, ExitStatus, Steps, workVars, connVars
  <1>. QED BY <1>1, <1>2, <1>3, <1>4 DEF Shutdown, Crash, Signal

\* Every variable keeps its type, and a connection without a request is idle.
THEOREM TypeCorrect == Spec => []TypeOK
  <1>1. Init => TypeOK
    BY DEF Init, TypeOK, Stages, Steps
  <1>2. TypeOK /\ [Next]_vars => TypeOK'
    <2> SUFFICES ASSUME TypeOK, [Next]_vars PROVE TypeOK'
      OBVIOUS
    <2>1. CASE Next
      BY <2>1, ServeTypeOK, ClientTypeOK, OtherStepsTypeOK DEF Next, Step
    <2>2. CASE UNCHANGED vars
      BY <2>2 DEF TypeOK, vars, processVars, workVars, connVars
    <2>. QED BY <2>1, <2>2
  <1>. QED BY <1>1, <1>2, PTL DEF Spec
-----------------------------------------------------------------------------
(***************************************************************************)
(* The invariant.                                                          *)
(***************************************************************************)
LEMMA InvInit == Init => ServerInv
  BY DEF Init, ServerInv, Drained

\* A request's steps open no connection once the server is closing.
LEMMA ConnectionsKeepInv ==
  ASSUME TypeOK, ServerInv, code = "running", NEW c \in Conns, Serve(c) \/ Client(c)
  PROVE  ServerInv'
  <1>1. UNCHANGED <<processVars, workVars>>
    BY DEF Serve, Client, Limit, Authenticate, Handle, Ping, Become, Receive, Sent, HangUp
  <1>2. server # "open" /\ socket = {} => socket' = {}
    BY DEF Serve, Client, Limit, Authenticate, Handle, Ping, Become, Receive, Sent, HangUp
  <1>3. server = "closing" => server # "open"
    OBVIOUS
  <1>. QED BY <1>1, <1>2 DEF ServerInv, Drained, processVars, workVars

LEMMA ProcessKeepsInv ==
  ASSUME TypeOK, ServerInv, code = "running", Bootstrap \/ Work PROVE ServerInv'
  <1>1. CASE Bootstrap
    BY <1>1 DEF ServerInv, Drained, Bootstrap, ConnectFails, Listen, Kill, Exit, workVars, connVars
  <1>2. CASE Work
    BY <1>2 DEF ServerInv, Drained, Work, TakeJob, FinishJob, RedisToggles, processVars, connVars
  <1>. QED BY <1>1, <1>2

LEMMA ShutdownKeepsInv ==
  ASSUME TypeOK, ServerInv, code = "running", NEW s \in Calls, Shutdown(s) PROVE ServerInv'
  <1>1. ASSUME NEW error \in BOOLEAN, Begin(s, error) PROVE ServerInv'
    <2>1. CASE server = "none"
      BY <1>1, <2>1 DEF TypeOK, ServerInv, Drained, Begin, workVars
    <2>2. CASE server # "none"
      BY <1>1, <2>2 DEF TypeOK, ServerInv, Drained, Begin, Idle, workVars
    <2>. QED BY <2>1, <2>2
  <1>2. CASE HttpClosed(s)
    BY <1>2 DEF TypeOK, ServerInv, Drained, HttpClosed, workVars, connVars
  <1>3. CASE Disconnect(s)
    BY <1>3 DEF TypeOK, ServerInv, Drained, Disconnect, connVars
  <1>4. CASE WorkersClosed(s)
    BY <1>4 DEF TypeOK, ServerInv, Drained, WorkersClosed, workVars, connVars
  <1>5. CASE Quit(s)
    BY <1>5 DEF TypeOK, ServerInv, Drained, Quit, Exit, ExitStatus, workVars, connVars
  <1>6. CASE StepFails(s)
    BY <1>6 DEF TypeOK, ServerInv, Drained, StepFails, Exit, ExitStatus, workVars, connVars
  <1>7. CASE TimerFires(s)
    BY <1>7 DEF TypeOK, ServerInv, Drained, TimerFires, Exit, workVars, connVars
  <1>. QED BY <1>1, <1>2, <1>3, <1>4, <1>5, <1>6, <1>7 DEF Shutdown, Crash, Signal

\* What each call of gracefulShutdown relies on holds however the calls, the
\* connections and the worker interleave.
THEOREM InvariantHolds == Spec => []ServerInv
  <1>1. TypeOK /\ ServerInv /\ [Next]_vars => ServerInv'
    <2> SUFFICES ASSUME TypeOK, ServerInv, [Next]_vars PROVE ServerInv'
      OBVIOUS
    <2>1. CASE Next
      BY <2>1, ConnectionsKeepInv, ProcessKeepsInv, ShutdownKeepsInv DEF Next, Step
    <2>2. CASE UNCHANGED vars
      BY <2>2 DEF ServerInv, Drained, vars, processVars, workVars, connVars
    <2>. QED BY <2>1, <2>2
  <1>. QED BY <1>1, InvInit, TypeCorrect, PTL DEF Spec

\* An exit with code 0 cuts no connection.
THEOREM ExitsDrained == Spec => []CleanExitIsDrained
  <1>1. ServerInv => CleanExitIsDrained
    BY DEF ServerInv, Drained, CleanExitIsDrained
  <1>. QED BY <1>1, InvariantHolds, PTL

\* An exit with code 0 leaves no job half done, unless a step failed.
THEOREM ExitsWithoutJobs == Spec => []CleanExitEndsJobs
  <1>1. ServerInv => CleanExitEndsJobs
    BY DEF ServerInv, Drained, CleanExitEndsJobs
  <1>. QED BY <1>1, InvariantHolds, PTL

-----------------------------------------------------------------------------
(***************************************************************************)
(* Refinement: each step is one of GracefulStop or leaves its state alone. *)
(***************************************************************************)
LEMMA ConnectionsRefine ==
  ASSUME TypeOK, code = "running", NEW c \in Conns, Serve(c) \/ Client(c)
  PROVE  [Graceful!Next]_(Graceful!stopVars)
  <1>1. UNCHANGED processVars
    BY DEF Serve, Client, Limit, Authenticate, Handle, Ping, Become, Receive, Sent, HangUp
  <1>2. \/ socket' \subseteq socket
        \/ server = "open" /\ socket' = socket \cup {c} /\ c \notin socket
    BY DEF Serve, Client, Limit, Authenticate, Handle, Ping, Become, Receive, Sent, HangUp
  <1>3. CASE socket' \subseteq socket
    BY <1>1, <1>3 DEF TypeOK, processVars, Graceful!Next, Graceful!Close, Graceful!Running,
                      Graceful!stopVars
  <1>4. CASE server = "open" /\ socket' = socket \cup {c} /\ c \notin socket
    BY <1>1, <1>4 DEF processVars, Graceful!Next, Graceful!Accept
  <1>. QED BY <1>2, <1>3, <1>4

LEMMA ProcessRefines ==
  ASSUME TypeOK, code = "running", Bootstrap \/ Work
  PROVE  [Graceful!Next]_(Graceful!stopVars)
  <1>1. CASE ConnectFails \/ Kill
    BY <1>1 DEF ConnectFails, Kill, Exit, connVars, Graceful!Next, Graceful!Abort, Graceful!Running
  <1>2. CASE Listen
    BY <1>2 DEF Listen, connVars, Graceful!Next, Graceful!Start
  <1>3. CASE Work
    BY <1>3 DEF Work, TakeJob, FinishJob, RedisToggles, processVars, connVars, Graceful!stopVars
  <1>. QED BY <1>1, <1>2, <1>3 DEF Bootstrap

LEMMA ShutdownRefines ==
  ASSUME TypeOK, ServerInv, code = "running", NEW s \in Calls, Shutdown(s)
  PROVE  [Graceful!Next]_(Graceful!stopVars)
  <1>1. ASSUME NEW error \in BOOLEAN, Begin(s, error)
        PROVE  [Graceful!Next]_(Graceful!stopVars)
    <2>1. CASE server = "none"
      BY <1>1, <2>1 DEF Begin, Graceful!stopVars
    <2>2. CASE server # "none"
      BY <1>1, <2>2 DEF Begin, Graceful!Next, Graceful!Drain
    <2>. QED BY <2>1, <2>2
  <1>2. CASE HttpClosed(s) \/ Disconnect(s) \/ WorkersClosed(s)
    BY <1>2 DEF HttpClosed, Disconnect, WorkersClosed, workVars, connVars, Graceful!stopVars
  <1>3. CASE Quit(s) \/ StepFails(s) \/ TimerFires(s)
    <2>1. UNCHANGED <<server, socket>> /\ code' \in {"0", "1"}
      BY <1>3 DEF Quit, StepFails, TimerFires, Exit, ExitStatus, connVars
    <2>2. code' = "0" => server = "closing" /\ socket = {}
      BY <1>3 DEF ServerInv, Drained, Quit, StepFails, TimerFires, Exit, ExitStatus
    <2>3. CASE code' = "0"
      BY <2>1, <2>2, <2>3 DEF Graceful!Next, Graceful!Stop
    <2>4. CASE code' = "1"
      BY <2>1, <2>4 DEF Graceful!Next, Graceful!Abort, Graceful!Running
    <2>. QED BY <2>1, <2>3, <2>4
  <1>. QED BY <1>1, <1>2, <1>3 DEF Shutdown, Crash, Signal

\* Seen from its connections, the process is a server that stops gracefully.
THEOREM Refinement == Spec => ImplementsGracefulStop
  <1>1. Init => Graceful!Init
    BY DEF Init, Graceful!Init
  <1>2. TypeOK /\ ServerInv /\ [Next]_vars => [Graceful!Next]_(Graceful!stopVars)
    <2> SUFFICES ASSUME TypeOK, ServerInv, [Next]_vars
                 PROVE  [Graceful!Next]_(Graceful!stopVars)
      OBVIOUS
    <2>1. CASE Next
      BY <2>1, ConnectionsRefine, ProcessRefines, ShutdownRefines DEF Next, Step
    <2>2. CASE UNCHANGED vars
      BY <2>2 DEF vars, processVars, workVars, connVars, Graceful!stopVars
    <2>. QED BY <2>1, <2>2
  <1>. QED BY <1>1, <1>2, TypeCorrect, InvariantHolds, PTL
           DEF Spec, ImplementsGracefulStop, Graceful!Spec
=============================================================================
