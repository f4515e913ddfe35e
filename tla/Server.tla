-------------------------------- MODULE Server --------------------------------
(***************************************************************************)
(* One process of the API: bootstrap, the connections it serves, the       *)
(* payment worker that runs inside it, and gracefulShutdown of             *)
(* src/src/server.js.  Once `code' is set the process has exited and       *)
(* nothing changes any more: what is busy then has been cut.               *)
(***************************************************************************)
EXTENDS RequestPipeline, FiniteSets

CONSTANTS Conns,      \* connections
          Calls,      \* calls of gracefulShutdown, one for each signal or error
          Requests,   \* the requests clients send
          NoRequest

ASSUMPTION ServerAssumption ==
    /\ Requests \subseteq AllRequests
    /\ NoRequest \notin Requests

VARIABLES
    server,      \* undefined ("none"), "open", "unbound" (listen failed) or "closing"
    code,        \* "running", the exit code, or "killed" by a signal
    call,        \* where each call of gracefulShutdown is
    err,         \* whether it was given an error
    taking,      \* the payment worker takes jobs
    job,         \* it has one in progress
    redis,       \* the Redis server can be reached
    socket,      \* the connections that are open
    request,     \* the request of each connection
    stage,       \* where that request is
    reply        \* the status it was answered with

processVars == <<server, code, call, err>>
workVars == <<taking, job, redis>>
connVars == <<socket, request, stage, reply>>
vars == <<processVars, workVars, connVars>>

Stages == {"idle", "limiter", "authenticate", "handler", "ping", "answered"}
Steps  == {"idle", "http", "database", "workers", "quit", "failed"}

TypeOK ==
    /\ server \in {"none", "open", "unbound", "closing"}
    /\ code \in {"running", "killed", "0", "1"}
    /\ call \in [Calls -> Steps]
    /\ err \in [Calls -> BOOLEAN]
    /\ taking \in BOOLEAN /\ job \in BOOLEAN /\ redis \in BOOLEAN
    /\ socket \in SUBSET Conns
    /\ request \in [Conns -> Requests \cup {NoRequest}]
    /\ stage \in [Conns -> Stages]
    /\ reply \in [Conns -> Statuses \cup {0}]
    /\ \A c \in Conns : (stage[c] = "idle") <=> (request[c] = NoRequest)

\* The workers are started by require, before bootstrap runs.
Init ==
    /\ server = "none" /\ code = "running"
    /\ call = [s \in Calls |-> "idle"] /\ err = [s \in Calls |-> FALSE]
    /\ taking = TRUE /\ job = FALSE /\ redis = TRUE
    /\ socket = {}
    /\ request = [c \in Conns |-> NoRequest]
    /\ stage = [c \in Conns |-> "idle"]
    /\ reply = [c \in Conns |-> 0]

Exit(status) == code' = status

-----------------------------------------------------------------------------
(* Bootstrap.  Express passes an error of listen to the callback that logs  *)
(* "Server running", so a port in use leaves a process without a server.    *)

ConnectFails ==
    /\ server = "none"
    /\ Exit("1")
    /\ UNCHANGED <<server, call, err, workVars, connVars>>

Listen ==
    /\ server = "none"
    /\ server' \in {"open", "unbound"}
    /\ UNCHANGED <<code, call, err, workVars, connVars>>

-----------------------------------------------------------------------------
(* Requests.  redisClient repeats a command until it is answered, so with   *)
(* Redis down the limiter and the ping wait; once quit, they fail.          *)

Quitting == \E s \in Calls : call[s] = "quit"

Become(c, next) ==
    /\ stage' = [stage EXCEPT ![c] = next.stage]
    /\ reply' = [reply EXCEPT ![c] = next.reply]
    /\ UNCHANGED <<processVars, workVars, socket, request>>

\* A new connection, or the next request on one that was kept alive.
Receive(c, req) ==
    /\ stage[c] = "idle"
    /\ c \in socket \/ server = "open"
    /\ socket' = socket \cup {c}
    /\ request' = [request EXCEPT ![c] = req]
    /\ stage' = [stage EXCEPT ![c] = Entered(req).stage]
    /\ reply' = [reply EXCEPT ![c] = Entered(req).reply]
    /\ UNCHANGED <<processVars, workVars>>

Limit(c) ==
    /\ stage[c] = "limiter"
    /\ \/ redis /\ Become(c, Routed(request[c]))
       \/ redis /\ Become(c, Say(429))
       \/ Quitting /\ Become(c, Say(errorMiddleware("Error")))

Authenticate(c) ==
    /\ stage[c] = "authenticate"
    /\ \/ Become(c, Authenticated(request[c]))
       \/ Become(c, Say(errorMiddleware("Error")))         \* the query fails

Handle(c) ==
    /\ stage[c] = "handler"
    /\ \/ \E status \in Answers(request[c]) :
             (request[c].route = Health => status = 503) /\ Become(c, Say(status))
       \/ request[c].route = Health /\ Become(c, Go("ping"))

Ping(c) ==
    /\ stage[c] = "ping"
    /\ \/ redis /\ Become(c, Say(200))
       \/ Quitting /\ Become(c, Say(503))

\* Bug: the request stays with the connection.
SentButKept(c) ==
    /\ stage[c] = "answered"
    /\ stage' = [stage EXCEPT ![c] = "idle"]
    /\ reply' = [reply EXCEPT ![c] = 0]
    /\ UNCHANGED <<processVars, workVars, socket, request>>

\* The answer has been written; the connection may be kept alive.
Sent(c) ==
    /\ stage[c] = "answered"
    /\ stage' = [stage EXCEPT ![c] = "idle"]
    /\ reply' = [reply EXCEPT ![c] = 0]
    /\ request' = [request EXCEPT ![c] = NoRequest]
    /\ UNCHANGED <<processVars, workVars, socket>>

\* The client leaves or a kept connection times out.  A handler goes on.
HangUp(c) ==
    /\ c \in socket
    /\ socket' = socket \ {c}
    /\ UNCHANGED <<processVars, workVars, request, stage, reply>>
-----------------------------------------------------------------------------
(* The payment worker inside the process, with a Redis connection of its    *)
(* own, and the Redis server.                                                *)

TakeJob ==
    /\ taking /\ redis /\ ~job
    /\ job' = TRUE
    /\ UNCHANGED <<processVars, taking, redis, connVars>>

FinishJob ==
    /\ job /\ redis
    /\ job' = FALSE
    /\ UNCHANGED <<processVars, taking, redis, connVars>>

RedisToggles == redis' = ~redis /\ UNCHANGED <<processVars, taking, job, connVars>>

-----------------------------------------------------------------------------
(* gracefulShutdown, one action for each of its awaits.  Several calls may  *)
(* be under way, each with a timer of its own.                               *)

Idle == {c \in socket : stage[c] = "idle"}

\* Bug: server.close() is left out.
DrainOnly(s, error) ==
    /\ call[s] = "idle"
    /\ error \/ server # "none"
    /\ err' = [err EXCEPT ![s] = error]
    /\ call' = [call EXCEPT ![s] = IF server = "none" THEN "database" ELSE "http"]
    /\ socket' = socket \ Idle
    /\ UNCHANGED <<server, code, workVars, request, stage, reply>>

\* The timer is set; then server.close(), if there is a server, which accepts
\* no more and closes the connections without a request.
Begin(s, error) ==
    /\ call[s] = "idle"
    /\ error \/ server # "none"
    /\ err' = [err EXCEPT ![s] = error]
    /\ IF server = "none"
          THEN /\ call' = [call EXCEPT ![s] = "database"]
               /\ UNCHANGED <<server, socket>>
          ELSE /\ call' = [call EXCEPT ![s] = "http"]
               /\ server' = "closing"
               /\ socket' = socket \ Idle
    /\ UNCHANGED <<code, workVars, request, stage, reply>>

\* uncaughtException and unhandledRejection are handled from the start,
\* SIGTERM and SIGINT only once listen has been called.
Crash(s)  == Begin(s, TRUE)
Signal(s) == Begin(s, FALSE)

Kill == server = "none" /\ Exit("killed") /\ UNCHANGED <<server, call, err, workVars, connVars>>

\* Bug: the callback of server.close is not awaited.
DisconnectAtOnce(s) ==
    /\ call[s] = "http"
    /\ call' = [call EXCEPT ![s] = "database"]
    /\ UNCHANGED <<server, code, err, workVars, connVars>>

\* The callback of server.close: every connection has ended.
HttpClosed(s) ==
    /\ call[s] = "http"
    /\ socket = {}
    /\ call' = [call EXCEPT ![s] = "database"]
    /\ UNCHANGED <<server, code, err, workVars, connVars>>

\* Bug: the workers are closed only when the job has ended.
DisconnectAndKeepTaking(s) ==
    /\ call[s] = "database"
    /\ call' = [call EXCEPT ![s] = "workers"]
    /\ UNCHANGED <<server, code, err, workVars, connVars>>

\* prisma.$disconnect(); paymentWorker.close() takes no more jobs.
Disconnect(s) ==
    /\ call[s] = "database"
    /\ call' = [call EXCEPT ![s] = "workers"]
    /\ taking' = FALSE
    /\ UNCHANGED <<server, code, err, job, redis, connVars>>

\* Bug: the workers' close() is not awaited.
QuitAtOnce(s) ==
    /\ call[s] = "workers"
    /\ call' = [call EXCEPT ![s] = "quit"]
    /\ UNCHANGED <<server, code, err, workVars, connVars>>

\* Both workers are closed: the job in progress has ended.
WorkersClosed(s) ==
    /\ call[s] = "workers"
    /\ ~job
    /\ call' = [call EXCEPT ![s] = "quit"]
    /\ UNCHANGED <<server, code, err, workVars, connVars>>

ExitStatus(s) == IF err[s] THEN "1" ELSE "0"

Waiting == \E c \in Conns : stage[c] \in {"limiter", "ping"}

\* With Redis down, quit() is answered at once unless commands are queued.
Quit(s) ==
    /\ call[s] = "quit"
    /\ redis \/ ~Waiting
    /\ Exit(ExitStatus(s))
    /\ UNCHANGED <<server, call, err, workVars, connVars>>

\* A step throws: the rest is skipped, and the exit is as if it had not.
StepFails(s) ==
    /\ call[s] \in {"database", "workers", "quit"}
    /\ call' = [call EXCEPT ![s] = "failed"]
    /\ Exit(ExitStatus(s))
    /\ UNCHANGED <<server, err, workVars, connVars>>

\* Bug: the timer is set after the server has been closed.
TimerAfterClose(s) ==
    /\ call[s] \notin {"idle", "http"}
    /\ Exit("1")
    /\ UNCHANGED <<server, call, err, workVars, connVars>>

\* forceExitTimeout
TimerFires(s) ==
    /\ call[s] # "idle"
    /\ Exit("1")
    /\ UNCHANGED <<server, call, err, workVars, connVars>>

-----------------------------------------------------------------------------
Bootstrap == ConnectFails \/ Listen \/ Kill

Serve(c) == Limit(c) \/ Authenticate(c) \/ Handle(c) \/ Ping(c)

Client(c) == HangUp(c) \/ Sent(c) \/ \E req \in Requests : Receive(c, req)

Work == TakeJob \/ FinishJob \/ RedisToggles

Shutdown(s) ==
    \/ Crash(s) \/ Signal(s)
    \/ HttpClosed(s) \/ Disconnect(s) \/ WorkersClosed(s) \/ Quit(s) \/ StepFails(s)
    \/ TimerFires(s)

Step ==
    \/ Bootstrap \/ Work
    \/ \E c \in Conns : Serve(c) \/ Client(c)
    \/ \E s \in Calls : Shutdown(s)

Next == code = "running" /\ Step

Spec == Init /\ [][Next]_vars

\* The event loop resumes every continuation and fires every timer that is
\* due.  Of the shutdown only the timers are relied on, of clients nothing.
Fairness ==
    /\ \A c \in Conns : WF_vars(code = "running" /\ Serve(c))
    /\ \A s \in Calls : WF_vars(code = "running" /\ TimerFires(s))

FairSpec == Spec /\ Fairness

-----------------------------------------------------------------------------
(* Properties *)

\* An exit with code 0 cuts no connection: whatever signals and errors came
\* together, nothing was accepted after the drain that it waited for
\* (server.js:32-37 before :62).
CleanExitIsDrained == code = "0" => socket = {}

\* An exit with code 0 leaves no job half done, unless one of the steps that
\* end in the catch of server.js:53 failed.
CleanExitEndsJobs == code = "0" => ~job \/ (\E s \in Calls : call[s] = "failed")

\* The process is what a client may expect of a server told to stop, seen from
\* its connections (server.js:17-63, 83-96).
Graceful ==
    INSTANCE GracefulStop WITH
        Conns <- Conns,
        open  <- socket,
        phase <- IF code = "0" THEN "stopped"
                 ELSE IF code # "running" THEN "aborted"
                 ELSE IF server = "none" THEN "starting"
                 ELSE IF server = "closing" THEN "draining"
                 ELSE "serving"

ImplementsGracefulStop == Graceful!Spec

\* What every step of a shutdown may rely on: past server.close a signal's call
\* has seen the last connection end, and past the workers' none has a job.
Drained(s) ==
    /\ call[s] \in {"http", "quit", "workers", "database", "failed"} /\ ~err[s] => server = "closing"
    /\ call[s] = "http" => server = "closing"
    /\ call[s] \in {"database", "workers", "quit", "failed"} /\ ~err[s] => socket = {}
    /\ call[s] = "workers" => ~taking
    /\ call[s] = "quit" => ~taking /\ ~job

ServerInv ==
    /\ server \in {"none", "unbound"} => socket = {}
    /\ \A s \in Calls : Drained(s)
    /\ code = "0" => \E s \in Calls : ~err[s] /\ call[s] \in {"quit", "failed"}

\* Once a shutdown has begun the process exits, whatever its steps and the
\* connections do: that is what the timer of server.js:25-28 is for.
ShutdownEnds == \A s \in Calls : (call[s] # "idle") ~> (code # "running")

\* Every request is answered, unless the process exits or the request needs
\* Redis and Redis is down.  A route outside /api needs it for /health only.
NeedsRedis(req) == req.route \notin {Live, Ready, NoSuch}

RequestsAnswered ==
    \A c \in Conns :
        (stage[c] # "idle") ~>
            \/ stage[c] \in {"answered", "idle"}
            \/ code # "running"
            \/ ~redis /\ NeedsRedis(request[c])

\* "Invalid payload triggers validation error" (auth.test.js:41), a 400: said of
\* the bodies that break the schema of a public route.
InvalidPayloadIs400 ==
    \A c \in Conns :
        (stage[c] = "answered" /\ request[c].body = "wrong" /\ request[c].route \in AuthRoutes
            /\ request[c].route.roles = Anyone)
        => reply[c] \in {400, 429}
=============================================================================
