--------------------------- MODULE RequestPipeline ---------------------------
(***************************************************************************)
(* What the routes, the middlewares and the error handler of the Express   *)
(* application make of one request (src/src/app.js, src/src/routes.js and  *)
(* the routes files of the modules).  There is no state here: the steps a  *)
(* request takes are those of Server.                                      *)
(***************************************************************************)
EXTENDS Naturals

(***************************************************************************)
(* Bodies.  "flat" satisfies the fields the route's schema lists, "nested" *)
(* is such a body in an object { body: ... }, "wrong" is parsed but breaks *)
(* the schema, "none" is no body at all and "malformed" no JSON, or more   *)
(* than the 10 kB that the parser takes.                                   *)
(***************************************************************************)
Bodies == {"none", "flat", "nested", "wrong", "malformed"}
Parsed == Bodies \ {"malformed"}

(***************************************************************************)
(* Callers: without an access token, with one that does not verify or has  *)
(* expired, with one of a user who is gone or BLOCKED, LOCKED, INACTIVE,   *)
(* or the role of the user, as far as a route tells roles apart.           *)
(***************************************************************************)
Roles   == {"CUSTOMER", "ADMIN", "AUDITOR"}
Callers == Roles \cup {"anonymous", "badToken", "gone", "suspended"}
Anyone  == {}                       \* a route without authenticate

-----------------------------------------------------------------------------
(***************************************************************************)
(* errors/*.js and error.middleware.js: only the classes of errors/ have a *)
(* status, some errors of Prisma and of jsonwebtoken are translated into   *)
(* one of them, and everything else is a 500.                              *)
(***************************************************************************)
StatusCode ==
    [BadRequestError |-> 400, UnauthorizedError |-> 401, ForbiddenError |-> 403,
     NotFoundError   |-> 404, ConflictError     |-> 409, ValidationError |-> 422]

Translated ==
    [P2002 |-> "ConflictError", P2025 |-> "NotFoundError", P2003 |-> "BadRequestError",
     TokenExpiredError |-> "UnauthorizedError", JsonWebTokenError |-> "UnauthorizedError"]

errorMiddleware(err) ==
    LET error == IF err \in DOMAIN Translated THEN Translated[err] ELSE err
    IN  IF error \in DOMAIN StatusCode THEN StatusCode[error] ELSE 500

(***************************************************************************)
(* The two validate middlewares, by how a route uses them: the bodies each *)
(* lets through and the error it ends with otherwise.                      *)
(*   object    validation.middleware with a schema of the body             *)
(*   wrapped   validation.middleware with z.object({ body: ... }), which   *)
(*             is parsed against the body                                  *)
(*   parts     validate with an object { body: schema }                    *)
(*   ignored   validate with a z.object, which has no property body        *)
(*   undefined validate with a name its validator does not export          *)
(* A ZodError has no property `errors`, so formatting it throws.           *)
(***************************************************************************)
LetsThrough ==
    [none    |-> Parsed, object |-> {"flat"}, wrapped   |-> {"nested"},
     ignored |-> Parsed, parts  |-> {"flat"}, undefined |-> {}]

Refusal(schema) == IF schema = "parts" THEN "ZodError" ELSE "TypeError"

-----------------------------------------------------------------------------
(***************************************************************************)
(* The routes.  `roles' is who may call one, `schema' how its body is      *)
(* checked, `serves' the bodies with which its handler can succeed,        *)
(* `success' the status it then answers with, and `errors' what else it    *)
(* may end with.  "Error" stands for an error without a class of errors/:  *)
(* a failing query, a TypeError or one of the classes of auth.service.js.  *)
(***************************************************************************)
Route(at, roles, schema, serves, success, errors) ==
    [at |-> at, roles |-> roles, schema |-> schema, serves |-> serves,
     success |-> success, errors |-> errors]

Flat == {"flat"}
Staff == {"ADMIN", "AUDITOR"}

AuthRoutes == {
    Route("POST:/auth/register", Anyone, "object", Flat, 201, {"Error", "P2002"}),
    Route("POST:/auth/login",    Anyone, "object", Flat, 200, {"Error"}),
    Route("POST:/auth/refresh",  Anyone, "object", Flat, 200, {"Error"}),
    Route("POST:/auth/logout",   Roles,  "none", Parsed, 200, {"Error", "P2025"}),
    Route("GET:/auth/profile",   Roles,  "none", Parsed, 200, {"Error"}) }

\* A profile or a password is taken out of the nested body, where it is not.
UserRoutes == {
    Route("GET:/users/me",       Roles, "none", Parsed, 200, {"Error", "NotFoundError"}),
    Route("PATCH:/users/me",     Roles, "wrapped", Flat, 200, {"Error", "NotFoundError"}),
    Route("PATCH:/users/change-password", Roles, "wrapped", Flat, 200, {"Error", "NotFoundError"}),
    Route("DELETE:/users/me",    Roles, "none", Parsed, 200, {"Error", "NotFoundError", "P2025"}),
    Route("GET:/users",          Staff, "none", Parsed, 200, {"Error"}),
    Route("PATCH:/users/:id/status", {"ADMIN"}, "wrapped", Parsed, 200,
          {"Error", "NotFoundError", "P2025"}),
    Route("PATCH:/users/:id/role",   {"ADMIN"}, "wrapped", Parsed, 200,
          {"Error", "NotFoundError", "P2025"}) }

WalletRoutes == {
    Route("POST:/wallet",  Roles, "wrapped", Parsed, 201,
          {"Error", "NotFoundError", "ConflictError", "P2002"}),
    Route("GET:/wallet",   Roles, "none", Parsed, 200, {"Error", "NotFoundError"}),
    Route("PATCH:/wallet/freeze",   {"ADMIN"}, "none", Flat, 200,
          {"Error", "NotFoundError", "BadRequestError"}),
    Route("PATCH:/wallet/unfreeze", {"ADMIN"}, "none", Flat, 200,
          {"Error", "NotFoundError", "BadRequestError"}),
    Route("PATCH:/wallet/close",    Roles, "none", Parsed, 200,
          {"Error", "NotFoundError", "BadRequestError"}) }

\* Of a nested body the amount is undefined, and the insert of the row fails.
Movement(at) ==
    Route(at, Roles, "wrapped", Flat, 200, {"Error", "NotFoundError", "BadRequestError"})

TransactionRoutes == {
    Movement("POST:/transactions/deposit"),
    Movement("POST:/transactions/withdraw"),
    Movement("POST:/transactions/transfer"),
    Route("GET:/transactions",            Roles, "none", Parsed, 200, {"Error", "NotFoundError"}),
    Route("GET:/transactions/:reference", Roles, "none", Parsed, 200, {"Error", "NotFoundError"}) }

\* payment.repository queries the configuration, so the reads and
\* verifyPayment throw; processPayment uses the client of its transaction.
PaymentRoutes == {
    Route("POST:/payments", Roles, "ignored", {"flat", "wrong"}, 201,
          {"Error", "BadRequestError", "ConflictError", "NotFoundError", "P2002"}),
    Route("POST:/payments/verify",    Roles, "ignored", {}, 200, {"TypeError"}),
    Route("POST:/payments/retry",     Roles, "none", Parsed, 200, {}),
    Route("GET:/payments",            Roles, "none", {}, 200, {"TypeError"}),
    Route("GET:/payments/:reference", Roles, "none", {}, 200, {"TypeError"}) }

WebhookRoutes == {
    Route("POST:/webhooks/gateway", Anyone, "undefined", {}, 200, {"TypeError"}) }

LedgerRoutes == {
    Route("GET:/ledger",                 Staff, "none", Parsed, 200, {"Error"}),
    Route("GET:/ledger/:transactionRef", Staff, "none", Parsed, 200, {"Error", "NotFoundError"}) }

\* audit.repository queries the configuration as well.
AuditRoutes == {
    Route(at, Staff, "none", {}, 200, {"TypeError"}) :
        at \in {"GET:/audit", "GET:/audit/user/:id", "GET:/audit/entity/:entity"} }

AccountRoutes == {
    Route("POST:/accounts",    Roles, "parts", Flat, 201, {}),
    Route("GET:/accounts",     Roles, "none", Parsed, 200, {}),
    Route("GET:/accounts/:id", Roles, "none", Parsed, 200, {}) }

\* The routes below /api/v1, which are behind the rate limiter, and those that are not.
apiRouter == AuthRoutes \cup UserRoutes \cup WalletRoutes \cup TransactionRoutes
        \cup PaymentRoutes \cup WebhookRoutes \cup LedgerRoutes \cup AuditRoutes
        \cup AccountRoutes

Live   == Route("GET:/live",   Anyone, "none", Parsed, 200, {})
Ready  == Route("GET:/ready",  Anyone, "none", Parsed, 200, {"Unavailable"})
Health == Route("GET:/health", Anyone, "none", Parsed, 200, {"Unavailable"})
NoSuch == Route("GET:/",       Anyone, "none", {}, 404, {"NotFoundError"})

Routes == apiRouter \cup {Live, Ready, Health, NoSuch}

AllRequests == [route : Routes, body : Bodies, caller : Callers]

-----------------------------------------------------------------------------
(***************************************************************************)
(* The parts of a request between two awaits.  Each yields where the       *)
(* request waits next, or the answer.                                      *)
(***************************************************************************)
Go(stage)   == [stage |-> stage, reply |-> 0]
Say(status) == [stage |-> "answered", reply |-> status]

\* validate, and the entry of the handler.
Validated(req) ==
    IF req.body \in LetsThrough[req.route.schema]
    THEN Go("handler")
    ELSE Say(errorMiddleware(Refusal(req.route.schema)))

\* What comes after the rate limiter: the parsers and the router up to the
\* database check of authenticate, if the route has it.
Routed(req) ==
    IF req.body = "malformed" THEN Say(errorMiddleware("Error"))
    ELSE IF req.route.roles = Anyone THEN Validated(req)
    ELSE IF req.caller \in {"anonymous", "badToken"} THEN Say(401)
    ELSE Go("authenticate")

\* Bug: app.use(limiter), for every path.
LimitedEverywhere(req) == Go("limiter")

\* app.use("/api", limiter) is the first that can wait.
Entered(req) == IF req.route \in apiRouter THEN Go("limiter") ELSE Routed(req)

\* What the user's row says, authorize, and validate.
Authenticated(req) ==
    IF req.caller = "gone" THEN Say(401)
    ELSE IF req.caller = "suspended" THEN Say(403)
    ELSE IF req.caller \notin req.route.roles THEN Say(errorMiddleware("ForbiddenError"))
    ELSE Validated(req)

\* The answers of a handler; those of the health routes come from app.js itself.
Answers(req) ==
    (IF req.body \in req.route.serves THEN {req.route.success} ELSE {})
        \cup {IF e = "Unavailable" THEN 503 ELSE errorMiddleware(e) : e \in req.route.errors}

Statuses == {200, 201, 400, 401, 403, 404, 409, 422, 429, 500, 503}
=============================================================================
