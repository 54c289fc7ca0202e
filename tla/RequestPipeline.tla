-------------------------- MODULE RequestPipeline --------------------------
(***************************************************************************)
(* A request on its way through the middleware (router/router.go): every   *)
(* layer either hands the request to the next one (c.Next) or stops it     *)
(* (c.Abort...), and what a layer does after c.Next happens on the way     *)
(* back.  Requests run concurrently, each in a goroutine of its own; the   *)
(* server (cmd/server/main.go) may be stopped, killed and started again.   *)
(*                                                                         *)
(* The layers that only decorate a request (RequestID, RequestLogger,      *)
(* JWTConfig) are left out, and so are Recovery and ErrorHandler, which    *)
(* act on panics and on c.Error: no handler of the program uses either.    *)
(***************************************************************************)
EXTENDS Naturals, Sequences

CONSTANTS
    Requests,       \* requests, each sent at most once
    Users,          \* registered users
    RoleOf,         \* the role in each user's token
    Nobody          \* the holder of no valid token

ASSUME UsersAssumption == Nobody \notin Users

VARIABLES
    server,         \* "up", "draining" (SIGTERM) or "down"
    req,            \* where each request is
    store,          \* the requests whose write is committed
    audit,          \* the table audit_logs, in the order of its ids
    errors          \* the error log: the requests whose entry failed

vars == <<server, req, store, audit, errors>>

-----------------------------------------------------------------------------
(***************************************************************************)
(* The routes.                                                             *)
(***************************************************************************)

Anyone == {"admin", "safety_manager", "inspector", "worker"}

\* The binding of a registration and the seed know no other role, nothing
\* changes one, and a token carries what its user's row held.
ASSUME RolesAssumption == RoleOf \in [Users -> Anyone]

\* One route for each chain of layers: the method, whether a handler that
\* succeeds has written, the layers of the group and the roles admitted.
Route(method, writes, group, roles) ==
    [method |-> method, writes |-> writes, group |-> group, roles |-> roles]

Guarded(method, writes, roles) ==
    Route(method, writes,
          IF roles = Anyone THEN <<"authRequired">> ELSE <<"authRequired", "requireRole">>,
          roles)

Routes ==
    { Route("POST", TRUE, <<"limiter">>, Anyone),         \* auth/register
      Route("POST", FALSE, <<"limiter">>, Anyone),        \* auth/login
      Guarded("GET", FALSE, Anyone),                      \* the lists and details
      Guarded("GET", FALSE, {"admin"}),                   \* users, audit-logs
      Guarded("POST", TRUE, Anyone),                      \* incidents, certifications
      Guarded("PUT", TRUE, Anyone),                       \* users/me
      Guarded("POST", TRUE, {"admin", "safety_manager"}), \* assign, rectify, close...
      Guarded("POST", TRUE, {"admin", "safety_manager", "inspector"}) } \* inspections

\* engine.Use, then the group's layers, then the handler.
Chain(route) == <<"cors", "auditLog">> \o route.group \o <<"handler">>

-----------------------------------------------------------------------------
(***************************************************************************)
(* The requests.                                                           *)
(***************************************************************************)

Unsent == [way |-> "unsent"]

\* A request on its way in reaches the layers one by one; gin's status is 200
\* until a layer sets another.
Fresh(route, token) ==
    [way |-> "in", at |-> 1, route |-> route, token |-> token,
     user |-> Nobody, status |-> "ok"]

InFlight(r) == req[r].way \in {"in", "out"}

Layer(r) == Chain(req[r].route)[req[r].at]

Reaches(r, layer) == req[r].way = "in" /\ Layer(r) = layer

RoleIn(user) == IF user = Nobody THEN "" ELSE RoleOf[user]

Init ==
    /\ server = "up"
    /\ req = [r \in Requests |-> Unsent]
    /\ store = {}
    /\ audit = << >>
    /\ errors = {}

Send(r, route, token) ==
    /\ server = "up"
    /\ req[r] = Unsent
    /\ req' = [req EXCEPT ![r] = Fresh(route, token)]
    /\ UNCHANGED <<server, store, audit, errors>>

\* c.Next: the request goes on to the next layer.
GoesOn(r) ==
    /\ req' = [req EXCEPT ![r].at = @ + 1]
    /\ UNCHANGED <<server, store, audit, errors>>

\* c.AbortWithStatusJSON: the layers behind this one never run.
Stopped(r) ==
    /\ req' = [req EXCEPT ![r].way = "out", ![r].status = "failed"]
    /\ UNCHANGED <<server, store, audit, errors>>

\* A foreign origin is refused.
Cors(r) ==
    /\ Reaches(r, "cors")
    /\ GoesOn(r) \/ Stopped(r)

\* The audit log acts on the way back.
AuditLogIn(r) ==
    /\ Reaches(r, "auditLog")
    /\ GoesOn(r)

\* The module RateLimiter says which requests pass.
Limiter(r) ==
    /\ Reaches(r, "limiter")
    /\ GoesOn(r) \/ Stopped(r)

\* A missing, a forged or an expired token stops the request: one of a
\* user's may have expired.
AuthRequired(r) ==
    /\ Reaches(r, "authRequired")
    /\ \/ Stopped(r)
       \/ /\ req[r].token \in Users
          /\ req' = [req EXCEPT ![r].user = req[r].token, ![r].at = @ + 1]
          /\ UNCHANGED <<server, store, audit, errors>>

\* A faulty variant: the role is checked, but the request goes on.
RequireRoleWithoutAbort(r) ==
    /\ Reaches(r, "requireRole")
    /\ GoesOn(r)

RequireRole(r) ==
    /\ Reaches(r, "requireRole")
    /\ IF RoleIn(req[r].user) \in req[r].route.roles THEN GoesOn(r) ELSE Stopped(r)

\* The handler answers: what it wrote, if it writes, is committed by then.
Handle(r) ==
    /\ Reaches(r, "handler")
    /\ req' = [req EXCEPT ![r].way = "out"]
    /\ store' = IF req[r].route.writes THEN store \cup {r} ELSE store
    /\ UNCHANGED <<server, audit, errors>>

\* Fail: a binding or a service error.  Mostly nothing is written; but when only
\* the answer of the database was lost, what the handler calls failed is committed.
Refuse(r) ==
    /\ Reaches(r, "handler")
    /\ req' = [req EXCEPT ![r].way = "out", ![r].status = "failed"]
    /\ \/ UNCHANGED store
       \/ req[r].route.writes /\ store' = store \cup {r}
    /\ UNCHANGED <<server, audit, errors>>

-----------------------------------------------------------------------------
(***************************************************************************)
(* The way back.                                                           *)
(***************************************************************************)

\* A faulty variant: failed requests are recorded too.
IsRecordedAlways(r) ==
    /\ req[r].way = "out"
    /\ Layer(r) = "auditLog"
    /\ req[r].route.method # "GET"

\* The audit log leaves alone what only reads and what failed.
IsRecorded(r) ==
    /\ req[r].way = "out"
    /\ Layer(r) = "auditLog"
    /\ req[r].route.method # "GET"
    /\ req[r].status = "ok"

\* The layer in front of this one takes over; in front of the first one is
\* net/http, which sends the answer.
Returned(r) ==
    [req[r] EXCEPT !.at = @ - 1, !.way = IF req[r].at = 1 THEN "answered" ELSE "out"]

Entry(r) == [request |-> r, operator |-> req[r].user]

\* A layer with nothing to do on the way back.
Return(r) ==
    /\ req[r].way = "out"
    /\ ~IsRecorded(r)
    /\ req' = [req EXCEPT ![r] = Returned(r)]
    /\ UNCHANGED <<server, store, audit, errors>>

\* AuditLog after c.Next: one row.
Record(r) ==
    /\ IsRecorded(r)
    /\ audit' = Append(audit, Entry(r))
    /\ req' = [req EXCEPT ![r] = Returned(r)]
    /\ UNCHANGED <<server, store, errors>>

\* A faulty variant: the error of the INSERT is dropped.
RecordFailsSilently(r) ==
    /\ IsRecorded(r)
    /\ req' = [req EXCEPT ![r] = Returned(r)]
    /\ UNCHANGED <<server, store, audit, errors>>

\* The INSERT returns an error, whether it left its row or not: a line in the
\* error log, and the answer is what it was.
RecordFails(r) ==
    /\ IsRecorded(r)
    /\ audit' \in {audit, Append(audit, Entry(r))}
    /\ errors' = errors \cup {r}
    /\ req' = [req EXCEPT ![r] = Returned(r)]
    /\ UNCHANGED <<server, store>>

-----------------------------------------------------------------------------
(***************************************************************************)
(* The server.                                                             *)
(***************************************************************************)

\* SIGINT or SIGTERM: no new connection is accepted.
Terminate ==
    /\ server = "up"
    /\ server' = "draining"
    /\ UNCHANGED <<req, store, audit, errors>>

\* srv.Shutdown returns when every request is answered.
Shutdown ==
    /\ server = "draining"
    /\ \A r \in Requests : ~InFlight(r)
    /\ server' = "down"
    /\ UNCHANGED <<req, store, audit, errors>>

\* A crash, or the end of the five seconds of grace: main returns and the
\* requests under way go with the process.
Die ==
    /\ server # "down"
    /\ server' = "down"
    /\ req' = [r \in Requests |->
                  IF InFlight(r) THEN [req[r] EXCEPT !.way = "lost"] ELSE req[r]]
    /\ UNCHANGED <<store, audit, errors>>

Start ==
    /\ server = "down"
    /\ server' = "up"
    /\ UNCHANGED <<req, store, audit, errors>>

\* What the goroutine of a request does next.
Proceed(r) ==
    \/ Cors(r) \/ AuditLogIn(r) \/ Limiter(r) \/ AuthRequired(r) \/ RequireRole(r)
    \/ Handle(r) \/ Refuse(r)
    \/ Return(r) \/ Record(r) \/ RecordFails(r)

Next ==
    \/ Terminate \/ Shutdown \/ Die \/ Start
    \/ \E r \in Requests :
          \/ Proceed(r)
          \/ \E route \in Routes, token \in Users \cup {Nobody} : Send(r, route, token)

Spec == Init /\ [][Next]_vars

-----------------------------------------------------------------------------
(***************************************************************************)
(* The properties.                                                         *)
(***************************************************************************)

Sent == [way : {"in", "out", "answered", "lost"}, at : 0 .. 5, route : Routes,
         token : Users \cup {Nobody}, user : Users \cup {Nobody},
         status : {"ok", "failed"}]

\* Types: a request under way is at a layer of its chain, and only one that
\* has left the first is answered.
AtALayer(r) ==
    \/ req[r] = Unsent
    \/ /\ req[r] \in Sent
       /\ req[r].at <= Len(Chain(req[r].route))
       /\ (req[r].at = 0) = (req[r].way = "answered")

TypeOK ==
    /\ server \in {"up", "draining", "down"}
    /\ \A r \in Requests : AtALayer(r)
    /\ DOMAIN req = Requests
    /\ store \subseteq Requests
    /\ audit \in Seq([request : Requests, operator : Users \cup {Nobody}])
    /\ errors \subseteq Requests

\* A write is committed only for a request that its route admits: without a
\* token nobody writes except in /auth, with one only in the roles the route
\* names.
WritesAreAdmitted ==
    \A r \in store :
        LET route == req[r].route IN
        /\ route.writes
        /\ route.group # <<"limiter">> =>
              req[r].token \in Users /\ RoleOf[req[r].token] \in route.roles

\* An entry of the audit log tells the truth: the request was let in and did
\* not fail, what it was to write is committed, and the operator is the
\* holder of the token the request came with.  No request has two.
AuditIsTrue ==
    \A i \in DOMAIN audit :
        LET r == audit[i].request IN
        /\ req[r].status = "ok"
        /\ req[r].route.method # "GET"
        /\ req[r].route.writes => r \in store
        /\ audit[i].operator =
              (IF req[r].route.group = <<"limiter">> THEN Nobody ELSE req[r].token)
        /\ \A j \in DOMAIN audit : audit[j].request = r => i = j

\* A committed write that is missing from the audit log is still under way,
\* was cut with the process, was answered as a failure, or is named in the error
\* log: whoever was told that his write succeeded is in one of the two logs,
\* whatever fails and whenever the server is stopped (audit_log.go, main.go).
GapsAreKnown ==
    \A r \in store :
        \/ InFlight(r) \/ req[r].way = "lost" \/ req[r].status = "failed"
        \/ r \in errors
        \/ \E i \in DOMAIN audit : audit[i].request = r

\* The inductive invariant (proved in RequestPipelineProofs).  What the layers
\* behind a request have established about it:
Holder(r) ==
    /\ req[r].route.group = <<"limiter">> => req[r].user = Nobody
    /\ req[r].user # Nobody => req[r].user = req[r].token

LetIn(r) ==
    req[r].route.group # <<"limiter">> =>
        /\ req[r].user = req[r].token
        /\ req[r].token \in Users
        /\ RoleOf[req[r].token] \in req[r].route.roles

\* On the way in: the layers it has passed let it pass.
PassedLayers(r) ==
    req[r].way = "in" =>
        /\ req[r].status = "ok"
        /\ req[r].at > 3 /\ req[r].route.group # <<"limiter">> =>
              req[r].user = req[r].token /\ req[r].token \in Users
        /\ req[r].at = Len(Chain(req[r].route)) => LetIn(r)

\* On the way back: what did not fail went through the handler.
WentThrough(r) ==
    req[r].way \in {"out", "answered"} /\ req[r].status = "ok" =>
        LetIn(r) /\ (req[r].route.writes => r \in store)

HasEntry(r) == \E i \in DOMAIN audit : audit[i].request = r

\* The request has come back through the audit log.
IsPastAuditLog(r) == req[r].way = "answered" \/ (req[r].way = "out" /\ req[r].at < 2)

Committed(r) ==
    r \in store =>
        /\ req[r].way \in {"out", "answered", "lost"}
        /\ req[r].route.writes
        /\ LetIn(r)
        /\ IsPastAuditLog(r) /\ req[r].status = "ok" => r \in errors \/ HasEntry(r)

Recorded(r) == HasEntry(r) => IsPastAuditLog(r) \/ req[r].way = "lost"

Sound(r) ==
    IF req[r] = Unsent THEN r \notin store /\ ~HasEntry(r)
    ELSE Holder(r) /\ PassedLayers(r) /\ WentThrough(r) /\ Committed(r) /\ Recorded(r)

IInv == TypeOK /\ AuditIsTrue /\ \A r \in Requests : Sound(r)
=============================================================================
