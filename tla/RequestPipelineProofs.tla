----------------------- MODULE RequestPipelineProofs -----------------------
(***************************************************************************)
(* Proofs about RequestPipeline for any requests, users and roles: what is *)
(* committed was admitted, what the audit log says is true, and what it    *)
(* lacks is accounted for.  The invariant says of every request what the   *)
(* layers it has passed have established: on the way in who it comes from  *)
(* and what that user may, on the way back whether its write is committed  *)
(* and whether it has its entry.  The last part proves what the limiting   *)
(* layer promises (RateLimiter), which has a state and a clock of its own. *)
(***************************************************************************)
EXTENDS RequestPipeline, RateLimiter, TLAPS, SequenceTheorems, FiniteSetTheorems

-----------------------------------------------------------------------------
(* The routes and their chains. *)

\* What every route of the program has in common.
LEMMA RouteShape ==
    ASSUME NEW route \in Routes
    PROVE  /\ route.writes \in BOOLEAN
           /\ route.writes => route.method # "GET"
           /\ \/ route.group = <<"limiter">>
              \/ route.group = <<"authRequired">> /\ route.roles = Anyone
              \/ route.group = <<"authRequired", "requireRole">>
<1>1. \E method \in {"GET", "POST", "PUT"}, writes \in BOOLEAN, roles \in SUBSET Anyone :
          /\ \/ route = Route(method, writes, <<"limiter">>, Anyone)
             \/ route = Guarded(method, writes, roles)
          /\ writes => method # "GET"
  BY DEF Routes, Anyone
<1>2. PICK method \in {"GET", "POST", "PUT"}, writes \in BOOLEAN, roles \in SUBSET Anyone :
          /\ \/ route = Route(method, writes, <<"limiter">>, Anyone)
             \/ route = Guarded(method, writes, roles)
          /\ writes => method # "GET"
  BY <1>1
<1>3. route.method = method /\ route.writes = writes
  BY <1>2 DEF Route, Guarded
<1>4. \/ route.group = <<"limiter">>
      \/ route.group = <<"authRequired">> /\ route.roles = Anyone
      \/ route.group = <<"authRequired", "requireRole">>
  BY <1>2 DEF Route, Guarded
<1> QED BY <1>2, <1>3, <1>4

\* The places of the layers.
Layers == {"cors", "auditLog", "limiter", "authRequired", "requireRole", "handler"}

LEMMA ChainElements ==
    ASSUME NEW route, route.group \in Seq(Layers)
    PROVE  /\ Len(Chain(route)) = Len(route.group) + 3
           /\ Chain(route)[1] = "cors" /\ Chain(route)[2] = "auditLog"
           /\ \A i \in 1..Len(route.group) : Chain(route)[i + 2] = route.group[i]
           /\ Chain(route)[Len(route.group) + 3] = "handler"
<1> DEFINE front == <<"cors", "auditLog">> \o route.group
<1>1. /\ front \in Seq(Layers) /\ Len(front) = Len(route.group) + 2
      /\ \A i \in 1..Len(front) :
            front[i] = IF i <= 2 THEN <<"cors", "auditLog">>[i] ELSE route.group[i - 2]
  <2>1. <<"cors", "auditLog">> \in Seq(Layers) /\ Len(<<"cors", "auditLog">>) = 2
    BY DEF Layers
  <2> QED BY <2>1, ConcatProperties, SMT
<1>2. /\ Len(front \o <<"handler">>) = Len(front) + 1
      /\ \A i \in 1..Len(front) + 1 :
            (front \o <<"handler">>)[i] =
                IF i <= Len(front) THEN front[i] ELSE <<"handler">>[i - Len(front)]
  <2>1. <<"handler">> \in Seq(Layers) /\ Len(<<"handler">>) = 1
    BY DEF Layers
  <2> HIDE DEF front
  <2> QED BY <1>1, <2>1, ConcatProperties, SMT
<1>3. Chain(route) = front \o <<"handler">>
  BY DEF Chain
<1>4. Len(route.group) \in Nat
  OBVIOUS
<1> HIDE DEF front
<1> QED BY <1>1, <1>2, <1>3, <1>4

LEMMA ChainShape ==
    ASSUME NEW route \in Routes
    PROVE  /\ Chain(route)[1] = "cors" /\ Chain(route)[2] = "auditLog"
           /\ route.group = <<"limiter">> =>
                 /\ Len(Chain(route)) = 4
                 /\ Chain(route)[3] = "limiter" /\ Chain(route)[4] = "handler"
           /\ route.group = <<"authRequired">> =>
                 /\ Len(Chain(route)) = 4
                 /\ Chain(route)[3] = "authRequired" /\ Chain(route)[4] = "handler"
           /\ route.group = <<"authRequired", "requireRole">> =>
                 /\ Len(Chain(route)) = 5
                 /\ Chain(route)[3] = "authRequired" /\ Chain(route)[4] = "requireRole"
                 /\ Chain(route)[5] = "handler"
<1>1. CASE route.group = <<"limiter">>
  <2>1. route.group \in Seq(Layers) /\ Len(route.group) = 1 /\ route.group[1] = "limiter"
    BY <1>1 DEF Layers
  <2>2. Chain(route)[1 + 2] = "limiter"
    BY <2>1, ChainElements
  <2>3. Chain(route)[1] = "cors" /\ Chain(route)[2] = "auditLog"
    BY <2>1, ChainElements
  <2>4. Len(Chain(route)) = 1 + 3 /\ Chain(route)[1 + 3] = "handler"
    BY <2>1, ChainElements
  <2>5. route.group # <<"authRequired">> /\ route.group # <<"authRequired", "requireRole">>
    BY <1>1
  <2> QED BY <1>1, <2>2, <2>3, <2>4, <2>5
<1>2. CASE route.group = <<"authRequired">>
  <2>1. route.group \in Seq(Layers) /\ Len(route.group) = 1 /\ route.group[1] = "authRequired"
    BY <1>2 DEF Layers
  <2>2. Chain(route)[1 + 2] = "authRequired"
    BY <2>1, ChainElements
  <2>3. Chain(route)[1] = "cors" /\ Chain(route)[2] = "auditLog"
    BY <2>1, ChainElements
  <2>4. Len(Chain(route)) = 1 + 3 /\ Chain(route)[1 + 3] = "handler"
    BY <2>1, ChainElements
  <2>5. route.group # <<"limiter">> /\ route.group # <<"authRequired", "requireRole">>
    BY <1>2
  <2> QED BY <1>2, <2>2, <2>3, <2>4, <2>5
<1>3. CASE route.group = <<"authRequired", "requireRole">>
  <2>1. route.group \in Seq(Layers) /\ Len(route.group) = 2
        /\ route.group[1] = "authRequired" /\ route.group[2] = "requireRole"
    BY <1>3 DEF Layers
  <2>2. Chain(route)[1 + 2] = "authRequired" /\ Chain(route)[2 + 2] = "requireRole"
    BY <2>1, ChainElements
  <2>3. Chain(route)[1] = "cors" /\ Chain(route)[2] = "auditLog"
    BY <2>1, ChainElements
  <2>4. Len(Chain(route)) = 2 + 3 /\ Chain(route)[2 + 3] = "handler"
    BY <2>1, ChainElements
  <2>5. route.group # <<"limiter">> /\ route.group # <<"authRequired">>
    BY <1>3
  <2> QED BY <1>3, <2>2, <2>3, <2>4, <2>5
<1> QED BY <1>1, <1>2, <1>3, RouteShape

-----------------------------------------------------------------------------
(* The inductive invariant, one lemma per kind of step. *)

LEMMA InitInv == Init => IInv
<1> SUFFICES ASSUME Init PROVE IInv
  OBVIOUS
<1>1. \A r \in Requests : req[r] = Unsent
  BY DEF Init
<1>2. TypeOK
  BY <1>1 DEF Init, TypeOK, AtALayer
<1> QED BY <1>1, <1>2 DEF Init, IInv, AuditIsTrue, Sound, HasEntry

\* What a request under way is.
LEMMA UnderWay ==
    ASSUME IInv, NEW r \in Requests, req[r].way \in {"in", "out"}
    PROVE  /\ req[r] # Unsent /\ req[r] \in Sent
           /\ req[r].at \in 1..5 /\ req[r].at <= Len(Chain(req[r].route))
           /\ req[r].route \in Routes
           /\ Holder(r) /\ PassedLayers(r) /\ WentThrough(r) /\ Committed(r) /\ Recorded(r)
BY DEF IInv, TypeOK, AtALayer, Unsent, Sent, Sound

\* A step of one request that leaves the log alone: what is known of the others
\* and of the entries stays.
LEMMA OneRequest ==
    ASSUME IInv, NEW r \in Requests, NEW new, req' = [req EXCEPT ![r] = new],
           store' \subseteq Requests, store \subseteq store', store' \subseteq store \cup {r},
           errors' \subseteq Requests, errors \subseteq errors', errors' \subseteq errors \cup {r},
           audit' = audit, server' \in {"up", "draining", "down"},
           AtALayer(r)', Sound(r)',
           HasEntry(r) => /\ new.status = req[r].status /\ new.route = req[r].route
                          /\ new.token = req[r].token
    PROVE  IInv'
<1>1. DOMAIN req' = Requests /\ req'[r] = new
      /\ \A q \in Requests \ {r} : req'[q] = req[q]
  BY DEF IInv, TypeOK
<1>2. TypeOK'
  BY <1>1 DEF IInv, TypeOK, AtALayer
<1>3. \A q \in Requests \ {r} : Sound(q)'
  BY <1>1 DEF IInv, Sound, Holder, PassedLayers, WentThrough, Committed, Recorded,
              LetIn, IsPastAuditLog, HasEntry
<1>4. ASSUME NEW i \in DOMAIN audit
      PROVE  LET q == audit[i].request IN
             /\ req'[q].status = "ok"
             /\ req'[q].route.method # "GET"
             /\ req'[q].route.writes => q \in store'
             /\ audit[i].operator =
                   (IF req'[q].route.group = <<"limiter">> THEN Nobody ELSE req'[q].token)
             /\ \A j \in DOMAIN audit : audit[j].request = q => i = j
  <2> DEFINE q == audit[i].request
  <2> DEFINE Entries == [request : Requests, operator : Users \cup {Nobody}]
  <2>1. audit[i] \in Entries
    <3>1. audit \in Seq(Entries)
      BY DEF IInv, TypeOK
    <3> HIDE DEF Entries
    <3> QED BY <3>1, ElementOfSeq
  <2>2. req'[q].status = req[q].status /\ req'[q].route = req[q].route
        /\ req'[q].token = req[q].token
    <3>1. q \in Requests
      BY <2>1
    <3>2. CASE q = r
      BY <1>1, <3>2 DEF HasEntry
    <3> QED BY <1>1, <3>1, <3>2
  <2> QED BY <2>2 DEF IInv, AuditIsTrue
<1> QED BY <1>2, <1>3, <1>4 DEF IInv, AuditIsTrue

\* A layer sends the request on.
LEMMA GoesOnInv ==
    ASSUME IInv, NEW r \in Requests, req[r].way = "in", GoesOn(r),
           req[r].at < Len(Chain(req[r].route)),
           req[r].at = 3 => req[r].route.group = <<"limiter">>,
           req[r].at > 3 => LetIn(r)
    PROVE  IInv'
<1> DEFINE new == [req[r] EXCEPT !.at = @ + 1]
<1>1. /\ req[r] # Unsent /\ req[r] \in Sent /\ req[r].at \in 1..5 /\ req[r].route \in Routes
      /\ Holder(r) /\ PassedLayers(r) /\ Committed(r) /\ Recorded(r)
  BY UnderWay
<1>2. req' = [req EXCEPT ![r] = new] /\ req'[r] = new
  BY DEF GoesOn, IInv, TypeOK
<1> DEFINE last == Len(Chain(req[r].route))
<1>3. req[r].at < last /\ last \in {4, 5}
  BY <1>1, ChainShape, RouteShape
<1>4. /\ new \in Sent /\ new # Unsent /\ new.at = req[r].at + 1 /\ new.way = "in"
      /\ new.route = req[r].route /\ new.token = req[r].token
      /\ new.user = req[r].user /\ new.status = req[r].status
  <2> HIDE DEF last
  <2>1. req[r].at + 1 \in 0..5
    BY <1>1, <1>3
  <2>2. new \in Sent
    BY <1>1, <2>1 DEF Sent
  <2> QED BY <1>1, <2>2 DEF Sent, Unsent
<1> HIDE DEF new
<1>5. AtALayer(r)'
  <2>1. req[r].at + 1 <= last /\ req[r].at + 1 # 0
    <3> HIDE DEF last
    <3> QED BY <1>1, <1>3
  <2> QED BY <1>1, <1>2, <1>4, <2>1 DEF AtALayer
<1>6. r \notin store /\ ~HasEntry(r)
  BY <1>1 DEF Committed, Recorded, IsPastAuditLog
<1>7. Sound(r)'
  <2>1. Holder(r)' /\ WentThrough(r)' /\ Committed(r)' /\ Recorded(r)'
    BY <1>1, <1>2, <1>4, <1>6
    DEF GoesOn, Holder, WentThrough, Committed, Recorded, HasEntry
  <2>2. req[r].at + 1 > 3 => LetIn(r)
    BY <1>1 DEF LetIn
  <2>3. req[r].at + 1 = last => req[r].at + 1 > 3
    <3> HIDE DEF last
    <3> QED BY <1>1, <1>3
  <2>4. PassedLayers(r)'
    BY <1>1, <1>2, <1>4, <2>2, <2>3 DEF PassedLayers, LetIn
  <2> QED BY <1>2, <1>4, <2>1, <2>4 DEF Sound
<1> QED BY <1>2, <1>5, <1>6, <1>7, OneRequest DEF GoesOn, IInv, TypeOK

\* A layer stops the request.
LEMMA StoppedInv ==
    ASSUME IInv, NEW r \in Requests, req[r].way = "in", Stopped(r)
    PROVE  IInv'
<1> DEFINE new == [req[r] EXCEPT !.way = "out", !.status = "failed"]
<1>1. /\ req[r] # Unsent /\ req[r] \in Sent /\ req[r].at \in 1..5
      /\ Holder(r) /\ Committed(r) /\ Recorded(r) /\ AtALayer(r)
  BY UnderWay DEF IInv, TypeOK
<1>2. req' = [req EXCEPT ![r] = new] /\ req'[r] = new
  BY DEF Stopped, IInv, TypeOK
<1>3. /\ new \in Sent /\ new # Unsent /\ new.at = req[r].at /\ new.way = "out"
      /\ new.route = req[r].route /\ new.token = req[r].token
      /\ new.user = req[r].user /\ new.status = "failed"
  BY <1>1 DEF Sent, Unsent
<1> HIDE DEF new
<1>4. AtALayer(r)'
  BY <1>1, <1>2, <1>3 DEF AtALayer
<1>5. r \notin store /\ ~HasEntry(r)
  BY <1>1 DEF Committed, Recorded, IsPastAuditLog
<1>6. Sound(r)'
  BY <1>1, <1>2, <1>3, <1>5
  DEF Stopped, Sound, Holder, PassedLayers, WentThrough, Committed, Recorded, HasEntry
<1> QED BY <1>2, <1>4, <1>5, <1>6, OneRequest DEF Stopped, IInv, TypeOK

\* Where a request is that reaches a layer.
LEMMA LayerPlace ==
    ASSUME IInv, NEW r \in Requests, NEW layer, Reaches(r, layer)
    PROVE  /\ layer = "cors" => req[r].at = 1
           /\ layer = "auditLog" => req[r].at = 2
           /\ layer = "limiter" => req[r].at = 3 /\ req[r].route.group = <<"limiter">>
           /\ layer = "authRequired" =>
                 /\ req[r].at = 3
                 /\ \/ req[r].route.group = <<"authRequired">> /\ req[r].route.roles = Anyone
                    \/ req[r].route.group = <<"authRequired", "requireRole">>
           /\ layer = "requireRole" =>
                 /\ req[r].at = 4
                 /\ req[r].route.group = <<"authRequired", "requireRole">>
           /\ layer = "handler" => req[r].at = Len(Chain(req[r].route))
           /\ layer # "handler" => req[r].at < Len(Chain(req[r].route))
<1> DEFINE route == req[r].route
           last == Len(Chain(route))
<1>1. /\ req[r].at \in 1..5 /\ req[r].at <= last /\ route \in Routes
      /\ layer = Chain(route)[req[r].at]
  BY UnderWay DEF Reaches, Layer
<1>2. /\ Chain(route)[1] = "cors" /\ Chain(route)[2] = "auditLog"
      /\ \/ /\ route.group = <<"limiter">> /\ last = 4
            /\ Chain(route)[3] = "limiter" /\ Chain(route)[4] = "handler"
         \/ /\ route.group = <<"authRequired">> /\ route.roles = Anyone /\ last = 4
            /\ Chain(route)[3] = "authRequired" /\ Chain(route)[4] = "handler"
         \/ /\ route.group = <<"authRequired", "requireRole">> /\ last = 5
            /\ Chain(route)[3] = "authRequired" /\ Chain(route)[4] = "requireRole"
            /\ Chain(route)[5] = "handler"
  BY <1>1, ChainShape, RouteShape
<1> HIDE DEF last, route
<1>3. req[r].at \in {1, 2, 3, 4, 5}
  BY <1>1
<1>4. /\ layer = "cors" => req[r].at = 1
      /\ layer = "auditLog" => req[r].at = 2
      /\ layer = "limiter" => req[r].at = 3 /\ route.group = <<"limiter">>
      /\ layer = "authRequired" =>
            /\ req[r].at = 3
            /\ \/ route.group = <<"authRequired">> /\ route.roles = Anyone
               \/ route.group = <<"authRequired", "requireRole">>
      /\ layer = "requireRole" =>
            req[r].at = 4 /\ route.group = <<"authRequired", "requireRole">>
      /\ layer = "handler" => req[r].at = last
      /\ layer # "handler" => req[r].at < last
  BY <1>1, <1>2, <1>3
<1> QED BY <1>4 DEF last, route

\* The token is checked: the user is known from here on.
LEMMA AuthRequiredInv ==
    ASSUME IInv, NEW r \in Requests, AuthRequired(r)
    PROVE  IInv'
<1>1. CASE Stopped(r)
  BY <1>1, StoppedInv DEF AuthRequired, Reaches
<1>2. CASE /\ req[r].token \in Users
           /\ req' = [req EXCEPT ![r].user = req[r].token, ![r].at = @ + 1]
           /\ UNCHANGED <<server, store, audit, errors>>
  <2> DEFINE new == [req[r] EXCEPT !.user = req[r].token, !.at = @ + 1]
             last == Len(Chain(req[r].route))
  <2>1. /\ req[r].way = "in" /\ req[r].at = 3 /\ req[r].route.group # <<"limiter">>
        /\ \/ req[r].route.group = <<"authRequired">> /\ req[r].route.roles = Anyone
           \/ req[r].route.group = <<"authRequired", "requireRole">> /\ last = 5
    <3>1. /\ req[r].way = "in" /\ req[r].at = 3 /\ req[r].route \in Routes
          /\ \/ req[r].route.group = <<"authRequired">> /\ req[r].route.roles = Anyone
             \/ req[r].route.group = <<"authRequired", "requireRole">>
      BY LayerPlace, UnderWay DEF AuthRequired, Reaches
    <3> QED BY <3>1, ChainShape
  <2>2. /\ req[r] # Unsent /\ req[r] \in Sent /\ req[r].route \in Routes
        /\ Holder(r) /\ Committed(r) /\ Recorded(r) /\ req[r].status = "ok"
    BY <2>1, UnderWay DEF PassedLayers
  <2>3. last \in {4, 5}
    BY <2>2, ChainShape, RouteShape
  <2>4. req' = [req EXCEPT ![r] = new] /\ req'[r] = new
    BY <1>2 DEF IInv, TypeOK
  <2>5. /\ new \in Sent /\ new # Unsent /\ new.at = 4 /\ new.way = "in"
        /\ new.route = req[r].route /\ new.token = req[r].token
        /\ new.user = req[r].token /\ new.status = req[r].status
    <3>1. req[r].at + 1 = 4 /\ req[r].at + 1 \in 0..5
      BY <2>1
    <3>2. new \in Sent
      BY <1>2, <2>2, <3>1 DEF Sent
    <3> QED BY <2>1, <2>2, <3>1, <3>2 DEF Sent, Unsent
  <2> HIDE DEF new
  <2>6. AtALayer(r)'
    <3>1. 4 <= last
      <4> HIDE DEF last
      <4> QED BY <2>3
    <3> QED BY <2>4, <2>5, <3>1 DEF AtALayer
  <2>7. r \notin store /\ ~HasEntry(r)
    BY <2>1, <2>2 DEF Committed, Recorded, IsPastAuditLog
  <2>8. last = 4 => RoleOf[req[r].token] \in req[r].route.roles
    <3> HIDE DEF last
    <3> QED BY <1>2, <2>1, RolesAssumption
  <2>9. Sound(r)'
    <3>1. Holder(r)' /\ WentThrough(r)' /\ Committed(r)' /\ Recorded(r)'
      BY <1>2, <2>1, <2>4, <2>5, <2>7
      DEF Holder, WentThrough, Committed, Recorded, HasEntry
    <3>2. PassedLayers(r)'
      BY <1>2, <2>2, <2>4, <2>5, <2>8 DEF PassedLayers, LetIn
    <3> QED BY <2>4, <2>5, <3>1, <3>2 DEF Sound
  <2> QED BY <1>2, <2>4, <2>6, <2>7, <2>9, OneRequest DEF IInv, TypeOK
<1> QED BY <1>1, <1>2 DEF AuthRequired

\* The role is checked: the user the token named may use the route.
LEMMA RequireRoleInv ==
    ASSUME IInv, NEW r \in Requests, RequireRole(r)
    PROVE  IInv'
<1>1. /\ req[r].way = "in" /\ req[r].at = 4 /\ req[r].at < Len(Chain(req[r].route))
      /\ req[r].route.group = <<"authRequired", "requireRole">>
  BY LayerPlace DEF RequireRole, Reaches
<1>2. CASE RoleIn(req[r].user) \in req[r].route.roles /\ GoesOn(r)
  <2>1. req[r].user = req[r].token /\ req[r].token \in Users
    BY <1>1, UnderWay DEF PassedLayers
  <2>2. LetIn(r)
    BY <1>2, <2>1, UsersAssumption DEF LetIn, RoleIn
  <2> QED BY <1>1, <1>2, <2>2, GoesOnInv
<1>3. CASE Stopped(r)
  BY <1>1, <1>3, StoppedInv
<1> QED BY <1>2, <1>3 DEF RequireRole

\* The layers that let a request pass or not without a look at its user.
LEMMA DoorInv ==
    ASSUME IInv, NEW r \in Requests, Cors(r) \/ AuditLogIn(r) \/ Limiter(r)
    PROVE  IInv'
<1>1. /\ req[r].way = "in" /\ req[r].at < Len(Chain(req[r].route))
      /\ \/ req[r].at \in {1, 2}
         \/ req[r].at = 3 /\ req[r].route.group = <<"limiter">>
  BY LayerPlace DEF Cors, AuditLogIn, Limiter, Reaches
<1>2. CASE GoesOn(r)
  BY <1>1, <1>2, GoesOnInv
<1>3. CASE Stopped(r)
  BY <1>1, <1>3, StoppedInv
<1> QED BY <1>2, <1>3 DEF Cors, AuditLogIn, Limiter

\* The handler answers.
LEMMA HandleInv ==
    ASSUME IInv, NEW r \in Requests, Handle(r)
    PROVE  IInv'
<1> DEFINE new == [req[r] EXCEPT !.way = "out"]
           last == Len(Chain(req[r].route))
<1>1. /\ req[r].way = "in" /\ req[r] # Unsent /\ req[r] \in Sent /\ req[r].at \in 1..5
      /\ req[r].route \in Routes /\ AtALayer(r)
      /\ Holder(r) /\ PassedLayers(r) /\ Committed(r) /\ Recorded(r)
  BY UnderWay DEF Handle, Reaches, IInv, TypeOK
<1>2. LetIn(r)
  BY <1>1, LayerPlace DEF Handle, PassedLayers
<1>3. req' = [req EXCEPT ![r] = new] /\ req'[r] = new
  BY DEF Handle, IInv, TypeOK
<1>4. /\ new \in Sent /\ new # Unsent /\ new.at = req[r].at /\ new.way = "out"
      /\ new.route = req[r].route /\ new.token = req[r].token
      /\ new.user = req[r].user /\ new.status = req[r].status
  BY <1>1 DEF Sent, Unsent
<1> HIDE DEF new
<1>5. AtALayer(r)'
  BY <1>1, <1>3, <1>4 DEF AtALayer
<1>6. r \notin store /\ ~HasEntry(r)
  BY <1>1 DEF Committed, Recorded, IsPastAuditLog
<1>7. req[r].at >= 2
  <2>1. last \in {4, 5} /\ req[r].at = last
    BY <1>1, LayerPlace, ChainShape, RouteShape DEF Handle
  <2> HIDE DEF last
  <2> QED BY <2>1
<1>8. Sound(r)'
  <2>1. Holder(r)' /\ PassedLayers(r)' /\ Recorded(r)'
    BY <1>1, <1>3, <1>4, <1>6 DEF Handle, Holder, PassedLayers, Recorded, HasEntry
  <2>2. LetIn(r)'
    BY <1>2, <1>3, <1>4 DEF LetIn
  <2>3. ~IsPastAuditLog(r)'
    BY <1>1, <1>3, <1>4, <1>7 DEF IsPastAuditLog
  <2>4. WentThrough(r)' /\ Committed(r)'
    <3>1. r \in store' <=> req'[r].route.writes
      BY <1>1, <1>3, <1>4, <1>6, RouteShape DEF Handle
    <3>2. req[r].status = "ok"
      BY <1>1 DEF PassedLayers
    <3> QED BY <1>3, <1>4, <2>2, <2>3, <3>1, <3>2 DEF WentThrough, Committed
  <2> QED BY <1>3, <1>4, <2>1, <2>4 DEF Sound
<1> QED BY <1>3, <1>5, <1>6, <1>8, OneRequest DEF Handle, IInv, TypeOK

\* The handler fails: what it was to write may be committed all the same.
LEMMA RefuseInv ==
    ASSUME IInv, NEW r \in Requests, Refuse(r)
    PROVE  IInv'
<1> DEFINE new == [req[r] EXCEPT !.way = "out", !.status = "failed"]
           last == Len(Chain(req[r].route))
<1>1. /\ req[r].way = "in" /\ req[r] # Unsent /\ req[r] \in Sent /\ req[r].at \in 1..5
      /\ req[r].route \in Routes /\ AtALayer(r)
      /\ Holder(r) /\ PassedLayers(r) /\ Committed(r) /\ Recorded(r)
  BY UnderWay DEF Refuse, Reaches, IInv, TypeOK
<1>2. LetIn(r)
  BY <1>1, LayerPlace DEF Refuse, PassedLayers
<1>3. req' = [req EXCEPT ![r] = new] /\ req'[r] = new
  BY DEF Refuse, IInv, TypeOK
<1>4. /\ new \in Sent /\ new # Unsent /\ new.at = req[r].at /\ new.way = "out"
      /\ new.route = req[r].route /\ new.token = req[r].token
      /\ new.user = req[r].user /\ new.status = "failed"
  BY <1>1 DEF Sent, Unsent
<1> HIDE DEF new
<1>5. AtALayer(r)'
  BY <1>1, <1>3, <1>4 DEF AtALayer
<1>6. r \notin store /\ ~HasEntry(r)
  BY <1>1 DEF Committed, Recorded, IsPastAuditLog
<1>7. req[r].at >= 2
  <2>1. last \in {4, 5} /\ req[r].at = last
    BY <1>1, LayerPlace, ChainShape, RouteShape DEF Refuse
  <2> HIDE DEF last
  <2> QED BY <2>1
<1>8. Sound(r)'
  <2>1. Holder(r)' /\ PassedLayers(r)' /\ Recorded(r)'
    BY <1>1, <1>3, <1>4, <1>6 DEF Refuse, Holder, PassedLayers, Recorded, HasEntry
  <2>2. LetIn(r)'
    BY <1>2, <1>3, <1>4 DEF LetIn
  <2>3. ~IsPastAuditLog(r)'
    BY <1>1, <1>3, <1>4, <1>7 DEF IsPastAuditLog
  <2>4. WentThrough(r)' /\ Committed(r)'
    <3>1. r \in store' => req'[r].route.writes
      BY <1>1, <1>3, <1>4, <1>6 DEF Refuse
    <3> QED BY <1>3, <1>4, <2>2, <2>3, <3>1 DEF WentThrough, Committed
  <2> QED BY <1>3, <1>4, <2>1, <2>4 DEF Sound
<1> QED BY <1>3, <1>5, <1>6, <1>8, OneRequest DEF Refuse, IInv, TypeOK

\* What a request is when a layer has let it go back.
LEMMA ReturnedShape ==
    ASSUME IInv, NEW r \in Requests, req[r].way = "out",
           req' = [req EXCEPT ![r] = Returned(r)]
    PROVE  /\ req'[r] = Returned(r) /\ Returned(r) # Unsent
           /\ Returned(r).at = req[r].at - 1
           /\ Returned(r).way = (IF req[r].at = 1 THEN "answered" ELSE "out")
           /\ Returned(r).route = req[r].route /\ Returned(r).token = req[r].token
           /\ Returned(r).user = req[r].user /\ Returned(r).status = req[r].status
           /\ AtALayer(r)'
<1> DEFINE last == Len(Chain(req[r].route))
<1>1. /\ req[r] # Unsent /\ req[r] \in Sent /\ req[r].at \in 1..5 /\ req[r].at <= last
      /\ req[r].route \in Routes
  BY UnderWay
<1>2. req'[r] = Returned(r)
  BY DEF IInv, TypeOK
<1>3. last \in {4, 5}
  BY <1>1, ChainShape, RouteShape
<1>4. req[r].at - 1 \in 0..5 /\ (req[r].at - 1 = 0) = (req[r].at = 1) /\ req[r].at - 1 <= last
  <2> HIDE DEF last
  <2> QED BY <1>1, <1>3
<1>5. /\ Returned(r).at = req[r].at - 1
      /\ Returned(r).way = (IF req[r].at = 1 THEN "answered" ELSE "out")
      /\ Returned(r).route = req[r].route /\ Returned(r).token = req[r].token
      /\ Returned(r).user = req[r].user /\ Returned(r).status = req[r].status
  BY <1>1 DEF Returned, Sent
<1>6. Returned(r) \in Sent /\ Returned(r) # Unsent
  BY <1>1, <1>4, <1>5 DEF Returned, Sent, Unsent
<1>7. AtALayer(r)'
  BY <1>2, <1>4, <1>5, <1>6 DEF AtALayer
<1> QED BY <1>2, <1>5, <1>6, <1>7

\* A layer with nothing to do lets the request go back: if that is the audit
\* log, there is nothing to record.
LEMMA ReturnInv ==
    ASSUME IInv, NEW r \in Requests, Return(r)
    PROVE  IInv'
<1>1. /\ req[r].way = "out" /\ req[r] # Unsent /\ req[r].at \in 1..5 /\ req[r].route \in Routes
      /\ Holder(r) /\ WentThrough(r) /\ Committed(r) /\ Recorded(r)
  BY UnderWay DEF Return
<1>2. req' = [req EXCEPT ![r] = Returned(r)] /\ store' = store /\ errors' = errors
      /\ audit' = audit /\ server' = server
  BY DEF Return
<1>3. /\ req'[r] = Returned(r) /\ Returned(r) # Unsent
      /\ Returned(r).at = req[r].at - 1
      /\ Returned(r).way = (IF req[r].at = 1 THEN "answered" ELSE "out")
      /\ Returned(r).route = req[r].route /\ Returned(r).token = req[r].token
      /\ Returned(r).user = req[r].user /\ Returned(r).status = req[r].status
      /\ AtALayer(r)'
  BY <1>1, <1>2, ReturnedShape
<1>4. LetIn(r)' <=> LetIn(r)
  BY <1>3 DEF LetIn
<1>5. HasEntry(r)' <=> HasEntry(r)
  BY <1>2 DEF HasEntry
<1>6. IsPastAuditLog(r) => IsPastAuditLog(r)'
  BY <1>1, <1>3 DEF IsPastAuditLog
<1>7. r \in store /\ IsPastAuditLog(r)' /\ req[r].status = "ok" => IsPastAuditLog(r)
  <2> SUFFICES ASSUME r \in store, IsPastAuditLog(r)', req[r].status = "ok",
                      ~IsPastAuditLog(r)
               PROVE  FALSE
    OBVIOUS
  <2>1. req[r].at = 2
    BY <1>1, <1>3 DEF IsPastAuditLog
  <2>2. Layer(r) = "auditLog"
    BY <1>1, <2>1, ChainShape DEF Layer
  <2>3. req[r].route.method # "GET"
    BY <1>1, RouteShape DEF Committed
  <2> QED BY <1>1, <2>2, <2>3 DEF Return, IsRecorded
<1>8. Sound(r)'
  <2>1. Holder(r)' /\ PassedLayers(r)'
    BY <1>1, <1>3 DEF Holder, PassedLayers
  <2>2. WentThrough(r)'
    BY <1>1, <1>2, <1>3, <1>4 DEF WentThrough
  <2>3. Committed(r)'
    BY <1>1, <1>2, <1>3, <1>4, <1>5, <1>7 DEF Committed
  <2>4. Recorded(r)'
    BY <1>1, <1>5, <1>6 DEF Recorded
  <2> QED BY <1>3, <2>1, <2>2, <2>3, <2>4 DEF Sound
<1> QED BY <1>2, <1>3, <1>8, OneRequest DEF IInv, TypeOK

\* The audit log writes its entry: the first of this request, and a true one.
\* That holds whether the INSERT succeeds or returns an error.
Enters(r) ==
    /\ IsRecorded(r)
    /\ req' = [req EXCEPT ![r] = Returned(r)]
    /\ audit' = Append(audit, Entry(r))
    /\ errors' \in {errors, errors \cup {r}}
    /\ UNCHANGED <<server, store>>

LEMMA EntryInv ==
    ASSUME IInv, NEW r \in Requests, Enters(r)
    PROVE  IInv'
<1> DEFINE Entries == [request : Requests, operator : Users \cup {Nobody}]
           n == Len(audit)
<1>1. /\ req[r].way = "out" /\ req[r] # Unsent /\ req[r].at \in 1..5 /\ req[r].route \in Routes
      /\ req[r] \in Sent
      /\ Holder(r) /\ WentThrough(r) /\ Committed(r) /\ Recorded(r)
      /\ req[r].status = "ok" /\ req[r].route.method # "GET" /\ Layer(r) = "auditLog"
  BY UnderWay DEF Enters, IsRecorded
<1>2. /\ req' = [req EXCEPT ![r] = Returned(r)] /\ store' = store
      /\ audit' = Append(audit, Entry(r)) /\ server' = server
      /\ errors \subseteq errors' /\ errors' \subseteq Requests
  BY DEF Enters, IInv, TypeOK
<1>3. /\ req'[r] = Returned(r) /\ Returned(r) # Unsent
      /\ Returned(r).at = req[r].at - 1
      /\ Returned(r).way = (IF req[r].at = 1 THEN "answered" ELSE "out")
      /\ Returned(r).route = req[r].route /\ Returned(r).token = req[r].token
      /\ Returned(r).user = req[r].user /\ Returned(r).status = req[r].status
      /\ AtALayer(r)'
  BY <1>1, <1>2, ReturnedShape
<1>4. req[r].at = 2
  <2>1. /\ Chain(req[r].route)[1] # "auditLog" /\ Chain(req[r].route)[3] # "auditLog"
        /\ Chain(req[r].route)[4] # "auditLog"
        /\ req[r].at = 5 => Chain(req[r].route)[5] # "auditLog"
    <3> DEFINE last == Len(Chain(req[r].route))
    <3>1. req[r].at <= last /\ last \in {4, 5}
      BY <1>1, UnderWay, ChainShape, RouteShape
    <3>2. req[r].at = 5 => last = 5
      <4> HIDE DEF last
      <4> QED BY <1>1, <3>1
    <3> QED BY <1>1, <3>2, ChainShape, RouteShape
  <2>2. Chain(req[r].route)[req[r].at] = "auditLog"
    BY <1>1 DEF Layer
  <2>3. req[r].at \in {1, 2, 3, 4, 5}
    BY <1>1
  <2> QED BY <2>1, <2>2, <2>3
<1>5. ~HasEntry(r)
  BY <1>1, <1>4 DEF Recorded, IsPastAuditLog
<1>6. audit \in Seq(Entries) /\ Entry(r) \in Entries
  BY <1>1 DEF IInv, TypeOK, Entry, Sent
<1>7. /\ audit' \in Seq(Entries) /\ n \in Nat
      /\ DOMAIN audit = 1..n /\ DOMAIN audit' = 1..(n + 1)
      /\ \A i \in 1..n : audit'[i] = audit[i] /\ audit[i] \in Entries
      /\ audit'[n + 1] = Entry(r)
  <2> HIDE DEF Entries
  <2> QED BY <1>2, <1>6, AppendProperties, ElementOfSeq
<1>8. TypeOK'
  BY <1>2, <1>3, <1>7 DEF IInv, TypeOK, AtALayer
<1> HIDE DEF n
<1>9. /\ HasEntry(r)'
      /\ \A q \in Requests \ {r} : HasEntry(q)' <=> HasEntry(q)
  BY <1>7 DEF HasEntry, Entry
<1>10. \A q \in Requests : Sound(q)'
  <2>1. \A q \in Requests \ {r} : req'[q] = req[q]
    BY <1>2
  <2>2. \A q \in Requests \ {r} : Sound(q)'
    BY <1>2, <1>9, <2>1
    DEF IInv, Sound, Holder, PassedLayers, WentThrough, Committed, Recorded,
        LetIn, IsPastAuditLog
  <2>3. IsPastAuditLog(r)'
    BY <1>3, <1>4 DEF IsPastAuditLog
  <2>4. Sound(r)'
    <3>1. Holder(r)' /\ PassedLayers(r)' /\ Recorded(r)'
      BY <1>1, <1>3, <2>3 DEF Holder, PassedLayers, Recorded
    <3>2. WentThrough(r)' /\ Committed(r)'
      BY <1>1, <1>2, <1>3, <1>4, <1>9 DEF WentThrough, Committed, LetIn
    <3> QED BY <1>3, <3>1, <3>2 DEF Sound
  <2> QED BY <2>2, <2>4
<1>11. AuditIsTrue'
  <2> DEFINE True(i) ==
          LET q == audit'[i].request IN
          /\ req'[q].status = "ok"
          /\ req'[q].route.method # "GET"
          /\ req'[q].route.writes => q \in store'
          /\ audit'[i].operator =
                (IF req'[q].route.group = <<"limiter">> THEN Nobody ELSE req'[q].token)
          /\ \A j \in DOMAIN audit' : audit'[j].request = q => i = j
  <2>1. ASSUME NEW i \in 1..n PROVE True(i)
    <3>1. audit'[i] = audit[i] /\ audit[i].request \in Requests /\ audit[i].request # r
      BY <1>5, <1>7 DEF HasEntry
    <3>2. req'[audit[i].request] = req[audit[i].request]
      BY <1>2, <3>1
    <3>3. /\ req[audit[i].request].status = "ok"
          /\ req[audit[i].request].route.method # "GET"
          /\ req[audit[i].request].route.writes => audit[i].request \in store
          /\ audit[i].operator =
                (IF req[audit[i].request].route.group = <<"limiter">> THEN Nobody
                 ELSE req[audit[i].request].token)
          /\ \A j \in 1..n : audit[j].request = audit[i].request => i = j
      BY <1>7 DEF IInv, AuditIsTrue
    <3>4. \A j \in DOMAIN audit' : audit'[j].request = audit[i].request => i = j
      <4> SUFFICES ASSUME NEW j \in 1..(n + 1), audit'[j].request = audit[i].request
                   PROVE  i = j
        BY <1>7
      <4>1. j # n + 1
        BY <1>7, <3>1 DEF Entry
      <4>2. j \in 1..n
        BY <1>7, <4>1
      <4> QED BY <1>7, <3>3, <4>2
    <3> QED BY <1>2, <3>1, <3>2, <3>3, <3>4
  <2>2. True(n + 1)
    <3>1. audit'[n + 1].request = r /\ audit'[n + 1].operator = req[r].user
      BY <1>7 DEF Entry
    <3>2. req[r].user =
              (IF req[r].route.group = <<"limiter">> THEN Nobody ELSE req[r].token)
      BY <1>1 DEF Holder, WentThrough, LetIn
    <3>3. \A j \in DOMAIN audit' : audit'[j].request = r => n + 1 = j
      BY <1>5, <1>7 DEF HasEntry
    <3>4. req[r].route.writes => r \in store'
      BY <1>1, <1>2 DEF WentThrough
    <3> QED BY <1>1, <1>3, <3>1, <3>2, <3>3, <3>4
  <2>3. \A i \in DOMAIN audit' : True(i)
    <3> HIDE DEF True
    <3> QED BY <1>7, <2>1, <2>2
  <2> QED BY <2>3 DEF AuditIsTrue
<1> QED BY <1>8, <1>10, <1>11 DEF IInv

\* The INSERT of the entry fails and leaves no row: that is in the error log.
LEMMA NoEntryInv ==
    ASSUME IInv, NEW r \in Requests, RecordFails(r), audit' = audit
    PROVE  IInv'
<1>1. /\ req[r].way = "out" /\ req[r] # Unsent /\ req[r].at \in 1..5
      /\ Holder(r) /\ WentThrough(r) /\ Committed(r) /\ Recorded(r)
  BY UnderWay DEF RecordFails, IsRecorded
<1>2. req' = [req EXCEPT ![r] = Returned(r)] /\ store' = store
      /\ errors' = errors \cup {r} /\ audit' = audit /\ server' = server
  BY DEF RecordFails
<1>3. /\ req'[r] = Returned(r) /\ Returned(r) # Unsent
      /\ Returned(r).at = req[r].at - 1
      /\ Returned(r).way = (IF req[r].at = 1 THEN "answered" ELSE "out")
      /\ Returned(r).route = req[r].route /\ Returned(r).token = req[r].token
      /\ Returned(r).user = req[r].user /\ Returned(r).status = req[r].status
      /\ AtALayer(r)'
  BY <1>1, <1>2, ReturnedShape
<1>4. LetIn(r)' <=> LetIn(r)
  BY <1>3 DEF LetIn
<1>5. HasEntry(r)' <=> HasEntry(r)
  BY <1>2 DEF HasEntry
<1>6. IsPastAuditLog(r) => IsPastAuditLog(r)'
  BY <1>1, <1>3 DEF IsPastAuditLog
<1>7. Sound(r)'
  <2>1. Holder(r)' /\ PassedLayers(r)'
    BY <1>1, <1>3 DEF Holder, PassedLayers
  <2>2. WentThrough(r)' /\ Committed(r)'
    BY <1>1, <1>2, <1>3, <1>4 DEF WentThrough, Committed
  <2>3. Recorded(r)'
    BY <1>1, <1>5, <1>6 DEF Recorded
  <2> QED BY <1>3, <2>1, <2>2, <2>3 DEF Sound
<1> QED BY <1>2, <1>3, <1>7, OneRequest DEF IInv, TypeOK

\* The audit log on the way back, whatever becomes of its INSERT.
LEMMA RecordInv ==
    ASSUME IInv, NEW r \in Requests, Record(r) \/ RecordFails(r)
    PROVE  IInv'
<1>1. CASE Record(r)
  BY <1>1, EntryInv DEF Record, Enters
<1>2. CASE RecordFails(r) /\ audit' = audit
  BY <1>2, NoEntryInv
<1>3. CASE RecordFails(r) /\ audit' = Append(audit, Entry(r))
  BY <1>3, EntryInv DEF RecordFails, Enters
<1> QED BY <1>1, <1>2, <1>3 DEF RecordFails

\* A new request has everything in front of it.
LEMMA SendInv ==
    ASSUME IInv, NEW r \in Requests, NEW route \in Routes, NEW token \in Users \cup {Nobody},
           Send(r, route, token)
    PROVE  IInv'
<1> DEFINE last == Len(Chain(route))
<1>1. /\ req' = [req EXCEPT ![r] = Fresh(route, token)] /\ req[r] = Unsent
      /\ store' = store /\ errors' = errors /\ audit' = audit /\ server' = server
      /\ req'[r] = Fresh(route, token)
  BY DEF Send, IInv, TypeOK
<1>2. r \notin store /\ ~HasEntry(r)
  BY <1>1 DEF IInv, Sound
<1>3. last \in {4, 5}
  BY ChainShape, RouteShape
<1>4. 1 <= last /\ 1 # last
  <2> HIDE DEF last
  <2> QED BY <1>3
<1>5. AtALayer(r)'
  BY <1>1, <1>4 DEF AtALayer, Fresh, Sent
<1>6. Sound(r)'
  BY <1>1, <1>2, <1>4
  DEF Sound, Fresh, Unsent, Holder, PassedLayers, WentThrough, Committed, Recorded, HasEntry
<1> QED BY <1>1, <1>2, <1>5, <1>6, OneRequest DEF IInv, TypeOK

\* The process ends: what it was working on is lost, as far as it got.
LEMMA DieInv ==
    ASSUME IInv, Die
    PROVE  IInv'
<1>1. /\ store' = store /\ errors' = errors /\ audit' = audit /\ server' = "down"
      /\ DOMAIN req' = Requests
      /\ \A r \in Requests :
            req'[r] = IF InFlight(r) THEN [req[r] EXCEPT !.way = "lost"] ELSE req[r]
  BY DEF Die
<1>2. ASSUME NEW r \in Requests, InFlight(r)
      PROVE  /\ req'[r] # Unsent /\ req'[r].way = "lost"
             /\ req'[r].at = req[r].at /\ req'[r].status = req[r].status
             /\ req'[r].route = req[r].route /\ req'[r].token = req[r].token
             /\ req'[r].user = req[r].user
             /\ AtALayer(r)' /\ Sound(r)'
  <2>1. /\ req[r] # Unsent /\ req[r] \in Sent /\ req[r].at \in 1..5
        /\ req[r].at <= Len(Chain(req[r].route))
        /\ Holder(r) /\ Committed(r) /\ Recorded(r)
    BY <1>2, UnderWay DEF InFlight
  <2>2. /\ req'[r] # Unsent /\ req'[r].way = "lost" /\ req'[r] \in Sent
        /\ req'[r].at = req[r].at /\ req'[r].status = req[r].status
        /\ req'[r].route = req[r].route /\ req'[r].token = req[r].token
        /\ req'[r].user = req[r].user
    BY <1>1, <1>2, <2>1 DEF Sent, Unsent
  <2>3. AtALayer(r)'
    BY <2>1, <2>2 DEF AtALayer
  <2>4. Sound(r)'
    BY <1>1, <2>1, <2>2
    DEF Sound, Holder, PassedLayers, WentThrough, Committed, Recorded, LetIn,
        IsPastAuditLog, HasEntry
  <2> QED BY <2>2, <2>3, <2>4
<1>3. ASSUME NEW r \in Requests, ~InFlight(r)
      PROVE  req'[r] = req[r] /\ AtALayer(r)' /\ Sound(r)'
  BY <1>1, <1>3
  DEF IInv, TypeOK, AtALayer, Sound, Holder, PassedLayers, WentThrough, Committed,
      Recorded, LetIn, IsPastAuditLog, HasEntry
<1>4. TypeOK'
  BY <1>1, <1>2, <1>3 DEF IInv, TypeOK
<1>5. ASSUME NEW r \in Requests, HasEntry(r)
      PROVE  /\ req'[r].status = req[r].status /\ req'[r].route = req[r].route
             /\ req'[r].token = req[r].token
  BY <1>2, <1>3
<1>6. AuditIsTrue'
  <2>1. ASSUME NEW i \in DOMAIN audit PROVE audit[i].request \in Requests
    <3> DEFINE Entries == [request : Requests, operator : Users \cup {Nobody}]
    <3>1. audit \in Seq(Entries)
      BY DEF IInv, TypeOK
    <3>2. audit[i] \in Entries
      <4> HIDE DEF Entries
      <4> QED BY <3>1, ElementOfSeq
    <3> QED BY <3>2
  <2> QED BY <1>1, <1>5, <2>1 DEF IInv, AuditIsTrue, HasEntry
<1> QED BY <1>2, <1>3, <1>4, <1>6 DEF IInv

\* What only the server does, and a stutter.
LEMMA ServerInv ==
    ASSUME IInv, Terminate \/ Shutdown \/ Start \/ UNCHANGED vars
    PROVE  IInv'
<1>1. req' = req /\ store' = store /\ audit' = audit /\ errors' = errors
      /\ server' \in {"up", "draining", "down"}
  BY DEF Terminate, Shutdown, Start, vars, IInv, TypeOK
<1>2. TypeOK' /\ AuditIsTrue'
  BY <1>1 DEF IInv, TypeOK, AtALayer, AuditIsTrue
<1>3. ASSUME NEW r \in Requests PROVE Sound(r)'
  BY <1>1 DEF IInv, Sound, Holder, PassedLayers, WentThrough, Committed, Recorded,
              LetIn, IsPastAuditLog, HasEntry
<1> QED BY <1>2, <1>3 DEF IInv

LEMMA NextInv == IInv /\ [Next]_vars => IInv'
<1> SUFFICES ASSUME IInv, [Next]_vars PROVE IInv'
  OBVIOUS
<1>1. CASE Terminate \/ Shutdown \/ Start \/ UNCHANGED vars
  BY <1>1, ServerInv
<1>2. CASE Die
  BY <1>2, DieInv
<1>3. ASSUME NEW r \in Requests, NEW route \in Routes, NEW token \in Users \cup {Nobody},
             Send(r, route, token)
      PROVE  IInv'
  BY <1>3, SendInv
<1>4. ASSUME NEW r \in Requests, Proceed(r)
      PROVE  IInv'
  <2>1. CASE Cors(r) \/ AuditLogIn(r) \/ Limiter(r)
    BY <2>1, DoorInv
  <2>2. CASE AuthRequired(r)
    BY <2>2, AuthRequiredInv
  <2>3. CASE RequireRole(r)
    BY <2>3, RequireRoleInv
  <2>4. CASE Handle(r)
    BY <2>4, HandleInv
  <2>5. CASE Refuse(r)
    BY <2>5, RefuseInv
  <2>6. CASE Return(r)
    BY <2>6, ReturnInv
  <2>7. CASE Record(r) \/ RecordFails(r)
    BY <2>7, RecordInv
  <2> QED BY <1>4, <2>1, <2>2, <2>3, <2>4, <2>5, <2>6, <2>7 DEF Proceed
<1> QED BY <1>1, <1>2, <1>3, <1>4 DEF Next

LEMMA Invariance == Spec => []IInv
BY InitInv, NextInv, PTL DEF Spec

-----------------------------------------------------------------------------
(* The theorems. *)

\* Every request is at a layer of its chain or answered, the tables and the
\* error log hold requests.
THEOREM TypeCorrect == Spec => []TypeOK
<1>1. IInv => TypeOK
  BY DEF IInv
<1> QED BY <1>1, Invariance, PTL

\* Nothing is written for a request its route does not admit, however the
\* requests overlap and whenever the server dies.
THEOREM WritesCorrect == Spec => []WritesAreAdmitted
<1>1. IInv => WritesAreAdmitted
  BY DEF IInv, TypeOK, WritesAreAdmitted, Sound, Committed, LetIn
<1> QED BY <1>1, Invariance, PTL

\* The audit log names the right operator for what really happened, once.
THEOREM AuditCorrect == Spec => []AuditIsTrue
<1>1. IInv => AuditIsTrue
  BY DEF IInv
<1> QED BY <1>1, Invariance, PTL

\* A write whose success was answered is in the audit log or, its entry having
\* failed, in the error log.
THEOREM GapsCorrect == Spec => []GapsAreKnown
<1>1. IInv => GapsAreKnown
  <2> SUFFICES ASSUME IInv, NEW r \in store,
                      ~InFlight(r), req[r].way # "lost", req[r].status # "failed"
               PROVE  r \in errors \/ HasEntry(r)
    BY DEF GapsAreKnown, HasEntry
  <2>1. r \in Requests /\ Committed(r) /\ AtALayer(r) /\ req[r] # Unsent
    BY DEF IInv, TypeOK, Sound
  <2>2. req[r].way = "answered"
    BY <2>1 DEF Committed, InFlight
  <2>3. req[r].status = "ok"
    BY <2>1 DEF AtALayer, Sent
  <2> QED BY <2>1, <2>2, <2>3 DEF Committed, IsPastAuditLog
<1> QED BY <1>1, Invariance, PTL

-----------------------------------------------------------------------------
(***************************************************************************)
(* The layer that limits: RateLimiter, for every number of clients and of  *)
(* workers, every limit, every resolution of the clock.                    *)
(***************************************************************************)

\* The admissions of a client after a time.
Since(c, time) == {e \in admitted[c] : time < e[2]}

\* The admissions of a client are finitely many, numbered from 1 on, and
\* none is later than the client's last request.
Serials ==
    \A c \in Clients :
        /\ IsFiniteSet(admitted[c])
        /\ \A e \in admitted[c] :
              /\ e[1] <= Cardinality(admitted[c])
              /\ c \in DOMAIN buckets
              /\ e[2] <= buckets[c].lastFill

\* What a client was granted in the minute before its last request, and the
\* tokens it has left, stay within the capacity.
Burst ==
    \A c \in DOMAIN buckets :
        Cardinality(Since(c, buckets[c].lastFill - Minute)) + buckets[c].tokens
            <= Capacity

\* AtMostPerMinute, for windows that begin anywhere.
Windows ==
    \A c \in Clients : \A time \in Int :
        Cardinality(Within(c, time)) <= Capacity

LimiterIInv == LimiterTypeOK /\ Serials /\ Burst /\ Windows /\ NoTokenIsLost

-----------------------------------------------------------------------------
\* A limit is never less than one request.
LEMMA CapacityIsPositive == Capacity \in Nat \ {0}
BY LimiterAssumption DEF Capacity

\* The initial state satisfies the invariant.
LEMMA LimiterInitInv == LimiterInit => LimiterIInv
<1> SUFFICES ASSUME LimiterInit PROVE LimiterIInv
    OBVIOUS
<1>1. \A c \in Clients : admitted[c] = {}
    BY DEF LimiterInit
<1>2. DOMAIN buckets = {}
    BY DEF LimiterInit
<1>3. LimiterTypeOK
    BY <1>1, <1>2 DEF LimiterInit, LimiterTypeOK, Buckets, NoRequest
<1>4. Serials
    BY <1>1, FS_EmptySet DEF Serials
<1>5. \A c \in Clients, time \in Int : Within(c, time) = {}
    BY <1>1 DEF Within
<1>6. Windows
    BY <1>5, FS_EmptySet, CapacityIsPositive DEF Windows
<1>7. Burst /\ NoTokenIsLost
    BY <1>2 DEF Burst, NoTokenIsLost
<1> QED BY <1>3, <1>4, <1>6, <1>7 DEF LimiterIInv

\* Time passing and requests arriving leave buckets and admissions alone.
LEMMA WaitingInv ==
    ASSUME LimiterIInv,
           Tick \/ (\E w \in Workers, c \in Clients : Arrive(w, c)) \/ UNCHANGED limiterVars
    PROVE  LimiterIInv'
<1>1. UNCHANGED <<buckets, admitted>> /\ now' \in Nat /\ now <= now'
    BY DEF LimiterIInv, LimiterTypeOK, Tick, Arrive, limiterVars
<1>2. LimiterTypeOK'
  <2>1. DOMAIN buckets' \subseteq Clients /\ buckets' \in [DOMAIN buckets' -> Buckets']
    <3>1. Buckets \subseteq Buckets'
        BY <1>1, CapacityIsPositive DEF LimiterIInv, LimiterTypeOK, Buckets, Capacity
    <3> QED BY <1>1, <3>1 DEF LimiterIInv, LimiterTypeOK
  <2>2. admitted' \in [Clients -> SUBSET (Nat \X (0 .. now'))]
    <3>1. SUBSET (Nat \X (0 .. now)) \subseteq SUBSET (Nat \X (0 .. now'))
        BY <1>1 DEF LimiterIInv, LimiterTypeOK
    <3> QED BY <1>1, <3>1 DEF LimiterIInv, LimiterTypeOK
  <2>3. DOMAIN waiting' = Workers
      BY DEF LimiterIInv, LimiterTypeOK, Tick, Arrive, limiterVars
  <2>4. ASSUME NEW w \in Workers, waiting'[w] # NoRequest
        PROVE  waiting'[w] \in [client : Clients, at : 0 .. now']
    <3>1. CASE waiting'[w] = waiting[w]
      <4>1. waiting[w] \in [client : Clients, at : 0 .. now]
          BY <2>4, <3>1 DEF LimiterIInv, LimiterTypeOK
      <4>2. [client : Clients, at : 0 .. now] \subseteq [client : Clients, at : 0 .. now']
          BY <1>1 DEF LimiterIInv, LimiterTypeOK
      <4> QED BY <3>1, <4>1, <4>2
    <3>2. CASE \E c \in Clients : waiting'[w] = [client |-> c, at |-> now] /\ now' = now
        BY <3>2, <1>1
    <3>3. waiting'[w] = waiting[w] \/ \E c \in Clients :
             waiting'[w] = [client |-> c, at |-> now] /\ now' = now
        BY DEF LimiterIInv, LimiterTypeOK, Tick, Arrive, limiterVars
    <3> QED BY <3>1, <3>2, <3>3
  <2> QED BY <1>1, <2>1, <2>2, <2>3, <2>4 DEF LimiterTypeOK, NoRequest
<1>3. Serials' /\ Burst' /\ NoTokenIsLost'
    BY <1>1 DEF LimiterIInv, Serials, Burst, Since, NoTokenIsLost, Capacity
<1>4. Windows'
    BY <1>1 DEF LimiterIInv, Windows, Within, Capacity
<1> QED BY <1>2, <1>3, <1>4 DEF LimiterIInv

\* A restart forgets the buckets and, with them, what was granted.
LEMMA RestartInv ==
    ASSUME LimiterIInv, Restart
    PROVE  LimiterIInv'
<1>1. \A c \in Clients : admitted'[c] = {}
    BY DEF Restart
<1>2. DOMAIN buckets' = {}
    BY DEF Restart
<1>3. LimiterTypeOK'
    BY <1>1, <1>2 DEF LimiterIInv, Restart, LimiterTypeOK, Buckets, NoRequest
<1>4. Serials'
    BY <1>1, FS_EmptySet DEF Serials
<1>5. \A c \in Clients, time \in Int : Within(c, time)' = {}
    BY <1>1 DEF Within
<1>6. Windows'
    BY <1>5, FS_EmptySet, CapacityIsPositive DEF Windows, Capacity
<1>7. Burst' /\ NoTokenIsLost'
    BY <1>2 DEF Burst, NoTokenIsLost
<1> QED BY <1>3, <1>4, <1>6, <1>7 DEF LimiterIInv

-----------------------------------------------------------------------------
(***************************************************************************)
(* A request that gets the mutex.                                          *)
(***************************************************************************)

\* What a request finds in its bucket: within the capacity, enough with what
\* was granted, and little enough for the minute that ends now.
LEMMA TokensFound ==
    ASSUME LimiterIInv, NEW w \in Workers, waiting[w] # NoRequest
    PROVE  LET c == waiting[w].client IN
           /\ c \in Clients
           /\ TokensFor(w) \in 0 .. Capacity
           /\ TokensFor(w) + Cardinality(admitted[c]) >= Capacity
           /\ Cardinality(Since(c, now - Minute)) + TokensFor(w) <= Capacity
           /\ IsFiniteSet(Since(c, now - Minute))
<1> DEFINE c == waiting[w].client
           b == BucketOf(c, now)
           n == (now - b.lastFill) \div Minute
<1>1. c \in Clients /\ now \in Nat /\ IsFiniteSet(admitted[c])
    BY DEF LimiterIInv, LimiterTypeOK, Serials
<1>2. Cardinality(admitted[c]) \in Nat
    BY <1>1, FS_CardinalityType
<1>3. IsFiniteSet(Since(c, now - Minute)) /\ Cardinality(Since(c, now - Minute)) \in Nat
    BY <1>1, FS_Subset, FS_CardinalityType DEF Since
<1>4. CASE c \notin DOMAIN buckets
  <2>1. admitted[c] = {}
      BY <1>1, <1>4 DEF LimiterIInv, Serials
  <2>2. Since(c, now - Minute) = {}
      BY <2>1 DEF Since
  <2>3. Cardinality(admitted[c]) = 0 /\ Cardinality(Since(c, now - Minute)) = 0
      BY <2>1, <2>2, FS_EmptySet
  <2>4. b = [tokens |-> Capacity, lastFill |-> now]
      BY <1>4 DEF BucketOf
  <2>5. TokensFor(w) = Smaller(Capacity, Capacity + n * Capacity) /\ n = 0
      BY <2>4, <1>1, LimiterAssumption DEF TokensFor, Refilled, Clock
  <2>6. TokensFor(w) = Capacity
      BY <2>5, CapacityIsPositive DEF Smaller
  <2> QED BY <1>1, <1>3, <2>3, <2>6, CapacityIsPositive
<1>5. CASE c \in DOMAIN buckets
  <2>1. b = buckets[c] /\ b.tokens \in 0 .. Capacity /\ b.lastFill \in 0 .. now
      BY <1>5 DEF BucketOf, LimiterIInv, LimiterTypeOK, Buckets
  <2>2. TokensFor(w) = Smaller(Capacity, b.tokens + n * Capacity)
      BY DEF TokensFor, Refilled, Clock
  <2>3. b.tokens + Cardinality(admitted[c]) >= Capacity
      BY <1>5, <2>1 DEF LimiterIInv, NoTokenIsLost
  <2>4. CASE now - b.lastFill < Minute
    <3>1. n = 0
        BY <1>1, <2>1, <2>4, LimiterAssumption
    <3>2. TokensFor(w) = b.tokens
        BY <2>1, <2>2, <3>1, CapacityIsPositive DEF Smaller
    <3>3. Cardinality(Since(c, b.lastFill - Minute)) + b.tokens <= Capacity
        BY <1>5, <2>1 DEF LimiterIInv, Burst
    <3>4. Since(c, now - Minute) \subseteq Since(c, b.lastFill - Minute)
        BY <1>1, <2>1, LimiterAssumption DEF Since, LimiterIInv, LimiterTypeOK
    <3>5. IsFiniteSet(Since(c, b.lastFill - Minute))
        BY <1>1, FS_Subset DEF Since
    <3>6. /\ Cardinality(Since(c, now - Minute)) <= Cardinality(Since(c, b.lastFill - Minute))
          /\ Cardinality(Since(c, b.lastFill - Minute)) \in Nat
        BY <3>4, <3>5, FS_Subset, FS_CardinalityType
    <3> QED BY <1>1, <1>2, <1>3, <2>1, <2>3, <3>2, <3>3, <3>6, CapacityIsPositive
  <2>5. CASE now - b.lastFill >= Minute
    <3>1. n \in Nat /\ n >= 1
        BY <1>1, <2>1, <2>5, LimiterAssumption
    <3>2. n * Capacity >= Capacity /\ n * Capacity \in Nat
        BY <3>1, CapacityIsPositive
    <3>3. TokensFor(w) = Capacity
        BY <2>1, <2>2, <3>2, CapacityIsPositive DEF Smaller
    <3>4. Since(c, now - Minute) = {}
      <4>1. ASSUME NEW e \in admitted[c] PROVE ~(now - Minute < e[2])
        <5>1. e[2] \in Nat /\ e[2] <= b.lastFill
            BY <1>1, <2>1 DEF LimiterIInv, LimiterTypeOK, Serials
        <5> QED BY <5>1, <1>1, <2>1, <2>5, LimiterAssumption
      <4> QED BY <4>1 DEF Since
    <3>5. Cardinality(Since(c, now - Minute)) = 0
        BY <3>4, FS_EmptySet
    <3> QED BY <1>1, <1>2, <1>3, <3>3, <3>5, CapacityIsPositive
  <2> QED BY <1>1, <2>1, <2>4, <2>5, LimiterAssumption
<1> QED BY <1>4, <1>5

\* What every request that gets the mutex leaves behind in the types.
LEMMA UpdateTypes ==
    ASSUME LimiterIInv, NEW w \in Workers, waiting[w] # NoRequest, waiting[w].client \in Clients,
           NEW t \in 0 .. Capacity, Update(w, t),
           admitted' \in [Clients -> SUBSET (Nat \X (0 .. now))]
    PROVE  /\ LimiterTypeOK'
           /\ DOMAIN buckets' = DOMAIN buckets \cup {waiting[w].client}
           /\ buckets'[waiting[w].client] = [tokens |-> t, lastFill |-> now]
           /\ \A d \in DOMAIN buckets \ {waiting[w].client} : buckets'[d] = buckets[d]
<1> DEFINE c == waiting[w].client
<1>1. /\ DOMAIN buckets' = DOMAIN buckets \cup {c}
      /\ buckets'[c] = [tokens |-> t, lastFill |-> now]
      /\ \A d \in DOMAIN buckets \ {c} : buckets'[d] = buckets[d]
    BY DEF Update, Clock
<1>2. now' = now /\ now \in Nat
    BY DEF Update, LimiterIInv, LimiterTypeOK
<1>3. Buckets' = Buckets /\ buckets'[c] \in Buckets
    BY <1>1, <1>2 DEF Buckets, Capacity
<1>4. buckets' \in [DOMAIN buckets' -> Buckets']
  <2>1. buckets' = [d \in DOMAIN buckets \cup {c} |-> buckets'[d]]
      BY DEF Update
  <2>2. \A d \in DOMAIN buckets \cup {c} : buckets'[d] \in Buckets
      BY <1>1, <1>3 DEF LimiterIInv, LimiterTypeOK
  <2> QED BY <1>1, <1>3, <2>1, <2>2
<1>5. /\ DOMAIN waiting' = Workers
      /\ \A v \in Workers : waiting'[v] # NoRequest =>
            waiting'[v] \in [client : Clients, at : 0 .. now]
    BY DEF Update, LimiterIInv, LimiterTypeOK
<1>6. DOMAIN buckets' \subseteq Clients
    BY <1>1 DEF LimiterIInv, LimiterTypeOK
<1>7. LimiterTypeOK'
    BY <1>2, <1>4, <1>5, <1>6 DEF LimiterTypeOK, NoRequest
<1> QED BY <1>1, <1>7

\* A refused request uses up no token.
LEMMA RejectInv ==
    ASSUME LimiterIInv, NEW w \in Workers, Reject(w)
    PROVE  LimiterIInv'
<1> DEFINE c == waiting[w].client
           t == TokensFor(w)
<1> HIDE DEF t
<1>1. /\ waiting[w] # NoRequest /\ Update(w, t) /\ admitted' = admitted /\ now' = now
      /\ now \in Nat
    BY DEF Reject, Update, t, LimiterIInv, LimiterTypeOK
<1>2. /\ c \in Clients /\ t \in 0 .. Capacity
      /\ t + Cardinality(admitted[c]) >= Capacity
      /\ Cardinality(Since(c, now - Minute)) + t <= Capacity
    BY <1>1, TokensFound DEF t
<1>3. /\ LimiterTypeOK'
      /\ DOMAIN buckets' = DOMAIN buckets \cup {c}
      /\ buckets'[c] = [tokens |-> t, lastFill |-> now]
      /\ \A d \in DOMAIN buckets \ {c} : buckets'[d] = buckets[d]
    BY <1>1, <1>2, UpdateTypes DEF LimiterIInv, LimiterTypeOK
<1>4. Serials'
  <2>1. ASSUME NEW d \in Clients, NEW e \in admitted[d]
        PROVE  d \in DOMAIN buckets' /\ e[2] <= buckets'[d].lastFill
    <3>1. e[2] \in 0 .. now
        BY DEF LimiterIInv, LimiterTypeOK
    <3> QED BY <1>1, <1>3, <2>1, <3>1 DEF LimiterIInv, Serials
  <2> QED BY <1>1, <2>1 DEF LimiterIInv, Serials
<1>5. Burst'
  <2>1. ASSUME NEW d \in DOMAIN buckets'
        PROVE  Cardinality(Since(d, buckets'[d].lastFill - Minute)) + buckets'[d].tokens
                   <= Capacity
      BY <1>2, <1>3 DEF LimiterIInv, Burst
  <2> QED BY <1>1, <2>1 DEF Burst, Since, Capacity
<1>6. Windows'
    BY <1>1 DEF LimiterIInv, Windows, Within, Capacity
<1>7. NoTokenIsLost'
    BY <1>1, <1>2, <1>3 DEF LimiterIInv, NoTokenIsLost, Capacity
<1> QED BY <1>3, <1>4, <1>5, <1>6, <1>7 DEF LimiterIInv

\* An admitted request uses up one, and is one admission more.
LEMMA AdmitInv ==
    ASSUME LimiterIInv, NEW w \in Workers, Admit(w)
    PROVE  LimiterIInv'
<1>a. PICK c \in Clients : c = waiting[w].client
    BY DEF Admit, LimiterIInv, LimiterTypeOK
<1>b. PICK t : t = TokensFor(w)
    OBVIOUS
<1>c. PICK new : new = <<Cardinality(admitted[c]) + 1, now>>
    OBVIOUS
<1>1. /\ waiting[w] # NoRequest /\ t > 0 /\ Update(w, t - 1) /\ now' = now
      /\ admitted' = [admitted EXCEPT ![c] = @ \cup {new}]
      /\ now \in Nat
    BY <1>a, <1>b, <1>c DEF Admit, Update, LimiterIInv, LimiterTypeOK
<1>2. /\ c \in Clients /\ t \in 0 .. Capacity
      /\ t + Cardinality(admitted[c]) >= Capacity
      /\ Cardinality(Since(c, now - Minute)) + t <= Capacity
      /\ IsFiniteSet(Since(c, now - Minute))
    BY <1>1, <1>a, <1>b, TokensFound
<1>3. /\ admitted \in [Clients -> SUBSET (Nat \X (0 .. now))]
      /\ IsFiniteSet(admitted[c]) /\ Cardinality(admitted[c]) \in Nat
    BY <1>2, FS_CardinalityType DEF LimiterIInv, LimiterTypeOK, Serials
<1>4. /\ admitted'[c] = admitted[c] \cup {new}
      /\ \A d \in Clients \ {c} : admitted'[d] = admitted[d]
    BY <1>1, <1>2, <1>3
<1>5. admitted' \in [Clients -> SUBSET (Nat \X (0 .. now))]
  <2>1. new \in Nat \X (0 .. now)
      BY <1>1, <1>3, <1>c
  <2> QED BY <1>1, <1>3, <2>1
<1>6. t - 1 \in 0 .. Capacity
    BY <1>1, <1>2, CapacityIsPositive
<1>7. /\ LimiterTypeOK'
      /\ DOMAIN buckets' = DOMAIN buckets \cup {c}
      /\ buckets'[c] = [tokens |-> t - 1, lastFill |-> now]
      /\ \A d \in DOMAIN buckets \ {c} : buckets'[d] = buckets[d]
  <2> DEFINE u == t - 1
  <2>1. u \in 0 .. Capacity /\ Update(w, u)
      BY <1>1, <1>6
  <2> HIDE DEF u
  <2>2. /\ LimiterTypeOK'
        /\ DOMAIN buckets' = DOMAIN buckets \cup {c}
        /\ buckets'[c] = [tokens |-> u, lastFill |-> now]
        /\ \A d \in DOMAIN buckets \ {c} : buckets'[d] = buckets[d]
      BY <2>1, <1>1, <1>2, <1>5, <1>a, UpdateTypes
  <2> QED BY <2>2 DEF u
<1>8. new \notin admitted[c]
    BY <1>2, <1>3, <1>c DEF LimiterIInv, Serials
<1>9. /\ IsFiniteSet(admitted'[c])
      /\ Cardinality(admitted'[c]) = Cardinality(admitted[c]) + 1
    BY <1>3, <1>4, <1>8, FS_AddElement
<1>10. Serials'
  <2>1. ASSUME NEW d \in Clients
        PROVE  /\ IsFiniteSet(admitted'[d])
               /\ \A e \in admitted'[d] :
                     /\ e[1] <= Cardinality(admitted'[d])
                     /\ d \in DOMAIN buckets'
                     /\ e[2] <= buckets'[d].lastFill
    <3>1. CASE d # c
        BY <3>1, <1>4, <1>7 DEF LimiterIInv, Serials
    <3>2. CASE d = c
      <4>1. ASSUME NEW e \in admitted[c]
            PROVE  e[1] <= Cardinality(admitted'[c]) /\ e[2] <= now
        <5>1. e[1] \in Nat /\ e[2] \in 0 .. now /\ e[1] <= Cardinality(admitted[c])
            BY <1>2, <1>3 DEF LimiterIInv, Serials
        <5> QED BY <5>1, <1>1, <1>3, <1>9
      <4>2. new[1] <= Cardinality(admitted'[c]) /\ new[2] <= now
          BY <1>1, <1>3, <1>9, <1>c
      <4>3. buckets'[c].lastFill = now /\ c \in DOMAIN buckets'
          BY <1>7
      <4>4. \A e \in admitted'[c] : e[1] <= Cardinality(admitted'[c]) /\ e[2] <= now
          BY <4>1, <4>2, <1>4
      <4>5. \A e \in admitted'[c] :
               /\ e[1] <= Cardinality(admitted'[c])
               /\ c \in DOMAIN buckets'
               /\ e[2] <= buckets'[c].lastFill
          BY <4>3, <4>4
      <4> QED BY <3>2, <4>5, <1>9
    <3> QED BY <3>1, <3>2
  <2> QED BY <2>1 DEF Serials
<1>11. ASSUME NEW time \in Int, now - Minute <= time
       PROVE  /\ IsFiniteSet(Since(c, time)')
              /\ Cardinality(Since(c, time)') <= Cardinality(Since(c, now - Minute)) + 1
  <2> DEFINE S == Since(c, now - Minute)
  <2>1. Since(c, time)' \subseteq S \cup {new}
    <3>1. ASSUME NEW e \in admitted[c], time < e[2] PROVE now - Minute < e[2]
        BY <3>1, <1>1, <1>3, <1>11, LimiterAssumption
    <3> QED BY <3>1, <1>4 DEF Since
  <2>2. IsFiniteSet(S) /\ IsFiniteSet(S \cup {new}) /\ Cardinality(S) \in Nat
      BY <1>2, FS_AddElement, FS_CardinalityType
  <2>3. Cardinality(S \cup {new}) <= Cardinality(S) + 1
      BY <2>2, FS_AddElement
  <2>4. /\ IsFiniteSet(Since(c, time)')
        /\ Cardinality(Since(c, time)') <= Cardinality(S \cup {new})
        /\ Cardinality(S \cup {new}) \in Nat /\ Cardinality(Since(c, time)') \in Nat
      BY <2>1, <2>2, FS_Subset, FS_CardinalityType
  <2> HIDE DEF S
  <2>5. Cardinality(Since(c, time)') <= Cardinality(S) + 1
      BY <2>2, <2>3, <2>4
  <2> QED BY <2>4, <2>5 DEF S
<1>12. Cardinality(Since(c, now - Minute)) \in Nat
    BY <1>2, FS_CardinalityType
<1>13. Burst'
  <2>1. ASSUME NEW d \in DOMAIN buckets'
        PROVE  (Cardinality(Since(d, buckets[d].lastFill - Minute)) + buckets[d].tokens
                   <= Capacity)'
    <3>1. CASE d = c
      <4>1. buckets'[d].lastFill = now /\ buckets'[d].tokens = t - 1
          BY <3>1, <1>7
      <4>2. Since(d, buckets[d].lastFill - Minute)' = Since(c, now - Minute)'
          BY <3>1, <4>1, <1>1 DEF Since
      <4>3. Since(c, now - Minute)' = {e \in admitted'[c] : now - Minute < e[2]}
          BY <1>1 DEF Since
      <4>4. PICK time \in Int : time = now - Minute
          BY <1>1, LimiterAssumption
      <4>5. Since(c, time)' = {e \in admitted'[c] : now - Minute < e[2]}
          BY <4>4 DEF Since
      <4>6. /\ Cardinality(Since(c, time)') <= Cardinality(Since(c, now - Minute)) + 1
            /\ IsFiniteSet(Since(c, time)')
          BY <4>4, <1>11, <1>1, LimiterAssumption
      <4>7. Cardinality(Since(c, time)') \in Nat
          BY <4>6, FS_CardinalityType
      <4>8. Cardinality(Since(c, time)') + (t - 1) <= Capacity
          BY <4>6, <4>7, <1>2, <1>12, CapacityIsPositive
      <4>9. Since(c, time)' = Since(d, buckets[d].lastFill - Minute)'
          BY <4>2, <4>3, <4>5
      <4> QED BY <4>1, <4>8, <4>9 DEF Capacity
    <3>2. CASE d # c
      <4>1. d \in DOMAIN buckets /\ d \in Clients /\ buckets'[d] = buckets[d]
          BY <3>2, <1>7 DEF LimiterIInv, LimiterTypeOK
      <4>2. admitted'[d] = admitted[d]
          BY <3>2, <4>1, <1>4
      <4> QED BY <4>1, <4>2 DEF LimiterIInv, Burst, Since, Capacity
    <3> QED BY <3>1, <3>2
  <2> QED BY <2>1 DEF Burst
<1>14. Windows'
  <2>1. ASSUME NEW d \in Clients, NEW time \in Int
        PROVE  Cardinality(Within(d, time)') <= Capacity
    <3>1. CASE d # c \/ time + Minute < now
      <4>1. CASE d # c
        <5>1. Within(d, time)' = Within(d, time)
            BY <4>1, <1>4 DEF Within
        <5> QED BY <5>1 DEF LimiterIInv, Windows
      <4>2. CASE d = c /\ time + Minute < now
        <5>1. ~(new[2] <= time + Minute)
            BY <4>2, <1>1, <1>c, LimiterAssumption
        <5>2. Within(d, time)' = Within(d, time)
            BY <4>2, <5>1, <1>4 DEF Within
        <5> QED BY <5>2 DEF LimiterIInv, Windows
      <4> QED BY <3>1, <4>1, <4>2
    <3>2. CASE d = c /\ time + Minute >= now
      <4>1. now - Minute <= time
          BY <3>2, <1>1, LimiterAssumption
      <4>2. Within(c, time)' \subseteq Since(c, time)'
          BY DEF Within, Since
      <4>3. /\ IsFiniteSet(Since(c, time)')
            /\ Cardinality(Since(c, time)') <= Cardinality(Since(c, now - Minute)) + 1
          BY <4>1, <1>11
      <4>4. /\ Cardinality(Within(c, time)') <= Cardinality(Since(c, time)')
            /\ Cardinality(Within(c, time)') \in Nat /\ Cardinality(Since(c, time)') \in Nat
          BY <4>2, <4>3, FS_Subset, FS_CardinalityType
      <4> QED BY <3>2, <4>3, <4>4, <1>1, <1>2, <1>12, CapacityIsPositive
    <3> QED BY <3>1, <3>2, <1>1, LimiterAssumption
  <2> QED BY <2>1 DEF Windows, Capacity
<1>15. NoTokenIsLost'
  <2>1. ASSUME NEW d \in DOMAIN buckets'
        PROVE  buckets'[d].tokens + Cardinality(admitted'[d]) >= Capacity
    <3>1. CASE d = c
        BY <3>1, <1>1, <1>2, <1>3, <1>7, <1>9, CapacityIsPositive
    <3>2. CASE d # c
      <4>1. d \in DOMAIN buckets /\ d \in Clients
          BY <3>2, <1>7 DEF LimiterIInv, LimiterTypeOK
      <4> QED BY <3>2, <4>1, <1>4, <1>7 DEF LimiterIInv, NoTokenIsLost
    <3> QED BY <3>1, <3>2
  <2> QED BY <2>1 DEF NoTokenIsLost, Capacity
<1> QED BY <1>7, <1>10, <1>13, <1>14, <1>15 DEF LimiterIInv

-----------------------------------------------------------------------------
\* Every step preserves the invariant.
LEMMA LimiterNextInv ==
    ASSUME LimiterIInv, [LimiterNext]_limiterVars
    PROVE  LimiterIInv'
<1>1. CASE Tick \/ (\E w \in Workers, c \in Clients : Arrive(w, c)) \/ UNCHANGED limiterVars
    BY <1>1, WaitingInv
<1>2. CASE Restart
    BY <1>2, RestartInv
<1>3. CASE \E w \in Workers : Admit(w)
    BY <1>3, AdmitInv
<1>4. CASE \E w \in Workers : Reject(w)
    BY <1>4, RejectInv
<1> QED BY <1>1, <1>2, <1>3, <1>4 DEF LimiterNext

\* The invariant holds in every reachable state.
LEMMA LimiterInvariance == LimiterSpec => []LimiterIInv
BY LimiterInitInv, LimiterNextInv, PTL DEF LimiterSpec

-----------------------------------------------------------------------------
(***************************************************************************)
(* The theorems.                                                           *)
(***************************************************************************)

\* Every bucket is within its capacity and none was filled in the future,
\* whatever order requests get the mutex in.
THEOREM LimiterTypeCorrect == LimiterSpec => []LimiterTypeOK
<1>1. LimiterIInv => LimiterTypeOK
    BY DEF LimiterIInv
<1> QED BY <1>1, LimiterInvariance, PTL

\* No minute of a process's life, wherever it begins, sees a client granted
\* more requests than the limit.
THEOREM LimitCorrect == LimiterSpec => []AtMostPerMinute
<1>1. LimiterIInv => AtMostPerMinute
    BY LimiterAssumption DEF LimiterIInv, Windows, AtMostPerMinute, LimiterTypeOK
<1> QED BY <1>1, LimiterInvariance, PTL

\* A bucket never loses a token to anything but a granted request.
THEOREM TokensCorrect == LimiterSpec => []NoTokenIsLost
<1>1. LimiterIInv => NoTokenIsLost
    BY DEF LimiterIInv
<1> QED BY <1>1, LimiterInvariance, PTL

=============================================================================
