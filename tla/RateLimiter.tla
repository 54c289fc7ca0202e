---------------------------- MODULE RateLimiter ----------------------------
(***************************************************************************)
(* The rate limiter in front of /auth (middleware/rate_limiter.go): one    *)
(* bucket of tokens per client address, guarded by a single mutex.  A      *)
(* request waits for the mutex, and all that happens to its bucket happens *)
(* while it holds it, the reading of the clock included.                   *)
(*                                                                         *)
(* "admitted" is a history variable: the admissions of each client, each   *)
(* with a serial number and the time it was granted.                       *)
(***************************************************************************)
EXTENDS Integers, FiniteSets

CONSTANTS
    Clients,        \* client addresses
    Workers,        \* request goroutines
    PerMinute,      \* RATE_LIMIT_PER_MINUTE
    Minute,         \* clock ticks to a minute
    MaxTime         \* bound: the clock stops there

ASSUME LimiterAssumption ==
    PerMinute \in Int /\ Minute \in Nat \ {0} /\ MaxTime \in Nat

VARIABLES
    now,            \* the monotonic clock
    buckets,        \* a partial function from clients to their buckets
    waiting,        \* the request each worker brings to the mutex
    admitted        \* history: the admissions of each client

limiterVars == <<now, buckets, waiting, admitted>>

\* NewRateLimiter: a limit that is not positive is replaced by 120.
Capacity == IF PerMinute <= 0 THEN 120 ELSE PerMinute

NoRequest == [client |-> "none"]

LimiterInit ==
    /\ now = 0
    /\ buckets = [c \in {} |-> {}]
    /\ waiting = [w \in Workers |-> NoRequest]
    /\ admitted = [c \in Clients |-> {}]

Tick ==
    /\ now < MaxTime
    /\ now' = now + 1
    /\ UNCHANGED <<buckets, waiting, admitted>>

\* A request arrives and waits for the mutex.
Arrive(w, c) ==
    /\ waiting[w] = NoRequest
    /\ waiting' = [waiting EXCEPT ![w] = [client |-> c, at |-> now]]
    /\ UNCHANGED <<now, buckets, admitted>>

\* A faulty variant: the clock is read before the mutex is taken.
ClockBeforeLock(w) == waiting[w].at

\* time.Now(), read under the mutex.
Clock(w) == now

Smaller(a, b) == IF a < b THEN a ELSE b

\* A bucket gains a full capacity for each whole minute since the client's
\* last request, up to the capacity.
Refilled(b, time) ==
    Smaller(Capacity, b.tokens + ((time - b.lastFill) \div Minute) * Capacity)

\* A faulty variant: a new bucket is charged for the request that makes it.
BucketPrecharged(c, time) ==
    IF c \in DOMAIN buckets THEN buckets[c]
    ELSE [tokens |-> Capacity - 1, lastFill |-> time]

BucketOf(c, time) ==
    IF c \in DOMAIN buckets THEN buckets[c]
    ELSE [tokens |-> Capacity, lastFill |-> time]

\* What the request finds in its bucket, and whether it may pass.
TokensFor(w) == Refilled(BucketOf(waiting[w].client, Clock(w)), Clock(w))

Update(w, tokens) ==
    LET c == waiting[w].client IN
    /\ buckets' = [d \in DOMAIN buckets \cup {c} |->
                      IF d = c THEN [tokens |-> tokens, lastFill |-> Clock(w)]
                      ELSE buckets[d]]
    /\ waiting' = [waiting EXCEPT ![w] = NoRequest]
    /\ UNCHANGED now

\* The request takes a token and is passed on.
Admit(w) ==
    LET c == waiting[w].client IN
    /\ waiting[w] # NoRequest
    /\ TokensFor(w) > 0
    /\ Update(w, TokensFor(w) - 1)
    /\ admitted' = [admitted EXCEPT ![c] = @ \cup {<<Cardinality(@) + 1, now>>}]

\* No token: 429.  The bucket's fill time moves on all the same.
Reject(w) ==
    /\ waiting[w] # NoRequest
    /\ TokensFor(w) <= 0
    /\ Update(w, TokensFor(w))
    /\ UNCHANGED admitted

\* The process restarts with an empty map.
Restart ==
    /\ buckets' = [c \in {} |-> {}]
    /\ waiting' = [w \in Workers |-> NoRequest]
    /\ admitted' = [c \in Clients |-> {}]
    /\ UNCHANGED now

LimiterNext ==
    \/ Tick
    \/ Restart
    \/ \E w \in Workers :
          \/ Admit(w) \/ Reject(w)
          \/ \E c \in Clients : Arrive(w, c)

LimiterSpec == LimiterInit /\ [][LimiterNext]_limiterVars

-----------------------------------------------------------------------------
(***************************************************************************)
(* The properties.                                                         *)
(***************************************************************************)

Buckets == [tokens : 0 .. Capacity, lastFill : 0 .. now]

\* Types: no bucket holds more than its capacity, or less than nothing, and
\* none was filled in the future.
LimiterTypeOK ==
    /\ now \in Nat
    /\ DOMAIN buckets \subseteq Clients
    /\ buckets \in [DOMAIN buckets -> Buckets]
    /\ \A w \in Workers : waiting[w] # NoRequest =>
          waiting[w] \in [client : Clients, at : 0 .. now]
    /\ DOMAIN waiting = Workers
    /\ admitted \in [Clients -> SUBSET (Nat \X (0 .. now))]

\* The admissions of a client in the minute after a time.
Within(c, time) == {e \in admitted[c] : time < e[2] /\ e[2] <= time + Minute}

\* No minute, wherever it begins, sees more than the configured number of
\* requests of one client pass: not even around a refill, and whatever order
\* waiting requests get the mutex in.
AtMostPerMinute ==
    \A c \in Clients : \A time \in -Minute .. now :
        Cardinality(Within(c, time)) <= Capacity

\* No token is lost: what a client has left and what it was granted since the
\* process started make up at least the capacity, so nobody is refused who
\* has not been granted a full capacity.
NoTokenIsLost ==
    \A c \in DOMAIN buckets :
        buckets[c].tokens + Cardinality(admitted[c]) >= Capacity

\* A client is refused only if one of its requests passed within the last
\* minute: what "a token bucket of so many requests per minute"
\* (rate_limiter.go 18) promises.  The code breaks it: every request, a
\* refused one too, restarts the minute the client has to wait.
RefusedIsBusy ==
    \A w \in Workers :
        Reject(w) => \E e \in admitted[waiting[w].client] : e[2] > now - Minute

RefusedOnlyWhenBusy == [][RefusedIsBusy]_limiterVars
=============================================================================
