---------------------------- MODULE RowRequests ----------------------------
(***************************************************************************)
(* Requests that change a row the way the repositories do it: one SELECT   *)
(* (FindByID), and later an UPDATE of all the row's columns (gorm Save).   *)
(* In between the request holds the row it has read.                       *)
(***************************************************************************)
CONSTANTS
    Workers     \* goroutines of requests that write

VARIABLES
    req         \* what each worker has read and is about to save

Idle == [op |-> "none"]

IsIdle(w) == req[w] = Idle

Hold(w, r) == req' = [req EXCEPT ![w] = r]

Drop(w) == Hold(w, Idle)

\* A statement fails, or the request ends, and nothing is written: an UPDATE that
\* fails after its commit is, but for its answer, one that succeeds.
Fails(w) == ~IsIdle(w) /\ Drop(w)

=============================================================================
