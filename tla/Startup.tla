------------------------------ MODULE Startup ------------------------------
(***************************************************************************)
(* Starting the server (cmd/server/main.go): connect, migrate the schema,  *)
(* write the presets if there is no user yet (SeedService.Seed), serve.    *)
(* Every preset is an INSERT of its own, without a transaction around      *)
(* them; an error ends the process, and the container is started again     *)
(* (restart: unless-stopped in docker-compose.yml).                        *)
(*                                                                         *)
(* In the containers the database may bring presets along: it runs         *)
(* database/init.sql once, which writes them table by table, one INSERT    *)
(* each, with their ids.                                                   *)
(*                                                                         *)
(* Presets refer to each other by the ids that the author of seed.go       *)
(* expected AUTO_INCREMENT to give, and a failed INSERT may use one up.    *)
(*                                                                         *)
(* "cut" is a history variable.                                            *)
(***************************************************************************)
EXTENDS Naturals, Sequences, FiniteSets

CONSTANTS
    Tables,             \* the tables of the presets
    UsersTable,         \* the one that is looked at before seeding
    Presets,            \* the presets in the order they are written
    MaxInterruptions    \* bound: how often a start or the server is interrupted

\* A preset: its table, and the <<table, id>> its columns name.
ASSUME PresetsAssumption ==
    /\ UsersTable \in Tables
    /\ Presets \in Seq([table : Tables, refers : SUBSET (Tables \X (Nat \ {0}))])
    /\ Len(Presets) > 0 /\ Presets[1].table = UsersTable
    /\ MaxInterruptions \in Nat

\* The first n presets that go into a table.
InTable(n, table) == {p \in 1 .. n : Presets[p].table = table}

\* The place of a preset in its table.
Ordinal(p) == Cardinality(InTable(p, Presets[p].table))

\* What a preset refers to is written before it (seed.go): the id-th of its table.
ASSUME ReferencesAssumption ==
    \A p \in DOMAIN Presets : \A ref \in Presets[p].refers :
        \E q \in 1 .. p - 1 : Presets[q].table = ref[1] /\ Ordinal(q) = ref[2]

VARIABLES
    phase,          \* where main is
    at,             \* the preset Seed writes next
    rows,           \* the presets stored, with their ids
    counter,        \* the last id AUTO_INCREMENT gave out, by table
    interruptions,  \* how often the process was interrupted
    cut             \* history: an interruption hit the seeding or the script

vars == <<phase, at, rows, counter, interruptions, cut>>

\* init.sql wrote no table, or some, or all: how many presets that makes.
ScriptEnds ==
    {0, Len(Presets)} \cup
    {n \in 1 .. Len(Presets) - 1 : Presets[n].table # Presets[n + 1].table}

Scripted(n) ==
    {[table |-> Presets[p].table, id |-> Ordinal(p), preset |-> p] : p \in 1 .. n}

Init ==
    /\ phase = "down"
    /\ at = 1
    /\ \E n \in ScriptEnds :
          /\ rows = Scripted(n)
          /\ counter = [t \in Tables |-> Cardinality(InTable(n, t))]
          /\ cut = (n \notin {0, Len(Presets)})
    /\ interruptions = 0

Start ==
    /\ phase = "down"
    /\ phase' = "migrating"
    /\ UNCHANGED <<at, rows, counter, interruptions, cut>>

\* gorm.Open and AutoMigrate; what is there already stays.
Migrate ==
    /\ phase = "migrating"
    /\ phase' = "counting"
    /\ UNCHANGED <<at, rows, counter, interruptions, cut>>

\* A faulty variant: the emptiness of the last table decides.
IsEmptyLast == \A r \in rows : r.table # Presets[Len(Presets)].table

\* SELECT count(*) FROM users
IsEmpty == \A r \in rows : r.table # UsersTable

Count ==
    /\ phase = "counting"
    /\ phase' = IF IsEmpty THEN "seeding" ELSE "serving"
    /\ at' = 1
    /\ UNCHANGED <<rows, counter, interruptions, cut>>

NextId(table) == counter[table] + 1

\* The unique index on the telephone numbers.
Accepted(p) ==
    Presets[p].table = UsersTable => \A r \in rows : r.preset # p

\* A faulty variant: ids in steps of two (auto_increment_increment).
UseIdTwice(p) == counter' = [counter EXCEPT ![Presets[p].table] = @ + 2]

UseId(p) == counter' = [counter EXCEPT ![Presets[p].table] = @ + 1]

Write(p) ==
    /\ UseId(p)
    /\ rows' = rows \cup
          {[table |-> Presets[p].table, id |-> NextId(Presets[p].table), preset |-> p]}

\* One Create of the loops; a row turned down ends the process.
Insert ==
    /\ phase = "seeding"
    /\ at <= Len(Presets)
    /\ IF Accepted(at)
         THEN Write(at) /\ at' = at + 1 /\ UNCHANGED phase
         ELSE phase' = "down" /\ UNCHANGED <<at, rows, counter>>
    /\ UNCHANGED <<interruptions, cut>>

\* A faulty variant: the last preset is left out.
ServeEarly ==
    /\ phase = "seeding"
    /\ at = Len(Presets)
    /\ phase' = "serving"
    /\ UNCHANGED <<at, rows, counter, interruptions, cut>>

\* ListenAndServe
Serve ==
    /\ phase = "seeding"
    /\ at > Len(Presets)
    /\ phase' = "serving"
    /\ UNCHANGED <<at, rows, counter, interruptions, cut>>

\* What an interrupted INSERT leaves behind: nothing, a used id, or its row.
Remains ==
    \/ UNCHANGED <<rows, counter>>
    \/ phase = "seeding" /\ at <= Len(Presets) /\ UseId(at) /\ UNCHANGED rows
    \/ phase = "seeding" /\ at <= Len(Presets) /\ Accepted(at) /\ Write(at)

Interruption ==
    /\ phase # "down"
    /\ interruptions < MaxInterruptions
    /\ interruptions' = interruptions + 1
    /\ cut' = (cut \/ phase = "seeding")

\* A faulty variant: an INSERT that failed is sent again.
InterruptedRetrying ==
    /\ Interruption
    /\ Remains
    /\ phase' = IF phase = "seeding" THEN phase ELSE "down"
    /\ UNCHANGED at

\* A statement fails (os.Exit(1)), or the process is killed.
Interrupted ==
    /\ Interruption
    /\ Remains
    /\ phase' = "down"
    /\ UNCHANGED at

Run == Start \/ Migrate \/ Count \/ Insert \/ Serve

Next == Run \/ Interrupted

Spec == Init /\ [][Next]_vars

\* The container is started again, and what main has to do next it does.
FairSpec == Spec /\ WF_vars(Run)

-----------------------------------------------------------------------------
(***************************************************************************)
(* The properties.                                                         *)
(***************************************************************************)

Stored == [table : Tables, id : Nat \ {0}, preset : 1 .. Len(Presets)]

\* Types: a stored preset is in its own table, under an id that was given out
\* to it alone.
TypeOK ==
    /\ phase \in {"down", "migrating", "counting", "seeding", "serving"}
    /\ at \in 1 .. Len(Presets) + 1
    /\ rows \subseteq Stored
    /\ counter \in [Tables -> Nat]
    /\ \A r \in rows : r.table = Presets[r.preset].table /\ r.id <= counter[r.table]
    /\ \A r, s \in rows : r.table = s.table /\ r.id = s.id => r = s
    /\ interruptions \in 0 .. MaxInterruptions
    /\ cut \in BOOLEAN

\* However often the start is interrupted and repeated, no preset is written
\* twice ("idempotent", seed.go 14).
SeededOnce == \A r, s \in rows : r.preset = s.preset => r = s

\* The row that the author of a reference had in mind, the n-th preset of its
\* table, is there and has the id it has.
IsStored(table, n, id) ==
    \E r \in rows : r.table = table /\ Ordinal(r.preset) = n /\ r.id = id

\* How far the ids of a table are ahead of the places of its presets, when k ids
\* were used up before there was a user.
Ahead(table, k) == IF table = UsersTable THEN k ELSE 0

\* What a stored preset refers to is stored, and has the id that the reference
\* names - but users have one that is k higher, the same k for all of them and at
\* most one for each interruption.  So nothing but references to users is ever
\* off, and none is when the start was never interrupted.
ReferencesHold ==
    \E k \in 0 .. interruptions :
        \A r \in rows : \A ref \in Presets[r.preset].refers :
            IsStored(ref[1], ref[2], ref[2] + Ahead(ref[1], k))

\* What is stored is always a first part of the presets, and the server serves
\* with less than all of them only if the script or the seeding was cut: such a
\* gap is never filled, for the next start finds a user and skips the rest.
There == {r.preset : r \in rows}

GapsComeFromCuts ==
    /\ \A p \in There : 1 .. p \subseteq There
    /\ phase = "serving" /\ There # 1 .. Len(Presets) => cut

\* The inductive invariant (proved in StartupProofs): what is stored is the first
\* so many presets, while seeding those before the next one; something is
\* missing only before the seeding, during it, or after a cut.  The ids are the
\* places of the presets in their tables; only the users' may be ahead of them,
\* all by the same number: ids used up before there was a user, for after that
\* nothing is written again.  Until then, and while seeding, the counters say
\* the same of the ids to come.
Prefix == \E n \in 0 .. Len(Presets) : There = 1 .. n

Written == IF phase = "seeding" THEN at - 1 ELSE 0

IdsAreAhead(k) ==
    /\ \A r \in rows : r.id = Ordinal(r.preset) + Ahead(r.table, k)
    /\ rows = {} \/ phase = "seeding" =>
          counter = [t \in Tables |-> Cardinality(InTable(Written, t)) + Ahead(t, k)]

FirstPart ==
    /\ phase \in {"down", "migrating", "counting", "seeding", "serving"}
    /\ at \in 1 .. Len(Presets) + 1
    /\ \A r \in rows : r.preset \in 1 .. Len(Presets) /\ r.table = Presets[r.preset].table
    /\ SeededOnce
    /\ Prefix
    /\ phase = "seeding" => There = 1 .. at - 1
    /\ phase = "serving" => There # {}
    /\ phase # "seeding" /\ There \notin {{}, 1 .. Len(Presets)} => cut

IInv == FirstPart /\ TypeOK /\ \E k \in 0 .. interruptions : IdsAreAhead(k)

\* Once interruptions end, the server serves: no way of interrupting a start
\* leaves something behind on which every later start fails.
ServesInTheEnd == <>[](phase = "serving")

=============================================================================
