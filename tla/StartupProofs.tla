--------------------------- MODULE StartupProofs ---------------------------
(***************************************************************************)
(* Proofs about Startup for any presets and any number of interruptions:   *)
(* no preset is written twice, references lead to the rows they mean, and  *)
(* what a serving server lacks was cut off in the seeding or in the        *)
(* script.                                                                 *)
(***************************************************************************)
EXTENDS Startup, TLAPS, SequenceTheorems, FiniteSetTheorems

LEMMA PresetsShape ==
    /\ Len(Presets) \in Nat /\ Len(Presets) > 0
    /\ Presets[1].table = UsersTable
BY PresetsAssumption, LenProperties

LEMMA PresetTable ==
    ASSUME NEW p \in 1 .. Len(Presets)
    PROVE  Presets[p].table \in Tables
<1> DEFINE S == [table : Tables, refers : SUBSET (Tables \X (Nat \ {0}))]
<1>1. Presets \in Seq(S)
  BY PresetsAssumption
<1>2. Presets[p] \in S
  <2> HIDE DEF S
  <2> QED BY <1>1, ElementOfSeq
<1> QED BY <1>2

\* A table's presets are counted one by one.
LEMMA InTableGrows ==
    ASSUME NEW n \in Nat, NEW table
    PROVE  /\ IsFiniteSet(InTable(n, table)) /\ Cardinality(InTable(n, table)) \in Nat
           /\ Cardinality(InTable(n + 1, table)) =
                 Cardinality(InTable(n, table)) + (IF Presets[n + 1].table = table THEN 1 ELSE 0)
<1>1. IsFiniteSet(InTable(n, table)) /\ Cardinality(InTable(n, table)) \in Nat
  <2>1. IsFiniteSet(1 .. n) /\ InTable(n, table) \subseteq 1 .. n
    BY FS_Interval DEF InTable
  <2> QED BY <2>1, FS_Subset, FS_CardinalityType
<1>2. CASE Presets[n + 1].table = table
  <2>1. InTable(n + 1, table) = InTable(n, table) \cup {n + 1} /\ n + 1 \notin InTable(n, table)
    BY <1>2 DEF InTable
  <2> QED BY <1>1, <1>2, <2>1, FS_AddElement
<1>3. CASE Presets[n + 1].table # table
  <2>1. InTable(n + 1, table) = InTable(n, table)
    BY <1>3 DEF InTable
  <2> QED BY <1>1, <1>3, <2>1
<1> QED BY <1>1, <1>2, <1>3

LEMMA NoneInTable == ASSUME NEW table PROVE Cardinality(InTable(0, table)) = 0
<1>1. InTable(0, table) = {}
  BY DEF InTable
<1> QED BY <1>1, FS_EmptySet

\* What the script has written is a first part.
LEMMA ScriptedPrefix ==
    ASSUME NEW n \in 0 .. Len(Presets)
    PROVE  /\ {r.preset : r \in Scripted(n)} = 1 .. n
           /\ \A r \in Scripted(n) :
                 r.preset \in 1 .. n /\ r.table = Presets[r.preset].table
           /\ \A r, s \in Scripted(n) : r.preset = s.preset => r = s
<1> DEFINE Row(p) == [table |-> Presets[p].table, id |-> Ordinal(p), preset |-> p]
<1>1. Scripted(n) = {Row(p) : p \in 1 .. n}
  BY DEF Scripted
<1>2. \A p : Row(p).preset = p /\ Row(p).table = Presets[p].table
  OBVIOUS
<1> HIDE DEF Row
<1>3. \A r \in Scripted(n) : r.preset \in 1 .. n /\ r = Row(r.preset)
  BY <1>1, <1>2
<1>4. \A p \in 1 .. n : Row(p) \in Scripted(n)
  BY <1>1
<1>5. {r.preset : r \in Scripted(n)} = 1 .. n
  BY <1>2, <1>3, <1>4
<1> QED BY <1>2, <1>3, <1>5

LEMMA FirstPartInit == Init => FirstPart
<1> SUFFICES ASSUME Init PROVE FirstPart
  OBVIOUS
<1> DEFINE L == Len(Presets)
<1>1. L \in Nat /\ L > 0
  BY PresetsShape
<1>2. PICK n \in ScriptEnds : rows = Scripted(n) /\ cut = (n \notin {0, L})
  BY DEF Init
<1>3. n \in 0 .. L
  BY <1>1, <1>2 DEF ScriptEnds
<1>4. /\ There = 1 .. n
      /\ \A r \in rows : r.preset \in 1 .. n /\ r.table = Presets[r.preset].table
      /\ SeededOnce
  BY <1>2, <1>3, ScriptedPrefix DEF There, SeededOnce
<1>5. phase = "down" /\ at = 1 /\ at \in 1 .. L + 1
  BY <1>1 DEF Init
<1>6. There \notin {{}, 1 .. L} => cut
  <2>1. CASE n = 0
    BY <1>4, <2>1
  <2>2. CASE n = L
    BY <1>4, <2>2
  <2>3. CASE n \notin {0, L}
    BY <1>2, <2>3
  <2> QED BY <2>1, <2>2, <2>3
<1>7. \A r \in rows : r.preset \in 1 .. L
  <2> HIDE DEF L
  <2> QED BY <1>1, <1>3, <1>4
<1> QED BY <1>3, <1>4, <1>5, <1>6, <1>7 DEF FirstPart, Prefix

\* The row of a preset that is not there yet extends the first part.
LEMMA WriteExtends ==
    ASSUME FirstPart, phase = "seeding", at \in 1 .. Len(Presets), Write(at)
    PROVE  /\ There' = 1 .. at
           /\ \A r \in rows' :
                 r.preset \in 1 .. Len(Presets) /\ r.table = Presets[r.preset].table
           /\ SeededOnce'
<1>1. There = 1 .. at - 1
  BY DEF FirstPart
<1> DEFINE new == [table |-> Presets[at].table, id |-> NextId(Presets[at].table),
                   preset |-> at]
<1>2. rows' = rows \cup {new} /\ new.preset = at /\ new.table = Presets[at].table
  BY DEF Write
<1> HIDE DEF new
<1>3. There' = There \cup {at}
  BY <1>2 DEF There
<1>4. There' = 1 .. at
  <2> DEFINE L == Len(Presets)
  <2>1. L \in Nat /\ at \in 1 .. L
    BY PresetsShape
  <2> HIDE DEF L
  <2> QED BY <1>1, <1>3, <2>1
<1>5. \A r \in rows : r.preset # at
  <2>1. at \notin There
    BY <1>1, PresetsShape
  <2> QED BY <2>1 DEF There
<1>6. SeededOnce'
  BY <1>2, <1>5 DEF SeededOnce, FirstPart
<1> QED BY <1>2, <1>4, <1>6 DEF FirstPart

LEMMA FirstPartNext == FirstPart /\ [Next]_vars => FirstPart'
<1> SUFFICES ASSUME FirstPart, [Next]_vars PROVE FirstPart'
  OBVIOUS
<1> DEFINE L == Len(Presets)
<1>1. L \in Nat /\ L > 0
  BY PresetsShape
\* Nothing is stored: no user, then no preset at all.
<1>2. IsEmpty => There = {}
  <2> SUFFICES ASSUME IsEmpty, NEW r \in rows PROVE FALSE
    BY DEF There
  <2>1. PICK n \in 0 .. L : There = 1 .. n
    BY DEF FirstPart, Prefix
  <2>2. r.preset \in 1 .. n
    BY <2>1 DEF There
  <2>3. 1 \in There
    BY <2>1, <2>2
  <2>4. PICK s \in rows : s.preset = 1
    BY <2>3 DEF There
  <2> QED BY <2>4, PresetsShape DEF FirstPart, IsEmpty
<1>3. ~IsEmpty => There # {}
  BY DEF IsEmpty, There
<1>4. CASE Start \/ Migrate
  BY <1>4 DEF Start, Migrate, FirstPart, There, Prefix, SeededOnce
<1>5. CASE Count
  <2>1. rows' = rows /\ at' = 1 /\ cut' = cut /\ There' = There
        /\ phase' = (IF IsEmpty THEN "seeding" ELSE "serving") /\ phase = "counting"
    BY <1>5 DEF Count, There
  <2>2. 1 \in 1 .. L + 1
    BY <1>1
  <2> QED BY <1>2, <1>3, <2>1, <2>2 DEF FirstPart, Prefix, SeededOnce
<1>6. CASE Insert
  <2>1. phase = "seeding" /\ at \in 1 .. L /\ cut' = cut
    <3> HIDE DEF L
    <3>1. at \in 1 .. L + 1 /\ at <= L /\ phase = "seeding" /\ cut' = cut
      BY <1>6 DEF Insert, FirstPart, L
    <3> QED BY <1>1, <3>1
  <2>2. There = 1 .. at - 1
    BY <2>1 DEF FirstPart
  <2>3. Accepted(at)
    <3>1. \A r \in rows : r.preset # at
      <4>1. at \notin There
        BY <2>1, <2>2, PresetsShape
      <4> QED BY <4>1 DEF There
    <3> QED BY <3>1 DEF Accepted
  <2>4. Write(at) /\ at' = at + 1 /\ phase' = phase
    BY <1>6, <2>3 DEF Insert
  <2>5. /\ There' = 1 .. at
        /\ \A r \in rows' : r.preset \in 1 .. L /\ r.table = Presets[r.preset].table
        /\ SeededOnce'
    BY <2>1, <2>4, WriteExtends
  <2>6. at' \in 1 .. L + 1 /\ at' - 1 = at /\ at \in 0 .. L
    <3> HIDE DEF L
    <3> QED BY <1>1, <2>1, <2>4
  <2> QED BY <2>1, <2>4, <2>5, <2>6 DEF FirstPart, Prefix
<1>7. CASE Serve
  <2>1. phase = "seeding" /\ phase' = "serving" /\ rows' = rows /\ at' = at /\ cut' = cut
        /\ There' = There
    BY <1>7 DEF Serve, There
  <2>2. There = 1 .. L
    <3>1. at = L + 1
      <4> HIDE DEF L
      <4>1. at \in 1 .. L + 1 /\ at > L
        BY <1>7 DEF Serve, FirstPart, L
      <4> QED BY <1>1, <4>1
    <3>2. L + 1 - 1 = L
      <4> HIDE DEF L
      <4> QED BY <1>1
    <3> QED BY <2>1, <3>1, <3>2 DEF FirstPart
  <2>3. There # {}
    <3> HIDE DEF L
    <3> QED BY <1>1, <2>2
  <2> QED BY <2>1, <2>2, <2>3 DEF FirstPart, Prefix, SeededOnce
<1>8. CASE Interrupted
  <2>1. phase # "down" /\ phase' = "down" /\ at' = at
        /\ cut' = (cut \/ phase = "seeding")
    BY <1>8 DEF Interrupted, Interruption
  <2>2. CASE rows' = rows
    <3>1. There' = There /\ SeededOnce' /\ Prefix'
      BY <2>2 DEF FirstPart, There, SeededOnce, Prefix
    <3> QED BY <2>1, <2>2, <3>1 DEF FirstPart
  <2>3. CASE phase = "seeding" /\ at <= L /\ Write(at)
    <3>1. at \in 1 .. L /\ at \in 0 .. L
      <4> HIDE DEF L
      <4>1. at \in 1 .. L + 1 /\ at <= L
        BY <2>3 DEF FirstPart, L
      <4> QED BY <1>1, <4>1
    <3>2. /\ There' = 1 .. at
          /\ \A r \in rows' : r.preset \in 1 .. L /\ r.table = Presets[r.preset].table
          /\ SeededOnce'
      BY <2>3, <3>1, WriteExtends
    <3> QED BY <2>1, <2>3, <3>1, <3>2 DEF FirstPart, Prefix
  <2> QED BY <1>8, <2>2, <2>3 DEF Interrupted, Remains
<1>9. CASE UNCHANGED vars
  BY <1>9 DEF vars, FirstPart, There, Prefix, SeededOnce
<1> QED BY <1>4, <1>5, <1>6, <1>7, <1>8, <1>9 DEF Next, Run

-----------------------------------------------------------------------------
(* The ids. *)

LEMMA OrdinalIsCounted ==
    ASSUME NEW p \in Nat \ {0}, NEW n \in Nat, p <= n
    PROVE  /\ Ordinal(p) \in Nat \ {0}
           /\ Ordinal(p) <= Cardinality(InTable(n, Presets[p].table))
<1> DEFINE t == Presets[p].table
<1>1. IsFiniteSet(InTable(p, t)) /\ IsFiniteSet(InTable(n, t))
  BY InTableGrows
<1>2. p \in InTable(p, t) /\ InTable(p, t) \subseteq InTable(n, t)
  BY DEF InTable
<1>3. Cardinality(InTable(p, t)) <= Cardinality(InTable(n, t))
  BY <1>1, <1>2, FS_Subset
<1>4. Cardinality(InTable(p, t)) \in Nat /\ Cardinality(InTable(p, t)) # 0
  BY <1>1, <1>2, FS_CardinalityType, FS_EmptySet
<1> QED BY <1>3, <1>4 DEF Ordinal

\* Presets of one table have different places in it.
LEMMA OrdinalsDiffer ==
    ASSUME NEW p \in Nat \ {0}, NEW q \in Nat \ {0}, p < q,
           Presets[p].table = Presets[q].table
    PROVE  Ordinal(p) < Ordinal(q)
<1> DEFINE t == Presets[q].table
<1>1. PICK m \in Nat : q = m + 1
  <2>1. q - 1 \in Nat /\ q = (q - 1) + 1
    OBVIOUS
  <2> QED BY <2>1
<1>2. Cardinality(InTable(m + 1, t)) = Cardinality(InTable(m, t)) + 1
  BY <1>1, InTableGrows
<1>3. Ordinal(p) <= Cardinality(InTable(m, t))
  BY <1>1, OrdinalIsCounted
<1>4. Cardinality(InTable(m, t)) \in Nat /\ Ordinal(p) \in Nat
  BY InTableGrows, OrdinalIsCounted
<1> QED BY <1>1, <1>2, <1>3, <1>4 DEF Ordinal

LEMMA InitNumbered == Init => TypeOK /\ IdsAreAhead(0)
<1> SUFFICES ASSUME Init PROVE TypeOK /\ IdsAreAhead(0)
  OBVIOUS
<1> DEFINE L == Len(Presets)
           Row(p) == [table |-> Presets[p].table, id |-> Ordinal(p), preset |-> p]
<1>1. L \in Nat /\ L > 0
  BY PresetsShape
<1>2. PICK n \in ScriptEnds :
         rows = Scripted(n) /\ counter = [t \in Tables |-> Cardinality(InTable(n, t))]
         /\ cut = (n \notin {0, L})
  BY DEF Init
<1>3. n \in 0 .. L
  BY <1>1, <1>2 DEF ScriptEnds
<1>4. phase = "down" /\ at = 1 /\ interruptions = 0
  BY DEF Init
<1>5. \A p : Row(p).preset = p /\ Row(p).table = Presets[p].table /\ Row(p).id = Ordinal(p)
  OBVIOUS
<1>6. rows = {Row(p) : p \in 1 .. n}
  BY <1>2 DEF Scripted
<1> HIDE DEF L, Row
<1>7. \A r \in rows : /\ r.preset \in 1 .. n /\ r = Row(r.preset)
                      /\ r.table = Presets[r.preset].table /\ r.id = Ordinal(r.preset)
  BY <1>5, <1>6
<1>8. \A r \in rows : r.preset \in Nat \ {0} /\ n \in Nat /\ r.preset <= n
  BY <1>1, <1>3, <1>7
<1>9. \A r \in rows : r.table \in Tables
  BY <1>1, <1>3, <1>7, PresetTable DEF L
<1>10. \A r \in rows : r.id \in Nat \ {0} /\ r.id <= counter[r.table]
  BY <1>2, <1>7, <1>8, <1>9, OrdinalIsCounted
<1>11. rows \subseteq Stored
  <2> SUFFICES ASSUME NEW r \in rows PROVE r \in Stored
    OBVIOUS
  <2>1. r.preset \in 1 .. L
    BY <1>1, <1>3, <1>7
  <2>2. r = [table |-> r.table, id |-> r.id, preset |-> r.preset]
    BY <1>5, <1>7 DEF Row
  <2> QED BY <1>9, <1>10, <2>1, <2>2 DEF Stored, L
<1>12. \A r, s \in rows : r.table = s.table /\ r.id = s.id => r = s
  <2> SUFFICES ASSUME NEW r \in rows, NEW s \in rows, r.table = s.table, r.id = s.id
               PROVE  r.preset = s.preset
    BY <1>7
  <2>1. ~(r.preset < s.preset)
    BY <1>7, <1>8, <1>10, OrdinalsDiffer
  <2>2. ~(s.preset < r.preset)
    BY <1>7, <1>8, <1>10, OrdinalsDiffer
  <2> QED BY <1>8, <2>1, <2>2
<1>13. counter \in [Tables -> Nat]
  BY <1>2, <1>3, InTableGrows
<1>14. TypeOK
  <2>1. 0 \in 0 .. MaxInterruptions
    BY PresetsAssumption
  <2>2. at \in 1 .. L + 1 /\ cut \in BOOLEAN
    BY <1>1, <1>2, <1>4
  <2> QED BY <1>4, <1>7, <1>10, <1>11, <1>12, <1>13, <2>1, <2>2 DEF TypeOK, L
<1>15. IdsAreAhead(0)
  <2>1. Written = 0 /\ \A t : Ahead(t, 0) = 0
    BY <1>4 DEF Written, Ahead
  <2>2. \A r \in rows : r.id = Ordinal(r.preset) + Ahead(r.table, 0)
    BY <1>7, <1>10, <2>1
  <2>3. ASSUME rows = {}
        PROVE  counter = [t \in Tables |-> Cardinality(InTable(0, t)) + Ahead(t, 0)]
    <3>1. n = 0
      <4>1. ~(1 \in 1 .. n)
        BY <1>6, <2>3
      <4> QED BY <1>1, <1>3, <4>1
    <3> QED BY <1>2, <2>1, <3>1, NoneInTable
  <2> QED BY <1>4, <2>1, <2>2, <2>3 DEF IdsAreAhead
<1> QED BY <1>14, <1>15

\* The row written next, and its id.
LEMMA WrittenRow ==
    ASSUME TypeOK, FirstPart, phase = "seeding", at \in 1 .. Len(Presets), Write(at),
           NEW k \in Nat, IdsAreAhead(k)
    PROVE  \E new \in Stored :
              /\ rows' = rows \cup {new}
              /\ new.preset = at /\ new.table = Presets[at].table
              /\ new.id = counter[new.table] + 1
              /\ counter' = [counter EXCEPT ![new.table] = @ + 1]
              /\ new.id = Ordinal(at) + Ahead(new.table, k)
              /\ counter' = [t \in Tables |-> Cardinality(InTable(at, t)) + Ahead(t, k)]
<1> DEFINE T == Presets[at].table
           new == [table |-> T, id |-> NextId(T), preset |-> at]
<1>1. T \in Tables
  BY PresetTable
<1>2. counter \in [Tables -> Nat]
  BY DEF TypeOK
<1>3. new \in Stored
  BY <1>1, <1>2 DEF Stored, NextId
<1>4. rows' = rows \cup {new} /\ counter' = [counter EXCEPT ![T] = @ + 1]
  BY DEF Write, UseId
<1>5. counter = [t \in Tables |-> Cardinality(InTable(at - 1, t)) + Ahead(t, k)]
  BY DEF IdsAreAhead, Written
<1>6. at - 1 \in Nat /\ (at - 1) + 1 = at
  BY PresetsShape
<1>7. \A t \in Tables : Ahead(t, k) \in Nat
  BY DEF Ahead
<1>8. \A t \in Tables :
         /\ Cardinality(InTable(at - 1, t)) \in Nat
         /\ Cardinality(InTable(at, t)) =
               Cardinality(InTable(at - 1, t)) + (IF T = t THEN 1 ELSE 0)
  BY <1>6, InTableGrows
<1>9. Cardinality(InTable(at, T)) + Ahead(T, k) = counter[T] + 1
  BY <1>1, <1>5, <1>7, <1>8
<1>10. \A t \in Tables : counter'[t] = Cardinality(InTable(at, t)) + Ahead(t, k)
  <2> SUFFICES ASSUME NEW t \in Tables
               PROVE  counter'[t] = Cardinality(InTable(at, t)) + Ahead(t, k)
    OBVIOUS
  <2>1. CASE t = T
    BY <1>2, <1>4, <1>9, <2>1
  <2>2. CASE t # T
    <3>1. counter'[t] = counter[t]
      BY <1>2, <1>4, <2>2
    <3>2. Cardinality(InTable(at, t)) = Cardinality(InTable(at - 1, t))
      BY <1>8, <2>2
    <3> QED BY <1>5, <3>1, <3>2
  <2> QED BY <2>1, <2>2
<1>11. counter' = [t \in Tables |-> Cardinality(InTable(at, t)) + Ahead(t, k)]
  <2>1. counter' \in [Tables -> Nat]
    BY <1>2, <1>4, <1>1
  <2> QED BY <1>10, <2>1
<1>12. /\ new.preset = at /\ new.table = T /\ new.id = counter[T] + 1
       /\ new.id = Ordinal(at) + Ahead(T, k)
  BY <1>9 DEF NextId, Ordinal
<1> QED BY <1>3, <1>4, <1>11, <1>12

LEMMA NumberedNext ==
    ASSUME IInv, [Next]_vars
    PROVE  TypeOK' /\ \E k \in 0 .. interruptions' : IdsAreAhead(k)'
<1> DEFINE L == Len(Presets)
<1>1. L \in Nat /\ L > 0
  BY PresetsShape
<1>2. PICK k \in 0 .. interruptions : IdsAreAhead(k)
  BY DEF IInv
<1>3. FirstPart /\ TypeOK /\ FirstPart'
  BY FirstPartNext DEF IInv
<1>0. interruptions \in Nat /\ k \in Nat /\ k <= interruptions
  BY <1>3, PresetsAssumption DEF TypeOK
<1>4. phase' \in {"down", "migrating", "counting", "seeding", "serving"} /\ at' \in 1 .. L + 1
  BY <1>3 DEF FirstPart
<1>5. \A r \in rows : r.id <= counter[r.table] /\ r.table \in Tables /\ r.id \in Nat
  BY <1>3 DEF TypeOK, Stored
\* Rows and counters as they were.
<1>6. ASSUME rows' = rows, counter' = counter, phase = "seeding" => phase' # "seeding",
             phase' = "seeding" => at' = 1 /\ rows = {},
             interruptions' \in interruptions .. MaxInterruptions, cut' \in BOOLEAN
      PROVE  TypeOK' /\ \E j \in 0 .. interruptions' : IdsAreAhead(j)'
  <2>0. k \in 0 .. interruptions' /\ interruptions' \in 0 .. MaxInterruptions
    BY <1>6, <1>0, PresetsAssumption
  <2>1. TypeOK'
    BY <1>3, <1>4, <1>6, <2>0 DEF TypeOK
  <2>2. rows = {} => Written = 0
    <3> SUFFICES ASSUME rows = {}, phase = "seeding" PROVE at = 1
      BY DEF Written
    <3>1. 1 .. at - 1 = {}
      BY <1>3 DEF FirstPart, There
    <3> HIDE DEF L
    <3>2. at \in 1 .. L + 1
      BY <1>3 DEF FirstPart, L
    <3> QED BY <1>1, <3>1, <3>2
  <2>3. Written' = 0
    BY <1>6 DEF Written
  <2>4. IdsAreAhead(k)'
    BY <1>2, <1>6, <2>2, <2>3 DEF IdsAreAhead
  <2> QED BY <2>1, <2>4, <2>0
\* A row is written.
<1>7. ASSUME phase = "seeding", at \in 1 .. L, Write(at),
             phase' = "seeding" => at' = at + 1,
             interruptions' \in interruptions .. MaxInterruptions, cut' \in BOOLEAN
      PROVE  TypeOK' /\ \E j \in 0 .. interruptions' : IdsAreAhead(j)'
  <2>1. PICK new \in Stored :
              /\ rows' = rows \cup {new}
              /\ new.preset = at /\ new.table = Presets[at].table
              /\ new.id = counter[new.table] + 1
              /\ counter' = [counter EXCEPT ![new.table] = @ + 1]
              /\ new.id = Ordinal(at) + Ahead(new.table, k)
              /\ counter' = [t \in Tables |-> Cardinality(InTable(at, t)) + Ahead(t, k)]
    BY <1>2, <1>3, <1>7, WrittenRow
  <2>2. new.table \in Tables /\ new.id \in Nat
    BY DEF Stored
  <2>3. counter \in [Tables -> Nat] /\ counter' \in [Tables -> Nat]
    BY <1>3, <2>1, <2>2 DEF TypeOK
  <2>4. \A t \in Tables : counter[t] <= counter'[t]
    BY <2>1, <2>3
  <2>5. counter'[new.table] = new.id
    BY <2>1, <2>2, <2>3
  <2>6. \A r \in rows' : r.table = Presets[r.preset].table /\ r.id <= counter'[r.table]
    <3> SUFFICES ASSUME NEW r \in rows'
                 PROVE  r.table = Presets[r.preset].table /\ r.id <= counter'[r.table]
      OBVIOUS
    <3>1. CASE r = new
      BY <2>1, <2>2, <2>5, <3>1
    <3>2. CASE r \in rows
      <4>1. r.table = Presets[r.preset].table
        BY <1>3, <3>2 DEF TypeOK
      <4>2. r.id <= counter[r.table] /\ counter[r.table] <= counter'[r.table]
            /\ counter[r.table] \in Nat /\ counter'[r.table] \in Nat /\ r.id \in Nat
        BY <1>5, <2>3, <2>4, <3>2
      <4> QED BY <4>1, <4>2
    <3> QED BY <2>1, <3>1, <3>2
  <2>7. \A r \in rows : ~(r.table = new.table /\ r.id = new.id)
    <3> SUFFICES ASSUME NEW r \in rows, r.table = new.table PROVE r.id # new.id
      OBVIOUS
    <3>1. counter[new.table] \in Nat
      BY <2>2, <2>3
    <3>2. r.id <= counter[new.table] /\ r.id \in Nat
      BY <1>5
    <3> QED BY <2>1, <3>1, <3>2
  <2>8. \A r, s \in rows' : r.table = s.table /\ r.id = s.id => r = s
    BY <1>3, <2>1, <2>7 DEF TypeOK
  <2>9. rows' \subseteq Stored
    BY <1>3, <2>1 DEF TypeOK
  <2>0. k \in 0 .. interruptions' /\ interruptions' \in 0 .. MaxInterruptions
    BY <1>7, <1>0, PresetsAssumption
  <2>10. TypeOK'
    <3> HIDE DEF L
    <3>1. Stored' = Stored
      BY DEF Stored
    <3> QED BY <1>3, <1>4, <1>7, <2>3, <2>6, <2>8, <2>9, <2>0, <3>1 DEF TypeOK, L
  <2>11. \A r \in rows' : r.id = Ordinal(r.preset) + Ahead(r.table, k)
    BY <1>2, <2>1 DEF IdsAreAhead
  <2>12. rows' # {}
    BY <2>1
  <2>13. phase' = "seeding" => Written' = at
    <3> HIDE DEF L
    <3>1. (at + 1) - 1 = at
      BY <1>1, <1>7
    <3> QED BY <1>7, <3>1 DEF Written
  <2>14. IdsAreAhead(k)'
    BY <2>1, <2>11, <2>12, <2>13 DEF IdsAreAhead
  <2> QED BY <2>10, <2>14, <2>0
\* An id is used up.
<1>8. ASSUME phase = "seeding", at \in 1 .. L, UseId(at), rows' = rows, phase' = "down",
             interruptions' = interruptions + 1, interruptions' <= MaxInterruptions, cut' \in BOOLEAN
      PROVE  TypeOK' /\ \E j \in 0 .. interruptions' : IdsAreAhead(j)'
  <2> DEFINE T == Presets[at].table
  <2>1. T \in Tables /\ counter \in [Tables -> Nat] /\ counter' = [counter EXCEPT ![T] = @ + 1]
    BY <1>3, <1>8, PresetTable DEF TypeOK, UseId
  <2> HIDE DEF T
  <2>2. counter' \in [Tables -> Nat] /\ \A t \in Tables : counter[t] <= counter'[t]
    BY <2>1
  <2>3. \A r \in rows : r.id <= counter'[r.table]
    <3> SUFFICES ASSUME NEW r \in rows PROVE r.id <= counter'[r.table]
      OBVIOUS
    <3>1. r.id <= counter[r.table] /\ counter[r.table] <= counter'[r.table]
          /\ counter[r.table] \in Nat /\ counter'[r.table] \in Nat /\ r.id \in Nat
      BY <1>5, <2>1, <2>2
    <3> QED BY <3>1
  <2>4. TypeOK'
    <3>1. interruptions' \in 0 .. MaxInterruptions
      BY <1>8, <1>0, PresetsAssumption
    <3> QED BY <1>3, <1>4, <1>8, <2>2, <2>3, <3>1 DEF TypeOK
  <2>5. CASE rows # {}
    <3>1. IdsAreAhead(k)'
      BY <1>2, <1>8, <2>5 DEF IdsAreAhead
    <3>2. k \in 0 .. interruptions'
      BY <1>8, <1>0
    <3> QED BY <2>4, <3>1, <3>2
  <2>6. CASE rows = {}
    <3>1. at = 1
      <4>1. 1 .. at - 1 = {}
        BY <1>3, <1>8, <2>6 DEF FirstPart, There
      <4> HIDE DEF L
      <4> QED BY <1>1, <1>8, <4>1
    <3>2. T = UsersTable
      BY <3>1, PresetsShape DEF T
    <3>3. Written = 0 /\ Written' = 0
      <4>1. 1 - 1 = 0
        OBVIOUS
      <4> QED BY <1>8, <3>1, <4>1 DEF Written
    <3>4. counter = [t \in Tables |-> 0 + Ahead(t, k)]
      BY <1>2, <2>6, <3>3, NoneInTable DEF IdsAreAhead
    <3>5. counter' = [t \in Tables |-> 0 + Ahead(t, k + 1)]
      BY <2>1, <3>2, <3>4 DEF Ahead
    <3>6. IdsAreAhead(k + 1)'
      BY <1>8, <2>6, <3>3, <3>5, NoneInTable DEF IdsAreAhead
    <3>7. k + 1 \in 0 .. interruptions'
      BY <1>8, <1>0
    <3> QED BY <2>4, <3>6, <3>7
  <2> QED BY <2>5, <2>6
<1>9. ASSUME UNCHANGED <<interruptions, cut>>
      PROVE  interruptions' \in interruptions .. MaxInterruptions /\ cut' \in BOOLEAN
  BY <1>3, <1>9, <1>0, PresetsAssumption DEF TypeOK
<1>10. CASE Start
  <2>1. phase = "down" /\ phase' = "migrating" /\ UNCHANGED <<rows, counter, interruptions, cut>>
    BY <1>10 DEF Start
  <2> QED BY <1>6, <1>9, <2>1
<1>11. CASE Migrate
  <2>1. phase = "migrating" /\ phase' = "counting"
        /\ UNCHANGED <<rows, counter, interruptions, cut>>
    BY <1>11 DEF Migrate
  <2> QED BY <1>6, <1>9, <2>1
<1>12. CASE Count
  <2>1. phase = "counting" /\ phase' = (IF IsEmpty THEN "seeding" ELSE "serving") /\ at' = 1
        /\ UNCHANGED <<rows, counter, interruptions, cut>>
    BY <1>12 DEF Count
  <2>2. IsEmpty => rows = {}
    <3>1. IsEmpty => There' = 1 .. 1 - 1
      BY <1>3, <2>1 DEF FirstPart
    <3>2. There' = There /\ 1 .. 1 - 1 = {}
      BY <2>1 DEF There
    <3> QED BY <3>1, <3>2 DEF There
  <2> QED BY <1>6, <1>9, <2>1, <2>2
<1>13. CASE Insert
  <2>1. phase = "seeding" /\ at <= L /\ UNCHANGED <<interruptions, cut>>
    BY <1>13 DEF Insert
  <2>2. at \in 1 .. L
    <3>1. at \in 1 .. L + 1
      BY <1>3 DEF FirstPart
    <3> HIDE DEF L
    <3> QED BY <1>1, <2>1, <3>1
  <2>3. CASE Write(at) /\ at' = at + 1
    BY <1>7, <1>9, <2>1, <2>2, <2>3
  <2>4. CASE phase' = "down" /\ UNCHANGED <<at, rows, counter>>
    BY <1>6, <1>9, <2>1, <2>4
  <2> QED BY <1>13, <2>3, <2>4 DEF Insert
<1>14. CASE Serve
  <2>1. phase' = "serving" /\ UNCHANGED <<rows, counter, interruptions, cut>>
    BY <1>14 DEF Serve
  <2> QED BY <1>6, <1>9, <2>1
<1>15. CASE Interrupted
  <2>1. phase' = "down" /\ Remains /\ cut' \in BOOLEAN
    BY <1>15 DEF Interrupted, Interruption
  <2>2. /\ interruptions' = interruptions + 1 /\ interruptions' <= MaxInterruptions
        /\ interruptions' \in interruptions .. MaxInterruptions
    <3>1. interruptions < MaxInterruptions /\ interruptions' = interruptions + 1
      BY <1>15 DEF Interrupted, Interruption
    <3> QED BY <1>0, <3>1, PresetsAssumption
  <2>3. phase = "seeding" /\ at <= L => at \in 1 .. L
    <3>1. at \in 1 .. L + 1
      BY <1>3 DEF FirstPart
    <3> HIDE DEF L
    <3> QED BY <1>1, <3>1
  <2>4. CASE UNCHANGED <<rows, counter>>
    BY <1>6, <2>1, <2>2, <2>4
  <2>5. CASE phase = "seeding" /\ at <= L /\ UseId(at) /\ UNCHANGED rows
    BY <1>8, <2>1, <2>2, <2>3, <2>5
  <2>6. CASE phase = "seeding" /\ at <= L /\ Write(at)
    BY <1>7, <2>1, <2>2, <2>3, <2>6
  <2> QED BY <2>1, <2>4, <2>5, <2>6 DEF Remains
<1>16. CASE UNCHANGED vars
  <2>1. TypeOK'
    BY <1>3, <1>16 DEF TypeOK, vars
  <2>2. IdsAreAhead(k)'
    BY <1>2, <1>16 DEF IdsAreAhead, vars, Written
  <2> QED BY <1>16, <2>1, <2>2 DEF vars
<1> QED BY <1>10, <1>11, <1>12, <1>13, <1>14, <1>15, <1>16 DEF Next, Run

LEMMA InitInv == Init => IInv
<1>1. Init => interruptions = 0
  BY DEF Init
<1> QED BY <1>1, FirstPartInit, InitNumbered DEF IInv

LEMMA NextInv == IInv /\ [Next]_vars => IInv'
BY FirstPartNext, NumberedNext DEF IInv

LEMMA Invariance == Spec => []IInv
BY InitInv, NextInv, PTL DEF Spec

-----------------------------------------------------------------------------
(* The theorems. *)

\* However often the start is interrupted and repeated, no preset is written
\* twice.
THEOREM SeededOnceCorrect == Spec => []SeededOnce
<1>1. IInv => SeededOnce
  BY DEF IInv, FirstPart
<1> QED BY <1>1, Invariance, PTL

\* A serving server lacks a preset only where the seeding or the script was cut,
\* and then it is the last ones that are missing.
THEOREM GapsCorrect == Spec => []GapsComeFromCuts
<1>1. IInv => GapsComeFromCuts
  <2> SUFFICES ASSUME IInv PROVE GapsComeFromCuts
    OBVIOUS
  <2>1. PICK n \in 0 .. Len(Presets) : There = 1 .. n
    BY DEF IInv, FirstPart, Prefix
  <2>2. \A p \in There : 1 .. p \subseteq There
    BY <2>1
  <2> QED BY <2>2 DEF IInv, FirstPart, GapsComeFromCuts
<1> QED BY <1>1, Invariance, PTL

\* Types; an id that was given out is of one preset only.
THEOREM TypeCorrect == Spec => []TypeOK
<1>1. IInv => TypeOK
  BY DEF IInv
<1> QED BY <1>1, Invariance, PTL

\* Whatever a stored row refers to is stored, however the start was interrupted
\* and repeated before; it has the id the reference names, but users have one
\* that is higher by a number common to all, at most one for each interruption.
THEOREM ReferencesCorrect == Spec => []ReferencesHold
<1>1. IInv => ReferencesHold
  <2> SUFFICES ASSUME IInv PROVE ReferencesHold
    OBVIOUS
  <2> DEFINE L == Len(Presets)
  <2>1. L \in Nat /\ L > 0 /\ DOMAIN Presets = 1 .. L
    BY PresetsAssumption, LenProperties
  <2>2. FirstPart /\ TypeOK
    BY DEF IInv
  <2>3. PICK k \in 0 .. interruptions : IdsAreAhead(k)
    BY DEF IInv
  <2>4. ASSUME NEW r \in rows, NEW ref \in Presets[r.preset].refers
        PROVE  IsStored(ref[1], ref[2], ref[2] + Ahead(ref[1], k))
    <3>1. r.preset \in 1 .. L
      BY <2>2 DEF FirstPart
    <3>2. PICK q \in 1 .. r.preset - 1 : Presets[q].table = ref[1] /\ Ordinal(q) = ref[2]
      BY <2>1, <3>1, ReferencesAssumption
    <3> HIDE DEF L
    <3>3. q \in Nat \ {0} /\ q < r.preset
      BY <2>1, <3>1, <3>2
    <3>4. q \in There
      <4>1. PICK n \in 0 .. L : There = 1 .. n
        BY <2>2 DEF FirstPart, Prefix, L
      <4>2. r.preset \in 1 .. n
        BY <4>1 DEF There
      <4> QED BY <2>1, <3>3, <4>1, <4>2
    <3>5. PICK s \in rows : s.preset = q
      BY <3>4 DEF There
    <3>6. s.table = ref[1] /\ s.id = ref[2] + Ahead(ref[1], k) /\ Ordinal(s.preset) = ref[2]
      BY <2>2, <2>3, <3>2, <3>5 DEF TypeOK, IdsAreAhead
    <3> QED BY <3>6 DEF IsStored
  <2> QED BY <2>3, <2>4 DEF ReferencesHold
<1> QED BY <1>1, Invariance, PTL

=============================================================================
