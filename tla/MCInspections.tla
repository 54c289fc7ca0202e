--------------------------- MODULE MCInspections ---------------------------
(***************************************************************************)
(* Instances of Inspections for TLC: an inspection with two items and one  *)
(* planned without items, and lists that are exact, partial, repeated,     *)
(* contradictory, foreign or empty.                                        *)
(***************************************************************************)
EXTENDS Inspections, TLC

CONSTANTS site, empty, rail, helmet, ghost

MCItemsOf == site :> {rail, helmet} @@ empty :> {}

Pass(i) == [item |-> i, passed |-> TRUE]
Fail(i) == [item |-> i, passed |-> FALSE]

\* Lists of at most three entries.
MCRequests ==
    {<<>>, <<Pass(rail)>>, <<Pass(rail), Pass(helmet)>>, <<Pass(rail), Fail(helmet)>>,
     <<Fail(rail), Pass(rail), Pass(helmet)>>, <<Pass(ghost)>>}

\* The doubles of 29/50, 29/100, 57/100 and 58/100 fall short of them.
MCFloatShort == {<<29, 50>>, <<29, 100>>, <<57, 100>>, <<58, 100>>}

=============================================================================
