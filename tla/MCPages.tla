---------------------------- MODULE MCPages ----------------------------
(***************************************************************************)
(* An instance of Pages for TLC: two inspections of one item each, two     *)
(* incidents of one severity.                                              *)
(***************************************************************************)
EXTENDS Pages, TLC

CONSTANTS rail, helmet

MCItemsOf == 1 :> {rail} @@ 2 :> {helmet}
MCSeverityOf == 1 :> "minor" @@ 2 :> "minor"
=============================================================================
