---------------------------- MODULE Pages ----------------------------
(***************************************************************************)
(* The routes of the browser's program with dialogs of their own: one page *)
(* is on show at a time.  Pages share the client of the requests and       *)
(* nothing else, so a visit of the program is a visit of one of them.      *)
(***************************************************************************)
EXTENDS Naturals

CONSTANTS Inspections, ItemsOf, RowsToAPage, Turns,   \* of the inspections' page
          Incidents, SeverityOf, StatusOptions,       \* of the incidents' page
          MaxSent, MaxPending                         \* bounds

ASSUME PagesAssumption ==
    /\ Inspections \subseteq Nat \ {0} /\ Incidents \subseteq Nat \ {0}
    /\ RowsToAPage \in Nat \ {0} /\ 1 \in Turns /\ Turns \subseteq Nat \ {0}
    /\ MaxSent \in Nat \ {0} /\ MaxPending \in Nat \ {0}

VARIABLES route, page, store, sent, count, verdicts, told, status, moved

vars == <<route, page, store, sent, count, verdicts, told, status, moved>>

Inspection == INSTANCE InspectionPage WITH Pages <- Turns, PageSize <- RowsToAPage
Incident == INSTANCE IncidentPage

Init ==
    \/ /\ route = "inspections"
       /\ Inspection!Init
       /\ status = [id \in Incidents |-> "reported"] /\ moved = {}
    \/ /\ route = "incidents"
       /\ Incident!Init
       /\ verdicts = [id \in {} |-> {}] /\ told = {}

OfInspections == route = "inspections" /\ Inspection!Next /\ UNCHANGED <<route, status, moved>>
OfIncidents == route = "incidents" /\ Incident!Next /\ UNCHANGED <<route, verdicts, told>>

Next == OfInspections \/ OfIncidents

Spec == Init /\ [][Next]_vars

----------------------------------------------------------------------------
(* The properties of both pages. *)

\* Type invariant: that of the page on show; for the inspections it says that a
\* dialog always holds the items of its own inspection.
TypeOK == IF route = "inspections" THEN Inspection!TypeOK ELSE Incident!TypeOK

\* Who is told that an inspection is executed decided its verdict
\* (InspectionManage.onExecute).
SuccessIsOwn == route = "inspections" => Inspection!SuccessIsOwn

\* A list asked for since the filter was last changed answers that filter
\* (inspectionStore.fetchList).
ListAnswersFilter == route = "inspections" => Inspection!ListAnswersFilter

\* A step the server takes for the page is of the incident and from the status
\* that the user saw when he clicked (IncidentManage, useIncident).
StepsAreOfWhatWasSeen == route = "incidents" => Incident!StepsAreOfWhatWasSeen

\* Only an answer to something older than the dialog can show another incident
\* in it (useIncident.load).
ShownIsChosen == route = "incidents" => Incident!ShownIsChosen

\* The inductive invariant: that of the page on show.
IInv ==
    /\ route \in {"inspections", "incidents"}
    /\ route = "inspections" => Inspection!IInv
    /\ route = "incidents" => Incident!IInv

=============================================================================
