---------------------------- MODULE WorkOrderView -----------------------------
(***************************************************************************)
(* A summary of one work order as it is shown: its row is read first, and  *)
(* then its services, its parts and its budgets by three queries running   *)
(* at once, each of what is committed when it runs.  Commands on the work  *)
(* order take effect between any two of them, so a summary can mix         *)
(* moments; the properties say what a reader may still rely on.            *)
(*                                                                         *)
(* ViewSpec is the summary beside the commands of WorkOrder.  ReadersSpec  *)
(* puts it beside what goes on around a work order: the requests that read *)
(* and save it, and the mails of their changes.                            *)
(***************************************************************************)
EXTENDS StatusMail

VARIABLE view  \* the queries answered so far, and the summary they make up

viewVars == <<wo, links, view>>

Queries == {"row", "services", "parts", "budgets"}
NoView == [got |-> {}, shown |-> Opened]

ViewInit == Init /\ view = NoView

\* What the row tells; the columns of the other tables are still to come.
WithRow(shown) ==
  [wo EXCEPT !.services = shown.services, !.parts = shown.parts, !.budgets = shown.budgets]

\* One query: ready when those it waits for are answered.
Query(q, after, shown) ==
  /\ q \notin view.got /\ after \subseteq view.got
  /\ view' = [got |-> view.got \cup {q}, shown |-> shown]
  /\ UNCHANGED vars

ShowRow == Query("row", {}, WithRow(view.shown))

\* Mutation: the parts are read without waiting for the row.
ShowPartsAtOnce == Query("parts", {}, [view.shown EXCEPT !.parts = wo.parts])

ShowServices == Query("services", {"row"}, [view.shown EXCEPT !.services = wo.services])
ShowParts == Query("parts", {"row"}, [view.shown EXCEPT !.parts = wo.parts])
ShowBudgets == Query("budgets", {"row"}, [view.shown EXCEPT !.budgets = wo.budgets])

Answered == view.got = Queries

Answer == Answered /\ view' = NoView /\ UNCHANGED vars

Ask == ShowRow \/ ShowServices \/ ShowParts \/ ShowBudgets \/ Answer

ViewNext == (Next /\ UNCHANGED view) \/ Ask

ViewSpec == ViewInit /\ [][ViewNext]_viewVars

-------------------------------------------------------------------------------
(* All those a work order is told to, while requests change it. *)

readersVars == <<mailVars, view>>

ReadersInit == MailInit /\ view = NoView

ReadersNext ==
  \/ MailNext /\ UNCHANGED view
  \/ Ask /\ UNCHANGED mailVars

ReadersSpec == ReadersInit /\ [][ReadersNext]_readersVars

-------------------------------------------------------------------------------
(* Properties. *)

\* The summary has the columns of a work order, whatever they say.
ViewTypeOK == TypeOK /\ view.got \subseteq Queries /\ IsWorkOrder(view.shown)

\* A work order shown as awaiting approval is shown with a round, and one shown
\* in execution or later with its first round approved, whatever was saved
\* between the queries: rounds are only ever added, and an approval stands.
ShownStatusHasItsRounds ==
  Answered =>
    /\ view.shown.status = "AWAITING_APPROVAL" => view.shown.budgets # << >>
    /\ view.shown.status \in {"IN_EXECUTION", "COMPLETED", "DELIVERED"} =>
         view.shown.budgets # << >> /\ view.shown.budgets[1].status = "APPROVED"

\* The charged total shown is what the shown services and parts of the shown
\* approved rounds come to less the shown discount: items no longer change once
\* a row says completed.
ShownChargeAddsUp ==
  Answered /\ view.shown.status \in {"COMPLETED", "DELIVERED"} =>
    view.shown.charged = Charge(view.shown) - view.shown.discount

\* A summary that shows a closed work order shows that work order and nothing
\* of an earlier moment.
ClosedViewIsTheOrder ==
  Answered /\ view.shown.status \in {"DELIVERED", "CANCELED"} => view.shown = wo

\* All a reader of a summary may rely on, whatever is saved between its queries.
SummaryIsTrue ==
  ViewTypeOK /\ ShownStatusHasItsRounds /\ ShownChargeAddsUp /\ ClosedViewIsTheOrder

\* What is put together of several queries, while the order changes between them,
\* is true where it can be relied on: a summary shows a status with its rounds and
\* a charge that adds up, a closed one is exact, a mail tells of the change it was
\* sent for, and of two mails about one round one at most can still decide it.
ReadersAreToldTheTruth == SummaryIsTrue /\ MailsTellCommittedChanges /\ OneCurrentLink
===============================================================================
