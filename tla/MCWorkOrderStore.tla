--------------------------- MODULE MCWorkOrderStore ---------------------------
(***************************************************************************)
(* One work order under concurrent requests, and those it is told to while *)
(* it changes: its summary, and the mails.  Readers change nothing, so     *)
(* each is put beside the requests by itself: a behaviour has requests     *)
(* alone, a summary beside the commands they amount to, or mails.          *)
(***************************************************************************)
EXTENDS WorkOrderView, TLC

CONSTANTS
  Components,  \* those that may move
  MaxMailed,   \* bound: how many times a work order that mails is saved
  MaxOnTheWay, \* bound: its mails that are on their way at once
  MaxUnsent    \* bound: its mails that are lost, or end in an error

VARIABLE part  \* the component that moves

MCServicePrice == [s \in Services |-> 3]
MCPartPrice == [p \in Parts |-> 1]

-------------------------------------------------------------------------------
(* The composition. *)

OrderInit == part \in Components /\ ReadersInit

orderVars == <<part, readersVars>>

RequestsMove == StoreNext /\ UNCHANGED <<mails, inbox, trail, view>>

SummaryMoves == ViewNext /\ UNCHANGED <<version, request, mails, inbox, trail>>

MailsAt(places) == {v \in DOMAIN mails : mails[v].at \in places}

\* Requests come one after another, and none gives a discount.
OneRequest == \A c, d \in Requests : "idle" \in {request'[c].at, request'[d].at} \/ c = d
MailsMove ==
  /\ MailNext /\ UNCHANGED view
  /\ OneRequest /\ wo'.discount = 0 /\ version' <= MaxMailed
  /\ Cardinality(MailsAt({"unpublished", "finding", "sending"})') <= MaxOnTheWay
  /\ Cardinality(MailsAt({"logged", "lost"})') <= MaxUnsent

OrderNext ==
  /\ UNCHANGED part
  /\ \/ part = "requests" /\ RequestsMove
     \/ part = "summary" /\ SummaryMoves
     \/ part = "mails" /\ MailsMove

OrderSpec == OrderInit /\ [][OrderNext]_orderVars

Symmetry == Permutations(Requests)

\* Its properties are those of WorkOrderStore and WorkOrderView.
===============================================================================
