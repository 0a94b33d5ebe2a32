------------------------------ MODULE StatusMail ------------------------------
(***************************************************************************)
(* The e-mails that tell a customer of every status change.  A save leaves *)
(* its WorkOrderStatusChanged with the request that made it, which applies *)
(* its stock step, if it has one, and then publishes: the subscriber looks *)
(* the customer up, sends one message, and logs whatever goes wrong.       *)
(* Nobody waits for a subscriber, so those of several changes run side by  *)
(* side, while the work order moves on.                                    *)
(*                                                                         *)
(* The requests are those of WorkOrderStore.  A save is known by the       *)
(* version it gave the row.                                                *)
(***************************************************************************)
EXTENDS WorkOrderStore

VARIABLES
  mails,   \* per save that changed the status: its event and how far the mail got
  inbox,   \* messages the mail server took, with the save each one is of
  trail    \* history: the status and pending round after each save

mailVars == <<storeVars, mails, inbox, trail>>

NoLink == [round |-> 0, generation |-> 0, total |-> 0]
BudgetToDecide(w) ==
  IF w.status = "AWAITING_APPROVAL" THEN CHOOSE link \in Mailed(w) : TRUE ELSE NoLink

\* What the event and the message made of it say.
Tells(w) == [status |-> w.status, budget |-> BudgetToDecide(w)]

MailInit ==
  /\ StoreInit
  /\ mails = [v \in 0 .. 0 |-> [at |-> "unpublished", event |-> Tells(Opened)]]
  /\ inbox = {}
  /\ trail = [v \in 0 .. 0 |-> Tells(Opened)]

Extended(f, v, x) == [u \in DOMAIN f \cup {v} |-> IF u = v THEN x ELSE f[u]]

\* recordStatusChange: a command records one event if it changes the status,
\* and it is left with the request once the save has committed.
Recorded ==
  IF wo'.status = wo.status THEN UNCHANGED mails
  ELSE mails' = Extended(mails, version', [at |-> "unpublished", event |-> Tells(wo')])

SaveWithEvents(c) ==
  /\ Save(c)
  /\ Recorded
  /\ trail' = Extended(trail, version', Tells(wo'))
  /\ UNCHANGED inbox

\* A request that ends without a save ends without an event.
Refused(c) == GiveUp(c) /\ UNCHANGED <<mails, inbox, trail>>

ReadForCommand(c) == Read(c) /\ UNCHANGED <<mails, inbox, trail>>

-------------------------------------------------------------------------------
(* The dispatcher and the subscriber. *)

Moves(v, from, to) ==
  /\ mails[v].at = from
  /\ mails' = [mails EXCEPT ![v].at = to]
  /\ UNCHANGED <<storeVars, trail>>

Publish(v) == Moves(v, "unpublished", "finding") /\ UNCHANGED inbox

FindCustomer(v) == Moves(v, "finding", "sending") /\ UNCHANGED inbox
LookupFails(v) == Moves(v, "finding", "logged") /\ UNCHANGED inbox

Composed(v) == [of |-> v, message |-> mails[v].event]

\* Mutation: a subscriber whose send failed starts again.
SendRetried(v) ==
  \/ Moves(v, "sending", "mailed") /\ inbox' = inbox \cup {Composed(v)}
  \/ Moves(v, "sending", "finding") /\ inbox' = inbox

\* The server takes the message, and its answer may be lost on the way back.
Send(v) ==
  \/ Moves(v, "sending", "mailed") /\ inbox' = inbox \cup {Composed(v)}
  \/ Moves(v, "sending", "logged") /\ inbox' \in {inbox, inbox \cup {Composed(v)}}

\* The process of the request stops: whatever it had not sent yet is lost.
Stop(v) ==
  /\ mails[v].at \in {"unpublished", "finding", "sending"}
  /\ mails' = [mails EXCEPT ![v].at = "lost"]
  /\ UNCHANGED <<storeVars, trail, inbox>>

Mail(v) == Publish(v) \/ FindCustomer(v) \/ LookupFails(v) \/ Send(v)

MailNext ==
  \/ \E c \in Requests : ReadForCommand(c) \/ SaveWithEvents(c) \/ Refused(c)
  \/ \E v \in DOMAIN mails : Mail(v) \/ Stop(v)

\* A process that goes on runs the steps of its subscribers: the dispatcher
\* starts them, and a lookup and an SMTP exchange end, if only in an error.
MailsGoOn == \A v \in 0 .. MaxVersion : WF_mailVars(v \in DOMAIN mails /\ Mail(v))

MailSpec == MailInit /\ [][MailNext]_mailVars /\ MailsGoOn

-------------------------------------------------------------------------------
(* Properties. *)

\* A message tells of a change that was committed, in the words of that
\* change: the status and the budget as they stood then, whatever the work
\* order has become by the time the subscriber runs.
MailsTellCommittedChanges ==
  \A mail \in inbox : /\ mail.of \in DOMAIN trail
                      /\ mail.message = trail[mail.of]

\* Every status change ends mailed or logged, unless the process stops.
ChangesAreTold ==
  \A v \in 0 .. MaxVersion :
    v \in DOMAIN mails ~> v \in DOMAIN mails /\ mails[v].at \in {"mailed", "logged", "lost"}

\* The links of two messages never decide the same round: a round generated
\* again is told by a new message, and only the last one's link is current.
OneCurrentLink ==
  \A m, n \in inbox :
    /\ m.message.budget # NoLink /\ n.message.budget # NoLink
    /\ LinkIsCurrent(wo, m.message.budget) /\ LinkIsCurrent(wo, n.message.budget)
    /\ m.message.budget.round = n.message.budget.round
    => m.of = n.of
===============================================================================
