------------------------------ MODULE StockOutbox ------------------------------
(***************************************************************************)
(* The outbox of stock steps, the table work_order_stock_steps, for one    *)
(* work order.  A row's index is its id, and its operation the withdrawal  *)
(* or return it is about.  Time is the column due: whether due_at has      *)
(* passed.  The grace period of an armed step and the lease of a claimed   *)
(* one end in a step of StockSteps; a retry delay ends at once, because a  *)
(* due step may be claimed arbitrarily later.                              *)
(*                                                                         *)
(* Every statement is an operator on the value of the table, so that a     *)
(* transaction can run two of them.                                        *)
(***************************************************************************)
EXTENDS Integers, Sequences

StepKind == {"UNDO_CONSUMPTION", "CONFIRM_CONSUMPTION", "RESTORE", "SETTLE", "WRITE_OFF"}
StepStatus == {"ARMED", "PENDING", "DONE", "FAILED"}

Unclosed == {"ARMED", "PENDING"}

Row(kind, operation, status, due) ==
  [kind |-> kind, operation |-> operation, status |-> status, due |-> due, attempts |-> 0]

Armed(outbox, w) == Append(outbox, Row("UNDO_CONSUMPTION", w, "ARMED", FALSE))
Enqueued(outbox, kind, op) == Append(outbox, Row(kind, op, "PENDING", TRUE))

\* The undo step of a withdrawal, which its operation id names.
UndoRows(outbox, w) ==
  {i \in DOMAIN outbox : outbox[i].kind = "UNDO_CONSUMPTION" /\ outbox[i].operation = w}

IsArmed(outbox, w) == \E i \in UndoRows(outbox, w) : outbox[i].status = "ARMED"

Closed(outbox, i) ==
  IF outbox[i].status \in Unclosed THEN [outbox EXCEPT ![i].status = "DONE"] ELSE outbox

\* disarm and complete close a step in the same way; disarm requires IsArmed.
Disarmed(outbox, w) == Closed(outbox, CHOOSE i \in UndoRows(outbox, w) : TRUE)
Completed(outbox, i) == Closed(outbox, i)

\* release makes an armed step due now, and leaves a claimed one alone.
Released(outbox, w) ==
  [i \in DOMAIN outbox |->
     IF i \in UndoRows(outbox, w) /\ outbox[i].status = "ARMED"
     THEN [outbox[i] EXCEPT !.status = "PENDING", !.due = TRUE] ELSE outbox[i]]

\* Mutation: a failed step no longer holds the later steps of its work order.
ClaimableAfterFailed(outbox, i) ==
  /\ outbox[i].status \in Unclosed /\ outbox[i].due
  /\ \/ outbox[i].kind = "UNDO_CONSUMPTION"
     \/ \A j \in 1 .. i - 1 : outbox[j].kind # "UNDO_CONSUMPTION" => outbox[j].status \notin Unclosed

\* Mutation: a step whose first attempt was lost is not claimed again.
ClaimableOnce(outbox, i) ==
  /\ outbox[i].status \in Unclosed /\ outbox[i].due /\ outbox[i].attempts = 0
  /\ \/ outbox[i].kind = "UNDO_CONSUMPTION"
     \/ \A j \in 1 .. i - 1 : outbox[j].kind # "UNDO_CONSUMPTION" => outbox[j].status = "DONE"

\* CLAIM_DUE: in the order recorded, except for an undo.
Claimable(outbox, i) ==
  /\ outbox[i].status \in Unclosed /\ outbox[i].due
  /\ \/ outbox[i].kind = "UNDO_CONSUMPTION"
     \/ \A j \in 1 .. i - 1 : outbox[j].kind # "UNDO_CONSUMPTION" => outbox[j].status = "DONE"

Claimed(outbox, i) ==
  [outbox EXCEPT ![i].status = "PENDING", ![i].due = FALSE, ![i].attempts = @ + 1]

\* recordFailure, or markFailed at the attempt limit.
Failed(outbox, i, exhausted) ==
  IF outbox[i].status \notin Unclosed THEN outbox
  ELSE IF exhausted THEN [outbox EXCEPT ![i].status = "FAILED"]
  ELSE [outbox EXCEPT ![i].due = TRUE]
===============================================================================
