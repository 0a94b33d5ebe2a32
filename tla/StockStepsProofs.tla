--------------------------- MODULE StockStepsProofs ---------------------------
(***************************************************************************)
(* Theorems about StockSteps, for any number of withdrawals, returns,      *)
(* workers, attempts and faults: what was undone never reached the work    *)
(* order, and nothing is closed that did not.  A transaction that commits  *)
(* although it seems to fail is left out: UndoneNeverSaved fails with it.  *)
(*                                                                         *)
(* Then, under every fault, the units: the tables are what TypeOK says,    *)
(* and no unit is lost or made up, whichever steps stop, stall, fail or    *)
(* commit while they seem to fail.                                         *)
(***************************************************************************)
EXTENDS StockSteps, SumLemmas, TLAPS

-------------------------------------------------------------------------------
(* Sequences. *)

LEMMA SeqFunction ==
  ASSUME NEW S, NEW s \in Seq(S)
  PROVE  Len(s) \in Nat /\ DOMAIN s = 1 .. Len(s) /\ s \in [1 .. Len(s) -> S]
  OBVIOUS

LEMMA FunctionSeq ==
  ASSUME NEW S, NEW n \in Nat, NEW t \in [1 .. n -> S]
  PROVE  t \in Seq(S) /\ Len(t) = n /\ DOMAIN t = 1 .. n
  OBVIOUS

LEMMA Appended ==
  ASSUME NEW S, NEW s \in Seq(S), NEW e \in S
  PROVE  /\ Append(s, e) \in Seq(S) /\ DOMAIN Append(s, e) = DOMAIN s \cup {Len(s) + 1}
         /\ Append(s, e)[Len(s) + 1] = e /\ Len(s) + 1 \notin DOMAIN s
         /\ \A i \in DOMAIN s : Append(s, e)[i] = s[i]
  OBVIOUS

-------------------------------------------------------------------------------
(* The inductive invariant. *)

StepRow ==
  [kind : StepKind, operation : Operations \cup {"visit"}, status : StepStatus,
   due : BOOLEAN, attempts : Nat]

\* The ledger as far as the theorems go: what its numbers are is left open.
Movement(V) ==
  [operation : Withdrawals, quantity : V, status : MovementStatus, confirmed : BOOLEAN,
   returned : [Operations -> V], lost : V]

LedgerShape == \E V : movements \in Seq(Movement(V))

Shape ==
  /\ LedgerShape
  /\ outbox \in Seq(StepRow)
  /\ wo \in [status : {"IN_EXECUTION", "COMPLETED", "DELIVERED", "CANCELED"},
             withdrawn : Int, version : Nat]
  /\ request \in [Withdrawals -> [at : RequestAt, version : Nat, withdrawn : Int]]
  /\ \E C : worker \in [Workers -> [at : WorkerAt, step : Nat, attempts : Nat, candidates : C]]

\* A step is about an operation of its kind, and one withdrawal has one undo.
StepsAreNamed ==
  /\ \A i \in DOMAIN outbox :
       /\ outbox[i].kind = "UNDO_CONSUMPTION" => outbox[i].operation \in Withdrawals
       /\ outbox[i].kind = "RESTORE" => outbox[i].operation \in Returns
  /\ \A w \in Withdrawals : \A i, j \in UndoRows(outbox, w) : i = j

\* A withdrawal arms its step before it consumes, and saves last of all.
RequestsGoInOrder ==
  \A w \in Withdrawals :
    /\ request[w].at \in {"idle", "loaded"} => UndoRows(outbox, w) = {}
    /\ request[w].at \in {"idle", "loaded", "armed"} => OfOperation(w) = {}
    /\ Saved(w) => request[w].at = "done"

\* A step is claimed away from its request: it is armed no longer, and what
\* its withdrawal saved has closed it.
ClaimsExcludeSaves ==
  /\ \A w \in Withdrawals : Saved(w) =>
       \A i \in UndoRows(outbox, w) : outbox[i].status = "DONE"
  /\ \A k \in Workers : worker[k].at # "idle" =>
       /\ worker[k].step \in DOMAIN outbox
       /\ StepOf(k).kind = "UNDO_CONSUMPTION" =>
            StepOf(k).status # "ARMED" /\ ~Saved(StepOf(k).operation)

PastSaving(w) ==
  \/ request[w].at \notin {"idle", "loaded", "armed", "consumed"}
  \/ \A j \in UndoRows(outbox, w) : outbox[j].status # "ARMED"

\* What is undone is not saved, and can no longer be.
UndoneIsPastSaving ==
  \A i \in DOMAIN movements :
    LET w == movements[i].operation
    IN movements[i].returned[w] > 0 => ~Saved(w) /\ PastSaving(w)

\* Only the confirmation of a save confirms, and only what is confirmed closes.
ConfirmedIsSaved ==
  /\ \A i \in DOMAIN movements :
       movements[i].confirmed \/ movements[i].status # "PENDING" => Saved(movements[i].operation)
  /\ \A k \in Workers : \A i \in DOMAIN worker[k].candidates :
       i \in DOMAIN movements /\ Saved(movements[i].operation)

IInv ==
  /\ Shape /\ StepsAreNamed /\ RequestsGoInOrder /\ ClaimsExcludeSaves
  /\ UndoneIsPastSaving /\ ConfirmedIsSaved

LEMMA Goals == IInv => UndoneNeverSaved /\ OnlySavedIsClosed
  BY DEF IInv, UndoneIsPastSaving, ConfirmedIsSaved, UndoneNeverSaved, OnlySavedIsClosed, SavedRows

LEMMA InitInv == Init => IInv
<1> SUFFICES ASSUME Init PROVE IInv
  OBVIOUS
<1>1. /\ movements = << >> /\ outbox = << >> /\ DOMAIN movements = {} /\ DOMAIN outbox = {}
      /\ DOMAIN << >> = {}
  BY DEF Init, LedgerInit
<1>2. Shape
  <2>1. LedgerShape
    BY <1>1 DEF LedgerShape
  <2>2. wo \in [status : {"IN_EXECUTION", "COMPLETED", "DELIVERED", "CANCELED"},
                withdrawn : Int, version : Nat]
    BY DEF Init
  <2>3. request \in [Withdrawals -> [at : RequestAt, version : Nat, withdrawn : Int]]
    BY DEF Init, NoRequest, RequestAt
  <2>4. worker \in [Workers -> [at : WorkerAt, step : Nat, attempts : Nat, candidates : {<< >>}]]
    BY DEF Init, NoClaim, WorkerAt
  <2>5. outbox \in Seq(StepRow)
    BY <1>1
  <2> QED BY <2>1, <2>2, <2>3, <2>4, <2>5 DEF Shape
<1>3. StepsAreNamed /\ RequestsGoInOrder /\ UndoneIsPastSaving
  BY <1>1 DEF StepsAreNamed, UndoRows, RequestsGoInOrder, OfOperation, Saved, Recorded,
              UndoneIsPastSaving
<1>4. ClaimsExcludeSaves /\ ConfirmedIsSaved
  BY <1>1 DEF Init, NoClaim, ClaimsExcludeSaves, Saved, Recorded, UndoRows, ConfirmedIsSaved
<1> QED BY <1>2, <1>3, <1>4 DEF IInv

-------------------------------------------------------------------------------
(* Steps that record no undo and no confirmation, and claim nothing. *)

\* Rows keep what they are about; none is armed again and none is reopened.
OutboxQuiet ==
  /\ outbox' \in Seq(StepRow) /\ DOMAIN outbox \subseteq DOMAIN outbox'
  /\ \A i \in DOMAIN outbox :
       /\ outbox'[i].kind = outbox[i].kind /\ outbox'[i].operation = outbox[i].operation
       /\ outbox'[i].status = "ARMED" => outbox[i].status = "ARMED"
       /\ outbox[i].status = "DONE" => outbox'[i].status = "DONE"
  /\ \A i \in DOMAIN outbox' \ DOMAIN outbox :
       /\ outbox'[i].kind \notin {"UNDO_CONSUMPTION", "CONFIRM_CONSUMPTION"}
       /\ outbox'[i].kind = "RESTORE" => outbox'[i].operation \in Returns

\* Nothing is consumed, and of these operations alone something is undone.
LedgerQuiet(undone) ==
  /\ LedgerShape' /\ DOMAIN movements' = DOMAIN movements
  /\ \A i \in DOMAIN movements :
       LET w == movements[i].operation IN
       /\ movements'[i].operation = w
       /\ w \notin undone => movements'[i].returned[w] = movements[i].returned[w]
       /\ movements'[i].confirmed \/ movements'[i].status # "PENDING" =>
            movements[i].confirmed \/ movements[i].status # "PENDING" \/ Saved(w)

RequestForward ==
  /\ request' \in [Withdrawals -> [at : RequestAt, version : Nat, withdrawn : Int]]
  /\ \A w \in Withdrawals :
       /\ request'[w].at \in {"idle", "loaded"} => request[w].at \in {"idle", "loaded"}
       /\ request'[w].at \in {"idle", "loaded", "armed"} =>
            request[w].at \in {"idle", "loaded", "armed"}
       /\ request'[w].at \in {"idle", "loaded", "armed", "consumed"} =>
            request[w].at \in {"idle", "loaded", "armed", "consumed"}
       /\ request[w].at = "done" => request'[w].at = "done"

\* A claim that takes a row away from the request that armed it.
MayHold(i) ==
  /\ i \in DOMAIN outbox
  /\ outbox[i].kind = "UNDO_CONSUMPTION" =>
       outbox'[i].status # "ARMED" /\ ~Saved(outbox[i].operation)

WorkerQuiet ==
  /\ \E C : worker' \in [Workers -> [at : WorkerAt, step : Nat, attempts : Nat, candidates : C]]
  /\ \A k \in Workers :
       /\ worker'[k].at # "idle" =>
            \/ worker[k].at # "idle" /\ worker'[k].step = worker[k].step
            \/ MayHold(worker'[k].step)
       /\ \A i \in DOMAIN worker'[k].candidates :
            i \in DOMAIN movements /\ Saved(movements[i].operation)

WoShape ==
  wo \in [status : {"IN_EXECUTION", "COMPLETED", "DELIVERED", "CANCELED"},
          withdrawn : Int, version : Nat]

LEMMA QuietRows ==
  ASSUME StepsAreNamed, OutboxQuiet
  PROVE  /\ \A w : Saved(w)' <=> Saved(w)
         /\ \A w : UndoRows(outbox, w)' = UndoRows(outbox, w)
         /\ StepsAreNamed'
<1>1. ASSUME NEW w PROVE Saved(w)' <=> Saved(w)
  BY DEF OutboxQuiet, Saved, Recorded
<1>2. ASSUME NEW w PROVE UndoRows(outbox, w)' = UndoRows(outbox, w)
  BY DEF OutboxQuiet, UndoRows
<1>3. \A i \in DOMAIN outbox' :
        /\ outbox'[i].kind = "UNDO_CONSUMPTION" => outbox'[i].operation \in Withdrawals
        /\ outbox'[i].kind = "RESTORE" => outbox'[i].operation \in Returns
  BY DEF OutboxQuiet, StepsAreNamed
<1>4. \A w \in Withdrawals : \A i, j \in UndoRows(outbox, w)' : i = j
  BY <1>2 DEF StepsAreNamed
<1>5. StepsAreNamed'
  BY <1>3, <1>4 DEF StepsAreNamed
<1> QED BY <1>1, <1>2, <1>5

LEMMA QuietKeeps ==
  ASSUME IInv, OutboxQuiet, RequestForward, WorkerQuiet, WoShape',
         NEW undone, LedgerQuiet(undone),
         \A w \in undone \cap Withdrawals : ~Saved(w) /\ PastSaving(w)
  PROVE  IInv'
<1>1. /\ StepsAreNamed /\ RequestsGoInOrder /\ ClaimsExcludeSaves
      /\ UndoneIsPastSaving /\ ConfirmedIsSaved
  BY DEF IInv
<1>2. /\ \A w : Saved(w)' <=> Saved(w)
      /\ \A w : UndoRows(outbox, w)' = UndoRows(outbox, w)
      /\ StepsAreNamed'
  BY <1>1, QuietRows
<1>3. Shape'
  BY DEF Shape, OutboxQuiet, LedgerQuiet, RequestForward, WorkerQuiet, WoShape
<1>4. \A w : OfOperation(w)' = OfOperation(w)
  BY DEF OfOperation, LedgerQuiet
<1>5. RequestsGoInOrder'
  BY <1>1, <1>2, <1>4 DEF RequestsGoInOrder, RequestForward
<1>6. \A w : \A i \in UndoRows(outbox, w) : i \in DOMAIN outbox
  BY DEF UndoRows
<1>7. ClaimsExcludeSaves'
  <2>1. ASSUME NEW w \in Withdrawals, Saved(w)', NEW i \in UndoRows(outbox, w)'
        PROVE  outbox'[i].status = "DONE"
    BY <1>1, <1>2, <1>6, <2>1 DEF ClaimsExcludeSaves, OutboxQuiet
  <2>2. ASSUME NEW k \in Workers, worker'[k].at # "idle"
        PROVE  /\ worker'[k].step \in DOMAIN outbox'
               /\ StepOf(k)'.kind = "UNDO_CONSUMPTION" =>
                    StepOf(k)'.status # "ARMED" /\ ~Saved(StepOf(k).operation)'
    <3>1. MayHold(worker'[k].step)
      BY <1>1, <2>2 DEF WorkerQuiet, ClaimsExcludeSaves, MayHold, StepOf, OutboxQuiet
    <3>2. /\ worker'[k].step \in DOMAIN outbox /\ worker'[k].step \in DOMAIN outbox'
          /\ StepOf(k)'.kind = outbox[worker'[k].step].kind
          /\ StepOf(k)'.operation = outbox[worker'[k].step].operation
          /\ StepOf(k)'.status = outbox'[worker'[k].step].status
      BY <3>1 DEF StepOf, OutboxQuiet, MayHold
    <3>3. ~Saved(outbox[worker'[k].step].operation) => ~Saved(StepOf(k).operation)'
      BY <3>2 DEF OutboxQuiet, Saved, Recorded
    <3> QED BY <3>1, <3>2, <3>3 DEF MayHold
  <2> QED BY <2>1, <2>2 DEF ClaimsExcludeSaves
<1>8. \A w \in Withdrawals : PastSaving(w) => PastSaving(w)'
  BY <1>2, <1>6 DEF PastSaving, RequestForward, OutboxQuiet
<1>9. \A i \in DOMAIN movements : movements[i].operation \in Withdrawals
  <2>1. PICK V : movements \in Seq(Movement(V))
    BY DEF IInv, Shape, LedgerShape
  <2>2. \A i \in DOMAIN movements : movements[i] \in Movement(V)
    BY <2>1, SeqFunction
  <2> QED BY <2>2 DEF Movement
<1>10. UndoneIsPastSaving'
  <2> SUFFICES ASSUME NEW i \in DOMAIN movements', movements'[i].returned[movements'[i].operation] > 0
               PROVE  ~Saved(movements[i].operation)' /\ PastSaving(movements[i].operation)'
    BY DEF UndoneIsPastSaving, LedgerQuiet
  <2> DEFINE w == movements[i].operation
  <2>1. i \in DOMAIN movements /\ w \in Withdrawals /\ movements'[i].operation = w
    BY <1>9 DEF LedgerQuiet
  <2>2. ~Saved(w) /\ PastSaving(w)
    BY <1>1, <2>1 DEF UndoneIsPastSaving, LedgerQuiet
  <2>3. ~Saved(w)'
    BY <2>1, <2>2 DEF OutboxQuiet, Saved, Recorded, LedgerQuiet
  <2>4. PastSaving(w)'
    BY <1>8, <2>1, <2>2
  <2> QED BY <2>3, <2>4
<1>11. ConfirmedIsSaved'
  BY <1>1, <1>2 DEF ConfirmedIsSaved, LedgerQuiet, WorkerQuiet
<1> QED BY <1>2, <1>3, <1>5, <1>7, <1>10, <1>11 DEF IInv

-------------------------------------------------------------------------------
(* What the statements of the outbox and the use cases of inventory do. *)

\* A row that changes its status as no row may be armed or reopened.
LEMMA RowChanges ==
  ASSUME outbox \in Seq(StepRow), NEW i \in DOMAIN outbox, NEW row \in StepRow,
         row.kind = outbox[i].kind, row.operation = outbox[i].operation,
         row.status = "ARMED" => outbox[i].status = "ARMED",
         outbox[i].status = "DONE" => row.status = "DONE",
         outbox' = [outbox EXCEPT ![i] = row]
  PROVE  OutboxQuiet
<1>1. Len(outbox) \in Nat /\ DOMAIN outbox = 1 .. Len(outbox) /\ outbox \in [1 .. Len(outbox) -> StepRow]
  BY SeqFunction
<1>2. outbox' \in [1 .. Len(outbox) -> StepRow]
  BY <1>1
<1>3. outbox' \in Seq(StepRow) /\ DOMAIN outbox' = DOMAIN outbox
  BY <1>1, <1>2, FunctionSeq
<1>4. outbox'[i] = row /\ \A j \in DOMAIN outbox \ {i} : outbox'[j] = outbox[j]
  BY <1>1
<1> QED BY <1>3, <1>4 DEF OutboxQuiet

LEMMA SameOutboxIsQuiet ==
  ASSUME outbox \in Seq(StepRow), outbox' = outbox
  PROVE  OutboxQuiet
  BY DEF OutboxQuiet

LEMMA RowType ==
  ASSUME outbox \in Seq(StepRow), NEW i \in DOMAIN outbox
  PROVE  outbox[i] \in StepRow
  BY SeqFunction

LEMMA ClosedIsQuiet ==
  ASSUME outbox \in Seq(StepRow), NEW i \in DOMAIN outbox, outbox' = Closed(outbox, i)
  PROVE  OutboxQuiet
<1>1. CASE outbox[i].status \in Unclosed
  <2>1. outbox[i] \in StepRow
    BY RowType
  <2> DEFINE row == [outbox[i] EXCEPT !.status = "DONE"]
  <2>2. /\ row \in StepRow /\ row.status = "DONE"
        /\ row.kind = outbox[i].kind /\ row.operation = outbox[i].operation
    BY <2>1 DEF StepRow, StepStatus
  <2>3. outbox' = [outbox EXCEPT ![i] = row]
    BY <1>1 DEF Closed
  <2> HIDE DEF row
  <2> QED BY <2>2, <2>3, RowChanges
<1>2. CASE outbox[i].status \notin Unclosed
  BY <1>2, SameOutboxIsQuiet DEF Closed
<1> QED BY <1>1, <1>2

LEMMA ClaimedRow ==
  ASSUME outbox \in Seq(StepRow), NEW i \in DOMAIN outbox, Claimable(outbox, i),
         outbox' = Claimed(outbox, i)
  PROVE  OutboxQuiet /\ outbox'[i].status = "PENDING"
<1>1. outbox[i] \in StepRow
  BY RowType
<1> DEFINE row == [outbox[i] EXCEPT !.status = "PENDING", !.due = FALSE,
                                   !.attempts = outbox[i].attempts + 1]
<1>2. /\ row \in StepRow /\ row.status = "PENDING"
      /\ row.kind = outbox[i].kind /\ row.operation = outbox[i].operation
  <2>1. outbox[i].attempts + 1 \in Nat
    BY <1>1 DEF StepRow
  <2>2. row \in StepRow
    BY <1>1, <2>1 DEF StepRow, StepStatus
  <2> QED BY <1>1, <2>2 DEF StepRow
<1>3. outbox' = [outbox EXCEPT ![i] = row]
  BY DEF Claimed
<1>4. outbox[i].status # "DONE"
  BY DEF Claimable, Unclosed
<1> HIDE DEF row
<1> QED BY <1>2, <1>3, <1>4, RowChanges

LEMMA FailedIsQuiet ==
  ASSUME outbox \in Seq(StepRow), NEW i \in DOMAIN outbox, NEW exhausted,
         outbox' = Failed(outbox, i, exhausted)
  PROVE  OutboxQuiet
<1>1. outbox[i] \in StepRow
  BY RowType
<1>2. CASE outbox[i].status \notin Unclosed
  BY <1>2, SameOutboxIsQuiet DEF Failed
<1>3. CASE outbox[i].status \in Unclosed /\ exhausted
  <2> DEFINE row == [outbox[i] EXCEPT !.status = "FAILED"]
  <2>1. /\ row \in StepRow /\ row.status = "FAILED"
        /\ row.kind = outbox[i].kind /\ row.operation = outbox[i].operation
    BY <1>1 DEF StepRow, StepStatus
  <2>2. outbox' = [outbox EXCEPT ![i] = row] /\ outbox[i].status # "DONE"
    BY <1>3 DEF Failed, Unclosed
  <2> HIDE DEF row
  <2> QED BY <2>1, <2>2, RowChanges
<1>4. CASE outbox[i].status \in Unclosed /\ ~exhausted
  <2> DEFINE row == [outbox[i] EXCEPT !.due = TRUE]
  <2>1. /\ row \in StepRow /\ row.status = outbox[i].status
        /\ row.kind = outbox[i].kind /\ row.operation = outbox[i].operation
    BY <1>1 DEF StepRow, StepStatus
  <2>2. outbox' = [outbox EXCEPT ![i] = row]
    BY <1>4 DEF Failed
  <2> HIDE DEF row
  <2> QED BY <2>1, <2>2, RowChanges
<1> QED BY <1>2, <1>3, <1>4

LEMMA ReleasedIsQuiet ==
  ASSUME outbox \in Seq(StepRow), NEW w, outbox' = Released(outbox, w)
  PROVE  OutboxQuiet
<1>1. Len(outbox) \in Nat /\ DOMAIN outbox = 1 .. Len(outbox)
  BY SeqFunction
<1>2. ASSUME NEW i \in DOMAIN outbox
      PROVE  /\ outbox'[i] \in StepRow
             /\ outbox'[i].kind = outbox[i].kind /\ outbox'[i].operation = outbox[i].operation
             /\ outbox'[i].status \in {outbox[i].status, "PENDING"}
             /\ outbox[i].status = "DONE" => outbox'[i].status = "DONE"
  <2>1. outbox[i] \in StepRow
    BY RowType
  <2> QED BY <2>1 DEF Released, StepRow, StepStatus
<1>3. outbox' \in [1 .. Len(outbox) -> StepRow]
  BY <1>1, <1>2 DEF Released
<1>4. outbox' \in Seq(StepRow) /\ DOMAIN outbox' = DOMAIN outbox
  BY <1>1, <1>3, FunctionSeq
<1> QED BY <1>2, <1>4 DEF OutboxQuiet

LEMMA EnqueuedIsQuiet ==
  ASSUME outbox \in Seq(StepRow), NEW kind \in {"RESTORE", "SETTLE", "WRITE_OFF"},
         NEW op \in Operations \cup {"visit"}, kind = "RESTORE" => op \in Returns,
         outbox' = Enqueued(outbox, kind, op)
  PROVE  OutboxQuiet
<1> DEFINE row == Row(kind, op, "PENDING", TRUE)
<1>1. row \in StepRow /\ row.kind = kind /\ row.operation = op
  BY DEF Row, StepRow, StepKind, StepStatus
<1>2. outbox' = Append(outbox, row)
  BY DEF Enqueued
<1> HIDE DEF row
<1> QED BY <1>1, <1>2, Appended DEF OutboxQuiet

LEMMA WiderMovement ==
  ASSUME NEW V, NEW W, V \subseteq W
  PROVE  Movement(V) \subseteq Movement(W)
  BY DEF Movement

LEMMA SameLedgerIsQuiet ==
  ASSUME LedgerShape, movements' = movements, NEW undone
  PROVE  LedgerQuiet(undone)
  BY DEF LedgerShape, LedgerQuiet

LEMMA LedgerDomain ==
  ASSUME LedgerShape
  PROVE  Len(movements) \in Nat /\ DOMAIN movements = 1 .. Len(movements)
<1>1. PICK V : movements \in Seq(Movement(V))
  BY DEF LedgerShape
<1> QED BY <1>1, SeqFunction

\* RETURNs of an operation leave what others gave back as it is.
LEMMA ReturnedIsQuiet ==
  ASSUME LedgerShape, NEW op \in Operations, NEW draw, Returned(op, draw),
         NEW undone, op \in Withdrawals => op \in undone
  PROVE  LedgerQuiet(undone)
<1>1. PICK V : movements \in Seq(Movement(V))
  BY DEF LedgerShape
<1>2. Len(movements) \in Nat /\ DOMAIN movements = 1 .. Len(movements)
      /\ \A i \in DOMAIN movements : movements[i] \in Movement(V)
  BY <1>1, SeqFunction
<1> DEFINE W == V \cup {movements[i].returned[op] + draw[i] : i \in DOMAIN movements}
<1>3. /\ DOMAIN movements' = DOMAIN movements
      /\ \A i \in DOMAIN movements :
           movements'[i] = [movements[i] EXCEPT !.returned[op] = @ + draw[i]]
      /\ movements' = [i \in 1 .. Len(movements) |-> movements'[i]]
  BY <1>2 DEF Returned
<1>4. ASSUME NEW i \in DOMAIN movements
      PROVE  /\ movements'[i] \in Movement(W)
             /\ movements'[i].operation = movements[i].operation
             /\ movements'[i].confirmed = movements[i].confirmed
             /\ movements'[i].status = movements[i].status
             /\ \A q \in Operations \ {op} : movements'[i].returned[q] = movements[i].returned[q]
  <2>1. /\ movements'[i] \in Movement(V \cup {movements[i].returned[op] + draw[i]})
        /\ movements'[i].operation = movements[i].operation
        /\ movements'[i].confirmed = movements[i].confirmed
        /\ movements'[i].status = movements[i].status
        /\ \A q \in Operations \ {op} : movements'[i].returned[q] = movements[i].returned[q]
    <3>1. movements[i] \in Movement(V)
      BY <1>2
    <3>2. movements'[i] = [movements[i] EXCEPT !.returned[op] = @ + draw[i]]
      BY <1>3
    <3> QED BY <3>1, <3>2 DEF Movement
  <2>2. V \cup {movements[i].returned[op] + draw[i]} \subseteq W
    OBVIOUS
  <2> QED BY <2>1, <2>2, WiderMovement
<1> HIDE DEF W
<1>5. movements' \in [1 .. Len(movements) -> Movement(W)]
  BY <1>2, <1>3, <1>4
<1>6. LedgerShape'
  BY <1>2, <1>5, FunctionSeq DEF LedgerShape
<1>7. \A i \in DOMAIN movements : movements[i].operation \in Operations
  BY <1>2 DEF Movement, Operations
<1>8. \A i \in DOMAIN movements : movements[i].operation \in Withdrawals
  BY <1>2 DEF Movement
<1> QED BY <1>3, <1>4, <1>6, <1>7, <1>8 DEF LedgerQuiet

\* Updates of the columns confirmed, status and lost.
LEMMA ColumnsAreQuiet ==
  ASSUME LedgerShape, NEW V, movements' \in Seq(Movement(V)), DOMAIN movements' = DOMAIN movements,
         NEW undone,
         \A i \in DOMAIN movements :
           /\ movements'[i].operation = movements[i].operation
           /\ movements'[i].returned = movements[i].returned
           /\ movements'[i].confirmed \/ movements'[i].status # "PENDING" =>
                movements[i].confirmed \/ movements[i].status # "PENDING"
                \/ Saved(movements[i].operation)
  PROVE  LedgerQuiet(undone)
  BY DEF LedgerShape, LedgerQuiet

LEMMA ConfirmIsQuiet ==
  ASSUME LedgerShape, NEW w, Saved(w), ConfirmConsumption(w), NEW undone
  PROVE  LedgerQuiet(undone)
<1>1. PICK V : movements \in Seq(Movement(V))
  BY DEF LedgerShape
<1>2. Len(movements) \in Nat /\ DOMAIN movements = 1 .. Len(movements)
      /\ \A i \in DOMAIN movements : movements[i] \in Movement(V)
  BY <1>1, SeqFunction
<1>3. ASSUME NEW i \in DOMAIN movements
      PROVE  /\ movements'[i] \in Movement(V) /\ movements'[i].operation = movements[i].operation
             /\ movements'[i].returned = movements[i].returned
             /\ movements'[i].status = movements[i].status
             /\ i \notin OfOperation(w) => movements'[i] = movements[i]
  BY <1>2 DEF ConfirmConsumption, Movement
<1>4. movements' \in [1 .. Len(movements) -> Movement(V)]
  BY <1>2, <1>3 DEF ConfirmConsumption
<1>5. movements' \in Seq(Movement(V)) /\ DOMAIN movements' = DOMAIN movements
  BY <1>2, <1>4, FunctionSeq
<1> QED BY <1>3, <1>5, ColumnsAreQuiet DEF OfOperation

LEMMA SettleIsQuiet ==
  ASSUME LedgerShape, Settle, NEW undone
  PROVE  LedgerQuiet(undone)
<1>1. PICK V : movements \in Seq(Movement(V))
  BY DEF LedgerShape
<1>2. Len(movements) \in Nat /\ DOMAIN movements = 1 .. Len(movements)
      /\ \A i \in DOMAIN movements : movements[i] \in Movement(V)
  BY <1>1, SeqFunction
<1>3. ASSUME NEW i \in DOMAIN movements
      PROVE  /\ movements'[i] \in Movement(V) /\ movements'[i].operation = movements[i].operation
             /\ movements'[i].returned = movements[i].returned
             /\ movements'[i].confirmed = movements[i].confirmed
             /\ i \notin OpenRows => movements'[i] = movements[i]
  BY <1>2 DEF Settle, Movement, MovementStatus
<1>4. movements' \in [1 .. Len(movements) -> Movement(V)]
  BY <1>2, <1>3 DEF Settle
<1>5. movements' \in Seq(Movement(V)) /\ DOMAIN movements' = DOMAIN movements
  BY <1>2, <1>4, FunctionSeq
<1> QED BY <1>3, <1>5, ColumnsAreQuiet DEF OpenRows, Open

LEMMA WriteOffIsQuiet ==
  ASSUME LedgerShape, NEW candidates, WriteOff(candidates), NEW undone,
         \A i \in DOMAIN candidates : i \in DOMAIN movements /\ Saved(movements[i].operation)
  PROVE  LedgerQuiet(undone)
<1>1. PICK V : movements \in Seq(Movement(V))
  BY DEF LedgerShape
<1>2. Len(movements) \in Nat /\ DOMAIN movements = 1 .. Len(movements)
      /\ \A i \in DOMAIN movements : movements[i] \in Movement(V)
  BY <1>1, SeqFunction
<1> DEFINE W == V \cup {movements[i].lost + candidates[i] : i \in DOMAIN movements}
<1>3. ASSUME NEW i \in DOMAIN movements
      PROVE  /\ movements'[i] \in Movement(W) /\ movements'[i].operation = movements[i].operation
             /\ movements'[i].returned = movements[i].returned
             /\ i \notin DOMAIN candidates => movements'[i] = movements[i]
  <2>1. movements[i] \in Movement(V) /\ movements[i].lost + candidates[i] \in W /\ V \subseteq W
    BY <1>2
  <2>2. movements[i] \in Movement(W)
    BY <2>1, WiderMovement
  <2> HIDE DEF W
  <2> QED BY <2>1, <2>2 DEF WriteOff, Movement, MovementStatus
<1> HIDE DEF W
<1>4. movements' \in [1 .. Len(movements) -> Movement(W)]
  BY <1>2, <1>3 DEF WriteOff
<1>5. movements' \in Seq(Movement(W)) /\ DOMAIN movements' = DOMAIN movements
  BY <1>2, <1>4, FunctionSeq
<1> QED BY <1>3, <1>5, ColumnsAreQuiet

LEMMA RestoreIsQuiet ==
  ASSUME LedgerShape, NEW r \in Returns, Restore(r), NEW undone
  PROVE  LedgerQuiet(undone)
<1>1. r \in Operations /\ r \notin Withdrawals
  BY StockAssumption DEF Operations
<1>2. movements' = movements \/ Returned(r, Draw(r))
  BY DEF Restore, ledgerVars
<1> QED BY <1>1, <1>2, SameLedgerIsQuiet, ReturnedIsQuiet

-------------------------------------------------------------------------------
(* The steps that arm, consume and save. *)

LEMMA ArmKeeps ==
  ASSUME IInv, NEW w \in Withdrawals, Arm(w)
  PROVE  IInv'
<1>1. /\ Shape /\ StepsAreNamed /\ RequestsGoInOrder /\ ClaimsExcludeSaves
      /\ UndoneIsPastSaving /\ ConfirmedIsSaved
  BY DEF IInv
<1> DEFINE row == Row("UNDO_CONSUMPTION", w, "ARMED", FALSE)
           n == Len(outbox) + 1
<1>2. /\ request[w].at = "loaded" /\ request' = [request EXCEPT ![w].at = "armed"]
      /\ movements' = movements /\ wo' = wo /\ worker' = worker /\ outbox' = Append(outbox, row)
  BY DEF Arm, Goes, Armed, ledgerVars
<1>3. /\ request' \in [Withdrawals -> [at : RequestAt, version : Nat, withdrawn : Int]]
      /\ request'[w].at = "armed" /\ \A v \in Withdrawals \ {w} : request'[v] = request[v]
  BY <1>1, <1>2 DEF Shape, RequestAt
<1>4. row \in StepRow /\ row.kind = "UNDO_CONSUMPTION" /\ row.operation = w
  BY DEF Row, StepRow, StepKind, StepStatus, Operations
<1>5. outbox \in Seq(StepRow)
  BY <1>1 DEF Shape
<1> HIDE DEF row
<1>6. /\ outbox' \in Seq(StepRow) /\ DOMAIN outbox' = DOMAIN outbox \cup {n}
      /\ outbox'[n] = row /\ n \notin DOMAIN outbox
      /\ \A i \in DOMAIN outbox : outbox'[i] = outbox[i]
  BY <1>2, <1>4, <1>5, Appended
<1> HIDE DEF n
<1>7. UndoRows(outbox, w) = {} /\ OfOperation(w) = {} /\ ~Saved(w)
  BY <1>1, <1>2 DEF RequestsGoInOrder
<1>8. UndoRows(outbox, w)' = {n}
  BY <1>4, <1>6, <1>7 DEF UndoRows
<1>9. \A v \in Withdrawals \ {w} : UndoRows(outbox, v)' = UndoRows(outbox, v)
  BY <1>4, <1>6 DEF UndoRows
<1>10. \A v : Saved(v)' <=> Saved(v)
  BY <1>4, <1>6 DEF Saved, Recorded
<1>11. \A v : OfOperation(v)' = OfOperation(v)
  BY <1>2 DEF OfOperation
<1>12. Shape'
  BY <1>1, <1>2, <1>3, <1>6 DEF Shape, LedgerShape
<1>13. StepsAreNamed'
  <2>1. \A i \in DOMAIN outbox' :
          /\ outbox'[i].kind = "UNDO_CONSUMPTION" => outbox'[i].operation \in Withdrawals
          /\ outbox'[i].kind = "RESTORE" => outbox'[i].operation \in Returns
    BY <1>1, <1>4, <1>6 DEF StepsAreNamed
  <2>2. \A v \in Withdrawals : \A i, j \in UndoRows(outbox, v)' : i = j
    BY <1>1, <1>8, <1>9 DEF StepsAreNamed
  <2> QED BY <2>1, <2>2 DEF StepsAreNamed
<1>14. RequestsGoInOrder'
  BY <1>1, <1>3, <1>7, <1>9, <1>10, <1>11 DEF RequestsGoInOrder
<1>15. ClaimsExcludeSaves'
  <2>1. ASSUME NEW v \in Withdrawals, Saved(v)', NEW i \in UndoRows(outbox, v)'
        PROVE  outbox'[i].status = "DONE"
    BY <1>1, <1>6, <1>7, <1>9, <1>10, <2>1 DEF ClaimsExcludeSaves, UndoRows
  <2>2. ASSUME NEW k \in Workers, worker'[k].at # "idle"
        PROVE  /\ worker'[k].step \in DOMAIN outbox'
               /\ StepOf(k)'.kind = "UNDO_CONSUMPTION" =>
                    StepOf(k)'.status # "ARMED" /\ ~Saved(StepOf(k).operation)'
    <3>1. worker[k].step \in DOMAIN outbox /\ worker' = worker
      BY <1>1, <1>2, <2>2 DEF ClaimsExcludeSaves
    <3>2. StepOf(k)' = StepOf(k)
      BY <1>6, <3>1 DEF StepOf
    <3>3. Saved(StepOf(k).operation)' => Saved(StepOf(k).operation)
      BY <1>4, <1>6, <3>2 DEF Saved, Recorded
    <3> QED BY <1>1, <1>2, <1>6, <2>2, <3>1, <3>2, <3>3 DEF ClaimsExcludeSaves
  <2> QED BY <2>1, <2>2 DEF ClaimsExcludeSaves
<1>16. UndoneIsPastSaving'
  <2> SUFFICES ASSUME NEW i \in DOMAIN movements, movements[i].returned[movements[i].operation] > 0
               PROVE  ~Saved(movements[i].operation)' /\ PastSaving(movements[i].operation)'
    BY <1>2 DEF UndoneIsPastSaving
  <2> DEFINE v == movements[i].operation
  <2>1. v \in Withdrawals
    <3>1. PICK V : movements \in Seq(Movement(V))
      BY <1>1 DEF Shape, LedgerShape
    <3>2. movements[i] \in Movement(V)
      BY <3>1, SeqFunction
    <3> QED BY <3>2 DEF Movement
  <2>2. v # w
    BY <1>7 DEF OfOperation
  <2>3. ~Saved(v) /\ PastSaving(v)
    BY <1>1 DEF UndoneIsPastSaving
  <2>4. PastSaving(v)'
    <3>1. \A u \in Withdrawals \ {w} : \A l \in UndoRows(outbox, u) : outbox'[l] = outbox[l]
      BY <1>6 DEF UndoRows
    <3>2. \A u \in Withdrawals \ {w} : PastSaving(u) => PastSaving(u)'
      BY <1>3, <1>9, <3>1 DEF PastSaving
    <3>3. movements'[i].operation = v
      BY <1>2
    <3> QED BY <2>1, <2>2, <2>3, <3>2, <3>3
  <2>5. ~Saved(v)'
    BY <1>2, <1>4, <1>6, <2>3 DEF Saved, Recorded
  <2> QED BY <2>4, <2>5
<1>17. ConfirmedIsSaved'
  BY <1>1, <1>2, <1>10 DEF ConfirmedIsSaved
<1> QED BY <1>12, <1>13, <1>14, <1>15, <1>16, <1>17 DEF IInv

\* The new movement has given nothing back, and nobody has confirmed it.
LEMMA ConsumeKeeps ==
  ASSUME IInv, NEW w \in Withdrawals, NEW to \in {"consumed", "undoing"},
         Goes(w, "armed", to), Consume(w), UNCHANGED <<wo, outbox, worker>>
  PROVE  IInv'
<1>1. /\ Shape /\ StepsAreNamed /\ RequestsGoInOrder /\ ClaimsExcludeSaves
      /\ UndoneIsPastSaving /\ ConfirmedIsSaved
  BY DEF IInv
<1>2. PICK V : movements \in Seq(Movement(V))
  BY <1>1 DEF Shape, LedgerShape
<1> DEFINE W == V \cup {0, Units[w]}
           new == [operation |-> w, quantity |-> Units[w], status |-> "PENDING",
                   confirmed |-> FALSE, returned |-> [op \in Operations |-> 0], lost |-> 0]
           n == Len(movements) + 1
<1>3. /\ new \in Movement(W) /\ new.operation = w /\ new.status = "PENDING" /\ ~new.confirmed
      /\ new.returned[w] = 0
  BY DEF Movement, MovementStatus, Operations
<1>4. movements' = Append(movements, new)
  BY DEF Consume
<1>5. movements \in Seq(Movement(W))
  <2>1. Movement(V) \subseteq Movement(W)
    BY WiderMovement
  <2>2. Len(movements) \in Nat /\ movements \in [1 .. Len(movements) -> Movement(V)]
    BY <1>2, SeqFunction
  <2> HIDE DEF W
  <2>3. movements \in [1 .. Len(movements) -> Movement(W)]
    BY <2>1, <2>2
  <2> QED BY <2>2, <2>3, FunctionSeq
<1> HIDE DEF new, W
<1>6. /\ movements' \in Seq(Movement(W)) /\ DOMAIN movements' = DOMAIN movements \cup {n}
      /\ movements'[n] = new /\ n \notin DOMAIN movements
      /\ \A i \in DOMAIN movements : movements'[i] = movements[i]
  BY <1>3, <1>4, <1>5, Appended
<1> HIDE DEF n
<1>7. /\ request[w].at = "armed" /\ request' = [request EXCEPT ![w].at = to]
      /\ outbox' = outbox /\ wo' = wo /\ worker' = worker
  BY DEF Goes
<1>8. /\ request' \in [Withdrawals -> [at : RequestAt, version : Nat, withdrawn : Int]]
      /\ request'[w].at = to /\ \A v \in Withdrawals \ {w} : request'[v] = request[v]
  BY <1>1, <1>7 DEF Shape, RequestAt
<1>9. OfOperation(w) = {} /\ ~Saved(w)
  BY <1>1, <1>7 DEF RequestsGoInOrder
<1>10. \A v : (Saved(v)' <=> Saved(v)) /\ UndoRows(outbox, v)' = UndoRows(outbox, v)
  BY <1>7 DEF Saved, Recorded, UndoRows
<1>11. \A v \in Withdrawals \ {w} : OfOperation(v)' = OfOperation(v)
  BY <1>3, <1>6 DEF OfOperation
<1>12. Shape'
  <2>1. LedgerShape'
    BY <1>6 DEF LedgerShape
  <2> QED BY <1>1, <1>7, <1>8, <2>1, ZenonT(60) DEF Shape
<1>13. StepsAreNamed' /\ ClaimsExcludeSaves'
  BY <1>1, <1>7 DEF StepsAreNamed, ClaimsExcludeSaves, Saved, Recorded, UndoRows, StepOf
<1>14. RequestsGoInOrder'
  BY <1>1, <1>8, <1>7, <1>9, <1>10, <1>11 DEF RequestsGoInOrder
<1>15. UndoneIsPastSaving'
  <2>1. \A u \in Withdrawals \ {w} : PastSaving(u) => PastSaving(u)'
    BY <1>7, <1>8, <1>10 DEF PastSaving
  <2>2. ASSUME NEW i \in DOMAIN movements', movements'[i].returned[movements'[i].operation] > 0
        PROVE  ~Saved(movements[i].operation)' /\ PastSaving(movements[i].operation)'
    <3>1. i \in DOMAIN movements /\ movements'[i] = movements[i]
      BY <1>3, <1>6, <2>2
    <3> DEFINE v == movements[i].operation
    <3>2. ~Saved(v) /\ PastSaving(v)
      BY <1>1, <2>2, <3>1 DEF UndoneIsPastSaving
    <3>3. v \in Withdrawals \ {w}
      <4>1. movements[i] \in Movement(V)
        BY <1>2, <3>1, SeqFunction
      <4> QED BY <1>9, <3>1, <4>1 DEF Movement, OfOperation
    <3>4. movements'[i].operation = v
      BY <3>1
    <3>5. PastSaving(v)'
      BY <2>1, <3>2, <3>3, <3>4
    <3>6. ~Saved(v)'
      BY <1>7, <3>2, <3>4 DEF Saved, Recorded
    <3> QED BY <3>5, <3>6
  <2> QED BY <2>2 DEF UndoneIsPastSaving
<1>16. ConfirmedIsSaved'
  <2>1. \A i \in DOMAIN movements' :
          movements'[i].confirmed \/ movements'[i].status # "PENDING" => Saved(movements'[i].operation)
    BY <1>1, <1>3, <1>6 DEF ConfirmedIsSaved
  <2>2. \A k \in Workers : \A i \in DOMAIN worker[k].candidates :
          i \in DOMAIN movements' /\ Saved(movements'[i].operation)
    BY <1>1, <1>6 DEF ConfirmedIsSaved
  <2> QED BY <1>7, <2>1, <2>2 DEF ConfirmedIsSaved, Saved, Recorded
<1> QED BY <1>12, <1>13, <1>14, <1>15, <1>16 DEF IInv

\* The save disarms: no worker holds the step, and none has undone anything.
LEMMA SaveKeeps ==
  ASSUME IInv, NEW w \in Withdrawals, Goes(w, "consumed", "done"), SaveWithdrawal(w),
         UNCHANGED <<ledgerVars, worker>>
  PROVE  IInv'
<1>1. /\ Shape /\ StepsAreNamed /\ RequestsGoInOrder /\ ClaimsExcludeSaves
      /\ UndoneIsPastSaving /\ ConfirmedIsSaved
  BY DEF IInv
<1>2. PICK i \in UndoRows(outbox, w) : outbox[i].status = "ARMED"
  BY DEF SaveWithdrawal, IsArmed
<1>3. UndoRows(outbox, w) = {i} /\ i \in DOMAIN outbox
  BY <1>1, <1>2 DEF StepsAreNamed, UndoRows
<1> DEFINE closed == Closed(outbox, i)
           row == Row("CONFIRM_CONSUMPTION", w, "PENDING", TRUE)
           n == Len(closed) + 1
<1>4. outbox' = Append(closed, row)
  BY <1>3 DEF SaveWithdrawal, Enqueued, Disarmed
<1>5. outbox \in Seq(StepRow) /\ outbox[i] \in StepRow
  BY <1>1, <1>3, RowType DEF Shape
<1>6. /\ closed \in Seq(StepRow) /\ DOMAIN closed = DOMAIN outbox
      /\ closed[i].kind = "UNDO_CONSUMPTION" /\ closed[i].operation = w
      /\ closed[i].status = "DONE"
      /\ \A j \in DOMAIN outbox \ {i} : closed[j] = outbox[j]
  <2> DEFINE done == [outbox[i] EXCEPT !.status = "DONE"]
  <2>1. /\ done \in StepRow /\ done.status = "DONE"
        /\ done.kind = "UNDO_CONSUMPTION" /\ done.operation = w
    BY <1>2, <1>5 DEF StepRow, StepStatus, UndoRows
  <2>2. closed = [outbox EXCEPT ![i] = done]
    BY <1>2 DEF Closed, Unclosed
  <2>3. /\ Len(outbox) \in Nat /\ DOMAIN outbox = 1 .. Len(outbox)
        /\ outbox \in [1 .. Len(outbox) -> StepRow]
    BY <1>5, SeqFunction
  <2> HIDE DEF done, closed
  <2>4. closed \in [1 .. Len(outbox) -> StepRow]
    BY <2>1, <2>2, <2>3
  <2>5. closed \in Seq(StepRow) /\ DOMAIN closed = DOMAIN outbox
    BY <2>3, <2>4, FunctionSeq
  <2>6. closed[i] = done /\ \A j \in DOMAIN outbox \ {i} : closed[j] = outbox[j]
    BY <1>3, <2>2, <2>3
  <2> QED BY <2>1, <2>5, <2>6
<1>7. row \in StepRow /\ row.kind = "CONFIRM_CONSUMPTION" /\ row.operation = w
  BY DEF Row, StepRow, StepKind, StepStatus, Operations
<1> HIDE DEF closed, row
<1>8. /\ outbox' \in Seq(StepRow) /\ DOMAIN outbox' = DOMAIN outbox \cup {n}
      /\ outbox'[n] = row /\ n \notin DOMAIN outbox
      /\ outbox'[i].kind = "UNDO_CONSUMPTION" /\ outbox'[i].operation = w
      /\ outbox'[i].status = "DONE"
      /\ \A j \in DOMAIN outbox \ {i} : outbox'[j] = outbox[j]
  BY <1>3, <1>4, <1>6, <1>7, Appended
<1> HIDE DEF n
<1>9. \A v : UndoRows(outbox, v)' = UndoRows(outbox, v)
  <2>1. outbox[i].kind = "UNDO_CONSUMPTION" /\ outbox[i].operation = w
    BY <1>2 DEF UndoRows
  <2> QED BY <1>3, <1>7, <1>8, <2>1 DEF UndoRows
<1>10. \A v : Saved(v)' <=> Saved(v) \/ v = w
  <2>1. outbox[i].kind = "UNDO_CONSUMPTION"
    BY <1>2 DEF UndoRows
  <2> QED BY <1>3, <1>7, <1>8, <2>1 DEF Saved, Recorded
<1>11. /\ request[w].at = "consumed" /\ request' = [request EXCEPT ![w].at = "done"]
       /\ movements' = movements /\ worker' = worker
       /\ wo' = [wo EXCEPT !.withdrawn = request[w].withdrawn + Units[w], !.version = @ + 1]
  BY DEF Goes, SaveWithdrawal, ledgerVars
<1>12. /\ request' \in [Withdrawals -> [at : RequestAt, version : Nat, withdrawn : Int]]
       /\ request'[w].at = "done" /\ \A v \in Withdrawals \ {w} : request'[v] = request[v]
  BY <1>1, <1>11 DEF Shape, RequestAt
<1>13. wo' \in [status : {"IN_EXECUTION", "COMPLETED", "DELIVERED", "CANCELED"},
                withdrawn : Int, version : Nat]
  <2>1. request[w].withdrawn + Units[w] \in Int
    BY <1>1, StockAssumption DEF Shape, Operations
  <2>2. wo \in [status : {"IN_EXECUTION", "COMPLETED", "DELIVERED", "CANCELED"},
                withdrawn : Int, version : Nat]
    BY <1>1 DEF Shape
  <2>3. wo.version + 1 \in Nat
    BY <2>2
  <2> QED BY <1>11, <2>1, <2>2, <2>3
<1>14. Shape'
  <2>1. LedgerShape'
    BY <1>1, <1>11 DEF Shape, LedgerShape
  <2>2. \E C : worker' \in [Workers -> [at : WorkerAt, step : Nat, attempts : Nat, candidates : C]]
    BY <1>1, <1>11 DEF Shape
  <2> QED BY <1>8, <1>12, <1>13, <2>1, <2>2 DEF Shape
<1>15. StepsAreNamed'
  <2>1. \A j \in DOMAIN outbox' :
          /\ outbox'[j].kind = "UNDO_CONSUMPTION" => outbox'[j].operation \in Withdrawals
          /\ outbox'[j].kind = "RESTORE" => outbox'[j].operation \in Returns
    BY <1>1, <1>7, <1>8 DEF StepsAreNamed
  <2> QED BY <1>1, <1>9, <2>1 DEF StepsAreNamed
<1>16. \A v : OfOperation(v)' = OfOperation(v)
  BY <1>11 DEF OfOperation
<1>17. RequestsGoInOrder'
  BY <1>1, <1>9, <1>10, <1>12, <1>16 DEF RequestsGoInOrder
<1>18. ClaimsExcludeSaves'
  <2>1. ASSUME NEW v \in Withdrawals, Saved(v)', NEW j \in UndoRows(outbox, v)
        PROVE  outbox'[j].status = "DONE"
    <3>1. CASE v = w
      BY <1>3, <1>8, <3>1
    <3>2. CASE v # w
      <4>1. j \in DOMAIN outbox \ {i} /\ outbox[j].status = "DONE"
        BY <1>1, <1>2, <1>10, <2>1, <3>2 DEF ClaimsExcludeSaves, UndoRows
      <4> QED BY <1>8, <4>1
    <3> QED BY <3>1, <3>2
  <2>2. ASSUME NEW k \in Workers, worker[k].at # "idle"
        PROVE  /\ worker[k].step \in DOMAIN outbox'
               /\ outbox'[worker[k].step].kind = "UNDO_CONSUMPTION" =>
                    /\ outbox'[worker[k].step].status # "ARMED"
                    /\ ~(Saved(outbox'[worker[k].step].operation)
                         \/ outbox'[worker[k].step].operation = w)
    <3>1. /\ worker[k].step \in DOMAIN outbox
          /\ outbox[worker[k].step].kind = "UNDO_CONSUMPTION" =>
               /\ outbox[worker[k].step].status # "ARMED"
               /\ ~Saved(outbox[worker[k].step].operation)
      BY <1>1, <2>2 DEF ClaimsExcludeSaves, StepOf
    <3>2. worker[k].step # i
      BY <1>2, <3>1 DEF UndoRows
    <3>3. outbox'[worker[k].step] = outbox[worker[k].step]
      BY <1>8, <3>1, <3>2
    <3>4. outbox[worker[k].step].kind = "UNDO_CONSUMPTION" => outbox[worker[k].step].operation # w
      BY <1>3, <3>1, <3>2 DEF UndoRows
    <3> QED BY <1>8, <3>1, <3>3, <3>4
  <2>3. ASSUME NEW k \in Workers, worker'[k].at # "idle"
        PROVE  /\ worker'[k].step \in DOMAIN outbox'
               /\ StepOf(k)'.kind = "UNDO_CONSUMPTION" =>
                    StepOf(k)'.status # "ARMED" /\ ~Saved(StepOf(k).operation)'
    <3>1. StepOf(k)' = outbox'[worker[k].step] /\ worker[k].at # "idle" /\ worker' = worker
      BY <1>11, <2>3 DEF StepOf
    <3>2. Saved(StepOf(k).operation)' <=>
            Saved(outbox'[worker[k].step].operation) \/ outbox'[worker[k].step].operation = w
      <4>1. outbox[i].kind = "UNDO_CONSUMPTION"
        BY <1>2 DEF UndoRows
      <4> QED BY <1>3, <1>7, <1>8, <3>1, <4>1 DEF Saved, Recorded
    <3> QED BY <2>2, <3>1, <3>2
  <2> QED BY <1>9, <2>1, <2>3 DEF ClaimsExcludeSaves
<1>19. UndoneIsPastSaving'
  <2> SUFFICES ASSUME NEW j \in DOMAIN movements, movements[j].returned[movements[j].operation] > 0
               PROVE  ~Saved(movements[j].operation)' /\ PastSaving(movements[j].operation)'
    BY <1>11 DEF UndoneIsPastSaving
  <2> DEFINE v == movements[j].operation
  <2>1. ~Saved(v) /\ PastSaving(v)
    BY <1>1 DEF UndoneIsPastSaving
  <2>2. v # w
    BY <1>2, <1>11, <2>1 DEF PastSaving
  <2>3. v \in Withdrawals
    <3>1. PICK V : movements \in Seq(Movement(V))
      BY <1>1 DEF Shape, LedgerShape
    <3>2. movements[j] \in Movement(V)
      BY <3>1, SeqFunction
    <3> QED BY <3>2 DEF Movement
  <2>4. ~Saved(v)'
    <3>1. outbox[i].kind = "UNDO_CONSUMPTION"
      BY <1>2 DEF UndoRows
    <3> QED BY <1>3, <1>7, <1>8, <1>11, <2>1, <2>2, <3>1 DEF Saved, Recorded
  <2>5. PastSaving(v)'
    <3>1. i \notin UndoRows(outbox, v)
      BY <1>2, <2>2 DEF UndoRows
    <3>2. \A l \in UndoRows(outbox, v) : outbox'[l] = outbox[l]
      BY <1>8, <3>1 DEF UndoRows
    <3> QED BY <1>9, <1>11, <1>12, <2>1, <2>2, <2>3, <3>2 DEF PastSaving
  <2> QED BY <2>4, <2>5
<1>20. ConfirmedIsSaved'
  BY <1>1, <1>10, <1>11 DEF ConfirmedIsSaved
<1> QED BY <1>14, <1>15, <1>17, <1>18, <1>19, <1>20 DEF IInv

-------------------------------------------------------------------------------
(* What a request, or a worker, that goes on leaves true. *)

LEMMA SameRequestIsForward ==
  ASSUME IInv, request' = request
  PROVE  RequestForward
  BY DEF IInv, Shape, RequestForward

\* Once it is past its save, a withdrawal does not come back to it.
LEMMA RequestGoesOn ==
  ASSUME IInv, NEW w \in Withdrawals, request[w].at # "done",
         NEW to \in {"undoing", "returning", "undone", "failed", "done"},
         request' = [request EXCEPT ![w].at = to]
  PROVE  RequestForward
<1>1. request \in [Withdrawals -> [at : RequestAt, version : Nat, withdrawn : Int]]
  BY DEF IInv, Shape
<1>2. /\ request' \in [Withdrawals -> [at : RequestAt, version : Nat, withdrawn : Int]]
      /\ request'[w].at = to /\ \A v \in Withdrawals \ {w} : request'[v] = request[v]
  BY <1>1 DEF RequestAt
<1> QED BY <1>2 DEF RequestForward

LEMMA SameWorkerIsQuiet ==
  ASSUME IInv, worker' = worker
  PROVE  WorkerQuiet
<1>1. \E C : worker \in [Workers -> [at : WorkerAt, step : Nat, attempts : Nat, candidates : C]]
  BY DEF IInv, Shape
<1>2. ConfirmedIsSaved
  BY DEF IInv
<1> QED BY <1>1, <1>2 DEF WorkerQuiet, ConfirmedIsSaved

LEMMA WorkerGoesOn ==
  ASSUME IInv, NEW k \in Workers, NEW C,
         worker' \in [Workers -> [at : WorkerAt, step : Nat, attempts : Nat, candidates : C]],
         \A j \in Workers \ {k} : worker'[j] = worker[j],
         worker'[k].at # "idle" =>
           \/ worker[k].at # "idle" /\ worker'[k].step = worker[k].step
           \/ MayHold(worker'[k].step),
         \A i \in DOMAIN worker'[k].candidates :
           i \in DOMAIN movements /\ Saved(movements[i].operation)
  PROVE  WorkerQuiet
<1>1. ConfirmedIsSaved
  BY DEF IInv
<1>2. ASSUME NEW j \in Workers
      PROVE  /\ worker'[j].at # "idle" =>
                  \/ worker[j].at # "idle" /\ worker'[j].step = worker[j].step
                  \/ MayHold(worker'[j].step)
             /\ \A i \in DOMAIN worker'[j].candidates :
                  i \in DOMAIN movements /\ Saved(movements[i].operation)
  BY <1>1 DEF ConfirmedIsSaved
<1> QED BY <1>2 DEF WorkerQuiet

\* A claim that moves on keeps its step.
LEMMA ClaimGoesOn ==
  ASSUME IInv, NEW k \in Workers, worker[k].at # "idle", NEW to \in WorkerAt, NEW candidates,
         worker' = [worker EXCEPT ![k].at = to, ![k].candidates = candidates],
         \A i \in DOMAIN candidates : i \in DOMAIN movements /\ Saved(movements[i].operation)
  PROVE  WorkerQuiet
<1>1. PICK C : worker \in [Workers -> [at : WorkerAt, step : Nat, attempts : Nat, candidates : C]]
  BY DEF IInv, Shape
<1> DEFINE D == C \cup {candidates}
<1>2. /\ worker' \in [Workers -> [at : WorkerAt, step : Nat, attempts : Nat, candidates : D]]
      /\ worker'[k].candidates = candidates /\ worker'[k].step = worker[k].step
      /\ \A j \in Workers \ {k} : worker'[j] = worker[j]
  BY <1>1
<1> HIDE DEF D
<1> QED BY <1>2, WorkerGoesOn

LEMMA WorkIsQuiet ==
  ASSUME IInv, NEW k \in Workers, worker[k].at # "idle", NEW to \in WorkerAt, WorkGoes(k, to)
  PROVE  WorkerQuiet
<1>1. PICK C : worker \in [Workers -> [at : WorkerAt, step : Nat, attempts : Nat, candidates : C]]
  BY DEF IInv, Shape
<1>2. worker' = [worker EXCEPT ![k].at = to, ![k].candidates = worker[k].candidates]
  BY <1>1 DEF WorkGoes
<1>3. \A i \in DOMAIN worker[k].candidates :
        i \in DOMAIN movements /\ Saved(movements[i].operation)
  BY DEF IInv, ConfirmedIsSaved
<1> QED BY <1>2, <1>3, ClaimGoesOn

LEMMA MoveIsQuiet ==
  ASSUME IInv, NEW k \in Workers, worker[k].at # "idle", NEW to \in WorkerAt, MovesTo(k, to)
  PROVE  WorkerQuiet
<1>1. \A i \in DOMAIN << >> : i \in DOMAIN movements /\ Saved(movements[i].operation)
  OBVIOUS
<1> QED BY <1>1, ClaimGoesOn DEF MovesTo

LEMMA ReleaseIsQuiet ==
  ASSUME IInv, NEW k \in Workers, Release(k)
  PROVE  WorkerQuiet
<1>1. \A i \in DOMAIN << >> : i \in DOMAIN movements /\ Saved(movements[i].operation)
  OBVIOUS
<1>2. PICK C : worker \in [Workers -> [at : WorkerAt, step : Nat, attempts : Nat, candidates : C]]
  BY DEF IInv, Shape
<1> DEFINE D == C \cup {<< >>}
<1>3. /\ worker' \in [Workers -> [at : WorkerAt, step : Nat, attempts : Nat, candidates : D]]
      /\ worker'[k].at = "idle" /\ worker'[k].candidates = << >>
      /\ \A j \in Workers \ {k} : worker'[j] = worker[j]
  BY <1>2 DEF Release, NoClaim, WorkerAt
<1> HIDE DEF D
<1> QED BY <1>1, <1>3, WorkerGoesOn

LEMMA SameWorkOrder ==
  ASSUME IInv, wo' = wo
  PROVE  WoShape'
  BY DEF IInv, Shape, WoShape

LEMMA Parts ==
  ASSUME IInv
  PROVE  LedgerShape /\ outbox \in Seq(StepRow)
  BY DEF IInv, Shape

LEMMA SameLedger ==
  ASSUME IInv, movements' = movements
  PROVE  LedgerQuiet({})
  BY Parts, SameLedgerIsQuiet

LEMMA SameOutbox ==
  ASSUME IInv, outbox' = outbox
  PROVE  OutboxQuiet
  BY Parts, SameOutboxIsQuiet

\* Nothing is undone.
LEMMA QuietStep ==
  ASSUME IInv, OutboxQuiet, RequestForward, WorkerQuiet, WoShape', LedgerQuiet({})
  PROVE  IInv'
  BY QuietKeeps

-------------------------------------------------------------------------------
(* The steps of a withdrawal. *)

LEMMA LoadKeeps ==
  ASSUME IInv, NEW w \in Withdrawals, Load(w)
  PROVE  IInv'
<1>1. /\ request \in [Withdrawals -> [at : RequestAt, version : Nat, withdrawn : Int]]
      /\ wo.version \in Nat /\ wo.withdrawn \in Int
  BY DEF IInv, Shape
<1>2. /\ request' \in [Withdrawals -> [at : RequestAt, version : Nat, withdrawn : Int]]
      /\ request[w].at = "idle" /\ request'[w].at = "loaded"
      /\ \A v \in Withdrawals \ {w} : request'[v] = request[v]
  BY <1>1 DEF Load, RequestAt
<1>3. RequestForward
  BY <1>2 DEF RequestForward
<1>4. movements' = movements /\ outbox' = outbox /\ wo' = wo /\ worker' = worker
  BY DEF Load, ledgerVars
<1> QED BY <1>3, <1>4, SameLedger, SameOutbox, SameWorkOrder, SameWorkerIsQuiet, QuietStep

\* A request that goes on past its save, and does nothing else.
LEMMA IdleRequestKeeps ==
  ASSUME IInv, NEW w \in Withdrawals, request[w].at # "done",
         NEW to \in {"undoing", "returning", "undone", "failed", "done"},
         request' = [request EXCEPT ![w].at = to],
         movements' = movements, outbox' = outbox, wo' = wo, worker' = worker
  PROVE  IInv'
<1>1. RequestForward
  BY RequestGoesOn
<1> QED BY <1>1, SameLedger, SameOutbox, SameWorkOrder, SameWorkerIsQuiet, QuietStep

LEMMA ConsumeStockKeeps ==
  ASSUME IInv, NEW w \in Withdrawals, ConsumeStock(w)
  PROVE  IInv'
<1>1. UNCHANGED <<wo, outbox, worker>>
  BY DEF ConsumeStock
<1>2. CASE Goes(w, "armed", "consumed") /\ Consume(w)
  BY <1>1, <1>2, ConsumeKeeps
<1>3. CASE Goes(w, "armed", "undoing") /\ Consume(w)
  BY <1>1, <1>3, ConsumeKeeps
<1>4. CASE Goes(w, "armed", "undoing") /\ UNCHANGED ledgerVars
  <2>1. /\ request[w].at # "done" /\ request' = [request EXCEPT ![w].at = "undoing"]
        /\ movements' = movements
    BY <1>4 DEF Goes, ledgerVars
  <2> QED BY <1>1, <2>1, IdleRequestKeeps
<1> QED BY <1>2, <1>3, <1>4 DEF ConsumeStock

\* The fault that a transaction commits and seems to fail is assumed away here.
LEMMA CommitKeeps ==
  ASSUME IInv, "lost commit" \notin FaultKinds, NEW w \in Withdrawals, Commit(w)
  PROVE  IInv'
<1>1. UNCHANGED <<ledgerVars, worker>>
  BY DEF Commit
<1>2. CASE Goes(w, "consumed", "done") /\ SaveWithdrawal(w)
  BY <1>1, <1>2, SaveKeeps
<1>3. CASE Goes(w, "consumed", "undoing") /\ UNCHANGED <<wo, outbox>>
  <2>1. /\ request[w].at # "done" /\ request' = [request EXCEPT ![w].at = "undoing"]
        /\ movements' = movements /\ outbox' = outbox /\ wo' = wo /\ worker' = worker
    BY <1>1, <1>3 DEF Goes, ledgerVars
  <2> QED BY <2>1, IdleRequestKeeps
<1> QED BY <1>2, <1>3 DEF Commit, Fault

LEMMA CompensationReadsKeeps ==
  ASSUME IInv, NEW w \in Withdrawals, CompensationReads(w)
  PROVE  IInv'
<1>1. PICK to \in {"returning", "undone"} :
        request[w].at # "done" /\ request' = [request EXCEPT ![w].at = to]
  BY DEF CompensationReads, Goes
<1>2. movements' = movements /\ outbox' = outbox /\ wo' = wo /\ worker' = worker
  BY DEF CompensationReads, ledgerVars
<1> QED BY <1>1, <1>2, IdleRequestKeeps

\* The request undoes what it did not save and will not.
LEMMA CompensationReturnsKeeps ==
  ASSUME IInv, NEW w \in Withdrawals, CompensationReturns(w)
  PROVE  IInv'
<1>1. PICK to \in {"undone", "failed"} :
        request[w].at = "returning" /\ request' = [request EXCEPT ![w].at = to]
  BY DEF CompensationReturns, Goes
<1>2. outbox' = outbox /\ wo' = wo /\ worker' = worker /\ Returned(w, LeftOf(w))
  BY DEF CompensationReturns, UndoConsumption
<1>3. LedgerQuiet({w})
  BY <1>2, Parts, ReturnedIsQuiet DEF Operations
<1>4. ~Saved(w) /\ PastSaving(w)
  BY <1>1 DEF IInv, RequestsGoInOrder, PastSaving
<1>5. RequestForward
  BY <1>1, RequestGoesOn
<1>6. \A v \in {w} \cap Withdrawals : ~Saved(v) /\ PastSaving(v)
  BY <1>4
<1>7. OutboxQuiet /\ WorkerQuiet /\ WoShape'
  BY <1>2, SameOutbox, SameWorkOrder, SameWorkerIsQuiet
<1> QED BY <1>3, <1>5, <1>6, <1>7, QuietKeeps

LEMMA CompensationCompletesKeeps ==
  ASSUME IInv, NEW w \in Withdrawals, CompensationCompletes(w)
  PROVE  IInv'
<1> DEFINE i == CHOOSE j \in UndoRows(outbox, w) : TRUE
<1>1. /\ request[w].at # "done" /\ request' = [request EXCEPT ![w].at = "done"]
      /\ movements' = movements /\ wo' = wo /\ worker' = worker /\ outbox' = Closed(outbox, i)
  BY DEF CompensationCompletes, Goes, Disarmed, ledgerVars
<1> HIDE DEF i
<1>2. OutboxQuiet
  <2>1. PICK row : row = i
    OBVIOUS
  <2>2. outbox \in Seq(StepRow) /\ outbox' = Closed(outbox, row)
    BY <1>1, <2>1, Parts
  <2>3. CASE row \in DOMAIN outbox
    BY <2>2, <2>3, ClosedIsQuiet
  <2>4. CASE row \notin DOMAIN outbox
    <3>1. Len(outbox) \in Nat /\ DOMAIN outbox = 1 .. Len(outbox)
          /\ outbox \in [1 .. Len(outbox) -> StepRow]
      BY <2>2, SeqFunction
    <3>2. outbox' = outbox
      BY <2>2, <2>4, <3>1 DEF Closed
    <3> QED BY <3>2, SameOutbox
  <2> QED BY <2>3, <2>4
<1>3. RequestForward
  BY <1>1, RequestGoesOn
<1> QED BY <1>1, <1>2, <1>3, SameLedger, SameWorkOrder, SameWorkerIsQuiet, QuietStep

LEMMA HandToProcessorKeeps ==
  ASSUME IInv, NEW w \in Withdrawals, HandToProcessor(w)
  PROVE  IInv'
<1>1. /\ request[w].at # "done" /\ request' = [request EXCEPT ![w].at = "done"]
      /\ movements' = movements /\ wo' = wo /\ worker' = worker
      /\ outbox' = outbox \/ outbox' = Released(outbox, w)
  BY DEF HandToProcessor, Goes, ledgerVars
<1>2. OutboxQuiet
  BY <1>1, Parts, SameOutbox, ReleasedIsQuiet
<1>3. RequestForward
  BY <1>1, RequestGoesOn
<1> QED BY <1>1, <1>2, <1>3, SameLedger, SameWorkOrder, SameWorkerIsQuiet, QuietStep

LEMMA CompensationFailsKeeps ==
  ASSUME IInv, NEW w \in Withdrawals, CompensationFails(w)
  PROVE  IInv'
<1>1. request[w].at # "done" /\ request' = [request EXCEPT ![w].at = "failed"]
  BY DEF CompensationFails, Goes
<1>2. movements' = movements /\ outbox' = outbox /\ wo' = wo /\ worker' = worker
  BY DEF CompensationFails, ledgerVars
<1> QED BY <1>1, <1>2, IdleRequestKeeps

LEMMA RequestStopsKeeps ==
  ASSUME IInv, NEW w \in Withdrawals, RequestStops(w)
  PROVE  IInv'
<1>1. request[w].at # "done" /\ request' = [request EXCEPT ![w].at = "done"]
  BY DEF RequestStops
<1>2. movements' = movements /\ outbox' = outbox /\ wo' = wo /\ worker' = worker
  BY DEF RequestStops, ledgerVars
<1> QED BY <1>1, <1>2, IdleRequestKeeps

-------------------------------------------------------------------------------
(* The requests that save the work order with a step. *)

LEMMA SavesKeeps ==
  ASSUME IInv, NEW status \in {"IN_EXECUTION", "COMPLETED", "DELIVERED", "CANCELED"},
         NEW withdrawn \in Int, Saves(status, withdrawn), OutboxQuiet
  PROVE  IInv'
<1>1. movements' = movements /\ request' = request /\ worker' = worker
  BY DEF Saves, ledgerVars
<1>2. wo.version + 1 \in Nat
  BY DEF IInv, Shape
<1>3. WoShape'
  BY <1>2 DEF Saves, WoShape
<1> QED BY <1>1, <1>3, SameLedger, SameRequestIsForward, SameWorkerIsQuiet, QuietStep

LEMMA WorkOrderSavesKeep ==
  ASSUME IInv,
         (\E r \in Returns : ReturnParts(r)) \/ CompleteWorkOrder \/ DeliverVehicle
           \/ CancelWorkOrder
  PROVE  IInv'
<1>1. wo.withdrawn \in Int
  BY DEF IInv, Shape
<1>2. ASSUME NEW r \in Returns, ReturnParts(r) PROVE IInv'
  <2>1. wo.withdrawn - Units[r] \in Int
    BY <1>1, StockAssumption DEF Operations
  <2>2. OutboxQuiet
    BY <1>2, Parts, EnqueuedIsQuiet DEF ReturnParts, Operations
  <2>3. Saves("IN_EXECUTION", wo.withdrawn - Units[r])
    BY <1>2 DEF ReturnParts
  <2>4. PICK withdrawn \in Int : withdrawn = wo.withdrawn - Units[r]
    BY <2>1
  <2>5. Saves("IN_EXECUTION", withdrawn)
    BY <2>3, <2>4 DEF Saves
  <2> QED BY <2>2, <2>5, SavesKeeps
<1>3. PICK same \in Int : same = wo.withdrawn
  BY <1>1
<1>4. CASE CompleteWorkOrder
  <2>1. Saves("COMPLETED", same) /\ OutboxQuiet
    BY <1>3, <1>4, SameOutbox DEF CompleteWorkOrder, Saves
  <2> QED BY <2>1, SavesKeeps
<1>5. CASE DeliverVehicle
  <2>1. Saves("DELIVERED", same)
    BY <1>3, <1>5 DEF DeliverVehicle, Saves
  <2>2. OutboxQuiet
    BY <1>5, Parts, EnqueuedIsQuiet DEF DeliverVehicle
  <2> QED BY <2>1, <2>2, SavesKeeps
<1>6. CASE CancelWorkOrder
  <2>1. Saves("CANCELED", same)
    BY <1>3, <1>6 DEF CancelWorkOrder, Saves
  <2>2. OutboxQuiet
    BY <1>6, Parts, EnqueuedIsQuiet DEF CancelWorkOrder
  <2> QED BY <2>1, <2>2, SavesKeeps
<1> QED BY <1>2, <1>4, <1>5, <1>6

-------------------------------------------------------------------------------
(* The steps of the workers, of time and of the operator. *)

\* A step may be claimed until it is done, and what a withdrawal saved is done.
LEMMA ClaimKeeps ==
  ASSUME IInv, NEW k \in Workers, Claim(k)
  PROVE  IInv'
<1>1. PICK i \in DOMAIN outbox :
        /\ Claimable(outbox, i) /\ outbox' = Claimed(outbox, i)
        /\ worker' = [worker EXCEPT ![k] =
             [at |-> "claimed", step |-> i, attempts |-> outbox[i].attempts + 1,
              candidates |-> << >>]]
  BY DEF Claim
<1>2. movements' = movements /\ request' = request /\ wo' = wo
  BY DEF Claim, ledgerVars
<1>3. OutboxQuiet /\ outbox'[i].status = "PENDING"
  BY <1>1, Parts, ClaimedRow
<1>4. outbox[i] \in StepRow /\ i \in Nat
  BY Parts, RowType, SeqFunction
<1>5. MayHold(i)
  <2>1. StepsAreNamed /\ ClaimsExcludeSaves
    BY DEF IInv
  <2>2. ASSUME outbox[i].kind = "UNDO_CONSUMPTION" PROVE ~Saved(outbox[i].operation)
    <3>1. outbox[i].operation \in Withdrawals /\ i \in UndoRows(outbox, outbox[i].operation)
      BY <2>1, <2>2 DEF StepsAreNamed, UndoRows
    <3>2. outbox[i].status # "DONE"
      BY <1>1 DEF Claimable, Unclosed
    <3> QED BY <2>1, <3>1, <3>2 DEF ClaimsExcludeSaves
  <2> QED BY <1>3, <2>2 DEF MayHold
<1>6. WorkerQuiet
  <2>1. PICK C : worker \in [Workers -> [at : WorkerAt, step : Nat, attempts : Nat,
                                         candidates : C]]
    BY DEF IInv, Shape
  <2> DEFINE D == C \cup {<< >>}
  <2>2. outbox[i].attempts + 1 \in Nat
    BY <1>4 DEF StepRow
  <2>3. /\ worker' \in [Workers -> [at : WorkerAt, step : Nat, attempts : Nat, candidates : D]]
        /\ worker'[k].step = i /\ worker'[k].candidates = << >>
        /\ \A j \in Workers \ {k} : worker'[j] = worker[j]
    BY <1>1, <1>4, <2>1, <2>2 DEF WorkerAt
  <2> HIDE DEF D
  <2>4. \A j \in DOMAIN << >> : j \in DOMAIN movements /\ Saved(movements[j].operation)
    OBVIOUS
  <2> QED BY <1>5, <2>3, <2>4, WorkerGoesOn
<1> QED BY <1>2, <1>3, <1>6, SameLedger, SameRequestIsForward, SameWorkOrder, QuietStep

\* What a claim undoes is not saved, and its step is armed no longer.
LEMMA ClaimedUndo ==
  ASSUME IInv, NEW k \in Workers, worker[k].at # "idle", StepOf(k).kind = "UNDO_CONSUMPTION"
  PROVE  /\ StepOf(k).operation \in Withdrawals
         /\ ~Saved(StepOf(k).operation) /\ PastSaving(StepOf(k).operation)
<1>1. StepsAreNamed /\ ClaimsExcludeSaves
  BY DEF IInv
<1>2. worker[k].step \in DOMAIN outbox /\ StepOf(k) = outbox[worker[k].step]
  BY <1>1 DEF ClaimsExcludeSaves, StepOf
<1>3. /\ StepOf(k).operation \in Withdrawals
      /\ worker[k].step \in UndoRows(outbox, StepOf(k).operation)
  BY <1>1, <1>2 DEF StepsAreNamed, UndoRows
<1>4. StepOf(k).status # "ARMED" /\ ~Saved(StepOf(k).operation)
  BY <1>1 DEF ClaimsExcludeSaves
<1>5. \A j \in UndoRows(outbox, StepOf(k).operation) : j = worker[k].step
  BY <1>1, <1>3 DEF StepsAreNamed
<1>6. PastSaving(StepOf(k).operation)
  BY <1>2, <1>4, <1>5 DEF PastSaving
<1> QED BY <1>3, <1>4, <1>6

LEMMA EffectKeeps ==
  ASSUME IInv, NEW k \in Workers, NEW to \in WorkerAt, Effect(k), MovesTo(k, to),
         UNCHANGED <<wo, outbox, request>>
  PROVE  IInv'
<1>1. worker[k].at # "idle"
  BY DEF Effect
<1>2. /\ OutboxQuiet /\ RequestForward /\ WoShape' /\ WorkerQuiet
  BY <1>1, SameOutbox, SameRequestIsForward, SameWorkOrder, MoveIsQuiet
<1>3. PICK op : op = StepOf(k).operation
  OBVIOUS
<1>4. /\ worker[k].step \in DOMAIN outbox /\ StepOf(k) = outbox[worker[k].step]
      /\ StepsAreNamed /\ ConfirmedIsSaved
  BY <1>1 DEF IInv, ClaimsExcludeSaves, StepOf
<1>5. CASE StepOf(k).kind = "UNDO_CONSUMPTION" /\ UndoConsumption(op)
  <2>1. op \in Withdrawals /\ ~Saved(op) /\ PastSaving(op)
    BY <1>1, <1>3, <1>5, ClaimedUndo
  <2>2. LedgerQuiet({op})
    BY <1>5, <2>1, Parts, ReturnedIsQuiet DEF UndoConsumption, Operations
  <2>3. \A v \in {op} \cap Withdrawals : ~Saved(v) /\ PastSaving(v)
    BY <2>1
  <2> QED BY <1>2, <2>2, <2>3, QuietKeeps
<1>6. CASE StepOf(k).kind = "WRITE_OFF" /\ WriteOff(worker[k].candidates)
  <2>1. PICK candidates : candidates = worker[k].candidates
    OBVIOUS
  <2>2. \A i \in DOMAIN candidates : i \in DOMAIN movements /\ Saved(movements[i].operation)
    BY <1>4, <2>1 DEF ConfirmedIsSaved
  <2>3. LedgerQuiet({})
    BY <1>6, <2>1, <2>2, Parts, WriteOffIsQuiet
  <2> QED BY <1>2, <2>3, QuietStep
<1>7. CASE StepOf(k).kind = "CONFIRM_CONSUMPTION" /\ ConfirmConsumption(op)
  <2>1. Saved(op)
    BY <1>3, <1>4, <1>7 DEF Saved, Recorded
  <2>2. LedgerQuiet({})
    BY <1>7, <2>1, Parts, ConfirmIsQuiet
  <2> QED BY <1>2, <2>2, QuietStep
<1>8. CASE StepOf(k).kind = "RESTORE" /\ Restore(op)
  <2>1. op \in Returns
    BY <1>3, <1>4, <1>8 DEF StepsAreNamed
  <2>2. LedgerQuiet({})
    BY <1>8, <2>1, Parts, RestoreIsQuiet
  <2> QED BY <1>2, <2>2, QuietStep
<1>9. CASE StepOf(k).kind = "SETTLE" /\ Settle
  <2>1. LedgerQuiet({})
    BY <1>9, Parts, SettleIsQuiet
  <2> QED BY <1>2, <2>1, QuietStep
<1>10. \/ StepOf(k).kind = "UNDO_CONSUMPTION" /\ UndoConsumption(op)
       \/ StepOf(k).kind = "WRITE_OFF" /\ WriteOff(worker[k].candidates)
       \/ StepOf(k).kind = "CONFIRM_CONSUMPTION" /\ ConfirmConsumption(op)
       \/ StepOf(k).kind = "RESTORE" /\ Restore(op)
       \/ StepOf(k).kind = "SETTLE" /\ Settle
  BY <1>3 DEF Effect
<1> QED BY <1>5, <1>6, <1>7, <1>8, <1>9, <1>10

LEMMA ApplyKeeps ==
  ASSUME IInv, NEW k \in Workers, Apply(k)
  PROVE  IInv'
<1>1. outbox' = outbox /\ request' = request /\ wo' = wo
  BY DEF Apply
<1>2. OutboxQuiet /\ RequestForward /\ WoShape'
  BY <1>1, SameOutbox, SameRequestIsForward, SameWorkOrder
<1>3. {"applied", "failed", "reading"} \subseteq WorkerAt
  BY DEF WorkerAt
<1>4. CASE ReadsUndo(k)
  <2>1. PICK to \in WorkerAt : WorkGoes(k, to)
    BY <1>3, <1>4 DEF ReadsUndo
  <2>2. WorkerQuiet /\ LedgerQuiet({})
    BY <1>4, <2>1, WorkIsQuiet, SameLedger DEF ReadsUndo, ledgerVars
  <2> QED BY <1>2, <2>2, QuietStep
<1>5. CASE ReadsWriteOff(k)
  <2>1. \A i \in OpenRows : i \in DOMAIN movements /\ Saved(movements[i].operation)
    BY DEF IInv, ConfirmedIsSaved, OpenRows, Open
  <2>2. PICK candidates : candidates = WriteOffCandidates
    OBVIOUS
  <2>3. \A i \in DOMAIN candidates : i \in DOMAIN movements /\ Saved(movements[i].operation)
    BY <2>1, <2>2 DEF WriteOffCandidates
  <2>4. worker' = [worker EXCEPT ![k].at = "reading", ![k].candidates = candidates]
    BY <1>5, <2>2 DEF ReadsWriteOff
  <2>5. worker[k].at # "idle" /\ movements' = movements
    BY <1>5 DEF ReadsWriteOff, ledgerVars
  <2>6. "reading" \in WorkerAt
    BY <1>3
  <2>7. WorkerQuiet
    BY <2>3, <2>4, <2>5, <2>6, ClaimGoesOn
  <2> QED BY <1>2, <2>5, <2>7, SameLedger, QuietStep
<1>6. CASE Effect(k) /\ (MovesTo(k, "applied") \/ MovesTo(k, "failed"))
  <2>1. PICK to \in WorkerAt : MovesTo(k, to)
    BY <1>3, <1>6
  <2> QED BY <1>1, <1>6, <2>1, EffectKeeps
<1>7. CASE Refused(k) /\ MovesTo(k, "failed") /\ UNCHANGED ledgerVars
  <2>1. WorkerQuiet
    BY <1>3, <1>7, MoveIsQuiet DEF Refused
  <2>2. LedgerQuiet({})
    BY <1>7, SameLedger DEF ledgerVars
  <2> QED BY <1>2, <2>1, <2>2, QuietStep
<1> QED BY <1>4, <1>5, <1>6, <1>7 DEF Apply

\* A claim that ends, with or without closing its step, or one that fails.
LEMMA ClaimEndsKeeps ==
  ASSUME IInv, NEW k \in Workers, CompleteStep(k) \/ Fail(k) \/ WorkerStops(k) \/ WorkFails(k)
  PROVE  IInv'
<1>1. /\ worker[k].at # "idle" /\ movements' = movements /\ request' = request
      /\ wo' = wo
  BY DEF CompleteStep, Fail, WorkerStops, WorkFails, ledgerVars
<1>2. LedgerQuiet({}) /\ RequestForward /\ WoShape'
  BY <1>1, SameLedger, SameRequestIsForward, SameWorkOrder
<1>3. PICK step \in DOMAIN outbox : step = worker[k].step
  BY <1>1 DEF IInv, ClaimsExcludeSaves
<1>4. CASE CompleteStep(k)
  <2>1. outbox' = Closed(outbox, step) /\ Release(k)
    BY <1>3, <1>4 DEF CompleteStep, Completed
  <2>2. OutboxQuiet /\ WorkerQuiet
    BY <2>1, Parts, ClosedIsQuiet, ReleaseIsQuiet
  <2> QED BY <1>2, <2>2, QuietStep
<1>5. CASE Fail(k)
  <2>1. PICK exhausted : outbox' = Failed(outbox, step, exhausted)
    BY <1>3, <1>5 DEF Fail
  <2>2. OutboxQuiet /\ WorkerQuiet
    BY <1>5, <2>1, Parts, FailedIsQuiet, ReleaseIsQuiet DEF Fail
  <2> QED BY <1>2, <2>2, QuietStep
<1>6. CASE WorkerStops(k)
  <2>1. OutboxQuiet /\ WorkerQuiet
    BY <1>6, SameOutbox, ReleaseIsQuiet DEF WorkerStops
  <2> QED BY <1>2, <2>1, QuietStep
<1>7. CASE WorkFails(k)
  <2>1. OutboxQuiet /\ WorkerQuiet
    BY <1>1, <1>7, SameOutbox, MoveIsQuiet DEF WorkFails, WorkerAt
  <2> QED BY <1>2, <2>1, QuietStep
<1> QED BY <1>4, <1>5, <1>6, <1>7

\* A row that falls due, or that an operator sets back.
LEMMA RowsKeep ==
  ASSUME IInv, TimePasses \/ TimeOutruns \/ OperatorRetries
  PROVE  IInv'
<1>1. /\ movements' = movements /\ request' = request /\ wo' = wo /\ worker' = worker
  BY DEF TimePasses, TimeOutruns, OperatorRetries, FallsDue, ledgerVars
<1>2. OutboxQuiet
  <2>1. CASE TimePasses \/ TimeOutruns
    <3>1. PICK i \in DOMAIN outbox : outbox' = [outbox EXCEPT ![i].due = TRUE]
      BY <2>1 DEF TimePasses, TimeOutruns, FallsDue
    <3>2. outbox[i] \in StepRow /\ outbox \in Seq(StepRow)
      BY Parts, RowType
    <3> DEFINE row == [outbox[i] EXCEPT !.due = TRUE]
    <3>3. /\ row \in StepRow /\ row.status = outbox[i].status
          /\ row.kind = outbox[i].kind /\ row.operation = outbox[i].operation
      BY <3>2 DEF StepRow
    <3>4. outbox' = [outbox EXCEPT ![i] = row]
      BY <3>1
    <3> HIDE DEF row
    <3> QED BY <3>2, <3>3, <3>4, RowChanges
  <2>2. CASE OperatorRetries
    <3>1. PICK i \in DOMAIN outbox :
            /\ outbox[i].status = "FAILED"
            /\ outbox' = [outbox EXCEPT ![i].status = "PENDING", ![i].due = TRUE]
      BY <2>2 DEF OperatorRetries
    <3>2. outbox[i] \in StepRow /\ outbox \in Seq(StepRow)
      BY Parts, RowType
    <3> DEFINE row == [outbox[i] EXCEPT !.status = "PENDING", !.due = TRUE]
    <3>3. /\ row \in StepRow /\ row.status = "PENDING"
          /\ row.kind = outbox[i].kind /\ row.operation = outbox[i].operation
      BY <3>2 DEF StepRow, StepStatus
    <3>4. outbox' = [outbox EXCEPT ![i] = row]
      BY <3>1
    <3> HIDE DEF row
    <3> QED BY <3>1, <3>2, <3>3, <3>4, RowChanges
  <2> QED BY <2>1, <2>2
<1> QED BY <1>1, <1>2, SameLedger, SameRequestIsForward, SameWorkOrder, SameWorkerIsQuiet, QuietStep

-------------------------------------------------------------------------------
(* The theorems. *)

LEMMA StepKeeps ==
  ASSUME "lost commit" \notin FaultKinds, IInv, [Next]_vars
  PROVE  IInv'
<1>1. ASSUME NEW w \in Withdrawals,
             Load(w) \/ Withdraw(w) \/ CompensationFails(w) \/ RequestStops(w)
      PROVE  IInv'
  BY <1>1, LoadKeeps, ArmKeeps, ConsumeStockKeeps, CommitKeeps, CompensationReadsKeeps,
     CompensationReturnsKeeps, CompensationCompletesKeeps, HandToProcessorKeeps,
     CompensationFailsKeeps, RequestStopsKeeps DEF Withdraw
<1>2. ASSUME NEW k \in Workers, Work(k) \/ WorkFails(k) \/ WorkerStops(k)
      PROVE  IInv'
  BY <1>2, ClaimKeeps, ApplyKeeps, ClaimEndsKeeps DEF Work
<1>3. CASE UNCHANGED vars
  <2>1. /\ movements' = movements /\ outbox' = outbox /\ request' = request /\ wo' = wo
        /\ worker' = worker
    BY <1>3 DEF vars
  <2> QED BY <2>1, SameLedger, SameOutbox, SameRequestIsForward, SameWorkOrder,
             SameWorkerIsQuiet, QuietStep
<1> QED BY <1>1, <1>2, <1>3, WorkOrderSavesKeep, RowsKeep DEF Next

LEMMA Inductive ==
  ASSUME "lost commit" \notin FaultKinds
  PROVE  Spec => []IInv
<1>1. Init => IInv
  BY InitInv
<1>2. IInv /\ [Next]_vars => IInv'
  BY StepKeeps
<1> QED BY <1>1, <1>2, PTL DEF Spec

\* An undone operation never reached the work order: neither the request that
\* compensates nor a worker, however late and however often it is repeated,
\* gives back units that a saved withdrawal took.
THEOREM UndoneStaysUnsaved ==
  ASSUME "lost commit" \notin FaultKinds
  PROVE  Spec => []UndoneNeverSaved
<1>1. IInv => UndoneNeverSaved
  BY Goals
<1> QED BY <1>1, Inductive, PTL

\* A settlement and a write-off close no consumption whose withdrawal has not
\* been saved with the work order.
THEOREM OnlySavedCloses ==
  ASSUME "lost commit" \notin FaultKinds
  PROVE  Spec => []OnlySavedIsClosed
<1>1. IInv => OnlySavedIsClosed
  BY Goals
<1> QED BY <1>1, Inductive, PTL

-------------------------------------------------------------------------------
(* The consumptions and what is left of them. *)

LEMMA OperationsAreFinite ==
  /\ IsFiniteSet(Operations) /\ Withdrawals \subseteq Operations /\ Returns \subseteq Operations
  /\ Withdrawals \cap Returns = {} /\ \A op \in Operations : Units[op] \in Nat \ {0}
  BY StockAssumption DEF Operations

LEMMA LeftOfOne ==
  ASSUME NEW m \in Consumption
  PROVE  /\ Remaining(m) = m.quantity - SumFunctionOnSet(m.returned, Operations)
         /\ Remaining(m) \in Int
<1>1. m.quantity \in Nat /\ DOMAIN m.returned = Operations /\ \A op \in Operations : m.returned[op] \in Nat
  BY DEF Consumption
<1>2. SumFunctionOnSet(m.returned, Operations) \in Int
  BY <1>1, OperationsAreFinite, SumIsInt
<1>3. Remaining(m) = m.quantity - SumFunctionOnSet(m.returned, Operations)
  BY <1>1 DEF Remaining, SumFunction
<1> QED BY <1>1, <1>2, <1>3

LEMMA LedgerRows ==
  ASSUME movements \in Seq(Consumption)
  PROVE  /\ Len(movements) \in Nat /\ DOMAIN movements = 1 .. Len(movements)
         /\ IsFiniteSet(DOMAIN movements)
         /\ \A i \in DOMAIN movements :
              /\ movements[i] \in Consumption
              /\ Left[i] = Remaining(movements[i]) /\ Left[i] \in Int
<1>1. Len(movements) \in Nat /\ DOMAIN movements = 1 .. Len(movements)
      /\ \A i \in DOMAIN movements : movements[i] \in Consumption
  BY SeqFunction
<1>2. IsFiniteSet(1 .. Len(movements))
  BY <1>1, FS_Interval
<1>3. \A i \in DOMAIN movements : Left[i] = Remaining(movements[i])
  BY DEF Left
<1> QED BY <1>1, <1>2, <1>3, LeftOfOne

\* What one consumption gives back, it has no longer.
LEMMA GivesBack ==
  ASSUME NEW m \in Consumption, NEW op \in Operations, NEW d \in Nat
  PROVE  LET n == [m EXCEPT !.returned[op] = @ + d] IN
         /\ n \in Consumption /\ Remaining(n) = Remaining(m) - d
         /\ n.operation = m.operation /\ n.quantity = m.quantity /\ n.status = m.status
         /\ n.confirmed = m.confirmed /\ n.lost = m.lost
         /\ n.returned[op] = m.returned[op] + d
         /\ \A q \in Operations \ {op} : n.returned[q] = m.returned[q]
<1> DEFINE n == [m EXCEPT !.returned[op] = @ + d]
<1>1. m.quantity \in Nat /\ m.returned \in [Operations -> Nat]
  BY DEF Consumption
<1>2. m.returned[op] + d \in Nat
  BY <1>1
<1>3. /\ n \in Consumption
      /\ n.operation = m.operation /\ n.quantity = m.quantity /\ n.status = m.status
      /\ n.confirmed = m.confirmed /\ n.lost = m.lost
      /\ n.returned[op] = m.returned[op] + d
      /\ \A q \in Operations \ {op} : n.returned[q] = m.returned[q]
  BY <1>2 DEF Consumption
<1> HIDE DEF n
<1>4. SumFunctionOnSet(n.returned, Operations)
        = SumFunctionOnSet(m.returned, Operations) - m.returned[op] + n.returned[op]
  <2>1. \A q \in Operations : m.returned[q] \in Int /\ n.returned[q] \in Int
    BY <1>1, <1>2, <1>3
  <2> QED BY <1>3, <2>1, OperationsAreFinite, SumChanges
<1>5. PICK s \in Int : s = SumFunctionOnSet(m.returned, Operations)
  BY <1>1, OperationsAreFinite, SumIsInt
<1>6. Remaining(n) = Remaining(m) - d
  BY <1>1, <1>2, <1>3, <1>4, <1>5, LeftOfOne
<1> QED BY <1>3, <1>6 DEF n

-------------------------------------------------------------------------------
(* No unit is lost or made up. *)

LedgerSound ==
  /\ quantityOnHand \in Nat /\ movements \in Seq(Consumption) /\ UnitsAreConserved

LEMMA SoundRows ==
  ASSUME LedgerSound
  PROVE  /\ quantityOnHand \in Nat /\ OnHand \in Nat
         /\ \A i \in DOMAIN movements : Left[i] \in Nat
         /\ Outstanding(DOMAIN movements) \in Nat
         /\ quantityOnHand + Outstanding(DOMAIN movements) = OnHand
<1>1. movements \in Seq(Consumption)
  BY DEF LedgerSound
<1>2. \A i \in DOMAIN movements : Left[i] \in Nat
  BY <1>1, LedgerRows DEF LedgerSound, UnitsAreConserved
<1>3. Outstanding(DOMAIN movements) \in Nat
  BY <1>1, <1>2, LedgerRows, SumIsNat DEF Outstanding
<1> QED BY <1>2, <1>3, StockAssumption DEF LedgerSound, UnitsAreConserved

\* A consumption takes from the shelf what its row holds.
LEMMA ConsumeKeepsUnits ==
  ASSUME LedgerSound, NEW w \in Withdrawals, Consume(w)
  PROVE  /\ LedgerSound'
         /\ DOMAIN movements' = DOMAIN movements \cup {Len(movements) + 1}
         /\ Len(movements) + 1 \notin DOMAIN movements
         /\ \A i \in DOMAIN movements : movements'[i] = movements[i] /\ Left'[i] = Left[i]
         /\ movements'[Len(movements) + 1] =
              [operation |-> w, quantity |-> Units[w], status |-> "PENDING", confirmed |-> FALSE,
               returned |-> [op \in Operations |-> 0], lost |-> 0]
         /\ Left'[Len(movements) + 1] = Units[w]
<1> DEFINE new == [operation |-> w, quantity |-> Units[w], status |-> "PENDING",
                   confirmed |-> FALSE, returned |-> [op \in Operations |-> 0], lost |-> 0]
           n == Len(movements) + 1
<1>1. movements \in Seq(Consumption) /\ Units[w] \in Nat \ {0} /\ quantityOnHand \in Nat
  BY OperationsAreFinite DEF LedgerSound
<1>2. /\ new \in Consumption /\ new.quantity = Units[w]
      /\ \A op \in Operations : new.returned[op] = 0
  BY <1>1 DEF Consumption, MovementStatus
<1>3. quantityOnHand' = quantityOnHand - Units[w] /\ quantityOnHand >= Units[w]
      /\ movements' = Append(movements, new)
  BY <1>1 DEF Consume, Insufficient
<1> HIDE DEF new
<1>4. /\ movements' \in Seq(Consumption) /\ DOMAIN movements' = DOMAIN movements \cup {n}
      /\ movements'[n] = new /\ n \notin DOMAIN movements
      /\ \A i \in DOMAIN movements : movements'[i] = movements[i]
  BY <1>1, <1>2, <1>3, Appended
<1> HIDE DEF n
<1>5. Remaining(new) = Units[w]
  <2>1. SumFunctionOnSet(new.returned, Operations) = 0
    BY <1>2, OperationsAreFinite, SumOfZeros
  <2> QED BY <1>1, <1>2, <2>1, LeftOfOne
<1>6. /\ Left'[n] = Units[w] /\ \A i \in DOMAIN movements : Left'[i] = Left[i]
  BY <1>4, <1>5 DEF Left
<1>7. Outstanding(DOMAIN movements)' = Outstanding(DOMAIN movements) + Units[w]
  <2>1. IsFiniteSet(DOMAIN movements) /\ \A i \in DOMAIN movements : Left[i] \in Int
    BY <1>1, LedgerRows
  <2>2. Left'[n] \in Int
    BY <1>1, <1>6
  <2>3. SumFunctionOnSet(Left', DOMAIN movements \cup {n})
          = SumFunctionOnSet(Left, DOMAIN movements) + Left'[n]
    BY <1>4, <1>6, <2>1, <2>2, SumExtends
  <2> QED BY <1>4, <1>6, <2>3 DEF Outstanding
<1>8. LedgerSound'
  <2>1. quantityOnHand - Units[w] \in Nat
    BY <1>1, <1>3
  <2>2. (quantityOnHand + Outstanding(DOMAIN movements))' = OnHand
    BY <1>1, <1>3, <1>7, SoundRows
  <2>3. \A i \in DOMAIN movements' : Remaining(movements'[i]) >= 0
    BY <1>1, <1>4, <1>5 DEF LedgerSound, UnitsAreConserved
  <2> QED BY <1>3, <1>4, <2>1, <2>2, <2>3 DEF LedgerSound, UnitsAreConserved
<1> QED BY <1>4, <1>6, <1>8 DEF new, n

\* What RETURNs of an operation do to the rows.
RowsGive(op, draw) ==
  /\ DOMAIN movements' = DOMAIN movements
  /\ \A i \in DOMAIN movements :
       /\ movements'[i].operation = movements[i].operation
       /\ movements'[i].quantity = movements[i].quantity
       /\ movements'[i].status = movements[i].status
       /\ movements'[i].confirmed = movements[i].confirmed
       /\ movements'[i].lost = movements[i].lost
       /\ movements'[i].returned[op] = movements[i].returned[op] + draw[i]
       /\ \A q \in Operations \ {op} : movements'[i].returned[q] = movements[i].returned[q]
       /\ Left'[i] = Left[i] - draw[i]

\* RETURNs that ask no row for more than it has put on the shelf what they take.
LEMMA ReturnedKeepsUnits ==
  ASSUME LedgerSound, NEW op \in Operations, NEW draw, DOMAIN draw = DOMAIN movements,
         \A i \in DOMAIN movements : draw[i] \in Nat /\ draw[i] <= Left[i],
         Returned(op, draw)
  PROVE  LedgerSound' /\ RowsGive(op, draw)
<1>1. /\ movements \in Seq(Consumption) /\ quantityOnHand \in Nat
      /\ Len(movements) \in Nat /\ DOMAIN movements = 1 .. Len(movements)
      /\ IsFiniteSet(DOMAIN movements)
      /\ \A i \in DOMAIN movements : movements[i] \in Consumption
      /\ \A i \in DOMAIN movements : Left[i] = Remaining(movements[i]) /\ Left[i] \in Nat
  BY LedgerRows, SoundRows DEF LedgerSound
<1>2. /\ DOMAIN movements' = DOMAIN movements
      /\ movements' = [i \in 1 .. Len(movements) |-> movements'[i]]
      /\ \A i \in DOMAIN movements :
           movements'[i] = [movements[i] EXCEPT !.returned[op] = @ + draw[i]]
  BY <1>1 DEF Returned
<1>3. ASSUME NEW i \in DOMAIN movements
      PROVE  /\ movements'[i] \in Consumption
             /\ movements'[i].operation = movements[i].operation
             /\ movements'[i].quantity = movements[i].quantity
             /\ movements'[i].status = movements[i].status
             /\ movements'[i].confirmed = movements[i].confirmed
             /\ movements'[i].lost = movements[i].lost
             /\ movements'[i].returned[op] = movements[i].returned[op] + draw[i]
             /\ \A q \in Operations \ {op} : movements'[i].returned[q] = movements[i].returned[q]
             /\ Remaining(movements'[i]) = Remaining(movements[i]) - draw[i]
  <2>1. PICK m \in Consumption : m = movements[i]
    BY <1>1
  <2>2. PICK d \in Nat : d = draw[i]
    OBVIOUS
  <2>3. movements'[i] = [m EXCEPT !.returned[op] = @ + d]
    BY <1>2, <2>1, <2>2
  <2> QED BY <2>1, <2>2, <2>3, GivesBack
<1>4. movements' \in Seq(Consumption)
  <2>1. movements' \in [1 .. Len(movements) -> Consumption]
    BY <1>1, <1>2, <1>3
  <2> QED BY <1>1, <2>1, FunctionSeq
<1>5. \A i \in DOMAIN movements : Left'[i] = Left[i] - draw[i]
  BY <1>1, <1>2, <1>3 DEF Left
<1>6. SumFunctionOnSet(Left, DOMAIN movements)
        = SumFunctionOnSet(Left', DOMAIN movements) + SumFunction(draw)
  <2>1. \A i \in DOMAIN movements :
          Left'[i] \in Int /\ draw[i] \in Int /\ Left[i] = Left'[i] + draw[i]
    BY <1>1, <1>5
  <2>2. SumFunctionOnSet(Left, DOMAIN movements)
          = SumFunctionOnSet(Left', DOMAIN movements) + SumFunctionOnSet(draw, DOMAIN movements)
    BY <1>1, <2>1, SumOfSums, ZenonT(60)
  <2> QED BY <2>2 DEF SumFunction
<1>7. SumFunction(draw) \in Nat
  BY <1>1, SumIsNat DEF SumFunction
<1>8. \A i \in DOMAIN movements : Left'[i] \in Nat
  BY <1>1, <1>5
<1>9. SumFunctionOnSet(Left', DOMAIN movements) \in Nat
  BY <1>1, <1>8, SumIsNat
<1>10. LedgerSound'
  <2>1. quantityOnHand' = quantityOnHand + SumFunction(draw) /\ quantityOnHand' \in Nat
    BY <1>1, <1>7 DEF Returned
  <2>2. quantityOnHand + SumFunctionOnSet(Left, DOMAIN movements) = OnHand
    BY DEF LedgerSound, UnitsAreConserved, Outstanding
  <2>3. quantityOnHand' + SumFunctionOnSet(Left', DOMAIN movements) = OnHand
    BY <1>1, <1>6, <1>7, <1>9, <2>1, <2>2
  <2>4. \A i \in DOMAIN movements' : Remaining(movements'[i]) >= 0
    BY <1>1, <1>2, <1>3
  <2> QED BY <1>2, <1>4, <2>1, <2>3, <2>4 DEF LedgerSound, UnitsAreConserved, Outstanding
<1> QED BY <1>2, <1>3, <1>5, <1>10 DEF RowsGive

\* Updates of the columns status, confirmed and lost move no unit.
LEMMA ColumnsKeepUnits ==
  ASSUME LedgerSound, UNCHANGED quantityOnHand, DOMAIN movements' = DOMAIN movements,
         movements' = [i \in DOMAIN movements |-> movements'[i]],
         \A i \in DOMAIN movements :
           /\ movements'[i] \in Consumption
           /\ movements'[i].quantity = movements[i].quantity
           /\ movements'[i].returned = movements[i].returned
  PROVE  LedgerSound' /\ \A i \in DOMAIN movements : Left'[i] = Left[i]
<1>1. /\ movements \in Seq(Consumption)
      /\ Len(movements) \in Nat /\ DOMAIN movements = 1 .. Len(movements)
      /\ IsFiniteSet(DOMAIN movements)
      /\ \A i \in DOMAIN movements : Left[i] = Remaining(movements[i]) /\ Left[i] \in Nat
  BY LedgerRows, SoundRows DEF LedgerSound
<1>2. \A i \in DOMAIN movements : Remaining(movements'[i]) = Remaining(movements[i])
  BY DEF Remaining
<1>3. \A i \in DOMAIN movements : Left'[i] = Left[i]
  BY <1>1, <1>2 DEF Left
<1>4. movements' \in Seq(Consumption)
  <2>1. movements' \in [1 .. Len(movements) -> Consumption]
    BY <1>1
  <2> QED BY <1>1, <2>1, FunctionSeq
<1>5. SumFunctionOnSet(Left', DOMAIN movements) = SumFunctionOnSet(Left, DOMAIN movements)
  BY <1>1, <1>3, SumsAgree
<1>6. LedgerSound'
  <2>1. \A i \in DOMAIN movements' : Remaining(movements'[i]) >= 0
    BY <1>2 DEF LedgerSound, UnitsAreConserved
  <2>2. quantityOnHand' \in Nat /\ quantityOnHand' + SumFunctionOnSet(Left', DOMAIN movements') = OnHand
    BY <1>5 DEF LedgerSound, UnitsAreConserved, Outstanding
  <2> QED BY <1>4, <2>1, <2>2 DEF LedgerSound, UnitsAreConserved, Outstanding
<1> QED BY <1>3, <1>6

\* What is undone of an operation is what is left of it.
LEMMA UndoKeepsUnits ==
  ASSUME LedgerSound, NEW w \in Operations, UndoConsumption(w)
  PROVE  LedgerSound' /\ RowsGive(w, LeftOf(w))
<1>1. \A i \in DOMAIN movements : Left[i] = Remaining(movements[i]) /\ Left[i] \in Nat
  BY LedgerRows, SoundRows DEF LedgerSound
<1>2. DOMAIN LeftOf(w) = DOMAIN movements
  BY DEF LeftOf
<1>3. \A i \in DOMAIN movements : LeftOf(w)[i] \in Nat /\ LeftOf(w)[i] <= Left[i]
  BY <1>1 DEF LeftOf
<1> QED BY <1>2, <1>3, ReturnedKeepsUnits DEF UndoConsumption

-------------------------------------------------------------------------------
(* What a restore draws. *)

LEMMA MinOfTwo ==
  ASSUME NEW a \in Int, NEW b \in Int
  PROVE  Min({a, b}) = IF a <= b THEN a ELSE b
<1> DEFINE least == IF a <= b THEN a ELSE b
<1>1. least \in {a, b} /\ \A x \in {a, b} : least <= x
  OBVIOUS
<1>2. ASSUME NEW x \in {a, b}, \A y \in {a, b} : x <= y PROVE x = least
  BY <1>2
<1> HIDE DEF least
<1>3. Min({a, b}) \in {a, b} /\ \A y \in {a, b} : Min({a, b}) <= y
  BY <1>1 DEF Min
<1> QED BY <1>2, <1>3 DEF least

LEMMA MaxOfTwo ==
  ASSUME NEW a \in Int, NEW b \in Int
  PROVE  Max({a, b}) = IF a >= b THEN a ELSE b
<1> DEFINE most == IF a >= b THEN a ELSE b
<1>1. most \in {a, b} /\ \A x \in {a, b} : most >= x
  OBVIOUS
<1>2. ASSUME NEW x \in {a, b}, \A y \in {a, b} : x >= y PROVE x = most
  BY <1>2
<1> HIDE DEF most
<1>3. Max({a, b}) \in {a, b} /\ \A y \in {a, b} : Max({a, b}) >= y
  BY <1>1 DEF Max
<1> QED BY <1>2, <1>3 DEF most

\* The open consumptions that are newer than the k-th.
Newer(k) == {j \in OpenRows : j > k}

LEMMA OpenRowsAreFinite ==
  ASSUME LedgerSound
  PROVE  /\ OpenRows \subseteq DOMAIN movements /\ IsFiniteSet(OpenRows)
         /\ \A k : IsFiniteSet(Newer(k)) /\ Outstanding(Newer(k)) \in Nat
         /\ \A i \in DOMAIN movements : Left[i] = Remaining(movements[i]) /\ Left[i] \in Nat
<1>1. /\ IsFiniteSet(DOMAIN movements)
      /\ \A i \in DOMAIN movements : Left[i] = Remaining(movements[i]) /\ Left[i] \in Nat
  BY LedgerRows, SoundRows DEF LedgerSound
<1>2. OpenRows \in SUBSET DOMAIN movements /\ \A k : Newer(k) \in SUBSET DOMAIN movements
  BY DEF OpenRows, Newer
<1>3. IsFiniteSet(OpenRows) /\ \A k : IsFiniteSet(Newer(k))
  BY <1>1, <1>2, FS_Subset
<1>4. \A k : Outstanding(Newer(k)) \in Nat
  BY <1>1, <1>2, <1>3, SumIsNat DEF Outstanding
<1> QED BY <1>1, <1>2, <1>3, <1>4

\* From each row as much as the newer ones leave to draw, and no more than it has.
LEMMA DrawOfOne ==
  ASSUME LedgerSound, NEW r \in Returns, NEW i \in DOMAIN movements
  PROVE  /\ i \notin OpenRows => Draw(r)[i] = 0
         /\ i \in OpenRows =>
              Draw(r)[i] = IF Units[r] <= Outstanding(Newer(i)) THEN 0
                           ELSE IF Units[r] <= Outstanding(Newer(i)) + Left[i]
                                THEN Units[r] - Outstanding(Newer(i)) ELSE Left[i]
         /\ Draw(r)[i] \in Nat /\ Draw(r)[i] <= Left[i]
<1>1. CASE i \notin OpenRows
  <2>1. Draw(r)[i] = 0
    BY <1>1 DEF Draw
  <2> QED BY <1>1, <2>1, OpenRowsAreFinite
<1>2. CASE i \in OpenRows
  <2>1. PICK u \in Nat : u = Units[r]
    BY OperationsAreFinite
  <2>2. PICK o \in Nat : o = Outstanding(Newer(i))
    BY OpenRowsAreFinite
  <2>3. PICK l \in Nat : l = Left[i] /\ l = Remaining(movements[i])
    BY OpenRowsAreFinite
  <2>4. Draw(r)[i] = Max({0, Min({Units[r] - Outstanding(Newer(i)), Remaining(movements[i])})})
    BY <1>2 DEF Draw, Newer
  <2>5. Draw(r)[i] = Max({0, Min({u - o, l})})
    BY <2>1, <2>2, <2>3, <2>4
  <2>6. Min({u - o, l}) = IF u - o <= l THEN u - o ELSE l
    BY <2>1, <2>2, <2>3, MinOfTwo
  <2>7. PICK n \in Int : n = Min({u - o, l})
    BY <2>6
  <2>8. Max({0, n}) = IF 0 >= n THEN 0 ELSE n
    BY MaxOfTwo
  <2>9. Draw(r)[i] = IF 0 >= n THEN 0 ELSE n
    BY <2>5, <2>7, <2>8
  <2>10. n = IF u - o <= l THEN u - o ELSE l
    BY <2>6, <2>7
  <2>11. Draw(r)[i] = IF u <= o THEN 0 ELSE IF u <= o + l THEN u - o ELSE l
    BY <2>9, <2>10
  <2> QED BY <1>2, <2>1, <2>2, <2>3, <2>11
<1> QED BY <1>1, <1>2

\* The rows newer than the k-th give what they have, or all that is asked for.
LEMMA DrawsAddUp ==
  ASSUME LedgerSound, NEW r \in Returns, NEW k \in 0 .. Len(movements)
  PROVE  SumFunctionOnSet(Draw(r), Newer(k)) =
           IF Units[r] <= Outstanding(Newer(k)) THEN Units[r] ELSE Outstanding(Newer(k))
<1> DEFINE u == Units[r]
           last == Len(movements)
           Sum(S) == SumFunctionOnSet(Draw(r), S)
           Good(j) == Sum(Newer(j)) = IF u <= Outstanding(Newer(j)) THEN u ELSE Outstanding(Newer(j))
           G == {n \in Nat : n <= last => Good(last - n)}
<1>1. u \in Nat \ {0} /\ last \in Nat /\ DOMAIN movements = 1 .. last
  BY OperationsAreFinite, LedgerRows DEF LedgerSound
<1>2. 0 \in G
  <2>1. Newer(last) = {}
    BY <1>1, OpenRowsAreFinite DEF Newer
  <2>2. Sum(Newer(last)) = 0 /\ Outstanding(Newer(last)) = 0
    BY <2>1, SumOfNone DEF Outstanding
  <2>3. Good(last)
    BY <1>1, <2>2
  <2> QED BY <1>1, <2>3
<1>3. ASSUME NEW n \in Nat, n \in G PROVE n + 1 \in G
  <2> SUFFICES ASSUME n + 1 <= last PROVE Good(last - (n + 1))
    BY <1>3
  <2>1. PICK i \in DOMAIN movements : i = last - n /\ i - 1 = last - (n + 1)
    BY <1>1, <1>3
  <2>2. Good(i)
    BY <1>1, <1>3, <2>1
  <2>3. CASE i \notin OpenRows
    <3>1. Newer(i - 1) = Newer(i)
      BY <1>1, <2>3, OpenRowsAreFinite DEF Newer
    <3>2. Sum(Newer(i - 1)) = Sum(Newer(i)) /\ Outstanding(Newer(i - 1)) = Outstanding(Newer(i))
      BY <3>1
    <3>3. Good(i - 1)
      BY <2>2, <3>2
    <3> QED BY <2>1, <3>3
  <2>4. CASE i \in OpenRows
    <3>1. Newer(i - 1) = Newer(i) \cup {i} /\ i \notin Newer(i)
      BY <1>1, <2>4, OpenRowsAreFinite DEF Newer
    <3>2. /\ IsFiniteSet(Newer(i))
          /\ \A j \in Newer(i) : Left[j] \in Int /\ Draw(r)[j] \in Int
          /\ Left[i] \in Nat /\ Draw(r)[i] \in Nat
      <4>1. \A j \in Newer(i) : j \in DOMAIN movements
        BY OpenRowsAreFinite DEF Newer
      <4> QED BY <4>1, OpenRowsAreFinite, DrawOfOne
    <3>3. Outstanding(Newer(i) \cup {i}) = Outstanding(Newer(i)) + Left[i]
      BY <3>1, <3>2, SumExtends DEF Outstanding
    <3>4. Sum(Newer(i) \cup {i}) = Sum(Newer(i)) + Draw(r)[i]
      BY <3>1, <3>2, SumExtends
    <3>5. PICK o \in Nat : o = Outstanding(Newer(i))
      BY OpenRowsAreFinite
    <3>6. PICK l \in Nat : l = Left[i]
      BY <3>2
    <3>7. Draw(r)[i] = IF u <= o THEN 0 ELSE IF u <= o + l THEN u - o ELSE l
      BY <2>4, <3>5, <3>6, DrawOfOne
    <3>8. Sum(Newer(i)) = IF u <= o THEN u ELSE o
      BY <2>2, <3>5
    <3>9. Sum(Newer(i)) + Draw(r)[i] = IF u <= o + l THEN u ELSE o + l
      BY <1>1, <3>7, <3>8
    <3>10. Sum(Newer(i - 1)) = IF u <= o + l THEN u ELSE o + l
      BY <3>1, <3>4, <3>9
    <3>11. Outstanding(Newer(i - 1)) = o + l
      BY <3>1, <3>3, <3>5, <3>6
    <3>12. Good(i - 1)
      BY <3>10, <3>11
    <3> QED BY <2>1, <3>12
  <2> QED BY <2>3, <2>4
<1>4. Nat \subseteq G
  <2> HIDE DEF G
  <2> QED BY <1>2, <1>3, NatSetInduction
<1>5. last - k \in Nat /\ last - k <= last /\ last - (last - k) = k
  BY <1>1
<1>6. Good(k)
  <2>1. last - k \in G
    BY <1>4, <1>5
  <2>2. Good(last - (last - k))
    BY <1>5, <2>1
  <2> QED BY <1>5, <2>2
<1> QED BY <1>6

\* A line that the open consumptions cover is drawn in full.
LEMMA DrawIsWhole ==
  ASSUME LedgerSound, NEW r \in Returns, Units[r] <= Outstanding(OpenRows)
  PROVE  /\ SumFunctionOnSet(Draw(r), OpenRows) = Units[r]
         /\ \E i \in OpenRows : Draw(r)[i] > 0
<1>1. Newer(0) = OpenRows
  BY OpenRowsAreFinite, LedgerRows DEF Newer, LedgerSound
<1>2. SumFunctionOnSet(Draw(r), Newer(0)) = Units[r]
  <2>1. 0 \in 0 .. Len(movements)
    BY LedgerRows DEF LedgerSound
  <2>2. Units[r] <= Outstanding(Newer(0))
    BY <1>1
  <2> QED BY <2>1, <2>2, DrawsAddUp
<1>3. SumFunctionOnSet(Draw(r), OpenRows) = Units[r]
  BY <1>1, <1>2
<1>4. ASSUME \A i \in OpenRows : ~(Draw(r)[i] > 0) PROVE FALSE
  <2>1. \A i \in OpenRows : Draw(r)[i] = 0
    BY <1>4, DrawOfOne, OpenRowsAreFinite
  <2>2. SumFunctionOnSet(Draw(r), OpenRows) = 0
    BY <2>1, OpenRowsAreFinite, SumOfZeros
  <2> QED BY <1>3, <2>2, OperationsAreFinite
<1> QED BY <1>3, <1>4

LEMMA RestoreKeepsUnits ==
  ASSUME LedgerSound, NEW r \in Returns, Returned(r, Draw(r))
  PROVE  LedgerSound' /\ RowsGive(r, Draw(r))
<1>1. DOMAIN Draw(r) = DOMAIN movements
  BY DEF Draw
<1>2. \A i \in DOMAIN movements : Draw(r)[i] \in Nat /\ Draw(r)[i] <= Left[i]
  BY DrawOfOne
<1> QED BY <1>1, <1>2, OperationsAreFinite, ReturnedKeepsUnits

-------------------------------------------------------------------------------
(* What a step does to the rows, to the claims and to the ledger. *)

\* A step that waits for its turn: any but an undo.
InLine(i) == outbox[i].kind # "UNDO_CONSUMPTION"

\* The turn of a row has come: what was recorded before it in line is done.
Reached(i) == \A j \in DOMAIN outbox : j < i /\ InLine(j) => outbox[j].status = "DONE"

\* A row whose effect a claim has had, or that is done.
Finished(i) ==
  outbox[i].status = "DONE" \/ \E k \in Workers : worker[k].at = "applied" /\ worker[k].step = i

Is(i, kind, op) == outbox[i].kind = kind /\ outbox[i].operation = op

\* A row is about what it was recorded about, and one in line is done only
\* after a claim has had its effect.
RowsKept ==
  /\ outbox' \in Seq(StepRow) /\ DOMAIN outbox \subseteq DOMAIN outbox'
  /\ \A i \in DOMAIN outbox :
       /\ outbox'[i].kind = outbox[i].kind /\ outbox'[i].operation = outbox[i].operation
       /\ outbox[i].status = "DONE" => outbox'[i].status = "DONE"
       /\ outbox'[i].status = "DONE" /\ InLine(i) => Finished(i)

RowAdded(kind, op) ==
  \E n \in Nat :
    /\ n \notin DOMAIN outbox /\ DOMAIN outbox' = DOMAIN outbox \cup {n}
    /\ \A j \in DOMAIN outbox : j < n
    /\ outbox'[n].kind = kind /\ outbox'[n].operation = op /\ outbox'[n].status # "DONE"

WorkerShape ==
  \E C : worker \in [Workers -> [at : WorkerAt, step : Nat, attempts : Nat, candidates : C]]

\* Claims move on, end or begin; only those of K have an effect in line or read
\* what to write off.
ClaimsGoOn(K) ==
  /\ WorkerShape'
  /\ \A k \in Workers :
       /\ worker'[k].at = "idle" => worker'[k].step = 0
       /\ worker'[k].at # "idle" =>
            \/ worker[k].at # "idle" /\ worker'[k].step = worker[k].step
            \/ /\ worker'[k].at = "claimed" /\ worker'[k].step \in DOMAIN outbox
               /\ InLine(worker'[k].step) => Reached(worker'[k].step)
       /\ k \notin K =>
            /\ worker'[k].candidates = worker[k].candidates \/ worker'[k].candidates = << >>
            /\ worker'[k].at = "applied" /\ InLine(worker'[k].step) => worker[k].at = "applied"
            /\ worker'[k].at = "reading" /\ outbox[worker'[k].step].kind = "WRITE_OFF" =>
                 worker[k].at = "reading" /\ worker'[k].candidates = worker[k].candidates

RowsAreNamed ==
  \A i \in DOMAIN outbox :
    /\ outbox[i].kind \in {"UNDO_CONSUMPTION", "CONFIRM_CONSUMPTION"} => outbox[i].operation \in Withdrawals
    /\ outbox[i].kind = "RESTORE" => outbox[i].operation \in Returns

ClaimsAreSound ==
  \A k \in Workers :
    /\ worker[k].at = "idle" => worker[k].step = 0
    /\ worker[k].at # "idle" => worker[k].step \in DOMAIN outbox
    /\ \A i \in DOMAIN worker[k].candidates :
         i \in DOMAIN movements /\ worker[k].candidates[i] \in Nat

\* What a withdrawal read of the work order holds as long as its version does.
VersionsTell ==
  \A w \in Withdrawals : request[w].at \in {"loaded", "armed", "consumed"} =>
    /\ request[w].withdrawn + Units[w] <= Planned
    /\ request[w].version <= wo.version
    /\ request[w].version = wo.version =>
         wo.status = "IN_EXECUTION" /\ wo.withdrawn = request[w].withdrawn

\* Past its reading, a withdrawal has armed its step until it is done.
ArmedFirst ==
  \A w \in Withdrawals :
    request[w].at \notin {"idle", "loaded", "done"} => UndoRows(outbox, w) # {}

Statuses == {"IN_EXECUTION", "COMPLETED", "DELIVERED", "CANCELED"}

Base ==
  /\ LedgerSound
  /\ outbox \in Seq(StepRow) /\ RowsAreNamed
  /\ WorkerShape /\ ClaimsAreSound
  /\ wo \in [status : Statuses, withdrawn : 0 .. Planned, version : Nat]
  /\ request \in [Withdrawals -> [at : RequestAt, version : Nat, withdrawn : Nat]]
  /\ VersionsTell /\ ArmedFirst
  /\ faults \in 0 .. MaxFaults

-------------------------------------------------------------------------------
(* The kinds of step, each with what it leaves alone. *)

\* Nothing moves in inventory, and no step is recorded but an undo.
Rests ==
  /\ UNCHANGED ledgerVars
  /\ \/ wo' = wo
     \/ wo.status = "IN_EXECUTION" /\ wo'.status = "COMPLETED" /\ wo'.withdrawn = wo.withdrawn
  /\ RowsKept
  /\ DOMAIN outbox' = DOMAIN outbox \/ \E w \in Withdrawals : RowAdded("UNDO_CONSUMPTION", w)
  /\ ClaimsGoOn({})
  /\ \A w \in Withdrawals : request'[w].at = "consumed" => request[w].at = "consumed"

Consumes(w) ==
  /\ Consume(w) /\ request[w].at = "armed"
  /\ \A v \in Withdrawals \ {w} : request'[v] = request[v]
  /\ UNCHANGED <<wo, outbox, worker>>

SavesWithdrawal(w) ==
  /\ request[w].at = "consumed" /\ IsArmed(outbox, w) /\ wo.version = request[w].version
  /\ wo'.withdrawn = request[w].withdrawn + Units[w] /\ wo'.status = wo.status
  /\ RowsKept /\ RowAdded("CONFIRM_CONSUMPTION", w)
  /\ request'[w].at # "consumed" /\ \A v \in Withdrawals \ {w} : request'[v] = request[v]
  /\ UNCHANGED <<quantityOnHand, movements, worker>>

\* By the request that compensates, or by a claim of its undo step.
Undoes(w) ==
  /\ UndoConsumption(w)
  /\ \/ request[w].at = "returning"
     \/ \E k \in Workers : /\ worker[k].at # "idle" /\ StepOf(k).kind = "UNDO_CONSUMPTION"
                           /\ StepOf(k).operation = w
  /\ ClaimsGoOn({})
  /\ \A v \in Withdrawals : request'[v].at = "consumed" => request[v].at = "consumed"
  /\ UNCHANGED <<wo, outbox>>

RecordsReturn(r) ==
  /\ wo.status = "IN_EXECUTION" /\ wo.withdrawn >= Units[r] /\ ~Recorded("RESTORE", r)
  /\ wo'.withdrawn = wo.withdrawn - Units[r] /\ wo'.status = wo.status
  /\ RowsKept /\ RowAdded("RESTORE", r)
  /\ UNCHANGED <<quantityOnHand, movements, worker, request>>

RecordsClosing ==
  /\ wo'.withdrawn = wo.withdrawn
  /\ RowsKept
  /\ \/ wo.status = "COMPLETED" /\ wo'.status = "DELIVERED" /\ RowAdded("SETTLE", "visit")
     \/ wo.status = "IN_EXECUTION" /\ wo'.status = "CANCELED" /\ RowAdded("WRITE_OFF", "visit")
  /\ UNCHANGED <<quantityOnHand, movements, worker, request>>

\* The claim of k has the effect of its step.
Has(k, kind) ==
  /\ worker[k].at # "idle" /\ StepOf(k).kind = kind
  /\ worker'[k].at \in {"applied", "failed"}
  /\ ClaimsGoOn({k}) /\ worker'[k].candidates = << >>
  /\ UNCHANGED <<wo, outbox, request>>

Confirms(k) == Has(k, "CONFIRM_CONSUMPTION") /\ ConfirmConsumption(StepOf(k).operation)
Restores(k) == Has(k, "RESTORE") /\ Restore(StepOf(k).operation)
Settles(k) == Has(k, "SETTLE") /\ Settle
WritesOff(k) ==
  Has(k, "WRITE_OFF") /\ worker[k].at = "reading" /\ WriteOff(worker[k].candidates)

ReadsToWriteOff(k) ==
  /\ worker[k].at # "idle" /\ StepOf(k).kind = "WRITE_OFF"
  /\ worker'[k].at = "reading" /\ worker'[k].candidates = WriteOffCandidates
  /\ ClaimsGoOn({k})
  /\ UNCHANGED <<quantityOnHand, movements, wo, outbox, request>>

Stepping ==
  \/ Rests \/ RecordsClosing
  \/ \E w \in Withdrawals : Consumes(w) \/ SavesWithdrawal(w) \/ Undoes(w)
  \/ \E r \in Returns : RecordsReturn(r)
  \/ \E k \in Workers :
       Confirms(k) \/ Restores(k) \/ Settles(k) \/ ReadsToWriteOff(k) \/ WritesOff(k)

-------------------------------------------------------------------------------
(* What the statements of the outbox do. *)

LEMMA Rows ==
  ASSUME outbox \in Seq(StepRow)
  PROVE  /\ Len(outbox) \in Nat /\ DOMAIN outbox = 1 .. Len(outbox) /\ DOMAIN outbox \subseteq Nat
         /\ outbox \in [1 .. Len(outbox) -> StepRow]
         /\ \A i \in DOMAIN outbox : outbox[i] \in StepRow
<1>1. Len(outbox) \in Nat /\ DOMAIN outbox = 1 .. Len(outbox)
      /\ outbox \in [1 .. Len(outbox) -> StepRow]
  BY SeqFunction
<1> QED BY <1>1

LEMMA SameRows ==
  ASSUME outbox \in Seq(StepRow), outbox' = outbox
  PROVE  RowsKept /\ DOMAIN outbox' = DOMAIN outbox
  BY DEF RowsKept, Finished

LEMMA RowIsSet ==
  ASSUME outbox \in Seq(StepRow), NEW i \in DOMAIN outbox, NEW row \in StepRow,
         row.kind = outbox[i].kind, row.operation = outbox[i].operation,
         outbox[i].status = "DONE" => row.status = "DONE",
         row.status = "DONE" => Finished(i) \/ ~InLine(i),
         outbox' = [outbox EXCEPT ![i] = row]
  PROVE  RowsKept /\ DOMAIN outbox' = DOMAIN outbox
<1>1. Len(outbox) \in Nat /\ DOMAIN outbox = 1 .. Len(outbox)
      /\ outbox \in [1 .. Len(outbox) -> StepRow]
  BY Rows
<1>2. outbox' \in [1 .. Len(outbox) -> StepRow]
  BY <1>1
<1>3. outbox' \in Seq(StepRow) /\ DOMAIN outbox' = DOMAIN outbox
  BY <1>1, <1>2, FunctionSeq
<1>4. outbox'[i] = row /\ \A j \in DOMAIN outbox \ {i} : outbox'[j] = outbox[j]
  BY <1>1
<1> QED BY <1>3, <1>4 DEF RowsKept, Finished

LEMMA RowCloses ==
  ASSUME outbox \in Seq(StepRow), NEW i \in DOMAIN outbox, Finished(i) \/ ~InLine(i),
         outbox' = Closed(outbox, i)
  PROVE  RowsKept /\ DOMAIN outbox' = DOMAIN outbox
<1>1. CASE outbox[i].status \in Unclosed
  <2>1. outbox[i] \in StepRow
    BY Rows
  <2> DEFINE row == [outbox[i] EXCEPT !.status = "DONE"]
  <2>2. /\ row \in StepRow /\ row.status = "DONE"
        /\ row.kind = outbox[i].kind /\ row.operation = outbox[i].operation
    BY <2>1 DEF StepRow, StepStatus
  <2>3. outbox' = [outbox EXCEPT ![i] = row]
    BY <1>1 DEF Closed
  <2> HIDE DEF row
  <2> QED BY <2>2, <2>3, RowIsSet
<1>2. CASE outbox[i].status \notin Unclosed
  BY <1>2, SameRows DEF Closed
<1> QED BY <1>1, <1>2

\* A row that stays open, or is set back.
LEMMA RowStaysOpen ==
  ASSUME outbox \in Seq(StepRow), NEW i \in DOMAIN outbox, outbox[i].status # "DONE",
         NEW status \in {"ARMED", "PENDING", "FAILED"}, NEW due \in BOOLEAN, NEW attempts \in Nat,
         outbox' = [outbox EXCEPT ![i] = [@ EXCEPT !.status = status, !.due = due,
                                                   !.attempts = attempts]]
  PROVE  RowsKept /\ DOMAIN outbox' = DOMAIN outbox
<1>1. outbox[i] \in StepRow
  BY Rows
<1> DEFINE row == [outbox[i] EXCEPT !.status = status, !.due = due, !.attempts = attempts]
<1>2. /\ row \in StepRow /\ row.status # "DONE"
      /\ row.kind = outbox[i].kind /\ row.operation = outbox[i].operation
  BY <1>1 DEF StepRow, StepStatus
<1>3. outbox' = [outbox EXCEPT ![i] = row]
  OBVIOUS
<1> HIDE DEF row
<1> QED BY <1>2, <1>3, RowIsSet

LEMMA RowIsClaimed ==
  ASSUME outbox \in Seq(StepRow), NEW i \in DOMAIN outbox, Claimable(outbox, i),
         outbox' = Claimed(outbox, i)
  PROVE  RowsKept /\ DOMAIN outbox' = DOMAIN outbox
<1>1. outbox[i].attempts \in Nat /\ outbox[i].status # "DONE"
  BY Rows DEF StepRow, Claimable, Unclosed
<1>2. PICK attempts \in Nat : attempts = outbox[i].attempts + 1
  BY <1>1
<1>3. outbox' = [outbox EXCEPT ![i] = [@ EXCEPT !.status = "PENDING", !.due = FALSE,
                                                !.attempts = attempts]]
  BY <1>2, Rows DEF Claimed, StepRow
<1> QED BY <1>1, <1>3, RowStaysOpen

LEMMA RowFails ==
  ASSUME outbox \in Seq(StepRow), NEW i \in DOMAIN outbox, NEW exhausted,
         outbox' = Failed(outbox, i, exhausted)
  PROVE  RowsKept /\ DOMAIN outbox' = DOMAIN outbox
<1>1. outbox[i] \in StepRow
  BY Rows
<1>2. CASE outbox[i].status \notin Unclosed
  BY <1>2, SameRows DEF Failed
<1>3. CASE outbox[i].status \in Unclosed
  <2> DEFINE row == IF exhausted THEN [outbox[i] EXCEPT !.status = "FAILED"]
                    ELSE [outbox[i] EXCEPT !.due = TRUE]
  <2>1. /\ row \in StepRow /\ row.status # "DONE"
        /\ row.kind = outbox[i].kind /\ row.operation = outbox[i].operation
    BY <1>1, <1>3 DEF StepRow, StepStatus, Unclosed
  <2>2. outbox' = [outbox EXCEPT ![i] = row]
    BY <1>3 DEF Failed
  <2>3. outbox[i].status # "DONE"
    BY <1>3 DEF Unclosed
  <2> HIDE DEF row
  <2> QED BY <2>1, <2>2, <2>3, RowIsSet
<1> QED BY <1>2, <1>3

LEMMA RowIsDue ==
  ASSUME outbox \in Seq(StepRow), NEW i \in DOMAIN outbox,
         outbox' = [outbox EXCEPT ![i].due = TRUE]
  PROVE  RowsKept /\ DOMAIN outbox' = DOMAIN outbox
<1>1. outbox[i] \in StepRow
  BY Rows
<1> DEFINE row == [outbox[i] EXCEPT !.due = TRUE]
<1>2. /\ row \in StepRow /\ row.status = outbox[i].status
      /\ row.kind = outbox[i].kind /\ row.operation = outbox[i].operation
  BY <1>1 DEF StepRow
<1>3. outbox' = [outbox EXCEPT ![i] = row]
  OBVIOUS
<1>4. row.status = "DONE" => Finished(i)
  BY <1>2 DEF Finished
<1> HIDE DEF row
<1> QED BY <1>2, <1>3, <1>4, RowIsSet

LEMMA RowIsReleased ==
  ASSUME outbox \in Seq(StepRow), NEW w, outbox' = Released(outbox, w)
  PROVE  RowsKept /\ DOMAIN outbox' = DOMAIN outbox
<1>1. /\ Len(outbox) \in Nat /\ DOMAIN outbox = 1 .. Len(outbox)
      /\ \A i \in DOMAIN outbox : outbox[i] \in StepRow
  BY Rows
<1>2. \A i \in DOMAIN outbox :
        /\ outbox'[i] \in StepRow /\ outbox'[i].kind = outbox[i].kind
        /\ outbox'[i].operation = outbox[i].operation
        /\ outbox'[i].status = "DONE" <=> outbox[i].status = "DONE"
  BY <1>1 DEF Released, StepRow, StepStatus
<1>3. outbox' \in [1 .. Len(outbox) -> StepRow]
  BY <1>1, <1>2 DEF Released
<1>4. outbox' \in Seq(StepRow) /\ DOMAIN outbox' = DOMAIN outbox
  BY <1>1, <1>3, FunctionSeq
<1> QED BY <1>2, <1>4 DEF RowsKept, Finished

LEMMA RowIsAdded ==
  ASSUME outbox \in Seq(StepRow), NEW kind \in StepKind, NEW op \in Operations \cup {"visit"},
         NEW status \in {"ARMED", "PENDING"}, NEW due \in BOOLEAN,
         outbox' = Append(outbox, Row(kind, op, status, due))
  PROVE  RowsKept /\ RowAdded(kind, op)
<1> DEFINE row == Row(kind, op, status, due)
           n == Len(outbox) + 1
<1>1. /\ row \in StepRow /\ row.kind = kind /\ row.operation = op /\ row.status # "DONE"
  BY DEF Row, StepRow, StepStatus
<1>2. Len(outbox) \in Nat /\ DOMAIN outbox = 1 .. Len(outbox)
  BY Rows
<1> HIDE DEF row
<1>3. /\ outbox' \in Seq(StepRow) /\ DOMAIN outbox' = DOMAIN outbox \cup {n}
      /\ outbox'[n] = row /\ n \notin DOMAIN outbox
      /\ \A i \in DOMAIN outbox : outbox'[i] = outbox[i]
  BY <1>1, Appended DEF row
<1>4. n \in Nat /\ \A j \in DOMAIN outbox : j < n
  BY <1>2
<1> HIDE DEF n
<1>5. RowsKept
  BY <1>3 DEF RowsKept, Finished
<1>6. RowAdded(kind, op)
  BY <1>1, <1>3, <1>4 DEF RowAdded
<1> QED BY <1>5, <1>6

\* The disarming of a step that an operation armed, and a row after it.
LEMMA RowClosesAndIsAdded ==
  ASSUME outbox \in Seq(StepRow), NEW w \in Withdrawals, UndoRows(outbox, w) # {},
         outbox' = Enqueued(Disarmed(outbox, w), "CONFIRM_CONSUMPTION", w)
  PROVE  RowsKept /\ RowAdded("CONFIRM_CONSUMPTION", w)
<1>1. PICK i \in UndoRows(outbox, w) : i = CHOOSE j \in UndoRows(outbox, w) : TRUE
  OBVIOUS
<1>2. i \in DOMAIN outbox /\ outbox[i].kind = "UNDO_CONSUMPTION"
  BY DEF UndoRows
<1> DEFINE closed == Closed(outbox, i)
           row == Row("CONFIRM_CONSUMPTION", w, "PENDING", TRUE)
           n == Len(closed) + 1
<1>3. outbox' = Append(closed, row)
  BY <1>1 DEF Enqueued, Disarmed
<1>4. /\ closed \in Seq(StepRow) /\ DOMAIN closed = DOMAIN outbox
      /\ \A j \in DOMAIN outbox :
           /\ closed[j].kind = outbox[j].kind /\ closed[j].operation = outbox[j].operation
           /\ outbox[j].status = "DONE" => closed[j].status = "DONE"
           /\ j # i => closed[j] = outbox[j]
  <2>1. /\ Len(outbox) \in Nat /\ DOMAIN outbox = 1 .. Len(outbox)
        /\ outbox \in [1 .. Len(outbox) -> StepRow] /\ outbox[i] \in StepRow
    BY <1>2, Rows
  <2>2. CASE outbox[i].status \in Unclosed
    <3> DEFINE done == [outbox[i] EXCEPT !.status = "DONE"]
    <3>1. /\ done \in StepRow /\ done.status = "DONE"
          /\ done.kind = outbox[i].kind /\ done.operation = outbox[i].operation
      BY <2>1 DEF StepRow, StepStatus
    <3>2. closed = [outbox EXCEPT ![i] = done]
      BY <2>2 DEF Closed
    <3> HIDE DEF done, closed
    <3>3. closed \in [1 .. Len(outbox) -> StepRow]
      BY <2>1, <3>1, <3>2
    <3>4. closed \in Seq(StepRow) /\ DOMAIN closed = DOMAIN outbox
      BY <2>1, <3>3, FunctionSeq
    <3>5. closed[i] = done /\ \A j \in DOMAIN outbox \ {i} : closed[j] = outbox[j]
      BY <1>2, <2>1, <3>2
    <3> QED BY <3>1, <3>4, <3>5
  <2>3. CASE outbox[i].status \notin Unclosed
    BY <2>3 DEF Closed
  <2> QED BY <2>2, <2>3
<1>5. row \in StepRow /\ row.kind = "CONFIRM_CONSUMPTION" /\ row.operation = w /\ row.status # "DONE"
  BY DEF Row, StepRow, StepKind, StepStatus, Operations
<1> HIDE DEF closed, row
<1>6. /\ outbox' \in Seq(StepRow) /\ DOMAIN outbox' = DOMAIN outbox \cup {n}
      /\ outbox'[n] = row /\ n \notin DOMAIN outbox
      /\ \A j \in DOMAIN outbox : outbox'[j] = closed[j]
  <2>1. /\ outbox' \in Seq(StepRow) /\ DOMAIN outbox' = DOMAIN closed \cup {Len(closed) + 1}
        /\ outbox'[Len(closed) + 1] = row /\ Len(closed) + 1 \notin DOMAIN closed
        /\ \A j \in DOMAIN closed : outbox'[j] = closed[j]
    <3>1. PICK c \in Seq(StepRow), e \in StepRow : c = closed /\ e = row
      BY <1>4, <1>5
    <3>2. outbox' = Append(c, e)
      BY <1>3, <3>1
    <3>3. /\ Append(c, e) \in Seq(StepRow) /\ DOMAIN Append(c, e) = DOMAIN c \cup {Len(c) + 1}
          /\ Append(c, e)[Len(c) + 1] = e /\ Len(c) + 1 \notin DOMAIN c
          /\ \A j \in DOMAIN c : Append(c, e)[j] = c[j]
      BY Appended
    <3> QED BY <3>1, <3>2, <3>3
  <2> QED BY <1>4, <2>1
<1>7. n \in Nat /\ \A j \in DOMAIN outbox : j < n
  BY <1>4, SeqFunction
<1> HIDE DEF n
<1>8. RowsKept
  BY <1>2, <1>4, <1>6 DEF RowsKept, Finished, InLine
<1>9. RowAdded("CONFIRM_CONSUMPTION", w)
  BY <1>5, <1>6, <1>7 DEF RowAdded
<1> QED BY <1>8, <1>9

-------------------------------------------------------------------------------
(* What the workers do to their claims. *)

LEMMA ClaimIsSet ==
  ASSUME WorkerShape, NEW k \in Workers, NEW at \in WorkerAt, NEW step \in Nat,
         NEW attempts \in Nat, NEW candidates,
         worker' = [worker EXCEPT ![k] = [at |-> at, step |-> step, attempts |-> attempts,
                                          candidates |-> candidates]]
  PROVE  /\ WorkerShape' /\ \A j \in Workers \ {k} : worker'[j] = worker[j]
         /\ worker'[k].at = at /\ worker'[k].step = step /\ worker'[k].candidates = candidates
<1>1. PICK C : worker \in [Workers -> [at : WorkerAt, step : Nat, attempts : Nat, candidates : C]]
  BY DEF WorkerShape
<1> DEFINE D == C \cup {candidates}
<1>2. /\ worker' \in [Workers -> [at : WorkerAt, step : Nat, attempts : Nat, candidates : D]]
      /\ worker'[k] = [at |-> at, step |-> step, attempts |-> attempts, candidates |-> candidates]
      /\ \A j \in Workers \ {k} : worker'[j] = worker[j]
  BY <1>1
<1> HIDE DEF D
<1> QED BY <1>2 DEF WorkerShape

\* A claim keeps its step and its attempts.
LEMMA ClaimMoves ==
  ASSUME WorkerShape, NEW k \in Workers, NEW at \in WorkerAt, NEW candidates,
         worker' = [worker EXCEPT ![k].at = at, ![k].candidates = candidates]
  PROVE  /\ WorkerShape' /\ \A j \in Workers \ {k} : worker'[j] = worker[j]
         /\ worker'[k].at = at /\ worker'[k].step = worker[k].step
         /\ worker'[k].candidates = candidates
<1>1. PICK C : worker \in [Workers -> [at : WorkerAt, step : Nat, attempts : Nat, candidates : C]]
  BY DEF WorkerShape
<1> DEFINE D == C \cup {candidates}
<1>2. /\ worker' \in [Workers -> [at : WorkerAt, step : Nat, attempts : Nat, candidates : D]]
      /\ worker'[k].at = at /\ worker'[k].step = worker[k].step
      /\ worker'[k].candidates = candidates
      /\ \A j \in Workers \ {k} : worker'[j] = worker[j]
  BY <1>1
<1> HIDE DEF D
<1> QED BY <1>2 DEF WorkerShape

\* One claim changes.
LEMMA OneClaimGoesOn ==
  ASSUME ClaimsAreSound, WorkerShape', NEW k \in Workers, NEW K,
         \A j \in Workers \ {k} : worker'[j] = worker[j],
         worker'[k].at = "idle" => worker'[k].step = 0,
         worker'[k].at # "idle" =>
            \/ worker[k].at # "idle" /\ worker'[k].step = worker[k].step
            \/ /\ worker'[k].at = "claimed" /\ worker'[k].step \in DOMAIN outbox
               /\ InLine(worker'[k].step) => Reached(worker'[k].step),
         k \notin K =>
            /\ worker'[k].candidates = worker[k].candidates \/ worker'[k].candidates = << >>
            /\ worker'[k].at = "applied" /\ InLine(worker'[k].step) => worker[k].at = "applied"
            /\ worker'[k].at = "reading" /\ outbox[worker'[k].step].kind = "WRITE_OFF" =>
                 worker[k].at = "reading" /\ worker'[k].candidates = worker[k].candidates
  PROVE  ClaimsGoOn(K)
<1>1. ASSUME NEW j \in Workers \ {k}
      PROVE  /\ worker'[j] = worker[j] /\ (worker[j].at = "idle" => worker[j].step = 0)
  BY DEF ClaimsAreSound
<1> QED BY <1>1 DEF ClaimsGoOn

LEMMA SameClaims ==
  ASSUME Base, worker' = worker
  PROVE  ClaimsGoOn({})
  BY DEF Base, WorkerShape, ClaimsAreSound, ClaimsGoOn

LEMMA ClaimHasEffect ==
  ASSUME Base, NEW k \in Workers, worker[k].at # "idle", NEW to \in {"applied", "failed"},
         MovesTo(k, to)
  PROVE  /\ ClaimsGoOn({k}) /\ worker'[k].at = to /\ worker'[k].candidates = << >>
         /\ to = "failed" \/ ~InLine(worker[k].step) => ClaimsGoOn({})
<1>1. WorkerShape /\ ClaimsAreSound /\ to \in WorkerAt
  BY DEF Base, WorkerAt
<1>2. PICK none : none = << >>
  OBVIOUS
<1>3. worker' = [worker EXCEPT ![k].at = to, ![k].candidates = none]
  BY <1>2 DEF MovesTo
<1>4. WorkerShape' /\ worker'[k].at = to
  BY <1>1, <1>3, ClaimMoves
<1>5. worker'[k].step = worker[k].step /\ worker'[k].candidates = none
  <2>1. PICK C : worker \in [Workers -> [at : WorkerAt, step : Nat, attempts : Nat, candidates : C]]
    BY <1>1 DEF WorkerShape
  <2> QED BY <1>3, <2>1
<1>6. \A j \in Workers \ {k} : worker'[j] = worker[j]
  BY <1>1, <1>3, ClaimMoves
<1> QED BY <1>1, <1>2, <1>4, <1>5, <1>6, OneClaimGoesOn

LEMMA ClaimReadsUndo ==
  ASSUME Base, NEW k \in Workers, worker[k].at # "idle", NEW to \in WorkerAt, to # "idle",
         WorkGoes(k, to), StepOf(k).kind = "UNDO_CONSUMPTION"
  PROVE  ClaimsGoOn({})
<1>1. WorkerShape /\ ClaimsAreSound
  BY DEF Base
<1>2. PICK C : worker \in [Workers -> [at : WorkerAt, step : Nat, attempts : Nat, candidates : C]]
  BY <1>1 DEF WorkerShape
<1>3. worker' = [worker EXCEPT ![k].at = to, ![k].candidates = worker[k].candidates]
  BY <1>2 DEF WorkGoes
<1>4. PICK candidates : candidates = worker[k].candidates
  OBVIOUS
<1>5. /\ WorkerShape' /\ \A j \in Workers \ {k} : worker'[j] = worker[j]
      /\ worker'[k].at = to /\ worker'[k].step = worker[k].step
      /\ worker'[k].candidates = candidates
  BY <1>1, <1>3, <1>4, ClaimMoves
<1>6. ~InLine(worker[k].step) /\ outbox[worker[k].step].kind # "WRITE_OFF"
  BY DEF StepOf, InLine
<1> QED BY <1>1, <1>4, <1>5, <1>6, OneClaimGoesOn

LEMMA ClaimIsReleased ==
  ASSUME Base, NEW k \in Workers, Release(k)
  PROVE  ClaimsGoOn({})
<1>1. WorkerShape /\ ClaimsAreSound
  BY DEF Base
<1>2. /\ WorkerShape' /\ \A j \in Workers \ {k} : worker'[j] = worker[j]
      /\ worker'[k].at = "idle" /\ worker'[k].step = 0 /\ worker'[k].candidates = << >>
  BY <1>1, ClaimIsSet DEF Release, NoClaim, WorkerAt
<1> QED BY <1>1, <1>2, OneClaimGoesOn

-------------------------------------------------------------------------------
(* Every step is of one of the kinds. *)

LEMMA RestingStep ==
  ASSUME Base, UNCHANGED <<ledgerVars, wo>>, RowsKept, DOMAIN outbox' = DOMAIN outbox,
         ClaimsGoOn({}),
         \A w \in Withdrawals : request'[w].at = "consumed" => request[w].at = "consumed"
  PROVE  Rests
  BY DEF Rests

\* A request that goes on.
LEMMA RequestGoes ==
  ASSUME Base, NEW w \in Withdrawals, NEW from, NEW to \in RequestAt, Goes(w, from, to)
  PROVE  /\ request[w].at = from
         /\ request' \in [Withdrawals -> [at : RequestAt, version : Nat, withdrawn : Nat]]
         /\ request'[w].at = to /\ request'[w].version = request[w].version
         /\ request'[w].withdrawn = request[w].withdrawn
         /\ \A v \in Withdrawals \ {w} : request'[v] = request[v]
  BY DEF Base, Goes

LEMMA WithdrawalSteps ==
  ASSUME Base, NEW w \in Withdrawals,
         Load(w) \/ Arm(w) \/ ConsumeStock(w) \/ Commit(w) \/ CompensationReads(w)
           \/ CompensationReturns(w) \/ CompensationCompletes(w) \/ HandToProcessor(w)
           \/ CompensationFails(w) \/ RequestStops(w)
  PROVE  Rests \/ Consumes(w) \/ SavesWithdrawal(w) \/ Undoes(w)
<1>1. outbox \in Seq(StepRow) /\ request \in [Withdrawals -> [at : RequestAt, version : Nat, withdrawn : Nat]]
  BY DEF Base
<1>2. {"idle", "loaded", "armed", "consumed", "undoing", "returning", "undone", "failed", "done"}
        \subseteq RequestAt
  BY DEF RequestAt
<1>3. CASE Load(w)
  <2>1. UNCHANGED <<ledgerVars, wo, outbox, worker>>
    BY <1>3 DEF Load
  <2>2. \A v \in Withdrawals : request'[v].at = "consumed" => request[v].at = "consumed"
    BY <1>1, <1>3 DEF Load
  <2> QED BY <1>1, <2>1, <2>2, SameRows, SameClaims, RestingStep
<1>4. CASE Arm(w)
  <2>1. UNCHANGED <<ledgerVars, wo, worker>> /\ outbox' = Armed(outbox, w) /\ Goes(w, "loaded", "armed")
    BY <1>4 DEF Arm
  <2>2. \A v \in Withdrawals : request'[v].at = "consumed" => request[v].at = "consumed"
    BY <1>2, <2>1, RequestGoes
  <2>3. RowsKept /\ RowAdded("UNDO_CONSUMPTION", w)
    BY <1>1, <2>1, OperationsAreFinite, RowIsAdded DEF Armed, StepKind
  <2> QED BY <2>1, <2>2, <2>3, SameClaims DEF Rests
<1>5. CASE ConsumeStock(w)
  <2>1. UNCHANGED <<wo, outbox, worker>>
    BY <1>5 DEF ConsumeStock
  <2>2. PICK to \in {"consumed", "undoing"} :
          Goes(w, "armed", to) /\ (Consume(w) \/ (UNCHANGED ledgerVars /\ to = "undoing"))
    BY <1>5 DEF ConsumeStock
  <2>3. /\ request[w].at = "armed" /\ request'[w].at = to
        /\ \A v \in Withdrawals \ {w} : request'[v] = request[v]
    BY <1>2, <2>2, RequestGoes
  <2>4. CASE Consume(w)
    BY <2>1, <2>3, <2>4 DEF Consumes
  <2>5. CASE UNCHANGED ledgerVars /\ to = "undoing"
    <3>1. \A v \in Withdrawals : request'[v].at = "consumed" => request[v].at = "consumed"
      BY <2>3, <2>5
    <3> QED BY <1>1, <2>1, <2>5, <3>1, SameRows, SameClaims, RestingStep
  <2> QED BY <2>2, <2>4, <2>5
<1>6. CASE Commit(w)
  <2>1. UNCHANGED <<ledgerVars, worker>>
    BY <1>6 DEF Commit
  <2>2. PICK to \in {"undoing", "done"} :
          Goes(w, "consumed", to) /\ (SaveWithdrawal(w) \/ UNCHANGED <<wo, outbox>>)
    BY <1>6 DEF Commit
  <2>3. /\ request[w].at = "consumed" /\ request'[w].at = to
        /\ \A v \in Withdrawals \ {w} : request'[v] = request[v]
    BY <1>2, <2>2, RequestGoes
  <2>4. CASE SaveWithdrawal(w)
    <3>1. UndoRows(outbox, w) # {}
      BY <2>4 DEF SaveWithdrawal, IsArmed
    <3>2. RowsKept /\ RowAdded("CONFIRM_CONSUMPTION", w)
      BY <1>1, <2>4, <3>1, RowClosesAndIsAdded DEF SaveWithdrawal
    <3>3. /\ wo'.withdrawn = request[w].withdrawn + Units[w] /\ wo'.status = wo.status
          /\ IsArmed(outbox, w) /\ wo.version = request[w].version
      BY <2>4 DEF SaveWithdrawal, Base
    <3> QED BY <2>1, <2>3, <3>2, <3>3 DEF SavesWithdrawal, ledgerVars
  <2>5. CASE UNCHANGED <<wo, outbox>>
    <3>1. \A v \in Withdrawals : request'[v].at = "consumed" => request[v].at = "consumed"
      BY <2>3
    <3> QED BY <1>1, <2>1, <2>5, <3>1, SameRows, SameClaims, RestingStep
  <2> QED BY <2>2, <2>4, <2>5
<1>7. CASE CompensationReads(w) \/ CompensationFails(w) \/ RequestStops(w)
  <2>1. UNCHANGED <<ledgerVars, wo, outbox, worker>>
    BY <1>7 DEF CompensationReads, CompensationFails, RequestStops
  <2>2. \A v \in Withdrawals : request'[v].at = "consumed" => request[v].at = "consumed"
    BY <1>1, <1>7 DEF CompensationReads, CompensationFails, RequestStops, Goes
  <2> QED BY <1>1, <2>1, <2>2, SameRows, SameClaims, RestingStep
<1>8. CASE CompensationReturns(w)
  <2>1. UNCHANGED <<wo, outbox, worker>> /\ UndoConsumption(w)
    BY <1>8 DEF CompensationReturns
  <2>2. PICK to \in {"undone", "failed"} : Goes(w, "returning", to)
    BY <1>8 DEF CompensationReturns
  <2>3. request[w].at = "returning" /\ \A v \in Withdrawals : request'[v].at = "consumed" => request[v].at = "consumed"
    BY <1>2, <2>2, RequestGoes
  <2> QED BY <2>1, <2>3, SameClaims DEF Undoes
<1>9. CASE CompensationCompletes(w)
  <2>1. UNCHANGED <<ledgerVars, wo, worker>> /\ outbox' = Disarmed(outbox, w) /\ Goes(w, "undone", "done")
    BY <1>9 DEF CompensationCompletes
  <2>2. request[w].at = "undone" /\ \A v \in Withdrawals : request'[v].at = "consumed" => request[v].at = "consumed"
    BY <1>2, <2>1, RequestGoes
  <2>3. UndoRows(outbox, w) # {}
    BY <2>2 DEF Base, ArmedFirst
  <2>4. PICK i \in UndoRows(outbox, w) : i = CHOOSE j \in UndoRows(outbox, w) : TRUE
    BY <2>3
  <2>5. i \in DOMAIN outbox /\ ~InLine(i) /\ outbox' = Closed(outbox, i)
    BY <2>1, <2>4 DEF UndoRows, InLine, Disarmed
  <2>6. RowsKept /\ DOMAIN outbox' = DOMAIN outbox
    BY <1>1, <2>5, RowCloses
  <2> QED BY <2>1, <2>2, <2>6, SameClaims, RestingStep
<1>10. CASE HandToProcessor(w)
  <2>1. /\ UNCHANGED <<ledgerVars, wo, worker>> /\ Goes(w, "failed", "done")
        /\ outbox' = outbox \/ outbox' = Released(outbox, w)
    BY <1>10 DEF HandToProcessor
  <2>2. \A v \in Withdrawals : request'[v].at = "consumed" => request[v].at = "consumed"
    BY <1>2, <2>1, RequestGoes
  <2>3. RowsKept /\ DOMAIN outbox' = DOMAIN outbox
    BY <1>1, <2>1, SameRows, RowIsReleased
  <2> QED BY <2>1, <2>2, <2>3, SameClaims, RestingStep
<1> QED BY <1>3, <1>4, <1>5, <1>6, <1>7, <1>8, <1>9, <1>10

LEMMA SavingSteps ==
  ASSUME Base,
         (\E r \in Returns : ReturnParts(r)) \/ CompleteWorkOrder \/ DeliverVehicle \/ CancelWorkOrder
  PROVE  Rests \/ RecordsClosing \/ \E r \in Returns : RecordsReturn(r)
<1>1. outbox \in Seq(StepRow) /\ {"RESTORE", "SETTLE", "WRITE_OFF"} \subseteq StepKind
  BY DEF Base, StepKind
<1>2. ASSUME NEW r \in Returns, ReturnParts(r) PROVE RecordsReturn(r)
  <2>1. RowsKept /\ RowAdded("RESTORE", r)
    BY <1>1, <1>2, OperationsAreFinite, RowIsAdded DEF ReturnParts, Enqueued
  <2>2. ~Recorded("RESTORE", r)
    BY <1>2 DEF ReturnParts, Recorded
  <2> QED BY <1>2, <2>1, <2>2 DEF ReturnParts, Saves, RecordsReturn, ledgerVars
<1>3. CASE CompleteWorkOrder
  <2>1. UNCHANGED <<ledgerVars, outbox, worker, request>>
    BY <1>3 DEF CompleteWorkOrder, Saves
  <2>2. wo.status = "IN_EXECUTION" /\ wo'.status = "COMPLETED" /\ wo'.withdrawn = wo.withdrawn
    BY <1>3 DEF CompleteWorkOrder, Saves
  <2> QED BY <1>1, <2>1, <2>2, SameRows, SameClaims DEF Rests
<1>4. CASE DeliverVehicle
  <2>1. RowsKept /\ RowAdded("SETTLE", "visit")
    BY <1>1, <1>4, RowIsAdded DEF DeliverVehicle, Enqueued
  <2> QED BY <1>4, <2>1 DEF DeliverVehicle, Saves, RecordsClosing, ledgerVars
<1>5. CASE CancelWorkOrder
  <2>1. RowsKept /\ RowAdded("WRITE_OFF", "visit")
    BY <1>1, <1>5, RowIsAdded DEF CancelWorkOrder, Enqueued
  <2> QED BY <1>5, <2>1 DEF CancelWorkOrder, Saves, RecordsClosing, ledgerVars
<1> QED BY <1>2, <1>3, <1>4, <1>5

\* A claimable step has its turn.
LEMMA ClaimableIsReached ==
  ASSUME outbox \in Seq(StepRow), NEW i \in DOMAIN outbox, Claimable(outbox, i), InLine(i)
  PROVE  Reached(i)
<1>1. DOMAIN outbox \subseteq Nat /\ i \in Nat /\ DOMAIN outbox = 1 .. Len(outbox)
  BY Rows
<1> SUFFICES ASSUME NEW j \in DOMAIN outbox, j < i, InLine(j) PROVE outbox[j].status = "DONE"
  BY DEF Reached
<1>2. j \in 1 .. i - 1
  BY <1>1, Rows
<1> QED BY <1>2 DEF Claimable, InLine

LEMMA ClaimingStep ==
  ASSUME Base, NEW k \in Workers, Claim(k)
  PROVE  Rests
<1>1. outbox \in Seq(StepRow) /\ WorkerShape /\ ClaimsAreSound
  BY DEF Base
<1>2. PICK i \in DOMAIN outbox :
        /\ Claimable(outbox, i) /\ outbox' = Claimed(outbox, i)
        /\ worker' = [worker EXCEPT ![k] =
             [at |-> "claimed", step |-> i, attempts |-> outbox[i].attempts + 1,
              candidates |-> << >>]]
  BY DEF Claim
<1>3. RowsKept /\ DOMAIN outbox' = DOMAIN outbox
  BY <1>1, <1>2, RowIsClaimed
<1>4. /\ WorkerShape' /\ \A j \in Workers \ {k} : worker'[j] = worker[j]
      /\ worker'[k].at = "claimed" /\ worker'[k].step = i /\ worker'[k].candidates = << >>
  <2>1. PICK C : worker \in [Workers -> [at : WorkerAt, step : Nat, attempts : Nat, candidates : C]]
    BY <1>1 DEF WorkerShape
  <2> DEFINE D == C \cup {<< >>}
  <2>2. i \in Nat /\ outbox[i].attempts + 1 \in Nat
    BY <1>1, Rows DEF StepRow
  <2>3. /\ worker' \in [Workers -> [at : WorkerAt, step : Nat, attempts : Nat, candidates : D]]
        /\ worker'[k].at = "claimed" /\ worker'[k].step = i /\ worker'[k].candidates = << >>
        /\ \A j \in Workers \ {k} : worker'[j] = worker[j]
    BY <1>2, <2>1, <2>2 DEF WorkerAt
  <2> HIDE DEF D
  <2> QED BY <2>3 DEF WorkerShape
<1>5. InLine(i) => Reached(i)
  BY <1>1, <1>2, ClaimableIsReached
<1>6. ClaimsGoOn({})
  BY <1>1, <1>4, <1>5, OneClaimGoesOn
<1>7. UNCHANGED <<ledgerVars, wo, request>>
  BY DEF Claim
<1> QED BY <1>3, <1>6, <1>7, RestingStep

LEMMA ClaimEndingSteps ==
  ASSUME Base, NEW k \in Workers, WorkFails(k) \/ CompleteStep(k) \/ Fail(k) \/ WorkerStops(k)
  PROVE  Rests
<1>1. UNCHANGED <<ledgerVars, wo, request>> /\ worker[k].at # "idle"
  BY DEF WorkFails, CompleteStep, Fail, WorkerStops
<1>2. outbox \in Seq(StepRow) /\ worker[k].step \in DOMAIN outbox
  BY <1>1 DEF Base, ClaimsAreSound
<1>3. PICK i \in DOMAIN outbox : i = worker[k].step
  BY <1>2
<1>4. CASE WorkFails(k)
  <2>1. MovesTo(k, "failed") /\ outbox' = outbox
    BY <1>4 DEF WorkFails
  <2>2. ClaimsGoOn({})
    BY <1>1, <2>1, ClaimHasEffect
  <2> QED BY <1>1, <1>2, <2>1, <2>2, SameRows, RestingStep
<1>5. CASE CompleteStep(k)
  <2>1. outbox' = Closed(outbox, i) /\ Release(k) /\ Finished(i)
    BY <1>3, <1>5 DEF CompleteStep, Completed, Finished
  <2> QED BY <1>1, <1>2, <2>1, RowCloses, ClaimIsReleased, RestingStep
<1>6. CASE Fail(k)
  <2>1. PICK exhausted : outbox' = Failed(outbox, i, exhausted)
    BY <1>3, <1>6 DEF Fail
  <2>2. Release(k)
    BY <1>6 DEF Fail
  <2> QED BY <1>1, <1>2, <2>1, <2>2, RowFails, ClaimIsReleased, RestingStep
<1>7. CASE WorkerStops(k)
  <2>1. Release(k) /\ outbox' = outbox
    BY <1>7 DEF WorkerStops
  <2> QED BY <1>1, <1>2, <2>1, SameRows, ClaimIsReleased, RestingStep
<1> QED BY <1>4, <1>5, <1>6, <1>7

LEMMA EffectSteps ==
  ASSUME Base, NEW k \in Workers, NEW to \in {"applied", "failed"}, Effect(k), MovesTo(k, to),
         UNCHANGED <<wo, outbox, request>>
  PROVE  \/ \E w \in Withdrawals : Undoes(w)
         \/ Confirms(k) \/ Restores(k) \/ Settles(k) \/ WritesOff(k)
<1>1. worker[k].at # "idle"
  BY DEF Effect
<1>2. /\ ClaimsGoOn({k}) /\ worker'[k].at = to /\ worker'[k].candidates = << >>
      /\ ~InLine(worker[k].step) => ClaimsGoOn({})
  BY <1>1, ClaimHasEffect
<1>3. RowsAreNamed /\ worker[k].step \in DOMAIN outbox /\ StepOf(k) = outbox[worker[k].step]
  BY <1>1 DEF Base, ClaimsAreSound, StepOf
<1>4. ASSUME NEW kind, StepOf(k).kind = kind PROVE Has(k, kind)
  BY <1>1, <1>2, <1>4 DEF Has
<1>5. CASE StepOf(k).kind = "UNDO_CONSUMPTION" /\ UndoConsumption(StepOf(k).operation)
  <2>1. StepOf(k).operation \in Withdrawals /\ ~InLine(worker[k].step)
    BY <1>3, <1>5 DEF RowsAreNamed, InLine
  <2>2. ClaimsGoOn({})
    BY <1>2, <2>1
  <2>3. Undoes(StepOf(k).operation)
    BY <1>1, <1>5, <2>2 DEF Undoes
  <2> QED BY <2>1, <2>3
<1>6. CASE StepOf(k).kind = "WRITE_OFF" /\ worker[k].at = "reading" /\ WriteOff(worker[k].candidates)
  BY <1>4, <1>6 DEF WritesOff
<1>7. CASE StepOf(k).kind = "CONFIRM_CONSUMPTION" /\ ConfirmConsumption(StepOf(k).operation)
  BY <1>4, <1>7 DEF Confirms
<1>8. CASE StepOf(k).kind = "RESTORE" /\ Restore(StepOf(k).operation)
  BY <1>4, <1>8 DEF Restores
<1>9. CASE StepOf(k).kind = "SETTLE" /\ Settle
  BY <1>4, <1>9 DEF Settles
<1> QED BY <1>5, <1>6, <1>7, <1>8, <1>9 DEF Effect

LEMMA ReadingStep ==
  ASSUME Base, NEW k \in Workers, ReadsWriteOff(k), UNCHANGED <<wo, outbox, request>>
  PROVE  ReadsToWriteOff(k)
<1>1. /\ worker[k].at # "idle" /\ StepOf(k).kind = "WRITE_OFF" /\ UNCHANGED ledgerVars
      /\ worker' = [worker EXCEPT ![k].at = "reading", ![k].candidates = WriteOffCandidates]
  BY DEF ReadsWriteOff
<1>2. WorkerShape /\ ClaimsAreSound
  BY DEF Base
<1>3. PICK candidates : candidates = WriteOffCandidates
  OBVIOUS
<1>4. /\ WorkerShape' /\ \A j \in Workers \ {k} : worker'[j] = worker[j]
      /\ worker'[k].at = "reading" /\ worker'[k].step = worker[k].step
      /\ worker'[k].candidates = candidates
  <2>1. PICK C : worker \in [Workers -> [at : WorkerAt, step : Nat, attempts : Nat, candidates : C]]
    BY <1>2 DEF WorkerShape
  <2> DEFINE D == C \cup {candidates}
  <2>2. /\ worker' \in [Workers -> [at : WorkerAt, step : Nat, attempts : Nat, candidates : D]]
        /\ worker'[k].at = "reading" /\ worker'[k].step = worker[k].step
        /\ worker'[k].candidates = candidates
        /\ \A j \in Workers \ {k} : worker'[j] = worker[j]
    BY <1>1, <1>3, <2>1 DEF WorkerAt
  <2> HIDE DEF D
  <2> QED BY <2>2 DEF WorkerShape
<1>5. ClaimsGoOn({k})
  BY <1>1, <1>2, <1>4, OneClaimGoesOn
<1> QED BY <1>1, <1>3, <1>4, <1>5 DEF ReadsToWriteOff, ledgerVars

LEMMA ApplySteps ==
  ASSUME Base, NEW k \in Workers, Apply(k)
  PROVE  \/ Rests \/ \E w \in Withdrawals : Undoes(w)
         \/ Confirms(k) \/ Restores(k) \/ Settles(k) \/ ReadsToWriteOff(k) \/ WritesOff(k)
<1>1. UNCHANGED <<wo, outbox, request>> /\ outbox \in Seq(StepRow)
  BY DEF Apply, Base
<1>2. CASE ReadsUndo(k)
  <2>1. PICK to \in {"applied", "reading"} : WorkGoes(k, to)
    BY <1>2 DEF ReadsUndo
  <2>2. /\ to \in WorkerAt /\ to # "idle" /\ worker[k].at # "idle" /\ UNCHANGED ledgerVars
        /\ StepOf(k).kind = "UNDO_CONSUMPTION"
    BY <1>2 DEF ReadsUndo, WorkerAt
  <2>3. ClaimsGoOn({})
    BY <2>1, <2>2, ClaimReadsUndo
  <2> QED BY <1>1, <2>2, <2>3, SameRows, RestingStep
<1>3. CASE ReadsWriteOff(k)
  BY <1>1, <1>3, ReadingStep
<1>4. CASE Effect(k) /\ (MovesTo(k, "applied") \/ MovesTo(k, "failed"))
  <2>1. PICK to \in {"applied", "failed"} : MovesTo(k, to)
    BY <1>4
  <2> QED BY <1>1, <1>4, <2>1, EffectSteps
<1>5. CASE Refused(k) /\ MovesTo(k, "failed") /\ UNCHANGED ledgerVars
  <2>1. worker[k].at # "idle"
    BY <1>5 DEF Refused
  <2>2. ClaimsGoOn({})
    BY <1>5, <2>1, ClaimHasEffect
  <2> QED BY <1>1, <1>5, <2>2, SameRows, RestingStep
<1> QED BY <1>2, <1>3, <1>4, <1>5 DEF Apply

LEMMA TimeSteps ==
  ASSUME Base, TimePasses \/ TimeOutruns \/ OperatorRetries
  PROVE  Rests
<1>1. UNCHANGED <<ledgerVars, wo, request, worker>> /\ outbox \in Seq(StepRow)
  BY DEF TimePasses, TimeOutruns, OperatorRetries, FallsDue, Base
<1>2. CASE TimePasses \/ TimeOutruns
  <2>1. PICK i \in DOMAIN outbox : outbox' = [outbox EXCEPT ![i].due = TRUE]
    BY <1>2 DEF TimePasses, TimeOutruns, FallsDue
  <2>2. RowsKept /\ DOMAIN outbox' = DOMAIN outbox
    BY <1>1, <2>1, RowIsDue
  <2> QED BY <1>1, <2>2, SameClaims, RestingStep
<1>3. CASE OperatorRetries
  <2>1. PICK i \in DOMAIN outbox :
          /\ outbox[i].status = "FAILED"
          /\ outbox' = [outbox EXCEPT ![i].status = "PENDING", ![i].due = TRUE]
    BY <1>3 DEF OperatorRetries
  <2>2. PICK attempts \in Nat : attempts = outbox[i].attempts /\ outbox[i] \in StepRow
    BY <1>1, Rows DEF StepRow
  <2>3. outbox' = [outbox EXCEPT ![i] = [@ EXCEPT !.status = "PENDING", !.due = TRUE,
                                                  !.attempts = attempts]]
    BY <2>1, <2>2 DEF StepRow
  <2>4. RowsKept /\ DOMAIN outbox' = DOMAIN outbox
    BY <1>1, <2>1, <2>3, RowStaysOpen, ZenonT(60)
  <2> QED BY <1>1, <2>4, SameClaims, RestingStep
<1> QED BY <1>2, <1>3

LEMMA Classified ==
  ASSUME Base, [Next]_vars
  PROVE  Stepping
<1>1. ASSUME NEW w \in Withdrawals,
             Load(w) \/ Withdraw(w) \/ CompensationFails(w) \/ RequestStops(w)
      PROVE  Stepping
  BY <1>1, WithdrawalSteps DEF Withdraw, Stepping
<1>2. CASE (\E r \in Returns : ReturnParts(r)) \/ CompleteWorkOrder \/ DeliverVehicle \/ CancelWorkOrder
  BY <1>2, SavingSteps DEF Stepping
<1>3. ASSUME NEW k \in Workers, Work(k) \/ WorkFails(k) \/ WorkerStops(k)
      PROVE  Stepping
  BY <1>3, ClaimingStep, ApplySteps, ClaimEndingSteps DEF Work, Stepping
<1>4. CASE TimePasses \/ TimeOutruns \/ OperatorRetries
  BY <1>4, TimeSteps DEF Stepping
<1>5. CASE UNCHANGED vars
  <2>1. UNCHANGED <<ledgerVars, wo, outbox, request, worker>> /\ outbox \in Seq(StepRow)
    BY <1>5 DEF vars, ledgerVars, Base
  <2> QED BY <2>1, SameRows, SameClaims, RestingStep DEF Stepping
<1> QED BY <1>1, <1>2, <1>3, <1>4, <1>5 DEF Next

-------------------------------------------------------------------------------
(* What every step keeps. *)

\* Rows keep what they are about and what is left of them.
RowsRemain ==
  /\ DOMAIN movements' = DOMAIN movements
  /\ \A i \in DOMAIN movements :
       /\ movements'[i].operation = movements[i].operation
       /\ movements'[i].quantity = movements[i].quantity
       /\ movements'[i].returned = movements[i].returned
       /\ Left'[i] = Left[i]

LEMMA ConfirmKeepsUnits ==
  ASSUME LedgerSound, NEW w, ConfirmConsumption(w)
  PROVE  /\ LedgerSound' /\ RowsRemain
         /\ \A i \in DOMAIN movements :
              /\ movements'[i].status = movements[i].status
              /\ movements'[i].lost = movements[i].lost
              /\ movements'[i].confirmed <=> movements[i].confirmed \/ i \in OfOperation(w)
<1>1. \A i \in DOMAIN movements : movements[i] \in Consumption
  BY LedgerRows DEF LedgerSound
<1>2. \A i \in DOMAIN movements :
        /\ movements'[i] \in Consumption
        /\ movements'[i].operation = movements[i].operation
        /\ movements'[i].quantity = movements[i].quantity
        /\ movements'[i].returned = movements[i].returned
        /\ movements'[i].status = movements[i].status
        /\ movements'[i].lost = movements[i].lost
        /\ movements'[i].confirmed <=> movements[i].confirmed \/ i \in OfOperation(w)
  BY <1>1 DEF ConfirmConsumption, Consumption
<1>3. /\ UNCHANGED quantityOnHand /\ DOMAIN movements' = DOMAIN movements
      /\ movements' = [i \in DOMAIN movements |-> movements'[i]]
  BY DEF ConfirmConsumption
<1>4. LedgerSound' /\ \A i \in DOMAIN movements : Left'[i] = Left[i]
  BY <1>2, <1>3, ColumnsKeepUnits
<1> QED BY <1>2, <1>3, <1>4 DEF RowsRemain

LEMMA SettleKeepsUnits ==
  ASSUME LedgerSound, Settle
  PROVE  /\ LedgerSound' /\ RowsRemain
         /\ \A i \in DOMAIN movements :
              /\ movements'[i].confirmed = movements[i].confirmed
              /\ movements'[i].lost = movements[i].lost
              /\ movements'[i].status = IF Open(movements[i]) THEN "SETTLED" ELSE movements[i].status
<1>1. \A i \in DOMAIN movements : movements[i] \in Consumption
  BY LedgerRows DEF LedgerSound
<1>2. \A i \in DOMAIN movements :
        /\ movements'[i] \in Consumption
        /\ movements'[i].operation = movements[i].operation
        /\ movements'[i].quantity = movements[i].quantity
        /\ movements'[i].returned = movements[i].returned
        /\ movements'[i].confirmed = movements[i].confirmed
        /\ movements'[i].lost = movements[i].lost
        /\ movements'[i].status = IF Open(movements[i]) THEN "SETTLED" ELSE movements[i].status
  BY <1>1 DEF Settle, OpenRows, Consumption, MovementStatus
<1>3. /\ UNCHANGED quantityOnHand /\ DOMAIN movements' = DOMAIN movements
      /\ movements' = [i \in DOMAIN movements |-> movements'[i]]
  BY DEF Settle
<1>4. LedgerSound' /\ \A i \in DOMAIN movements : Left'[i] = Left[i]
  BY <1>2, <1>3, ColumnsKeepUnits
<1> QED BY <1>2, <1>3, <1>4 DEF RowsRemain

LEMMA WriteOffKeepsUnits ==
  ASSUME LedgerSound, NEW candidates, WriteOff(candidates),
         \A i \in DOMAIN candidates : candidates[i] \in Nat
  PROVE  /\ LedgerSound' /\ RowsRemain
         /\ \A i \in DOMAIN movements :
              /\ movements'[i].confirmed = movements[i].confirmed
              /\ IF i \in DOMAIN candidates /\ movements[i].status = "PENDING"
                 THEN /\ movements'[i].status = "WRITTEN_OFF"
                      /\ movements'[i].lost = movements[i].lost + candidates[i]
                 ELSE /\ movements'[i].status = movements[i].status
                      /\ movements'[i].lost = movements[i].lost
<1>1. \A i \in DOMAIN movements : movements[i] \in Consumption
  BY LedgerRows DEF LedgerSound
<1>2. ASSUME NEW i \in DOMAIN movements
      PROVE  /\ movements'[i] \in Consumption
             /\ movements'[i].operation = movements[i].operation
             /\ movements'[i].quantity = movements[i].quantity
             /\ movements'[i].returned = movements[i].returned
             /\ movements'[i].confirmed = movements[i].confirmed
             /\ IF i \in DOMAIN candidates /\ movements[i].status = "PENDING"
                THEN /\ movements'[i].status = "WRITTEN_OFF"
                     /\ movements'[i].lost = movements[i].lost + candidates[i]
                ELSE /\ movements'[i].status = movements[i].status
                     /\ movements'[i].lost = movements[i].lost
  <2>1. PICK m \in Consumption : m = movements[i]
    BY <1>1
  <2>2. CASE i \in DOMAIN candidates /\ movements[i].status = "PENDING"
    <3>1. m.lost + candidates[i] \in Nat
      BY <2>2 DEF Consumption
    <3>2. movements'[i] = [m EXCEPT !.status = "WRITTEN_OFF", !.lost = m.lost + candidates[i]]
      BY <2>1, <2>2 DEF WriteOff
    <3> QED BY <2>1, <2>2, <3>1, <3>2 DEF Consumption, MovementStatus
  <2>3. CASE ~(i \in DOMAIN candidates /\ movements[i].status = "PENDING")
    BY <2>1, <2>3 DEF WriteOff
  <2> QED BY <2>2, <2>3
<1>3. /\ UNCHANGED quantityOnHand /\ DOMAIN movements' = DOMAIN movements
      /\ movements' = [i \in DOMAIN movements |-> movements'[i]]
  BY DEF WriteOff
<1>4. LedgerSound' /\ \A i \in DOMAIN movements : Left'[i] = Left[i]
  BY <1>2, <1>3, ColumnsKeepUnits
<1> QED BY <1>2, <1>3, <1>4 DEF RowsRemain

LEMMA CandidatesAreWhole ==
  ASSUME LedgerSound
  PROVE  \A i \in DOMAIN WriteOffCandidates :
           /\ i \in OpenRows /\ i \in DOMAIN movements
           /\ WriteOffCandidates[i] = Left[i] /\ WriteOffCandidates[i] \in Nat
  BY OpenRowsAreFinite DEF WriteOffCandidates

LEMMA LedgerStaysSound ==
  ASSUME Base, Stepping
  PROVE  LedgerSound' /\ DOMAIN movements \subseteq DOMAIN movements'
<1>1. LedgerSound /\ ClaimsAreSound /\ RowsAreNamed
  BY DEF Base
<1>2. CASE UNCHANGED ledgerVars
  BY <1>1, <1>2 DEF ledgerVars, LedgerSound, UnitsAreConserved, Outstanding, Left
<1>3. ASSUME NEW w \in Withdrawals, Consumes(w)
      PROVE  LedgerSound' /\ DOMAIN movements \subseteq DOMAIN movements'
  BY <1>1, <1>3, ConsumeKeepsUnits DEF Consumes
<1>4. ASSUME NEW w \in Withdrawals, Undoes(w)
      PROVE  LedgerSound' /\ DOMAIN movements \subseteq DOMAIN movements'
  BY <1>1, <1>4, UndoKeepsUnits, OperationsAreFinite DEF Undoes, RowsGive
<1>5. ASSUME NEW k \in Workers, Confirms(k) \/ Settles(k) \/ WritesOff(k)
      PROVE  LedgerSound' /\ DOMAIN movements \subseteq DOMAIN movements'
  <2>1. CASE Confirms(k)
    BY <1>1, <2>1, ConfirmKeepsUnits DEF Confirms, RowsRemain
  <2>2. CASE Settles(k)
    BY <1>1, <2>2, SettleKeepsUnits DEF Settles, RowsRemain
  <2>3. CASE WritesOff(k)
    <3>1. PICK candidates : candidates = worker[k].candidates
      OBVIOUS
    <3>2. WriteOff(candidates) /\ \A i \in DOMAIN candidates : candidates[i] \in Nat
      BY <1>1, <2>3, <3>1 DEF WritesOff, ClaimsAreSound
    <3>3. LedgerSound' /\ RowsRemain
      BY <1>1, <3>2, WriteOffKeepsUnits
    <3> QED BY <3>3 DEF RowsRemain
  <2> QED BY <1>5, <2>1, <2>2, <2>3
<1>6. ASSUME NEW k \in Workers, Restores(k)
      PROVE  LedgerSound' /\ DOMAIN movements \subseteq DOMAIN movements'
  <2>1. PICK r \in Returns : r = StepOf(k).operation /\ Restore(r)
    BY <1>1, <1>6 DEF Restores, Has, ClaimsAreSound, RowsAreNamed, StepOf
  <2>2. CASE Returned(r, Draw(r))
    BY <1>1, <2>2, RestoreKeepsUnits DEF RowsGive
  <2> QED BY <1>2, <2>1, <2>2 DEF Restore
<1> QED BY <1>2, <1>3, <1>4, <1>5, <1>6
        DEF Stepping, Rests, RecordsClosing, SavesWithdrawal, RecordsReturn, ReadsToWriteOff, ledgerVars

LEMMA RowsGoOn ==
  ASSUME Base, Stepping
  PROVE  RowsKept /\ RowsAreNamed'
<1>1. outbox \in Seq(StepRow) /\ RowsAreNamed
  BY DEF Base
<1>2. CASE outbox' = outbox
  <2>1. RowsKept
    BY <1>1, <1>2, SameRows
  <2> QED BY <1>1, <1>2, <2>1 DEF RowsAreNamed
<1>3. ASSUME RowsKept, DOMAIN outbox' = DOMAIN outbox
      PROVE  RowsAreNamed'
  BY <1>1, <1>3 DEF RowsAreNamed, RowsKept
<1>4. ASSUME RowsKept, NEW kind, NEW op, RowAdded(kind, op),
             kind \in {"UNDO_CONSUMPTION", "CONFIRM_CONSUMPTION"} => op \in Withdrawals,
             kind = "RESTORE" => op \in Returns
      PROVE  RowsAreNamed'
  BY <1>1, <1>4 DEF RowsAreNamed, RowsKept, RowAdded
<1>5. CASE Rests
  BY <1>3, <1>4, <1>5 DEF Rests
<1>6. CASE RecordsClosing
  <2>1. RowsKept /\ (RowAdded("SETTLE", "visit") \/ RowAdded("WRITE_OFF", "visit"))
    BY <1>6 DEF RecordsClosing
  <2> QED BY <1>4, <2>1
<1>7. ASSUME NEW w \in Withdrawals, SavesWithdrawal(w) PROVE RowsKept /\ RowsAreNamed'
  <2>1. RowsKept /\ RowAdded("CONFIRM_CONSUMPTION", w)
    BY <1>7 DEF SavesWithdrawal
  <2> QED BY <1>4, <2>1
<1>8. ASSUME NEW r \in Returns, RecordsReturn(r) PROVE RowsKept /\ RowsAreNamed'
  <2>1. RowsKept /\ RowAdded("RESTORE", r)
    BY <1>8 DEF RecordsReturn
  <2> QED BY <1>4, <2>1
<1> QED BY <1>2, <1>5, <1>6, <1>7, <1>8
        DEF Stepping, Consumes, Undoes, Confirms, Restores, Settles, WritesOff, Has, ReadsToWriteOff

LEMMA ClaimsStaySound ==
  ASSUME Base, Stepping
  PROVE  WorkerShape' /\ ClaimsAreSound'
<1>1. LedgerSound /\ ClaimsAreSound /\ DOMAIN movements \subseteq DOMAIN movements'
  BY LedgerStaysSound DEF Base
<1>2. DOMAIN outbox \subseteq DOMAIN outbox'
  BY RowsGoOn DEF RowsKept
<1>3. ASSUME NEW K \in SUBSET Workers, ClaimsGoOn(K),
             \A k \in K : \A i \in DOMAIN worker'[k].candidates :
               i \in DOMAIN movements' /\ worker'[k].candidates[i] \in Nat
      PROVE  WorkerShape' /\ ClaimsAreSound'
  <2>1. WorkerShape'
    BY <1>3 DEF ClaimsGoOn
  <2>2. ASSUME NEW k \in Workers
        PROVE  /\ worker'[k].at = "idle" => worker'[k].step = 0
               /\ worker'[k].at # "idle" => worker'[k].step \in DOMAIN outbox'
    BY <1>1, <1>2, <1>3 DEF ClaimsGoOn, ClaimsAreSound
  <2>3. ASSUME NEW k \in Workers, NEW i \in DOMAIN worker'[k].candidates
        PROVE  i \in DOMAIN movements' /\ worker'[k].candidates[i] \in Nat
    <3>1. CASE k \in K
      BY <1>3, <3>1
    <3>2. CASE k \notin K
      <4>1. worker'[k].candidates = worker[k].candidates \/ worker'[k].candidates = << >>
        BY <1>3, <3>2 DEF ClaimsGoOn
      <4>2. DOMAIN << >> = {}
        OBVIOUS
      <4> QED BY <1>1, <4>1, <4>2 DEF ClaimsAreSound
    <3> QED BY <3>1, <3>2
  <2> QED BY <2>1, <2>2, <2>3 DEF ClaimsAreSound
<1>4. CASE ClaimsGoOn({})
  BY <1>3, <1>4
<1>5. ASSUME NEW k \in Workers, ClaimsGoOn({k}), worker'[k].candidates = << >>
      PROVE  WorkerShape' /\ ClaimsAreSound'
  <2>1. \A i \in DOMAIN worker'[k].candidates : FALSE
    BY <1>5
  <2> QED BY <1>3, <1>5, <2>1
<1>6. ASSUME NEW k \in Workers, ReadsToWriteOff(k)
      PROVE  WorkerShape' /\ ClaimsAreSound'
  <2>1. \A i \in DOMAIN worker'[k].candidates :
          i \in DOMAIN movements' /\ worker'[k].candidates[i] \in Nat
    BY <1>1, <1>6, CandidatesAreWhole DEF ReadsToWriteOff
  <2> QED BY <1>3, <1>6, <2>1 DEF ReadsToWriteOff
<1>7. CASE worker' = worker
  BY <1>4, <1>7, SameClaims
<1> QED BY <1>4, <1>5, <1>6, <1>7
        DEF Stepping, Rests, RecordsClosing, Consumes, SavesWithdrawal, Undoes, RecordsReturn,
            Confirms, Restores, Settles, WritesOff, Has

WoType == wo \in [status : Statuses, withdrawn : 0 .. Planned, version : Nat]
RequestType == request \in [Withdrawals -> [at : RequestAt, version : Nat, withdrawn : Nat]]

\* A save of the work order moves its version on, which outdates what was read.
LEMMA SavesOutdate ==
  ASSUME Base, WoType', RequestType',
         \A w \in Withdrawals : request'[w].at \in {"loaded", "armed", "consumed"} =>
           request'[w] = request[w],
         wo'.version = wo.version + 1
  PROVE  VersionsTell'
<1>1. VersionsTell /\ WoType /\ RequestType
  BY DEF Base, WoType, RequestType
<1>2. ASSUME NEW w \in Withdrawals, request'[w].at \in {"loaded", "armed", "consumed"}
      PROVE  /\ request'[w].withdrawn + Units[w] <= Planned
             /\ request'[w].version <= wo'.version /\ request'[w].version # wo'.version
  <2>1. request'[w] = request[w]
    BY <1>2
  <2>2. /\ request[w].withdrawn + Units[w] <= Planned /\ request[w].version <= wo.version
        /\ request[w].version \in Nat /\ wo.version \in Nat
    BY <1>1, <1>2, <2>1 DEF VersionsTell, WoType, RequestType
  <2> QED BY <2>1, <2>2
<1> QED BY <1>2 DEF VersionsTell

\* A request that goes on after its reading keeps what it read.
LEMMA ReadingsAreKept ==
  ASSUME Base, UNCHANGED wo,
         \A w \in Withdrawals : request'[w].at \in {"loaded", "armed", "consumed"} =>
           /\ request[w].at \in {"loaded", "armed", "consumed"}
           /\ request'[w].version = request[w].version
           /\ request'[w].withdrawn = request[w].withdrawn
  PROVE  VersionsTell'
  BY DEF Base, VersionsTell

LEMMA FaultIsCounted ==
  ASSUME Base, UNCHANGED faults \/ \E kind \in FaultKinds : Fault(kind)
  PROVE  faults' \in 0 .. MaxFaults
  BY StepsAssumption DEF Base, Fault

RequestsAreTold ==
  /\ WoType' /\ RequestType' /\ VersionsTell' /\ faults' \in 0 .. MaxFaults
  /\ \A w \in Withdrawals : request'[w].at \notin {"idle", "loaded", "done"} =>
       request[w].at \notin {"idle", "loaded", "done"} \/ Arm(w)

LEMMA RequestsStay ==
  ASSUME Base, UNCHANGED <<wo, request>>, faults' \in 0 .. MaxFaults
  PROVE  RequestsAreTold
  BY DEF Base, RequestsAreTold, VersionsTell, WoType, RequestType

\* A request that goes on without saving the work order.
LEMMA RequestMovesOn ==
  ASSUME Base, NEW w \in Withdrawals, NEW from \in RequestAt \ {"idle", "done"}, NEW to \in RequestAt,
         Goes(w, from, to), UNCHANGED wo, faults' \in 0 .. MaxFaults,
         to \in {"loaded", "armed", "consumed"} => from \in {"loaded", "armed", "consumed"},
         from = "loaded" => to \in {"loaded", "done"} \/ Arm(w)
  PROVE  RequestsAreTold
<1>1. /\ request[w].at = from
      /\ request' \in [Withdrawals -> [at : RequestAt, version : Nat, withdrawn : Nat]]
      /\ request'[w].at = to /\ request'[w].version = request[w].version
      /\ request'[w].withdrawn = request[w].withdrawn
      /\ \A v \in Withdrawals \ {w} : request'[v] = request[v]
  BY DEF Base, Goes
<1>2. VersionsTell'
  BY <1>1, ReadingsAreKept
<1>3. WoType'
  BY DEF WoType, Base
<1> QED BY <1>1, <1>2, <1>3 DEF RequestsAreTold, RequestType

LEMMA WithdrawalTells ==
  ASSUME Base, NEW w \in Withdrawals,
         Load(w) \/ Arm(w) \/ ConsumeStock(w) \/ Commit(w) \/ CompensationReads(w)
           \/ CompensationReturns(w) \/ CompensationCompletes(w) \/ HandToProcessor(w)
           \/ CompensationFails(w) \/ RequestStops(w)
  PROVE  RequestsAreTold
<1>1. WoType /\ RequestType /\ VersionsTell
  BY DEF Base, WoType, RequestType
<1>2. {"idle", "loaded", "armed", "consumed", "undoing", "returning", "undone", "failed", "done"}
        = RequestAt
  BY DEF RequestAt
<1>3. faults' \in 0 .. MaxFaults
  BY FaultIsCounted DEF Load, Arm, ConsumeStock, Commit, CompensationReads, CompensationReturns,
     CompensationCompletes, HandToProcessor, CompensationFails, RequestStops, Fault
<1>4. CASE Load(w)
  <2>1. /\ wo' = wo /\ request[w].at = "idle" /\ wo.status = "IN_EXECUTION"
        /\ wo.withdrawn + Units[w] <= Planned
        /\ request' = [request EXCEPT ![w] =
                         [at |-> "loaded", version |-> wo.version, withdrawn |-> wo.withdrawn]]
    BY <1>4 DEF Load
  <2>2. /\ RequestType' /\ request'[w].at = "loaded" /\ request'[w].version = wo.version
        /\ request'[w].withdrawn = wo.withdrawn
        /\ \A v \in Withdrawals \ {w} : request'[v] = request[v]
    BY <1>1, <2>1 DEF RequestType, WoType, RequestAt
  <2>3. VersionsTell'
    BY <1>1, <2>1, <2>2 DEF VersionsTell, WoType
  <2>4. WoType'
    BY <1>1, <2>1 DEF WoType
  <2> QED BY <1>3, <2>2, <2>3, <2>4 DEF RequestsAreTold
<1>5. CASE Arm(w)
  <2>1. Goes(w, "loaded", "armed") /\ wo' = wo
    BY <1>5 DEF Arm
  <2> QED BY <1>2, <1>3, <1>5, <2>1, RequestMovesOn
<1>6. CASE ConsumeStock(w)
  <2>1. PICK to \in {"consumed", "undoing"} : Goes(w, "armed", to) /\ wo' = wo
    BY <1>6 DEF ConsumeStock
  <2> QED BY <1>2, <1>3, <2>1, RequestMovesOn
<1>7. CASE Commit(w)
  <2>1. PICK to \in {"undoing", "done"} :
          Goes(w, "consumed", to) /\ (SaveWithdrawal(w) \/ UNCHANGED wo)
    BY <1>7 DEF Commit
  <2>2. CASE UNCHANGED wo
    BY <1>2, <1>3, <2>1, <2>2, RequestMovesOn
  <2>3. CASE SaveWithdrawal(w)
    <3>1. /\ request[w].at = "consumed" /\ RequestType' /\ request'[w].at = to
          /\ \A v \in Withdrawals \ {w} : request'[v] = request[v]
      BY <1>2, <2>1, RequestGoes DEF RequestType
    <3>2. /\ wo' = [wo EXCEPT !.withdrawn = request[w].withdrawn + Units[w], !.version = @ + 1]
          /\ request[w].withdrawn + Units[w] <= Planned
          /\ request[w].withdrawn + Units[w] \in Nat
      BY <1>1, <2>3, <3>1, OperationsAreFinite DEF SaveWithdrawal, VersionsTell, RequestType
    <3>3. request[w].withdrawn + Units[w] \in 0 .. Planned
      BY <3>2, StepsAssumption
    <3>4. WoType' /\ wo'.version = wo.version + 1
      <4>1. PICK withdrawn \in 0 .. Planned : withdrawn = request[w].withdrawn + Units[w]
        BY <3>3
      <4>2. PICK version \in Nat : version = wo.version + 1
        BY <1>1 DEF WoType
      <4>3. wo' = [status |-> wo.status, withdrawn |-> withdrawn, version |-> version]
        BY <1>1, <3>2, <4>1, <4>2 DEF WoType
      <4>4. wo.status \in Statuses
        BY <1>1 DEF WoType
      <4> QED BY <4>2, <4>3, <4>4 DEF WoType
    <3>5. VersionsTell'
      BY <3>1, <3>4, SavesOutdate
    <3> QED BY <1>3, <3>1, <3>4, <3>5 DEF RequestsAreTold
  <2> QED BY <2>1, <2>2, <2>3
<1>8. CASE CompensationReads(w)
  <2>1. PICK to \in {"undone", "returning"} : Goes(w, "undoing", to) /\ wo' = wo
    BY <1>8 DEF CompensationReads
  <2> QED BY <1>2, <1>3, <2>1, RequestMovesOn
<1>9. CASE CompensationReturns(w)
  <2>1. PICK to \in {"undone", "failed"} : Goes(w, "returning", to) /\ wo' = wo
    BY <1>9 DEF CompensationReturns
  <2> QED BY <1>2, <1>3, <2>1, RequestMovesOn
<1>10. CASE CompensationCompletes(w)
  <2>1. Goes(w, "undone", "done") /\ wo' = wo
    BY <1>10 DEF CompensationCompletes
  <2> QED BY <1>2, <1>3, <2>1, RequestMovesOn
<1>11. CASE HandToProcessor(w)
  <2>1. Goes(w, "failed", "done") /\ wo' = wo
    BY <1>11 DEF HandToProcessor
  <2> QED BY <1>2, <1>3, <2>1, RequestMovesOn
<1>12. CASE CompensationFails(w)
  <2>1. PICK at \in {"undoing", "returning", "undone"} : Goes(w, at, "failed") /\ wo' = wo
    BY <1>12 DEF CompensationFails
  <2> QED BY <1>2, <1>3, <2>1, RequestMovesOn
<1>13. CASE RequestStops(w)
  <2>1. PICK at \in RequestAt \ {"idle", "done"} : at = request[w].at /\ wo' = wo
    BY <1>1, <1>13 DEF RequestStops, RequestType
  <2>2. Goes(w, at, "done")
    BY <1>13, <2>1 DEF RequestStops, Goes
  <2> QED BY <1>2, <1>3, <2>1, <2>2, RequestMovesOn
<1> QED BY <1>4, <1>5, <1>6, <1>7, <1>8, <1>9, <1>10, <1>11, <1>12, <1>13

LEMMA SavingTells ==
  ASSUME Base,
         (\E r \in Returns : ReturnParts(r)) \/ CompleteWorkOrder \/ DeliverVehicle \/ CancelWorkOrder
  PROVE  RequestsAreTold
<1>1. WoType /\ RequestType /\ VersionsTell
  BY DEF Base, WoType, RequestType
<1>2. PICK status \in Statuses, withdrawn \in 0 .. Planned : Saves(status, withdrawn)
  <2>1. ASSUME NEW r \in Returns, ReturnParts(r)
        PROVE  wo.withdrawn - Units[r] \in 0 .. Planned /\ Saves(wo.status, wo.withdrawn - Units[r])
    <3>1. Units[r] \in Nat /\ wo.withdrawn \in 0 .. Planned /\ wo.withdrawn >= Units[r]
      BY <1>1, <2>1, OperationsAreFinite DEF ReturnParts, WoType
    <3> QED BY <2>1, <3>1, StepsAssumption DEF ReturnParts
  <2> QED BY <1>1, <2>1 DEF CompleteWorkOrder, DeliverVehicle, CancelWorkOrder, WoType, Statuses
<1>3. /\ WoType' /\ wo'.version = wo.version + 1 /\ request' = request /\ faults' = faults
  BY <1>1, <1>2 DEF Saves, WoType
<1>4. RequestType'
  BY <1>1, <1>3 DEF RequestType
<1>5. VersionsTell'
  BY <1>3, <1>4, SavesOutdate
<1> QED BY <1>3, <1>4, <1>5 DEF RequestsAreTold, Base

LEMMA RequestsTold ==
  ASSUME Base, [Next]_vars
  PROVE  RequestsAreTold
<1>1. ASSUME NEW w \in Withdrawals,
             Load(w) \/ Withdraw(w) \/ CompensationFails(w) \/ RequestStops(w)
      PROVE  RequestsAreTold
  BY <1>1, WithdrawalTells DEF Withdraw
<1>2. ASSUME NEW k \in Workers, Work(k) \/ WorkFails(k) \/ WorkerStops(k)
      PROVE  RequestsAreTold
  <2>1. UNCHANGED <<wo, request>>
    BY <1>2 DEF Work, Claim, Apply, CompleteStep, Fail, WorkFails, WorkerStops
  <2>2. UNCHANGED faults \/ \E kind \in FaultKinds : Fault(kind)
    BY <1>2 DEF Work, Claim, Apply, CompleteStep, Fail, WorkFails, WorkerStops, Fault
  <2> QED BY <2>1, <2>2, FaultIsCounted, RequestsStay
<1>3. CASE TimePasses \/ TimeOutruns \/ OperatorRetries \/ UNCHANGED vars
  <2>1. UNCHANGED <<wo, request>>
    BY <1>3 DEF TimePasses, TimeOutruns, OperatorRetries, FallsDue, vars
  <2>2. UNCHANGED faults \/ \E kind \in FaultKinds : Fault(kind)
    BY <1>3 DEF TimePasses, TimeOutruns, OperatorRetries, Fault, vars
  <2> QED BY <2>1, <2>2, FaultIsCounted, RequestsStay
<1> QED BY <1>1, <1>2, <1>3, SavingTells DEF Next

LEMMA InitBase == Init => Base
<1> SUFFICES ASSUME Init PROVE Base
  OBVIOUS
<1>1. movements = << >> /\ outbox = << >> /\ quantityOnHand = OnHand /\ DOMAIN movements = {} /\ DOMAIN outbox = {}
  BY DEF Init, LedgerInit
<1>2. LedgerSound
  <2>1. SumFunctionOnSet(Left, DOMAIN movements) = 0
    BY <1>1, SumOfNone
  <2> QED BY <1>1, <2>1, StockAssumption DEF LedgerSound, UnitsAreConserved, Outstanding
<1>3. outbox \in Seq(StepRow) /\ RowsAreNamed
  BY <1>1 DEF RowsAreNamed
<1>4. WorkerShape /\ ClaimsAreSound
  <2>1. worker \in [Workers -> [at : WorkerAt, step : Nat, attempts : Nat, candidates : {<< >>}]]
    BY DEF Init, NoClaim, WorkerAt
  <2>2. \A k \in Workers : worker[k].at = "idle" /\ worker[k].step = 0 /\ worker[k].candidates = << >>
    BY DEF Init, NoClaim
  <2>3. DOMAIN << >> = {}
    OBVIOUS
  <2> QED BY <2>1, <2>2, <2>3 DEF WorkerShape, ClaimsAreSound
<1>5. wo \in [status : Statuses, withdrawn : 0 .. Planned, version : Nat] /\ faults \in 0 .. MaxFaults
  BY StepsAssumption DEF Init, Statuses
<1>6. /\ request \in [Withdrawals -> [at : RequestAt, version : Nat, withdrawn : Nat]]
      /\ VersionsTell /\ ArmedFirst
  BY DEF Init, NoRequest, RequestAt, VersionsTell, ArmedFirst
<1> QED BY <1>2, <1>3, <1>4, <1>5, <1>6 DEF Base

LEMMA BaseStep ==
  ASSUME Base, [Next]_vars
  PROVE  Base' /\ Stepping
<1>1. Stepping
  BY Classified
<1>2. /\ LedgerSound' /\ RowsKept /\ RowsAreNamed' /\ WorkerShape' /\ ClaimsAreSound'
  BY <1>1, LedgerStaysSound, RowsGoOn, ClaimsStaySound
<1>3. RequestsAreTold
  BY RequestsTold
<1>4. ArmedFirst'
  <2> SUFFICES ASSUME NEW w \in Withdrawals, request'[w].at \notin {"idle", "loaded", "done"}
               PROVE  UndoRows(outbox, w)' # {}
    BY DEF ArmedFirst
  <2>1. CASE Arm(w)
    <3>1. RowAdded("UNDO_CONSUMPTION", w)
      <4>1. "UNDO_CONSUMPTION" \in StepKind /\ outbox \in Seq(StepRow) /\ w \in Operations
        BY OperationsAreFinite DEF StepKind, Base
      <4> QED BY <2>1, <4>1, RowIsAdded DEF Arm, Armed
    <3> QED BY <3>1 DEF RowAdded, UndoRows
  <2>2. CASE request[w].at \notin {"idle", "loaded", "done"}
    <3>1. UndoRows(outbox, w) # {}
      BY <2>2 DEF Base, ArmedFirst
    <3> QED BY <1>2, <3>1 DEF RowsKept, UndoRows
  <2> QED BY <1>3, <2>1, <2>2 DEF RequestsAreTold
<1> QED BY <1>1, <1>2, <1>3, <1>4 DEF Base, RequestsAreTold, WoType, RequestType, RowsKept

LEMMA BaseHolds == Spec => []Base
<1>1. Init => Base
  BY InitBase
<1>2. Base /\ [Next]_vars => Base'
  BY BaseStep
<1> QED BY <1>1, <1>2, PTL DEF Spec

LEMMA TypesHold == Base => TypeOK
<1> SUFFICES ASSUME Base PROVE TypeOK
  OBVIOUS
<1>1. quantityOnHand \in Nat /\ movements \in Seq(Consumption)
  BY DEF Base, LedgerSound
<1>2. outbox \in Seq([kind : StepKind, operation : Operations \cup {"visit"},
                      status : StepStatus, due : BOOLEAN, attempts : Nat])
  BY DEF Base, StepRow
<1>3. ASSUME NEW k \in Workers
      PROVE  /\ worker[k].at \in WorkerAt /\ worker[k].step \in DOMAIN outbox \cup {0}
             /\ worker[k].attempts \in Nat
             /\ DOMAIN worker[k].candidates \subseteq DOMAIN movements
  <2>1. worker[k].at \in WorkerAt /\ worker[k].attempts \in Nat
    BY DEF Base, WorkerShape
  <2> QED BY <2>1 DEF Base, ClaimsAreSound
<1> QED BY <1>1, <1>2, <1>3 DEF Base, Statuses, TypeOK

\* The columns of the tables keep their types, the withdrawn quantity stays
\* between nothing and the planned one, the count never falls below zero and a
\* claim holds a step that there is: under every fault, the lost commit too.
THEOREM StockTypes == Spec => []TypeOK
  BY BaseHolds, TypesHold, PTL

\* Every unit is on the shelf or in a consumption, and no consumption gives back
\* more than it took: whichever of the requests and the workers restores and
\* undoes, in whatever order, and under every fault, the lost commit too.
THEOREM UnitsConserved == Spec => []UnitsAreConserved
<1>1. Base => UnitsAreConserved
  BY DEF Base, LedgerSound
<1> QED BY <1>1, BaseHolds, PTL

===============================================================================
