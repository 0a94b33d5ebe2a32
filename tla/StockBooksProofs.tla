--------------------------- MODULE StockBooksProofs ----------------------------
(***************************************************************************)
(* Theorems about the two ledgers of StockSteps: they agree at all times,  *)
(* a restore is always covered, and what a delivery or a cancellation      *)
(* closes is all that the work order withdrew.  As in StockStepsProofs, a  *)
(* transaction that commits although it seems to fail is left out.  That   *)
(* no unit stays with a withdrawal that was given up needs more: that no   *)
(* grace period and no lease ends under its holder, as the counterexample  *)
(* of MCStockStepsStalledStop.cfg shows.                                   *)
(***************************************************************************)
EXTENDS StockStepsProofs

-------------------------------------------------------------------------------
(* What changes in a step, and by which kind of step. *)

\* Of a consumption nothing is taken back: it keeps what it is about, and what
\* is returned, confirmed or closed stays so.
LedgerGrows ==
  /\ DOMAIN movements \subseteq DOMAIN movements'
  /\ \A m \in DOMAIN movements :
       /\ movements'[m].operation = movements[m].operation
       /\ movements'[m].quantity = movements[m].quantity
       /\ movements[m].confirmed => movements'[m].confirmed
       /\ movements[m].status # "PENDING" =>
            movements'[m].status = movements[m].status /\ movements'[m].lost = movements[m].lost
       /\ \A op \in Operations : movements'[m].returned[op] >= movements[m].returned[op]
       /\ Left'[m] <= Left[m]

RestoresOpen(m) ==
  \E k \in Workers : Restores(k) /\ ~HasReturnOf(StepOf(k).operation) /\ m \in OpenRows

LedgerHasReasons ==
  /\ \A m \in DOMAIN movements' \ DOMAIN movements :
       /\ Consumes(movements'[m].operation)
       /\ movements'[m].quantity = Units[movements'[m].operation]
       /\ movements'[m].status = "PENDING" /\ ~movements'[m].confirmed /\ movements'[m].lost = 0
       /\ \A op \in Operations : movements'[m].returned[op] = 0
  /\ \A m \in DOMAIN movements :
       /\ movements'[m].confirmed => \/ movements[m].confirmed
                                     \/ \E k \in Workers : /\ Confirms(k)
                                                           /\ movements[m].operation = StepOf(k).operation
       /\ \/ movements'[m].status = movements[m].status /\ movements'[m].lost = movements[m].lost
          \/ /\ movements'[m].status = "SETTLED" /\ movements'[m].lost = movements[m].lost
             /\ \E k \in Workers : Settles(k)
          \/ /\ movements'[m].status = "WRITTEN_OFF"
             /\ \E k \in Workers : /\ WritesOff(k) /\ m \in DOMAIN worker[k].candidates
                                   /\ movements'[m].lost = movements[m].lost + worker[k].candidates[m]
       /\ \A op \in Operations : movements'[m].returned[op] = movements[m].returned[op]
            \/ (op = movements[m].operation /\ Undoes(op))
            \/ (\E k \in Workers : Restores(k) /\ op = StepOf(k).operation /\ m \in OpenRows)
       /\ Left'[m] = Left[m] \/ Undoes(movements[m].operation) \/ RestoresOpen(m)

LEMMA LedgerIsSame ==
  ASSUME Base, UNCHANGED <<quantityOnHand, movements>>
  PROVE  LedgerGrows /\ LedgerHasReasons
<1>1. \A m \in DOMAIN movements :
        /\ \A op \in Operations : movements[m].returned[op] \in Nat
        /\ Left[m] \in Int /\ Left'[m] = Left[m]
  BY LedgerRows DEF Base, LedgerSound, Consumption, Left
<1> QED BY <1>1 DEF LedgerGrows, LedgerHasReasons

\* Columns of rows that keep what they are about and what was returned of them.
LEMMA RowsThatRemain ==
  ASSUME Base, RowsRemain, NEW m \in DOMAIN movements
  PROVE  /\ movements'[m].operation = movements[m].operation
         /\ movements'[m].quantity = movements[m].quantity
         /\ \A op \in Operations : /\ movements'[m].returned[op] >= movements[m].returned[op]
                                   /\ movements'[m].returned[op] = movements[m].returned[op]
         /\ Left'[m] <= Left[m] /\ Left'[m] = Left[m]
<1>1. /\ \A op \in Operations : movements[m].returned[op] \in Nat
      /\ Left[m] \in Int
  BY LedgerRows DEF Base, LedgerSound, Consumption
<1> QED BY <1>1 DEF RowsRemain

LEMMA LedgerGoesOn ==
  ASSUME Base, Stepping
  PROVE  LedgerGrows /\ LedgerHasReasons
<1>1. LedgerSound /\ ClaimsAreSound /\ RowsAreNamed
  BY DEF Base
<1>2. \A m \in DOMAIN movements :
        /\ movements[m].operation \in Withdrawals /\ Left[m] \in Nat
        /\ \A op \in Operations : movements[m].returned[op] \in Nat
  BY <1>1, LedgerRows, SoundRows DEF LedgerSound, Consumption
<1>3. ASSUME NEW w \in Withdrawals, Consumes(w) PROVE LedgerGrows /\ LedgerHasReasons
  <2>1. /\ DOMAIN movements' = DOMAIN movements \cup {Len(movements) + 1}
        /\ \A i \in DOMAIN movements : movements'[i] = movements[i] /\ Left'[i] = Left[i]
        /\ movements'[Len(movements) + 1] =
             [operation |-> w, quantity |-> Units[w], status |-> "PENDING", confirmed |-> FALSE,
              returned |-> [op \in Operations |-> 0], lost |-> 0]
    BY <1>1, <1>3, ConsumeKeepsUnits DEF Consumes
  <2>2. LedgerGrows
    BY <1>2, <2>1 DEF LedgerGrows
  <2>3. LedgerHasReasons
    BY <1>3, <2>1 DEF LedgerHasReasons
  <2> QED BY <2>2, <2>3
<1>4. ASSUME NEW w \in Withdrawals, Undoes(w) PROVE LedgerGrows /\ LedgerHasReasons
  <2>1. RowsGive(w, LeftOf(w))
    BY <1>1, <1>4, UndoKeepsUnits, OperationsAreFinite DEF Undoes
  <2>2. \A m \in DOMAIN movements :
          /\ LeftOf(w)[m] \in Nat
          /\ movements[m].operation # w => LeftOf(w)[m] = 0
    BY <1>1, <1>2, LedgerRows DEF LeftOf, OfOperation, LedgerSound
  <2>3. LedgerGrows
    <3>1. \A m \in DOMAIN movements :
            /\ movements'[m].returned[w] >= movements[m].returned[w]
            /\ Left'[m] <= Left[m]
      BY <1>2, <2>1, <2>2, OperationsAreFinite DEF RowsGive
    <3> QED BY <1>2, <2>1, <3>1 DEF LedgerGrows, RowsGive
  <2>4. LedgerHasReasons
    <3>1. \A m \in DOMAIN movements : movements[m].operation # w =>
            movements'[m].returned[w] = movements[m].returned[w] /\ Left'[m] = Left[m]
      BY <1>2, <2>1, <2>2, OperationsAreFinite DEF RowsGive
    <3> QED BY <1>4, <2>1, <3>1 DEF LedgerHasReasons, RowsGive
  <2> QED BY <2>3, <2>4
<1>5. ASSUME NEW k \in Workers, Confirms(k) PROVE LedgerGrows /\ LedgerHasReasons
  <2>1. /\ RowsRemain
        /\ \A i \in DOMAIN movements :
              /\ movements'[i].status = movements[i].status
              /\ movements'[i].lost = movements[i].lost
              /\ movements'[i].confirmed <=>
                   movements[i].confirmed \/ i \in OfOperation(StepOf(k).operation)
    BY <1>1, <1>5, ConfirmKeepsUnits DEF Confirms
  <2>2. LedgerGrows
    BY <2>1, RowsThatRemain DEF LedgerGrows, RowsRemain
  <2>3. LedgerHasReasons
    BY <1>5, <2>1, RowsThatRemain DEF LedgerHasReasons, RowsRemain, OfOperation
  <2> QED BY <2>2, <2>3
<1>6. ASSUME NEW k \in Workers, Settles(k) PROVE LedgerGrows /\ LedgerHasReasons
  <2>1. /\ RowsRemain
        /\ \A i \in DOMAIN movements :
              /\ movements'[i].confirmed = movements[i].confirmed
              /\ movements'[i].lost = movements[i].lost
              /\ movements'[i].status = IF Open(movements[i]) THEN "SETTLED" ELSE movements[i].status
    BY <1>1, <1>6, SettleKeepsUnits DEF Settles
  <2>2. LedgerGrows
    BY <2>1, RowsThatRemain DEF LedgerGrows, RowsRemain, Open
  <2>3. LedgerHasReasons
    BY <1>6, <2>1, RowsThatRemain DEF LedgerHasReasons, RowsRemain
  <2> QED BY <2>2, <2>3
<1>7. ASSUME NEW k \in Workers, WritesOff(k) PROVE LedgerGrows /\ LedgerHasReasons
  <2>1. PICK candidates : candidates = worker[k].candidates
    OBVIOUS
  <2>2. WriteOff(candidates) /\ \A i \in DOMAIN candidates : candidates[i] \in Nat
    BY <1>1, <1>7, <2>1 DEF WritesOff, ClaimsAreSound
  <2>3. /\ RowsRemain
        /\ \A i \in DOMAIN movements :
              /\ movements'[i].confirmed = movements[i].confirmed
              /\ IF i \in DOMAIN candidates /\ movements[i].status = "PENDING"
                 THEN /\ movements'[i].status = "WRITTEN_OFF"
                      /\ movements'[i].lost = movements[i].lost + candidates[i]
                 ELSE /\ movements'[i].status = movements[i].status
                      /\ movements'[i].lost = movements[i].lost
    BY <1>1, <2>2, WriteOffKeepsUnits
  <2>4. LedgerGrows
    BY <2>3, RowsThatRemain DEF LedgerGrows, RowsRemain
  <2>5. LedgerHasReasons
    BY <1>7, <2>1, <2>3, RowsThatRemain DEF LedgerHasReasons, RowsRemain
  <2> QED BY <2>4, <2>5
<1>8. ASSUME NEW k \in Workers, Restores(k) PROVE LedgerGrows /\ LedgerHasReasons
  <2>1. PICK r \in Returns : r = StepOf(k).operation /\ Restore(r)
    BY <1>1, <1>8 DEF Restores, Has, ClaimsAreSound, RowsAreNamed, StepOf
  <2>2. CASE ~HasReturnOf(r) /\ Returned(r, Draw(r))
    <3>1. RowsGive(r, Draw(r))
      BY <1>1, <2>2, RestoreKeepsUnits
    <3>2. \A m \in DOMAIN movements :
            Draw(r)[m] \in Nat /\ (m \notin OpenRows => Draw(r)[m] = 0)
      BY <1>1, DrawOfOne
    <3>3. LedgerGrows
      <4>1. \A m \in DOMAIN movements :
              /\ movements'[m].returned[r] >= movements[m].returned[r]
              /\ Left'[m] <= Left[m]
        BY <1>2, <3>1, <3>2, OperationsAreFinite DEF RowsGive
      <4> QED BY <1>2, <3>1, <4>1 DEF LedgerGrows, RowsGive
    <3>4. LedgerHasReasons
      <4>1. \A m \in DOMAIN movements : m \notin OpenRows =>
              movements'[m].returned[r] = movements[m].returned[r] /\ Left'[m] = Left[m]
        BY <1>2, <3>1, <3>2, OperationsAreFinite DEF RowsGive
      <4>2. \A m \in OpenRows : RestoresOpen(m)
        BY <1>8, <2>1, <2>2 DEF RestoresOpen
      <4> QED BY <1>8, <2>1, <3>1, <4>1, <4>2 DEF LedgerHasReasons, RowsGive
    <3> QED BY <3>3, <3>4
  <2>3. CASE UNCHANGED ledgerVars
    BY <2>3, LedgerIsSame DEF ledgerVars
  <2> QED BY <2>1, <2>2, <2>3 DEF Restore
<1> QED BY <1>3, <1>4, <1>5, <1>6, <1>7, <1>8, LedgerIsSame
        DEF Stepping, Rests, RecordsClosing, SavesWithdrawal, RecordsReturn, ReadsToWriteOff, ledgerVars

\* Rows are recorded after all others, each for a reason.
Records(n) ==
  \/ outbox'[n].kind = "UNDO_CONSUMPTION"
  \/ \E w \in Withdrawals :
       SavesWithdrawal(w) /\ outbox'[n].kind = "CONFIRM_CONSUMPTION" /\ outbox'[n].operation = w
  \/ \E r \in Returns :
       RecordsReturn(r) /\ outbox'[n].kind = "RESTORE" /\ outbox'[n].operation = r
  \/ /\ wo.status = "COMPLETED" /\ wo'.status = "DELIVERED" /\ wo'.withdrawn = wo.withdrawn
     /\ outbox'[n].kind = "SETTLE"
  \/ /\ wo.status = "IN_EXECUTION" /\ wo'.status = "CANCELED" /\ wo'.withdrawn = wo.withdrawn
     /\ outbox'[n].kind = "WRITE_OFF"

RowsHaveReasons ==
  \A n \in DOMAIN outbox' \ DOMAIN outbox :
    /\ DOMAIN outbox' = DOMAIN outbox \cup {n} /\ n \in Nat
    /\ \A j \in DOMAIN outbox : j < n
    /\ outbox'[n].status # "DONE"
    /\ Records(n)

\* The work order changes with the record of the change, if there is one.
WoHasReasons ==
  \/ wo'.status = wo.status /\ wo'.withdrawn = wo.withdrawn
  \/ /\ wo'.withdrawn = wo.withdrawn
     /\ \/ wo.status = "IN_EXECUTION" /\ wo'.status \in {"COMPLETED", "CANCELED"}
        \/ wo.status = "COMPLETED" /\ wo'.status = "DELIVERED"
  \/ wo'.status = wo.status /\ \E w \in Withdrawals : SavesWithdrawal(w)
  \/ wo'.status = wo.status /\ \E r \in Returns : RecordsReturn(r)

HasEffectInLine(k) == Confirms(k) \/ Restores(k) \/ Settles(k) \/ WritesOff(k)

ClaimsHaveReasons ==
  \A k \in Workers :
    /\ worker'[k].at # "idle" =>
         \/ worker[k].at # "idle" /\ worker'[k].step = worker[k].step
         \/ /\ worker'[k].at = "claimed" /\ worker'[k].step \in DOMAIN outbox
            /\ InLine(worker'[k].step) => Reached(worker'[k].step)
    /\ worker'[k].at = "applied" /\ InLine(worker'[k].step) =>
         worker[k].at = "applied" \/ HasEffectInLine(k)
    /\ worker'[k].at = "reading" /\ outbox[worker'[k].step].kind = "WRITE_OFF" =>
         \/ worker[k].at = "reading" /\ worker'[k].candidates = worker[k].candidates
         \/ ReadsToWriteOff(k)

LEMMA RecordsGoOn ==
  ASSUME Base, Stepping
  PROVE  RowsHaveReasons /\ WoHasReasons
<1>1. CASE outbox' = outbox /\ wo' = wo
  BY <1>1 DEF RowsHaveReasons, WoHasReasons
<1>2. ASSUME NEW kind, NEW op, RowAdded(kind, op),
             \A n : outbox'[n].kind = kind /\ outbox'[n].operation = op => Records(n)
      PROVE  RowsHaveReasons
  BY <1>2 DEF RowAdded, RowsHaveReasons
<1>3. CASE Rests
  <2>1. RowsHaveReasons
    <3>1. CASE DOMAIN outbox' = DOMAIN outbox
      BY <3>1 DEF RowsHaveReasons
    <3>2. ASSUME NEW w \in Withdrawals, RowAdded("UNDO_CONSUMPTION", w) PROVE RowsHaveReasons
      BY <1>2, <3>2 DEF Records
    <3> QED BY <1>3, <3>1, <3>2 DEF Rests
  <2> QED BY <1>3, <2>1 DEF Rests, WoHasReasons
<1>4. CASE RecordsClosing
  <2>1. RowsHaveReasons
    <3>1. CASE wo.status = "COMPLETED" /\ wo'.status = "DELIVERED" /\ RowAdded("SETTLE", "visit")
      BY <1>2, <1>4, <3>1 DEF Records, RecordsClosing
    <3>2. CASE wo.status = "IN_EXECUTION" /\ wo'.status = "CANCELED" /\ RowAdded("WRITE_OFF", "visit")
      BY <1>2, <1>4, <3>2 DEF Records, RecordsClosing
    <3> QED BY <1>4, <3>1, <3>2 DEF RecordsClosing
  <2> QED BY <1>4, <2>1 DEF RecordsClosing, WoHasReasons
<1>5. ASSUME NEW w \in Withdrawals, SavesWithdrawal(w) PROVE RowsHaveReasons /\ WoHasReasons
  <2>1. RowAdded("CONFIRM_CONSUMPTION", w) /\ wo'.status = wo.status
    BY <1>5 DEF SavesWithdrawal
  <2>2. RowsHaveReasons
    BY <1>2, <1>5, <2>1 DEF Records
  <2> QED BY <1>5, <2>1, <2>2 DEF WoHasReasons
<1>6. ASSUME NEW r \in Returns, RecordsReturn(r) PROVE RowsHaveReasons /\ WoHasReasons
  <2>1. RowAdded("RESTORE", r) /\ wo'.status = wo.status
    BY <1>6 DEF RecordsReturn
  <2>2. RowsHaveReasons
    BY <1>2, <1>6, <2>1 DEF Records
  <2> QED BY <1>6, <2>1, <2>2 DEF WoHasReasons
<1> QED BY <1>1, <1>3, <1>4, <1>5, <1>6
        DEF Stepping, Consumes, Undoes, Confirms, Restores, Settles, WritesOff, Has, ReadsToWriteOff

LEMMA ClaimsGo ==
  ASSUME Base, Stepping
  PROVE  ClaimsHaveReasons
<1>1. ASSUME ClaimsGoOn({}) PROVE ClaimsHaveReasons
  BY <1>1 DEF ClaimsGoOn, ClaimsHaveReasons
<1>2. ASSUME NEW k \in Workers, ClaimsGoOn({k}), worker'[k].at # "reading", HasEffectInLine(k)
      PROVE  ClaimsHaveReasons
  BY <1>2 DEF ClaimsGoOn, ClaimsHaveReasons
<1>3. ASSUME NEW k \in Workers, ReadsToWriteOff(k)
      PROVE  ClaimsHaveReasons
  BY <1>3 DEF ReadsToWriteOff, ClaimsGoOn, ClaimsHaveReasons
<1>4. ASSUME NEW k \in Workers, HasEffectInLine(k)
      PROVE  ClaimsHaveReasons
  <2>1. ClaimsGoOn({k}) /\ worker'[k].at # "reading"
    BY <1>4 DEF HasEffectInLine, Confirms, Restores, Settles, WritesOff, Has
  <2> QED BY <1>2, <1>4, <2>1
<1>5. CASE worker' = worker
  BY <1>1, <1>5, SameClaims
<1> QED BY <1>1, <1>3, <1>4, <1>5
        DEF Stepping, Rests, RecordsClosing, Consumes, SavesWithdrawal, Undoes, RecordsReturn,
            HasEffectInLine

\* What has been recorded stays recorded.
LEMMA RecordsStay ==
  ASSUME Base, Stepping
  PROVE  /\ \A kind, op : Recorded(kind, op) => Recorded(kind, op)'
         /\ \A w : Saved(w) => Saved(w)'
         /\ \A w : Saved(w)' => Saved(w) \/ (w \in Withdrawals /\ SavesWithdrawal(w))
         /\ \A r : Recorded("RESTORE", r)' =>
                     Recorded("RESTORE", r) \/ (r \in Returns /\ RecordsReturn(r))
<1>1. RowsKept /\ RowsHaveReasons
  BY RowsGoOn, RecordsGoOn
<1>2. \A kind, op : Recorded(kind, op) => Recorded(kind, op)'
  BY <1>1 DEF RowsKept, Recorded
<1>3. ASSUME NEW w, Saved(w)' PROVE Saved(w) \/ (w \in Withdrawals /\ SavesWithdrawal(w))
  <2>1. PICK i \in DOMAIN outbox' :
          outbox'[i].kind = "CONFIRM_CONSUMPTION" /\ outbox'[i].operation = w
    BY <1>3 DEF Saved, Recorded
  <2>2. CASE i \in DOMAIN outbox
    BY <1>1, <2>1, <2>2 DEF RowsKept, Saved, Recorded
  <2>3. CASE i \notin DOMAIN outbox
    <3>1. Records(i)
      BY <1>1, <2>3 DEF RowsHaveReasons
    <3> QED BY <2>1, <3>1 DEF Records
  <2> QED BY <2>2, <2>3
<1>4. ASSUME NEW r, Recorded("RESTORE", r)'
      PROVE  Recorded("RESTORE", r) \/ (r \in Returns /\ RecordsReturn(r))
  <2>1. PICK i \in DOMAIN outbox' : outbox'[i].kind = "RESTORE" /\ outbox'[i].operation = r
    BY <1>4 DEF Recorded
  <2>2. CASE i \in DOMAIN outbox
    BY <1>1, <2>1, <2>2 DEF RowsKept, Recorded
  <2>3. CASE i \notin DOMAIN outbox
    <3>1. Records(i)
      BY <1>1, <2>3 DEF RowsHaveReasons
    <3> QED BY <2>1, <3>1 DEF Records
  <2> QED BY <2>2, <2>3
<1>5. \A w : Saved(w) => Saved(w)'
  BY <1>2 DEF Saved
<1> QED BY <1>2, <1>3, <1>4, <1>5

-------------------------------------------------------------------------------
(* The inductive invariant of the books. *)

\* A step in line is claimed, and done, only when those before it are done.
TurnsAreTaken ==
  /\ \A k \in Workers : worker[k].at # "idle" /\ InLine(worker[k].step) => Reached(worker[k].step)
  /\ \A i \in DOMAIN outbox : InLine(i) /\ outbox[i].status = "DONE" => Reached(i)

\* What closes a visit is the last that is recorded in line.
ClosingIsLast ==
  \A i \in DOMAIN outbox :
    /\ outbox[i].kind = "SETTLE" => wo.status = "DELIVERED"
    /\ outbox[i].kind = "WRITE_OFF" => wo.status = "CANCELED"
    /\ outbox[i].kind \in {"SETTLE", "WRITE_OFF"} => \A j \in DOMAIN outbox : j > i => ~InLine(j)

\* A step that is applied has had the effect it is for, and keeps having it.
FinishedTookEffect ==
  \A i \in DOMAIN outbox : Finished(i) =>
    /\ outbox[i].kind = "CONFIRM_CONSUMPTION" =>
         \A m \in OfOperation(outbox[i].operation) : movements[m].confirmed
    /\ outbox[i].kind = "RESTORE" => HasReturnOf(outbox[i].operation)
    /\ outbox[i].kind = "SETTLE" => \A m \in SavedRows : movements[m].status = "SETTLED"
    /\ outbox[i].kind = "WRITE_OFF" =>
         \A m \in SavedRows : Left[m] = 0 \/ movements[m].status = "WRITTEN_OFF"

\* What is confirmed or closed, a step whose turn has come did.
EffectsHaveSteps ==
  \A m \in DOMAIN movements :
    /\ movements[m].confirmed =>
         \E i \in DOMAIN outbox : Is(i, "CONFIRM_CONSUMPTION", movements[m].operation) /\ Reached(i)
    /\ movements[m].status = "SETTLED" =>
         \E i \in DOMAIN outbox : outbox[i].kind = "SETTLE" /\ Reached(i)
    /\ movements[m].status = "WRITTEN_OFF" =>
         \E i \in DOMAIN outbox : outbox[i].kind = "WRITE_OFF" /\ Reached(i)

\* Units come back from a consumption by its own undo, or by a recorded return
\* after it was saved.
ReturnsHaveReasons ==
  /\ \A r \in Returns : HasReturnOf(r) => Recorded("RESTORE", r)
  /\ \A m \in DOMAIN movements : \A op \in Operations : movements[m].returned[op] > 0 =>
       op = movements[m].operation \/ (op \in Returns /\ Saved(movements[m].operation))

ConsumedIsWhole ==
  \A w \in Withdrawals : request[w].at = "consumed" =>
    \E m \in DOMAIN movements : OfOperation(w) = {m} /\ movements[m].quantity = Units[w]

LostIsWrittenOff ==
  \A m \in DOMAIN movements :
    movements[m].lost = IF movements[m].status = "WRITTEN_OFF" THEN Left[m] ELSE 0

\* What a write-off has read is all that it has to write off, and stays so.
ReadingsHold ==
  \A k \in Workers : worker[k].at = "reading" /\ StepOf(k).kind = "WRITE_OFF" =>
    /\ \A m \in DOMAIN worker[k].candidates : worker[k].candidates[m] = Left[m]
    /\ \A m \in SavedRows :
         m \in DOMAIN worker[k].candidates \/ Left[m] = 0 \/ movements[m].status = "WRITTEN_OFF"

SavedBefore(i) ==
  {m \in DOMAIN movements :
     \E j \in DOMAIN outbox : j < i /\ Is(j, "CONFIRM_CONSUMPTION", movements[m].operation)}
OwedBefore(i) ==
  {r \in Returns : (\E j \in DOMAIN outbox : j < i /\ Is(j, "RESTORE", r)) /\ ~HasReturnOf(r)}

\* What was saved before a restore covers it, and the restores before it.
RestoresHaveCover ==
  \A i \in DOMAIN outbox :
    outbox[i].kind = "RESTORE" /\ ~HasReturnOf(outbox[i].operation) =>
      Outstanding(SavedBefore(i)) >=
        Units[outbox[i].operation] + SumFunctionOnSet(Units, OwedBefore(i))

Books ==
  /\ Base /\ IInv
  /\ TurnsAreTaken /\ ClosingIsLast /\ FinishedTookEffect /\ EffectsHaveSteps
  /\ ReturnsHaveReasons /\ ConsumedIsWhole /\ LostIsWrittenOff /\ ReadingsHold
  /\ RestoresHaveCover /\ LedgersAgree

LEMMA OutboxRows ==
  ASSUME Base
  PROVE  DOMAIN outbox \subseteq Nat /\ \A i \in DOMAIN outbox : outbox[i] \in StepRow
  BY Rows DEF Base

\* Once the turn of a row has come, it does not go.
LEMMA ReachedStays ==
  ASSUME Base, Stepping, NEW i \in DOMAIN outbox, Reached(i)
  PROVE  i \in DOMAIN outbox' /\ Reached(i)'
<1>1. RowsKept /\ RowsHaveReasons
  BY RowsGoOn, RecordsGoOn
<1>2. i \in Nat
  BY OutboxRows
<1> SUFFICES ASSUME NEW j \in DOMAIN outbox', j < i, InLine(j)' PROVE outbox'[j].status = "DONE"
  BY <1>1 DEF Reached, RowsKept
<1>3. j \in DOMAIN outbox
  <2>1. ASSUME j \in DOMAIN outbox' \ DOMAIN outbox PROVE j \in Nat /\ i < j
    BY <1>1, <2>1 DEF RowsHaveReasons
  <2> QED BY <1>2, <2>1
<1> QED BY <1>1, <1>3 DEF RowsKept, Reached, InLine

LEMMA TurnsStayTaken ==
  ASSUME Base, TurnsAreTaken, Stepping
  PROVE  TurnsAreTaken'
<1>1. RowsKept /\ RowsHaveReasons /\ ClaimsHaveReasons
  BY RowsGoOn, RecordsGoOn, ClaimsGo
<1>2. ASSUME NEW k \in Workers, worker'[k].at # "idle", InLine(worker[k].step)'
      PROVE  Reached(worker[k].step)'
  <2>1. PICK i : i = worker'[k].step
    OBVIOUS
  <2>2. i \in DOMAIN outbox
    BY <1>1, <1>2, <2>1 DEF ClaimsHaveReasons, Base, ClaimsAreSound
  <2>3. InLine(i)
    BY <1>1, <1>2, <2>1, <2>2 DEF InLine, RowsKept
  <2>4. Reached(i)
    BY <1>1, <1>2, <2>1, <2>3 DEF ClaimsHaveReasons, TurnsAreTaken
  <2>5. Reached(i)'
    BY <2>2, <2>4, ReachedStays
  <2> QED BY <2>1, <2>5 DEF Reached, InLine
<1>3. ASSUME NEW i \in DOMAIN outbox', InLine(i)', outbox'[i].status = "DONE"
      PROVE  Reached(i)'
  <2>1. i \in DOMAIN outbox
    BY <1>1, <1>3 DEF RowsHaveReasons
  <2>2. Finished(i) /\ InLine(i)
    BY <1>1, <1>3, <2>1 DEF RowsKept, InLine
  <2>3. Reached(i)
    BY <2>1, <2>2 DEF Finished, TurnsAreTaken
  <2> QED BY <2>1, <2>3, ReachedStays
<1> QED BY <1>2, <1>3 DEF TurnsAreTaken

\* A row in line that is finished was so before, or has its effect now.
LEMMA FinishedBefore ==
  ASSUME Base, Stepping, NEW i \in DOMAIN outbox', InLine(i)', Finished(i)'
  PROVE  /\ i \in DOMAIN outbox /\ outbox'[i].kind = outbox[i].kind
         /\ outbox'[i].operation = outbox[i].operation
         /\ Finished(i) \/ \E k \in Workers : HasEffectInLine(k) /\ StepOf(k) = outbox[i] /\ worker[k].step = i
                                              /\ worker[k].at # "idle"
<1>1. RowsKept /\ RowsHaveReasons /\ ClaimsHaveReasons
  BY RowsGoOn, RecordsGoOn, ClaimsGo
<1>2. CASE outbox'[i].status = "DONE"
  <2>1. i \in DOMAIN outbox
    BY <1>1, <1>2 DEF RowsHaveReasons
  <2> QED BY <1>1, <1>2, <2>1 DEF RowsKept, InLine
<1>3. CASE outbox'[i].status # "DONE"
  <2>1. PICK k \in Workers : worker'[k].at = "applied" /\ worker'[k].step = i
    BY <1>3 DEF Finished
  <2>2. worker[k].at # "idle" /\ worker[k].step = i
    BY <1>1, <2>1 DEF ClaimsHaveReasons
  <2>3. i \in DOMAIN outbox
    BY <2>2 DEF Base, ClaimsAreSound
  <2>4. InLine(i)
    BY <1>1, <2>3 DEF RowsKept, InLine
  <2>5. worker[k].at = "applied" \/ HasEffectInLine(k)
    BY <1>1, <2>1, <2>4 DEF ClaimsHaveReasons
  <2> QED BY <1>1, <2>2, <2>3, <2>5 DEF RowsKept, Finished, StepOf
<1> QED BY <1>2, <1>3

\* A save of a withdrawal or a return finds the work order in execution.
LEMMA SavesInExecution ==
  ASSUME Base, (\E w \in Withdrawals : SavesWithdrawal(w)) \/ (\E r \in Returns : RecordsReturn(r))
  PROVE  wo.status = "IN_EXECUTION"
  BY DEF Base, VersionsTell, SavesWithdrawal, RecordsReturn

LEMMA ClosingStaysLast ==
  ASSUME Base, ClosingIsLast, Stepping
  PROVE  ClosingIsLast'
<1>1. RowsKept /\ RowsHaveReasons /\ WoHasReasons
  BY RowsGoOn, RecordsGoOn
<1>2. ASSUME NEW i \in DOMAIN outbox, outbox'[i].kind \in {"SETTLE", "WRITE_OFF"}
      PROVE  /\ outbox'[i].kind = "SETTLE" => wo'.status = "DELIVERED"
             /\ outbox'[i].kind = "WRITE_OFF" => wo'.status = "CANCELED"
             /\ \A j \in DOMAIN outbox' : j > i => ~InLine(j)'
  <2>1. outbox'[i].kind = outbox[i].kind
    BY <1>1 DEF RowsKept
  <2>2. wo.status \in {"DELIVERED", "CANCELED"}
    BY <1>2, <2>1 DEF ClosingIsLast
  <2>3. wo'.status = wo.status
    BY <1>1, <2>2 DEF WoHasReasons
  <2>4. \A n \in DOMAIN outbox' \ DOMAIN outbox : outbox'[n].kind = "UNDO_CONSUMPTION"
    BY <1>1, <2>2, SavesInExecution DEF RowsHaveReasons, Records
  <2>5. \A j \in DOMAIN outbox' : j > i => ~InLine(j)'
    BY <1>1, <1>2, <2>1, <2>4 DEF ClosingIsLast, InLine, RowsKept
  <2> QED BY <1>2, <2>1, <2>3, <2>5 DEF ClosingIsLast
<1>3. ASSUME NEW i \in DOMAIN outbox' \ DOMAIN outbox, outbox'[i].kind \in {"SETTLE", "WRITE_OFF"}
      PROVE  /\ outbox'[i].kind = "SETTLE" => wo'.status = "DELIVERED"
             /\ outbox'[i].kind = "WRITE_OFF" => wo'.status = "CANCELED"
             /\ \A j \in DOMAIN outbox' : j > i => ~InLine(j)'
  <2>1. Records(i) /\ DOMAIN outbox' = DOMAIN outbox \cup {i} /\ i \in Nat
        /\ \A j \in DOMAIN outbox : j < i
    BY <1>1, <1>3 DEF RowsHaveReasons
  <2>2. DOMAIN outbox \subseteq Nat
    BY OutboxRows
  <2>3. \A j \in DOMAIN outbox' : ~(j > i)
    BY <2>1, <2>2
  <2> QED BY <1>3, <2>1, <2>3 DEF Records
<1> QED BY <1>2, <1>3 DEF ClosingIsLast

LEMMA MovementRows ==
  ASSUME Base
  PROVE  /\ IsFiniteSet(DOMAIN movements) /\ SavedRows \in SUBSET DOMAIN movements
         /\ \A m \in DOMAIN movements :
              /\ movements[m].operation \in Withdrawals /\ movements[m].operation \in Operations
              /\ Left[m] \in Nat /\ movements[m].confirmed \in BOOLEAN
              /\ movements[m].status \in MovementStatus
              /\ movements[m].lost \in Nat /\ movements[m].quantity \in Nat
              /\ \A op \in Operations : movements[m].returned[op] \in Nat
  BY LedgerRows, SoundRows, OperationsAreFinite, ZenonT(60) DEF Base, LedgerSound, Consumption, SavedRows

\* Only the save of a withdrawal adds to what is saved.
LEMMA SavedRowsGrow ==
  ASSUME Base, IInv, Stepping
  PROVE  /\ SavedRows \subseteq SavedRows'
         /\ (\A w \in Withdrawals : ~SavesWithdrawal(w)) => SavedRows' = SavedRows
<1>1. LedgerGrows /\ LedgerHasReasons /\ LedgerSound'
  BY LedgerGoesOn, LedgerStaysSound
<1>2. SavedRows \subseteq SavedRows'
  BY <1>1, RecordsStay DEF SavedRows, LedgerGrows
<1>3. ASSUME \A w \in Withdrawals : ~SavesWithdrawal(w), NEW m \in SavedRows' PROVE m \in SavedRows
  <2>1. m \in DOMAIN movements' /\ Saved(movements'[m].operation)
    BY <1>3, RecordsStay DEF SavedRows
  <2>2. m \in DOMAIN movements
    <3> SUFFICES ASSUME m \notin DOMAIN movements PROVE FALSE
      OBVIOUS
    <3>1. Consumes(movements'[m].operation)
      BY <1>1, <2>1 DEF LedgerHasReasons
    <3>2. movements'[m].operation \in Withdrawals
      <4>1. movements' \in Seq(Consumption)
        BY <1>1 DEF LedgerSound
      <4>2. movements'[m] \in Consumption
        BY <2>1, <4>1, SeqFunction
      <4> QED BY <4>2 DEF Consumption
    <3> QED BY <2>1, <3>1, <3>2 DEF Consumes, IInv, RequestsGoInOrder
  <2>3. movements'[m].operation = movements[m].operation
    BY <1>1, <2>2 DEF LedgerGrows
  <2> QED BY <2>1, <2>2, <2>3 DEF SavedRows
<1> QED BY <1>2, <1>3

\* While the visit is closed, nothing more is saved.
LEMMA ClosedSavesNothing ==
  ASSUME Base, ClosingIsLast, NEW i \in DOMAIN outbox, outbox[i].kind \in {"SETTLE", "WRITE_OFF"}
  PROVE  \A w \in Withdrawals : ~SavesWithdrawal(w)
<1>1. wo.status # "IN_EXECUTION"
  BY DEF ClosingIsLast
<1> QED BY <1>1, SavesInExecution

\* What was recorded in line before a step whose turn has come has had its effect.
LEMMA DoneBefore ==
  ASSUME FinishedTookEffect, NEW i \in DOMAIN outbox, Reached(i),
         NEW j \in DOMAIN outbox, j < i
  PROVE  /\ outbox[j].kind = "CONFIRM_CONSUMPTION" =>
              \A m \in OfOperation(outbox[j].operation) : movements[m].confirmed
         /\ outbox[j].kind = "RESTORE" => HasReturnOf(outbox[j].operation)
<1>1. ASSUME InLine(j) PROVE Finished(j)
  BY <1>1 DEF Reached, Finished
<1> QED BY <1>1 DEF FinishedTookEffect, InLine

\* When the turn of the closing has come, all that was saved is confirmed, all
\* that was returned is restored, and the other kind of closing did nothing.
LEMMA ClosedVisit ==
  ASSUME Base, ClosingIsLast, FinishedTookEffect, EffectsHaveSteps,
         NEW i \in DOMAIN outbox, outbox[i].kind \in {"SETTLE", "WRITE_OFF"}, Reached(i)
  PROVE  /\ \A m \in SavedRows :
              /\ movements[m].confirmed
              /\ outbox[i].kind = "SETTLE" => movements[m].status # "WRITTEN_OFF"
              /\ outbox[i].kind = "WRITE_OFF" => movements[m].status # "SETTLED"
         /\ \A r : Recorded("RESTORE", r) => HasReturnOf(r)
<1>1. DOMAIN outbox \subseteq Nat
  BY OutboxRows
<1>2. \A j \in DOMAIN outbox : InLine(j) => j < i \/ j = i
  BY <1>1 DEF ClosingIsLast
<1>3. ASSUME NEW m \in SavedRows PROVE movements[m].confirmed
  <2>1. m \in DOMAIN movements /\ m \in OfOperation(movements[m].operation)
    BY DEF SavedRows, OfOperation
  <2>2. PICK j \in DOMAIN outbox : Is(j, "CONFIRM_CONSUMPTION", movements[m].operation)
    BY DEF SavedRows, Saved, Recorded, Is
  <2>3. j < i
    BY <1>2, <2>2 DEF Is, InLine
  <2> QED BY <2>1, <2>2, <2>3, DoneBefore DEF Is
<1>4. ASSUME NEW m \in SavedRows
      PROVE  /\ outbox[i].kind = "SETTLE" => movements[m].status # "WRITTEN_OFF"
             /\ outbox[i].kind = "WRITE_OFF" => movements[m].status # "SETTLED"
  <2>1. m \in DOMAIN movements
    BY DEF SavedRows
  <2> QED BY <2>1 DEF EffectsHaveSteps, ClosingIsLast
<1>5. ASSUME NEW r, Recorded("RESTORE", r) PROVE HasReturnOf(r)
  <2>1. PICK j \in DOMAIN outbox : Is(j, "RESTORE", r)
    BY <1>5 DEF Recorded, Is
  <2>2. j < i
    BY <1>2, <2>1 DEF Is, InLine
  <2> QED BY <2>1, <2>2, DoneBefore DEF Is
<1> QED BY <1>3, <1>4, <1>5

\* When the turn of a restore has come that has had no effect yet, the open
\* consumptions are those that were saved before it was recorded.
LEMMA OpenAtTurn ==
  ASSUME Base, ClosingIsLast, FinishedTookEffect, EffectsHaveSteps,
         NEW i \in DOMAIN outbox, outbox[i].kind = "RESTORE", Reached(i),
         ~HasReturnOf(outbox[i].operation)
  PROVE  OpenRows = SavedBefore(i)
<1>1. DOMAIN outbox \subseteq Nat /\ InLine(i) /\ outbox[i].status # "DONE"
  <2>1. outbox[i].status # "DONE"
    BY DEF FinishedTookEffect, Finished
  <2> QED BY <2>1, OutboxRows DEF InLine
<1>2. \A j \in DOMAIN outbox : Reached(j) => ~(i < j)
  BY <1>1 DEF Reached
<1>3. ASSUME NEW m \in OpenRows PROVE m \in SavedBefore(i)
  <2>1. m \in DOMAIN movements /\ movements[m].confirmed
    BY DEF OpenRows, Open
  <2>2. PICK j \in DOMAIN outbox : Is(j, "CONFIRM_CONSUMPTION", movements[m].operation) /\ Reached(j)
    BY <2>1 DEF EffectsHaveSteps
  <2>3. j < i
    BY <1>1, <1>2, <2>2 DEF Is
  <2> QED BY <2>1, <2>2, <2>3 DEF SavedBefore
<1>4. ASSUME NEW m \in SavedBefore(i) PROVE m \in OpenRows
  <2>1. PICK j \in DOMAIN outbox : j < i /\ Is(j, "CONFIRM_CONSUMPTION", movements[m].operation)
    BY DEF SavedBefore
  <2>2. m \in DOMAIN movements /\ m \in OfOperation(movements[m].operation)
    BY DEF SavedBefore, OfOperation
  <2>3. movements[m].confirmed
    BY <2>1, <2>2, DoneBefore DEF Is
  <2>4. ASSUME NEW c \in DOMAIN outbox, outbox[c].kind \in {"SETTLE", "WRITE_OFF"}, Reached(c)
        PROVE  FALSE
    <3>1. c < i
      BY <1>1, <1>2, <2>4
    <3> QED BY <1>1, <2>4, <3>1 DEF ClosingIsLast
  <2>5. movements[m].status = "PENDING"
    BY <2>2, <2>4, MovementRows DEF EffectsHaveSteps, MovementStatus
  <2> QED BY <2>2, <2>3, <2>5 DEF OpenRows, Open
<1> QED BY <1>3, <1>4

\* What a claim that has an effect in line is about.
LEMMA EffectTurn ==
  ASSUME Base, TurnsAreTaken, NEW k \in Workers, HasEffectInLine(k)
  PROVE  /\ worker[k].step \in DOMAIN outbox /\ StepOf(k) = outbox[worker[k].step]
         /\ InLine(worker[k].step) /\ Reached(worker[k].step)
         /\ StepOf(k).kind = "RESTORE" => StepOf(k).operation \in Returns
<1>1. worker[k].at # "idle" /\ StepOf(k).kind \in {"CONFIRM_CONSUMPTION", "RESTORE", "SETTLE", "WRITE_OFF"}
  BY DEF HasEffectInLine, Confirms, Restores, Settles, WritesOff, Has
<1>2. worker[k].step \in DOMAIN outbox /\ StepOf(k) = outbox[worker[k].step]
  BY <1>1 DEF Base, ClaimsAreSound, StepOf
<1>3. InLine(worker[k].step)
  BY <1>1, <1>2 DEF InLine
<1> QED BY <1>1, <1>2, <1>3 DEF TurnsAreTaken, Base, RowsAreNamed

-------------------------------------------------------------------------------
(* Effects: each step keeps them, and the step it is for has them. *)

LEMMA NextRows ==
  ASSUME Base, Stepping, NEW m \in DOMAIN movements'
  PROVE  /\ movements'[m] \in Consumption /\ movements'[m].operation \in Withdrawals
         /\ \A op \in Operations : movements'[m].returned[op] \in Nat
         /\ Left'[m] \in Nat
<1>1. LedgerSound'
  BY LedgerStaysSound
<1>2. movements'[m] \in Consumption
  BY <1>1, SeqFunction DEF LedgerSound
<1>3. Remaining(movements'[m]) \in Int /\ Remaining(movements'[m]) >= 0
  BY <1>1, <1>2, LeftOfOne DEF LedgerSound, UnitsAreConserved
<1>4. Left'[m] = Remaining(movements'[m])
  BY DEF Left
<1> QED BY <1>2, <1>3, <1>4 DEF Consumption

LEMMA ReturnsStay ==
  ASSUME Base, Stepping, NEW r \in Operations, HasReturnOf(r)
  PROVE  HasReturnOf(r)'
<1>1. PICK m \in DOMAIN movements : movements[m].returned[r] > 0
  BY DEF HasReturnOf
<1>2. m \in DOMAIN movements' /\ movements'[m].returned[r] >= movements[m].returned[r]
  BY <1>1, LedgerGoesOn DEF LedgerGrows
<1>3. movements'[m].returned[r] > 0
  BY <1>1, <1>2, MovementRows, NextRows
<1> QED BY <1>2, <1>3 DEF HasReturnOf

\* Nothing more is consumed for a withdrawal that was saved.
LEMMA SavedConsumesNothing ==
  ASSUME Base, IInv, Stepping, NEW w \in Withdrawals, Saved(w)
  PROVE  \A m \in OfOperation(w)' : m \in OfOperation(w)
<1>1. ASSUME NEW m \in OfOperation(w)' PROVE m \in OfOperation(w)
  <2>1. m \in DOMAIN movements' /\ movements'[m].operation = w
    BY DEF OfOperation
  <2>2. ~Consumes(w)
    BY DEF Consumes, IInv, RequestsGoInOrder
  <2>3. m \in DOMAIN movements /\ movements'[m].operation = movements[m].operation
    BY <2>1, <2>2, LedgerGoesOn DEF LedgerHasReasons, LedgerGrows
  <2> QED BY <2>1, <2>3 DEF OfOperation
<1> QED BY <1>1

LEMMA RestoreReturns ==
  ASSUME LedgerSound, NEW r \in Returns, Restore(r)
  PROVE  HasReturnOf(r)'
<1>1. CASE HasReturnOf(r)
  BY <1>1 DEF Restore, ledgerVars, HasReturnOf
<1>2. CASE ~HasReturnOf(r)
  <2>1. Returned(r, Draw(r)) /\ ~(Outstanding(OpenRows) < Units[r])
    BY <1>2 DEF Restore, Uncovered
  <2>2. Outstanding(OpenRows) \in Nat /\ Units[r] \in Nat
    <3>1. Outstanding(OpenRows) \in Nat
      <4>1. IsFiniteSet(OpenRows) /\ \A i \in OpenRows : Left[i] \in Nat
        BY OpenRowsAreFinite
      <4> QED BY <4>1, SumIsNat DEF Outstanding
    <3> QED BY <3>1, OperationsAreFinite
  <2>3. PICK i \in OpenRows : Draw(r)[i] > 0
    BY <2>1, <2>2, DrawIsWhole
  <2>4. i \in DOMAIN movements /\ RowsGive(r, Draw(r))
    BY <2>1, RestoreKeepsUnits, OpenRowsAreFinite
  <2>5. movements[i].returned[r] \in Nat /\ Draw(r)[i] \in Nat
    BY <2>4, LedgerRows, DrawOfOne, OperationsAreFinite DEF LedgerSound, Consumption
  <2>6. i \in DOMAIN movements' /\ movements'[i].returned[r] > 0
    BY <2>3, <2>4, <2>5 DEF RowsGive
  <2> QED BY <2>6 DEF HasReturnOf
<1> QED BY <1>1, <1>2

LEMMA EffectsStayTaken ==
  ASSUME Base, IInv, TurnsAreTaken, ClosingIsLast, FinishedTookEffect, EffectsHaveSteps,
         ReadingsHold, Stepping
  PROVE  FinishedTookEffect'
<1> SUFFICES ASSUME NEW i \in DOMAIN outbox', Finished(i)', InLine(i)'
             PROVE  /\ outbox'[i].kind = "CONFIRM_CONSUMPTION" =>
                         \A m \in OfOperation(outbox[i].operation)' : movements'[m].confirmed
                    /\ outbox'[i].kind = "RESTORE" => HasReturnOf(outbox[i].operation)'
                    /\ outbox'[i].kind = "SETTLE" => \A m \in SavedRows' : movements'[m].status = "SETTLED"
                    /\ outbox'[i].kind = "WRITE_OFF" =>
                         \A m \in SavedRows' : Left'[m] = 0 \/ movements'[m].status = "WRITTEN_OFF"
  BY DEF FinishedTookEffect, InLine
<1>1. PICK op : op = outbox[i].operation
  OBVIOUS
<1>2. /\ i \in DOMAIN outbox /\ outbox'[i].kind = outbox[i].kind /\ outbox'[i].operation = op
      /\ Finished(i) \/ \E k \in Workers : HasEffectInLine(k) /\ StepOf(k) = outbox[i]
                                           /\ worker[k].step = i
  BY <1>1, FinishedBefore
<1>3. LedgerGrows /\ LedgerSound /\ LedgerSound'
  BY LedgerGoesOn, LedgerStaysSound DEF Base
<1>4. ASSUME outbox[i].kind \in {"SETTLE", "WRITE_OFF"} PROVE SavedRows' = SavedRows
  BY <1>2, <1>4, ClosedSavesNothing, SavedRowsGrow
<1>5. ASSUME outbox[i].kind = "CONFIRM_CONSUMPTION", NEW m \in OfOperation(op)'
      PROVE  movements'[m].confirmed
  <2>1. op \in Withdrawals /\ Saved(op)
    BY <1>1, <1>2, <1>5 DEF Base, RowsAreNamed, Saved, Recorded
  <2>2. m \in OfOperation(op)
    BY <1>5, <2>1, SavedConsumesNothing
  <2>3. CASE Finished(i)
    <3>1. movements[m].confirmed
      BY <1>1, <1>2, <1>5, <2>2, <2>3 DEF FinishedTookEffect
    <3> QED BY <1>3, <2>2, <3>1 DEF LedgerGrows, OfOperation
  <2>4. ASSUME NEW k \in Workers, HasEffectInLine(k), StepOf(k) = outbox[i]
        PROVE  movements'[m].confirmed
    <3>1. ConfirmConsumption(op)
      BY <1>1, <1>5, <2>4 DEF HasEffectInLine, Confirms, Restores, Settles, WritesOff, Has
    <3> QED BY <1>3, <2>2, <3>1, ConfirmKeepsUnits DEF OfOperation
  <2> QED BY <1>2, <2>3, <2>4
<1>6. ASSUME outbox[i].kind = "RESTORE" PROVE HasReturnOf(op)'
  <2>1. op \in Returns /\ op \in Operations
    BY <1>1, <1>2, <1>6, OperationsAreFinite DEF Base, RowsAreNamed
  <2>2. CASE Finished(i)
    <3>1. HasReturnOf(op)
      BY <1>1, <1>2, <1>6, <2>2 DEF FinishedTookEffect
    <3> QED BY <2>1, <3>1, ReturnsStay
  <2>3. ASSUME NEW k \in Workers, HasEffectInLine(k), StepOf(k) = outbox[i]
        PROVE  HasReturnOf(op)'
    <3>1. Restore(op)
      BY <1>1, <1>6, <2>3 DEF HasEffectInLine, Confirms, Restores, Settles, WritesOff, Has
    <3> QED BY <1>3, <2>1, <3>1, RestoreReturns
  <2> QED BY <1>2, <2>2, <2>3
<1>7. ASSUME outbox[i].kind = "SETTLE", NEW m \in SavedRows' PROVE movements'[m].status = "SETTLED"
  <2>1. m \in SavedRows /\ m \in DOMAIN movements
    BY <1>4, <1>7 DEF SavedRows
  <2>2. CASE Finished(i)
    <3>1. movements[m].status = "SETTLED"
      BY <1>2, <1>7, <2>1, <2>2 DEF FinishedTookEffect
    <3> QED BY <1>3, <2>1, <3>1 DEF LedgerGrows
  <2>3. ASSUME NEW k \in Workers, HasEffectInLine(k), StepOf(k) = outbox[i], worker[k].step = i
        PROVE  movements'[m].status = "SETTLED"
    <3>1. Settle
      BY <1>7, <2>3 DEF HasEffectInLine, Confirms, Restores, Settles, WritesOff, Has
    <3>2. Reached(i)
      BY <2>3, EffectTurn
    <3>3. movements[m].confirmed /\ movements[m].status # "WRITTEN_OFF"
      BY <1>2, <1>7, <2>1, <3>2, ClosedVisit
    <3>4. movements'[m].status = IF Open(movements[m]) THEN "SETTLED" ELSE movements[m].status
      BY <1>3, <2>1, <3>1, SettleKeepsUnits
    <3> QED BY <2>1, <3>3, <3>4, MovementRows DEF Open, MovementStatus
  <2> QED BY <1>2, <2>2, <2>3
<1>8. ASSUME outbox[i].kind = "WRITE_OFF", NEW m \in SavedRows'
      PROVE  Left'[m] = 0 \/ movements'[m].status = "WRITTEN_OFF"
  <2>1. m \in SavedRows /\ m \in DOMAIN movements /\ m \in DOMAIN movements'
    BY <1>3, <1>4, <1>8 DEF SavedRows, LedgerGrows
  <2>2. ASSUME Left[m] = 0 PROVE Left'[m] = 0
    <3>1. Left'[m] \in Nat
      BY <2>1, NextRows
    <3> QED BY <1>3, <2>1, <2>2, <3>1 DEF LedgerGrows
  <2>3. ASSUME movements[m].status = "WRITTEN_OFF" PROVE movements'[m].status = "WRITTEN_OFF"
    BY <1>3, <2>1, <2>3 DEF LedgerGrows
  <2>4. CASE Finished(i)
    <3>1. Left[m] = 0 \/ movements[m].status = "WRITTEN_OFF"
      BY <1>2, <1>8, <2>1, <2>4 DEF FinishedTookEffect
    <3> QED BY <2>2, <2>3, <3>1
  <2>5. ASSUME NEW k \in Workers, HasEffectInLine(k), StepOf(k) = outbox[i], worker[k].step = i
        PROVE  Left'[m] = 0 \/ movements'[m].status = "WRITTEN_OFF"
    <3>1. PICK candidates : candidates = worker[k].candidates
      OBVIOUS
    <3>2. WriteOff(candidates) /\ worker[k].at = "reading" /\ StepOf(k).kind = "WRITE_OFF"
      BY <1>8, <2>5, <3>1 DEF HasEffectInLine, Confirms, Restores, Settles, WritesOff, Has
    <3>3. m \in DOMAIN candidates \/ Left[m] = 0 \/ movements[m].status = "WRITTEN_OFF"
      BY <2>1, <3>1, <3>2 DEF ReadingsHold
    <3>4. movements[m].status # "SETTLED"
      BY <1>2, <1>8, <2>1, <2>5, EffectTurn, ClosedVisit
    <3>5. \A j \in DOMAIN candidates : candidates[j] \in Nat
      BY <3>1 DEF Base, ClaimsAreSound
    <3>6. m \in DOMAIN candidates /\ movements[m].status = "PENDING" => movements'[m].status = "WRITTEN_OFF"
      BY <1>3, <2>1, <3>2, <3>5, WriteOffKeepsUnits
    <3> QED BY <2>1, <2>2, <2>3, <3>3, <3>4, <3>6, MovementRows DEF MovementStatus
  <2> QED BY <1>2, <2>4, <2>5
<1> QED BY <1>1, <1>2, <1>5, <1>6, <1>7, <1>8

LEMMA EffectsKeepSteps ==
  ASSUME Base, TurnsAreTaken, EffectsHaveSteps, Stepping
  PROVE  EffectsHaveSteps'
<1>1. LedgerGrows /\ LedgerHasReasons /\ RowsKept
  BY LedgerGoesOn, RowsGoOn
<1>2. ASSUME NEW m \in DOMAIN movements' \ DOMAIN movements
      PROVE  ~movements'[m].confirmed /\ movements'[m].status = "PENDING"
  BY <1>1 DEF LedgerHasReasons
<1>3. ASSUME NEW k \in Workers, HasEffectInLine(k)
      PROVE  \E i \in DOMAIN outbox' : /\ Reached(i)' /\ outbox'[i].kind = StepOf(k).kind
                                       /\ outbox'[i].operation = StepOf(k).operation
  <2>1. PICK i \in DOMAIN outbox : i = worker[k].step /\ Reached(i) /\ StepOf(k) = outbox[i]
    BY <1>3, EffectTurn
  <2>2. i \in DOMAIN outbox' /\ Reached(i)'
    BY <2>1, ReachedStays
  <2> QED BY <1>1, <2>1, <2>2 DEF RowsKept
<1>4. ASSUME NEW m \in DOMAIN movements, movements'[m].confirmed
      PROVE  \E i \in DOMAIN outbox' : Is(i, "CONFIRM_CONSUMPTION", movements[m].operation)' /\ Reached(i)'
  <2>1. CASE movements[m].confirmed
    <3>1. PICK i \in DOMAIN outbox :
            Is(i, "CONFIRM_CONSUMPTION", movements[m].operation) /\ Reached(i)
      BY <2>1 DEF EffectsHaveSteps
    <3>2. i \in DOMAIN outbox' /\ Reached(i)'
      BY <3>1, ReachedStays
    <3>3. outbox'[i].kind = "CONFIRM_CONSUMPTION" /\ outbox'[i].operation = movements[m].operation
      BY <1>1, <3>1 DEF RowsKept, Is
    <3>4. movements'[m].operation = movements[m].operation
      BY <1>1 DEF LedgerGrows
    <3> QED BY <3>2, <3>3, <3>4 DEF Is
  <2>2. ASSUME NEW k \in Workers, Confirms(k), movements[m].operation = StepOf(k).operation
        PROVE  \E i \in DOMAIN outbox' : Is(i, "CONFIRM_CONSUMPTION", movements[m].operation)' /\ Reached(i)'
    <3>1. StepOf(k).kind = "CONFIRM_CONSUMPTION" /\ HasEffectInLine(k)
      BY <2>2 DEF Confirms, Has, HasEffectInLine
    <3>2. PICK i \in DOMAIN outbox' :
            /\ Reached(i)' /\ outbox'[i].kind = "CONFIRM_CONSUMPTION"
            /\ outbox'[i].operation = movements[m].operation
      BY <1>3, <2>2, <3>1
    <3>3. movements'[m].operation = movements[m].operation
      BY <1>1 DEF LedgerGrows
    <3> QED BY <3>2, <3>3 DEF Is
  <2> QED BY <1>1, <1>4, <2>1, <2>2 DEF LedgerHasReasons
<1>5. ASSUME NEW m \in DOMAIN movements, NEW kind \in {"SETTLE", "WRITE_OFF"},
             movements'[m].status = IF kind = "SETTLE" THEN "SETTLED" ELSE "WRITTEN_OFF"
      PROVE  \E i \in DOMAIN outbox' : outbox'[i].kind = kind /\ Reached(i)'
  <2>1. CASE movements'[m].status = movements[m].status
    <3>1. PICK i \in DOMAIN outbox : outbox[i].kind = kind /\ Reached(i)
      BY <1>5, <2>1 DEF EffectsHaveSteps
    <3>2. i \in DOMAIN outbox' /\ Reached(i)'
      BY <3>1, ReachedStays
    <3> QED BY <1>1, <3>1, <3>2 DEF RowsKept
  <2>2. ASSUME NEW k \in Workers, (Settles(k) /\ kind = "SETTLE") \/ (WritesOff(k) /\ kind = "WRITE_OFF")
        PROVE  \E i \in DOMAIN outbox' : outbox'[i].kind = kind /\ Reached(i)'
    <3>1. StepOf(k).kind = kind /\ HasEffectInLine(k)
      BY <2>2 DEF Settles, WritesOff, Has, HasEffectInLine
    <3> QED BY <1>3, <3>1
  <2> QED BY <1>1, <1>5, <2>1, <2>2 DEF LedgerHasReasons
<1>6. ASSUME NEW m \in DOMAIN movements'
      PROVE  /\ movements'[m].confirmed =>
                  \E i \in DOMAIN outbox' : Is(i, "CONFIRM_CONSUMPTION", movements[m].operation)' /\ Reached(i)'
             /\ movements'[m].status = "SETTLED" =>
                  \E i \in DOMAIN outbox' : outbox'[i].kind = "SETTLE" /\ Reached(i)'
             /\ movements'[m].status = "WRITTEN_OFF" =>
                  \E i \in DOMAIN outbox' : outbox'[i].kind = "WRITE_OFF" /\ Reached(i)'
  <2>1. CASE m \in DOMAIN movements
    BY <1>4, <1>5, <2>1
  <2>2. CASE m \notin DOMAIN movements
    BY <1>2, <2>2
  <2> QED BY <2>1, <2>2
<1> QED BY <1>6 DEF EffectsHaveSteps

LEMMA ReturnsKeepReasons ==
  ASSUME Base, IInv, TurnsAreTaken, ReturnsHaveReasons, Stepping
  PROVE  ReturnsHaveReasons'
<1>1. LedgerGrows /\ LedgerHasReasons
  BY LedgerGoesOn
<1>2. ASSUME NEW m \in DOMAIN movements', NEW op \in Operations, movements'[m].returned[op] > 0
      PROVE  /\ op \in Returns => Recorded("RESTORE", op)'
             /\ \/ op = movements'[m].operation
                \/ op \in Returns /\ Saved(movements[m].operation)'
  <2>1. m \in DOMAIN movements /\ movements'[m].operation = movements[m].operation
    BY <1>1, <1>2 DEF LedgerHasReasons, LedgerGrows
  <2>2. CASE movements'[m].returned[op] = movements[m].returned[op]
    <3>1. op \in Returns => HasReturnOf(op)
      BY <1>2, <2>1, <2>2 DEF HasReturnOf
    <3>2. op \in Returns => Recorded("RESTORE", op)
      BY <3>1 DEF ReturnsHaveReasons
    <3>3. op = movements[m].operation \/ (op \in Returns /\ Saved(movements[m].operation))
      BY <1>2, <2>1, <2>2 DEF ReturnsHaveReasons
    <3>4. ASSUME NEW w, w = movements[m].operation, Saved(w) PROVE Saved(movements[m].operation)'
      <4>1. Saved(w)' /\ movements'[m].operation = w
        BY <2>1, <3>4, RecordsStay
      <4> QED BY <4>1 DEF Saved, Recorded
    <3> QED BY <2>1, <3>2, <3>3, <3>4, RecordsStay
  <2>3. CASE op = movements[m].operation
    BY <2>1, <2>3, MovementRows, OperationsAreFinite
  <2>4. ASSUME NEW k \in Workers, Restores(k), op = StepOf(k).operation, m \in OpenRows
        PROVE  op \in Returns /\ Recorded("RESTORE", op)' /\ Saved(movements[m].operation)'
    <3>1. StepOf(k).kind = "RESTORE" /\ HasEffectInLine(k)
      BY <2>4 DEF Restores, Has, HasEffectInLine
    <3>2. op \in Returns /\ Recorded("RESTORE", op)
      BY <2>4, <3>1, EffectTurn DEF Recorded
    <3>3. Saved(movements[m].operation)
      BY <2>4 DEF IInv, ConfirmedIsSaved, OpenRows, Open
    <3>4. Saved(movements[m].operation)'
      <4>1. PICK w : w = movements[m].operation
        OBVIOUS
      <4>2. Saved(w)' /\ movements'[m].operation = w
        BY <2>1, <3>3, <4>1, RecordsStay
      <4> QED BY <4>2 DEF Saved, Recorded
    <3> QED BY <3>2, <3>4, RecordsStay
  <2> QED BY <1>1, <2>1, <2>2, <2>3, <2>4 DEF LedgerHasReasons
<1>3. \A r \in Returns : HasReturnOf(r)' => Recorded("RESTORE", r)'
  BY <1>2, OperationsAreFinite DEF HasReturnOf
<1> QED BY <1>2, <1>3 DEF ReturnsHaveReasons

LEMMA ConsumedStaysWhole ==
  ASSUME Base, IInv, ConsumedIsWhole, Stepping
  PROVE  ConsumedIsWhole'
<1> SUFFICES ASSUME NEW w \in Withdrawals, request'[w].at = "consumed"
             PROVE  \E m \in DOMAIN movements' : OfOperation(w)' = {m} /\ movements'[m].quantity = Units[w]
  BY DEF ConsumedIsWhole
<1>1. LedgerGrows /\ LedgerHasReasons
  BY LedgerGoesOn
<1>2. CASE Consumes(w)
  <2>1. OfOperation(w) = {}
    BY <1>2 DEF Consumes, IInv, RequestsGoInOrder
  <2>2. /\ DOMAIN movements' = DOMAIN movements \cup {Len(movements) + 1}
        /\ movements'[Len(movements) + 1].operation = w
        /\ movements'[Len(movements) + 1].quantity = Units[w]
    <3>1. Consume(w) /\ LedgerSound
      BY <1>2 DEF Consumes, Base
    <3>2. /\ DOMAIN movements' = DOMAIN movements \cup {Len(movements) + 1}
          /\ movements'[Len(movements) + 1] =
               [operation |-> w, quantity |-> Units[w], status |-> "PENDING", confirmed |-> FALSE,
                returned |-> [op \in Operations |-> 0], lost |-> 0]
      BY <3>1, ConsumeKeepsUnits
    <3> QED BY <3>2
  <2>3. OfOperation(w)' = {Len(movements) + 1}
    <3>1. \A m \in DOMAIN movements : movements'[m].operation # w
      BY <1>1, <2>1 DEF LedgerGrows, OfOperation
    <3> QED BY <2>2, <3>1 DEF OfOperation
  <2> QED BY <2>2, <2>3
<1>3. CASE ~Consumes(w)
  <2>1. request[w].at = "consumed"
    BY <1>3 DEF Stepping, Rests, RecordsClosing, Consumes, SavesWithdrawal, Undoes, RecordsReturn,
       Confirms, Restores, Settles, WritesOff, Has, ReadsToWriteOff
  <2>2. PICK m \in DOMAIN movements : OfOperation(w) = {m} /\ movements[m].quantity = Units[w]
    BY <2>1 DEF ConsumedIsWhole
  <2>3. OfOperation(w)' = OfOperation(w)
    <3>1. \A i \in DOMAIN movements' : i \notin DOMAIN movements => movements'[i].operation # w
      BY <1>1, <1>3 DEF LedgerHasReasons
    <3> QED BY <1>1, <3>1 DEF LedgerGrows, OfOperation
  <2> QED BY <1>1, <2>2, <2>3 DEF LedgerGrows
<1> QED BY <1>2, <1>3

\* Who undoes a withdrawal finds it unsaved.
LEMMA UndoesUnsaved ==
  ASSUME IInv, NEW w \in Withdrawals, Undoes(w)
  PROVE  ~Saved(w)
<1>1. CASE request[w].at = "returning"
  BY <1>1 DEF IInv, RequestsGoInOrder
<1>2. ASSUME NEW k \in Workers, worker[k].at # "idle", StepOf(k).kind = "UNDO_CONSUMPTION",
             StepOf(k).operation = w
      PROVE  ~Saved(w)
  BY <1>2 DEF IInv, ClaimsExcludeSaves
<1> QED BY <1>1, <1>2 DEF Undoes

LEMMA LostStaysWrittenOff ==
  ASSUME Base, IInv, LostIsWrittenOff, ReadingsHold, Stepping
  PROVE  LostIsWrittenOff'
<1>1. LedgerGrows /\ LedgerHasReasons
  BY LedgerGoesOn
<1> SUFFICES ASSUME NEW m \in DOMAIN movements'
             PROVE  movements'[m].lost = IF movements'[m].status = "WRITTEN_OFF" THEN Left'[m] ELSE 0
  BY DEF LostIsWrittenOff
<1>2. CASE m \notin DOMAIN movements
  BY <1>1, <1>2 DEF LedgerHasReasons
<1>3. CASE m \in DOMAIN movements
  <2>1. movements[m].lost = IF movements[m].status = "WRITTEN_OFF" THEN Left[m] ELSE 0
    BY <1>3 DEF LostIsWrittenOff
  <2>2. CASE movements[m].status = "WRITTEN_OFF"
    <3>1. movements'[m].status = "WRITTEN_OFF" /\ movements'[m].lost = movements[m].lost
      BY <1>1, <1>3, <2>2 DEF LedgerGrows
    <3>2. Left'[m] = Left[m]
      <4>1. ~Undoes(movements[m].operation)
        BY <1>3, <2>2, UndoesUnsaved, MovementRows DEF IInv, ConfirmedIsSaved
      <4>2. ~RestoresOpen(m)
        BY <2>2 DEF RestoresOpen, OpenRows, Open
      <4> QED BY <1>1, <1>3, <4>1, <4>2 DEF LedgerHasReasons
    <3> QED BY <2>1, <2>2, <3>1, <3>2
  <2>3. CASE movements[m].status # "WRITTEN_OFF"
    <3>1. CASE movements'[m].status = movements[m].status /\ movements'[m].lost = movements[m].lost
      BY <2>1, <2>3, <3>1
    <3>2. CASE movements'[m].status = "SETTLED" /\ movements'[m].lost = movements[m].lost
      BY <2>1, <2>3, <3>2
    <3>3. ASSUME movements'[m].status = "WRITTEN_OFF", NEW k \in Workers, WritesOff(k),
                 m \in DOMAIN worker[k].candidates,
                 movements'[m].lost = movements[m].lost + worker[k].candidates[m]
          PROVE  movements'[m].lost = Left'[m]
      <4>1. worker[k].candidates[m] = Left[m]
        BY <3>3 DEF ReadingsHold, WritesOff, Has
      <4>2. Left'[m] = Left[m]
        <5>1. PICK candidates : candidates = worker[k].candidates
          OBVIOUS
        <5>2. WriteOff(candidates) /\ \A i \in DOMAIN candidates : candidates[i] \in Nat
          BY <3>3, <5>1 DEF WritesOff, Base, ClaimsAreSound
        <5>3. RowsRemain
          BY <5>2, WriteOffKeepsUnits DEF Base
        <5> QED BY <1>3, <5>3 DEF RowsRemain
      <4>3. Left[m] \in Nat
        BY <1>3, MovementRows
      <4> QED BY <2>1, <2>3, <3>3, <4>1, <4>2, <4>3
    <3> QED BY <1>1, <1>3, <3>1, <3>2, <3>3 DEF LedgerHasReasons
  <2> QED BY <2>2, <2>3
<1> QED BY <1>2, <1>3

\* Once the turn of the closing has come, no saved consumption gives anything back.
LEMMA ClosedKeepsUnits ==
  ASSUME Base, IInv, TurnsAreTaken, ClosingIsLast, FinishedTookEffect, EffectsHaveSteps, Stepping,
         NEW i \in DOMAIN outbox, outbox[i].kind \in {"SETTLE", "WRITE_OFF"}, Reached(i)
  PROVE  SavedRows' = SavedRows /\ \A m \in SavedRows : Left'[m] = Left[m]
<1>1. SavedRows' = SavedRows
  BY ClosedSavesNothing, SavedRowsGrow
<1>2. ASSUME NEW m \in SavedRows PROVE Left'[m] = Left[m]
  <2>1. m \in DOMAIN movements /\ movements[m].operation \in Withdrawals /\ Saved(movements[m].operation)
    BY MovementRows DEF SavedRows
  <2>2. ~Undoes(movements[m].operation)
    BY <2>1, UndoesUnsaved
  <2>3. ~RestoresOpen(m)
    <3> SUFFICES ASSUME NEW k \in Workers, Restores(k), ~HasReturnOf(StepOf(k).operation) PROVE FALSE
      BY DEF RestoresOpen
    <3>1. StepOf(k).kind = "RESTORE" /\ HasEffectInLine(k)
      BY DEF Restores, Has, HasEffectInLine
    <3>2. Recorded("RESTORE", StepOf(k).operation)
      BY <3>1, EffectTurn DEF Recorded
    <3> QED BY <3>2, ClosedVisit
  <2> QED BY <2>1, <2>2, <2>3, LedgerGoesOn DEF LedgerHasReasons
<1> QED BY <1>1, <1>2

LEMMA ReadingsStay ==
  ASSUME Base, IInv, TurnsAreTaken, ClosingIsLast, FinishedTookEffect, EffectsHaveSteps,
         ReadingsHold, Stepping
  PROVE  ReadingsHold'
<1> SUFFICES ASSUME NEW k \in Workers, worker'[k].at = "reading", StepOf(k)'.kind = "WRITE_OFF"
             PROVE  /\ \A m \in DOMAIN worker'[k].candidates : worker'[k].candidates[m] = Left'[m]
                    /\ \A m \in SavedRows' : \/ m \in DOMAIN worker'[k].candidates
                                             \/ Left'[m] = 0 \/ movements'[m].status = "WRITTEN_OFF"
  BY DEF ReadingsHold
<1>1. RowsKept /\ LedgerGrows /\ ClaimsHaveReasons
  BY RowsGoOn, LedgerGoesOn, ClaimsGo
<1>2. PICK i : i = worker[k].step /\ worker'[k].step = i /\ worker[k].at # "idle"
  BY <1>1 DEF ClaimsHaveReasons
<1>3. i \in DOMAIN outbox
  BY <1>2 DEF Base, ClaimsAreSound
<1>4. outbox[i].kind = "WRITE_OFF" /\ StepOf(k).kind = "WRITE_OFF" /\ Reached(i)
  <2>1. outbox[i].kind = "WRITE_OFF"
    BY <1>1, <1>2, <1>3 DEF RowsKept, StepOf
  <2> QED BY <1>2, <2>1 DEF TurnsAreTaken, InLine, StepOf
<1>5. SavedRows' = SavedRows /\ \A m \in SavedRows : Left'[m] = Left[m]
  BY <1>3, <1>4, ClosedKeepsUnits
<1>6. \A m \in SavedRows : m \in DOMAIN movements
  BY DEF SavedRows
<1>7. CASE worker[k].at = "reading" /\ worker'[k].candidates = worker[k].candidates
  <2>1. \A m \in DOMAIN worker[k].candidates : m \in SavedRows
    BY DEF IInv, ConfirmedIsSaved, SavedRows
  <2>2. /\ \A m \in DOMAIN worker[k].candidates : worker[k].candidates[m] = Left[m]
        /\ \A m \in SavedRows :
             m \in DOMAIN worker[k].candidates \/ Left[m] = 0 \/ movements[m].status = "WRITTEN_OFF"
    BY <1>4, <1>7 DEF ReadingsHold
  <2> QED BY <1>1, <1>5, <1>6, <1>7, <2>1, <2>2 DEF LedgerGrows
<1>8. CASE ReadsToWriteOff(k)
  <2>1. worker'[k].candidates = WriteOffCandidates /\ movements' = movements
    BY <1>8 DEF ReadsToWriteOff
  <2>2. \A m \in DOMAIN WriteOffCandidates : m \in DOMAIN movements /\ WriteOffCandidates[m] = Left[m]
    BY CandidatesAreWhole DEF Base
  <2>3. ASSUME NEW m \in SavedRows, movements[m].status # "WRITTEN_OFF", Left[m] # 0
        PROVE  m \in DOMAIN WriteOffCandidates
    <3>1. movements[m].confirmed /\ movements[m].status # "SETTLED"
      BY <1>3, <1>4, ClosedVisit
    <3>2. Remaining(movements[m]) = Left[m] /\ Left[m] > 0
      BY <1>6, <2>3, MovementRows DEF Left
    <3>3. m \in OpenRows
      BY <1>6, <2>3, <3>1, MovementRows DEF OpenRows, Open, MovementStatus
    <3> QED BY <3>2, <3>3 DEF WriteOffCandidates
  <2>4. \A m \in DOMAIN movements : Left'[m] = Left[m]
    BY <2>1 DEF Left
  <2> QED BY <1>5, <1>6, <2>1, <2>2, <2>3, <2>4
<1>9. (worker[k].at = "reading" /\ worker'[k].candidates = worker[k].candidates) \/ ReadsToWriteOff(k)
  BY <1>1, <1>2, <1>4 DEF ClaimsHaveReasons
<1> QED BY <1>7, <1>8, <1>9

-------------------------------------------------------------------------------
(* The sums: what is held for the work order, and what is owed. *)

LEMMA SumOfSupport ==
  ASSUME NEW f, NEW S, IsFiniteSet(S), NEW T \in SUBSET S,
         \A x \in S : f[x] \in Int /\ (x \notin T => f[x] = 0)
  PROVE  SumFunctionOnSet(f, S) = SumFunctionOnSet(f, T)
<1>1. IsFiniteSet(T) /\ IsFiniteSet(S \ T)
  BY FS_Subset, FS_Difference
<1>2. SumFunctionOnSet(f, S \ T) = 0
  BY <1>1, SumOfZeros
<1>3. SumFunctionOnSet(f, T) \in Int
  BY <1>1, SumIsInt
<1>4. SumFunctionOnSet(f, S) = SumFunctionOnSet(f, T) + SumFunctionOnSet(f, S \ T)
  <2>1. PICK D : D = S \ T
    OBVIOUS
  <2>2. IsFiniteSet(D) /\ T \cap D = {} /\ \A x \in T \cup D : f[x] \in Int
    BY <1>1, <2>1
  <2>3. SumFunctionOnSet(f, T \cup D) = SumFunctionOnSet(f, T) + SumFunctionOnSet(f, D)
    BY <1>1, <2>2, SumOfUnion
  <2>4. T \cup D = S
    BY <2>1
  <2> QED BY <2>1, <2>3, <2>4
<1> QED BY <1>2, <1>3, <1>4

\* A restore takes what it asks for from any rows that have the open ones among them.
LEMMA RestoreDraws ==
  ASSUME Base, NEW r \in Returns, Restore(r), ~HasReturnOf(r),
         NEW S \in SUBSET DOMAIN movements, OpenRows \subseteq S
  PROVE  SumFunctionOnSet(Left', S) = Outstanding(S) - Units[r]
<1>1. LedgerSound /\ Returned(r, Draw(r)) /\ ~(Outstanding(OpenRows) < Units[r])
  BY DEF Base, Restore, Uncovered
<1>2. IsFiniteSet(S) /\ OpenRows \in SUBSET S
  BY MovementRows, FS_Subset
<1>3. \A m \in DOMAIN movements :
        /\ Left[m] \in Nat /\ Draw(r)[m] \in Nat /\ Left'[m] = Left[m] - Draw(r)[m]
        /\ m \notin OpenRows => Draw(r)[m] = 0
  BY <1>1, MovementRows, DrawOfOne, RestoreKeepsUnits DEF RowsGive
<1>4. SumFunctionOnSet(Draw(r), OpenRows) = Units[r]
  <2>1. Outstanding(OpenRows) \in Nat /\ Units[r] \in Nat
    BY <1>1, OpenRowsAreFinite, SumIsNat, OperationsAreFinite DEF Outstanding
  <2> QED BY <1>1, <2>1, DrawIsWhole
<1>5. SumFunctionOnSet(Draw(r), S) = Units[r]
  BY <1>2, <1>3, <1>4, SumOfSupport
<1>6. SumFunctionOnSet(Left, S) = SumFunctionOnSet(Left', S) + SumFunctionOnSet(Draw(r), S)
  <2>1. \A m \in S : Left'[m] \in Int /\ Draw(r)[m] \in Int /\ Left[m] = Left'[m] + Draw(r)[m]
    BY <1>3
  <2> QED BY <1>2, <2>1, SumOfSums
<1>7. SumFunctionOnSet(Left', S) \in Int /\ Units[r] \in Int
  BY <1>2, <1>3, SumIsInt, OperationsAreFinite
<1> QED BY <1>5, <1>6, <1>7 DEF Outstanding

OwedReturns == {r \in Returns : Recorded("RESTORE", r) /\ ~HasReturnOf(r)}

LEMMA OwedIsWhole ==
  /\ Owed = SumFunctionOnSet(Units, OwedReturns)
  /\ \A S \in SUBSET Returns : IsFiniteSet(S) /\ SumFunctionOnSet(Units, S) \in Nat
<1>1. ASSUME NEW S \in SUBSET Returns PROVE IsFiniteSet(S) /\ SumFunctionOnSet(Units, S) \in Nat
  <2>1. IsFiniteSet(S) /\ \A r \in S : Units[r] \in Nat
    BY OperationsAreFinite, FS_Subset
  <2> QED BY <2>1, SumIsNat
<1> QED BY <1>1 DEF Owed, OwedReturns

\* A return is restored by the claim of its step, and by nothing else.
LEMMA ReturnIsRestored ==
  ASSUME Base, Stepping, NEW r \in Returns, ~HasReturnOf(r), HasReturnOf(r)'
  PROVE  \E k \in Workers : Restores(k) /\ StepOf(k).operation = r
<1>1. PICK m \in DOMAIN movements' : movements'[m].returned[r] > 0
  BY DEF HasReturnOf
<1>2. r \in Operations /\ r \notin Withdrawals
  BY OperationsAreFinite
<1>3. m \in DOMAIN movements /\ movements'[m].returned[r] # movements[m].returned[r]
  BY <1>1, <1>2, LedgerGoesOn DEF LedgerHasReasons, HasReturnOf
<1>4. movements[m].operation # r
  BY <1>2, <1>3, MovementRows
<1> QED BY <1>2, <1>3, <1>4, LedgerGoesOn DEF LedgerHasReasons

RestoresAnew == \E k \in Workers : Restores(k) /\ ~HasReturnOf(StepOf(k).operation)

\* Unless a restore draws, what is left of the saved rows and what is restored stay.
LEMMA NothingIsDrawn ==
  ASSUME Base, IInv, Stepping, ~RestoresAnew
  PROVE  /\ \A m \in SavedRows : Left'[m] = Left[m]
         /\ \A r \in Returns : HasReturnOf(r)' <=> HasReturnOf(r)
<1>1. ASSUME NEW m \in SavedRows PROVE Left'[m] = Left[m]
  <2>1. m \in DOMAIN movements /\ movements[m].operation \in Withdrawals /\ Saved(movements[m].operation)
    BY MovementRows DEF SavedRows
  <2>2. ~Undoes(movements[m].operation) /\ ~RestoresOpen(m)
    BY <2>1, UndoesUnsaved DEF RestoresOpen, RestoresAnew
  <2> QED BY <2>1, <2>2, LedgerGoesOn DEF LedgerHasReasons
<1>2. ASSUME NEW r \in Returns PROVE HasReturnOf(r)' <=> HasReturnOf(r)
  BY ReturnIsRestored, ReturnsStay, OperationsAreFinite DEF RestoresAnew
<1> QED BY <1>1, <1>2

\* A withdrawal is saved with all that it consumed: nothing has come back of it.
LEMMA SavedWhole ==
  ASSUME Base, IInv, ReturnsHaveReasons, ConsumedIsWhole,
         NEW w \in Withdrawals, request[w].at = "consumed", IsArmed(outbox, w)
  PROVE  /\ ~Saved(w)
         /\ \E m \in DOMAIN movements : OfOperation(w) = {m} /\ Left[m] = Units[w]
<1>1. ~Saved(w)
  BY DEF IInv, RequestsGoInOrder
<1>2. PICK m \in DOMAIN movements : OfOperation(w) = {m} /\ movements[m].quantity = Units[w]
  BY DEF ConsumedIsWhole
<1>3. movements[m].operation = w
  BY <1>2 DEF OfOperation
<1>4. ~PastSaving(w)
  BY DEF PastSaving, IsArmed
<1>5. ASSUME NEW op \in Operations PROVE movements[m].returned[op] = 0
  <2>1. ~(movements[m].returned[w] > 0)
    BY <1>3, <1>4 DEF IInv, UndoneIsPastSaving
  <2>2. ~(movements[m].returned[op] > 0)
    BY <1>1, <1>3, <2>1 DEF ReturnsHaveReasons
  <2> QED BY <2>2, MovementRows
<1>6. movements[m] \in Consumption /\ Left[m] = Remaining(movements[m])
  BY LedgerRows DEF Base, LedgerSound
<1>7. SumFunctionOnSet(movements[m].returned, Operations) = 0
  <2>1. PICK returned : returned = movements[m].returned
    OBVIOUS
  <2>2. \A op \in Operations : returned[op] = 0
    BY <1>5, <2>1
  <2>3. SumFunctionOnSet(returned, Operations) = 0
    BY <2>2, OperationsAreFinite, SumOfZeros
  <2> QED BY <2>1, <2>3
<1>8. Remaining(movements[m]) = movements[m].quantity - 0
  <2>1. PICK row \in Consumption : row = movements[m]
    BY <1>6
  <2>2. Remaining(row) = row.quantity - SumFunctionOnSet(row.returned, Operations)
    BY LeftOfOne
  <2> QED BY <1>7, <2>1, <2>2
<1>9. Left[m] = Units[w]
  BY <1>2, <1>6, <1>8, OperationsAreFinite
<1> QED BY <1>1, <1>2, <1>9

\* A save, a return and a restore are different steps.
LEMMA OneAtATime ==
  /\ \A w \in Withdrawals : SavesWithdrawal(w) =>
       /\ ~RestoresAnew /\ \A r \in Returns : ~RecordsReturn(r)
       /\ \A v \in Withdrawals : SavesWithdrawal(v) => v = w
  /\ \A r \in Returns : RecordsReturn(r) =>
       /\ ~RestoresAnew /\ \A w \in Withdrawals : ~SavesWithdrawal(w)
  /\ RestoresAnew =>
       (\A w \in Withdrawals : ~SavesWithdrawal(w)) /\ \A r \in Returns : ~RecordsReturn(r)
<1>1. ASSUME NEW w \in Withdrawals, SavesWithdrawal(w)
      PROVE  /\ ~RestoresAnew /\ \A r \in Returns : ~RecordsReturn(r)
             /\ \A v \in Withdrawals : SavesWithdrawal(v) => v = w
  BY <1>1 DEF SavesWithdrawal, RecordsReturn, RestoresAnew, Restores, Has
<1>2. ASSUME NEW r \in Returns, RecordsReturn(r) PROVE ~RestoresAnew
  <2>1. outbox' # outbox
    BY <1>2 DEF RecordsReturn, RowAdded
  <2> QED BY <2>1 DEF RestoresAnew, Restores, Has
<1> QED BY <1>1, <1>2

LEMMA WithdrawnStays ==
  ASSUME Base, Stepping, \A w \in Withdrawals : ~SavesWithdrawal(w),
         \A r \in Returns : ~RecordsReturn(r)
  PROVE  wo'.withdrawn = wo.withdrawn
  BY RecordsGoOn DEF WoHasReasons

LEMMA SavedNext ==
  ASSUME Base, Stepping, NEW w \in Withdrawals, SavesWithdrawal(w)
  PROVE  /\ movements' = movements /\ \A m \in DOMAIN movements : Left'[m] = Left[m]
         /\ SavedRows' = SavedRows \cup OfOperation(w)
<1>1. movements' = movements
  BY DEF SavesWithdrawal
<1>2. Saved(w)'
  BY DEF SavesWithdrawal, RowAdded, Saved, Recorded
<1>3. ASSUME NEW m \in DOMAIN movements
      PROVE  Saved(movements[m].operation)' <=> Saved(movements[m].operation) \/ movements[m].operation = w
  <2>1. PICK v : v = movements[m].operation
    OBVIOUS
  <2>2. Saved(v)' => Saved(v) \/ v = w
    BY RecordsStay, OneAtATime
  <2>3. Saved(v) \/ v = w => Saved(v)'
    BY <1>2, RecordsStay
  <2>4. Saved(movements[m].operation)' <=> Saved(v)'
    BY <1>1, <2>1 DEF Saved, Recorded
  <2> QED BY <2>1, <2>2, <2>3, <2>4
<1>4. \A m \in DOMAIN movements :
        m \in SavedRows' <=> m \in SavedRows \/ m \in OfOperation(w)
  BY <1>1, <1>3 DEF SavedRows, OfOperation
<1>5. SavedRows' \subseteq DOMAIN movements /\ SavedRows \subseteq DOMAIN movements
      /\ OfOperation(w) \subseteq DOMAIN movements
  BY <1>1 DEF SavedRows, OfOperation
<1>6. \A m \in DOMAIN movements : Left'[m] = Left[m]
  BY <1>1 DEF Left
<1> QED BY <1>1, <1>4, <1>5, <1>6

LEMMA LedgersAgreeOnSave ==
  ASSUME Base, IInv, ReturnsHaveReasons, ConsumedIsWhole, LedgersAgree, Stepping,
         NEW w \in Withdrawals, SavesWithdrawal(w)
  PROVE  LedgersAgree'
<1>1. request[w].at = "consumed" /\ IsArmed(outbox, w)
  BY DEF SavesWithdrawal
<1>2. PICK m \in DOMAIN movements : OfOperation(w) = {m} /\ Left[m] = Units[w]
  BY <1>1, SavedWhole
<1>3. m \notin SavedRows
  <2>1. ~Saved(w)
    BY <1>1, SavedWhole
  <2>2. movements[m].operation = w
    BY <1>2 DEF OfOperation
  <2> QED BY <2>1, <2>2 DEF SavedRows
<1>4. SavedRows' = SavedRows \cup {m} /\ \A j \in DOMAIN movements : Left'[j] = Left[j]
  BY <1>2, SavedNext
<1>5. Outstanding(SavedRows)' = Outstanding(SavedRows) + Units[w]
  <2>1. IsFiniteSet(SavedRows) /\ SavedRows \subseteq DOMAIN movements
        /\ \A j \in DOMAIN movements : Left[j] \in Nat
    BY MovementRows, FS_Subset
  <2>2. PICK after : after = Left'
    OBVIOUS
  <2>3. \A y \in SavedRows : Left[y] \in Int /\ after[y] = Left[y]
    BY <1>4, <2>1, <2>2
  <2>4. after[m] \in Int /\ after[m] = Units[w]
    BY <1>2, <1>4, <2>1, <2>2
  <2>5. SumFunctionOnSet(after, SavedRows \cup {m}) = SumFunctionOnSet(Left, SavedRows) + after[m]
    BY <1>3, <2>1, <2>3, <2>4, SumExtends
  <2> QED BY <1>4, <2>2, <2>4, <2>5 DEF Outstanding
<1>6. wo'.withdrawn = wo.withdrawn + Units[w]
  BY DEF SavesWithdrawal, Base, VersionsTell
<1>7. Owed' = Owed
  <2>1. OwedReturns' = OwedReturns
    <3>1. \A r \in Returns : HasReturnOf(r)' <=> HasReturnOf(r)
      BY OneAtATime, NothingIsDrawn
    <3>2. \A r \in Returns : Recorded("RESTORE", r)' <=> Recorded("RESTORE", r)
      BY RecordsStay, OneAtATime
    <3> QED BY <3>1, <3>2 DEF OwedReturns
  <2> QED BY <2>1 DEF Owed, OwedReturns
<1>8. Units[w] \in Int /\ wo.withdrawn \in Int /\ Owed \in Int
  BY OwedIsWhole, OperationsAreFinite DEF Base, OwedReturns
<1> QED BY <1>5, <1>6, <1>7, <1>8 DEF LedgersAgree

LEMMA OwedNext ==
  ASSUME Base, Stepping, NEW r \in Returns, RecordsReturn(r), ReturnsHaveReasons, IInv
  PROVE  r \notin OwedReturns /\ OwedReturns' = OwedReturns \cup {r}
<1>1. ~Recorded("RESTORE", r) /\ Recorded("RESTORE", r)'
  BY DEF RecordsReturn, RowAdded, Recorded
<1>2. ~HasReturnOf(r)
  BY <1>1 DEF ReturnsHaveReasons
<1>3. \A s \in Returns : HasReturnOf(s)' <=> HasReturnOf(s)
  BY OneAtATime, NothingIsDrawn
<1>4. \A s \in Returns : Recorded("RESTORE", s)' <=> Recorded("RESTORE", s) \/ s = r
  <2>1. \A s \in Returns : RecordsReturn(s) => s = r
    BY DEF RecordsReturn, RowAdded
  <2> QED BY <1>1, <2>1, RecordsStay
<1> QED BY <1>1, <1>2, <1>3, <1>4 DEF OwedReturns

LEMMA LedgersAgreeOnReturn ==
  ASSUME Base, IInv, ReturnsHaveReasons, LedgersAgree, Stepping,
         NEW r \in Returns, RecordsReturn(r)
  PROVE  LedgersAgree'
<1>1. SavedRows' = SavedRows /\ \A m \in SavedRows : Left'[m] = Left[m]
  BY OneAtATime, NothingIsDrawn, SavedRowsGrow
<1>2. Outstanding(SavedRows)' = Outstanding(SavedRows)
  <2>1. IsFiniteSet(SavedRows)
    BY MovementRows, FS_Subset
  <2>2. PICK after : after = Left'
    OBVIOUS
  <2>3. SumFunctionOnSet(after, SavedRows) = SumFunctionOnSet(Left, SavedRows)
    BY <1>1, <2>1, <2>2, SumsAgree
  <2> QED BY <1>1, <2>2, <2>3 DEF Outstanding
<1>3. wo'.withdrawn = wo.withdrawn - Units[r]
  BY DEF RecordsReturn
<1>4. Owed' = Owed + Units[r]
  <2>1. r \notin OwedReturns /\ OwedReturns' = OwedReturns \cup {r}
    BY OwedNext
  <2>2. OwedReturns \in SUBSET Returns
    BY DEF OwedReturns
  <2>3. IsFiniteSet(OwedReturns) /\ \A y \in OwedReturns : Units[y] \in Int
    BY <2>2, OwedIsWhole, OperationsAreFinite
  <2>4. Units[r] \in Int
    BY OperationsAreFinite
  <2>5. SumFunctionOnSet(Units, OwedReturns \cup {r}) = SumFunctionOnSet(Units, OwedReturns) + Units[r]
    BY <2>1, <2>3, <2>4, SumExtends
  <2>6. Owed' = SumFunctionOnSet(Units, OwedReturns')
    BY DEF Owed, OwedReturns
  <2> QED BY <2>1, <2>5, <2>6, OwedIsWhole
<1>5. Units[r] \in Int /\ wo.withdrawn \in Int /\ Owed \in Int
  BY OwedIsWhole, OperationsAreFinite DEF Base, OwedReturns
<1> QED BY <1>2, <1>3, <1>4, <1>5 DEF LedgersAgree

\* The restore of a step that draws: which operation it is of, and what is owed after it.
LEMMA RestoreNext ==
  ASSUME Base, IInv, TurnsAreTaken, Stepping, NEW k \in Workers, Restores(k),
         NEW r, r = StepOf(k).operation, ~HasReturnOf(r)
  PROVE  /\ r \in OwedReturns /\ Restore(r) /\ HasReturnOf(r)'
         /\ \A s \in Returns : s # r => (HasReturnOf(s)' <=> HasReturnOf(s))
         /\ \A s \in Returns : Recorded("RESTORE", s)' <=> Recorded("RESTORE", s)
         /\ wo' = wo
<1>1. StepOf(k).kind = "RESTORE" /\ HasEffectInLine(k) /\ Restore(r) /\ outbox' = outbox /\ wo' = wo
  BY DEF Restores, Has, HasEffectInLine
<1>2. r \in Returns /\ Recorded("RESTORE", r)
  BY <1>1, EffectTurn DEF Recorded
<1>3. HasReturnOf(r)'
  BY <1>1, <1>2, RestoreReturns DEF Base
<1>4. ASSUME NEW s \in Returns, s # r PROVE HasReturnOf(s)' <=> HasReturnOf(s)
  <2>1. RowsGive(r, Draw(r))
    BY <1>1, <1>2, RestoreKeepsUnits DEF Base, Restore
  <2>2. \A m \in DOMAIN movements : movements'[m].returned[s] = movements[m].returned[s]
    BY <1>4, <2>1, OperationsAreFinite DEF RowsGive
  <2> QED BY <2>1, <2>2 DEF RowsGive, HasReturnOf
<1>5. \A s \in Returns : Recorded("RESTORE", s)' <=> Recorded("RESTORE", s)
  BY <1>1 DEF Recorded
<1> QED BY <1>1, <1>2, <1>3, <1>4, <1>5 DEF OwedReturns

LEMMA LedgersAgreeOnRestore ==
  ASSUME Base, IInv, TurnsAreTaken, LedgersAgree, Stepping, RestoresAnew
  PROVE  LedgersAgree'
<1>1. PICK k \in Workers : Restores(k) /\ ~HasReturnOf(StepOf(k).operation)
  BY DEF RestoresAnew
<1>2. PICK r : r = StepOf(k).operation
  OBVIOUS
<1>3. /\ r \in OwedReturns /\ Restore(r) /\ HasReturnOf(r)' /\ wo' = wo
      /\ \A s \in Returns : s # r => (HasReturnOf(s)' <=> HasReturnOf(s))
      /\ \A s \in Returns : Recorded("RESTORE", s)' <=> Recorded("RESTORE", s)
  BY <1>1, <1>2, RestoreNext
<1>4. r \in Returns /\ OwedReturns \in SUBSET Returns
  BY <1>3 DEF OwedReturns
<1>5. SavedRows' = SavedRows
  BY OneAtATime, SavedRowsGrow
<1>6. SumFunctionOnSet(Left', SavedRows) = Outstanding(SavedRows) - Units[r]
  <2>1. SavedRows \in SUBSET DOMAIN movements
    BY MovementRows
  <2>2. OpenRows \subseteq SavedRows
    BY DEF OpenRows, Open, SavedRows, IInv, ConfirmedIsSaved
  <2> QED BY <1>1, <1>2, <1>3, <1>4, <2>1, <2>2, RestoreDraws
<1>7. OwedReturns' = OwedReturns \ {r}
  BY <1>3 DEF OwedReturns
<1>8. Owed = Units[r] + Owed'
  <2>1. IsFiniteSet(OwedReturns) /\ \A y \in OwedReturns : Units[y] \in Int
    BY <1>4, OwedIsWhole, OperationsAreFinite
  <2>2. SumFunctionOnSet(Units, OwedReturns) = Units[r] + SumFunctionOnSet(Units, OwedReturns \ {r})
    BY <1>3, <2>1, SumTakesOut
  <2>3. Owed' = SumFunctionOnSet(Units, OwedReturns')
    BY DEF Owed, OwedReturns
  <2> QED BY <1>7, <2>2, <2>3, OwedIsWhole
<1>9. Units[r] \in Int /\ wo.withdrawn \in Int /\ Owed' \in Int
  <2>1. OwedReturns' \in SUBSET Returns
    BY DEF OwedReturns
  <2> QED BY <1>4, <2>1, OwedIsWhole, OperationsAreFinite DEF Base, Owed, OwedReturns
<1>10. Outstanding(SavedRows)' = Outstanding(SavedRows) - Units[r]
  BY <1>5, <1>6 DEF Outstanding
<1> QED BY <1>3, <1>8, <1>9, <1>10 DEF LedgersAgree

LEMMA LedgersGoOnAgreeing ==
  ASSUME Base, IInv, TurnsAreTaken, ReturnsHaveReasons, ConsumedIsWhole, LedgersAgree, Stepping
  PROVE  LedgersAgree'
<1>1. CASE RestoresAnew \/ (\E w \in Withdrawals : SavesWithdrawal(w)) \/ \E r \in Returns : RecordsReturn(r)
  BY <1>1, LedgersAgreeOnSave, LedgersAgreeOnReturn, LedgersAgreeOnRestore
<1>2. ASSUME ~RestoresAnew, \A w \in Withdrawals : ~SavesWithdrawal(w), \A r \in Returns : ~RecordsReturn(r)
      PROVE  LedgersAgree'
  <2>1. SavedRows' = SavedRows /\ \A m \in SavedRows : Left'[m] = Left[m]
    BY <1>2, NothingIsDrawn, SavedRowsGrow
  <2>2. Outstanding(SavedRows)' = Outstanding(SavedRows)
    <3>1. IsFiniteSet(SavedRows)
      BY MovementRows, FS_Subset
    <3>2. PICK after : after = Left'
      OBVIOUS
    <3>3. SumFunctionOnSet(after, SavedRows) = SumFunctionOnSet(Left, SavedRows)
      BY <2>1, <3>1, <3>2, SumsAgree
    <3> QED BY <2>1, <3>2, <3>3 DEF Outstanding
  <2>3. wo'.withdrawn = wo.withdrawn
    BY <1>2, WithdrawnStays
  <2>4. Owed' = Owed
    <3>1. \A r \in Returns : HasReturnOf(r)' <=> HasReturnOf(r)
      BY <1>2, NothingIsDrawn
    <3>2. \A r \in Returns : Recorded("RESTORE", r)' <=> Recorded("RESTORE", r)
      BY <1>2, RecordsStay
    <3>3. OwedReturns' = OwedReturns
      BY <3>1, <3>2 DEF OwedReturns
    <3> QED BY <3>3 DEF Owed, OwedReturns
  <2> QED BY <2>2, <2>3, <2>4 DEF LedgersAgree
<1> QED BY <1>1, <1>2

LEMMA BeforeRows ==
  ASSUME Base, NEW i
  PROVE  /\ SavedBefore(i) \in SUBSET DOMAIN movements /\ SavedBefore(i) \subseteq SavedRows
         /\ IsFiniteSet(SavedBefore(i)) /\ OwedBefore(i) \in SUBSET Returns
<1>1. SavedBefore(i) \in SUBSET DOMAIN movements /\ SavedBefore(i) \subseteq SavedRows
      /\ OwedBefore(i) \in SUBSET Returns
  BY DEF SavedBefore, OwedBefore, SavedRows, Saved, Recorded, Is
<1> QED BY <1>1, MovementRows, FS_Subset

\* What was recorded before a row stays what it was.
LEMMA BeforeStays ==
  ASSUME Base, IInv, Stepping, NEW i \in DOMAIN outbox
  PROVE  /\ SavedBefore(i)' = SavedBefore(i)
         /\ \A r \in Returns : (\E j \in DOMAIN outbox' : j < i /\ Is(j, "RESTORE", r)') <=>
                               (\E j \in DOMAIN outbox : j < i /\ Is(j, "RESTORE", r))
<1>1. RowsKept /\ RowsHaveReasons /\ LedgerGrows /\ LedgerHasReasons
  BY RowsGoOn, RecordsGoOn, LedgerGoesOn
<1>2. \A j \in DOMAIN outbox' : j < i => j \in DOMAIN outbox
  <2>1. i \in Nat
    BY OutboxRows
  <2>2. \A j \in DOMAIN outbox' \ DOMAIN outbox : j \in Nat /\ i < j
    BY <1>1 DEF RowsHaveReasons
  <2> QED BY <2>1, <2>2
<1>3. \A kind, op : (\E j \in DOMAIN outbox' : j < i /\ Is(j, kind, op)') <=>
                    (\E j \in DOMAIN outbox : j < i /\ Is(j, kind, op))
  BY <1>1, <1>2 DEF RowsKept, Is
<1>4. ASSUME NEW m \in SavedBefore(i)' PROVE m \in SavedBefore(i)
  <2>1. PICK w : w = movements'[m].operation
    OBVIOUS
  <2>2. m \in DOMAIN movements' /\ w \in Withdrawals
    BY <2>1, NextRows DEF SavedBefore
  <2>3. \E j \in DOMAIN outbox' : j < i /\ Is(j, "CONFIRM_CONSUMPTION", w)'
    BY <2>1 DEF SavedBefore, Is
  <2>4. \E j \in DOMAIN outbox : j < i /\ Is(j, "CONFIRM_CONSUMPTION", w)
    BY <1>3, <2>3
  <2>5. Saved(w)
    BY <2>4 DEF Saved, Recorded, Is
  <2>6. ~Consumes(w)
    BY <2>2, <2>5 DEF Consumes, IInv, RequestsGoInOrder
  <2>7. m \in DOMAIN movements
    BY <1>1, <2>1, <2>2, <2>6 DEF LedgerHasReasons
  <2>8. movements[m].operation = w
    BY <1>1, <2>1, <2>7 DEF LedgerGrows
  <2> QED BY <2>4, <2>7, <2>8 DEF SavedBefore
<1>5. ASSUME NEW m \in SavedBefore(i) PROVE m \in SavedBefore(i)'
  <2>1. PICK w : w = movements[m].operation
    OBVIOUS
  <2>2. m \in DOMAIN movements' /\ movements'[m].operation = w
    BY <1>1, <2>1 DEF LedgerGrows, SavedBefore
  <2>3. \E j \in DOMAIN outbox : j < i /\ Is(j, "CONFIRM_CONSUMPTION", w)
    BY <2>1 DEF SavedBefore
  <2>4. \E j \in DOMAIN outbox' : j < i /\ Is(j, "CONFIRM_CONSUMPTION", w)'
    BY <1>3, <2>3
  <2> QED BY <2>2, <2>4 DEF SavedBefore, Is
<1>6. \A r \in Returns : (\E j \in DOMAIN outbox' : j < i /\ Is(j, "RESTORE", r)') <=>
                         (\E j \in DOMAIN outbox : j < i /\ Is(j, "RESTORE", r))
  BY <1>3
<1>7. SavedBefore(i)' = SavedBefore(i)
  BY <1>4, <1>5
<1> QED BY <1>6, <1>7

\* A restore that is recorded is covered by what is withdrawn.
LEMMA NewRestoreHasCover ==
  ASSUME Base, IInv, LedgersAgree, Stepping,
         NEW i \in DOMAIN outbox' \ DOMAIN outbox, outbox'[i].kind = "RESTORE"
  PROVE  Outstanding(SavedBefore(i))' >=
           Units[outbox'[i].operation] + SumFunctionOnSet(Units, OwedBefore(i)')
<1>1. RowsKept /\ RowsHaveReasons
  BY RowsGoOn, RecordsGoOn
<1>2. Records(i)
  BY <1>1 DEF RowsHaveReasons
<1>3. PICK r \in Returns : RecordsReturn(r) /\ outbox'[i].operation = r
  BY <1>2 DEF Records
<1>4. movements' = movements /\ wo.withdrawn >= Units[r]
  BY <1>3 DEF RecordsReturn
<1>5. /\ DOMAIN outbox' = DOMAIN outbox \cup {i} /\ i \in Nat
      /\ \A j \in DOMAIN outbox : j < i
  BY <1>1 DEF RowsHaveReasons
<1>6. \A kind, op : (\E j \in DOMAIN outbox' : j < i /\ Is(j, kind, op)') <=>
                    (\E j \in DOMAIN outbox : Is(j, kind, op))
  BY <1>1, <1>5 DEF RowsKept, Is
<1>7. SavedBefore(i)' = SavedRows
  <2>1. ASSUME NEW m \in DOMAIN movements PROVE m \in SavedBefore(i)' <=> m \in SavedRows
    <3>1. PICK w : w = movements[m].operation
      OBVIOUS
    <3>2. m \in SavedBefore(i)' <=> \E j \in DOMAIN outbox' : j < i /\ Is(j, "CONFIRM_CONSUMPTION", w)'
      BY <1>4, <3>1 DEF SavedBefore, Is
    <3>3. m \in SavedRows <=> \E j \in DOMAIN outbox : Is(j, "CONFIRM_CONSUMPTION", w)
      BY <3>1 DEF SavedRows, Saved, Recorded, Is
    <3> QED BY <1>6, <3>2, <3>3
  <2>2. SavedBefore(i)' \subseteq DOMAIN movements /\ SavedRows \subseteq DOMAIN movements
    BY <1>4 DEF SavedBefore, SavedRows
  <2> QED BY <2>1, <2>2
<1>8. OwedBefore(i)' = OwedReturns
  <2>1. ASSUME NEW s \in Returns PROVE s \in OwedBefore(i)' <=> s \in OwedReturns
    <3>1. s \in OwedBefore(i)' <=> /\ \E j \in DOMAIN outbox' : j < i /\ Is(j, "RESTORE", s)'
                                   /\ ~HasReturnOf(s)
      BY <1>4 DEF OwedBefore, Is, HasReturnOf
    <3>2. s \in OwedReturns <=> (\E j \in DOMAIN outbox : Is(j, "RESTORE", s)) /\ ~HasReturnOf(s)
      BY DEF OwedReturns, Recorded, Is
    <3> QED BY <1>6, <3>1, <3>2
  <2>2. OwedBefore(i)' \subseteq Returns /\ OwedReturns \subseteq Returns
    BY DEF OwedBefore, OwedReturns
  <2> QED BY <2>1, <2>2
<1>9. Outstanding(SavedBefore(i))' = Outstanding(SavedRows)
  <2>1. Left' = Left
    BY <1>4 DEF Left
  <2> QED BY <1>7, <2>1 DEF Outstanding
<1>10. Outstanding(SavedRows) = wo.withdrawn + SumFunctionOnSet(Units, OwedReturns)
  BY OwedIsWhole DEF LedgersAgree
<1>11. Units[r] \in Int /\ wo.withdrawn \in Int /\ SumFunctionOnSet(Units, OwedReturns) \in Int
  <2>1. OwedReturns \in SUBSET Returns
    BY DEF OwedReturns
  <2> QED BY <2>1, OwedIsWhole, OperationsAreFinite DEF Base
<1>12. SumFunctionOnSet(Units, OwedBefore(i)') = SumFunctionOnSet(Units, OwedReturns)
  BY <1>8
<1> QED BY <1>3, <1>4, <1>9, <1>10, <1>11, <1>12

LEMMA OldRestoreHasCover ==
  ASSUME Base, IInv, TurnsAreTaken, ClosingIsLast, FinishedTookEffect, EffectsHaveSteps,
         RestoresHaveCover, Stepping,
         NEW i \in DOMAIN outbox, outbox[i].kind = "RESTORE", ~HasReturnOf(outbox[i].operation)'
  PROVE  Outstanding(SavedBefore(i))' >=
           Units[outbox[i].operation] + SumFunctionOnSet(Units, OwedBefore(i)')
<1>1. PICK op \in Returns : op = outbox[i].operation
  BY DEF Base, RowsAreNamed
<1>2. ~HasReturnOf(op)' /\ ~HasReturnOf(op)
  <2>1. op = outbox'[i].operation
    BY <1>1, RowsGoOn DEF RowsKept
  <2>2. ~HasReturnOf(op)'
    BY <2>1 DEF HasReturnOf
  <2> QED BY <2>2, ReturnsStay, OperationsAreFinite
<1>3. Outstanding(SavedBefore(i)) >= Units[op] + SumFunctionOnSet(Units, OwedBefore(i))
  BY <1>1, <1>2 DEF RestoresHaveCover
<1>4. PICK S \in SUBSET DOMAIN movements : S = SavedBefore(i) /\ S \subseteq SavedRows /\ IsFiniteSet(S)
  BY BeforeRows
<1>5. SavedBefore(i)' = S
  BY <1>4, BeforeStays
<1>6. PICK O \in SUBSET Returns : O = OwedBefore(i)
  BY BeforeRows
<1>7. \A r \in Returns : r \in OwedBefore(i)' <=>
        (\E j \in DOMAIN outbox : j < i /\ Is(j, "RESTORE", r)) /\ ~HasReturnOf(r)'
  BY BeforeStays DEF OwedBefore, Is
<1>8. OwedBefore(i)' \in SUBSET O
  <2>1. \A r \in Returns : HasReturnOf(r) => HasReturnOf(r)'
    BY ReturnsStay, OperationsAreFinite
  <2>2. OwedBefore(i)' \subseteq Returns
    BY DEF OwedBefore
  <2> QED BY <1>6, <1>7, <2>1, <2>2 DEF OwedBefore
<1>9. IsFiniteSet(O) /\ (\A r \in O : Units[r] \in Nat) /\ Units[op] \in Nat
      /\ SumFunctionOnSet(Units, O) \in Nat /\ SumFunctionOnSet(Units, OwedBefore(i)') \in Nat
  <2>1. OwedBefore(i)' \in SUBSET Returns
    BY <1>8
  <2> QED BY <2>1, OwedIsWhole, OperationsAreFinite
<1>10. Outstanding(S) \in Nat
  BY <1>4, MovementRows, SumIsNat DEF Outstanding
<1>11. CASE RestoresAnew
  <2>1. PICK k \in Workers : Restores(k) /\ ~HasReturnOf(StepOf(k).operation)
    BY <1>11 DEF RestoresAnew
  <2>2. PICK r : r = StepOf(k).operation
    OBVIOUS
  <2>3. r \in Returns /\ Restore(r) /\ HasReturnOf(r)' /\ ~HasReturnOf(r)
        /\ \A s \in Returns : s # r => (HasReturnOf(s)' <=> HasReturnOf(s))
    BY <2>1, <2>2, RestoreNext DEF OwedReturns
  <2>4. PICK c \in DOMAIN outbox : c = worker[k].step /\ outbox[c] = StepOf(k) /\ Reached(c)
    BY <2>1, EffectTurn DEF HasEffectInLine
  <2>5. outbox[c].kind = "RESTORE" /\ outbox[c].operation = r /\ ~HasReturnOf(outbox[c].operation)
    BY <2>1, <2>2, <2>4 DEF Restores, Has
  <2>6. c < i
    <3>1. c # i /\ c \in Nat /\ i \in Nat
      BY <1>1, <1>2, <2>3, <2>5, OutboxRows
    <3>2. ~(i < c)
      BY <1>1, <1>2, <2>4, DoneBefore
    <3> QED BY <3>1, <3>2
  <2>7. OpenRows \subseteq S
    <3>1. OpenRows = SavedBefore(c)
      BY <2>4, <2>5, OpenAtTurn
    <3>2. SavedBefore(c) \subseteq SavedBefore(i)
      <4>1. DOMAIN outbox \subseteq Nat
        BY OutboxRows
      <4>2. \A j \in DOMAIN outbox : j < c => j < i
        BY <2>6, <4>1
      <4> QED BY <4>2 DEF SavedBefore
    <3> QED BY <1>4, <3>1, <3>2
  <2>8. SumFunctionOnSet(Left', S) = Outstanding(S) - Units[r]
    BY <2>3, <2>7, RestoreDraws
  <2>9. r \in O /\ OwedBefore(i)' = O \ {r}
    <3>1. r \in O
      BY <1>6, <2>3, <2>5, <2>6 DEF OwedBefore, Is
    <3>2. \A s \in Returns : s \in OwedBefore(i)' <=> s \in O \ {r}
      BY <1>6, <1>7, <2>3 DEF OwedBefore
    <3> QED BY <1>8, <3>1, <3>2
  <2>10. SumFunctionOnSet(Units, O) = Units[r] + SumFunctionOnSet(Units, O \ {r})
    <3>1. \A y \in O : Units[y] \in Int
      BY <1>9
    <3> QED BY <1>9, <2>9, <3>1, SumTakesOut
  <2>11. Outstanding(SavedBefore(i))' = Outstanding(S) - Units[r]
    BY <1>5, <2>8 DEF Outstanding
  <2>12. SumFunctionOnSet(Units, OwedBefore(i)') = SumFunctionOnSet(Units, O \ {r})
    BY <2>9
  <2>13. Units[r] \in Nat
    BY <2>3, OperationsAreFinite
  <2> QED BY <1>1, <1>3, <1>4, <1>6, <1>9, <1>10, <2>10, <2>11, <2>12, <2>13
<1>12. CASE ~RestoresAnew
  <2>1. \A m \in S : Left'[m] = Left[m]
    BY <1>4, <1>12, NothingIsDrawn
  <2>2. Outstanding(SavedBefore(i))' = Outstanding(S)
    <3>1. PICK after : after = Left'
      OBVIOUS
    <3>2. SumFunctionOnSet(after, S) = SumFunctionOnSet(Left, S)
      BY <1>4, <2>1, <3>1, SumsAgree
    <3> QED BY <1>5, <3>1, <3>2 DEF Outstanding
  <2>3. SumFunctionOnSet(Units, OwedBefore(i)') <= SumFunctionOnSet(Units, O)
    <3>1. PICK P \in SUBSET O : P = OwedBefore(i)'
      BY <1>8
    <3>2. SumFunctionOnSet(Units, P) <= SumFunctionOnSet(Units, O)
      BY <1>9, SumOfPart
    <3> QED BY <3>1, <3>2
  <2> QED BY <1>1, <1>3, <1>4, <1>6, <1>9, <1>10, <2>2, <2>3
<1> QED BY <1>11, <1>12

LEMMA RestoresStayCovered ==
  ASSUME Base, IInv, TurnsAreTaken, ClosingIsLast, FinishedTookEffect, EffectsHaveSteps,
         RestoresHaveCover, LedgersAgree, Stepping
  PROVE  RestoresHaveCover'
<1> SUFFICES ASSUME NEW i \in DOMAIN outbox', outbox'[i].kind = "RESTORE",
                    ~HasReturnOf(outbox[i].operation)'
             PROVE  Outstanding(SavedBefore(i))' >=
                      Units[outbox'[i].operation] + SumFunctionOnSet(Units, OwedBefore(i)')
  BY DEF RestoresHaveCover
<1>1. CASE i \in DOMAIN outbox
  <2>1. outbox'[i].kind = outbox[i].kind /\ outbox'[i].operation = outbox[i].operation
    BY <1>1, RowsGoOn DEF RowsKept
  <2>2. PICK op : op = outbox[i].operation /\ op = outbox'[i].operation
    BY <2>1
  <2>3. ~HasReturnOf(op)'
    BY <2>2 DEF HasReturnOf
  <2> QED BY <1>1, <2>1, <2>2, <2>3, OldRestoreHasCover
<1>2. CASE i \notin DOMAIN outbox
  BY <1>2, NewRestoreHasCover
<1> QED BY <1>1, <1>2

-------------------------------------------------------------------------------
(* The invariant and what it implies. *)

LEMMA InitBooks == Init => Books
<1> SUFFICES ASSUME Init PROVE Books
  OBVIOUS
<1>1. Base /\ IInv
  BY InitBase, InitInv
<1>2. /\ movements = << >> /\ outbox = << >> /\ wo.withdrawn = 0
      /\ \A w \in Withdrawals : request[w].at = "idle"
      /\ \A k \in Workers : worker[k].at = "idle"
  BY DEF Init, LedgerInit, NoRequest, NoClaim
<1>3. DOMAIN movements = {} /\ DOMAIN outbox = {}
  BY <1>2
<1>4. SavedRows = {} /\ OwedReturns = {} /\ \A op : ~HasReturnOf(op)
  BY <1>3 DEF SavedRows, OwedReturns, Recorded, HasReturnOf
<1>5. TurnsAreTaken /\ ClosingIsLast /\ FinishedTookEffect /\ EffectsHaveSteps /\ RestoresHaveCover
  BY <1>2, <1>3 DEF TurnsAreTaken, ClosingIsLast, FinishedTookEffect, EffectsHaveSteps, RestoresHaveCover
<1>6. ReturnsHaveReasons /\ ConsumedIsWhole /\ LostIsWrittenOff /\ ReadingsHold
  BY <1>2, <1>3, <1>4 DEF ReturnsHaveReasons, ConsumedIsWhole, LostIsWrittenOff, ReadingsHold
<1>7. LedgersAgree
  <2>1. Outstanding(SavedRows) = 0 /\ Owed = 0
    BY <1>4, OwedIsWhole, SumOfNone DEF Outstanding
  <2> QED BY <1>2, <2>1 DEF LedgersAgree
<1> QED BY <1>1, <1>5, <1>6, <1>7 DEF Books

LEMMA BooksStep ==
  ASSUME "lost commit" \notin FaultKinds, Books, [Next]_vars
  PROVE  Books'
<1>1. Base /\ IInv /\ Base' /\ IInv' /\ Stepping
  BY BaseStep, StepKeeps DEF Books
<1>2. TurnsAreTaken' /\ ClosingIsLast' /\ EffectsHaveSteps'
  BY <1>1, TurnsStayTaken, ClosingStaysLast, EffectsKeepSteps DEF Books
<1>3. FinishedTookEffect'
  BY <1>1, EffectsStayTaken DEF Books
<1>4. ReturnsHaveReasons' /\ ConsumedIsWhole' /\ LostIsWrittenOff'
  BY <1>1, ReturnsKeepReasons, ConsumedStaysWhole, LostStaysWrittenOff DEF Books
<1>5. ReadingsHold'
  BY <1>1, ReadingsStay DEF Books
<1>6. RestoresHaveCover' /\ LedgersAgree'
  BY <1>1, RestoresStayCovered, LedgersGoOnAgreeing DEF Books
<1> QED BY <1>1, <1>2, <1>3, <1>4, <1>5, <1>6 DEF Books

LEMMA BooksHold ==
  ASSUME "lost commit" \notin FaultKinds
  PROVE  Spec => []Books
<1>1. Init => Books
  BY InitBooks
<1>2. Books /\ [Next]_vars => Books'
  BY BooksStep
<1> QED BY <1>1, <1>2, PTL DEF Spec

LEMMA BooksCoverRestores == Books => RestoresAreCovered
<1> SUFFICES ASSUME Books, NEW k \in Workers, worker[k].at = "claimed", StepOf(k).kind = "RESTORE",
                    ~HasReturnOf(StepOf(k).operation)
             PROVE  ~(Outstanding(OpenRows) < Units[StepOf(k).operation])
  BY DEF RestoresAreCovered, Uncovered
<1>1. PICK i \in DOMAIN outbox : i = worker[k].step
  BY DEF Books, Base, ClaimsAreSound
<1>2. PICK r : r = outbox[i].operation
  OBVIOUS
<1>3. outbox[i].kind = "RESTORE" /\ ~HasReturnOf(r) /\ InLine(i) /\ StepOf(k).operation = r
  BY <1>1, <1>2 DEF StepOf, InLine
<1>4. r \in Returns /\ Reached(i)
  BY <1>1, <1>2, <1>3 DEF Books, Base, RowsAreNamed, TurnsAreTaken
<1>5. OpenRows = SavedBefore(i)
  BY <1>2, <1>3, <1>4, OpenAtTurn DEF Books
<1>6. Outstanding(SavedBefore(i)) >= Units[r] + SumFunctionOnSet(Units, OwedBefore(i))
  BY <1>2, <1>3 DEF Books, RestoresHaveCover
<1>7. SumFunctionOnSet(Units, OwedBefore(i)) \in Nat /\ Units[r] \in Nat
  <2>1. OwedBefore(i) \in SUBSET Returns
    BY DEF OwedBefore
  <2> QED BY <1>4, <2>1, OwedIsWhole, OperationsAreFinite
<1>8. Outstanding(SavedBefore(i)) \in Nat
  <2>1. PICK S \in SUBSET DOMAIN movements : S = SavedBefore(i) /\ IsFiniteSet(S)
    BY BeforeRows DEF Books
  <2>2. \A m \in S : Left[m] \in Nat
    BY MovementRows DEF Books
  <2> QED BY <2>1, <2>2, SumIsNat DEF Outstanding
<1> QED BY <1>3, <1>5, <1>6, <1>7, <1>8

LEMMA BooksCloseVisits == Books => VisitIsClosed
<1> SUFFICES ASSUME Books PROVE VisitIsClosed
  OBVIOUS
<1>1. ASSUME Applied("SETTLE") PROVE \A m \in SavedRows : movements[m].status = "SETTLED"
  BY <1>1 DEF Applied, Books, FinishedTookEffect, Finished
<1>2. ASSUME Applied("WRITE_OFF") PROVE SumFunction(Lost) = wo.withdrawn
  <2>1. PICK i \in DOMAIN outbox : outbox[i].kind = "WRITE_OFF" /\ outbox[i].status = "DONE"
    BY <1>2 DEF Applied
  <2>2. Reached(i)
    BY <2>1 DEF Books, TurnsAreTaken, InLine
  <2>3. \A m \in SavedRows : Left[m] = 0 \/ movements[m].status = "WRITTEN_OFF"
    BY <2>1 DEF Books, FinishedTookEffect, Finished
  <2>4. OwedReturns = {}
    <3>1. \A r : Recorded("RESTORE", r) => HasReturnOf(r)
      BY <2>1, <2>2, ClosedVisit DEF Books
    <3> QED BY <3>1 DEF OwedReturns
  <2>5. Outstanding(SavedRows) = wo.withdrawn
    <3>1. Owed = 0
      BY <2>4, OwedIsWhole, SumOfNone
    <3>2. wo.withdrawn \in Int
      BY DEF Books, Base
    <3> QED BY <3>1, <3>2 DEF Books, LedgersAgree
  <2>6. PICK S \in SUBSET DOMAIN movements : S = SavedRows /\ IsFiniteSet(S)
    BY MovementRows, FS_Subset DEF Books
  <2>7. \A m \in DOMAIN movements : Lost[m] \in Int /\ Left[m] \in Int /\ (m \notin S => Lost[m] = 0)
    <3>1. \A m \in DOMAIN movements : m \notin S => movements[m].status = "PENDING"
      BY <2>6 DEF Books, IInv, ConfirmedIsSaved, SavedRows
    <3> QED BY <3>1, MovementRows DEF Lost, Books, LostIsWrittenOff
  <2>8. \A m \in S : Lost[m] = Left[m]
    BY <2>3, <2>6 DEF Lost, Books, LostIsWrittenOff
  <2>9. SumFunction(Lost) = SumFunctionOnSet(Lost, DOMAIN movements)
    BY DEF SumFunction, Lost
  <2>10. SumFunctionOnSet(Lost, DOMAIN movements) = SumFunctionOnSet(Lost, S)
    <3>1. IsFiniteSet(DOMAIN movements)
      BY MovementRows DEF Books
    <3>2. PICK lost : lost = Lost
      OBVIOUS
    <3>3. \A m \in DOMAIN movements : lost[m] \in Int /\ (m \notin S => lost[m] = 0)
      BY <2>7, <3>2
    <3>4. SumFunctionOnSet(lost, DOMAIN movements) = SumFunctionOnSet(lost, S)
      BY <3>1, <3>3, SumOfSupport
    <3> QED BY <3>2, <3>4
  <2>11. SumFunctionOnSet(Lost, S) = SumFunctionOnSet(Left, S)
    BY <2>6, <2>8, SumsAgree
  <2> QED BY <2>5, <2>6, <2>9, <2>10, <2>11 DEF Outstanding
<1> QED BY <1>1, <1>2 DEF VisitIsClosed

\* What inventory holds for the saved withdrawals is at all times what the work
\* order says is withdrawn and what inventory is owed: the two modules' ledgers
\* agree although no transaction spans them, whichever saves, restores, undos and
\* crashes interleave.
THEOREM TheLedgersAgree ==
  ASSUME "lost commit" \notin FaultKinds
  PROVE  Spec => []LedgersAgree
<1>1. Books => LedgersAgree
  BY DEF Books
<1> QED BY <1>1, BooksHold, PTL

\* A claimed restore finds open consumptions that cover its line, unless it is a
\* repeat: the error that the two ledgers disagree is never thrown.
THEOREM RestoresStayPayable ==
  ASSUME "lost commit" \notin FaultKinds
  PROVE  Spec => []RestoresAreCovered
  BY BooksCoverRestores, BooksHold, PTL

\* A settlement that is applied leaves no saved consumption pending, and a
\* write-off that is applied loses exactly what the canceled work order had
\* withdrawn, however often either was retried.
THEOREM VisitsAreClosed ==
  ASSUME "lost commit" \notin FaultKinds
  PROVE  Spec => []VisitIsClosed
  BY BooksCloseVisits, BooksHold, PTL

-------------------------------------------------------------------------------
(* What a withdrawal that never reached the work order leaves behind.  Here a *)
(* grace period or a lease that ends under its holder is left out as well.    *)

\* As long as its withdrawal runs, an undo step waits, and nobody claims it.
UndosWait ==
  \A w \in Withdrawals : Running(w) =>
    \A i \in UndoRows(outbox, w) : outbox[i].status = "ARMED" /\ ~outbox[i].due
ClaimsWait ==
  \A k \in Workers : worker[k].at # "idle" /\ StepOf(k).kind = "UNDO_CONSUMPTION" =>
    request[StepOf(k).operation].at = "done"

\* An undo that is through, by the request or by a claim, has left nothing.
UndoneIsEmpty ==
  /\ \A w \in Withdrawals :
       /\ request[w].at = "undone" => NothingLeftOf(w)
       /\ ~Saved(w) => \A i \in UndoRows(outbox, w) : outbox[i].status = "DONE" => NothingLeftOf(w)
       /\ OfOperation(w) # {} => UndoRows(outbox, w) # {}
  /\ \A k \in Workers :
       worker[k].at = "applied" /\ StepOf(k).kind = "UNDO_CONSUMPTION" => NothingLeftOf(StepOf(k).operation)

Undos == Base /\ IInv /\ UndosWait /\ ClaimsWait /\ UndoneIsEmpty

\* What a step may do to a withdrawal, to an undo step and to a claim.
RequestsPass ==
  \A w \in Withdrawals :
    /\ request[w].at = "done" => request'[w].at = "done"
    /\ request'[w].at = "undone" => request[w].at = "undone" \/ NothingLeftOf(w)'

UndoPasses(i) ==
  LET op == outbox[i].operation IN
  \/ outbox'[i].status = outbox[i].status /\ outbox'[i].due = outbox[i].due
  \/ /\ op \in Withdrawals => request'[op].at = "done"
     /\ outbox'[i].status = "DONE" =>
          outbox[i].status = "DONE" \/ Saved(op)' \/ request[op].at = "undone"
  \/ /\ outbox'[i].status # "DONE"
     /\ outbox[i].status # "ARMED" \/ outbox[i].due \/ ~Running(op)
  \/ \E k \in Workers : /\ worker[k].at # "idle" /\ worker[k].step = i
                        /\ outbox'[i].status = "DONE" => outbox[i].status = "DONE" \/ worker[k].at = "applied"
UndosPass ==
  /\ \A i \in DOMAIN outbox : outbox[i].kind = "UNDO_CONSUMPTION" => UndoPasses(i)
  /\ \A i \in DOMAIN outbox' \ DOMAIN outbox : outbox'[i].kind = "UNDO_CONSUMPTION" =>
       outbox'[i].status = "ARMED" /\ ~outbox'[i].due

ClaimsPass ==
  \A k \in Workers : worker'[k].at # "idle" =>
    \/ /\ worker[k].at # "idle" /\ worker'[k].step = worker[k].step
       /\ worker'[k].at = "applied" =>
            \/ worker[k].at = "applied"
            \/ \A w \in Withdrawals : Is(worker[k].step, "UNDO_CONSUMPTION", w) => NothingLeftOf(w)'
    \/ /\ worker'[k].at = "claimed"
       /\ worker'[k].step \in DOMAIN outbox /\ outbox[worker'[k].step].due

Passing == RequestsPass /\ UndosPass /\ ClaimsPass

LEMMA UndoLeavesNothing ==
  ASSUME Base, NEW w \in Withdrawals, UndoConsumption(w)
  PROVE  NothingLeftOf(w)'
<1>1. RowsGive(w, LeftOf(w)) /\ DOMAIN movements' = DOMAIN movements
  BY UndoKeepsUnits, OperationsAreFinite DEF Base, RowsGive
<1>2. \A m \in DOMAIN movements' : movements'[m].operation = w => Left'[m] = 0
  <2>1. ASSUME NEW m \in DOMAIN movements, movements[m].operation = w
        PROVE  Left'[m] = 0
    <3>1. Left[m] \in Nat /\ LeftOf(w)[m] = Left[m]
      BY <2>1, MovementRows DEF LeftOf, OfOperation, Left
    <3> QED BY <1>1, <3>1 DEF RowsGive
  <2> QED BY <1>1, <2>1 DEF RowsGive
<1> QED BY <1>2 DEF NothingLeftOf, OfOperation, Left

LEMMA NothingStaysLeft ==
  ASSUME Base, Stepping, NEW w \in Withdrawals, NothingLeftOf(w), request[w].at # "armed"
  PROVE  NothingLeftOf(w)'
<1> SUFFICES ASSUME NEW m \in DOMAIN movements', movements'[m].operation = w
             PROVE  Left'[m] = 0
  BY DEF NothingLeftOf, OfOperation, Left
<1>1. LedgerGrows /\ LedgerHasReasons
  BY LedgerGoesOn
<1>2. m \in DOMAIN movements
  BY <1>1 DEF LedgerHasReasons, Consumes
<1>3. movements[m].operation = w /\ Left'[m] <= Left[m]
  BY <1>1, <1>2 DEF LedgerGrows
<1>4. Left[m] = 0
  BY <1>2, <1>3 DEF NothingLeftOf, OfOperation, Left
<1> QED BY <1>3, <1>4, NextRows

LEMMA UndosStart == Init => Undos
<1> SUFFICES ASSUME Init PROVE Undos
  OBVIOUS
<1>1. Base /\ IInv
  BY InitBase, InitInv
<1>2. /\ DOMAIN movements = {} /\ DOMAIN outbox = {}
      /\ \A w \in Withdrawals : request[w].at = "idle"
      /\ \A k \in Workers : worker[k].at = "idle"
  BY DEF Init, LedgerInit, NoRequest, NoClaim
<1> QED BY <1>1, <1>2 DEF Undos, UndosWait, ClaimsWait, UndoneIsEmpty, UndoRows, OfOperation, Running

\* What a step may do keeps what is undone empty.
LEMMA PassingKeepsUndos ==
  ASSUME Undos, Base', IInv', Stepping, Passing
  PROVE  Undos'
<1>1. RowsKept
  BY RowsGoOn DEF Undos
<1>2. RequestsPass /\ UndosPass /\ ClaimsPass /\ Base /\ IInv /\ UndosWait /\ ClaimsWait /\ UndoneIsEmpty
  BY DEF Undos, Passing
<1>3. ASSUME NEW w \in Withdrawals, NEW i \in UndoRows(outbox, w)'
      PROVE  /\ i \in DOMAIN outbox => i \in UndoRows(outbox, w) /\ outbox[i].operation = w
                                       /\ outbox[i].kind = "UNDO_CONSUMPTION" /\ UndoPasses(i)
             /\ i \notin DOMAIN outbox => outbox'[i].status = "ARMED" /\ ~outbox'[i].due
  BY <1>1, <1>2 DEF UndoRows, RowsKept, UndosPass
<1>4. ASSUME NEW w \in Withdrawals, Running(w)', NEW i \in UndoRows(outbox, w)'
      PROVE  outbox'[i].status = "ARMED" /\ ~outbox'[i].due
  <2>1. CASE i \notin DOMAIN outbox
    BY <1>3, <2>1
  <2>2. CASE i \in DOMAIN outbox
    <3>1. /\ i \in UndoRows(outbox, w) /\ outbox[i].operation = w /\ outbox[i].kind = "UNDO_CONSUMPTION"
          /\ UndoPasses(i)
      BY <1>3, <2>2
    <3>2. request[w].at # "done" /\ request'[w].at # "done"
      BY <1>2, <1>4 DEF RequestsPass, Running
    <3>3. request[w].at # "idle"
      BY <1>2, <3>1 DEF IInv, RequestsGoInOrder
    <3>4. Running(w) /\ outbox[i].status = "ARMED" /\ ~outbox[i].due
      BY <1>2, <3>1, <3>2, <3>3 DEF Running, UndosWait
    <3>5. \A k \in Workers : ~(worker[k].at # "idle" /\ worker[k].step = i)
      BY <1>2, <3>1, <3>2 DEF ClaimsWait, StepOf
    <3>6. outbox'[i].status = outbox[i].status /\ outbox'[i].due = outbox[i].due
      BY <3>1, <3>2, <3>4, <3>5 DEF UndoPasses
    <3> QED BY <3>4, <3>6
  <2> QED BY <2>1, <2>2
<1>5. ASSUME NEW k \in Workers, worker'[k].at # "idle", StepOf(k)'.kind = "UNDO_CONSUMPTION"
      PROVE  request'[StepOf(k)'.operation].at = "done"
  <2>1. PICK i : i = worker'[k].step
    OBVIOUS
  <2>2. i \in DOMAIN outbox
    BY <1>2, <1>5, <2>1 DEF ClaimsPass, Base, ClaimsAreSound
  <2>3. PICK w \in Withdrawals : w = outbox[i].operation /\ w = StepOf(k)'.operation
                                 /\ outbox[i].kind = "UNDO_CONSUMPTION"
    BY <1>1, <1>2, <1>5, <2>1, <2>2 DEF StepOf, RowsKept, Base, RowsAreNamed
  <2>4. CASE worker[k].at # "idle" /\ worker'[k].step = worker[k].step
    <3>1. request[w].at = "done"
      BY <1>2, <2>1, <2>3, <2>4 DEF ClaimsWait, StepOf
    <3> QED BY <1>2, <2>3, <3>1 DEF RequestsPass
  <2>5. CASE outbox[i].due
    <3>1. i \in UndoRows(outbox, w)
      BY <2>2, <2>3 DEF UndoRows
    <3>2. request[w].at = "done"
      BY <1>2, <2>5, <3>1 DEF UndosWait, Running, IInv, RequestsGoInOrder
    <3> QED BY <1>2, <2>3, <3>2 DEF RequestsPass
  <2> QED BY <1>2, <1>5, <2>1, <2>4, <2>5 DEF ClaimsPass
<1>6. ASSUME NEW w \in Withdrawals, request'[w].at = "undone" PROVE NothingLeftOf(w)'
  <2>1. CASE request[w].at = "undone"
    BY <1>2, <2>1, NothingStaysLeft DEF UndoneIsEmpty
  <2> QED BY <1>2, <1>6, <2>1 DEF RequestsPass
<1>7. ASSUME NEW w \in Withdrawals, ~Saved(w)', NEW i \in UndoRows(outbox, w)', outbox'[i].status = "DONE"
      PROVE  NothingLeftOf(w)'
  <2>1. /\ i \in UndoRows(outbox, w) /\ outbox[i].operation = w /\ outbox[i].kind = "UNDO_CONSUMPTION"
        /\ UndoPasses(i)
    BY <1>3, <1>7
  <2>2. ~Saved(w)
    BY <1>2, <1>7, RecordsStay
  <2>3. CASE outbox[i].status = "DONE"
    <3>1. NothingLeftOf(w) /\ request[w].at # "armed"
      BY <1>2, <2>1, <2>2, <2>3 DEF UndoneIsEmpty, UndosWait, Running
    <3> QED BY <1>2, <3>1, NothingStaysLeft
  <2>4. CASE request[w].at = "undone"
    BY <1>2, <2>4, NothingStaysLeft DEF UndoneIsEmpty
  <2>5. ASSUME NEW k \in Workers, worker[k].at = "applied", worker[k].step = i
        PROVE  NothingLeftOf(w)'
    <3>1. NothingLeftOf(w) /\ request[w].at = "done"
      BY <1>2, <2>1, <2>5 DEF UndoneIsEmpty, ClaimsWait, StepOf
    <3> QED BY <1>2, <3>1, NothingStaysLeft
  <2>6. \/ outbox[i].status = "DONE" \/ request[w].at = "undone"
        \/ \E k \in Workers : worker[k].at = "applied" /\ worker[k].step = i
    <3>1. ~Saved(outbox[i].operation)'
      <4>1. outbox'[i].operation = w
        BY <1>7 DEF UndoRows
      <4> QED BY <1>7, <2>1, <4>1
    <3> QED BY <1>7, <2>1, <3>1 DEF UndoPasses
  <2> QED BY <2>3, <2>4, <2>5, <2>6
<1>8. ASSUME NEW w \in Withdrawals, OfOperation(w)' # {} PROVE UndoRows(outbox, w)' # {}
  <2>1. UndoRows(outbox, w) # {}
    <3>1. PICK m \in DOMAIN movements' : movements'[m].operation = w
      BY <1>8 DEF OfOperation
    <3>2. CASE m \in DOMAIN movements
      <4>1. m \in OfOperation(w)
        BY <1>2, <3>1, <3>2, LedgerGoesOn DEF LedgerGrows, OfOperation
      <4> QED BY <1>2, <4>1 DEF UndoneIsEmpty
    <3>3. CASE m \notin DOMAIN movements
      <4>1. request[w].at = "armed"
        BY <1>2, <3>1, <3>3, LedgerGoesOn DEF LedgerHasReasons, Consumes
      <4> QED BY <1>2, <4>1 DEF Base, ArmedFirst
    <3> QED BY <3>2, <3>3
  <2> QED BY <1>1, <2>1 DEF UndoRows, RowsKept
<1>9. ASSUME NEW k \in Workers, worker'[k].at = "applied", StepOf(k)'.kind = "UNDO_CONSUMPTION"
      PROVE  NothingLeftOf(StepOf(k).operation)'
  <2>1. PICK i : i = worker'[k].step
    OBVIOUS
  <2>2. worker[k].at # "idle" /\ worker[k].step = i /\ i \in DOMAIN outbox
    BY <1>2, <1>9, <2>1 DEF ClaimsPass, Base, ClaimsAreSound
  <2>3. PICK w \in Withdrawals : w = outbox[i].operation /\ w = StepOf(k)'.operation
                                 /\ outbox[i].kind = "UNDO_CONSUMPTION"
    BY <1>1, <1>2, <1>9, <2>1, <2>2 DEF StepOf, RowsKept, Base, RowsAreNamed
  <2>4. StepOf(k) = outbox[i]
    BY <2>2 DEF StepOf
  <2>5. NothingLeftOf(w)'
    <3>1. CASE worker[k].at = "applied"
      <4>1. NothingLeftOf(w) /\ request[w].at = "done"
        BY <1>2, <2>3, <2>4, <3>1 DEF UndoneIsEmpty, ClaimsWait
      <4> QED BY <1>2, <4>1, NothingStaysLeft
    <3> QED BY <1>2, <1>9, <2>1, <2>2, <2>3, <3>1 DEF ClaimsPass, Is
  <2> QED BY <2>3, <2>5 DEF NothingLeftOf, OfOperation
<1>10. UndosWait'
  BY <1>4 DEF UndosWait
<1>11. ClaimsWait'
  BY <1>5 DEF ClaimsWait
<1>12. UndoneIsEmpty'
  BY <1>6, <1>7, <1>8, <1>9 DEF UndoneIsEmpty
<1> QED BY <1>10, <1>11, <1>12 DEF Undos

\* The statements of the outbox, by what they do to the undo steps.
LEMMA SameUndos ==
  ASSUME outbox' = outbox
  PROVE  UndosPass
  BY DEF UndosPass, UndoPasses

LEMMA OneUndoPasses ==
  ASSUME Base, NEW i \in DOMAIN outbox, NEW row, outbox' = [outbox EXCEPT ![i] = row],
         UndoPasses(i)
  PROVE  UndosPass
<1>1. DOMAIN outbox' = DOMAIN outbox /\ \A j \in DOMAIN outbox \ {i} : outbox'[j] = outbox[j]
  BY Rows DEF Base
<1> QED BY <1>1 DEF UndosPass, UndoPasses

LEMMA AddedRowPasses ==
  ASSUME Base, NEW row \in StepRow, outbox' = Append(outbox, row),
         row.kind = "UNDO_CONSUMPTION" => row.status = "ARMED" /\ ~row.due
  PROVE  UndosPass
<1>1. /\ DOMAIN outbox' = DOMAIN outbox \cup {Len(outbox) + 1} /\ outbox'[Len(outbox) + 1] = row
      /\ \A i \in DOMAIN outbox : outbox'[i] = outbox[i]
  BY Appended DEF Base
<1> QED BY <1>1 DEF UndosPass, UndoPasses

LEMMA ClosedRowPasses ==
  ASSUME Base, NEW i \in DOMAIN outbox, outbox' = Closed(outbox, i),
         outbox'[i].status = "DONE" => UndoPasses(i)
  PROVE  UndosPass
<1>1. CASE outbox[i].status \in Unclosed
  <2>1. outbox[i] \in StepRow
    BY Rows DEF Base
  <2> DEFINE row == [outbox[i] EXCEPT !.status = "DONE"]
  <2>2. outbox' = [outbox EXCEPT ![i] = row] /\ row.status = "DONE"
    BY <1>1, <2>1 DEF Closed, StepRow
  <2>3. outbox'[i] = row
    BY <2>2, Rows DEF Base
  <2> HIDE DEF row
  <2> QED BY <2>2, <2>3, OneUndoPasses
<1>2. CASE outbox[i].status \notin Unclosed
  BY <1>2, SameUndos DEF Closed
<1> QED BY <1>1, <1>2

\* The disarming of the step of a withdrawal that is done with it.
LEMMA DisarmedPasses ==
  ASSUME Base, NEW w \in Withdrawals, UndoRows(outbox, w) # {}, request'[w].at = "done",
         \/ request[w].at = "undone" /\ outbox' = Disarmed(outbox, w)
         \/ Saved(w)' /\ outbox' = Enqueued(Disarmed(outbox, w), "CONFIRM_CONSUMPTION", w)
  PROVE  UndosPass
<1>1. PICK i \in UndoRows(outbox, w) : i = CHOOSE j \in UndoRows(outbox, w) : TRUE
  OBVIOUS
<1>2. i \in DOMAIN outbox /\ outbox[i].operation = w /\ Disarmed(outbox, w) = Closed(outbox, i)
  BY <1>1 DEF UndoRows, Disarmed
<1>3. CASE request[w].at = "undone" /\ outbox' = Disarmed(outbox, w)
  BY <1>2, <1>3, ClosedRowPasses DEF UndoPasses
<1>4. CASE Saved(w)' /\ outbox' = Enqueued(Disarmed(outbox, w), "CONFIRM_CONSUMPTION", w)
  <2>1. UndoPasses(i)
    <3>1. Saved(outbox[i].operation)' <=> Saved(w)'
      <4>1. RowsKept
        BY RowClosesAndIsAdded, <1>4 DEF Base
      <4> QED BY <1>2, <4>1 DEF RowsKept
    <3> QED BY <1>2, <1>4, <3>1 DEF UndoPasses
  <2>2. PICK closed : closed = Closed(outbox, i)
    OBVIOUS
  <2>3. closed \in Seq(StepRow) /\ DOMAIN closed = DOMAIN outbox
        /\ \A j \in DOMAIN outbox \ {i} : closed[j] = outbox[j]
    <3>1. Len(outbox) \in Nat /\ DOMAIN outbox = 1 .. Len(outbox) /\ outbox[i] \in StepRow
          /\ outbox \in [1 .. Len(outbox) -> StepRow] /\ outbox \in Seq(StepRow)
      BY <1>2, Rows DEF Base
    <3>2. [outbox[i] EXCEPT !.status = "DONE"] \in StepRow
      BY <3>1 DEF StepRow, StepStatus
    <3>3. closed \in [1 .. Len(outbox) -> StepRow] /\ \A j \in DOMAIN outbox \ {i} : closed[j] = outbox[j]
      BY <1>2, <2>2, <3>1, <3>2 DEF Closed
    <3> QED BY <3>1, <3>3, FunctionSeq
  <2>4. PICK row \in StepRow : row = Row("CONFIRM_CONSUMPTION", w, "PENDING", TRUE)
    BY DEF Row, StepRow, StepKind, StepStatus, Operations
  <2>5. outbox' = Append(closed, row) /\ row.kind = "CONFIRM_CONSUMPTION"
    BY <1>2, <1>4, <2>2, <2>4 DEF Enqueued, Row
  <2>6. /\ DOMAIN outbox' = DOMAIN closed \cup {Len(closed) + 1} /\ outbox'[Len(closed) + 1] = row
        /\ \A j \in DOMAIN closed : outbox'[j] = closed[j]
    <3>1. PICK c \in Seq(StepRow) : c = closed
      BY <2>3
    <3>2. /\ DOMAIN Append(c, row) = DOMAIN c \cup {Len(c) + 1} /\ Append(c, row)[Len(c) + 1] = row
          /\ \A j \in DOMAIN c : Append(c, row)[j] = c[j]
      BY Appended
    <3> QED BY <2>5, <3>1, <3>2
  <2>7. \A j \in DOMAIN outbox \ {i} : UndoPasses(j)
    BY <2>3, <2>6 DEF UndoPasses
  <2> QED BY <2>1, <2>3, <2>5, <2>6, <2>7 DEF UndosPass
<1> QED BY <1>3, <1>4

LEMMA SameClaimsPass ==
  ASSUME worker' = worker
  PROVE  ClaimsPass
  BY DEF ClaimsPass

LEMMA SameRequestsPass ==
  ASSUME request' = request
  PROVE  RequestsPass
  BY DEF RequestsPass

LEMMA RequestPasses ==
  ASSUME Base, NEW w \in Withdrawals, NEW r, request' = [request EXCEPT ![w] = r],
         request[w].at # "done", r.at = "undone" => NothingLeftOf(w)'
  PROVE  RequestsPass
<1>1. \A v \in Withdrawals : request'[v] = IF v = w THEN r ELSE request[v]
  BY DEF Base
<1> QED BY <1>1 DEF RequestsPass

LEMMA GoesPasses ==
  ASSUME Base, NEW w \in Withdrawals, NEW from, NEW to, Goes(w, from, to), from # "done",
         to = "undone" => NothingLeftOf(w)'
  PROVE  RequestsPass /\ request'[w].at = to
<1> DEFINE r == [request[w] EXCEPT !.at = to]
<1>1. request' = [request EXCEPT ![w] = r] /\ r.at = to
  BY DEF Goes, Base
<1>2. request'[w] = r
  BY <1>1 DEF Base
<1> HIDE DEF r
<1> QED BY <1>1, <1>2, RequestPasses DEF Goes

\* A withdrawal that leaves the outbox alone.
LEMMA RequestStepsPass ==
  ASSUME Undos, NEW w \in Withdrawals, UNCHANGED <<outbox, worker>>,
         \/ Load(w) \/ ConsumeStock(w) \/ CompensationReads(w) \/ CompensationReturns(w)
         \/ CompensationFails(w) \/ RequestStops(w)
  PROVE  Passing
<1>1. UndosPass /\ ClaimsPass /\ Base
  BY SameUndos, SameClaimsPass DEF Undos
<1>2. CASE Load(w)
  <2> DEFINE r == [at |-> "loaded", version |-> wo.version, withdrawn |-> wo.withdrawn]
  <2>1. request' = [request EXCEPT ![w] = r] /\ r.at = "loaded"
    BY <1>2 DEF Load
  <2> HIDE DEF r
  <2> QED BY <1>1, <1>2, <2>1, RequestPasses DEF Load, Passing
<1>3. CASE ConsumeStock(w)
  BY <1>1, <1>3, GoesPasses DEF ConsumeStock, Passing
<1>4. CASE CompensationReads(w)
  <2>1. movements' = movements
    BY <1>4 DEF CompensationReads, ledgerVars
  <2>2. CASE NothingLeftOf(w)
    <3>1. NothingLeftOf(w)'
      BY <2>1, <2>2 DEF NothingLeftOf, OfOperation
    <3> QED BY <1>1, <1>4, <2>2, <3>1, GoesPasses DEF CompensationReads, Passing
  <2>3. CASE ~NothingLeftOf(w)
    <3>1. Goes(w, "undoing", "returning")
      BY <1>4, <2>3 DEF CompensationReads
    <3> QED BY <1>1, <3>1, GoesPasses DEF Passing
  <2> QED BY <2>2, <2>3
<1>5. CASE CompensationReturns(w)
  <2>1. NothingLeftOf(w)'
    BY <1>1, <1>5, UndoLeavesNothing DEF CompensationReturns
  <2> QED BY <1>1, <1>5, <2>1, GoesPasses DEF CompensationReturns, Passing
<1>6. CASE CompensationFails(w)
  <2>1. PICK at \in {"undoing", "returning", "undone"} : Goes(w, at, "failed")
    BY <1>6 DEF CompensationFails
  <2> QED BY <1>1, <2>1, GoesPasses DEF Passing
<1>7. CASE RequestStops(w)
  <2> DEFINE r == [request[w] EXCEPT !.at = "done"]
  <2>1. request' = [request EXCEPT ![w] = r] /\ r.at = "done"
    BY <1>1, <1>7 DEF RequestStops, Base
  <2> HIDE DEF r
  <2> QED BY <1>1, <1>7, <2>1, RequestPasses DEF RequestStops, Passing
<1> QED BY <1>2, <1>3, <1>4, <1>5, <1>6, <1>7

LEMMA WithdrawalsPass ==
  ASSUME Undos, "lost commit" \notin FaultKinds, NEW w \in Withdrawals,
         Load(w) \/ Withdraw(w) \/ CompensationFails(w) \/ RequestStops(w)
  PROVE  Passing
<1>1. Base /\ IInv
  BY DEF Undos
<1>2. CASE Load(w) \/ ConsumeStock(w) \/ CompensationReads(w) \/ CompensationReturns(w)
           \/ CompensationFails(w) \/ RequestStops(w)
  <2>1. UNCHANGED <<outbox, worker>>
    BY <1>2 DEF Load, ConsumeStock, CompensationReads, CompensationReturns, CompensationFails, RequestStops
  <2> QED BY <1>2, <2>1, RequestStepsPass
<1>3. CASE Arm(w)
  <2>1. RequestsPass /\ ClaimsPass
    BY <1>1, <1>3, GoesPasses, SameClaimsPass DEF Arm
  <2>2. PICK row \in StepRow : row = Row("UNDO_CONSUMPTION", w, "ARMED", FALSE)
    BY DEF Row, StepRow, StepKind, StepStatus, Operations
  <2>3. outbox' = Append(outbox, row) /\ row.status = "ARMED" /\ ~row.due
    BY <1>3, <2>2 DEF Arm, Armed, Row
  <2>4. UndosPass
    BY <1>1, <2>3, AddedRowPasses
  <2> QED BY <2>1, <2>4 DEF Passing
<1>4. CASE Commit(w)
  <2>1. CASE outbox' = outbox
    <3>1. RequestsPass /\ ClaimsPass
      BY <1>1, <1>4, GoesPasses, SameClaimsPass DEF Commit
    <3> QED BY <2>1, <3>1, SameUndos DEF Passing
  <2>2. CASE Goes(w, "consumed", "done") /\ SaveWithdrawal(w)
    <3>1. RequestsPass /\ ClaimsPass /\ request'[w].at = "done"
      BY <1>1, <1>4, <2>2, GoesPasses, SameClaimsPass DEF Commit
    <3>2. UndoRows(outbox, w) # {} /\ outbox' = Enqueued(Disarmed(outbox, w), "CONFIRM_CONSUMPTION", w)
      BY <2>2 DEF SaveWithdrawal, IsArmed
    <3>3. Saved(w)'
      <4>1. RowAdded("CONFIRM_CONSUMPTION", w)
        BY <1>1, <3>2, RowClosesAndIsAdded DEF Base
      <4> QED BY <4>1 DEF RowAdded, Saved, Recorded
    <3>4. UndosPass
      BY <1>1, <3>1, <3>2, <3>3, DisarmedPasses
    <3> QED BY <3>1, <3>4 DEF Passing
  <2> QED BY <1>4, <2>1, <2>2 DEF Commit, Fault
<1>5. CASE CompensationCompletes(w)
  <2>4. request[w].at = "undone"
    BY <1>5 DEF CompensationCompletes, Goes
  <2>1. RequestsPass /\ ClaimsPass /\ request'[w].at = "done"
    BY <1>1, <1>5, GoesPasses, SameClaimsPass DEF CompensationCompletes
  <2>2. UndoRows(outbox, w) # {}
    BY <1>1, <2>4 DEF Base, ArmedFirst
  <2>3. UndosPass
    BY <1>1, <1>5, <2>4, <2>1, <2>2, DisarmedPasses DEF CompensationCompletes
  <2> QED BY <2>1, <2>3 DEF Passing
<1>6. CASE HandToProcessor(w)
  <2>1. RequestsPass /\ ClaimsPass /\ request'[w].at = "done"
    BY <1>1, <1>6, GoesPasses, SameClaimsPass DEF HandToProcessor
  <2>2. CASE outbox' = outbox
    BY <2>1, <2>2, SameUndos DEF Passing
  <2>3. CASE outbox' = Released(outbox, w)
    <3>1. DOMAIN outbox' = DOMAIN outbox
      BY <1>1, <2>3, RowIsReleased DEF Base
    <3>2. ASSUME NEW i \in DOMAIN outbox PROVE UndoPasses(i)
      <4>1. outbox[i] \in StepRow
        BY <1>1, Rows DEF Base
      <4>2. CASE i \in UndoRows(outbox, w) /\ outbox[i].status = "ARMED"
        <5>1. outbox'[i].status = "PENDING" /\ outbox[i].operation = w
          BY <2>3, <4>1, <4>2 DEF Released, StepRow, UndoRows
        <5> QED BY <2>1, <5>1 DEF UndoPasses
      <4>3. CASE ~(i \in UndoRows(outbox, w) /\ outbox[i].status = "ARMED")
        BY <2>3, <4>3 DEF Released, UndoPasses
      <4> QED BY <4>2, <4>3
    <3> QED BY <2>1, <3>1, <3>2 DEF Passing, UndosPass
  <2> QED BY <1>6, <2>2, <2>3 DEF HandToProcessor
<1> QED BY <1>2, <1>3, <1>4, <1>5, <1>6 DEF Withdraw

LEMMA SavesPass ==
  ASSUME Undos, (\E r \in Returns : ReturnParts(r)) \/ CompleteWorkOrder \/ DeliverVehicle \/ CancelWorkOrder
  PROVE  Passing
<1>1. Base /\ request' = request /\ worker' = worker
  BY DEF Undos, ReturnParts, CompleteWorkOrder, DeliverVehicle, CancelWorkOrder, Saves
<1>2. ASSUME NEW kind \in {"RESTORE", "SETTLE", "WRITE_OFF"}, NEW op \in Operations \cup {"visit"},
             outbox' = Enqueued(outbox, kind, op)
      PROVE  UndosPass
  <2>1. PICK row \in StepRow : row = Row(kind, op, "PENDING", TRUE)
    BY DEF Row, StepRow, StepKind, StepStatus
  <2>2. outbox' = Append(outbox, row) /\ row.kind # "UNDO_CONSUMPTION"
    BY <1>2, <2>1 DEF Enqueued, Row
  <2> QED BY <1>1, <2>2, AddedRowPasses
<1>3. UndosPass
  <2>1. CASE \E r \in Returns : ReturnParts(r)
    BY <1>2, <2>1, OperationsAreFinite DEF ReturnParts
  <2>2. CASE CompleteWorkOrder
    BY <2>2, SameUndos DEF CompleteWorkOrder
  <2>3. CASE DeliverVehicle
    BY <1>2, <2>3 DEF DeliverVehicle
  <2>4. CASE CancelWorkOrder
    BY <1>2, <2>4 DEF CancelWorkOrder
  <2> QED BY <2>1, <2>2, <2>3, <2>4
<1> QED BY <1>1, <1>3, SameClaimsPass, SameRequestsPass DEF Passing

LEMMA ClaimPasses ==
  ASSUME Base, NEW k \in Workers, NEW c, worker' = [worker EXCEPT ![k] = c],
         \/ c.at = "idle"
         \/ /\ worker[k].at # "idle" /\ c.step = worker[k].step
            /\ c.at = "applied" =>
                 \/ worker[k].at = "applied"
                 \/ \A w \in Withdrawals : Is(worker[k].step, "UNDO_CONSUMPTION", w) => NothingLeftOf(w)'
         \/ c.at = "claimed" /\ c.step \in DOMAIN outbox /\ outbox[c.step].due
  PROVE  ClaimsPass
<1>1. \A j \in Workers : worker'[j] = IF j = k THEN c ELSE worker[j]
  BY DEF Base, WorkerShape
<1> QED BY <1>1 DEF ClaimsPass

\* A claim that moves on, and what it is at then.
LEMMA ClaimGoesPasses ==
  ASSUME Base, NEW k \in Workers, worker[k].at # "idle", NEW at,
         MovesTo(k, at) \/ WorkGoes(k, at) \/ worker' = [worker EXCEPT ![k].at = at, ![k].candidates = WriteOffCandidates],
         at = "applied" =>
           \A w \in Withdrawals : Is(worker[k].step, "UNDO_CONSUMPTION", w) => NothingLeftOf(w)'
  PROVE  ClaimsPass
<1>1. PICK C : worker \in [Workers -> [at : WorkerAt, step : Nat, attempts : Nat, candidates : C]]
  BY DEF Base, WorkerShape
<1>2. /\ worker'[k].at = at /\ worker'[k].step = worker[k].step
      /\ \A j \in Workers \ {k} : worker'[j] = worker[j]
  BY <1>1 DEF MovesTo, WorkGoes
<1> QED BY <1>2 DEF ClaimsPass

LEMMA ApplyPasses ==
  ASSUME Undos, NEW k \in Workers, Apply(k)
  PROVE  Passing
<1>1. Base /\ request' = request /\ outbox' = outbox
  BY DEF Undos, Apply
<1>2. ClaimsPass
  <2>1. CASE ReadsUndo(k)
    <3>1. PICK at : at = (IF NothingLeftOf(StepOf(k).operation) THEN "applied" ELSE "reading")
      OBVIOUS
    <3>2. worker[k].at # "idle" /\ WorkGoes(k, at) /\ movements' = movements
      BY <2>1, <3>1 DEF ReadsUndo, ledgerVars
    <3>3. ASSUME at = "applied", NEW w \in Withdrawals, Is(worker[k].step, "UNDO_CONSUMPTION", w)
          PROVE  NothingLeftOf(w)'
      <4>1. NothingLeftOf(w)
        BY <3>1, <3>3 DEF Is, StepOf
      <4> QED BY <3>2, <4>1 DEF NothingLeftOf, OfOperation
    <3> QED BY <1>1, <3>2, <3>3, ClaimGoesPasses
  <2>2. CASE ReadsWriteOff(k)
    <3>1. PICK at : /\ at = "reading" /\ worker[k].at # "idle"
                    /\ worker' = [worker EXCEPT ![k].at = at, ![k].candidates = WriteOffCandidates]
      BY <2>2 DEF ReadsWriteOff
    <3>2. at = "applied" =>
           \A w \in Withdrawals : Is(worker[k].step, "UNDO_CONSUMPTION", w) => NothingLeftOf(w)'
      BY <3>1
    <3> QED BY <1>1, <3>1, <3>2, ClaimGoesPasses
  <2>3. CASE Effect(k) /\ MovesTo(k, "applied")
    <3>1. worker[k].at # "idle"
      BY <2>3 DEF Effect
    <3>2. ASSUME NEW w \in Withdrawals, Is(worker[k].step, "UNDO_CONSUMPTION", w)
          PROVE  NothingLeftOf(w)'
      <4>1. UndoConsumption(w)
        BY <2>3, <3>2 DEF Effect, StepOf, Is
      <4> QED BY <1>1, <4>1, UndoLeavesNothing
    <3> QED BY <1>1, <2>3, <3>1, <3>2, ClaimGoesPasses
  <2>4. CASE (Effect(k) \/ Refused(k)) /\ MovesTo(k, "failed")
    <3>1. worker[k].at # "idle"
      BY <2>4 DEF Effect, Refused
    <3>2. PICK at : at = "failed" /\ MovesTo(k, at)
      BY <2>4
    <3>3. at = "applied" =>
           \A w \in Withdrawals : Is(worker[k].step, "UNDO_CONSUMPTION", w) => NothingLeftOf(w)'
      BY <3>2
    <3> QED BY <1>1, <3>1, <3>2, <3>3, ClaimGoesPasses
  <2> QED BY <2>1, <2>2, <2>3, <2>4 DEF Apply
<1> QED BY <1>1, <1>2, SameUndos, SameRequestsPass DEF Passing

LEMMA ClaimStepsPass ==
  ASSUME Undos, NEW k \in Workers, Work(k) \/ WorkFails(k) \/ WorkerStops(k)
  PROVE  Passing
<1>1. Base
  BY DEF Undos
<1>2. CASE Claim(k)
  <2>1. PICK i \in DOMAIN outbox :
          /\ Claimable(outbox, i) /\ outbox' = Claimed(outbox, i)
          /\ worker' = [worker EXCEPT ![k] = [at |-> "claimed", step |-> i,
                          attempts |-> outbox[i].attempts + 1, candidates |-> << >>]]
    BY <1>2 DEF Claim
  <2>2. outbox[i].due /\ outbox[i] \in StepRow
    BY <1>1, <2>1, Rows DEF Claimable, Base
  <2>3. UndosPass
    <3> DEFINE row == [outbox[i] EXCEPT !.status = "PENDING", !.due = FALSE,
                                        !.attempts = outbox[i].attempts + 1]
    <3>1. outbox' = [outbox EXCEPT ![i] = row] /\ row.status = "PENDING"
      BY <2>1, <2>2 DEF Claimed, StepRow
    <3>2. outbox'[i] = row
      BY <1>1, <3>1, Rows DEF Base
    <3> HIDE DEF row
    <3>3. UndoPasses(i)
      BY <2>2, <3>1, <3>2 DEF UndoPasses
    <3> QED BY <1>1, <3>1, <3>3, OneUndoPasses
  <2>4. ClaimsPass
    <3> DEFINE c == [at |-> "claimed", step |-> i, attempts |-> outbox[i].attempts + 1, candidates |-> << >>]
    <3>1. worker' = [worker EXCEPT ![k] = c] /\ c.at = "claimed" /\ c.step = i
      BY <2>1
    <3> HIDE DEF c
    <3> QED BY <1>1, <2>2, <3>1, ClaimPasses
  <2> QED BY <1>2, <2>3, <2>4, SameRequestsPass DEF Claim, Passing
<1>3. CASE Apply(k)
  BY <1>3, ApplyPasses
<1>4. CASE WorkFails(k)
  <2>1. worker[k].at # "idle" /\ MovesTo(k, "failed") /\ outbox' = outbox /\ request' = request
    BY <1>4 DEF WorkFails
  <2>2. PICK at : at = "failed" /\ MovesTo(k, at)
    BY <2>1
  <2>4. at = "applied" =>
         \A w \in Withdrawals : Is(worker[k].step, "UNDO_CONSUMPTION", w) => NothingLeftOf(w)'
    BY <2>2
  <2>3. ClaimsPass
    BY <1>1, <2>1, <2>2, <2>4, ClaimGoesPasses
  <2> QED BY <2>1, <2>3, SameUndos, SameRequestsPass DEF Passing
<1>5. ASSUME Release(k) PROVE ClaimsPass
  BY <1>1, <1>5, ClaimPasses DEF Release, NoClaim
<1>6. CASE WorkerStops(k)
  BY <1>5, <1>6, SameUndos, SameRequestsPass DEF WorkerStops, Passing
<1>7. CASE CompleteStep(k)
  <2>1. PICK i \in DOMAIN outbox : i = worker[k].step
    BY <1>1, <1>7 DEF CompleteStep, Base, ClaimsAreSound
  <2>2. outbox' = Closed(outbox, i) /\ worker[k].at = "applied"
    BY <1>7, <2>1 DEF CompleteStep, Completed
  <2>3. UndoPasses(i)
    BY <2>1, <2>2 DEF UndoPasses
  <2>4. UndosPass
    BY <1>1, <2>2, <2>3, ClosedRowPasses
  <2> QED BY <1>5, <1>7, <2>4, SameRequestsPass DEF CompleteStep, Passing
<1>8. CASE Fail(k)
  <2>1. PICK i \in DOMAIN outbox : i = worker[k].step
    BY <1>1, <1>8 DEF Fail, Base, ClaimsAreSound
  <2>2. PICK exhausted : exhausted = (worker[k].attempts >= MaxAttempts)
    OBVIOUS
  <2>3. outbox' = Failed(outbox, i, exhausted) /\ worker[k].at = "failed" /\ outbox[i] \in StepRow
    BY <1>1, <1>8, <2>1, <2>2, Rows DEF Fail, Base
  <2>4. UndosPass
    <3>1. CASE outbox[i].status \notin Unclosed
      BY <2>3, <3>1, SameUndos DEF Failed
    <3>2. CASE outbox[i].status \in Unclosed
      <4> DEFINE row == IF exhausted THEN [outbox[i] EXCEPT !.status = "FAILED"]
                        ELSE [outbox[i] EXCEPT !.due = TRUE]
      <4>1. outbox' = [outbox EXCEPT ![i] = row] /\ row.status # "DONE"
        BY <2>3, <3>2 DEF Failed, StepRow, Unclosed
      <4>2. outbox'[i] = row
        BY <1>1, <4>1, Rows DEF Base
      <4> HIDE DEF row
      <4>3. UndoPasses(i)
        BY <2>1, <2>3, <4>1, <4>2 DEF UndoPasses
      <4> QED BY <1>1, <4>1, <4>3, OneUndoPasses
    <3> QED BY <3>1, <3>2
  <2> QED BY <1>5, <1>8, <2>4, SameRequestsPass DEF Fail, Passing
<1> QED BY <1>2, <1>3, <1>4, <1>6, <1>7, <1>8 DEF Work

LEMMA TimePassesUndos ==
  ASSUME Undos, TimePasses \/ OperatorRetries
  PROVE  Passing
<1>1. Base
  BY DEF Undos
<1>2. CASE TimePasses
  <2>1. PICK i \in DOMAIN outbox : ~Held(i) /\ FallsDue(i)
    BY <1>2 DEF TimePasses
  <2>2. outbox[i] \in StepRow
    BY <1>1, Rows DEF Base
  <2>3. UndosPass
    <3> DEFINE row == [outbox[i] EXCEPT !.due = TRUE]
    <3>1. outbox' = [outbox EXCEPT ![i] = row] /\ row.status = outbox[i].status /\ row.status # "DONE"
      BY <2>1, <2>2 DEF FallsDue, StepRow, Unclosed
    <3>2. outbox'[i] = row
      BY <1>1, <3>1, Rows DEF Base
    <3>3. outbox[i].status # "ARMED" \/ ~Running(outbox[i].operation)
      BY <2>1 DEF Held
    <3> HIDE DEF row
    <3>4. UndoPasses(i)
      BY <3>1, <3>2, <3>3 DEF UndoPasses
    <3> QED BY <1>1, <3>1, <3>4, OneUndoPasses
  <2> QED BY <2>1, <2>3, SameRequestsPass, SameClaimsPass DEF FallsDue, Passing
<1>3. CASE OperatorRetries
  <2>1. PICK i \in DOMAIN outbox :
          outbox[i].status = "FAILED"
          /\ outbox' = [outbox EXCEPT ![i].status = "PENDING", ![i].due = TRUE]
    BY <1>3 DEF OperatorRetries
  <2>2. outbox[i] \in StepRow
    BY <1>1, Rows DEF Base
  <2>3. UndosPass
    <3> DEFINE row == [outbox[i] EXCEPT !.status = "PENDING", !.due = TRUE]
    <3>1. outbox' = [outbox EXCEPT ![i] = row] /\ row.status = "PENDING"
      BY <1>1, <2>1, <2>2, Rows DEF StepRow, Base
    <3>2. outbox'[i] = row
      BY <1>1, <3>1, Rows DEF Base
    <3> HIDE DEF row
    <3>3. UndoPasses(i)
      BY <2>1, <3>1, <3>2 DEF UndoPasses
    <3> QED BY <1>1, <3>1, <3>3, OneUndoPasses
  <2> QED BY <1>3, <2>3, SameRequestsPass, SameClaimsPass DEF OperatorRetries, Passing
<1> QED BY <1>2, <1>3

LEMMA UndosStep ==
  ASSUME "lost commit" \notin FaultKinds, "stall" \notin FaultKinds, Undos, [Next]_vars
  PROVE  Undos'
<1>1. Base' /\ Stepping /\ IInv'
  BY BaseStep, StepKeeps DEF Undos
<1>2. Passing
  <2>1. CASE UNCHANGED vars
    BY <2>1, SameUndos, SameRequestsPass, SameClaimsPass DEF vars, Passing
  <2>2. CASE Next
    <3>1. ~TimeOutruns
      BY DEF TimeOutruns, Fault
    <3> QED BY <2>2, <3>1, WithdrawalsPass, SavesPass, ClaimStepsPass, TimePassesUndos DEF Next
  <2> QED BY <2>1, <2>2
<1> QED BY <1>1, <1>2, PassingKeepsUndos

\* When nothing is left to do, a withdrawal that never reached the work order
\* holds no units, whatever crashed, failed or lost its answer, as long as no
\* grace period and no lease ends while its holder is still at work.
THEOREM NoUnitsAreOrphaned ==
  ASSUME "lost commit" \notin FaultKinds, "stall" \notin FaultKinds
  PROVE  Spec => []NothingIsOrphaned
<1>1. Undos => NothingIsOrphaned
  <2> SUFFICES ASSUME Undos, Quiet, NEW m \in DOMAIN movements, m \notin SavedRows
               PROVE  Remaining(movements[m]) = 0
    BY DEF NothingIsOrphaned
  <2>1. PICK w \in Withdrawals : w = movements[m].operation
    BY MovementRows DEF Undos
  <2>2. ~Saved(w) /\ m \in OfOperation(w)
    BY <2>1 DEF SavedRows, OfOperation
  <2>3. PICK i \in UndoRows(outbox, w) : TRUE
    BY <2>2 DEF Undos, UndoneIsEmpty
  <2>4. outbox[i].status = "DONE"
    BY <2>3 DEF Quiet, UndoRows
  <2> QED BY <2>2, <2>3, <2>4 DEF Undos, UndoneIsEmpty, NothingLeftOf
<1>2. Init => Undos
  BY UndosStart
<1>3. Undos /\ [Next]_vars => Undos'
  BY UndosStep
<1> QED BY <1>1, <1>2, <1>3, PTL DEF Spec

===============================================================================
