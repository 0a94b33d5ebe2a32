------------------------------ MODULE Readiness ------------------------------
(***************************************************************************)
(* The readiness probe: the database and Redis are asked at once, and one  *)
(* that has not answered after CHECK_TIMEOUT_MS is down.  Nobody waits for *)
(* such a question any longer, but it is still asked, and its answer may   *)
(* come while a later probe waits for one of its own.  The timers of the   *)
(* process fire on time: nothing blocks its event loop.                    *)
(***************************************************************************)
EXTENDS Integers

CONSTANTS
  Dependencies,
  CHECK_TIMEOUT,  \* in ticks of the clock
  MaxTime,        \* bound: the last tick
  MaxLate         \* bound: unanswered questions of earlier probes

ASSUME ReadinessAssumption ==
  CHECK_TIMEOUT \in Nat \ {0} /\ MaxTime \in Nat \ {0} /\ MaxLate \in Nat

VARIABLES
  now,
  probe,    \* whether a probe waits, since when, and its two checks
  late,     \* of each dependency: questions of earlier probes, not answered yet
  replied,  \* when each dependency last answered a probe that waited
  report    \* the last answer to a probe

readinessVars == <<now, probe, late, replied, report>>

NoReport == [status |-> "none", asked |-> 0, at |-> 0]

ReadinessInit ==
  /\ now = 1
  /\ probe = [at |-> "idle", since |-> 0, checks |-> [d \in Dependencies |-> "asked"]]
  /\ late = [d \in Dependencies |-> 0]
  /\ replied = [d \in Dependencies |-> 0]
  /\ report = NoReport

Waits(d) == probe.at = "asking" /\ probe.checks[d] = "asked"

\* Promise.race: the first of the answer and the timer settles the check.
Settle(d, state) ==
  probe' = [probe EXCEPT !.checks = [probe.checks EXCEPT ![d] = state]]

Probe ==
  /\ probe.at = "idle"
  /\ now + CHECK_TIMEOUT <= MaxTime /\ \A d \in Dependencies : late[d] < MaxLate
  /\ probe' = [at |-> "asking", since |-> now, checks |-> [d \in Dependencies |-> "asked"]]
  /\ UNCHANGED <<now, late, replied, report>>

Answer(d) ==
  /\ Waits(d)
  /\ Settle(d, "up")
  /\ replied' = [replied EXCEPT ![d] = now]
  /\ UNCHANGED <<now, late, report>>

Reject(d) == Waits(d) /\ Settle(d, "down") /\ UNCHANGED <<now, late, replied, report>>

Due(d) == now - probe.since >= CHECK_TIMEOUT

Expire(d) ==
  /\ Waits(d) /\ Due(d)
  /\ Settle(d, "down")
  /\ late' = [late EXCEPT ![d] = @ + 1]
  /\ UNCHANGED <<now, replied, report>>

\* Mutation: the answer to an earlier question settles the check that waits.
LateAnswerSettles(d) ==
  /\ late[d] > 0
  /\ late' = [late EXCEPT ![d] = @ - 1]
  /\ IF Waits(d) THEN Settle(d, "up") ELSE UNCHANGED probe
  /\ UNCHANGED <<now, replied, report>>

LateAnswer(d) ==
  /\ late[d] > 0
  /\ late' = [late EXCEPT ![d] = @ - 1]
  /\ UNCHANGED <<now, probe, replied, report>>

\* Promise.all
Settled == \A d \in Dependencies : probe.checks[d] # "asked"

Status == IF \A d \in Dependencies : probe.checks[d] = "up" THEN "ok" ELSE "error"

Report ==
  /\ probe.at = "asking" /\ Settled
  /\ report' = [status |-> Status, asked |-> probe.since, at |-> now]
  /\ probe' = [probe EXCEPT !.at = "idle"]
  /\ UNCHANGED <<now, late, replied>>

\* Time passes when no timer is due and no report waits to be sent.
Tick ==
  /\ now < MaxTime
  /\ probe.at = "asking" => ~Settled /\ \A d \in Dependencies : ~(Waits(d) /\ Due(d))
  /\ now' = now + 1
  /\ UNCHANGED <<probe, late, replied, report>>

ReadinessNext ==
  \/ Probe \/ Report \/ Tick
  \/ \E d \in Dependencies : Answer(d) \/ Reject(d) \/ Expire(d) \/ LateAnswer(d)

\* The clock goes on, and timers fire; no dependency has to answer a probe.
ReadinessSpec ==
  /\ ReadinessInit /\ [][ReadinessNext]_readinessVars
  /\ WF_readinessVars(Tick) /\ WF_readinessVars(Report)
  /\ \A d \in Dependencies : WF_readinessVars(Expire(d)) /\ WF_readinessVars(LateAnswer(d))

-------------------------------------------------------------------------------
ReadinessTypeOK ==
  /\ now \in 1 .. MaxTime
  /\ probe \in [at : {"idle", "asking"}, since : 0 .. now,
                checks : [Dependencies -> {"asked", "up", "down"}]]
  /\ late \in [Dependencies -> 0 .. MaxLate]
  /\ replied \in [Dependencies -> 0 .. now]
  /\ report \in [status : {"none", "ok", "error"}, asked : 0 .. report.at, at : 0 .. now]

(* Ready means that every dependency answered this very probe: neither one *)
(* of them alone nor an answer that comes late for an earlier probe is     *)
(* enough (check-readiness.use-case.ts, execute and stateOf).              *)
ReadyMeansAllAnswered ==
  report.status = "ok" =>
    \A d \in Dependencies : report.asked <= replied[d]

(* A probe is answered within the timeout, however many of the             *)
(* dependencies hang and whichever settles first (stateOf).                *)
ProbeEndsInTime ==
  /\ report.at - report.asked <= CHECK_TIMEOUT
  /\ probe.at = "asking" => now - probe.since <= CHECK_TIMEOUT

(* Every probe is answered in the end, though no dependency ever does.     *)
EveryProbeIsAnswered == probe.at = "asking" ~> probe.at = "idle"
===============================================================================
