---------------------------- MODULE DeliveryQueue ----------------------------
(***************************************************************************)
(* The durable delivery queue: src/src/automation/queue.js (rows, leases,  *)
(* claims, checks), runtime.js (one tick of a delivery worker), the wire   *)
(* half of transport.js, the owner's operations of history.js, and the     *)
(* cancellations of monitors.js, workflow-deletion.js, marketplace-core.js.*)
(*                                                                         *)
(* A job is one row of automation_jobs.  Workers are bot processes that    *)
(* share the database: two nodes, or an old and a restarted process.  Each *)
(* database transaction is one atomic action; everything a worker does     *)
(* between two awaits of runtime.js is one step of it; any other worker,   *)
(* an owner, Discord or a crash may act in between.                        *)
(*                                                                         *)
(* Abstractions.  Time: a lease is live until it runs out, which may       *)
(* happen at any moment, and a pending job may be due at any moment.       *)
(* Content: a plan is the set of items it will show, an item being what    *)
(* one monitor contributed through one job.  A Discord request is a record *)
(* that is on the wire until Discord accepts or refuses it.                *)
(***************************************************************************)
EXTENDS Integers, FiniteSets

CONSTANTS
  Jobs,           \* identities of automation_jobs rows
  Workers,        \* processes that run ticks
  Monitors,       \* watch targets that contribute events
  MonitorsOf,     \* the monitors whose events the job carries when created
  FlowJobs,       \* rows with execution_version 2, made by the flow projector
  LegacyHeld,     \* rows an earlier release may have left in state 'held'
  Aggregation,    \* aggregate mode of the rule: "none", "all" or "latest"
  MaxItems,       \* plan.aggregate.maxItems
  RecoveryBatch,  \* LIMIT of the recovery roster (100 in the code)
  AttemptLimit,   \* attempts that make a failure permanent (10 in the code)
  GateLimit,      \* limit.count of the rule's rate gate
  MaxSteps,       \* bound: messages in one batch
  MaxLeases,      \* bound: leases ever granted
  NoJob           \* the absent parent

ASSUME JobAssumption ==
  /\ IsFiniteSet(Jobs) /\ NoJob \notin Jobs
  /\ MonitorsOf \in [Jobs -> (SUBSET Monitors) \ {{}}]
  /\ FlowJobs \subseteq Jobs
  /\ LegacyHeld \subseteq Jobs \ FlowJobs
  /\ \A j \in Jobs \ FlowJobs : \E m \in Monitors : MonitorsOf[j] = {m}

ASSUME LimitAssumption ==
  /\ Aggregation \in {"none", "all", "latest"}
  /\ MaxItems \in Nat \ {0} /\ RecoveryBatch \in Nat \ {0}
  /\ AttemptLimit \in Nat \ {0} /\ GateLimit \in Nat \ {0}
  /\ MaxSteps \in Nat \ {0} /\ MaxLeases \in Nat

VARIABLES
  \* rows of automation_jobs
  state, parent, members, lease, live, attempts, sentSteps, charged,
  \* monitors, the rate gate's counter, random lease tokens
  stale, gateUsed, lastLease,
  \* a worker's memory, lost in a crash
  pc, wjob, wlease, wplan, tries, wsteps, wconf, goal,
  \* Discord
  wire, delivered

rowVars == <<state, parent, members, lease, live, attempts, sentSteps, charged>>
envVars == <<stale, gateUsed, lastLease>>
workVars == <<pc, wjob, wlease, wplan, tries, wsteps, wconf, goal>>
netVars == <<wire, delivered>>
vars == <<rowVars, envVars, workVars, netVars>>

-----------------------------------------------------------------------------
(* Row states, in the groups queue.js tests for.                           *)

Unsent == {"failed", "expired", "cancelled", "excluded"}
Uncertain == {"unknown", "partial"}
Terminal == Unsent \cup Uncertain \cup {"sent"}
Withdrawable == {"pending", "held", "leased", "aggregated"}
RowStates == Terminal \cup Withdrawable \cup {"none", "sending"}

NoLease == 0
Leases == 1..MaxLeases
Item == [from : Jobs, monitor : Monitors]
Content(j) == {i \in Item : i.from = j /\ i.monitor \in MonitorsOf[j]}
Request == [job : Jobs, lease : Leases, step : 1..MaxSteps, of : 1..MaxSteps,
            items : SUBSET Item]

\* AutomationJob counters only matter up to the limit they are compared with.
Bump(n) == IF n < AttemptLimit THEN n + 1 ELSE n

PhaseBeforeSend == {"claimed", "refreshed", "checked", "count", "prepared"}
PhaseSending == {"sending", "gate", "submit", "await", "ack"}
Phases == PhaseBeforeSend \cup PhaseSending \cup {"idle", "recovered", "settle"}

Init ==
  /\ state \in [Jobs -> {"none", "held"}]
  /\ \A j \in Jobs : state[j] = "held" => j \in LegacyHeld
  /\ parent = [j \in Jobs |-> NoJob]
  /\ members = [j \in Jobs |-> IF state[j] = "held" THEN Content(j) ELSE {}]
  /\ lease = [j \in Jobs |-> NoLease]
  /\ live = [j \in Jobs |-> FALSE]
  /\ attempts = [j \in Jobs |-> 0]
  /\ sentSteps \in [Jobs -> 0..1]
  /\ \A j \in Jobs : sentSteps[j] = 1 => state[j] = "held"
  /\ charged = [j \in Jobs |-> FALSE]
  /\ stale = {} /\ gateUsed = 0 /\ lastLease = NoLease
  /\ pc = [w \in Workers |-> "idle"]
  /\ wjob = [w \in Workers |-> NoJob]
  /\ wlease = [w \in Workers |-> NoLease]
  /\ wplan = [w \in Workers |-> {}]
  /\ tries = [w \in Workers |-> 0]
  /\ wsteps = [w \in Workers |-> 0]
  /\ wconf = [w \in Workers |-> 0]
  /\ goal = [w \in Workers |-> "none"]
  /\ wire = {} /\ delivered = {}

-----------------------------------------------------------------------------
(* Row updates shared by several transactions.                             *)

\* Fault: the children are left behind.
ResolvedAlone(j, s) == [state EXCEPT ![j] = s]

\* Writing a terminal state to a row takes its aggregated children along.
Resolved(j, s) ==
  [k \in Jobs |->
     IF k = j THEN s
     ELSE IF s \in Terminal /\ parent[k] = j /\ state[k] = "aggregated" THEN s
     ELSE state[k]]

Unlease(S) == /\ lease' = [j \in Jobs |-> IF j \in S THEN NoLease ELSE lease[j]]
              /\ live' = [j \in Jobs |-> IF j \in S THEN FALSE ELSE live[j]]

\* The worker's tick ends; its memory of the job is gone.
Forget(w) ==
  /\ pc' = [pc EXCEPT ![w] = "idle"]
  /\ wjob' = [wjob EXCEPT ![w] = NoJob]
  /\ wlease' = [wlease EXCEPT ![w] = NoLease]
  /\ wplan' = [wplan EXCEPT ![w] = {}]
  /\ tries' = [tries EXCEPT ![w] = 0]
  /\ wsteps' = [wsteps EXCEPT ![w] = 0]
  /\ wconf' = [wconf EXCEPT ![w] = 0]
  /\ goal' = [goal EXCEPT ![w] = "none"]

\* The worker goes on to phase p.
Go(w, p) == /\ pc' = [pc EXCEPT ![w] = p]
            /\ UNCHANGED <<wjob, wlease, wplan, tries, wsteps, wconf, goal>>

\* The worker will ask for the transition to state s.
Aim(w, s) == /\ pc' = [pc EXCEPT ![w] = "settle"]
             /\ goal' = [goal EXCEPT ![w] = s]
             /\ UNCHANGED <<wjob, wlease, wplan, tries, wsteps, wconf>>

-----------------------------------------------------------------------------
(* Routing: a job appears.                                                 *)

ReceivedCount(p) == 1 + Cardinality({c \in Jobs : parent[c] = p})

\* Fault: a batch that a worker has already read still accepts events.
JoinableWhileLeased(p) ==
  state[p] \in {"pending", "leased"} /\ ReceivedCount(p) < MaxItems

\* The parent an aggregated output may join: still pending, room left.
Joinable(p) == state[p] = "pending" /\ ReceivedCount(p) < MaxItems

\* In mode "latest" a new event replaces the earlier children of the batch.
Superseded(p) == {k \in Jobs : parent[k] = p /\ state[k] = "aggregated"}

RouteRoot(j) ==
  /\ state[j] = "none"
  /\ state' = [state EXCEPT ![j] = "pending"]
  /\ members' = [members EXCEPT ![j] = Content(j)]
  /\ UNCHANGED <<parent, lease, live, attempts, sentSteps, charged>>
  /\ UNCHANGED <<envVars, workVars, netVars>>

RouteJoin(j, p) ==
  /\ state[j] = "none" /\ {j, p} \cap FlowJobs = {}
  /\ Aggregation # "none"
  /\ parent[p] = NoJob /\ MonitorsOf[p] = MonitorsOf[j] /\ Joinable(p)
  /\ parent' = [parent EXCEPT ![j] = p]
  /\ IF Aggregation = "latest"
       THEN /\ members' = [members EXCEPT ![p] = Content(j), ![j] = Content(j)]
            /\ state' = [k \in Jobs |->
                 IF k = j THEN "aggregated"
                 ELSE IF k \in Superseded(p) THEN "excluded"
                 ELSE state[k]]
       ELSE /\ members' = [members EXCEPT ![p] = @ \cup Content(j),
                                          ![j] = Content(j)]
            /\ state' = [state EXCEPT ![j] = "aggregated"]
  /\ UNCHANGED <<lease, live, attempts, sentSteps, charged>>
  /\ UNCHANGED <<envVars, workVars, netVars>>

-----------------------------------------------------------------------------
(* claim(): first a transaction that recovers abandoned rows, then one     *)
(* that leases a due job.                                                  *)

\* Fault: only the held rows of the earlier release are recovered.
RecoverableHeld(j) == state[j] = "held"

Recoverable(j) ==
  \/ state[j] = "held"
  \/ state[j] = "sending" /\ ~live[j]
  \/ state[j] = "aggregated" /\ state[parent[j]] \in Terminal

\* Fault: an abandoned send is recycled.
RecoveredToPending(j) ==
  CASE state[j] = "held" -> IF sentSteps[j] > 0 THEN "partial" ELSE "failed"
    [] state[j] = "sending" -> "pending"
    [] OTHER -> state[parent[j]]

RecoveredState(j) ==
  CASE state[j] = "held" -> IF sentSteps[j] > 0 THEN "partial" ELSE "failed"
    [] state[j] = "sending" -> "unknown"
    [] OTHER -> state[parent[j]]

RosterSize(n) == IF n < RecoveryBatch THEN n ELSE RecoveryBatch

ClaimRecover(w) ==
  LET eligible == {j \in Jobs : Recoverable(j)} IN
  /\ pc[w] = "idle"
  /\ \E R \in SUBSET eligible :
       LET orphans == {k \in Jobs : parent[k] \in R /\ state[k] = "aggregated"} IN
       /\ Cardinality(R) = RosterSize(Cardinality(eligible))
       /\ state' = [j \in Jobs |->
                      CASE j \in R -> RecoveredState(j)
                        [] j \in orphans \ R -> RecoveredState(parent[j])
                        [] OTHER -> state[j]]
       /\ Unlease(R \cup orphans)
  /\ Go(w, "recovered")
  /\ UNCHANGED <<parent, members, attempts, sentSteps, charged, envVars, netVars>>

Claimable(j) == state[j] = "pending" \/ (state[j] = "leased" /\ ~live[j])

ClaimLease(w, j) ==
  /\ pc[w] = "recovered" /\ Claimable(j) /\ lastLease < MaxLeases
  /\ lastLease' = lastLease + 1
  /\ state' = [state EXCEPT ![j] = "leased"]
  /\ lease' = [lease EXCEPT ![j] = lastLease']
  /\ live' = [live EXCEPT ![j] = TRUE]
  /\ pc' = [pc EXCEPT ![w] = "claimed"]
  /\ wjob' = [wjob EXCEPT ![w] = j]
  /\ wlease' = [wlease EXCEPT ![w] = lastLease']
  /\ wplan' = [wplan EXCEPT ![w] = members[j]]
  /\ tries' = [tries EXCEPT ![w] = attempts[j]]
  /\ UNCHANGED <<parent, members, attempts, sentSteps, charged, stale, gateUsed>>
  /\ UNCHANGED <<wsteps, wconf, goal, netVars>>

\* The selected row's plan_json does not parse: the row is closed unsent.
ClaimCorrupt(w, j) ==
  /\ pc[w] = "recovered" /\ Claimable(j)
  /\ state' = Resolved(j, IF sentSteps[j] > 0 THEN "partial" ELSE "failed")
  /\ Unlease({j})
  /\ Forget(w)
  /\ UNCHANGED <<parent, members, attempts, sentSteps, charged, envVars, netVars>>

\* No row is due, or another worker took it between the read and the lock.
ClaimNothing(w) ==
  /\ pc[w] = "recovered"
  /\ Forget(w)
  /\ UNCHANGED <<rowVars, envVars, netVars>>

-----------------------------------------------------------------------------
(* Verdicts of check(): what the job's monitors, workflow, schedule and    *)
(* destination allow at this moment.                                       *)

Accepted(items) == {i \in items : i \notin stale}

\* Fault: whatever is left of the batch is good enough.
CheckAnyItem(j, items) ==
  IF Accepted(items) = {} THEN Unsent ELSE {"ready", "pending"} \cup Unsent

CheckResults(j, items) ==
  IF j \in FlowJobs
    THEN CASE Accepted(items) = {} -> Unsent
           [] Accepted(items) # items -> {"pending", "excluded", "failed"}
           [] OTHER -> {"ready", "pending"} \cup Unsent
    ELSE IF Content(j) \cap stale # {}
           THEN {"cancelled", "excluded", "failed"}
           ELSE {"ready", "pending"} \cup Unsent

\* A rejected attempt after confirmed messages can only be partial.
Outcome(w, s) == IF wconf[w] > 0 THEN "partial" ELSE s

\* Fault: any leased or sending row will do.
OwnsAny(w) == state[wjob[w]] \in {"leased", "sending"}

\* The database still knows the worker as the holder, and in time.
Owns(w) == /\ lease[wjob[w]] = wlease[w]
           /\ state[wjob[w]] \in {"leased", "sending"}
Holds(w) == Owns(w) /\ live[wjob[w]]
HoldsLeased(w) == Holds(w) /\ state[wjob[w]] = "leased"

-----------------------------------------------------------------------------
(* tick() before beginSend: refresh, check, pace, prepare, reserve.        *)

\* refreshFlowJob drops the items of revoked monitors, in the row and here;
\* with nothing left, or a paused rule, the tick only closes or postpones.
Refresh(w) ==
  LET j == wjob[w] IN
  /\ pc[w] = "claimed" /\ j \in FlowJobs
  /\ HoldsLeased(w) /\ Accepted(wplan[w]) # {}
  /\ members' = [members EXCEPT ![j] = Accepted(wplan[w])]
  /\ wplan' = [wplan EXCEPT ![w] = Accepted(wplan[w])]
  /\ \/ pc' = [pc EXCEPT ![w] = "refreshed"] /\ UNCHANGED goal
     \/ pc' = [pc EXCEPT ![w] = "settle"] /\ goal' = [goal EXCEPT ![w] = "pending"]
  /\ UNCHANGED <<state, parent, lease, live, attempts, sentSteps, charged>>
  /\ UNCHANGED <<wjob, wlease, tries, wsteps, wconf, envVars, netVars>>

RefreshEmpty(w) ==
  /\ pc[w] = "claimed" /\ wjob[w] \in FlowJobs
  /\ HoldsLeased(w) /\ Accepted(wplan[w]) = {}
  /\ \E s \in Unsent : Aim(w, s)
  /\ UNCHANGED <<rowVars, envVars, netVars>>

RefreshLost(w) ==
  /\ pc[w] = "claimed" /\ wjob[w] \in FlowJobs /\ ~HoldsLeased(w)
  /\ Forget(w)
  /\ UNCHANGED <<rowVars, envVars, netVars>>

\* The unlocked check: its answer may be old when it is used.  A job from
\* before a disaster recovery is cancelled here, whatever check() says.
Preflight(w) ==
  /\ pc[w] = IF wjob[w] \in FlowJobs THEN "refreshed" ELSE "claimed"
  /\ \E s \in CheckResults(wjob[w], wplan[w]) \cup {"cancelled"} :
       IF s = "ready" THEN Go(w, "checked") ELSE Aim(w, s)
  /\ UNCHANGED <<rowVars, envVars, netVars>>

\* transport.prepare and transport.reserve build and pay for n messages.
Prepare(w) ==
  /\ pc[w] = "checked"
  /\ \E n \in 1..MaxSteps : wsteps' = [wsteps EXCEPT ![w] = n]
  /\ pc' = [pc EXCEPT ![w] = "prepared"]
  /\ UNCHANGED <<wjob, wlease, wplan, tries, wconf, goal>>
  /\ UNCHANGED <<rowVars, envVars, netVars>>

\* Quota, safety or shutdown ends the tick without counting an attempt.
PrepareRefused(w) ==
  /\ \/ /\ pc[w] = "checked"
        /\ \E s \in {"pending", "failed", "excluded"} : Aim(w, s)
     \/ pc[w] = "prepared" /\ Aim(w, "pending")
  /\ UNCHANGED <<rowVars, envVars, netVars>>

\* Any other error before the attempt begins, a failed statement included,
\* is itself counted as an attempt before the transition.
AttemptBreaks(w) ==
  /\ pc[w] \in {"claimed", "refreshed", "checked", "prepared"}
  /\ Go(w, "count")
  /\ UNCHANGED <<rowVars, envVars, netVars>>

\* The verdict on a failed attempt that left nothing on the wire.
RetryOrFail(w, n) == IF n >= AttemptLimit THEN {"failed"} ELSE {"pending", "failed"}

CountAttempt(w) ==
  LET j == wjob[w] IN
  /\ pc[w] = "count"
  /\ attempts' = IF lease[j] = wlease[w] /\ state[j] = "leased"
                   THEN [attempts EXCEPT ![j] = Bump(@)] ELSE attempts
  /\ \E s \in RetryOrFail(w, Bump(tries[w])) : Aim(w, s)
  /\ UNCHANGED <<state, parent, members, lease, live, sentSteps, charged>>
  /\ UNCHANGED <<envVars, netVars>>

-----------------------------------------------------------------------------
(* beginSend(): the transaction after which a crash means "unknown".       *)

BeginLost(w) ==
  /\ pc[w] = "prepared"
  /\ ~HoldsLeased(w)
  /\ Forget(w)
  /\ UNCHANGED <<rowVars, envVars, netVars>>

\* Fault: a favourable answer of the check is taken for a verdict, too.
BeginRefusedAnyway(w) ==
  /\ pc[w] = "prepared"
  /\ HoldsLeased(w)
  /\ \E s \in CheckResults(wjob[w], wplan[w]) : Aim(w, s)
  /\ UNCHANGED <<rowVars, envVars, netVars>>

BeginRefused(w) ==
  /\ pc[w] = "prepared"
  /\ HoldsLeased(w)
  /\ \E s \in CheckResults(wjob[w], wplan[w]) \ {"ready"} : Aim(w, s)
  /\ UNCHANGED <<rowVars, envVars, netVars>>

\* Fault: every attempt takes a place of the rate gate.
GateUseAlways(j) == gateUsed + 1

\* A job takes its place of the rate gate once, on its first attempt.
GateUse(j) == IF charged[j] THEN gateUsed ELSE gateUsed + 1

GateFull(j) == ~charged[j] /\ gateUsed >= GateLimit

\* A full rate gate drops the job, defers it, or defers it past its deadline.
BeginGated(w) ==
  /\ pc[w] = "prepared"
  /\ HoldsLeased(w)
  /\ "ready" \in CheckResults(wjob[w], wplan[w])
  /\ GateFull(wjob[w])
  /\ \E s \in {"excluded", "pending", "expired"} : Aim(w, s)
  /\ UNCHANGED <<rowVars, envVars, netVars>>

BeginSend(w) ==
  LET j == wjob[w] IN
  /\ pc[w] = "prepared"
  /\ HoldsLeased(w)
  /\ "ready" \in CheckResults(j, wplan[w])
  /\ ~GateFull(j)
  /\ gateUsed' = GateUse(j)
  /\ charged' = [charged EXCEPT ![j] = TRUE]
  /\ state' = [state EXCEPT ![j] = "sending"]
  /\ live' = [live EXCEPT ![j] = TRUE]
  /\ attempts' = [attempts EXCEPT ![j] = Bump(@)]
  /\ tries' = [tries EXCEPT ![w] = Bump(attempts[j])]
  /\ pc' = [pc EXCEPT ![w] = "sending"]
  /\ UNCHANGED <<parent, members, lease, sentSteps, stale, lastLease>>
  /\ UNCHANGED <<wjob, wlease, wplan, wsteps, wconf, goal, netVars>>

-----------------------------------------------------------------------------
(* The sending loop: pace, re-check, submit, await Discord, acknowledge.   *)

RenewLease(w) == live' = [live EXCEPT ![wjob[w]] = TRUE]

\* paceStep renews the lease and waits for a slot of the shared pace counters.
Pace(w) ==
  /\ pc[w] = "sending" /\ Holds(w)
  /\ RenewLease(w)
  /\ Go(w, "gate")
  /\ UNCHANGED <<state, parent, members, lease, attempts, sentSteps, charged>>
  /\ UNCHANGED <<envVars, netVars>>

\* sendStep's rechecks and beforeSubmit: the last look at the database.
Gate(w) ==
  /\ pc[w] = "gate" /\ Holds(w)
  /\ "ready" \in CheckResults(wjob[w], wplan[w])
  /\ RenewLease(w)
  /\ Go(w, "submit")
  /\ UNCHANGED <<state, parent, members, lease, attempts, sentSteps, charged>>
  /\ UNCHANGED <<envVars, netVars>>

LeaseLost(w) ==
  /\ pc[w] \in {"sending", "gate"} /\ ~Holds(w)
  /\ Forget(w)
  /\ UNCHANGED <<rowVars, envVars, netVars>>

\* Shutdown, a closed window, a policy or quota refusal: nothing submitted.
SendRefused(w) ==
  /\ pc[w] \in {"sending", "gate", "submit"}
  /\ \E s \in {"pending"} \cup Unsent : Aim(w, Outcome(w, s))
  /\ UNCHANGED <<rowVars, envVars, netVars>>

\* An error without an HTTP status inside sendStep is taken as submitted.
SendBreaks(w) ==
  /\ pc[w] \in {"gate", "submit"}
  /\ Aim(w, "unknown")
  /\ UNCHANGED <<rowVars, envVars, netVars>>

Submission(w) ==
  [job |-> wjob[w], lease |-> wlease[w], step |-> wconf[w] + 1, of |-> wsteps[w],
   items |-> wplan[w]]

Submit(w) ==
  /\ pc[w] = "submit"
  /\ wire' = wire \cup {Submission(w)}
  /\ Go(w, "await")
  /\ UNCHANGED <<rowVars, envVars, delivered>>

AnswerAccepted(w) ==
  /\ pc[w] = "await" /\ Submission(w) \in delivered
  /\ Go(w, "ack")
  /\ UNCHANGED <<rowVars, envVars, netVars>>

\* A 4xx answer is permanent, a 429 is retried: Discord posted nothing.
AnswerRefused(w) ==
  /\ pc[w] = "await" /\ Submission(w) \notin wire \cup delivered
  /\ \E s \in RetryOrFail(w, tries[w]) : Aim(w, Outcome(w, s))
  /\ UNCHANGED <<rowVars, envVars, netVars>>

\* Fault: a request without an answer is taken for one never made.
AnswerUnknownRetried(w) ==
  /\ pc[w] = "await"
  /\ Aim(w, Outcome(w, "pending"))
  /\ UNCHANGED <<rowVars, envVars, netVars>>

\* Fault: an answer that cannot be read counts as acceptance.
AnswerUnknownAccepted(w) ==
  /\ pc[w] = "await"
  /\ Go(w, "ack")
  /\ UNCHANGED <<rowVars, envVars, netVars>>

\* Timeout, 5xx, unreadable answer, or the quota commit failed after it.
AnswerUnknown(w) ==
  /\ pc[w] = "await"
  /\ Aim(w, "unknown")
  /\ UNCHANGED <<rowVars, envVars, netVars>>

\* acknowledgeStep does not look at the lease's time, only at its token.
Acknowledge(w) ==
  LET j == wjob[w] IN
  /\ pc[w] = "ack"
  /\ lease[j] = wlease[w] /\ state[j] = "sending"
  /\ sentSteps' = [sentSteps EXCEPT ![j] = @ + 1]
  /\ live' = [live EXCEPT ![j] = TRUE]
  /\ \/ /\ wconf' = [wconf EXCEPT ![w] = @ + 1]
        /\ IF wconf'[w] = wsteps[w]
             THEN /\ pc' = [pc EXCEPT ![w] = "settle"]
                  /\ goal' = [goal EXCEPT ![w] = "sent"]
             ELSE pc' = [pc EXCEPT ![w] = "sending"] /\ UNCHANGED goal
        /\ UNCHANGED <<wjob, wlease, wplan, tries, wsteps>>
     \/ Aim(w, "unknown")
  /\ UNCHANGED <<state, parent, members, lease, attempts, charged, envVars, netVars>>

\* The row is no longer the worker's, or the statement failed unstored.
AcknowledgeFails(w) ==
  LET j == wjob[w] IN
  /\ pc[w] = "ack"
  /\ IF lease[j] = wlease[w] /\ state[j] = "sending"
       THEN Aim(w, "unknown")
       ELSE Aim(w, Outcome(w, "failed"))
  /\ UNCHANGED <<rowVars, envVars, netVars>>

\* transition(): only the current holder of the row may close or postpone it.
Settle(w) ==
  LET j == wjob[w] IN
  /\ pc[w] = "settle"
  /\ IF Owns(w)
       THEN state' = Resolved(j, goal[w]) /\ Unlease({j})
       ELSE UNCHANGED <<state, lease, live>>
  /\ Forget(w)
  /\ UNCHANGED <<parent, members, attempts, sentSteps, charged, envVars, netVars>>

\* The final transition to "sent" throws: the catch block still records the
\* confirmed messages, as a partial delivery.
SettleBreaks(w) ==
  /\ pc[w] = "settle" /\ goal[w] = "sent"
  /\ Aim(w, "partial")
  /\ UNCHANGED <<rowVars, envVars, netVars>>

\* The process dies, or the database fails it out of tick().
Crash(w) ==
  /\ pc[w] # "idle"
  /\ Forget(w)
  /\ UNCHANGED <<rowVars, envVars, netVars>>

-----------------------------------------------------------------------------
(* The world outside the workers.                                          *)

LeaseRunsOut(j) ==
  /\ state[j] \in {"leased", "sending"} /\ live[j]
  /\ live' = [live EXCEPT ![j] = FALSE]
  /\ UNCHANGED <<state, parent, members, lease, attempts, sentSteps, charged>>
  /\ UNCHANGED <<envVars, workVars, netVars>>

DiscordAccepts(r) ==
  /\ wire' = wire \ {r} /\ delivered' = delivered \cup {r}
  /\ UNCHANGED <<rowVars, envVars, workVars>>

DiscordRefuses(r) ==
  /\ wire' = wire \ {r} /\ UNCHANGED delivered
  /\ UNCHANGED <<rowVars, envVars, workVars>>

\* The rate gate's next window starts a fresh counter.
GateWindowRolls ==
  /\ gateUsed > 0 /\ gateUsed' = 0
  /\ UNCHANGED <<rowVars, stale, lastLease, workVars, netVars>>

-----------------------------------------------------------------------------
(* history.change(): the owner's operations, all refused for a row that    *)
(* has or may have reached Discord.  The version they carry makes them act *)
(* on the row as it is.                                                    *)

\* Fault: an uncertain delivery may be cancelled.
EditableUncertain(j) ==
  /\ parent[j] = NoJob /\ sentSteps[j] = 0
  /\ state[j] \notin {"none", "sending", "sent"}

Editable(j) ==
  /\ parent[j] = NoJob /\ sentSteps[j] = 0
  /\ state[j] \notin {"none", "unknown", "partial", "sending", "sent"}

UserCancel(j) ==
  /\ Editable(j)
  /\ state' = Resolved(j, "cancelled")
  /\ Unlease({j})
  /\ UNCHANGED <<parent, members, attempts, sentSteps, charged>>
  /\ UNCHANGED <<envVars, workVars, netVars>>

UserReschedule(j) ==
  /\ Editable(j) /\ state[j] \in {"pending", "leased"}
  /\ state' = [state EXCEPT ![j] = "pending"]
  /\ Unlease({j})
  /\ UNCHANGED <<parent, members, attempts, sentSteps, charged>>
  /\ UNCHANGED <<envVars, workVars, netVars>>

UserRetry(j) ==
  /\ Editable(j) /\ state[j] = "failed"
  /\ state' = [state EXCEPT ![j] = "pending"]
  /\ attempts' = [attempts EXCEPT ![j] = 0]
  /\ Unlease({j})
  /\ UNCHANGED <<parent, members, sentSteps, charged>>
  /\ UNCHANGED <<envVars, workVars, netVars>>

-----------------------------------------------------------------------------
(* Monitors, rules and packages are withdrawn under the workers' feet.     *)

RoutedItems(m) == {i \in Item : i.monitor = m /\ state[i.from] # "none"}

\* monitors.js cancelPending: version-1 rows are cancelled, their lease
\* token left in place; version-2 rows lose the monitor's items later.
MonitorChanges(m) ==
  LET hit == {j \in Jobs \ FlowJobs : m \in MonitorsOf[j]
                                      /\ state[j] \in Withdrawable} IN
  /\ stale' = stale \cup RoutedItems(m)
  /\ state' = [j \in Jobs |-> IF j \in hit THEN "cancelled" ELSE state[j]]
  /\ UNCHANGED <<parent, members, lease, live, attempts, sentSteps, charged>>
  /\ UNCHANGED <<gateUsed, lastLease, workVars, netVars>>

\* Deleting the rule, or revoking the package it came from, closes its rows.
RuleWithdrawn ==
  LET hit == {j \in Jobs : state[j] \in Withdrawable} IN
  /\ \E s \in {"cancelled", "excluded"} :
       state' = [j \in Jobs |-> IF j \in hit THEN s ELSE state[j]]
  /\ Unlease(hit)
  /\ stale' = stale \cup UNION {RoutedItems(m) : m \in Monitors}
  /\ UNCHANGED <<parent, members, attempts, sentSteps, charged>>
  /\ UNCHANGED <<gateUsed, lastLease, workVars, netVars>>

-----------------------------------------------------------------------------
WorkerStep(w) ==
  \/ ClaimRecover(w) \/ ClaimNothing(w)
  \/ \E j \in Jobs : ClaimLease(w, j) \/ ClaimCorrupt(w, j)
  \/ Refresh(w) \/ RefreshEmpty(w) \/ RefreshLost(w)
  \/ Preflight(w) \/ Prepare(w) \/ PrepareRefused(w) \/ AttemptBreaks(w)
  \/ CountAttempt(w)
  \/ BeginLost(w) \/ BeginRefused(w) \/ BeginGated(w) \/ BeginSend(w)
  \/ Pace(w) \/ Gate(w) \/ LeaseLost(w) \/ SendRefused(w) \/ SendBreaks(w)
  \/ Submit(w) \/ AnswerAccepted(w) \/ AnswerRefused(w) \/ AnswerUnknown(w)
  \/ Acknowledge(w) \/ AcknowledgeFails(w) \/ Settle(w) \/ SettleBreaks(w)

JobStep(j) ==
  \/ RouteRoot(j) \/ \E p \in Jobs : RouteJoin(j, p)
  \/ LeaseRunsOut(j)
  \/ UserCancel(j) \/ UserReschedule(j) \/ UserRetry(j)

Next ==
  \/ \E w \in Workers : WorkerStep(w) \/ Crash(w)
  \/ \E j \in Jobs : JobStep(j)
  \/ \E r \in wire : DiscordAccepts(r) \/ DiscordRefuses(r)
  \/ GateWindowRolls
  \/ \E m \in Monitors : MonitorChanges(m)
  \/ RuleWithdrawn

Spec == Init /\ [][Next]_vars

\* The timer restarts a tick every second and a dead process is restarted,
\* so workers keep taking steps; an unrenewed lease runs out after 120 s.
Fairness == /\ \A w \in Workers : WF_vars(WorkerStep(w))
            /\ \A j \in Jobs : WF_vars(LeaseRunsOut(j))

FairSpec == Spec /\ Fairness

-----------------------------------------------------------------------------
(* Properties.                                                             *)

\* Every variable keeps its type: the durable row, the worker's memory of it,
\* and the requests at Discord.
TypeOK ==
  /\ state \in [Jobs -> RowStates]
  /\ parent \in [Jobs -> Jobs \cup {NoJob}]
  /\ members \in [Jobs -> SUBSET Item]
  /\ lease \in [Jobs -> Leases \cup {NoLease}]
  /\ live \in [Jobs -> BOOLEAN]
  /\ attempts \in [Jobs -> 0..AttemptLimit]
  /\ sentSteps \in [Jobs -> Nat]
  /\ charged \in [Jobs -> BOOLEAN]
  /\ stale \subseteq Item /\ gateUsed \in Nat /\ lastLease \in 0..MaxLeases
  /\ pc \in [Workers -> Phases]
  /\ wjob \in [Workers -> Jobs \cup {NoJob}]
  /\ wlease \in [Workers -> Leases \cup {NoLease}]
  /\ wplan \in [Workers -> SUBSET Item]
  /\ tries \in [Workers -> 0..AttemptLimit]
  /\ wsteps \in [Workers -> 0..MaxSteps] /\ wconf \in [Workers -> 0..MaxSteps]
  /\ goal \in [Workers -> Terminal \cup {"none", "pending"}]
  /\ wire \subseteq Request /\ delivered \subseteq Request

Requests == wire \cup delivered

\* No message is posted twice.  Once a request for a job is at Discord, or may
\* still arrive there, no other lease ever submits for that job, and its own
\* holder submits each part once: whatever crashes, leases that run out under
\* a slow worker, retries by the owner and postponements come in between.
AtMostOnce ==
  \A r, q \in Requests :
    r.job = q.job => r.lease = q.lease /\ (r.step = q.step => r = q)

\* A row that history.js lets an owner retry, move or cancel, or that a worker
\* may still claim, has nothing at Discord: a delivered or in-flight request
\* leaves its row in sending, sent, unknown or partial.
UnsentMeansUndelivered ==
  \A r \in Requests : state[r.job] \in {"sending", "sent"} \cup Uncertain

\* A row shown as sent has exactly the messages its sent_steps counts, each
\* all of its batch, each accepted by Discord, and none still in flight.
SentMeansDelivered ==
  \A j \in Jobs : state[j] = "sent" /\ parent[j] = NoJob =>
    /\ sentSteps[j] > 0
    /\ \A n \in 1..sentSteps[j] :
         \E r \in delivered : r.job = j /\ r.step = n /\ r.of = sentSteps[j]
    /\ \A r \in Requests : r.job = j => r \in delivered /\ r.step <= sentSteps[j]

\* What went out is what the row says: no event joins a batch, and none is
\* dropped from it, once a request with that batch exists.
BatchFrozen == \A r \in Requests : r.items = members[r.job]

\* An aggregated event shown as sent was in a batch that Discord accepted: it
\* neither joined too late nor was superseded by a newer event.
SentChildWasInBatch ==
  \A c \in Jobs : parent[c] # NoJob /\ state[c] = "sent" =>
    \E r \in delivered : r.job = parent[c] /\ Content(c) \subseteq r.items

\* An aggregated event always waits for a batch that can still be closed: no
\* transition, recovery, cancellation or corrupt plan leaves it behind.
ChildAwaitsOpenParent ==
  \A c \in Jobs : state[c] = "aggregated" =>
    /\ parent[c] \in Jobs
    /\ state[parent[c]] \in {"pending", "held", "leased", "sending"}

\* However often a job is postponed or retried, it takes one place of its
\* rate gate: the counter never exceeds the jobs that were charged to it.
GateChargedOnce == gateUsed <= Cardinality({j \in Jobs : charged[j]})

\* An outcome that tells of a delivery, certain or not, is never rewritten.
DeliveryOutcomeStands ==
  [][\A j \in Jobs : state[j] \in {"sent"} \cup Uncertain
                       => state'[j] = state[j]]_vars

\* A send never begins with the content of a monitor that was changed or
\* stopped after the event was routed, however old the worker's plan is.
SendBeginsCurrent ==
  [][\A j \in Jobs : state[j] # "sending" /\ state'[j] = "sending"
                       => members[j] \cap stale = {}]_vars

\* A row does not stay in sending: a live worker closes it, and the claim of
\* any worker turns an abandoned one into unknown.  Nor does a row stay held,
\* as an earlier release left it.
SendingResolves ==
  \A j \in Jobs : \A s \in {"sending", "held"} : state[j] = s ~> state[j] # s

-----------------------------------------------------------------------------
(* The queue implements the promise of DeliveryPromise.                    *)

Verdict(j) ==
  CASE parent[j] # NoJob -> "folded"
    [] parent[j] = NoJob /\ state[j] = "none" -> "absent"
    [] parent[j] = NoJob /\ state[j] = "sent" -> "sent"
    [] parent[j] = NoJob /\ state[j] \in Uncertain -> "uncertain"
    [] parent[j] = NoJob /\ state[j] \in Unsent -> "unsent"
    [] OTHER -> "open"

StepsGot(j) == {r.step : r \in {q \in delivered : q.job = j}}

Promise == INSTANCE DeliveryPromise
             WITH Steps <- 1..MaxSteps,
                  verdict <- [j \in Jobs |-> Verdict(j)],
                  got <- [j \in Jobs |-> StepsGot(j)]

\* Every behaviour of the queue is one the recipients were promised.
PromiseKept == Promise!Spec
=============================================================================
