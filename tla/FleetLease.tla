----------------------------- MODULE FleetLease -----------------------------
(***************************************************************************)
(* Which of two machines may run the workload: the lease authority         *)
(* (recovery/authority.py), one guardian per machine that starts and       *)
(* fences the workload (recovery/guardian.py), the controller that         *)
(* promotes the standby machine "oci" (recovery/controller.py) and the     *)
(* coordinator that gives the role back to "primary"                       *)
(* (recovery/failback_orchestrator.py).                                    *)
(*                                                                         *)
(* Time.  now is the boot clock, the same for all machines.  The           *)
(* authority's wall clock is now + skew, and skew may be set anew at any   *)
(* moment.  Guardians only use the boot clock.                             *)
(*                                                                         *)
(* Assumption on the fencing: a workload is over at most Late after the    *)
(* local deadline of its lease (Tick).  A call of the authority is one     *)
(* action and reads one time, and so is the last check before a start.     *)
(*                                                                         *)
(* Abstractions.  Instance names and lease ids are random in the code;     *)
(* here any name that nobody remembers is as good as new.  The term of     *)
(* last_wall in a quarantine, which can only lengthen it, is left out.     *)
(***************************************************************************)
EXTENDS Integers, FiniteSets

CONSTANTS
  Ttl, StopMargin, Drain, Tolerance, StopBudget, MarkerTtl, \* as in the code
  Late,            \* the longest delay of a fencing after the local deadline
  Skews,           \* the offsets the authority's wall clock takes
  Starts,          \* the active node at the start, and the time
  UnfencedBoot,    \* may the host boot while the source counts as frozen
  LostQuarantine,  \* may the call that notices a clock step be rolled back
  MaxTime, MaxSteps, MaxEpoch, MaxInst, MaxLeases, MaxRequests \* bounds

ASSUME FleetAssumption ==
  /\ {Ttl, StopMargin, Drain, Tolerance, StopBudget, MarkerTtl, Late} \subseteq Nat
  /\ Late + 2 * Tolerance < StopMargin + Drain
  /\ Skews \subseteq Int /\ Starts \subseteq {"primary", "oci"} \X Nat
  /\ UnfencedBoot \in BOOLEAN /\ LostQuarantine \in BOOLEAN
  /\ {MaxTime, MaxSteps, MaxEpoch, MaxInst, MaxLeases, MaxRequests} \subseteq Nat

VARIABLES
  now, skew, steps,         \* boot clock, offset of the wall clock, its changes
  db, anchor,               \* the authority's row, and skew when it last settled
  marker,                   \* the handoff marker file
  requests,                 \* lease requests on their way
  guard, answer,            \* the guardians, and the answers they have not read
  ociUnit, controllerOn,    \* units of the oci host that are started
  phase, committedAt,       \* the failback coordinator
  legacy                    \* the workload runs on primary without a guardian

timeVars == <<now, skew, steps>>
authorityVars == <<db, anchor>>
guardianVars == <<requests, guard, answer>>
hostVars == <<ociUnit, controllerOn>>
coordinatorVars == <<phase, committedAt, marker>>
vars == <<timeVars, authorityVars, guardianVars, hostVars, coordinatorVars, legacy>>

Node == {"primary", "oci"}
NoLease == [id |-> 0, node |-> "none", inst |-> 0]
NoAnswer == [ttl |-> 0, id |-> 0, epoch |-> 0]
Stopped == [pc |-> "down", inst |-> 0, calling |-> FALSE, at |-> 0,
            epoch |-> 0, id |-> 0, deadline |-> 0]
NoMarker == [epoch |-> 0, createdAt |-> 0]
Max2(a, b) == IF a >= b THEN a ELSE b
Wall == now + skew

Init ==
  /\ skew = 0 /\ steps = 0
  /\ legacy \in BOOLEAN /\ ociUnit \in BOOLEAN /\ controllerOn = TRUE
  \* A new authority, or one that has promoted oci before; nothing runs, and the
  \* last quarantine and drain are over.
  /\ \E start \in Starts : LET node == start[1] IN
       /\ now = start[2]
       /\ node = "oci" => ~legacy
       /\ node = "primary" => ociUnit
       /\ db = [epoch |-> 1, active |-> node, armed |-> node = "oci",
                enrolled |-> node = "oci", lease |-> NoLease, leaseExpires |-> 0,
                drainUntil |-> 0, quarantineUntil |-> 0]
  /\ anchor = 0
  /\ marker = NoMarker
  /\ requests = {}
  /\ guard = [n \in Node |-> Stopped]
  /\ answer = [n \in Node |-> NoAnswer]
  /\ phase = "waiting" /\ committedAt = 0

-----------------------------------------------------------------------------
(* The authority.  Every call first compares the clocks.                   *)

\* Fault: only a clock that was set back is noticed.
SetBack == anchor - skew > Tolerance

Jumped == skew - anchor > Tolerance \/ anchor - skew > Tolerance

Quarantine(d) == Max2(Wall + Ttl + Drain, Max2(d.leaseExpires + Drain, d.quarantineUntil))

\* The authority's row after _check_clock().
Checked ==
  IF Jumped
  THEN [db EXCEPT !.epoch = @ + 1, !.lease = NoLease,
                  !.quarantineUntil = Quarantine(db),
                  !.drainUntil = Max2(@, Quarantine(db))]
  ELSE db

NewAnchor == IF Jumped THEN skew ELSE anchor

\* call(): the transaction ends with the row d.
Commit(d) == d.epoch <= MaxEpoch /\ db' = d /\ anchor' = NewAnchor

Held(d) == d.lease # NoLease /\ d.leaseExpires > Wall

Quarantined(d) == Wall < d.quarantineUntil
Drained(d) == Wall >= Max2(d.drainUntil, d.leaseExpires + Drain)

ReadStatus ==
  /\ Commit(Checked)
  /\ UNCHANGED <<timeVars, guardianVars, hostVars, coordinatorVars, legacy>>

Arm(armed) ==
  /\ armed => Checked.enrolled
  /\ Commit([Checked EXCEPT !.armed = armed])
  /\ UNCHANGED <<timeVars, guardianVars, hostVars, coordinatorVars, legacy>>

\* The process starts again.  A marker that names the present epoch takes the
\* place of the quarantine.
HandoffReady == marker.epoch = db.epoch /\ Wall - marker.createdAt <= MarkerTtl

Restarted(samePolicy) ==
  LET until == IF HandoffReady THEN Wall ELSE Quarantine(db)
  IN  [db EXCEPT !.epoch = @ + 1, !.lease = NoLease,
                 !.leaseExpires = IF HandoffReady THEN Wall ELSE @,
                 !.quarantineUntil = until,
                 !.drainUntil = IF HandoffReady THEN until ELSE Max2(@, until),
                 !.enrolled = @ /\ samePolicy, !.armed = @ /\ (samePolicy \/ ~db.enrolled)]

StartAuthority(samePolicy) ==
  /\ db.epoch < MaxEpoch
  /\ db' = Restarted(samePolicy) /\ anchor' = skew

Restart ==
  /\ \E samePolicy \in BOOLEAN : StartAuthority(samePolicy)
  /\ UNCHANGED <<timeVars, guardianVars, hostVars, coordinatorVars, legacy>>

-----------------------------------------------------------------------------
(* Lease requests.                                                         *)

\* The guardian gets the answer if it still waits for it.
Answer(r, d) ==
  /\ requests' = requests \ {r}
  /\ answer' = IF r.awaited
       THEN [answer EXCEPT ![r.node] =
               [ttl |-> d.leaseExpires - Wall, id |-> d.lease.id, epoch |-> d.epoch]]
       ELSE answer
  /\ UNCHANGED <<timeVars, guard, hostVars, coordinatorVars, legacy>>

Extend(d) == [d EXCEPT !.leaseExpires = Wall + Ttl, !.drainUntil = Wall + Ttl + Drain]

MayAcquire(d, r) ==
  /\ r.epoch = d.epoch /\ ~Quarantined(d) /\ r.node = d.active
  /\ r.node = "oci" => d.enrolled
  /\ IF Held(d) THEN d.lease.node = r.node /\ d.lease.inst = r.inst
                ELSE Wall >= d.drainUntil

\* Ids of leases that no row, request, guardian or answer holds; any will do.
UnusedIds == (1..MaxLeases) \ ({db.lease.id} \cup {r.id : r \in requests}
                                \cup {guard[n].id : n \in Node} \cup {answer[n].id : n \in Node})

\* The holder asks again for what it has, or a new lease begins.
Acquire(r) ==
  /\ r.kind = "acquire" /\ MayAcquire(Checked, r)
  /\ \/ Held(Checked) /\ Commit(Checked) /\ Answer(r, Checked)
     \/ /\ ~Held(Checked)
        /\ UnusedIds # {}
        /\ LET id == CHOOSE i \in UnusedIds : TRUE
               granted == [Extend(Checked) EXCEPT
                             !.lease = [id |-> id, node |-> r.node, inst |-> r.inst]]
           IN  Commit(granted) /\ Answer(r, granted)

Holder(d, r) ==
  /\ r.epoch = d.epoch /\ ~Quarantined(d) /\ r.node = d.active
  /\ d.lease = [id |-> r.id, node |-> r.node, inst |-> r.inst]

MayRenew(d, r) == Holder(d, r) /\ Wall < d.leaseExpires

Renew(r) ==
  /\ r.kind = "renew" /\ MayRenew(Checked, r)
  /\ Commit(Extend(Checked)) /\ Answer(r, Extend(Checked))

\* A release shortens neither the lease's end nor its drain.
Release(r) ==
  /\ r.kind = "release" /\ Holder(Checked, r)
  /\ Commit([Checked EXCEPT !.lease = NoLease])
  /\ requests' = requests \ {r}
  /\ UNCHANGED <<timeVars, guard, answer, hostVars, coordinatorVars, legacy>>

Refuse(r) ==
  /\ ~ CASE r.kind = "acquire" -> MayAcquire(Checked, r)
         [] r.kind = "renew" -> MayRenew(Checked, r)
         [] r.kind = "release" -> Holder(Checked, r)
  /\ Commit(Checked)
  /\ requests' = requests \ {r}
  /\ UNCHANGED <<timeVars, guard, answer, hostVars, coordinatorVars, legacy>>

\* The request does not arrive.
Lose(r) ==
  /\ requests' = requests \ {r}
  /\ UNCHANGED <<timeVars, authorityVars, guard, answer, hostVars, coordinatorVars, legacy>>

\* The transaction fails and is rolled back: the row keeps its old values, but the
\* process does not keep its old anchor.
RollBack(r) ==
  /\ Jumped => LostQuarantine
  /\ anchor' = NewAnchor
  /\ requests' = requests \ {r}
  /\ UNCHANGED <<timeVars, db, guard, answer, hostVars, coordinatorVars, legacy>>

-----------------------------------------------------------------------------
(* A guardian.                                                             *)

Step(n, g) ==
  /\ guard' = [guard EXCEPT ![n] = g]
  /\ UNCHANGED <<timeVars, hostVars, coordinatorVars, legacy>>
Quiet == UNCHANGED <<authorityVars, requests, answer>>

Alive(n) == guard[n].pc \in {"running", "stopping"}

UnitOn(n) == IF n = "oci" THEN ociUnit ELSE ~legacy

\* A new process, with an instance name that no lease in force and no request has;
\* any will do.
UnusedNames(n) == {i \in 1..MaxInst :
  /\ Held(db) => <<n, i>> # <<db.lease.node, db.lease.inst>>
  /\ \A r \in requests : <<n, i>> # <<r.node, r.inst>>}

Start(n) ==
  /\ guard[n].pc = "down" /\ UnitOn(n)
  /\ UnusedNames(n) # {}
  /\ Step(n, [guard[n] EXCEPT !.pc = IF n = "primary" THEN "boot" ELSE "standby",
                              !.inst = CHOOSE i \in UnusedNames(n) : TRUE])
  /\ Quiet

\* enroll_primary(): challenge, proof of the installation and enrollment.
Enroll ==
  /\ guard["primary"].pc = "boot"
  /\ Step("primary", [guard["primary"] EXCEPT !.pc = "standby"])
  /\ Commit([Checked EXCEPT !.enrolled = TRUE])
  /\ UNCHANGED <<requests, answer>>

Send(n, kind, epoch, id) ==
  /\ Cardinality(requests) < MaxRequests
  /\ requests' = requests \cup
       {[kind |-> kind, node |-> n, inst |-> guard[n].inst, epoch |-> epoch,
         id |-> id, awaited |-> kind # "release"]}

\* What n has asked for may still arrive, but nobody reads the answer.
Forget(n) ==
  /\ requests' = {[r EXCEPT !.awaited = @ /\ r.node # n] : r \in requests}
  /\ answer' = [answer EXCEPT ![n] = NoAnswer]

\* The epoch comes from a status call made just before.
AskLease(n) ==
  /\ guard[n].pc = "standby"
  /\ Send(n, "acquire", Checked.epoch, 0)
  /\ Step(n, [guard[n] EXCEPT !.pc = "waiting", !.calling = TRUE, !.at = now])
  /\ Commit(Checked)
  /\ UNCHANGED answer

AskRenewal(n) ==
  /\ guard[n].pc = "running" /\ ~guard[n].calling
  /\ now < guard[n].deadline - StopBudget
  /\ Send(n, "renew", guard[n].epoch, guard[n].id)
  /\ Step(n, [guard[n] EXCEPT !.calling = TRUE, !.at = now])
  /\ UNCHANGED <<authorityVars, answer>>

\* No answer in time, a refusal, or an answer that is not adopted.
GiveUp(n) ==
  /\ guard[n].calling
  /\ Step(n, [guard[n] EXCEPT !.calling = FALSE, !.at = 0,
                              !.pc = IF @ = "waiting" THEN "standby" ELSE @])
  /\ Forget(n)
  /\ UNCHANGED authorityVars

\* Fault: the lease counts from the arrival of the answer.
DeadlineFromAnswer(n) == now + answer[n].ttl - StopMargin

Deadline(n) == guard[n].at + answer[n].ttl - StopMargin

\* adopt()
Adoptable(n) ==
  /\ guard[n].calling /\ answer[n] # NoAnswer
  /\ answer[n].ttl \in 1..Ttl
  /\ Deadline(n) - StopBudget > now

Adopt(n) ==
  /\ Adoptable(n)
  /\ \/ guard[n].pc = "waiting"
     \/ /\ guard[n].pc = "running"
        /\ answer[n].id = guard[n].id /\ answer[n].epoch = guard[n].epoch
  /\ Step(n, [guard[n] EXCEPT !.pc = IF @ = "waiting" THEN "granted" ELSE @,
                              !.calling = FALSE, !.at = 0, !.deadline = Deadline(n),
                              !.id = answer[n].id, !.epoch = answer[n].epoch])
  /\ Forget(n)
  /\ UNCHANGED authorityVars

\* The lease is not used: it is too old by now, or nothing could be started.
Decline(n) ==
  /\ guard[n].pc = "granted"
  /\ Send(n, "release", guard[n].epoch, guard[n].id)
  /\ Step(n, [Stopped EXCEPT !.pc = "standby", !.inst = guard[n].inst])
  /\ UNCHANGED <<authorityVars, answer>>

FreshEnough(n) == now < guard[n].deadline - StopBudget

Launch(n) ==
  /\ guard[n].pc = "granted" /\ FreshEnough(n)
  /\ Step(n, [guard[n] EXCEPT !.pc = "running"])
  /\ Quiet

\* The watchdog at the deadline, a signal, or the end of the child.
Fence(n) ==
  /\ guard[n].pc = "running"
  /\ Step(n, [guard[n] EXCEPT !.pc = "stopping", !.calling = FALSE, !.at = 0])
  /\ Forget(n)
  /\ UNCHANGED authorityVars

\* While the watchdog fences, the main thread may already give the lease back.
GiveBack(n) ==
  /\ guard[n].pc = "stopping" /\ guard[n].id # 0
  /\ Send(n, "release", guard[n].epoch, guard[n].id)
  /\ Step(n, [guard[n] EXCEPT !.id = 0])
  /\ UNCHANGED <<authorityVars, answer>>

\* The unit dies as a whole, after a fencing or by itself.
Die(n) ==
  /\ guard[n].pc # "down"
  /\ Step(n, Stopped)
  /\ Forget(n)
  /\ UNCHANGED authorityVars

-----------------------------------------------------------------------------
(* The controller on the oci host.                                         *)

\* Fault: the end of the lease is enough.
MayPromoteEarly(d) ==
  /\ d.enrolled /\ d.armed /\ ~Quarantined(d)
  /\ d.active = "primary" /\ ~Held(d)

MayPromote(d) ==
  /\ d.enrolled /\ d.armed /\ ~Quarantined(d)
  /\ d.active = "primary" /\ ~Held(d) /\ Drained(d)

\* Fault: only the id of the old lease is cleared.
MoveToKeepsHolder(d, n) == [d EXCEPT !.active = n, !.epoch = @ + 1, !.lease.id = 0]

MoveTo(d, n) == [d EXCEPT !.active = n, !.epoch = @ + 1, !.lease = NoLease]

Promote ==
  /\ controllerOn /\ MayPromote(Checked)
  /\ Commit(MoveTo(Checked, "oci"))
  /\ UNCHANGED <<timeVars, guardianVars, hostVars, coordinatorVars, legacy>>

\* reconcile_oci_workload()
Reconcile ==
  /\ controllerOn /\ Checked.active = "oci" /\ ~ociUnit
  /\ Commit(Checked)
  /\ ociUnit' = TRUE
  /\ UNCHANGED <<timeVars, guardianVars, controllerOn, coordinatorVars, legacy>>

-----------------------------------------------------------------------------
(* The failback coordinator on the oci host, one action per phase or part  *)
(* of a phase.                                                             *)

\* WAITING_PRIMARY: the primary's copy is ready and an operator asked for it.
Prepare ==
  /\ phase = "waiting" /\ Checked.active = "oci"
  /\ Commit(Checked)
  /\ phase' = "prepared"
  /\ UNCHANGED <<timeVars, guardianVars, hostVars, committedAt, marker, legacy>>

\* PRIMARY_PREPARED: fence_source() stops the controller, then the workload.
StopController ==
  /\ phase = "prepared" /\ controllerOn
  /\ controllerOn' = FALSE
  /\ UNCHANGED <<timeVars, authorityVars, guardianVars, ociUnit, coordinatorVars, legacy>>

StopWorkload ==
  /\ phase = "prepared" /\ ~controllerOn /\ ociUnit
  /\ ociUnit' = FALSE
  /\ guard' = [guard EXCEPT !["oci"] = Stopped]
  /\ Forget("oci")
  /\ UNCHANGED <<timeVars, authorityVars, controllerOn, coordinatorVars, legacy>>

\* Fault: only the workload is looked at.
WorkloadStopped == ~ociUnit

SourceStopped == ~ociUnit /\ ~controllerOn

\* The lease is left to the restart: the lease file does not hold its id, so
\* release_source_lease() returns early.
Freeze ==
  /\ phase = "prepared" /\ SourceStopped
  /\ Commit(Checked)
  /\ phase' = "frozen"
  /\ UNCHANGED <<timeVars, guardianVars, hostVars, committedAt, marker, legacy>>

\* SOURCE_FROZEN: the marker names the epoch of a status read for it.
WriteMarker ==
  /\ phase = "frozen"
  /\ Commit(Checked)
  /\ marker' = [epoch |-> Checked.epoch, createdAt |-> Wall]
  /\ phase' = "marked"
  /\ UNCHANGED <<timeVars, guardianVars, hostVars, committedAt, legacy>>

\* The authority is restarted; the phase is saved, unless that fails.
RestartWithMarker ==
  /\ phase = "marked"
  /\ StartAuthority(TRUE)
  /\ phase' \in {"committing", "frozen"}
  /\ marker' = NoMarker     \* its epoch is over for good
  /\ UNCHANGED <<timeVars, guardianVars, hostVars, committedAt, legacy>>

\* The restart is not confirmed, or the coordinator itself is restarted.
RestartFails ==
  /\ phase = "marked" /\ phase' = "frozen"
  /\ UNCHANGED <<timeVars, authorityVars, guardianVars, hostVars, committedAt, marker,
                 legacy>>

\* OWNERSHIP_COMMITTING.  A second request under the operation's key names
\* another epoch than the first, because the first one changed it: conflict.
MayFailBack(d) ==
  /\ committedAt = 0
  /\ d.enrolled /\ d.active = "oci" /\ ~Held(d) /\ Drained(d)

\* The answer may be lost after the authority has committed.
FailBack ==
  /\ phase = "committing" /\ MayFailBack(Checked)
  /\ Commit(MoveTo(Checked, "primary"))
  /\ committedAt' = Checked.epoch
  /\ phase' \in {"returning", "committing"}
  /\ UNCHANGED <<timeVars, guardianVars, hostVars, marker, legacy>>

\* PRIMARY_VERIFYING and ROUTING_PRIMARY; a new operation may follow.
FinishFailback ==
  /\ phase = "returning"
  /\ guard["primary"].pc \in {"granted", "running"}
  /\ guard["primary"].epoch = Checked.epoch
  /\ Commit(Checked)
  /\ phase' = "waiting" /\ committedAt' = 0
  /\ controllerOn' \in {TRUE, controllerOn}     \* the start may fail, for good
  /\ UNCHANGED <<timeVars, guardianVars, ociUnit, marker, legacy>>

Frozen == phase \in {"frozen", "marked"}

\* The oci host boots: its enabled units start, the coordinator resumes.
Boot ==
  /\ Frozen => UnfencedBoot
  /\ StartAuthority(TRUE)
  /\ guard' = [guard EXCEPT !["oci"] = Stopped]
  /\ Forget("oci")
  /\ ociUnit' = TRUE /\ controllerOn' = TRUE
  /\ phase' = IF phase = "marked" THEN "frozen" ELSE phase
  /\ UNCHANGED <<timeVars, marker, committedAt, legacy>>

-----------------------------------------------------------------------------
(* The environment.                                                        *)

\* A workload ends in time.
Tick ==
  /\ now < MaxTime
  /\ \A n \in Node : Alive(n) => now < guard[n].deadline + Late
  /\ now' = now + 1
  /\ UNCHANGED <<skew, steps, authorityVars, guardianVars, hostVars, coordinatorVars,
                 legacy>>

SetWallClock ==
  /\ steps < MaxSteps
  /\ skew' \in Skews \ {skew} /\ steps' = steps + 1
  /\ UNCHANGED <<now, authorityVars, guardianVars, hostVars, coordinatorVars, legacy>>

\* The operator replaces the unguarded installation.
InstallGuardian ==
  /\ legacy /\ legacy' = FALSE
  /\ UNCHANGED <<timeVars, authorityVars, guardianVars, hostVars, coordinatorVars>>

Serve ==
  \/ ReadStatus
  \/ \E armed \in BOOLEAN : Arm(armed)
  \/ Restart
  \/ \E r \in requests : Acquire(r) \/ Renew(r) \/ Release(r) \/ Refuse(r) \/ Lose(r)
                           \/ RollBack(r)

Guard(n) ==
  \/ Start(n) \/ AskLease(n) \/ AskRenewal(n) \/ GiveUp(n) \/ Adopt(n)
  \/ Decline(n) \/ Launch(n) \/ Fence(n) \/ GiveBack(n) \/ Die(n)

Coordinate ==
  \/ Prepare \/ StopController \/ StopWorkload \/ Freeze \/ WriteMarker
  \/ RestartWithMarker \/ RestartFails \/ FailBack \/ FinishFailback

Next ==
  \/ Serve \/ Enroll \/ (\E n \in Node : Guard(n))
  \/ Promote \/ Reconcile \/ Coordinate \/ Boot
  \/ Tick \/ SetWallClock \/ InstallGuardian

Spec == Init /\ [][Next]_vars

\* The coordinator is run again and again (run()).
FairSpec == Spec /\ WF_vars(Coordinate)

-----------------------------------------------------------------------------
(* Properties.                                                             *)

Pc == {"down", "boot", "standby", "waiting", "granted", "running", "stopping"}
Guardian == [pc : Pc, inst : Nat, calling : BOOLEAN, at : Int, epoch : Nat, id : Nat,
             deadline : Int]
Reply == [ttl : Int, id : Nat, epoch : Nat]
Request == [kind : {"acquire", "renew", "release"}, node : Node, inst : Nat, epoch : Nat,
            id : Nat, awaited : BOOLEAN]
Lease == {NoLease} \cup [id : Nat \ {0}, node : Node, inst : Nat]
Row == [epoch : Nat \ {0}, active : Node, armed : BOOLEAN, enrolled : BOOLEAN,
        lease : Lease, leaseExpires : Int, drainUntil : Int, quarantineUntil : Int]
Phase == {"waiting", "prepared", "frozen", "marked", "committing", "returning"}

\* The variables have their types.
TypeOK ==
  /\ now \in Nat /\ skew \in Int /\ steps \in Nat
  /\ db \in Row /\ anchor \in Int
  /\ marker \in [epoch : Nat, createdAt : Int]
  /\ requests \subseteq Request
  /\ guard \in [Node -> Guardian] /\ answer \in [Node -> Reply]
  /\ ociUnit \in BOOLEAN /\ controllerOn \in BOOLEAN /\ legacy \in BOOLEAN
  /\ phase \in Phase /\ committedAt \in Nat

\* The workload never runs on both machines, whatever clocks, delays, losses,
\* restarts and handovers do (the purpose of the whole: authority.py's docstring).
OneWorkload ==
  /\ ~ (Alive("primary") /\ Alive("oci"))
  /\ ~ (legacy /\ Alive("oci"))

\* When the authority's drain is over, the last lease's workload is over too: the
\* next owner may be let in (acquire, promote, failback compare drain_until only).
DrainedMeansStopped ==
  ~Jumped /\ Wall >= db.drainUntil => \A n \in Node : ~Alive(n)

\* A marker that the next start of the authority would accept tells the truth: the
\* source's workload does not run (authority.py's comment on the handoff marker).
MarkerMeansFenced == HandoffReady => ~Alive("oci")

\* Whoever runs the workload, or holds a lease it may still start it with, is the
\* node that the authority holds for active: no move of the role overtakes a lease.
OnlyActiveRuns ==
  \A n \in Node : Alive(n) \/ (guard[n].pc = "granted" /\ FreshEnough(n)) => n = db.active

\* A failback that the authority has committed is carried to its end by the
\* coordinator, which resumes the phase it was in.
FailbackResumes ==
  phase = "committing" /\ db.active = "primary" ~> phase # "committing"
=============================================================================
