----------------------------- MODULE RateLimits -----------------------------
(***************************************************************************)
(* The durable notification quota: src/src/automation/rate-limits.js, with *)
(* the delivery attempts that use it (reserve, sendStep and release of     *)
(* transport.js, called from a tick of runtime.js).                        *)
(*                                                                         *)
(* A slot is a numbered monitor registration of an owner.  Every slot has  *)
(* one counter per window (minute, day); a counter counts for one window   *)
(* at a time, its epoch, which ends at expires_at_ms.  An attempt is one   *)
(* job under one lease.  Before it sends anything it reserves all of its   *)
(* messages ("parts") in every slot that contributes to them, then moves   *)
(* the parts one by one from reserved to submitting to committed or        *)
(* unknown, and returns what it did not send.  Attempts run in different   *)
(* processes; each database transaction is one action.                     *)
(*                                                                         *)
(* Abstractions.  A window ends at any moment.  Leases are those of        *)
(* DeliveryQueue: live, out of time ("late", which an acknowledgement can  *)
(* undo), or taken away for good ("gone").                                 *)
(***************************************************************************)
EXTENDS Integers, FiniteSets

CONSTANTS
  Attempts,   \* jobs, each under one of its leases
  Slots,      \* numbered monitor registrations
  Windows,    \* kinds of window of a slot: minute, day
  Count,      \* number of messages of an attempt
  PartsOf,    \* the messages of the attempt to which the slot contributes
  Limit,      \* the slot's allowance per window
  MaxEpoch    \* bound: windows opened per counter

Counters == Slots \X Windows
Parts(a) == 1..Count[a]
SlotsOf(a) == {s \in Slots : PartsOf[a][s] # {}}
Units == UNION {{a} \X Parts(a) : a \in Attempts}

ASSUME QuotaAssumption ==
  /\ IsFiniteSet(Attempts)
  /\ Count \in [Attempts -> Nat \ {0}]
  /\ PartsOf \in [Attempts -> [Slots -> SUBSET Nat]]
  /\ \A a \in Attempts : UNION {PartsOf[a][s] : s \in Slots} = Parts(a)
  /\ Limit \in [Counters -> Nat]
  /\ MaxEpoch \in Nat

VARIABLES
  \* automation_counters
  used, epoch, open,
  \* automation_rate_reservations: one row per attempt and slot
  row, at, part,
  \* the attempt's lease, its worker's place in the code and current part
  lease, pc, index,
  \* messages on their way to Discord and posted there
  wire, posted

counterVars == <<used, epoch, open>>
rowVars == <<row, at, part>>
attemptVars == <<lease, pc, index>>
netVars == <<wire, posted>>
vars == <<counterVars, rowVars, attemptVars, netVars>>

PartStates == {"unused", "reserved", "submitting", "committed", "unknown", "released"}
Charged == {"reserved", "submitting", "committed", "unknown"}
Phases == {"start", "holding", "begun", "await", "commit", "ack", "undo",
           "retain", "refund", "ended"}
PartKey(a) == SlotsOf(a) \X Parts(a)

Init ==
  /\ used = [c \in Counters |-> 0]
  /\ epoch = [c \in Counters |-> 0]
  /\ open = [c \in Counters |-> FALSE]
  /\ row = [a \in Attempts |-> [s \in Slots |-> FALSE]]
  /\ at = [a \in Attempts |-> [c \in Counters |-> 0]]
  /\ part = [a \in Attempts |-> [k \in PartKey(a) |-> "unused"]]
  /\ lease = [a \in Attempts |-> "live"]
  /\ pc = [a \in Attempts |-> "start"]
  /\ index = [a \in Attempts |-> 1]
  /\ wire = {} /\ posted = {}

Go(a, p) == pc' = [pc EXCEPT ![a] = p] /\ UNCHANGED <<lease, index>>

-----------------------------------------------------------------------------
(* consume(): all counters of all slots are charged, or none is.           *)

\* The attempt's messages that the slot pays for.
Share(a, s) == {u \in Units : u[1] = a /\ u[2] \in PartsOf[a][s]}
Cost(a, c) == Cardinality(Share(a, c[1]))
CountersOf(a) == SlotsOf(a) \X Windows

\* The counter has room, or its window is over and it starts anew.
Fits(a, c) == /\ Cost(a, c) <= Limit[c]
              /\ open[c] => used[c] + Cost(a, c) <= Limit[c]

Reserve(a) ==
  /\ pc[a] = "start" /\ lease[a] = "live"
  /\ \A c \in CountersOf(a) : Fits(a, c) /\ (~open[c] => epoch[c] < MaxEpoch)
  /\ used' = [c \in Counters |->
       IF c \notin CountersOf(a) THEN used[c]
       ELSE IF open[c] THEN used[c] + Cost(a, c) ELSE Cost(a, c)]
  /\ epoch' = [c \in Counters |->
       IF c \in CountersOf(a) /\ ~open[c] THEN epoch[c] + 1 ELSE epoch[c]]
  /\ open' = [c \in Counters |-> c \in CountersOf(a) \/ open[c]]
  /\ row' = [row EXCEPT ![a] = [s \in Slots |-> s \in SlotsOf(a)]]
  /\ at' = [at EXCEPT ![a] = epoch']
  /\ part' = [part EXCEPT ![a] = [k \in PartKey(a) |->
       IF k[2] \in PartsOf[a][k[1]] THEN "reserved" ELSE "unused"]]
  /\ \/ Go(a, "holding")
     \/ Go(a, "ended")     \* the answer is lost, or too old to be used
  /\ UNCHANGED netVars

\* Over a limit, the lease lost, or the database unavailable: nothing held.
ReserveDenied(a) ==
  /\ pc[a] = "start" /\ Go(a, "ended")
  /\ UNCHANGED <<counterVars, rowVars, netVars>>

-----------------------------------------------------------------------------
(* settle(): the parts in P of the attempt get a new outcome.              *)

\* Fault: the refund goes to whatever window the counter is in.
RefundableAlways(a, c) == TRUE

\* Never subtract from a new minute or day after the rollover.
Refundable(a, c) == at[a][c] = epoch[c]

Less(n, m) == IF m < n THEN n - m ELSE 0

Settled(a, K, outcome) ==
  part' = [part EXCEPT ![a] = [k \in PartKey(a) |->
                                 IF k \in K THEN outcome ELSE part[a][k]]]

\* The attempt's messages that K names in the slot.
UnitsOf(a, s, K) == {u \in Units : u[1] = a /\ <<s, u[2]>> \in K}

Refunded(a, K) ==
  used' = [c \in Counters |->
    IF Refundable(a, c)
      THEN Less(used[c], Cardinality(UnitsOf(a, c[1], K))) ELSE used[c]]

\* Parts whose outcome settle(index) still writes, and settle(null).
Pending(a, i) == {k \in PartKey(a) : k[2] = i /\ part[a][k] \in {"reserved", "submitting"}}
Reserved(a) == {k \in PartKey(a) : part[a][k] = "reserved"}
RowsExist(a) == \A s \in SlotsOf(a) : row[a][s]

\* Fault: a part that lost its reservation may be submitted.
BeginnableAnyway(a) ==
  \A k \in PartKey(a) : k[2] = index[a] => part[a][k] \in {"reserved", "released", "unused"}

\* beginNotification wants the part reserved in every slot it concerns.
Beginnable(a) ==
  \A k \in PartKey(a) : k[2] = index[a] => part[a][k] \in {"reserved", "unused"}

\* All windows the current part was charged to are still running.
Unexpired(a) ==
  \A c \in Counters : index[a] \in PartsOf[a][c[1]] => open[c] /\ at[a][c] = epoch[c]

Begin(a) ==
  /\ pc[a] = "holding" /\ RowsExist(a) /\ Beginnable(a)
  /\ Settled(a, Pending(a, index[a]), "submitting")
  /\ Go(a, "begun")
  /\ UNCHANGED <<counterVars, row, at, netVars>>

\* Before the claim of the part an error returns what is left; after it, a
\* failed begin included, it first returns the part.
BeginRefused(a) ==
  /\ pc[a] = "holding"
  /\ Go(a, "refund") \/ Go(a, "undo")
  /\ UNCHANGED <<counterVars, rowVars, netVars>>

\* A changed plan, a closed window, an expired reservation: nothing is sent.
PostRefused(a) ==
  /\ pc[a] = "begun" /\ Go(a, "undo")
  /\ UNCHANGED <<counterVars, rowVars, netVars>>

Post(a) ==
  /\ pc[a] = "begun" /\ Unexpired(a)
  /\ wire' = wire \cup {<<a, index[a]>>}
  /\ Go(a, "await")
  /\ UNCHANGED <<counterVars, rowVars, posted>>

-----------------------------------------------------------------------------
(* The answer of Discord, and what the attempt records of it.              *)

AnswerAccepted(a) ==
  /\ pc[a] = "await" /\ <<a, index[a]>> \in posted /\ Go(a, "commit")
  /\ UNCHANGED <<counterVars, rowVars, netVars>>

\* A 4xx answer, a rate limit included: the message was not posted.
Rejected(a) == <<a, index[a]>> \notin wire \cup posted

AnswerRejected(a) ==
  /\ pc[a] = "await" /\ Rejected(a) /\ Go(a, "undo")
  /\ UNCHANGED <<counterVars, rowVars, netVars>>

AnswerUnknown(a) ==
  /\ pc[a] = "await" /\ Go(a, "retain")
  /\ UNCHANGED <<counterVars, rowVars, netVars>>

Commit(a) ==
  /\ pc[a] = "commit" /\ RowsExist(a)
  /\ Settled(a, Pending(a, index[a]), "committed")
  /\ Go(a, "ack")
  /\ UNCHANGED <<counterVars, row, at, netVars>>

CommitFails(a) ==
  /\ pc[a] = "commit" /\ Go(a, "retain")
  /\ UNCHANGED <<counterVars, rowVars, netVars>>

\* Fault: one step too many.
LastPartMissed(a) == index[a] > Count[a]

LastPart(a) == index[a] = Count[a]

\* queue.acknowledgeStep extends a lease that ran out and nobody took.
Acknowledge(a) ==
  /\ pc[a] = "ack" /\ lease[a] # "gone"
  /\ lease' = [lease EXCEPT ![a] = "live"]
  /\ IF LastPart(a)
       THEN pc' = [pc EXCEPT ![a] = "refund"] /\ UNCHANGED index
       ELSE /\ pc' = [pc EXCEPT ![a] = "holding"]
            /\ index' = [index EXCEPT ![a] = @ + 1]
  /\ UNCHANGED <<counterVars, rowVars, netVars>>

AcknowledgeFails(a) ==
  /\ pc[a] = "ack" /\ Go(a, "refund")
  /\ UNCHANGED <<counterVars, rowVars, netVars>>

-----------------------------------------------------------------------------
(* Cleaning up: the catch block of sendStep, then the finally of tick.     *)

RetainUnknown(a) ==
  /\ pc[a] = "retain" /\ RowsExist(a)
  /\ Settled(a, Pending(a, index[a]), "unknown")
  /\ Go(a, "refund")
  /\ UNCHANGED <<counterVars, row, at, netVars>>

UndoPart(a) ==
  /\ pc[a] = "undo" /\ RowsExist(a)
  /\ Settled(a, Pending(a, index[a]), "released")
  /\ Refunded(a, Pending(a, index[a]))
  /\ Go(a, "refund")
  /\ UNCHANGED <<epoch, open, row, at, netVars>>

\* The statement fails: the hold is retained for the rest to find.
CleanupFails(a) ==
  /\ \/ pc[a] \in {"retain", "undo"} /\ Go(a, "refund")
     \/ pc[a] = "refund" /\ Go(a, "ended")
  /\ UNCHANGED <<counterVars, rowVars, netVars>>

\* Fault: the part that is at Discord is returned with the rest.
ReturnedAll(a) == {k \in PartKey(a) : part[a][k] \in {"reserved", "unknown"}}

\* The parts a release of the whole reservation returns.
Returned(a) == Reserved(a)

Release(a) ==
  /\ pc[a] = "refund" /\ RowsExist(a)
  /\ Settled(a, Returned(a), "released")
  /\ Refunded(a, Returned(a))
  /\ Go(a, "ended")
  /\ UNCHANGED <<epoch, open, row, at, netVars>>

Crash(a) ==
  /\ pc[a] \notin {"start", "ended"} /\ Go(a, "ended")
  /\ UNCHANGED <<counterVars, rowVars, netVars>>

-----------------------------------------------------------------------------
(* recoverOrphanedReservations(), run before every claim, and the sweep.   *)

\* Fault: a lease that merely ran out still protects the reservation.
OrphanedTaken(a) == lease[a] = "gone"

\* The attempt that made the reservation no longer holds its job.
Orphaned(a) == lease[a] # "live"

OrphanHolds(a, s) == {k \in Reserved(a) : k[1] = s}

\* Some window the attempt's parts were charged to is not over.
RunningHold(a, s) ==
  /\ row[a][s]
  /\ \E n \in Windows : open[<<s, n>>] /\ at[a][<<s, n>>] = epoch[<<s, n>>]

RecoverOrphan(a, s) ==
  /\ row[a][s] /\ Orphaned(a) /\ OrphanHolds(a, s) # {}
  /\ Settled(a, OrphanHolds(a, s), "released")
  /\ Refunded(a, OrphanHolds(a, s))
  /\ UNCHANGED <<epoch, open, row, at, attemptVars, netVars>>

\* A day after all of its windows have ended a reservation is deleted.
Sweep(a, s) ==
  /\ row[a][s] /\ ~RunningHold(a, s)
  /\ row' = [row EXCEPT ![a][s] = FALSE]
  /\ UNCHANGED <<counterVars, at, part, attemptVars, netVars>>

-----------------------------------------------------------------------------
(* The world around.                                                       *)

WindowEnds(c) ==
  /\ open[c] /\ open' = [open EXCEPT ![c] = FALSE]
  /\ UNCHANGED <<used, epoch, rowVars, attemptVars, netVars>>

LeaseRunsOut(a) ==
  /\ lease[a] = "live" /\ lease' = [lease EXCEPT ![a] = "late"]
  /\ UNCHANGED <<counterVars, rowVars, pc, index, netVars>>

\* The job is settled, recovered, claimed again or cancelled.
LeaseTaken(a) ==
  /\ lease[a] # "gone" /\ lease' = [lease EXCEPT ![a] = "gone"]
  /\ UNCHANGED <<counterVars, rowVars, pc, index, netVars>>

DiscordPosts(m) ==
  /\ wire' = wire \ {m} /\ posted' = posted \cup {m}
  /\ UNCHANGED <<counterVars, rowVars, attemptVars>>

DiscordRejects(m) ==
  /\ wire' = wire \ {m} /\ UNCHANGED posted
  /\ UNCHANGED <<counterVars, rowVars, attemptVars>>

-----------------------------------------------------------------------------
AttemptStep(a) ==
  \/ Reserve(a) \/ ReserveDenied(a)
  \/ Begin(a) \/ BeginRefused(a) \/ PostRefused(a) \/ Post(a)
  \/ AnswerAccepted(a) \/ AnswerRejected(a) \/ AnswerUnknown(a)
  \/ Commit(a) \/ CommitFails(a) \/ Acknowledge(a) \/ AcknowledgeFails(a)
  \/ RetainUnknown(a) \/ UndoPart(a) \/ CleanupFails(a) \/ Release(a)

Next ==
  \/ \E a \in Attempts : AttemptStep(a) \/ Crash(a) \/ LeaseRunsOut(a) \/ LeaseTaken(a)
  \/ \E a \in Attempts, s \in Slots : RecoverOrphan(a, s) \/ Sweep(a, s)
  \/ \E c \in Counters : WindowEnds(c)
  \/ \E m \in wire : DiscordPosts(m) \/ DiscordRejects(m)

Spec == Init /\ [][Next]_vars

\* A tick of a live process runs on and begins with the recovery; a lease
\* that nobody renews runs out; a request is answered or times out.
Fairness ==
  /\ \A a \in Attempts : WF_vars(AttemptStep(a)) /\ WF_vars(LeaseRunsOut(a))
  /\ \A a \in Attempts, s \in Slots : WF_vars(RunningHold(a, s) /\ RecoverOrphan(a, s))

FairSpec == Spec /\ Fairness

-----------------------------------------------------------------------------
(* Properties.                                                             *)

\* Every counter, reservation, lease and attempt keeps its type.
TypeOK ==
  /\ used \in [Counters -> Nat]
  /\ epoch \in [Counters -> Nat]
  /\ open \in [Counters -> BOOLEAN]
  /\ row \in [Attempts -> [Slots -> BOOLEAN]]
  /\ at \in [Attempts -> [Counters -> Nat]]
  /\ part = [a \in Attempts |-> part[a]]
  /\ \A a \in Attempts : part[a] \in [PartKey(a) -> PartStates]
  /\ lease \in [Attempts -> {"live", "late", "gone"}]
  /\ pc \in [Attempts -> Phases]
  /\ index = [a \in Attempts |-> index[a]]
  /\ \A a \in Attempts : index[a] \in Parts(a)
  /\ wire \subseteq Units /\ posted \subseteq Units

\* The messages whose reservation counts against c in its present window and
\* has one of the given states.
UnitsIn(c, S) ==
  {u \in Units : /\ row[u[1]][c[1]] /\ at[u[1]][c] = epoch[c]
                 /\ u[2] \in PartsOf[u[1]][c[1]]
                 /\ part[u[1]][<<c[1], u[2]>>] \in S}

\* A counter is exactly what is held, sent or may have been sent against it in
\* this window: no refund is lost, given twice, or given to a later window, by
\* whichever of the attempt and the recovery of orphans comes first.
ChargedExactly ==
  \A c \in Counters : open[c] => used[c] = Cardinality(UnitsIn(c, Charged))

Messages == wire \cup posted

\* A message that is or may be at Discord is never refunded, not even when its
\* attempt lost its lease and the recovery took back what it had left.
PostedStaysCharged ==
  \A u \in Messages, s \in Slots :
    row[u[1]][s] /\ u[2] \in PartsOf[u[1]][s]
      => part[u[1]][<<s, u[2]>>] \in {"submitting", "committed", "unknown"}

MessagesIn(c) ==
  {u \in Messages : u[2] \in PartsOf[u[1]][c[1]] /\ at[u[1]][c] = epoch[c]}

\* The quota itself: however many processes send, crash and recover, no more
\* messages are posted for a slot in a window than its plan allows.
PostedWithinLimit == \A c \in Counters : Cardinality(MessagesIn(c)) <= Limit[c]

\* Fault: messages with an unknown answer are shown as used.
TodayReservedOnly(c) == Cardinality(UnitsIn(c, {"reserved", "submitting"}))

\* getSlotUsage: what is not used up yet, and what is, as an owner sees them.
TodayReserved(c) == Cardinality(UnitsIn(c, {"reserved", "submitting", "unknown"}))
TodayUsed(c) == IF open[c] THEN Less(used[c], TodayReserved(c)) ELSE 0

\* The usage an owner is shown counts the messages Discord confirmed in this
\* window, and only those.
UsageShowsConfirmed ==
  \A c \in Counters :
    open[c] => TodayUsed(c) = Cardinality(UnitsIn(c, {"committed"}))

\* What a lost attempt held is given back while it still matters: its parts do
\* not stay reserved for as long as a window they were charged to runs.
HoldsComeBack ==
  \A a \in Attempts, s \in Slots :
    (row[a][s] /\ OrphanHolds(a, s) # {} /\ pc[a] = "ended")
      ~> (OrphanHolds(a, s) = {} \/ ~RunningHold(a, s))
=============================================================================
