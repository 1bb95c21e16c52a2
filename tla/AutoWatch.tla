------------------------------ MODULE AutoWatch ------------------------------
(***************************************************************************)
(* The automatic watch of one source (providers/autoWatch/runner.js and    *)
(* store.js) up to the hand-over of each discovery to the rules of its     *)
(* watchers (automation/queue.js, route).                                  *)
(*                                                                         *)
(* Processes poll the listing of the source under a lease.  The first      *)
(* observation seeds the cursor; a later one admits a bounded number of    *)
(* new contents and keeps the rest in the cursor as a durable tail.  An    *)
(* admitted content becomes an item with one delivery for each watcher     *)
(* whose baseline is older, and each delivery is claimed under a lease of  *)
(* its own and handed over in one transaction.                             *)
(*                                                                         *)
(* A lease names the worker that holds it: the token is fresh for each     *)
(* claim and a worker makes one claim at a time.  Times are recorded only  *)
(* to be compared, so the clock stands still while its value is unused.    *)
(***************************************************************************)
EXTENDS Naturals, FiniteSets

CONSTANTS
  Contents,      \* what the source may list
  Fleeting,      \* contents that may leave the listing again
  Targets,       \* registrations of watchers
  Workers,       \* processes that tick
  AcceptLimit,   \* AUTO_WATCH_MAX_NEW_ITEMS_PER_SOURCE
  AttemptLimit,  \* hand-over attempts of a delivery
  MaxChanges,    \* bound on pauses and removals
  MaxFaults      \* bound on crashes, failures and leases lost by slow workers

NoOne == "nobody"

ASSUME ValueAssumption == NoOne \notin Workers
ASSUME LimitAssumption ==
  /\ AcceptLimit \in Nat \ {0} /\ AttemptLimit \in Nat \ {0}
  /\ MaxChanges \in Nat /\ MaxFaults \in Nat

VARIABLES
  listing,  \* contents listed now, and those that are no longer
  source,   \* the row of the source
  target,   \* the rows of the watchers
  item,     \* discovered_at_ms of each stored item, 0 when there is none
  delivery, \* the deliveries, by item and watcher
  runs,     \* automation_runs by the dedupe key of a delivery
  worker,   \* what each process is doing
  clock,    \* the latest time that was recorded, or a later one
  changes, faults,
  seed,     \* history: contents of the first observation of the source
  basis     \* history: contents of the observation a watcher's baseline is from

counters == <<changes, faults>>
history == <<seed, basis>>
vars == <<listing, source, target, item, delivery, runs, worker, clock,
          counters, history>>

Pairs == Contents \X Targets

\* What a poll reads of the source and works from.  The validators that were
\* stored are the set of the one listing they describe, or empty.
Cursor(row) == [init |-> row.init, seen |-> row.seen, tail |-> row.tail,
                tag |-> row.tag]
NoTail == [c \in Contents |-> 0]
Waiting(cursor) == {c \in Contents : cursor.tail[c] # 0}
Fresh == [exists |-> FALSE, init |-> FALSE, seen |-> {}, tail |-> NoTail,
          tag |-> {}, owner |-> NoOne, live |-> FALSE]
Absent == [st |-> "none", owner |-> NoOne, live |-> FALSE, tries |-> 0]
Queued == [Absent EXCEPT !.st = "pending"]
Idle == [phase |-> "idle"]

Init ==
  /\ listing = [now |-> {}, past |-> {}]
  /\ source = Fresh
  /\ target = [t \in Targets |-> [st |-> "none", created |-> 0, baseline |-> 0]]
  /\ item = [c \in Contents |-> 0]
  /\ delivery = [p \in Pairs |-> Absent]
  /\ runs = [p \in Pairs |-> 0]
  /\ worker = [w \in Workers |-> Idle]
  /\ clock = 0 /\ changes = 0 /\ faults = 0
  /\ seed = {} /\ basis = [t \in Targets |-> {}]

On(t) == target[t].st = "on"
Watched == source.exists /\ \E t \in Targets : On(t)
Polling(w) == worker[w].phase \in {"polling", "fetched", "unmodified"}
Handing(w) == worker[w].phase \in {"handing", "raised"}

\* A time later than every recorded one.
Recorded ==
  {target[t].created : t \in Targets} \cup {target[t].baseline : t \in Targets}
    \cup {item[c] : c \in Contents} \cup {source.tail[c] : c \in Contents}
    \cup {worker[w].at : w \in {v \in Workers : Polling(v)}}
Later == IF clock \in Recorded THEN clock + 1 ELSE clock

Fault == faults < MaxFaults /\ faults' = faults + 1
Change == changes < MaxChanges /\ changes' = changes + 1

-----------------------------------------------------------------------------
(* The upstream service *)

List(c) ==
  /\ c \notin listing.now \cup listing.past
  /\ listing' = [listing EXCEPT !.now = @ \cup {c}]
  /\ UNCHANGED <<source, target, item, delivery, runs, worker, clock, counters, history>>

Unlist(c) ==
  /\ c \in listing.now \cap Fleeting
  /\ listing' = [now |-> listing.now \ {c}, past |-> listing.past \cup {c}]
  /\ UNCHANGED <<source, target, item, delivery, runs, worker, clock, counters, history>>

-----------------------------------------------------------------------------
(* Watchers *)

\* registerTarget: also creates the source if it is not there.
Register(t) ==
  /\ target[t].st = "none"
  /\ target' = [target EXCEPT ![t] = [st |-> "on", created |-> Later, baseline |-> 0]]
  /\ source' = [source EXCEPT !.exists = TRUE]
  /\ clock' = Later
  /\ UNCHANGED <<listing, item, delivery, runs, worker, counters, history>>

\* monitors.js: pausing cancels what is pending (cancelPending).
Pause(t) ==
  /\ Change /\ On(t)
  /\ target' = [target EXCEPT ![t].st = "off"]
  /\ delivery' = [p \in Pairs |->
       IF p[2] = t /\ delivery[p].st = "pending"
         THEN [Absent EXCEPT !.st = "cancelled", !.tries = delivery[p].tries]
         ELSE delivery[p]]
  /\ UNCHANGED <<listing, source, item, runs, worker, clock, faults, history>>

\* Fault: a watcher that is resumed goes on as if it had never been off.
ResumeAsItWas(t) ==
  /\ target[t].st = "off"
  /\ target' = [target EXCEPT ![t].st = "on"]
  /\ UNCHANGED <<listing, source, item, delivery, runs, worker, clock, counters, history>>

\* A watcher that is resumed counts as registered again.
Resume(t) ==
  /\ target[t].st = "off"
  /\ target' = [target EXCEPT ![t] = [st |-> "on", created |-> Later, baseline |-> 0]]
  /\ basis' = [basis EXCEPT ![t] = {}]
  /\ clock' = Later
  /\ UNCHANGED <<listing, source, item, delivery, runs, worker, counters, seed>>

\* deleteTarget, and remove of monitors.js, which leaves the source.  Items and
\* deliveries are deleted with the rows they belong to.
Remove(t, collect) ==
  LET last == collect /\ \A u \in Targets \ {t} : target[u].st \notin {"on", "off"}
  IN
  /\ Change /\ target[t].st \in {"on", "off"}
  /\ target' = [target EXCEPT ![t] = [st |-> "gone", created |-> 0, baseline |-> 0]]
  /\ delivery' = [p \in Pairs |-> IF p[2] = t THEN Absent ELSE delivery[p]]
  /\ source' = IF last THEN Fresh ELSE source
  /\ item' = IF last THEN [c \in Contents |-> 0] ELSE item
  /\ seed' = IF last THEN {} ELSE seed
  /\ basis' = [basis EXCEPT ![t] = {}]
  /\ UNCHANGED <<listing, runs, worker, clock, faults>>

-----------------------------------------------------------------------------
(* Polling the source *)

\* Fault: a lease that has ended still keeps others out.
FreeUnowned(row) == row.owner = NoOne

\* A row nobody holds, or whose lease has ended.
Free(row) == row.owner = NoOne \/ ~row.live

\* claimDueSources.  A source that is not due is one that is not claimed; the
\* update repeats both conditions of the selection at the same time, and each
\* completion moves the next check past it, so the row read is the row leased.
ClaimSource(w) ==
  /\ worker[w] = Idle /\ Watched /\ Free(source)
  /\ source' = [source EXCEPT !.owner = w, !.live = TRUE]
  /\ worker' = [worker EXCEPT ![w] = [phase |-> "polling", at |-> Later,
                                      cursor |-> Cursor(source), found |-> {}]]
  /\ clock' = Later
  /\ UNCHANGED <<listing, target, item, delivery, runs, counters, history>>

Backlog(w) == Waiting(worker[w].cursor)

\* The contents R of a tail stay in it, with a time for each.
TailOf(R, time) == [c \in Contents |-> IF c \in R THEN time[c] ELSE 0]

\* fetchSource: a whole listing, or "not modified" when the validator that was
\* stored still describes it and the source has been seeded.
Fetch(w) ==
  /\ worker[w].phase = "polling" /\ Backlog(w) = {}
  /\ \/ worker' = [worker EXCEPT ![w].phase = "fetched", ![w].found = listing.now]
     \/ /\ worker[w].cursor.init /\ worker[w].cursor.tag = {listing.now}
        /\ worker' = [worker EXCEPT ![w].phase = "unmodified",
                                    ![w].found = listing.now]
  /\ UNCHANGED <<listing, source, target, item, delivery, runs, clock, counters, history>>

\* Fault: the save asks for the row of the source, not for the lease.
HoldsSourceById(w) == source.exists

\* The row still carries the token of this claim and its lease has not ended.
HoldsSource(w) == source.owner = w /\ source.live

\* What a token-fenced update releases.
Released(w) == IF source.owner = w THEN [source EXCEPT !.owner = NoOne, !.live = FALSE]
               ELSE source

Save(w, seen, tail, tag) ==
  /\ HoldsSource(w)
  /\ source' = [exists |-> source.exists, init |-> TRUE, seen |-> seen,
                tail |-> tail, tag |-> tag, owner |-> NoOne, live |-> FALSE]
  /\ worker' = [worker EXCEPT ![w] = Idle]

\* Watchers without a baseline get that of this observation.
Based(at, found) ==
  LET new == {t \in Targets : On(t) /\ target[t].baseline = 0} IN
  /\ target' = [t \in Targets |->
                  IF t \in new THEN [target[t] EXCEPT !.baseline = at] ELSE target[t]]
  /\ basis' = [t \in Targets |-> IF t \in new THEN found ELSE basis[t]]

\* A watcher is owed what was discovered after its registration and baseline.
Owed(t, at) == /\ On(t) /\ target[t].baseline # 0
               /\ target[t].created <= at /\ target[t].baseline < at

\* createItemsAndDeliveries: both inserts ignore rows that exist.
Admit(accepted, at) ==
  /\ item' = [c \in Contents |->
                IF c \in accepted /\ item[c] = 0 THEN at[c] ELSE item[c]]
  /\ delivery' = [p \in Pairs |->
       IF p[1] \in accepted /\ delivery[p].st = "none" /\ Owed(p[2], item'[p[1]])
         THEN Queued ELSE delivery[p]]

\* The contents admitted at once, of those that are pending.
Batches(pending) ==
  {A \in SUBSET pending :
     Cardinality(A) = IF Cardinality(pending) < AcceptLimit
                      THEN Cardinality(pending) ELSE AcceptLimit}

\* The first observation makes everything that is listed known.
Seed(w) ==
  LET at == worker[w].at
      found == worker[w].found
  IN
  /\ worker[w].phase = "fetched" /\ ~worker[w].cursor.init
  /\ Save(w, found, NoTail, {found})
  /\ Based(at, found)
  /\ seed' = found
  /\ UNCHANGED <<listing, item, delivery, runs, clock, counters>>

NotModified(w) ==
  LET cursor == worker[w].cursor IN
  /\ worker[w].phase = "unmodified"
  /\ Save(w, cursor.seen, cursor.tail, cursor.tag)
  /\ Based(worker[w].at, worker[w].found)
  /\ UNCHANGED <<listing, item, delivery, runs, clock, counters, seed>>

\* Fault: the whole listing is acknowledged, though only a part was admitted.
SeenAfterAll(known, accepted, found) == known \cup found

SeenAfter(known, accepted, found) == known \cup accepted


\* Validators are dropped while a part of the listing waits.
TagAfter(rest, found) == IF rest = {} THEN {found} ELSE {}

Observe(w) ==
  LET at == worker[w].at
      cursor == worker[w].cursor
      found == worker[w].found
      pending == found \ cursor.seen
  IN
  /\ worker[w].phase = "fetched" /\ cursor.init
  /\ \E accepted \in Batches(pending) :
       LET rest == pending \ accepted
           now == [c \in Contents |-> at]
       IN
       /\ Save(w, SeenAfter(cursor.seen, accepted, found), TailOf(rest, now),
               TagAfter(rest, found))
       /\ Admit(accepted, now)
  /\ Based(at, found)
  /\ UNCHANGED <<listing, runs, clock, counters, seed>>

\* Fault: contents of the tail count as discovered when they are admitted.
StampNow(w) == [c \in Contents |-> worker[w].at]

\* Contents of the tail keep the time they were discovered at.
StampOf(w) == worker[w].cursor.tail

\* drainBacklog and completeBacklog: a waiting tail goes before any request.
Drain(w) ==
  LET cursor == worker[w].cursor
      pending == Backlog(w) \ cursor.seen
  IN
  /\ worker[w].phase = "polling" /\ Backlog(w) # {}
  /\ \E accepted \in Batches(pending) :
       /\ Save(w, cursor.seen \cup accepted,
               TailOf(pending \ accepted, cursor.tail), source.tag)
       /\ Admit(accepted, StampOf(w))
  /\ UNCHANGED <<listing, target, runs, clock, counters, history>>

\* The save finds its lease lost; failSource and rescheduleSource are fenced by
\* the token alone.
SaveRefused(w) ==
  /\ Polling(w) /\ ~HoldsSource(w)
  /\ worker[w].phase \in {"fetched", "unmodified"} \/ Backlog(w) # {}
  /\ source' = Released(w)
  /\ worker' = [worker EXCEPT ![w] = Idle]
  /\ UNCHANGED <<listing, target, item, delivery, runs, clock, counters, history>>

\* The provider is being paced, the fetch fails or a transaction is rolled back.
PollBreaks(w) ==
  /\ Fault /\ Polling(w)
  /\ source' = Released(w)
  /\ worker' = [worker EXCEPT ![w] = Idle]
  /\ UNCHANGED <<listing, target, item, delivery, runs, clock, changes, history>>

-----------------------------------------------------------------------------
(* Handing deliveries over *)

ClaimDelivery(w, p) ==
  /\ worker[w] = Idle
  /\ delivery[p].st = "pending" /\ Free(delivery[p]) /\ On(p[2])
  /\ delivery' = [delivery EXCEPT ![p].owner = w, ![p].live = TRUE]
  /\ worker' = [worker EXCEPT ![w] = [phase |-> "handing", job |-> p,
                                      tries |-> delivery[p].tries]]
  /\ UNCHANGED <<listing, source, target, item, runs, clock, counters, history>>

\* Fault: the failure is recorded whoever holds the delivery.
FencedById(w, p) == delivery[p].st # "none"

\* The row still carries the token of this claim.
Fenced(w, p) == delivery[p].owner = w

\* The row under its lock: pending, with the token of this claim, in time.
HoldsDelivery(w, p) ==
  /\ delivery[p].st = "pending" /\ delivery[p].owner = w /\ delivery[p].live

\* Fault: the row is closed with its lease still on it.
FinishedHeld(p, st) == [delivery EXCEPT ![p].st = st]

\* The row with its lease taken off.
Finished(p, st) ==
  [delivery EXCEPT ![p] = [st |-> st, owner |-> NoOne, live |-> FALSE, tries |-> @.tries]]

\* The transaction of route(): the run is created unless its dedupe key exists.
HandOver(w, p) ==
  /\ HoldsDelivery(w, p)
  /\ IF On(p[2])
       THEN /\ runs' = [runs EXCEPT ![p] = IF @ = 0 THEN 1 ELSE @]
            /\ delivery' = Finished(p, "routed")
       ELSE /\ delivery' = Finished(p, "cancelled")
            /\ UNCHANGED runs

Return(w) == worker' = [worker EXCEPT ![w] = Idle]

Route(w) ==
  /\ worker[w].phase = "handing"
  /\ HandOver(w, worker[w].job)
  /\ Return(w)
  /\ UNCHANGED <<listing, source, target, item, clock, counters, history>>

RouteRefused(w) ==
  /\ worker[w].phase = "handing" /\ ~HoldsDelivery(w, worker[w].job)
  /\ Return(w)
  /\ UNCHANGED <<listing, source, target, item, delivery, runs, clock, counters, history>>

\* The rule changed while it was evaluated: the delivery waits for its turn.
RoutePostponed(w) ==
  /\ Fault /\ worker[w].phase = "handing"
  /\ HoldsDelivery(w, worker[w].job)
  /\ delivery' = Finished(worker[w].job, "pending")
  /\ Return(w)
  /\ UNCHANGED <<listing, source, target, item, runs, clock, changes, history>>

\* route() raises, before its transaction took effect or after: an answer to a
\* commit can be lost.
RouteRaises(w) ==
  /\ Fault /\ worker[w].phase = "handing"
  /\ \/ UNCHANGED <<delivery, runs>>
     \/ HandOver(w, worker[w].job)
  /\ worker' = [worker EXCEPT ![w].phase = "raised"]
  /\ UNCHANGED <<listing, source, target, item, clock, changes, history>>

\* failDelivery, fenced by the token.  The last attempt may also switch off a
\* watcher whose destination refused it; that update is not fenced.
FailDelivery(w) ==
  LET p == worker[w].job
      last == worker[w].tries + 1 >= AttemptLimit
  IN
  /\ worker[w].phase = "raised"
  /\ delivery' = IF Fenced(w, p)
                   THEN [delivery EXCEPT ![p] =
                           [st |-> IF last THEN "failed" ELSE "pending",
                            owner |-> NoOne, live |-> FALSE, tries |-> @.tries + 1]]
                   ELSE delivery
  /\ \/ UNCHANGED target
     \/ /\ last /\ On(p[2])
        /\ target' = [target EXCEPT ![p[2]].st = "off"]
  /\ Return(w)
  /\ UNCHANGED <<listing, source, item, runs, clock, counters, history>>

-----------------------------------------------------------------------------
(* Crashes and leases *)

Crash(w) ==
  /\ Fault /\ worker[w] # Idle
  /\ Return(w)
  /\ UNCHANGED <<listing, source, target, item, delivery, runs, clock, changes, history>>

\* A lease ends; under a worker that is still at it this counts as a fault.
SourceLeaseEnds ==
  /\ source.owner # NoOne /\ source.live
  /\ IF Polling(source.owner) THEN Fault ELSE UNCHANGED faults
  /\ source' = [source EXCEPT !.live = FALSE]
  /\ UNCHANGED <<listing, target, item, delivery, runs, worker, clock, changes, history>>

DeliveryLeaseEnds(p) ==
  /\ delivery[p].owner # NoOne /\ delivery[p].live
  /\ LET w == delivery[p].owner IN
     IF Handing(w) /\ worker[w].job = p THEN Fault ELSE UNCHANGED faults
  /\ delivery' = [delivery EXCEPT ![p].live = FALSE]
  /\ UNCHANGED <<listing, source, target, item, runs, worker, clock, changes, history>>

-----------------------------------------------------------------------------
Complete(w) == Seed(w) \/ NotModified(w) \/ Observe(w) \/ Drain(w) \/ SaveRefused(w)
Finish(w) == Route(w) \/ RouteRefused(w) \/ FailDelivery(w)

Next ==
  \/ \E c \in Contents : List(c) \/ Unlist(c)
  \/ \E t \in Targets : Register(t) \/ Pause(t) \/ Resume(t)
                        \/ Remove(t, TRUE) \/ Remove(t, FALSE)
  \/ \E w \in Workers :
       \/ ClaimSource(w) \/ Fetch(w) \/ Complete(w) \/ PollBreaks(w)
       \/ \E p \in Pairs : ClaimDelivery(w, p)
       \/ Finish(w) \/ RoutePostponed(w) \/ RouteRaises(w) \/ Crash(w)
  \/ SourceLeaseEnds
  \/ \E p \in Pairs : DeliveryLeaseEnds(p)

Spec == Init /\ [][Next]_vars

-----------------------------------------------------------------------------
Cursors == [init : BOOLEAN, seen : SUBSET Contents, tail : [Contents -> Nat],
            tag : SUBSET SUBSET Contents]
Rows == [exists : BOOLEAN, init : BOOLEAN, seen : SUBSET Contents,
         tail : [Contents -> Nat], tag : SUBSET SUBSET Contents,
         owner : Workers \cup {NoOne}, live : BOOLEAN]
Polls == [phase : {"polling", "fetched", "unmodified"}, at : Nat,
          cursor : Cursors, found : SUBSET Contents]
Hands == [phase : {"handing", "raised"}, job : Pairs, tries : Nat]

TypeOK ==
  /\ listing \in [now : SUBSET Contents, past : SUBSET Contents]
  /\ source \in Rows
  /\ target \in [Targets -> [st : {"none", "on", "off", "gone"},
                             created : Nat, baseline : Nat]]
  /\ item \in [Contents -> Nat]
  /\ delivery \in [Pairs -> [st : {"none", "pending", "routed", "cancelled", "failed"},
                             owner : Workers \cup {NoOne}, live : BOOLEAN,
                             tries : Nat]]
  /\ \A p \in Pairs : delivery[p].owner # NoOne => delivery[p].st = "pending"
  /\ runs \in [Pairs -> Nat]
  /\ worker \in [Workers -> {Idle} \cup Polls \cup Hands]
  /\ clock \in Nat /\ changes \in 0..MaxChanges /\ faults \in 0..MaxFaults
  /\ seed \subseteq Contents /\ basis \in [Targets -> SUBSET Contents]

-----------------------------------------------------------------------------
(* What the watch promises *)

\* Whatever polls overlap or fail, a content counts as known only once it is
\* stored as an item or was there from the start; what waits in the tail is
\* neither; and the stored validators, which let the source answer "not
\* modified", never describe a listing of which a part is still unknown.
DiscoveryKept ==
  /\ \A c \in source.seen \ seed : item[c] # 0
  /\ \A c \in Waiting(source) : item[c] = 0 /\ c \notin source.seen
  /\ \A S \in source.tag : S \subseteq source.seen

\* A watcher that is on has a delivery for every item discovered after its
\* registration and its baseline, though item, baseline and cursor are written
\* by different polls.
OwedMeansQueued ==
  \A c \in Contents, t \in Targets :
    item[c] # 0 /\ Owed(t, item[c]) => delivery[<<c, t>>].st # "none"

\* A delivery that is closed without success has not been handed to the rules,
\* and one that is closed as handed over has, although the answer to the
\* hand-over may be lost and its lease may have passed on.
ClosedAsItWent ==
  \A p \in Pairs :
    /\ delivery[p].st \in {"failed", "cancelled"} => runs[p] = 0
    /\ delivery[p].st = "routed" => runs[p] = 1

\* No history is replayed: a delivery is only ever created for a content that
\* the observation behind the watcher's baseline had not listed.
NoReplay ==
  [][\A c \in Contents, t \in Targets :
       delivery[<<c, t>>].st = "none" /\ delivery'[<<c, t>>].st # "none"
         => target[t].baseline # 0 /\ c \notin basis[t]]_vars

\* A poll saves over the very cursor it read; an observation that was overtaken
\* while it was being fetched leaves no trace.
SavesWhatItRead ==
  [][Cursor(source') # Cursor(source) /\ source'.exists /\ source.exists
       => \E w \in Workers : Polling(w) /\ worker'[w] = Idle
                             /\ worker[w].cursor = Cursor(source)]_vars

-----------------------------------------------------------------------------
(* Progress.  Every process ticks again and again, each tick polls what is   *)
(* due and then takes deliveries, oldest first; requests end; leases end.    *)

Fairness ==
  /\ \A w \in Workers : WF_vars(Fetch(w) \/ Complete(w) \/ Finish(w))
  /\ SF_vars(\E w \in Workers : ClaimSource(w))
  /\ SF_vars(\E w \in Workers, p \in Pairs : ClaimDelivery(w, p))
  /\ WF_vars(SourceLeaseEnds)
  /\ WF_vars(\E p \in Pairs : DeliveryLeaseEnds(p))
FairSpec == Spec /\ Fairness

\* Everything that is listed is known and admitted, and no delivery is due.
CaughtUp ==
  /\ listing.now \subseteq source.seen /\ source.tail = NoTail
  /\ \A p \in Pairs : ~(delivery[p].st = "pending" /\ On(p[2]))

\* While somebody watches, the watch catches up with the listing again and
\* again, whatever crashed and whichever tail was left behind.
WatchCatchesUp == []<>(Watched => CaughtUp)
=============================================================================
