-------------------------- MODULE AutoWatch_proofs --------------------------
(***************************************************************************)
(* Proofs about AutoWatch for any sets of contents, watchers and           *)
(* processes and any limits.                                               *)
(***************************************************************************)
EXTENDS AutoWatch, TLAPS

-----------------------------------------------------------------------------
(* The inductive invariant, in parts.                                      *)

\* A poll that has fetched found no tail waiting in the cursor it read; one
\* that was told "not modified" holds the validator of what is listed.
PollShape ==
  \A w \in Workers :
    /\ worker[w].phase \in {"fetched", "unmodified"} => Backlog(w) = {}
    /\ worker[w].phase = "unmodified" =>
         worker[w].cursor.init /\ worker[w].cursor.tag = {worker[w].found}

\* The poll whose token the source carries read the cursor that is stored, and
\* began after everything that is recorded.
HolderCurrent ==
  \A w \in Workers : Polling(w) /\ source.owner = w =>
    /\ worker[w].cursor = Cursor(source)
    /\ \A t \in Targets : target[t].baseline < worker[w].at
    /\ \A c \in Contents : item[c] < worker[w].at /\ source.tail[c] < worker[w].at

\* Nothing is recorded with a time that is still to come.
Clocked ==
  /\ \A t \in Targets : target[t].baseline <= clock
  /\ \A c \in Contents : item[c] <= clock /\ source.tail[c] <= clock
  /\ \A w \in Workers : Polling(w) => worker[w].at <= clock

\* A stored item is known, and before the first observation nothing is.
Known ==
  /\ \A c \in Contents : item[c] # 0 => c \in source.seen
  /\ ~source.init =>
       /\ source.seen = {} /\ source.tail = NoTail
       /\ \A t \in Targets : target[t].baseline = 0

\* A watcher that is not there has no baseline and no deliveries.
Watchers ==
  \A t \in Targets : target[t].st \in {"none", "gone"} =>
    /\ target[t].baseline = 0
    /\ \A c \in Contents : delivery[<<c, t>>].st = "none"

\* Before a delivery is closed its rules have not seen it.
OpenMeansUnrun ==
  \A p \in Pairs :
    /\ delivery[p].st = "pending" => runs[p] = 0
    /\ delivery[p].st = "none" /\ target[p[2]].st # "gone" => runs[p] = 0

\* What a watcher's baseline had listed is known, or waits since then at latest.
BasisKnown ==
  \A t \in Targets : target[t].baseline # 0 => \A c \in basis[t] :
    c \in source.seen \/ (source.tail[c] # 0 /\ source.tail[c] <= target[t].baseline)

WatchInv ==
  /\ TypeOK /\ PollShape /\ HolderCurrent /\ Clocked /\ Known /\ Watchers
  /\ OpenMeansUnrun /\ ClosedAsItWent /\ BasisKnown
  /\ DiscoveryKept /\ OwedMeansQueued

-----------------------------------------------------------------------------
(* Shapes.                                                                 *)

\* What a process is doing tells which record it is.
LEMMA WorkerShape ==
  ASSUME TypeOK, NEW w \in Workers
  PROVE  /\ Polling(w) => worker[w] \in Polls
         /\ Handing(w) => worker[w] \in Hands
         /\ worker[w] = Idle => ~Polling(w) /\ ~Handing(w)
BY DEF TypeOK, Polling, Handing, Polls, Hands, Idle

\* The next time to be recorded is a number, and not in the past.
LEMMA LaterNat ==
  ASSUME TypeOK
  PROVE  Later \in Nat /\ clock <= Later
BY DEF TypeOK, Later

\* The next time to be recorded is later than every recorded one.
LEMMA LaterThanAll ==
  ASSUME TypeOK, Clocked
  PROVE  /\ \A t \in Targets : target[t].baseline < Later
         /\ \A c \in Contents : item[c] < Later /\ source.tail[c] < Later
<1>1. /\ clock \in Nat
      /\ \A t \in Targets : target[t].baseline \in Nat
      /\ \A c \in Contents : item[c] \in Nat /\ source.tail[c] \in Nat
  BY DEF TypeOK, Rows
<1>2. \A n \in Recorded : n \in Nat /\ n <= clock => n < Later
  BY <1>1 DEF Later
<1>3. /\ \A t \in Targets : target[t].baseline \in Recorded
      /\ \A c \in Contents : item[c] \in Recorded /\ source.tail[c] \in Recorded
  BY DEF Recorded
<1>4. \A t \in Targets : target[t].baseline < Later
  BY <1>1, <1>2, <1>3 DEF Clocked
<1>5. \A c \in Contents : item[c] < Later /\ source.tail[c] < Later
  BY <1>1, <1>2, <1>3 DEF Clocked
<1>6. QED BY <1>4, <1>5

-----------------------------------------------------------------------------
(* Types.                                                                  *)

\* The initial state is well typed.
LEMMA TypeInit == Init => TypeOK
BY LimitAssumption
   DEF Init, TypeOK, Fresh, Rows, NoTail, Absent, Idle, Pairs

\* Cursors are well typed, and so are the contents left in a tail.
LEMMA CursorTypes ==
  /\ TypeOK => Cursor(source) \in Cursors
  /\ NoTail \in [Contents -> Nat]
  /\ \A R : \A time \in [Contents -> Nat] : TailOf(R, time) \in [Contents -> Nat]
BY DEF TypeOK, Rows, Cursors, Cursor, NoTail, TailOf

\* A save leaves a well typed row and an idle process.
LEMMA SaveTypes ==
  ASSUME TypeOK, NEW w \in Workers, NEW seen \in SUBSET Contents,
         NEW tail \in [Contents -> Nat], NEW tag \in SUBSET SUBSET Contents,
         Save(w, seen, tail, tag)
  PROVE  source' \in Rows /\ worker' \in [Workers -> {Idle} \cup Polls \cup Hands]
BY DEF TypeOK, Save, Rows

\* Releasing a row leaves it well typed.
LEMMA ReleasedTypes ==
  ASSUME TypeOK, NEW w \in Workers
  PROVE  Released(w) \in Rows
BY DEF TypeOK, Released, Rows

\* Baselines are well typed.
LEMMA BasedTypes ==
  ASSUME TypeOK, NEW at \in Nat, NEW found \in SUBSET Contents, Based(at, found)
  PROVE  /\ target' \in [Targets -> [st : {"none", "on", "off", "gone"},
                                     created : Nat, baseline : Nat]]
         /\ basis' \in [Targets -> SUBSET Contents]
BY DEF TypeOK, Based

DeliveryRows == [st : {"none", "pending", "routed", "cancelled", "failed"},
                 owner : Workers \cup {NoOne}, live : BOOLEAN, tries : Nat]

DeliveryTypes ==
  /\ delivery \in [Pairs -> DeliveryRows]
  /\ \A p \in Pairs : delivery[p].owner # NoOne => delivery[p].st = "pending"

\* Admitting stores items and adds well typed deliveries.
LEMMA AdmitTypes ==
  ASSUME TypeOK, NEW A, NEW at \in [Contents -> Nat], Admit(A, at)
  PROVE  item' \in [Contents -> Nat] /\ DeliveryTypes'
<1>1. DeliveryTypes BY DEF TypeOK, DeliveryTypes, DeliveryRows
<1>2. Queued \in DeliveryRows /\ Queued.owner = NoOne
  BY DEF Queued, Absent, DeliveryRows
<1>3. QED BY <1>1, <1>2 DEF Admit, DeliveryTypes, TypeOK

\* Closing or freeing a delivery changes its row alone.
LEMMA FinishedRow ==
  ASSUME TypeOK, NEW p \in Pairs, NEW st
  PROVE  /\ Finished(p, st) = [q \in Pairs |-> Finished(p, st)[q]]
         /\ \A q \in Pairs : q # p => Finished(p, st)[q] = delivery[q]
         /\ Finished(p, st)[p] = [st |-> st, owner |-> NoOne, live |-> FALSE,
                                  tries |-> delivery[p].tries]
BY DEF TypeOK, Finished

\* The same, of a step.
LEMMA FinishedSt ==
  ASSUME TypeOK, NEW p \in Pairs, NEW st, delivery' = Finished(p, st)
  PROVE  /\ delivery'[p].st = st
         /\ \A q \in Pairs : q # p => delivery'[q] = delivery[q]
<1>1. Finished(p, st)[p].st = st BY DEF TypeOK, Finished
<1>2. \A q \in Pairs : q # p => Finished(p, st)[q] = delivery[q] BY FinishedRow
<1>3. QED BY <1>1, <1>2

\* Closing or freeing a delivery leaves it well typed.
LEMMA FinishedTypes ==
  ASSUME TypeOK, NEW p \in Pairs,
         NEW st \in {"none", "pending", "routed", "cancelled", "failed"},
         delivery' = Finished(p, st)
  PROVE  DeliveryTypes'
<1>1. DeliveryTypes BY DEF TypeOK, DeliveryTypes, DeliveryRows
<1>2. /\ delivery' = [q \in Pairs |-> delivery'[q]]
      /\ \A q \in Pairs : q # p => delivery'[q] = delivery[q]
      /\ delivery'[p] = [st |-> st, owner |-> NoOne, live |-> FALSE,
                        tries |-> delivery[p].tries]
  BY FinishedRow
<1>3. delivery'[p] \in DeliveryRows
  BY <1>1, <1>2 DEF DeliveryTypes, DeliveryRows
<1>4. \A q \in Pairs : delivery'[q] \in DeliveryRows
  BY <1>1, <1>2, <1>3 DEF DeliveryTypes
<1>5. \A q \in Pairs : delivery'[q].owner # NoOne => delivery'[q].st = "pending"
  BY <1>1, <1>2 DEF DeliveryTypes
<1>6. QED BY <1>2, <1>4, <1>5, Zenon DEF DeliveryTypes

\* A hand-over is well typed.
LEMMA HandOverTypes ==
  ASSUME TypeOK, NEW w \in Workers, NEW p \in Pairs, HandOver(w, p)
  PROVE  DeliveryTypes' /\ runs' \in [Pairs -> Nat]
<1>1. DeliveryTypes' BY FinishedTypes DEF HandOver
<1>2. runs \in [Pairs -> Nat] BY DEF TypeOK
<1>3. runs' \in [Pairs -> Nat] BY <1>2 DEF HandOver
<1>4. QED BY <1>1, <1>3

\* Batches are sets of what is pending.
LEMMA BatchSubset == \A P : \A A \in Batches(P) : A \subseteq P
BY DEF Batches

\* Every step of the watch is one of these.
Tidy == SourceLeaseEnds \/ \E p \in Pairs : DeliveryLeaseEnds(p)
LEMMA Steps ==
  ASSUME Next
  PROVE  \/ \E c \in Contents : List(c) \/ Unlist(c)
         \/ \E t \in Targets : \/ Register(t) \/ Pause(t) \/ Resume(t)
                               \/ \E collect \in BOOLEAN : Remove(t, collect)
         \/ \E w \in Workers : \/ ClaimSource(w) \/ Fetch(w) \/ Seed(w) \/ NotModified(w)
                               \/ Observe(w) \/ Drain(w) \/ SaveRefused(w) \/ PollBreaks(w)
         \/ \E w \in Workers : \/ \E p \in Pairs : ClaimDelivery(w, p)
                               \/ Route(w) \/ RouteRefused(w) \/ RoutePostponed(w)
                               \/ RouteRaises(w) \/ FailDelivery(w) \/ Crash(w)
         \/ Tidy
BY DEF Next, Complete, Finish, Tidy

TargetRows == [st : {"none", "on", "off", "gone"}, created : Nat, baseline : Nat]
Tasks == {Idle} \cup Polls \cup Hands

\* The types of what the steps change.
LEMMA TypeParts ==
  TypeOK <=>
    /\ listing \in [now : SUBSET Contents, past : SUBSET Contents]
    /\ source \in Rows
    /\ target \in [Targets -> TargetRows]
    /\ item \in [Contents -> Nat]
    /\ DeliveryTypes
    /\ runs \in [Pairs -> Nat]
    /\ worker \in [Workers -> Tasks]
    /\ clock \in Nat /\ changes \in 0..MaxChanges /\ faults \in 0..MaxFaults
    /\ seed \in SUBSET Contents /\ basis \in [Targets -> SUBSET Contents]
BY DEF TypeOK, DeliveryTypes, DeliveryRows, TargetRows, Tasks

\* What is to be shown of a step.
LEMMA TypePartsNext ==
  ASSUME listing' \in [now : SUBSET Contents, past : SUBSET Contents],
         source' \in Rows, target' \in [Targets -> TargetRows],
         item' \in [Contents -> Nat], DeliveryTypes', runs' \in [Pairs -> Nat],
         worker' \in [Workers -> Tasks], clock' \in Nat,
         changes' \in 0..MaxChanges, faults' \in 0..MaxFaults,
         seed' \in SUBSET Contents, basis' \in [Targets -> SUBSET Contents]
  PROVE  TypeOK'
BY DEF TypeOK, DeliveryTypes, DeliveryRows, TargetRows, Tasks

\* A process that goes idle is well typed.
LEMMA ReturnTypes ==
  ASSUME TypeOK, NEW w \in Workers, worker' = [worker EXCEPT ![w] = Idle]
  PROVE  worker' \in [Workers -> Tasks]
BY TypeParts DEF Tasks

\* Counting faults and changes stops at their bounds.
LEMMA BoundTypes ==
  ASSUME TypeOK
  PROVE  /\ Fault => faults' \in 0..MaxFaults
         /\ Change => changes' \in 0..MaxChanges
BY LimitAssumption DEF TypeOK, Fault, Change

\* Every step keeps the types.
LEMMA TypeStep == TypeOK /\ [Next]_vars => TypeOK'
<1> SUFFICES ASSUME TypeOK, [Next]_vars PROVE TypeOK'
  OBVIOUS
<1> USE TypeParts, TypePartsNext, LaterNat, ReturnTypes, BoundTypes DEF counters, history
<1>1. CASE \E c \in Contents : List(c) \/ Unlist(c)
  <2>1. listing' \in [now : SUBSET Contents, past : SUBSET Contents]
    BY <1>1 DEF List, Unlist
  <2>2. UNCHANGED <<source, target, item, delivery, runs, worker, clock, changes, faults, seed, basis>>
    BY <1>1 DEF List, Unlist
  <2>3. QED BY <2>1, <2>2 DEF DeliveryTypes
<1>2. ASSUME NEW t \in Targets, Register(t) \/ Resume(t) PROVE TypeOK'
  <2>1. target' \in [Targets -> TargetRows] BY <1>2 DEF Register, Resume, TargetRows
  <2>2. source' \in Rows BY <1>2 DEF Register, Resume, Rows
  <2>3. basis' \in [Targets -> SUBSET Contents] BY <1>2 DEF Register, Resume
  <2>4. UNCHANGED <<listing, item, delivery, runs, worker, changes, faults, seed>> /\ clock' = Later
    BY <1>2 DEF Register, Resume
  <2>5. QED BY <2>1, <2>2, <2>3, <2>4 DEF DeliveryTypes
<1>3. ASSUME NEW t \in Targets, Pause(t) PROVE TypeOK'
  <2>1. target' \in [Targets -> TargetRows] BY <1>3 DEF Pause, TargetRows
  <2>2. \A p \in Pairs : delivery[p] \in DeliveryRows /\ delivery[p].tries \in Nat
    BY DEF DeliveryTypes, DeliveryRows
  <2>3. \A n \in Nat : [Absent EXCEPT !.st = "cancelled", !.tries = n] \in DeliveryRows
    BY DEF Absent, DeliveryRows
  <2>4. \A n \in Nat : [Absent EXCEPT !.st = "cancelled", !.tries = n].owner = NoOne
    BY DEF Absent
  <2>5. DeliveryTypes' BY <1>3, <2>2, <2>3, <2>4 DEF Pause, DeliveryTypes
  <2>6. UNCHANGED <<listing, source, item, runs, worker, clock, faults, seed, basis>> /\ Change
    BY <1>3 DEF Pause
  <2>7. QED BY <2>1, <2>5, <2>6
<1>4. ASSUME NEW t \in Targets, NEW collect \in BOOLEAN, Remove(t, collect) PROVE TypeOK'
  <2>1. target' \in [Targets -> TargetRows] BY <1>4 DEF Remove, TargetRows
  <2>2. Absent \in DeliveryRows /\ Absent.owner = NoOne BY DEF Absent, DeliveryRows
  <2>3. DeliveryTypes' BY <1>4, <2>2 DEF Remove, DeliveryTypes
  <2>4. Fresh \in Rows BY DEF Fresh, Rows, NoTail
  <2>5. source' \in Rows /\ item' \in [Contents -> Nat] /\ seed' \in SUBSET Contents
    BY <1>4, <2>4 DEF Remove
  <2>6. basis' \in [Targets -> SUBSET Contents] BY <1>4 DEF Remove
  <2>7. UNCHANGED <<listing, runs, worker, clock, faults>> /\ Change BY <1>4 DEF Remove
  <2>8. QED BY <2>1, <2>3, <2>5, <2>6, <2>7
<1>5. ASSUME NEW w \in Workers, ClaimSource(w) PROVE TypeOK'
  <2>1. source' \in Rows BY <1>5 DEF ClaimSource, Rows
  <2>2. [phase |-> "polling", at |-> Later, cursor |-> Cursor(source), found |-> {}] \in Polls
    BY CursorTypes DEF Polls
  <2>3. worker' \in [Workers -> Tasks] BY <1>5, <2>2 DEF ClaimSource, Tasks
  <2>4. UNCHANGED <<listing, target, item, delivery, runs, changes, faults, seed, basis>> /\ clock' = Later
    BY <1>5 DEF ClaimSource
  <2>5. QED BY <2>1, <2>3, <2>4 DEF DeliveryTypes
<1>6. ASSUME NEW w \in Workers, Fetch(w) PROVE TypeOK'
  <2>1. worker[w] \in Polls BY <1>6, WorkerShape DEF Fetch, Polling
  <2>2. worker' \in [Workers -> Tasks] BY <1>6, <2>1 DEF Fetch, Tasks, Polls
  <2>3. UNCHANGED <<listing, source, target, item, delivery, runs, clock, changes, faults, seed, basis>>
    BY <1>6 DEF Fetch
  <2>4. QED BY <2>2, <2>3 DEF DeliveryTypes
<1>7. ASSUME NEW w \in Workers, Seed(w) \/ NotModified(w) PROVE TypeOK'
  <2>1. worker[w] \in Polls BY <1>7, WorkerShape DEF Seed, NotModified, Polling
  <2>2. worker[w].cursor \in Cursors /\ worker[w].at \in Nat /\ worker[w].found \in SUBSET Contents
    BY <2>1 DEF Polls
  <2>3. PICK seen \in SUBSET Contents, tail \in [Contents -> Nat], tag \in SUBSET SUBSET Contents :
          Save(w, seen, tail, tag)
    BY <1>7, <2>2, CursorTypes DEF Seed, NotModified, Cursors
  <2>4. source' \in Rows /\ worker' \in [Workers -> Tasks] BY <2>3, SaveTypes DEF Tasks
  <2>5. target' \in [Targets -> TargetRows] /\ basis' \in [Targets -> SUBSET Contents]
    BY <1>7, <2>2, BasedTypes DEF Seed, NotModified, TargetRows
  <2>6. UNCHANGED <<listing, item, delivery, runs, clock, changes, faults>> /\ seed' \in SUBSET Contents
    BY <1>7, <2>2 DEF Seed, NotModified
  <2>7. QED BY <2>4, <2>5, <2>6 DEF DeliveryTypes
<1>8. ASSUME NEW w \in Workers, Observe(w) PROVE TypeOK'
  <2> DEFINE pending == worker[w].found \ worker[w].cursor.seen
             time == [c \in Contents |-> worker[w].at]
  <2>1. worker[w] \in Polls BY <1>8, WorkerShape DEF Observe, Polling
  <2>2. worker[w].cursor.seen \in SUBSET Contents /\ worker[w].at \in Nat
        /\ worker[w].found \in SUBSET Contents
    BY <2>1 DEF Polls, Cursors
  <2>3. PICK A \in Batches(pending) :
          /\ Save(w, SeenAfter(worker[w].cursor.seen, A, worker[w].found),
                  TailOf(pending \ A, time), TagAfter(pending \ A, worker[w].found))
          /\ Admit(A, time)
    BY <1>8 DEF Observe
  <2>4. time \in [Contents -> Nat] BY <2>2
  <2>5. TailOf(pending \ A, time) \in [Contents -> Nat] BY <2>4, CursorTypes
  <2>6. SeenAfter(worker[w].cursor.seen, A, worker[w].found) \in SUBSET Contents
    BY <2>2, BatchSubset DEF SeenAfter
  <2>7. TagAfter(pending \ A, worker[w].found) \in SUBSET SUBSET Contents
    BY <2>2 DEF TagAfter
  <2>8. source' \in Rows /\ worker' \in [Workers -> Tasks]
    BY <2>3, <2>5, <2>6, <2>7, SaveTypes DEF Tasks
  <2>9. item' \in [Contents -> Nat] /\ DeliveryTypes' BY <2>3, <2>4, AdmitTypes
  <2>10. target' \in [Targets -> TargetRows] /\ basis' \in [Targets -> SUBSET Contents]
    BY <1>8, <2>2, BasedTypes DEF Observe, TargetRows
  <2>11. UNCHANGED <<listing, runs, clock, changes, faults, seed>> BY <1>8 DEF Observe
  <2>12. QED BY <2>8, <2>9, <2>10, <2>11
<1>9. ASSUME NEW w \in Workers, Drain(w) PROVE TypeOK'
  <2> DEFINE cursor == worker[w].cursor
             pending == Backlog(w) \ cursor.seen
  <2>1. cursor \in Cursors BY <1>9, WorkerShape DEF Drain, Polling, Polls
  <2>2. PICK A \in Batches(pending) :
          /\ Save(w, cursor.seen \cup A, TailOf(pending \ A, cursor.tail), source.tag)
          /\ Admit(A, StampOf(w))
    BY <1>9 DEF Drain
  <2>3. cursor.tail \in [Contents -> Nat] /\ cursor.seen \in SUBSET Contents BY <2>1 DEF Cursors
  <2>4. TailOf(pending \ A, cursor.tail) \in [Contents -> Nat] BY <2>3, CursorTypes
  <2>5. cursor.seen \cup A \in SUBSET Contents
    BY <2>3, BatchSubset DEF Backlog, Waiting
  <2>6. source.tag \in SUBSET SUBSET Contents BY DEF Rows
  <2>7. source' \in Rows /\ worker' \in [Workers -> Tasks]
    BY <2>2, <2>4, <2>5, <2>6, SaveTypes DEF Tasks
  <2>8. item' \in [Contents -> Nat] /\ DeliveryTypes' BY <2>2, <2>3, AdmitTypes DEF StampOf
  <2>9. UNCHANGED <<listing, target, runs, clock, changes, faults, seed, basis>> BY <1>9 DEF Drain
  <2>10. QED BY <2>7, <2>8, <2>9
<1>10. ASSUME NEW w \in Workers, SaveRefused(w) \/ PollBreaks(w) PROVE TypeOK'
  <2>1. source' \in Rows BY <1>10, ReleasedTypes DEF SaveRefused, PollBreaks
  <2>2. worker' \in [Workers -> Tasks] BY <1>10 DEF SaveRefused, PollBreaks
  <2>3. faults' \in 0..MaxFaults BY <1>10 DEF SaveRefused, PollBreaks
  <2>4. UNCHANGED <<listing, target, item, delivery, runs, clock, changes, seed, basis>>
    BY <1>10 DEF SaveRefused, PollBreaks
  <2>5. QED BY <2>1, <2>2, <2>3, <2>4 DEF DeliveryTypes
<1>11. ASSUME NEW w \in Workers, NEW p \in Pairs, ClaimDelivery(w, p) PROVE TypeOK'
  <2>1. DeliveryTypes' BY <1>11 DEF ClaimDelivery, DeliveryTypes, DeliveryRows
  <2>2. delivery[p].tries \in Nat BY DEF DeliveryTypes, DeliveryRows
  <2>3. worker' \in [Workers -> Tasks] BY <1>11, <2>2 DEF ClaimDelivery, Tasks, Hands
  <2>4. UNCHANGED <<listing, source, target, item, runs, clock, changes, faults, seed, basis>>
    BY <1>11 DEF ClaimDelivery
  <2>5. QED BY <2>1, <2>3, <2>4
<1>12. ASSUME NEW w \in Workers,
              Route(w) \/ RouteRefused(w) \/ RoutePostponed(w) \/ RouteRaises(w) \/ FailDelivery(w)
       PROVE  TypeOK'
  <2>1. worker[w] \in Hands
    BY <1>12, WorkerShape DEF Route, RouteRefused, RoutePostponed, RouteRaises, FailDelivery, Handing
  <2>2. worker[w].job \in Pairs BY <2>1 DEF Hands
  <2>3. worker' \in [Workers -> Tasks]
    BY <1>12, <2>1 DEF Route, RouteRefused, RoutePostponed, RouteRaises, FailDelivery, Return, Tasks, Hands
  <2>4. DeliveryTypes' /\ runs' \in [Pairs -> Nat]
    <3>1. CASE HandOver(w, worker[w].job) BY <3>1, <2>2, HandOverTypes
    <3>2. CASE UNCHANGED <<delivery, runs>> BY <3>2 DEF DeliveryTypes
    <3>3. CASE RoutePostponed(w) BY <3>3, <2>2, FinishedTypes DEF RoutePostponed
    <3>4. CASE FailDelivery(w)
      <4> DEFINE p == worker[w].job
                 st == IF worker[w].tries + 1 >= AttemptLimit THEN "failed" ELSE "pending"
      <4>1. UNCHANGED runs BY <3>4 DEF FailDelivery
      <4>2. CASE delivery' = delivery BY <4>1, <4>2 DEF DeliveryTypes
      <4>3. CASE delivery' = [delivery EXCEPT ![p] = [st |-> st, owner |-> NoOne, live |-> FALSE,
                                                      tries |-> @.tries + 1]]
        <5>1. /\ delivery' = [q \in Pairs |-> delivery'[q]]
              /\ \A q \in Pairs : q # p => delivery'[q] = delivery[q]
              /\ delivery'[p] = [st |-> st, owner |-> NoOne, live |-> FALSE,
                                 tries |-> delivery[p].tries + 1]
          BY <4>3, <2>2 DEF DeliveryTypes
        <5>2. delivery[p].tries + 1 \in Nat /\ st \in {"failed", "pending"}
          BY <2>2 DEF DeliveryTypes, DeliveryRows
        <5>3. delivery'[p] \in DeliveryRows
          BY <5>1, <5>2 DEF DeliveryRows
        <5>4. \A q \in Pairs : delivery'[q] \in DeliveryRows
          BY <5>1, <5>3 DEF DeliveryTypes
        <5>5. \A q \in Pairs : delivery'[q].owner # NoOne => delivery'[q].st = "pending"
          BY <5>1 DEF DeliveryTypes
        <5>6. DeliveryTypes' BY <5>1, <5>4, <5>5, Zenon DEF DeliveryTypes
        <5>7. QED BY <4>1, <5>6
      <4>4. QED BY <3>4, <4>2, <4>3 DEF FailDelivery
    <3>5. QED BY <1>12, <3>1, <3>2, <3>3, <3>4 DEF Route, RouteRefused, RouteRaises
  <2>5. target' \in [Targets -> TargetRows]
    BY <1>12 DEF Route, RouteRefused, RoutePostponed, RouteRaises, FailDelivery, TargetRows
  <2>6. faults' \in 0..MaxFaults
    BY <1>12 DEF Route, RouteRefused, RoutePostponed, RouteRaises, FailDelivery
  <2>7. UNCHANGED <<listing, source, item, clock, changes, seed, basis>>
    BY <1>12 DEF Route, RouteRefused, RoutePostponed, RouteRaises, FailDelivery
  <2>8. QED BY <2>3, <2>4, <2>5, <2>6, <2>7
<1>13. ASSUME NEW w \in Workers, Crash(w) PROVE TypeOK'
  <2>1. worker' \in [Workers -> Tasks] BY <1>13 DEF Crash, Return
  <2>2. UNCHANGED <<listing, source, target, item, delivery, runs, clock, changes, seed, basis>> /\ Fault
    BY <1>13 DEF Crash
  <2>3. QED BY <2>1, <2>2 DEF DeliveryTypes
<1>14. ASSUME Tidy PROVE TypeOK'
  <2>1. source' \in Rows BY <1>14 DEF Tidy, SourceLeaseEnds, DeliveryLeaseEnds, Rows
  <2>2. DeliveryTypes'
    <3>1. CASE UNCHANGED delivery BY <3>1 DEF DeliveryTypes
    <3>2. ASSUME NEW p \in Pairs, DeliveryLeaseEnds(p) PROVE DeliveryTypes'
      BY <3>2 DEF DeliveryLeaseEnds, DeliveryTypes, DeliveryRows
    <3>3. QED BY <1>14, <3>1, <3>2 DEF Tidy, SourceLeaseEnds
  <2>3. faults' \in 0..MaxFaults BY <1>14 DEF Tidy, SourceLeaseEnds, DeliveryLeaseEnds
  <2>4. UNCHANGED <<listing, target, item, runs, worker, clock, changes, seed, basis>>
    BY <1>14 DEF Tidy, SourceLeaseEnds, DeliveryLeaseEnds
  <2>5. QED BY <2>1, <2>2, <2>3, <2>4
<1>15. CASE UNCHANGED vars
  BY <1>15 DEF TypeOK, vars
<1>16. QED
  BY <1>1, <1>2, <1>3, <1>4, <1>5, <1>6, <1>7, <1>8, <1>9, <1>10, <1>11, <1>12, <1>13,
     <1>14, <1>15, Steps

-----------------------------------------------------------------------------
(* What the steps do to the state the invariants relate.                   *)

\* The cursor, items and history stay, no watcher is turned on, and no delivery
\* is created or deleted.
Calm ==
  /\ source'.init = source.init /\ source'.seen = source.seen
  /\ source'.tail = source.tail /\ source'.tag = source.tag
  /\ UNCHANGED <<item, seed, basis>>
  /\ \A t \in Targets :
       /\ target'[t].baseline = target[t].baseline /\ target'[t].created = target[t].created
       /\ target'[t].st = target[t].st \/ (target[t].st = "on" /\ target'[t].st = "off")
  /\ \A p \in Pairs : delivery'[p].st = "none" <=> delivery[p].st = "none"

\* What a step may do to one delivery and the run of its dedupe key.
Moved(p) ==
  \/ delivery'[p].st = delivery[p].st /\ runs'[p] = runs[p]
  \/ /\ delivery[p].st = "pending" /\ delivery'[p].st \in {"pending", "cancelled", "failed"}
     /\ runs'[p] = runs[p]
  \/ /\ delivery[p].st = "pending" /\ delivery'[p].st = "routed"
     /\ runs'[p] = IF runs[p] = 0 THEN 1 ELSE runs[p]
  \/ delivery'[p].st = "none" /\ target'[p[2]].st = "gone" /\ runs'[p] = runs[p]
  \/ /\ delivery[p].st = "none" /\ delivery'[p].st = "pending"
     /\ On(p[2]) /\ runs'[p] = runs[p]

\* A step of a process that has claimed a delivery.
Hand(w) == \/ Route(w) \/ RouteRefused(w) \/ RoutePostponed(w)
           \/ RouteRaises(w) \/ FailDelivery(w)

\* A hand-over moves one pending delivery.
LEMMA HandOverMoves ==
  ASSUME TypeOK, NEW w \in Workers, NEW p \in Pairs, HandOver(w, p)
  PROVE  /\ \A q \in Pairs : q # p => delivery'[q] = delivery[q] /\ runs'[q] = runs[q]
         /\ delivery[p].st = "pending"
         /\ \/ delivery'[p].st = "cancelled" /\ runs'[p] = runs[p]
            \/ delivery'[p].st = "routed" /\ runs'[p] = IF runs[p] = 0 THEN 1 ELSE runs[p]
<1>1. runs \in [Pairs -> Nat] BY DEF TypeOK
<1>2. delivery[p].st = "pending" BY DEF HandOver, HoldsDelivery
<1>3. CASE On(p[2])
  <2>1. delivery' = Finished(p, "routed") BY <1>3 DEF HandOver
  <2>2. runs' = [runs EXCEPT ![p] = IF @ = 0 THEN 1 ELSE @] BY <1>3 DEF HandOver
  <2>3. \A q \in Pairs : q # p => runs'[q] = runs[q] BY <1>1, <2>2
  <2>4. runs'[p] = IF runs[p] = 0 THEN 1 ELSE runs[p] BY <1>1, <2>2
  <2>5. delivery'[p].st = "routed" /\ \A q \in Pairs : q # p => delivery'[q] = delivery[q]
    BY <2>1, FinishedSt
  <2>6. QED BY <1>2, <2>3, <2>4, <2>5
<1>4. CASE ~On(p[2])
  <2>1. delivery' = Finished(p, "cancelled") /\ UNCHANGED runs BY <1>4 DEF HandOver
  <2>2. delivery'[p].st = "cancelled" /\ \A q \in Pairs : q # p => delivery'[q] = delivery[q]
    BY <2>1, FinishedSt
  <2>3. QED BY <1>2, <2>1, <2>2
<1>5. QED BY <1>3, <1>4

\* Processes that hand over move deliveries that are pending.
LEMMA HandMoves ==
  ASSUME TypeOK, NEW w \in Workers, Hand(w)
  PROVE  \A q \in Pairs :
           \/ delivery'[q].st = delivery[q].st /\ runs'[q] = runs[q]
           \/ /\ delivery[q].st = "pending" /\ delivery'[q].st # "none" /\ Moved(q)
<1> DEFINE p == worker[w].job
<1>1. p \in Pairs
  BY WorkerShape DEF Hand, Route, RouteRefused, RoutePostponed, RouteRaises, FailDelivery,
                     Handing, Hands
<1> HIDE DEF p
<1>2. CASE HandOver(w, p)
  BY <1>1, <1>2, HandOverMoves DEF Moved
<1>3. CASE UNCHANGED <<delivery, runs>>
  BY <1>3
<1>4. CASE RoutePostponed(w)
  <2>1. delivery[p].st = "pending" /\ delivery' = Finished(p, "pending") /\ UNCHANGED runs
    BY <1>4 DEF RoutePostponed, HoldsDelivery, p
  <2>2. delivery'[p].st = "pending" /\ \A q \in Pairs : q # p => delivery'[q] = delivery[q]
    BY <1>1, <2>1, FinishedSt
  <2>3. QED BY <2>1, <2>2 DEF Moved
<1>5. CASE FailDelivery(w)
  <2> DEFINE st == IF worker[w].tries + 1 >= AttemptLimit THEN "failed" ELSE "pending"
  <2>1. UNCHANGED runs BY <1>5 DEF FailDelivery
  <2>2. CASE ~Fenced(w, p) BY <1>5, <2>1, <2>2 DEF FailDelivery, p
  <2>3. CASE Fenced(w, p)
    <3>1. delivery[p].st = "pending" BY <1>1, <2>3, ValueAssumption DEF TypeOK, Fenced
    <3>2. delivery' = [delivery EXCEPT ![p] = [st |-> st, owner |-> NoOne, live |-> FALSE,
                                               tries |-> @.tries + 1]]
      BY <1>5, <2>3 DEF FailDelivery, p
    <3>3. delivery'[p].st = st /\ \A q \in Pairs : q # p => delivery'[q] = delivery[q]
      BY <1>1, <3>2 DEF TypeOK
    <3>4. QED BY <2>1, <3>1, <3>3 DEF Moved
  <2>4. QED BY <2>2, <2>3
<1>6. QED
  BY <1>2, <1>3, <1>4, <1>5 DEF Hand, Route, RouteRefused, RouteRaises, p

\* Seven kinds of steps are not calm.
LEMMA CalmSteps ==
  ASSUME TypeOK, Next
  PROVE  \/ Calm
         \/ \E t \in Targets : Register(t) \/ Resume(t)
         \/ \E t \in Targets, collect \in BOOLEAN : Remove(t, collect)
         \/ \E w \in Workers : Seed(w) \/ NotModified(w) \/ Observe(w) \/ Drain(w)
<1>1. CASE \E c \in Contents : List(c) \/ Unlist(c)
  BY <1>1 DEF List, Unlist, history, Calm
<1>2. ASSUME NEW t \in Targets, Pause(t) PROVE Calm
  <2>1. UNCHANGED <<source, item, seed, basis>> BY <1>2 DEF Pause, history
  <2>2. \A u \in Targets :
          /\ target'[u].baseline = target[u].baseline /\ target'[u].created = target[u].created
          /\ target'[u].st = target[u].st \/ (target[u].st = "on" /\ target'[u].st = "off")
    BY <1>2 DEF Pause, TypeOK, On
  <2>3. \A n : [Absent EXCEPT !.st = "cancelled", !.tries = n].st = "cancelled" BY DEF Absent
  <2>4. \A p \in Pairs : delivery'[p].st = "none" <=> delivery[p].st = "none"
    BY <1>2, <2>3 DEF Pause
  <2>5. QED BY <2>1, <2>2, <2>4 DEF Calm
<1>3. ASSUME NEW w \in Workers,
             \/ ClaimSource(w) \/ Fetch(w) \/ SaveRefused(w) \/ PollBreaks(w) \/ Crash(w)
      PROVE  Calm
  <2>1. UNCHANGED <<target, item, delivery, seed, basis>>
    BY <1>3 DEF ClaimSource, Fetch, SaveRefused, PollBreaks, Crash, history
  <2>2. /\ source'.init = source.init /\ source'.seen = source.seen
        /\ source'.tail = source.tail /\ source'.tag = source.tag
    BY <1>3 DEF ClaimSource, Fetch, SaveRefused, PollBreaks, Crash, Released, TypeOK, Rows
  <2>3. QED BY <2>1, <2>2 DEF Calm
<1>4. ASSUME NEW w \in Workers, NEW p \in Pairs, ClaimDelivery(w, p) PROVE Calm
  <2>1. UNCHANGED <<source, target, item, seed, basis>> BY <1>4 DEF ClaimDelivery, history
  <2>2. \A q \in Pairs : delivery'[q].st = delivery[q].st BY <1>4 DEF ClaimDelivery, TypeOK
  <2>3. QED BY <2>1, <2>2 DEF Calm
<1>5. ASSUME NEW w \in Workers, Hand(w) PROVE Calm
  <2>1. UNCHANGED <<source, item, seed, basis>>
    BY <1>5 DEF Hand, Route, RouteRefused, RoutePostponed, RouteRaises, FailDelivery, history
  <2>2. \A u \in Targets :
          /\ target'[u].baseline = target[u].baseline /\ target'[u].created = target[u].created
          /\ target'[u].st = target[u].st \/ (target[u].st = "on" /\ target'[u].st = "off")
    BY <1>5 DEF Hand, Route, RouteRefused, RoutePostponed, RouteRaises, FailDelivery, TypeOK, On
  <2>3. \A p \in Pairs : delivery'[p].st = "none" <=> delivery[p].st = "none"
    BY <1>5, HandMoves
  <2>4. QED BY <2>1, <2>2, <2>3 DEF Calm
<1>6. ASSUME Tidy PROVE Calm
  <2>1. UNCHANGED <<target, item, seed, basis>>
    BY <1>6 DEF Tidy, SourceLeaseEnds, DeliveryLeaseEnds, history
  <2>2. /\ source'.init = source.init /\ source'.seen = source.seen
        /\ source'.tail = source.tail /\ source'.tag = source.tag
    BY <1>6 DEF Tidy, SourceLeaseEnds, DeliveryLeaseEnds, TypeOK, Rows
  <2>3. \A q \in Pairs : delivery'[q].st = delivery[q].st
    BY <1>6 DEF Tidy, SourceLeaseEnds, DeliveryLeaseEnds, TypeOK
  <2>4. QED BY <2>1, <2>2, <2>3 DEF Calm
<1>7. QED BY <1>1, <1>2, <1>3, <1>4, <1>5, <1>6, Steps DEF Hand

\* A process that polls afterwards is not the one that went idle.
LEMMA Returned ==
  ASSUME TypeOK, NEW w \in Workers, NEW v \in Workers,
         worker' = [worker EXCEPT ![w] = Idle], Polling(v)'
  PROVE  v # w /\ worker'[v] = worker[v]
<1>1. v # w
  <2>1. Idle.phase = "idle" BY DEF Idle
  <2>2. v = w => worker'[v] = Idle BY DEF TypeOK
  <2>3. QED BY <2>1, <2>2 DEF Polling
<1>2. QED BY <1>1 DEF TypeOK

\* Completing a poll frees the source.
LEMMA Saves ==
  ASSUME NEW w \in Workers, Seed(w) \/ NotModified(w) \/ Observe(w) \/ Drain(w)
  PROVE  /\ HoldsSource(w) /\ source'.owner = NoOne /\ source'.exists = source.exists
         /\ worker' = [worker EXCEPT ![w] = Idle]
<1>1. PICK seen, tail, tag : Save(w, seen, tail, tag)
  BY DEF Seed, NotModified, Observe, Drain
<1>2. QED BY <1>1 DEF Save

\* A poll that goes on has the cursor, the time and the token it had; one that
\* begins reads the cursor that is stored.
LEMMA PollSteps ==
  ASSUME TypeOK, Next, NEW v \in Workers, Polling(v)'
  PROVE  \/ /\ Polling(v)
            /\ worker'[v].cursor = worker[v].cursor /\ worker'[v].at = worker[v].at
            /\ source'.owner = v => source.owner = v
            /\ \/ Fetch(v)
               \/ worker'[v] = worker[v]
         \/ ClaimSource(v)
<1> USE DEF Polling
<1>1. CASE \E c \in Contents : List(c) \/ Unlist(c)
  BY <1>1 DEF List, Unlist
<1>2. ASSUME NEW t \in Targets, \/ Register(t) \/ Pause(t) \/ Resume(t)
                                \/ \E collect \in BOOLEAN : Remove(t, collect)
      PROVE  worker' = worker /\ (source'.owner = v => source.owner = v)
  <2>1. worker' = worker BY <1>2 DEF Register, Pause, Resume, Remove
  <2>2. Fresh.owner = NoOne BY DEF Fresh
  <2>3. source'.owner \in {source.owner, NoOne}
    BY <1>2, <2>2 DEF Register, Pause, Resume, Remove, TypeOK, Rows
  <2>4. QED BY <2>1, <2>3, ValueAssumption
<1>3. ASSUME NEW w \in Workers, ClaimSource(w), w # v
      PROVE  worker'[v] = worker[v] /\ (source'.owner = v => source.owner = v)
  BY <1>3 DEF ClaimSource, TypeOK, Rows
<1>4. ASSUME NEW w \in Workers, Fetch(w), w # v
      PROVE  worker'[v] = worker[v] /\ source' = source
  BY <1>4 DEF Fetch, TypeOK
<1>5. ASSUME Fetch(v)
      PROVE  /\ Polling(v) /\ worker'[v].cursor = worker[v].cursor
             /\ worker'[v].at = worker[v].at /\ source' = source
  <2>1. worker[v] \in Polls BY <1>5, WorkerShape DEF Fetch
  <2>2. QED BY <1>5, <2>1 DEF Fetch, TypeOK, Polls
<1>6. ASSUME NEW w \in Workers, Seed(w) \/ NotModified(w) \/ Observe(w) \/ Drain(w)
      PROVE  worker'[v] = worker[v] /\ (source'.owner = v => source.owner = v)
  BY <1>6, Saves, Returned, ValueAssumption
<1>7. ASSUME NEW w \in Workers, SaveRefused(w) \/ PollBreaks(w)
      PROVE  worker'[v] = worker[v] /\ (source'.owner = v => source.owner = v)
  <2>1. worker' = [worker EXCEPT ![w] = Idle] /\ source' = Released(w)
    BY <1>7 DEF SaveRefused, PollBreaks
  <2>2. source'.owner \in {source.owner, NoOne} BY <2>1 DEF Released, TypeOK, Rows
  <2>3. QED BY <2>1, <2>2, Returned, ValueAssumption
<1>8. ASSUME NEW w \in Workers, NEW p \in Pairs, ClaimDelivery(w, p)
      PROVE  worker'[v] = worker[v] /\ source' = source
  BY <1>8 DEF ClaimDelivery, TypeOK
<1>9. ASSUME NEW w \in Workers, Hand(w) \/ Crash(w)
      PROVE  worker'[v] = worker[v] /\ source' = source
  <2>1. source' = source
    BY <1>9 DEF Hand, Route, RouteRefused, RoutePostponed, RouteRaises, FailDelivery, Crash
  <2>2. CASE worker' = [worker EXCEPT ![w] = Idle] BY <2>1, <2>2, Returned
  <2>3. CASE RouteRaises(w)
    <3>1. worker[w] \in Hands BY <2>3, WorkerShape DEF RouteRaises, Handing
    <3>2. worker'[w].phase = "raised" BY <2>3, <3>1 DEF RouteRaises, Hands, TypeOK
    <3>3. v # w BY <3>2
    <3>4. QED BY <2>1, <2>3, <3>3 DEF RouteRaises, TypeOK
  <2>4. QED BY <1>9, <2>2, <2>3
              DEF Hand, Route, RouteRefused, RoutePostponed, FailDelivery, Crash, Return
<1>10. ASSUME Tidy PROVE worker' = worker /\ (source'.owner = v => source.owner = v)
  BY <1>10 DEF Tidy, SourceLeaseEnds, DeliveryLeaseEnds, TypeOK, Rows
<1>11. QED BY <1>1, <1>2, <1>3, <1>4, <1>5, <1>6, <1>7, <1>8, <1>9, <1>10, Steps DEF Hand

\* What a step may do to deliveries and runs.
LEMMA RunSteps ==
  ASSUME TypeOK, Next
  PROVE  /\ \A p \in Pairs : Moved(p)
         /\ \A t \in Targets : target[t].st = "gone" => target'[t].st = "gone"
<1>1. CASE \E c \in Contents : List(c) \/ Unlist(c)
  BY <1>1 DEF List, Unlist, Moved
<1>2. ASSUME NEW t \in Targets, Register(t) \/ Resume(t)
      PROVE  /\ UNCHANGED <<delivery, runs>>
             /\ \A u \in Targets : target[u].st = "gone" => target'[u].st = "gone"
  BY <1>2 DEF Register, Resume, TypeOK
<1>3. ASSUME NEW t \in Targets, Pause(t)
      PROVE  /\ \A p \in Pairs : Moved(p)
             /\ \A u \in Targets : target[u].st = "gone" => target'[u].st = "gone"
  <2>1. \A n : [Absent EXCEPT !.st = "cancelled", !.tries = n].st = "cancelled" BY DEF Absent
  <2>2. UNCHANGED runs BY <1>3 DEF Pause
  <2>3. \A p \in Pairs : Moved(p) BY <1>3, <2>1, <2>2 DEF Pause, Moved
  <2>4. QED BY <1>3, <2>3 DEF Pause, TypeOK, On
<1>4. ASSUME NEW t \in Targets, NEW collect \in BOOLEAN, Remove(t, collect)
      PROVE  /\ \A p \in Pairs : Moved(p)
             /\ \A u \in Targets : target[u].st = "gone" => target'[u].st = "gone"
  <2>1. Absent.st = "none" BY DEF Absent
  <2>2. target'[t].st = "gone" /\ \A u \in Targets : u # t => target'[u] = target[u]
    BY <1>4 DEF Remove, TypeOK
  <2>3. QED BY <1>4, <2>1, <2>2 DEF Remove, Moved
<1>5. ASSUME NEW w \in Workers, \/ ClaimSource(w) \/ Fetch(w) \/ Seed(w) \/ NotModified(w)
                                \/ SaveRefused(w) \/ PollBreaks(w) \/ Crash(w)
      PROVE  /\ UNCHANGED <<delivery, runs>>
             /\ \A u \in Targets : target[u].st = "gone" => target'[u].st = "gone"
  BY <1>5 DEF ClaimSource, Fetch, Seed, NotModified, SaveRefused, PollBreaks, Crash, Based, On
<1>6. ASSUME NEW w \in Workers, Observe(w) \/ Drain(w)
      PROVE  /\ \A p \in Pairs : Moved(p)
             /\ \A u \in Targets : target[u].st = "gone" => target'[u].st = "gone"
  <2>1. PICK A, at : Admit(A, at) BY <1>6 DEF Observe, Drain
  <2>2. Queued.st = "pending" BY DEF Queued, Absent
  <2>3. UNCHANGED runs BY <1>6 DEF Observe, Drain
  <2>4. \A p \in Pairs : Moved(p) BY <2>1, <2>2, <2>3 DEF Admit, Owed, Moved
  <2>5. QED BY <1>6, <2>4 DEF Observe, Drain, Based, On
<1>7. ASSUME NEW w \in Workers, NEW p \in Pairs, ClaimDelivery(w, p)
      PROVE  /\ \A q \in Pairs : Moved(q)
             /\ UNCHANGED target
  BY <1>7 DEF ClaimDelivery, Moved, TypeOK
<1>8. ASSUME NEW w \in Workers, Hand(w)
      PROVE  /\ \A p \in Pairs : Moved(p)
             /\ \A u \in Targets : target[u].st = "gone" => target'[u].st = "gone"
  <2>1. \A p \in Pairs : Moved(p) BY <1>8, HandMoves DEF Moved
  <2>2. \A u \in Targets : target[u].st = "gone" => target'[u].st = "gone"
    BY <1>8 DEF Hand, Route, RouteRefused, RoutePostponed, RouteRaises, FailDelivery, TypeOK, On
  <2>3. QED BY <2>1, <2>2
<1>9. ASSUME Tidy PROVE (\A p \in Pairs : Moved(p)) /\ UNCHANGED target
  BY <1>9 DEF Tidy, SourceLeaseEnds, DeliveryLeaseEnds, Moved, TypeOK
<1>10. (\A p \in Pairs : Moved(p))
         /\ \A u \in Targets : target[u].st = "gone" => target'[u].st = "gone"
  <2>1. UNCHANGED <<delivery, runs>> => \A p \in Pairs : Moved(p) BY DEF Moved
  <2>2. QED
    BY <1>1, <1>2, <1>3, <1>4, <1>5, <1>6, <1>7, <1>8, <1>9, <2>1, Steps
       DEF Hand, List, Unlist
<1>11. QED BY <1>10

-----------------------------------------------------------------------------
(* What the completion of a poll writes.                                   *)

\* A poll that completes saves over the cursor it read, and began after all
\* that is recorded.
LEMMA SaverCurrent ==
  ASSUME TypeOK, HolderCurrent, NEW w \in Workers,
         Seed(w) \/ NotModified(w) \/ Observe(w) \/ Drain(w)
  PROVE  /\ Polling(w) /\ worker[w] \in Polls
         /\ worker[w].at \in Nat /\ worker[w].found \in SUBSET Contents
         /\ worker[w].cursor = Cursor(source)
         /\ worker[w].cursor.init = source.init /\ worker[w].cursor.seen = source.seen
         /\ worker[w].cursor.tail = source.tail /\ worker[w].cursor.tag = source.tag
         /\ \A t \in Targets : target[t].baseline < worker[w].at
         /\ \A c \in Contents : item[c] < worker[w].at /\ source.tail[c] < worker[w].at
<1>1. Polling(w) BY DEF Polling, Seed, NotModified, Observe, Drain
<1>2. source.owner = w BY Saves DEF HoldsSource
<1>3. worker[w].cursor = Cursor(source) BY <1>1, <1>2 DEF HolderCurrent
<1>4. worker[w] \in Polls BY <1>1, WorkerShape
<1>5. /\ \A t \in Targets : target[t].baseline < worker[w].at
      /\ \A c \in Contents : item[c] < worker[w].at /\ source.tail[c] < worker[w].at
  BY <1>1, <1>2 DEF HolderCurrent
<1>6. /\ worker[w].cursor.init = source.init /\ worker[w].cursor.seen = source.seen
      /\ worker[w].cursor.tail = source.tail /\ worker[w].cursor.tag = source.tag
  BY <1>3 DEF Cursor
<1>7. worker[w].at \in Nat /\ worker[w].found \in SUBSET Contents BY <1>4 DEF Polls
<1>8. QED BY <1>1, <1>3, <1>4, <1>5, <1>6, <1>7

\* Watchers that get their baseline now, and what it leaves alone.
NewlyBased(t) == On(t) /\ target[t].baseline = 0
LEMMA BasedEffect ==
  ASSUME TypeOK, NEW at, NEW found, Based(at, found)
  PROVE  \A t \in Targets :
           /\ target'[t].st = target[t].st /\ target'[t].created = target[t].created
           /\ NewlyBased(t) => target'[t].baseline = at /\ basis'[t] = found
           /\ ~NewlyBased(t) => /\ target'[t].baseline = target[t].baseline
                                /\ basis'[t] = basis[t]
BY DEF TypeOK, Based, NewlyBased

\* A first observation.
LEMMA SeedEffect ==
  ASSUME TypeOK, HolderCurrent, NEW w \in Workers, Seed(w)
  PROVE  /\ ~source.init /\ source'.init /\ source'.seen = worker[w].found
         /\ source'.tail = NoTail /\ source'.tag = {worker[w].found}
         /\ seed' = worker[w].found /\ Based(worker[w].at, worker[w].found)
         /\ UNCHANGED <<item, delivery, clock>>
BY SaverCurrent DEF Seed, Save

\* An answer that nothing was modified.
LEMMA NotModifiedEffect ==
  ASSUME TypeOK, HolderCurrent, PollShape, NEW w \in Workers, NotModified(w)
  PROVE  /\ source.init /\ source'.init /\ source'.seen = source.seen
         /\ source'.tail = source.tail /\ source'.tag = source.tag
         /\ source.tag = {worker[w].found} /\ source.tail = NoTail
         /\ Based(worker[w].at, worker[w].found)
         /\ UNCHANGED <<item, delivery, clock, seed>>
<1>1. worker[w].phase = "unmodified" BY DEF NotModified
<1>2. source.init /\ source.tag = {worker[w].found} BY <1>1, SaverCurrent DEF PollShape
<1>3. Waiting(worker[w].cursor) = {} BY <1>1 DEF PollShape, Backlog
<1>4. source.tail = NoTail BY <1>3, SaverCurrent DEF Waiting, NoTail, TypeOK, Rows
<1>5. Save(w, worker[w].cursor.seen, worker[w].cursor.tail, worker[w].cursor.tag)
  BY DEF NotModified
<1>6. /\ source'.init /\ source'.seen = source.seen
      /\ source'.tail = source.tail /\ source'.tag = source.tag
  BY <1>5, SaverCurrent DEF Save
<1>7. QED BY <1>2, <1>4, <1>6 DEF NotModified

\* An observation that admits the contents A of what is new and keeps the rest.
LEMMA ObserveEffect ==
  ASSUME TypeOK, HolderCurrent, PollShape, NEW w \in Workers, Observe(w)
  PROVE  /\ source.init /\ source'.init /\ source.tail = NoTail
         /\ \E A \in SUBSET (worker[w].found \ source.seen) :
              LET rest == (worker[w].found \ source.seen) \ A IN
              /\ source'.seen = source.seen \cup A
              /\ \A c \in Contents : source'.tail[c] = IF c \in rest THEN worker[w].at ELSE 0
              /\ source'.tag = IF rest = {} THEN {worker[w].found} ELSE {}
              /\ Admit(A, [c \in Contents |-> worker[w].at])
         /\ Based(worker[w].at, worker[w].found)
         /\ UNCHANGED <<clock, seed>>
<1> DEFINE pending == worker[w].found \ worker[w].cursor.seen
           time == [c \in Contents |-> worker[w].at]
<1>1. worker[w].phase = "fetched" /\ source.init BY SaverCurrent DEF Observe
<1>2. source.tail = NoTail
  <2>1. Waiting(worker[w].cursor) = {} BY <1>1 DEF PollShape, Backlog
  <2>2. QED BY <2>1, SaverCurrent DEF Waiting, NoTail, TypeOK, Rows
<1>3. PICK A \in Batches(pending) :
        /\ Save(w, SeenAfter(worker[w].cursor.seen, A, worker[w].found),
                TailOf(pending \ A, time), TagAfter(pending \ A, worker[w].found))
        /\ Admit(A, time)
  BY DEF Observe
<1>4. pending = worker[w].found \ source.seen BY SaverCurrent
<1>5. A \in SUBSET pending BY BatchSubset
<1>6. source'.init /\ source'.seen = source.seen \cup A
  BY <1>3, SaverCurrent DEF Save, SeenAfter
<1>7. \A c \in Contents : source'.tail[c] = IF c \in pending \ A THEN worker[w].at ELSE 0
  BY <1>3 DEF Save, TailOf
<1>8. source'.tag = IF pending \ A = {} THEN {worker[w].found} ELSE {}
  BY <1>3 DEF Save, TagAfter
<1>9. Based(worker[w].at, worker[w].found) /\ UNCHANGED <<clock, seed>> BY DEF Observe, counters
<1>10. QED BY <1>1, <1>2, <1>3, <1>4, <1>5, <1>6, <1>7, <1>8, <1>9

\* A tail of which the contents A are admitted.
LEMMA DrainEffect ==
  ASSUME TypeOK, HolderCurrent, NEW w \in Workers, Drain(w)
  PROVE  /\ source'.init
         /\ \E c \in Contents : source.tail[c] # 0
         /\ \E A \in SUBSET (Waiting(source) \ source.seen) :
              LET rest == (Waiting(source) \ source.seen) \ A IN
              /\ source'.seen = source.seen \cup A
              /\ \A c \in Contents : source'.tail[c] = IF c \in rest THEN source.tail[c] ELSE 0
              /\ source'.tag = source.tag
              /\ Admit(A, source.tail)
         /\ UNCHANGED <<target, clock, seed, basis>>
<1> DEFINE cursor == worker[w].cursor
           pending == Backlog(w) \ cursor.seen
<1>1. PICK A \in Batches(pending) :
        /\ Save(w, cursor.seen \cup A, TailOf(pending \ A, cursor.tail), source.tag)
        /\ Admit(A, StampOf(w))
  BY DEF Drain
<1>2. Backlog(w) = Waiting(source) BY SaverCurrent DEF Backlog, Waiting
<1>3. pending = Waiting(source) \ source.seen BY <1>2, SaverCurrent
<1>4. A \in SUBSET pending BY BatchSubset
<1>5. source'.init /\ source'.seen = source.seen \cup A /\ source'.tag = source.tag
  BY <1>1, SaverCurrent DEF Save
<1>6. \A c \in Contents : source'.tail[c] = IF c \in pending \ A THEN source.tail[c] ELSE 0
  BY <1>1, SaverCurrent DEF Save, TailOf
<1>7. Admit(A, source.tail) BY <1>1, SaverCurrent DEF StampOf
<1>8. \E c \in Contents : source.tail[c] # 0 BY <1>2 DEF Drain, Waiting
<1>9. UNCHANGED <<target, clock, seed, basis>> BY DEF Drain, history
<1>10. QED BY <1>3, <1>4, <1>5, <1>6, <1>7, <1>8, <1>9

\* What admitting the contents A, which are not stored yet, writes.
LEMMA AdmitEffect ==
  ASSUME TypeOK, NEW A \in SUBSET Contents, NEW at \in [Contents -> Nat], Admit(A, at),
         \A c \in A : item[c] = 0
  PROVE  /\ \A c \in Contents : item'[c] = IF c \in A THEN at[c] ELSE item[c]
         /\ \A c \in Contents, t \in Targets :
              IF c \in A /\ delivery[<<c, t>>].st = "none" /\ Owed(t, at[c])
                THEN delivery'[<<c, t>>].st = "pending"
                ELSE delivery'[<<c, t>>] = delivery[<<c, t>>]
<1>1. \A c \in Contents : item'[c] = IF c \in A THEN at[c] ELSE item[c]
  BY DEF Admit, TypeOK
<1>2. Queued.st = "pending" BY DEF Queued, Absent
<1>3. ASSUME NEW c \in Contents, NEW t \in Targets
      PROVE  IF c \in A /\ delivery[<<c, t>>].st = "none" /\ Owed(t, at[c])
               THEN delivery'[<<c, t>>].st = "pending"
               ELSE delivery'[<<c, t>>] = delivery[<<c, t>>]
  <2>1. <<c, t>> \in Pairs BY DEF Pairs
  <2>2. \A p \in Pairs : delivery'[p] =
          IF p[1] \in A /\ delivery[p].st = "none" /\ Owed(p[2], item'[p[1]])
            THEN Queued ELSE delivery[p]
    BY DEF Admit
  <2>3. delivery'[<<c, t>>] = IF c \in A /\ delivery[<<c, t>>].st = "none" /\ Owed(t, item'[c])
                                THEN Queued ELSE delivery[<<c, t>>]
    BY <2>1, <2>2
  <2>4. QED BY <1>1, <1>2, <2>3
<1>4. QED BY <1>1, <1>3

-----------------------------------------------------------------------------
(* Every part of the invariant is kept by every step.                      *)

\* The initial state satisfies the invariant.
LEMMA WatchInit == Init => WatchInv
<1> SUFFICES ASSUME Init PROVE WatchInv
  OBVIOUS
<1>1. TypeOK BY TypeInit
<1>2. \A w \in Workers : worker[w].phase = "idle" /\ ~Polling(w)
  BY DEF Init, Idle, Polling
<1>3. PollShape /\ HolderCurrent BY <1>2 DEF PollShape, HolderCurrent
<1>4. source.seen = {} /\ source.tail = NoTail /\ source.tag = {} BY DEF Init, Fresh
<1>5. \A c \in Contents : source.tail[c] = 0 BY <1>4 DEF NoTail
<1>6. \A p \in Pairs : delivery[p].st = "none" BY DEF Init, Absent
<1>7. Clocked BY <1>2, <1>5 DEF Init, Clocked
<1>8. Known /\ BasisKnown BY <1>4 DEF Init, Known, BasisKnown
<1>9. Watchers BY <1>6 DEF Init, Watchers, Pairs
<1>10. OpenMeansUnrun /\ ClosedAsItWent BY <1>6 DEF Init, OpenMeansUnrun, ClosedAsItWent
<1>11. DiscoveryKept BY <1>4, <1>5 DEF DiscoveryKept, Waiting
<1>12. OwedMeansQueued BY DEF Init, OwedMeansQueued
<1>13. QED BY <1>1, <1>3, <1>7, <1>8, <1>9, <1>10, <1>11, <1>12 DEF WatchInv

\* What a poll found belongs to the cursor it read.
LEMMA PollShapeStep ==
  ASSUME WatchInv, Next PROVE PollShape'
<1>1. TypeOK /\ PollShape BY DEF WatchInv
<1>2. SUFFICES ASSUME NEW v \in Workers, worker'[v].phase \in {"fetched", "unmodified"}
               PROVE  /\ Backlog(v)' = {}
                      /\ worker'[v].phase = "unmodified" =>
                           /\ worker'[v].cursor.init
                           /\ worker'[v].cursor.tag = {worker'[v].found}
  BY DEF PollShape
<1>3. Polling(v)' BY <1>2 DEF Polling
<1>4. CASE ClaimSource(v)
  BY <1>1, <1>2, <1>4 DEF ClaimSource, TypeOK
<1>5. CASE worker'[v] = worker[v]
  BY <1>1, <1>2, <1>5 DEF PollShape, Backlog, Waiting
<1>6. CASE Fetch(v)
  <2>1. worker[v] \in Polls BY <1>1, <1>6, WorkerShape DEF Fetch, Polling
  <2>2. Backlog(v) = {} BY <1>6 DEF Fetch
  <2>3. worker'[v].cursor = worker[v].cursor BY <1>1, <2>1, <1>6 DEF Fetch, TypeOK, Polls
  <2>4. Backlog(v)' = {} BY <2>2, <2>3 DEF Backlog, Waiting
  <2>5. worker'[v].phase = "unmodified" =>
          worker[v].cursor.init /\ worker[v].cursor.tag = {worker'[v].found}
    BY <1>1, <2>1, <1>6 DEF Fetch, TypeOK, Polls
  <2>6. QED BY <2>3, <2>4, <2>5
<1>7. QED BY <1>1, <1>3, <1>4, <1>5, <1>6, PollSteps

\* Recorded times stay behind the clock.
LEMMA ClockedStep ==
  ASSUME WatchInv, Next PROVE Clocked'
<1>1. TypeOK /\ PollShape /\ HolderCurrent /\ Clocked /\ Known /\ DiscoveryKept
  BY DEF WatchInv
<1>2. clock \in Nat /\ clock' \in Nat /\ clock <= clock'
  <2>1. clock' = Later \/ clock' = clock
    BY <1>1, Steps DEF List, Unlist, Register, Resume, Pause, Remove, ClaimSource, Fetch, Seed,
       NotModified, Observe, Drain, SaveRefused, PollBreaks, ClaimDelivery, Route, RouteRefused,
       RoutePostponed, RouteRaises, FailDelivery, Crash, Tidy, SourceLeaseEnds, DeliveryLeaseEnds
  <2>2. QED BY <1>1, <2>1, LaterNat DEF TypeOK
<1>3. \A w \in Workers : Polling(w)' => worker'[w].at <= clock'
  <2> SUFFICES ASSUME NEW w \in Workers, Polling(w)' PROVE worker'[w].at <= clock'
    OBVIOUS
  <2>1. CASE ClaimSource(w) BY <1>1, <2>1, LaterNat DEF ClaimSource, TypeOK
  <2>2. CASE Polling(w) /\ worker'[w].at = worker[w].at
    <3>1. worker[w].at \in Nat BY <1>1, <2>2, WorkerShape DEF Polls
    <3>2. QED BY <1>1, <1>2, <2>2, <3>1 DEF Clocked
  <2>3. QED BY <1>1, <2>1, <2>2, PollSteps
<1>4. /\ \A t \in Targets : target[t].baseline \in Nat
      /\ \A c \in Contents : item[c] \in Nat /\ source.tail[c] \in Nat
  BY <1>1 DEF TypeOK, Rows
<1>5. /\ \A t \in Targets : target'[t].baseline <= clock'
      /\ \A c \in Contents : item'[c] <= clock' /\ source'.tail[c] <= clock'
  <2>1. CASE Calm BY <1>1, <1>2, <1>4, <2>1 DEF Calm, Clocked
  <2>2. ASSUME NEW t \in Targets, Register(t) \/ Resume(t) PROVE <1>5!1 /\ <1>5!2
    <3>1. source'.tail = source.tail /\ item' = item
      BY <1>1, <2>2 DEF Register, Resume, TypeOK, Rows
    <3>2. \A u \in Targets : target'[u].baseline \in {0, target[u].baseline}
      BY <1>1, <2>2 DEF Register, Resume, TypeOK
    <3>3. QED BY <1>1, <1>2, <1>4, <3>1, <3>2 DEF Clocked
  <2>3. ASSUME NEW t \in Targets, NEW collect \in BOOLEAN, Remove(t, collect)
        PROVE  <1>5!1 /\ <1>5!2
    <3>1. \A u \in Targets : target'[u].baseline \in {0, target[u].baseline}
      BY <1>1, <2>3 DEF Remove, TypeOK
    <3>2. \A c \in Contents : Fresh.tail[c] = 0 BY DEF Fresh, NoTail
    <3>3. \A c \in Contents : item'[c] \in {0, item[c]} /\ source'.tail[c] \in {0, source.tail[c]}
      BY <2>3, <3>2 DEF Remove
    <3>4. QED BY <1>1, <1>2, <1>4, <3>1, <3>3 DEF Clocked
  <2>4. ASSUME NEW w \in Workers, Seed(w) \/ NotModified(w) \/ Observe(w) \/ Drain(w)
        PROVE  <1>5!1 /\ <1>5!2
    <3>1. worker[w].at \in Nat /\ worker[w].at <= clock BY <1>1, <2>4, SaverCurrent DEF Clocked
    <3>2. \A t \in Targets : target'[t].baseline \in {worker[w].at, target[t].baseline}
      <4>1. CASE Drain(w) BY <4>1 DEF Drain
      <4>2. CASE Based(worker[w].at, worker[w].found) BY <1>1, <4>2, BasedEffect
      <4>3. QED BY <2>4, <4>1, <4>2 DEF Seed, NotModified, Observe
    <3>3. \A c \in Contents : /\ item'[c] \in {worker[w].at, item[c], source.tail[c]}
                              /\ source'.tail[c] \in {0, worker[w].at, source.tail[c]}
      <4>1. CASE Seed(w) BY <1>1, <4>1, SeedEffect DEF NoTail
      <4>2. CASE NotModified(w) BY <1>1, <4>2, NotModifiedEffect
      <4>3. CASE Observe(w)
        <5>1. \A c \in Contents : source'.tail[c] \in {0, worker[w].at}
          BY <1>1, <4>3, ObserveEffect
        <5>2. \A c \in Contents : item'[c] \in {worker[w].at, item[c]}
          BY <4>3 DEF Observe, Admit
        <5>3. QED BY <5>1, <5>2
      <4>4. CASE Drain(w)
        <5>1. \A c \in Contents : source'.tail[c] \in {0, source.tail[c]}
          BY <1>1, <4>4, DrainEffect
        <5>2. PICK A : Admit(A, source.tail) BY <1>1, <4>4, DrainEffect
        <5>3. \A c \in Contents : item'[c] \in {source.tail[c], item[c]}
          BY <5>2 DEF Admit
        <5>4. QED BY <5>1, <5>3
      <4>5. QED BY <2>4, <4>1, <4>2, <4>3, <4>4
    <3>4. QED BY <1>1, <1>2, <1>4, <3>1, <3>2, <3>3 DEF Clocked
  <2>5. QED BY <1>1, <2>1, <2>2, <2>3, <2>4, CalmSteps
<1>6. QED BY <1>3, <1>5 DEF Clocked

\* The poll that holds the source is the one that read what is stored.
LEMMA HolderStep ==
  ASSUME WatchInv, Next PROVE HolderCurrent'
<1>1. TypeOK /\ HolderCurrent /\ Clocked BY DEF WatchInv
<1>2. SUFFICES ASSUME NEW v \in Workers, Polling(v)', source'.owner = v
               PROVE  /\ worker'[v].cursor = Cursor(source')
                      /\ \A t \in Targets : target'[t].baseline < worker'[v].at
                      /\ \A c \in Contents : /\ item'[c] < worker'[v].at
                                             /\ source'.tail[c] < worker'[v].at
  BY DEF HolderCurrent, Cursor
<1>3. CASE ClaimSource(v)
  <2>1. worker'[v].cursor = Cursor(source) /\ worker'[v].at = Later
    BY <1>1, <1>3 DEF ClaimSource, TypeOK
  <2>2. Cursor(source') = Cursor(source) /\ source'.tail = source.tail
    BY <1>1, <1>3 DEF ClaimSource, Cursor, TypeOK, Rows
  <2>3. UNCHANGED <<target, item>> BY <1>3 DEF ClaimSource
  <2>4. QED BY <1>1, <2>1, <2>2, <2>3, LaterThanAll
<1>4. CASE /\ Polling(v) /\ source.owner = v
           /\ worker'[v].cursor = worker[v].cursor /\ worker'[v].at = worker[v].at
  <2>1. /\ worker'[v].cursor = Cursor(source)
        /\ \A t \in Targets : target[t].baseline < worker'[v].at
        /\ \A c \in Contents : item[c] < worker'[v].at /\ source.tail[c] < worker'[v].at
    BY <1>1, <1>4 DEF HolderCurrent
  <2>2. CASE Calm
    BY <2>1, <2>2 DEF Calm, Cursor
  <2>3. ASSUME NEW t \in Targets, Register(t) \/ Resume(t)
        PROVE  /\ Cursor(source') = Cursor(source) /\ source'.tail = source.tail /\ item' = item
               /\ \A u \in Targets : target'[u].baseline < worker'[v].at
    <3>1. worker[v].at \in Nat BY <1>1, <1>4, WorkerShape DEF Polls
    <3>2. \A u \in Targets : target'[u].baseline \in {0, target[u].baseline}
      BY <1>1, <2>3 DEF Register, Resume, TypeOK
    <3>3. \A u \in Targets : target[u].baseline \in Nat BY <1>1 DEF TypeOK
    <3>4. \A u \in Targets : target'[u].baseline < worker'[v].at
      BY <1>4, <2>1, <3>1, <3>2, <3>3
    <3>5. QED BY <1>1, <2>3, <3>4 DEF Register, Resume, Cursor, TypeOK, Rows
  <2>4. ASSUME NEW t \in Targets, NEW collect \in BOOLEAN, Remove(t, collect)
        PROVE  /\ source' = source /\ item' = item
               /\ \A u \in Targets : target'[u].baseline < worker'[v].at
    <3>1. worker[v].at \in Nat BY <1>1, <1>4, WorkerShape DEF Polls
    <3>2. \A u \in Targets : target'[u].baseline \in {0, target[u].baseline}
      BY <1>1, <2>4 DEF Remove, TypeOK
    <3>3. \A u \in Targets : target[u].baseline \in Nat BY <1>1 DEF TypeOK
    <3>4. \A u \in Targets : target'[u].baseline < worker'[v].at
      BY <1>4, <2>1, <3>1, <3>2, <3>3
    <3>5. Fresh.owner = NoOne BY DEF Fresh
    <3>6. source' = source /\ item' = item BY <1>2, <2>4, <3>5, ValueAssumption DEF Remove
    <3>7. QED BY <3>4, <3>6
  <2>5. ASSUME NEW w \in Workers, Seed(w) \/ NotModified(w) \/ Observe(w) \/ Drain(w)
        PROVE  FALSE
    BY <1>2, <2>5, Saves, ValueAssumption
  <2>6. QED BY <1>1, <2>1, <2>2, <2>3, <2>4, <2>5, CalmSteps
<1>5. QED BY <1>1, <1>2, <1>3, <1>4, PollSteps

\* Registering or resuming a watcher starts it without a baseline and leaves
\* the cursor, the items and the deliveries.
LEMMA RegisterEffect ==
  ASSUME TypeOK, NEW t \in Targets, Register(t) \/ Resume(t)
  PROVE  /\ source'.init = source.init /\ source'.seen = source.seen
         /\ source'.tail = source.tail /\ source'.tag = source.tag
         /\ UNCHANGED <<item, delivery, runs, seed>>
         /\ target[t].st \in {"none", "off"} /\ target'[t].st = "on" /\ target'[t].baseline = 0
         /\ \A u \in Targets : u # t => target'[u] = target[u] /\ basis'[u] = basis[u]
<1>1. /\ source'.init = source.init /\ source'.seen = source.seen
      /\ source'.tail = source.tail /\ source'.tag = source.tag
  BY DEF Register, Resume, TypeOK, Rows
<1>2. UNCHANGED <<item, delivery, runs, seed>> BY DEF Register, Resume, history
<1>3. /\ target[t].st \in {"none", "off"} /\ target'[t].st = "on" /\ target'[t].baseline = 0
      /\ \A u \in Targets : u # t => target'[u] = target[u]
  BY DEF Register, Resume, TypeOK
<1>4. \A u \in Targets : u # t => basis'[u] = basis[u] BY DEF Register, Resume, TypeOK, history
<1>5. QED BY <1>1, <1>2, <1>3, <1>4

\* Removing a watcher deletes its deliveries, and the source and its items if
\* no other watcher is left.
LEMMA RemoveEffect ==
  ASSUME TypeOK, Watchers, NEW t \in Targets, NEW collect \in BOOLEAN, Remove(t, collect)
  PROVE  /\ target'[t].st = "gone" /\ target'[t].baseline = 0
         /\ \A u \in Targets : u # t => target'[u] = target[u] /\ basis'[u] = basis[u]
         /\ \A c \in Contents, u \in Targets : u # t => delivery'[<<c, u>>] = delivery[<<c, u>>]
         /\ \A c \in Contents : delivery'[<<c, t>>].st = "none"
         /\ \/ UNCHANGED <<source, item, seed>>
            \/ /\ ~source'.init /\ source'.seen = {} /\ source'.tail = NoTail /\ source'.tag = {}
               /\ ~source'.exists
               /\ \A c \in Contents : item'[c] = 0
               /\ \A u \in Targets : target'[u].baseline = 0
<1>1. /\ target'[t].st = "gone" /\ target'[t].baseline = 0
      /\ \A u \in Targets : u # t => target'[u] = target[u] /\ basis'[u] = basis[u]
  BY DEF Remove, TypeOK
<1>2. Absent.st = "none" BY DEF Absent
<1>3. /\ \A c \in Contents, u \in Targets : u # t => delivery'[<<c, u>>] = delivery[<<c, u>>]
      /\ \A c \in Contents : delivery'[<<c, t>>].st = "none"
  BY <1>2 DEF Remove, Pairs
<1>4. \/ UNCHANGED <<source, item, seed>>
      \/ /\ source' = Fresh /\ \A c \in Contents : item'[c] = 0
         /\ \A u \in Targets \ {t} : target[u].st \notin {"on", "off"}
  BY DEF Remove
<1>5. \A u \in Targets : target[u].st \notin {"on", "off"} => target[u].baseline = 0
  BY DEF TypeOK, Watchers
<1>6. ~Fresh.init /\ Fresh.seen = {} /\ Fresh.tail = NoTail /\ Fresh.tag = {} /\ ~Fresh.exists
  BY DEF Fresh
<1>7. QED BY <1>1, <1>3, <1>4, <1>5, <1>6

\* What an observation and a drain admit was not stored before.
LEMMA AdmitsNew ==
  ASSUME TypeOK, Known, NEW A, \A c \in A : c \in Contents /\ c \notin source.seen
  PROVE  \A c \in A : item[c] = 0
BY DEF Known

\* Items are known.
LEMMA KnownStep ==
  ASSUME WatchInv, Next PROVE Known'
<1>1. TypeOK /\ PollShape /\ HolderCurrent /\ Known /\ DiscoveryKept /\ Watchers
  BY DEF WatchInv
<1>2. CASE Calm BY <1>1, <1>2 DEF Known, Calm
<1>3. ASSUME NEW t \in Targets, Register(t) \/ Resume(t) PROVE Known'
  BY <1>1, <1>3, RegisterEffect DEF Known
<1>4. ASSUME NEW t \in Targets, NEW collect \in BOOLEAN, Remove(t, collect) PROVE Known'
  BY <1>1, <1>4, RemoveEffect DEF Known
<1>5. ASSUME NEW w \in Workers, Seed(w) PROVE Known'
  BY <1>1, <1>5, SeedEffect DEF Known, DiscoveryKept
<1>6. ASSUME NEW w \in Workers, NotModified(w) PROVE Known'
  BY <1>1, <1>6, NotModifiedEffect DEF Known
<1>7. ASSUME NEW w \in Workers, Observe(w) PROVE Known'
  <2>1. PICK A \in SUBSET (worker[w].found \ source.seen) :
          /\ source'.seen = source.seen \cup A
          /\ Admit(A, [c \in Contents |-> worker[w].at])
    BY <1>1, <1>7, ObserveEffect
  <2>2. \A c \in Contents : item'[c] # 0 => item[c] # 0 \/ c \in A BY <2>1 DEF Admit
  <2>3. source'.init BY <1>1, <1>7, ObserveEffect
  <2>4. QED BY <1>1, <2>1, <2>2, <2>3 DEF Known
<1>8. ASSUME NEW w \in Workers, Drain(w) PROVE Known'
  <2>1. PICK A \in SUBSET (Waiting(source) \ source.seen) :
          /\ source'.seen = source.seen \cup A
          /\ Admit(A, source.tail)
    BY <1>1, <1>8, DrainEffect
  <2>2. \A c \in Contents : item'[c] # 0 => item[c] # 0 \/ c \in A BY <2>1 DEF Admit
  <2>3. source'.init BY <1>1, <1>8, DrainEffect
  <2>4. QED BY <1>1, <2>1, <2>2, <2>3 DEF Known
<1>9. QED BY <1>1, <1>2, <1>3, <1>4, <1>5, <1>6, <1>7, <1>8, CalmSteps

\* A content becomes known when it is stored or with the first observation.
LEMMA DiscoveryStep ==
  ASSUME WatchInv, Next PROVE DiscoveryKept'
<1>1. TypeOK /\ PollShape /\ HolderCurrent /\ Known /\ DiscoveryKept /\ Watchers
  BY DEF WatchInv
<1>2. \A c \in Contents : c \in Waiting(source) <=> source.tail[c] # 0 BY DEF Waiting
<1>3. \A c \in Contents : c \in Waiting(source)' <=> source'.tail[c] # 0 BY DEF Waiting
<1>4. Waiting(source) \subseteq Contents /\ Waiting(source)' \subseteq Contents BY DEF Waiting
<1>5. CASE Calm BY <1>1, <1>2, <1>3, <1>4, <1>5 DEF DiscoveryKept, Calm
<1>6. ASSUME NEW t \in Targets, Register(t) \/ Resume(t) PROVE DiscoveryKept'
  BY <1>1, <1>2, <1>3, <1>4, <1>6, RegisterEffect DEF DiscoveryKept
<1>7. ASSUME NEW t \in Targets, NEW collect \in BOOLEAN, Remove(t, collect) PROVE DiscoveryKept'
  BY <1>1, <1>2, <1>3, <1>4, <1>7, RemoveEffect DEF DiscoveryKept, NoTail
<1>8. ASSUME NEW w \in Workers, Seed(w) PROVE DiscoveryKept'
  BY <1>1, <1>3, <1>4, <1>8, SeedEffect DEF DiscoveryKept, NoTail
<1>9. ASSUME NEW w \in Workers, NotModified(w) PROVE DiscoveryKept'
  BY <1>1, <1>2, <1>3, <1>4, <1>9, NotModifiedEffect DEF DiscoveryKept
<1>10. ASSUME NEW w \in Workers, Observe(w) PROVE DiscoveryKept'
  <2> DEFINE new == worker[w].found \ source.seen
             time == [c \in Contents |-> worker[w].at]
  <2>1. PICK A \in SUBSET new :
          /\ source'.seen = source.seen \cup A
          /\ \A c \in Contents : source'.tail[c] = IF c \in new \ A THEN worker[w].at ELSE 0
          /\ source'.tag = IF new \ A = {} THEN {worker[w].found} ELSE {}
          /\ Admit(A, time)
    BY <1>1, <1>10, ObserveEffect
  <2>2. A \subseteq Contents /\ time \in [Contents -> Nat] BY <1>1, <1>10, SaverCurrent
  <2>3. \A c \in A : item[c] = 0 BY <1>1, <2>2, AdmitsNew
  <2>4. \A c \in Contents : item'[c] = IF c \in A THEN worker[w].at ELSE item[c]
    BY <1>1, <2>1, <2>2, <2>3, AdmitEffect
  <2>5. \A c \in A : worker[w].at # 0
    <3>1. \A c \in Contents : item[c] < worker[w].at /\ item[c] \in Nat
      BY <1>1, <1>10, SaverCurrent DEF TypeOK
    <3>2. worker[w].at \in Nat BY <1>1, <1>10, SaverCurrent
    <3>3. QED BY <2>2, <3>1, <3>2
  <2>6. \A c \in new : item[c] = 0
    <3>1. new \subseteq Contents BY <1>1, <1>10, SaverCurrent
    <3>2. QED BY <1>1, <3>1, AdmitsNew
  <2>7. seed' = seed BY <1>10 DEF Observe
  <2>8. source.seen \subseteq Contents BY <1>1 DEF TypeOK, Rows
  <2>9. \A c \in source'.seen \ seed' : item'[c] # 0
    BY <1>1, <2>1, <2>2, <2>4, <2>5, <2>7, <2>8 DEF DiscoveryKept
  <2>10. \A c \in Waiting(source)' : item'[c] = 0 /\ c \notin source'.seen
    BY <1>3, <1>4, <2>1, <2>4, <2>6
  <2>11. \A S \in source'.tag : S \subseteq source'.seen
    BY <2>1
  <2>12. QED BY <2>9, <2>10, <2>11 DEF DiscoveryKept
<1>11. ASSUME NEW w \in Workers, Drain(w) PROVE DiscoveryKept'
  <2> DEFINE new == Waiting(source) \ source.seen
  <2>1. PICK A \in SUBSET new :
          /\ source'.seen = source.seen \cup A
          /\ \A c \in Contents : source'.tail[c] = IF c \in new \ A THEN source.tail[c] ELSE 0
          /\ source'.tag = source.tag
          /\ Admit(A, source.tail)
    BY <1>1, <1>11, DrainEffect
  <2>2. A \subseteq Contents /\ source.tail \in [Contents -> Nat]
    BY <1>1, <1>4 DEF TypeOK, Rows
  <2>3. \A c \in A : item[c] = 0 BY <1>1, <2>2, AdmitsNew
  <2>4. \A c \in Contents : item'[c] = IF c \in A THEN source.tail[c] ELSE item[c]
    BY <1>1, <2>1, <2>2, <2>3, AdmitEffect
  <2>5. seed' = seed BY <1>1, <1>11, DrainEffect
  <2>6. source.seen \subseteq Contents BY <1>1 DEF TypeOK, Rows
  <2>7. \A c \in source'.seen \ seed' : item'[c] # 0
    BY <1>1, <1>2, <2>1, <2>2, <2>4, <2>5, <2>6 DEF DiscoveryKept
  <2>8. \A c \in Waiting(source)' : item'[c] = 0 /\ c \notin source'.seen
    BY <1>1, <1>2, <1>3, <1>4, <2>1, <2>4 DEF DiscoveryKept
  <2>9. \A S \in source'.tag : S \subseteq source'.seen
    BY <1>1, <2>1 DEF DiscoveryKept
  <2>10. QED BY <2>7, <2>8, <2>9 DEF DiscoveryKept
<1>12. QED BY <1>1, <1>5, <1>6, <1>7, <1>8, <1>9, <1>10, <1>11, CalmSteps

\* A step that admits contents adds deliveries of watchers that are on.
LEMMA AdmitsForWatchers ==
  ASSUME TypeOK, NEW w \in Workers, Observe(w) \/ Drain(w)
  PROVE  \A c \in Contents, t \in Targets :
           ~On(t) \/ target[t].baseline = 0 => delivery'[<<c, t>>] = delivery[<<c, t>>]
<1>1. PICK A, at : Admit(A, at) BY DEF Observe, Drain
<1>2. \A c \in Contents, t \in Targets :
        <<c, t>> \in Pairs /\ <<c, t>>[1] = c /\ <<c, t>>[2] = t
  BY DEF Pairs
<1>3. QED BY <1>1, <1>2 DEF Admit, Owed

\* A watcher that is not there has nothing.
LEMMA WatchersStep ==
  ASSUME WatchInv, Next PROVE Watchers'
<1>1. TypeOK /\ PollShape /\ HolderCurrent /\ Watchers BY DEF WatchInv
<1>2. CASE Calm
  BY <1>1, <1>2 DEF Watchers, Calm, Pairs
<1>3. ASSUME NEW t \in Targets, Register(t) \/ Resume(t) PROVE Watchers'
  BY <1>1, <1>3, RegisterEffect DEF Watchers
<1>4. ASSUME NEW t \in Targets, NEW collect \in BOOLEAN, Remove(t, collect) PROVE Watchers'
  BY <1>1, <1>4, RemoveEffect DEF Watchers
<1>5. ASSUME NEW w \in Workers, Seed(w) \/ NotModified(w) PROVE Watchers'
  <2>1. Based(worker[w].at, worker[w].found) /\ UNCHANGED delivery
    BY <1>5 DEF Seed, NotModified
  <2>2. QED BY <1>1, <2>1, BasedEffect DEF Watchers, NewlyBased, On
<1>6. ASSUME NEW w \in Workers, Observe(w) \/ Drain(w) PROVE Watchers'
  <2>1. Based(worker[w].at, worker[w].found) \/ UNCHANGED target
    BY <1>6 DEF Observe, Drain
  <2>2. \A t \in Targets : /\ target'[t].st = target[t].st
                           /\ ~On(t) => target'[t].baseline = target[t].baseline
    BY <1>1, <2>1, BasedEffect DEF NewlyBased
  <2>3. QED BY <1>1, <1>6, <2>2, AdmitsForWatchers DEF Watchers, On
<1>7. QED BY <1>1, <1>2, <1>3, <1>4, <1>5, <1>6, CalmSteps

\* A delivery that is open has not been handed over, a closed one as it says.
LEMMA RunsStep ==
  ASSUME WatchInv, Next PROVE OpenMeansUnrun' /\ ClosedAsItWent'
<1>1. TypeOK /\ OpenMeansUnrun /\ ClosedAsItWent BY DEF WatchInv
<1>2. SUFFICES ASSUME NEW p \in Pairs
               PROVE  /\ delivery'[p].st = "pending" => runs'[p] = 0
                      /\ delivery'[p].st = "none" /\ target'[p[2]].st # "gone" => runs'[p] = 0
                      /\ delivery'[p].st \in {"failed", "cancelled"} => runs'[p] = 0
                      /\ delivery'[p].st = "routed" => runs'[p] = 1
  BY DEF OpenMeansUnrun, ClosedAsItWent
<1>3. Moved(p) BY <1>1, RunSteps
<1>4. p[2] \in Targets BY DEF Pairs
<1>5. target[p[2]].st = "gone" => target'[p[2]].st = "gone" BY <1>1, <1>4, RunSteps
<1>6. /\ delivery[p].st = "pending" => runs[p] = 0
      /\ delivery[p].st = "none" /\ target[p[2]].st # "gone" => runs[p] = 0
      /\ delivery[p].st \in {"failed", "cancelled"} => runs[p] = 0
      /\ delivery[p].st = "routed" => runs[p] = 1
  BY <1>1 DEF OpenMeansUnrun, ClosedAsItWent
<1>7. QED BY <1>3, <1>5, <1>6 DEF Moved, On

\* What a baseline had listed is known or has waited since.
LEMMA BasisStep ==
  ASSUME WatchInv, Next PROVE BasisKnown'
<1>1. /\ TypeOK /\ PollShape /\ HolderCurrent /\ Known /\ Watchers
      /\ BasisKnown /\ DiscoveryKept
  BY DEF WatchInv
<1> USE DEF BasisKnown
<1>2. \A t \in Targets : basis[t] \subseteq Contents /\ target[t].baseline \in Nat
  BY <1>1 DEF TypeOK
<1>3. \A c \in Contents : source.tail[c] \in Nat BY <1>1 DEF TypeOK, Rows
<1>4. CASE Calm BY <1>1, <1>4 DEF Calm
<1>5. ASSUME NEW t \in Targets, Register(t) \/ Resume(t) PROVE BasisKnown'
  BY <1>1, <1>5, RegisterEffect
<1>6. ASSUME NEW t \in Targets, NEW collect \in BOOLEAN, Remove(t, collect) PROVE BasisKnown'
  BY <1>1, <1>6, RemoveEffect
<1>7. ASSUME NEW w \in Workers, Seed(w) PROVE BasisKnown'
  <2>1. \A t \in Targets : target[t].baseline = 0 BY <1>1, <1>7, SeedEffect DEF Known
  <2>2. QED BY <1>1, <1>7, <2>1, SeedEffect, BasedEffect
<1>8. ASSUME NEW w \in Workers, NotModified(w) PROVE BasisKnown'
  <2>1. worker[w].found \subseteq source.seen
    BY <1>1, <1>8, NotModifiedEffect DEF DiscoveryKept
  <2>2. QED BY <1>1, <1>8, <2>1, NotModifiedEffect, BasedEffect
<1>9. ASSUME NEW w \in Workers, Observe(w) PROVE BasisKnown'
  <2> DEFINE new == worker[w].found \ source.seen
  <2>1. PICK A \in SUBSET new :
          /\ source'.seen = source.seen \cup A
          /\ \A c \in Contents : source'.tail[c] = IF c \in new \ A THEN worker[w].at ELSE 0
    BY <1>1, <1>9, ObserveEffect
  <2>2. \A c \in Contents : source.tail[c] = 0 BY <1>1, <1>9, ObserveEffect DEF NoTail
  <2>3. worker[w].found \subseteq Contents /\ worker[w].at \in Nat BY <1>1, <1>9, SaverCurrent
  <2>4. \A c \in Contents : worker[w].at # 0
    BY <1>1, <1>3, <1>9, <2>3, SaverCurrent
  <2>5. Based(worker[w].at, worker[w].found) BY <1>9 DEF Observe
  <2>6. SUFFICES ASSUME NEW t \in Targets, target'[t].baseline # 0, NEW c \in basis'[t]
                 PROVE  \/ c \in source'.seen
                        \/ source'.tail[c] # 0 /\ source'.tail[c] <= target'[t].baseline
    OBVIOUS
  <2>7. CASE NewlyBased(t)
    <3>1. target'[t].baseline = worker[w].at /\ c \in worker[w].found
      BY <1>1, <2>5, <2>6, <2>7, BasedEffect
    <3>2. QED BY <2>1, <2>3, <2>4, <3>1
  <2>8. CASE ~NewlyBased(t)
    <3>1. target[t].baseline # 0 /\ c \in basis[t] BY <1>1, <2>5, <2>6, <2>8, BasedEffect
    <3>2. c \in source.seen BY <1>1, <1>2, <2>2, <3>1
    <3>3. QED BY <2>1, <3>2
  <2>9. QED BY <2>7, <2>8
<1>10. ASSUME NEW w \in Workers, Drain(w) PROVE BasisKnown'
  <2> DEFINE new == Waiting(source) \ source.seen
  <2>1. PICK A \in SUBSET new :
          /\ source'.seen = source.seen \cup A
          /\ \A c \in Contents : source'.tail[c] = IF c \in new \ A THEN source.tail[c] ELSE 0
    BY <1>1, <1>10, DrainEffect
  <2>2. UNCHANGED <<target, basis>> BY <1>1, <1>10, DrainEffect
  <2>3. QED BY <1>1, <1>2, <2>1, <2>2 DEF Waiting
<1>11. QED BY <1>1, <1>4, <1>5, <1>6, <1>7, <1>8, <1>9, <1>10, CalmSteps

\* The contents a completed poll admits, with the times they are stored at:
\* none is known, and none waited since the baseline of a watcher or before.
LEMMA AdmittedAfterBasis ==
  ASSUME WatchInv, NEW w \in Workers, Observe(w) \/ Drain(w)
  PROVE  \E A \in SUBSET Contents, at \in [Contents -> Nat] :
           /\ Admit(A, at)
           /\ \A c \in A : c \notin source.seen /\ at[c] # 0
           /\ \A c \in A, t \in Targets :
                target[t].baseline # 0 /\ target[t].baseline < at[c] => c \notin basis[t]
<1>1. TypeOK /\ PollShape /\ HolderCurrent /\ Known /\ BasisKnown BY DEF WatchInv
<1>2. \A t \in Targets : basis[t] \subseteq Contents /\ target[t].baseline \in Nat
  BY <1>1 DEF TypeOK
<1>3. \A c \in Contents : source.tail[c] \in Nat BY <1>1 DEF TypeOK, Rows
<1>4. CASE Observe(w)
  <2> DEFINE time == [c \in Contents |-> worker[w].at]
  <2>1. PICK A \in SUBSET (worker[w].found \ source.seen) : Admit(A, time)
    BY <1>1, <1>4, ObserveEffect
  <2>2. worker[w].found \subseteq Contents /\ worker[w].at \in Nat BY <1>1, <1>4, SaverCurrent
  <2>3. \A c \in Contents : worker[w].at # 0 BY <1>1, <1>3, <1>4, <2>2, SaverCurrent
  <2>4. \A c \in Contents : source.tail[c] = 0 BY <1>1, <1>4, ObserveEffect DEF NoTail
  <2>5. \A c \in A, t \in Targets : target[t].baseline # 0 => c \notin basis[t]
    BY <1>1, <1>2, <2>1, <2>4 DEF BasisKnown
  <2>6. time \in [Contents -> Nat] /\ A \in SUBSET Contents BY <2>2
  <2>7. \A c \in A : c \notin source.seen /\ time[c] # 0 BY <2>2, <2>3
  <2>8. QED BY <2>1, <2>5, <2>6, <2>7
<1>5. CASE Drain(w)
  <2>1. PICK A \in SUBSET (Waiting(source) \ source.seen) : Admit(A, source.tail)
    BY <1>1, <1>5, DrainEffect
  <2>2. \A c \in A : c \in Contents /\ source.tail[c] # 0 BY DEF Waiting
  <2>3. \A c \in A, t \in Targets :
          target[t].baseline # 0 /\ target[t].baseline < source.tail[c] => c \notin basis[t]
    BY <1>1, <1>2, <1>3, <2>1, <2>2 DEF BasisKnown
  <2>4. source.tail \in [Contents -> Nat] BY <1>1 DEF TypeOK, Rows
  <2>5. QED BY <2>1, <2>2, <2>3, <2>4
<1>6. QED BY <1>4, <1>5

\* What is owed is queued.
LEMMA OwedStep ==
  ASSUME WatchInv, Next PROVE OwedMeansQueued'
<1>1. /\ TypeOK /\ PollShape /\ HolderCurrent /\ Known /\ Watchers
      /\ OwedMeansQueued /\ DiscoveryKept
  BY DEF WatchInv
<1>2. SUFFICES ASSUME NEW c \in Contents, NEW t \in Targets, item'[c] # 0,
                      On(t)', target'[t].baseline # 0,
                      target'[t].created <= item'[c], target'[t].baseline < item'[c]
               PROVE  delivery'[<<c, t>>].st # "none"
  BY DEF OwedMeansQueued, Owed
<1>3. <<c, t>> \in Pairs BY DEF Pairs
<1>4. CASE Calm
  BY <1>1, <1>2, <1>3, <1>4 DEF Calm, OwedMeansQueued, Owed, On
<1>5. ASSUME NEW u \in Targets, Register(u) \/ Resume(u) PROVE delivery'[<<c, t>>].st # "none"
  BY <1>1, <1>2, <1>5, RegisterEffect DEF OwedMeansQueued, Owed, On
<1>6. ASSUME NEW u \in Targets, NEW collect \in BOOLEAN, Remove(u, collect)
      PROVE  delivery'[<<c, t>>].st # "none"
  BY <1>1, <1>2, <1>6, RemoveEffect DEF OwedMeansQueued, Owed, On
<1>7. ASSUME NEW w \in Workers, Seed(w) PROVE delivery'[<<c, t>>].st # "none"
  <2>1. item[c] = 0 BY <1>1, <1>7, SeedEffect DEF Known
  <2>2. QED BY <1>1, <1>2, <1>7, <2>1, SeedEffect
<1>8. ASSUME NEW w \in Workers, Seed(w) \/ NotModified(w) \/ Observe(w) \/ Drain(w)
      PROVE  NewlyBased(t) => \/ target'[t].baseline = worker[w].at
                              \/ target'[t].baseline = 0
  <2>1. Based(worker[w].at, worker[w].found) \/ UNCHANGED target
    BY <1>8 DEF Seed, NotModified, Observe, Drain
  <2>2. QED BY <1>1, <2>1, BasedEffect DEF NewlyBased
<1>9. ASSUME NEW w \in Workers, NotModified(w) PROVE delivery'[<<c, t>>].st # "none"
  <2>1. item'[c] = item[c] /\ delivery' = delivery BY <1>1, <1>9, NotModifiedEffect
  <2>2. item[c] < worker[w].at /\ worker[w].at \in Nat /\ item[c] \in Nat
    BY <1>1, <1>9, SaverCurrent DEF TypeOK
  <2>3. ~NewlyBased(t) BY <1>2, <1>8, <1>9, <2>1, <2>2
  <2>4. target'[t].st = target[t].st /\ target'[t].baseline = target[t].baseline
        /\ target'[t].created = target[t].created
    BY <1>1, <1>9, <2>3, NotModifiedEffect, BasedEffect
  <2>5. QED BY <1>1, <1>2, <2>1, <2>4 DEF OwedMeansQueued, Owed, On
<1>10. ASSUME NEW w \in Workers, Observe(w) \/ Drain(w) PROVE delivery'[<<c, t>>].st # "none"
  <2>1. PICK A \in SUBSET Contents, at \in [Contents -> Nat] :
          Admit(A, at) /\ \A d \in A : d \notin source.seen
    BY <1>10, AdmittedAfterBasis
  <2>2. \A d \in A : item[d] = 0 BY <1>1, <2>1, AdmitsNew
  <2>3. item'[c] = IF c \in A THEN at[c] ELSE item[c] BY <1>1, <2>1, <2>2, AdmitEffect
  <2>4. IF c \in A /\ delivery[<<c, t>>].st = "none" /\ Owed(t, at[c])
          THEN delivery'[<<c, t>>].st = "pending"
          ELSE delivery'[<<c, t>>] = delivery[<<c, t>>]
    BY <1>1, <2>1, <2>2, AdmitEffect
  <2>5. item'[c] <= worker[w].at /\ worker[w].at \in Nat /\ item'[c] \in Nat
    <3>1. /\ worker[w].at \in Nat /\ item[c] < worker[w].at /\ source.tail[c] < worker[w].at
          /\ item[c] \in Nat /\ source.tail[c] \in Nat
      BY <1>1, <1>10, SaverCurrent DEF TypeOK, Rows
    <3>2. CASE Observe(w)
      BY <3>1, <3>2 DEF Observe, Admit
    <3>3. CASE Drain(w)
      <4>1. PICK B : Admit(B, source.tail) BY <1>1, <3>3, DrainEffect
      <4>2. item'[c] \in {item[c], source.tail[c]} BY <4>1 DEF Admit
      <4>3. QED BY <3>1, <4>2
    <3>4. QED BY <1>10, <3>2, <3>3
  <2>6. target'[t].baseline \in Nat BY <1>1, TypeStep DEF TypeOK
  <2>7. ~NewlyBased(t) BY <1>2, <1>8, <1>10, <2>5, <2>6
  <2>8. target'[t].st = target[t].st /\ target'[t].baseline = target[t].baseline
        /\ target'[t].created = target[t].created
    <3>1. Based(worker[w].at, worker[w].found) \/ UNCHANGED target
      BY <1>10 DEF Observe, Drain
    <3>2. QED BY <1>1, <2>7, <3>1, BasedEffect
  <2>9. Owed(t, item'[c]) BY <1>2, <2>8 DEF Owed, On
  <2>10. CASE c \in A BY <2>3, <2>4, <2>9, <2>10
  <2>11. CASE c \notin A BY <1>1, <1>2, <2>3, <2>4, <2>9, <2>11 DEF OwedMeansQueued
  <2>12. QED BY <2>10, <2>11
<1>11. QED BY <1>1, <1>4, <1>5, <1>6, <1>7, <1>9, <1>10, CalmSteps

-----------------------------------------------------------------------------
(* The theorems.                                                           *)

\* Every step keeps the invariant.
LEMMA WatchStep == WatchInv /\ [Next]_vars => WatchInv'
<1> SUFFICES ASSUME WatchInv, [Next]_vars PROVE WatchInv'
  OBVIOUS
<1>1. TypeOK' BY TypeStep DEF WatchInv
<1>2. CASE Next
  BY <1>1, <1>2, PollShapeStep, HolderStep, ClockedStep, KnownStep, WatchersStep, RunsStep,
     BasisStep, DiscoveryStep, OwedStep
     DEF WatchInv
<1>3. CASE UNCHANGED vars
  BY <1>3 DEF vars, counters, history, WatchInv, TypeOK, PollShape, HolderCurrent, Clocked, Known,
     Watchers, OpenMeansUnrun, ClosedAsItWent, BasisKnown, DiscoveryKept, OwedMeansQueued,
     Backlog, Waiting, Polling, On, Owed, Cursor
<1>4. QED BY <1>2, <1>3

\* A step that creates a delivery is one that completes a poll, and what it
\* creates was not listed when the baseline of its watcher was taken.
LEMMA ReplayStep ==
  ASSUME WatchInv, Next, NEW c \in Contents, NEW t \in Targets,
         delivery[<<c, t>>].st = "none", delivery'[<<c, t>>].st # "none"
  PROVE  target[t].baseline # 0 /\ c \notin basis[t]
<1>1. TypeOK /\ PollShape /\ HolderCurrent /\ Known /\ Watchers BY DEF WatchInv
<1>2. <<c, t>> \in Pairs BY DEF Pairs
<1>3. ~Calm BY <1>2 DEF Calm
<1>4. ASSUME NEW u \in Targets, Register(u) \/ Resume(u) PROVE FALSE
  BY <1>1, <1>4, RegisterEffect
<1>5. ASSUME NEW u \in Targets, NEW collect \in BOOLEAN, Remove(u, collect) PROVE FALSE
  BY <1>1, <1>5, RemoveEffect
<1>6. ASSUME NEW w \in Workers, Seed(w) \/ NotModified(w) PROVE FALSE
  BY <1>6 DEF Seed, NotModified
<1>7. ASSUME NEW w \in Workers, Observe(w) \/ Drain(w)
      PROVE  target[t].baseline # 0 /\ c \notin basis[t]
  <2>1. PICK A \in SUBSET Contents, at \in [Contents -> Nat] :
          /\ Admit(A, at)
          /\ \A d \in A : d \notin source.seen /\ at[d] # 0
          /\ \A d \in A, u \in Targets :
               target[u].baseline # 0 /\ target[u].baseline < at[d] => d \notin basis[u]
    BY <1>7, AdmittedAfterBasis
  <2>2. \A d \in A : item[d] = 0 BY <1>1, <2>1, AdmitsNew
  <2>3. IF c \in A /\ delivery[<<c, t>>].st = "none" /\ Owed(t, at[c])
          THEN delivery'[<<c, t>>].st = "pending"
          ELSE delivery'[<<c, t>>] = delivery[<<c, t>>]
    BY <1>1, <2>1, <2>2, AdmitEffect
  <2>4. c \in A /\ Owed(t, at[c]) BY <2>3
  <2>5. QED BY <2>1, <2>4 DEF Owed
<1>8. QED BY <1>1, <1>3, <1>4, <1>5, <1>6, <1>7, CalmSteps

\* A step that changes the cursor completes a poll which had read that cursor.
LEMMA SaveStep ==
  ASSUME WatchInv, Next, Cursor(source') # Cursor(source), source'.exists
  PROVE  \E w \in Workers : Polling(w) /\ worker'[w] = Idle /\ worker[w].cursor = Cursor(source)
<1>1. TypeOK /\ PollShape /\ HolderCurrent /\ Watchers BY DEF WatchInv
<1>2. ~Calm BY DEF Calm, Cursor
<1>3. ASSUME NEW u \in Targets, Register(u) \/ Resume(u) PROVE FALSE
  BY <1>1, <1>3, RegisterEffect DEF Cursor
<1>4. ASSUME NEW u \in Targets, NEW collect \in BOOLEAN, Remove(u, collect) PROVE FALSE
  BY <1>1, <1>4, RemoveEffect
<1>5. ASSUME NEW w \in Workers, Seed(w) \/ NotModified(w) \/ Observe(w) \/ Drain(w)
      PROVE  Polling(w) /\ worker'[w] = Idle /\ worker[w].cursor = Cursor(source)
  BY <1>1, <1>5, Saves, SaverCurrent DEF TypeOK
<1>6. QED BY <1>1, <1>2, <1>3, <1>4, <1>5, CalmSteps

\* The invariant holds throughout.
LEMMA WatchAlways == Spec => []WatchInv
BY WatchInit, WatchStep, PTL DEF Spec

\* Every variable keeps its type, and only a pending delivery is under a lease.
THEOREM WatchTyped == Spec => []TypeOK
<1>1. WatchInv => TypeOK BY DEF WatchInv
<1>2. QED BY <1>1, WatchAlways, PTL

\* No listed content is ever acknowledged without being stored or known from
\* the start, whatever polls overlap or break off.
THEOREM WatchKeepsDiscoveries == Spec => []DiscoveryKept
<1>1. WatchInv => DiscoveryKept BY DEF WatchInv
<1>2. QED BY <1>1, WatchAlways, PTL

\* Whatever was discovered after a watcher's baseline has a delivery for it.
THEOREM WatchQueuesWhatIsOwed == Spec => []OwedMeansQueued
<1>1. WatchInv => OwedMeansQueued BY DEF WatchInv
<1>2. QED BY <1>1, WatchAlways, PTL

\* A closed delivery tells whether its rules have run.
THEOREM WatchClosesAsItWent == Spec => []ClosedAsItWent
<1>1. WatchInv => ClosedAsItWent BY DEF WatchInv
<1>2. QED BY <1>1, WatchAlways, PTL

\* No delivery is made for what was listed when the watcher's baseline was
\* taken.
THEOREM WatchReplaysNothing == Spec => NoReplay
<1> DEFINE A == \A c \in Contents, t \in Targets :
                  delivery[<<c, t>>].st = "none" /\ delivery'[<<c, t>>].st # "none"
                    => target[t].baseline # 0 /\ c \notin basis[t]
<1>1. WatchInv /\ [Next]_vars => [A]_vars
  BY ReplayStep
<1>2. QED BY <1>1, WatchAlways, PTL DEF Spec, NoReplay

\* A poll saves over the cursor it read.
THEOREM WatchSavesWhatItRead == Spec => SavesWhatItRead
<1> DEFINE A == Cursor(source') # Cursor(source) /\ source'.exists /\ source.exists
                  => \E w \in Workers : Polling(w) /\ worker'[w] = Idle
                                        /\ worker[w].cursor = Cursor(source)
<1>1. WatchInv /\ [Next]_vars => [A]_vars
  BY SaveStep
<1>2. QED BY <1>1, WatchAlways, PTL DEF Spec, SavesWhatItRead
=============================================================================
