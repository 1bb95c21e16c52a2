-------------------------- MODULE FleetLease_proofs --------------------------
(***************************************************************************)
(* Proofs about FleetLease for all values of the times, the offsets of the *)
(* clock and the bounds: the workload runs on one machine only, provided   *)
(* that the source's host is not booted while it counts as frozen and that *)
(* the call which notices a clock step is not rolled back.                 *)
(***************************************************************************)
EXTENDS FleetLease, TLAPS

-----------------------------------------------------------------------------
(* The inductive invariant, in parts.                                      *)

\* The workload runs under the guardian's lease, or may still be started.
Usable(n) == Alive(n) \/ (guard[n].pc = "granted" /\ FreshEnough(n))

\* The drain of the row d, read by a clock last settled at offset a, outlasts a
\* workload with the local deadline t, and t is not later than a lease allows.
Covers(d, a, t) ==
  /\ t + StopMargin + Drain <= d.drainUntil - a + Tolerance
  /\ t <= now + Ttl - StopMargin

\* Every deadline that a guardian has, or may yet adopt, is that of the active
\* node and is covered.
DeadlinesCovered ==
  \A n \in Node :
    /\ Usable(n) => n = db.active /\ Covers(db, anchor, guard[n].deadline)
    /\ Adoptable(n) => n = db.active /\ Covers(db, anchor, Deadline(n))

\* The fencing assumption.
FencedInTime == \A n \in Node : Alive(n) => now <= guard[n].deadline + Late

\* A lease in force has its drain behind it.
LeaseDrains == db.lease # NoLease => db.drainUntil >= db.leaseExpires + Drain

\* Answers come to calls that are still waited for.
CallsMatch ==
  /\ \A n \in Node :
       /\ guard[n].at <= now
       /\ guard[n].calling => guard[n].pc \in {"waiting", "running"}
       /\ answer[n] # NoAnswer => guard[n].calling
  /\ \A r \in requests : r.awaited => guard[r.node].calling

\* A machine whose unit is stopped has no guardian; a frozen source has neither
\* unit nor controller, and the role stays with it.
SourceFrozen ==
  /\ ~ociUnit => guard["oci"].pc = "down"
  /\ Frozen => ~ociUnit /\ ~controllerOn
  /\ phase = "prepared" \/ Frozen => db.active = "oci"

\* A marker names the present epoch only while the source is frozen.
MarkerCurrent ==
  /\ marker.epoch <= db.epoch
  /\ marker.epoch = db.epoch => Frozen

\* While primary runs unguarded, it has no guardian and keeps the role.
LegacyUnenrolled ==
  legacy => ~db.enrolled /\ db.active = "primary" /\ guard["primary"].pc = "down"

FleetInv ==
  /\ TypeOK
  /\ DeadlinesCovered /\ FencedInTime /\ LeaseDrains /\ CallsMatch
  /\ SourceFrozen /\ MarkerCurrent /\ LegacyUnenrolled

-----------------------------------------------------------------------------
(* Type correctness.                                                       *)

\* The larger of two numbers.
LEMMA Larger ==
  ASSUME NEW a \in Int, NEW b \in Int
  PROVE  Max2(a, b) \in Int /\ Max2(a, b) >= a /\ Max2(a, b) >= b
  BY DEF Max2

\* No lease is a lease.
LEMMA NoLeaseTyped == NoLease \in Lease
  BY DEF Lease

\* The constants are numbers.
LEMMA ConstantsTyped ==
  /\ Ttl \in Nat /\ StopMargin \in Nat /\ Drain \in Nat /\ Tolerance \in Nat
  /\ StopBudget \in Nat /\ MarkerTtl \in Nat /\ Late \in Nat
  BY FleetAssumption

\* A row with another value in a field is a row.
LEMMA RowEdits ==
  /\ \A d \in Row, v \in Nat \ {0} : [d EXCEPT !.epoch = v] \in Row
  /\ \A d \in Row, v \in Node : [d EXCEPT !.active = v] \in Row
  /\ \A d \in Row, v \in BOOLEAN : [d EXCEPT !.armed = v] \in Row
  /\ \A d \in Row, v \in BOOLEAN : [d EXCEPT !.enrolled = v] \in Row
  /\ \A d \in Row, v \in Lease : [d EXCEPT !.lease = v] \in Row
  /\ \A d \in Row, v \in Int : [d EXCEPT !.leaseExpires = v] \in Row
  /\ \A d \in Row, v \in Int : [d EXCEPT !.drainUntil = v] \in Row
  /\ \A d \in Row, v \in Int : [d EXCEPT !.quarantineUntil = v] \in Row
  BY DEF Row

\* A guardian with another value in a field is a guardian.
LEMMA GuardianEdits ==
  /\ \A g \in Guardian, v \in Pc : [g EXCEPT !.pc = v] \in Guardian
  /\ \A g \in Guardian, v \in Nat : [g EXCEPT !.inst = v] \in Guardian
  /\ \A g \in Guardian, v \in BOOLEAN : [g EXCEPT !.calling = v] \in Guardian
  /\ \A g \in Guardian, v \in Int : [g EXCEPT !.at = v] \in Guardian
  /\ \A g \in Guardian, v \in Nat : [g EXCEPT !.epoch = v] \in Guardian
  /\ \A g \in Guardian, v \in Nat : [g EXCEPT !.id = v] \in Guardian
  /\ \A g \in Guardian, v \in Int : [g EXCEPT !.deadline = v] \in Guardian
  BY DEF Guardian

\* The fields of a row.
LEMMA RowFields ==
  ASSUME NEW d \in Row
  PROVE  /\ d.epoch \in Nat \ {0} /\ d.epoch + 1 \in Nat \ {0}
         /\ d.active \in Node /\ d.armed \in BOOLEAN /\ d.enrolled \in BOOLEAN
         /\ d.lease \in Lease
         /\ d.leaseExpires \in Int /\ d.drainUntil \in Int /\ d.quarantineUntil \in Int
  BY DEF Row

\* Comparing the clocks leaves a row.
LEMMA CheckedRow ==
  ASSUME TypeOK
  PROVE  /\ Checked \in Row /\ NewAnchor \in Int /\ Wall \in Int
         /\ Quarantine(db) \in Int
  <1>1. Wall \in Int
    BY DEF TypeOK, Wall
  <1>2. db \in Row
    BY DEF TypeOK
  <1>3. Quarantine(db) \in Int
    BY <1>1, <1>2, RowFields, ConstantsTyped DEF Quarantine, Max2
  <1>4. NewAnchor \in Int
    BY DEF TypeOK, NewAnchor
  <1>5. Max2(db.drainUntil, Quarantine(db)) \in Int
    BY <1>2, <1>3, RowFields, Larger
  <1>6. db.epoch + 1 \in Nat \ {0}
    BY <1>2, RowFields
  <1>7. Checked \in Row
    BY <1>2, <1>3, <1>5, <1>6, NoLeaseTyped, RowEdits, Zenon DEF Checked
  <1> QED BY <1>1, <1>3, <1>4, <1>7

\* Starting the authority leaves a row.
LEMMA RestartedRow ==
  ASSUME TypeOK, NEW samePolicy \in BOOLEAN
  PROVE  Restarted(samePolicy) \in Row
  <1> DEFINE until == IF HandoffReady THEN Wall ELSE Quarantine(db)
             expires == IF HandoffReady THEN Wall ELSE db.leaseExpires
             drain == IF HandoffReady THEN until ELSE Max2(db.drainUntil, until)
             enrolled == db.enrolled /\ samePolicy
             armed == db.armed /\ (samePolicy \/ ~db.enrolled)
  <1>1. db \in Row
    BY DEF TypeOK
  <1>2. until \in Int /\ expires \in Int /\ drain \in Int
    BY <1>1, CheckedRow, RowFields, Larger
  <1>3. enrolled \in BOOLEAN /\ armed \in BOOLEAN
    OBVIOUS
  <1>4. db.epoch + 1 \in Nat \ {0}
    BY <1>1, RowFields
  <1>5. Restarted(samePolicy) =
          [db EXCEPT !.epoch = @ + 1, !.lease = NoLease, !.leaseExpires = expires,
                     !.quarantineUntil = until, !.drainUntil = drain,
                     !.enrolled = enrolled, !.armed = armed]
    BY Zenon DEF Restarted
  <1> HIDE DEF until, expires, drain, enrolled, armed
  <1>6. [db EXCEPT !.epoch = @ + 1, !.lease = NoLease, !.leaseExpires = expires] \in Row
    BY <1>1, <1>2, <1>4, NoLeaseTyped, RowEdits, Zenon
  <1>7. [db EXCEPT !.epoch = @ + 1, !.lease = NoLease, !.leaseExpires = expires,
                   !.quarantineUntil = until, !.drainUntil = drain] \in Row
    BY <1>2, <1>6, RowEdits, Zenon
  <1>8. \A d \in Row : [d EXCEPT !.enrolled = enrolled, !.armed = armed] \in Row
    BY <1>3, RowEdits
  <1> QED BY <1>5, <1>7, <1>8

\* Extending a lease leaves a row.
LEMMA ExtendedRow ==
  ASSUME TypeOK, NEW d \in Row
  PROVE  Extend(d) \in Row
  <1>1. Wall + Ttl \in Int /\ Wall + Ttl + Drain \in Int
    BY CheckedRow, ConstantsTyped
  <1> QED BY <1>1, RowEdits, Zenon DEF Extend

\* Moving the role leaves a row.
LEMMA MovedRow ==
  ASSUME NEW d \in Row, NEW n \in Node
  PROVE  MoveTo(d, n) \in Row
  BY RowFields, NoLeaseTyped, RowEdits, Zenon DEF MoveTo

\* A guardian that forgets its call leaves typed messages.
LEMMA ForgetTyped ==
  ASSUME TypeOK, NEW n \in Node, Forget(n)
  PROVE  requests' \subseteq Request /\ answer' \in [Node -> Reply]
  <1>1. requests \subseteq Request /\ answer \in [Node -> Reply]
    BY DEF TypeOK
  <1>2. \A r \in Request, v \in BOOLEAN : [r EXCEPT !.awaited = v] \in Request
    BY DEF Request
  <1>3. requests' \subseteq Request
    BY <1>1, <1>2 DEF Forget
  <1>4. NoAnswer \in Reply
    BY DEF NoAnswer, Reply
  <1> QED BY <1>1, <1>3, <1>4 DEF Forget

\* A request sent is typed.
LEMMA SendTyped ==
  ASSUME TypeOK, NEW n \in Node, NEW kind \in {"acquire", "renew", "release"},
         NEW epoch \in Nat, NEW id \in Nat, Send(n, kind, epoch, id)
  PROVE  requests' \subseteq Request
  <1>1. requests \subseteq Request /\ guard[n].inst \in Nat
    BY DEF TypeOK, Guardian
  <1>2. [kind |-> kind, node |-> n, inst |-> guard[n].inst, epoch |-> epoch, id |-> id,
         awaited |-> kind # "release"] \in Request
    BY <1>1 DEF Request
  <1> QED BY <1>1, <1>2 DEF Send

\* An answer is typed.
LEMMA AnswerTyped ==
  ASSUME TypeOK, NEW r \in requests, NEW d \in Row, Answer(r, d)
  PROVE  requests' \subseteq Request /\ answer' \in [Node -> Reply]
  <1>1. d.lease.id \in Nat
    BY DEF Row, Lease, NoLease
  <1>2. [ttl |-> d.leaseExpires - Wall, id |-> d.lease.id, epoch |-> d.epoch] \in Reply
    BY <1>1, CheckedRow DEF Reply, Row
  <1>3. requests \subseteq Request /\ answer \in [Node -> Reply]
    BY DEF TypeOK
  <1>4. r.node \in Node
    BY <1>3 DEF Request
  <1> QED BY <1>2, <1>3, <1>4 DEF Answer

\* The initial state is well typed.
LEMMA TypeInit == Init => TypeOK
<1> SUFFICES ASSUME Init PROVE TypeOK
  OBVIOUS
<1>1. now \in Nat /\ db \in Row
  <2>1. PICK start \in Starts :
          /\ now = start[2]
          /\ db = [epoch |-> 1, active |-> start[1], armed |-> start[1] = "oci",
                   enrolled |-> start[1] = "oci", lease |-> NoLease, leaseExpires |-> 0,
                   drainUntil |-> 0, quarantineUntil |-> 0]
    BY DEF Init
  <2>2. start[1] \in Node /\ start[2] \in Nat
    BY FleetAssumption DEF Node
  <2> QED BY <2>1, <2>2, NoLeaseTyped DEF Row
<1>2. guard \in [Node -> Guardian] /\ answer \in [Node -> Reply]
  BY DEF Init, Guardian, Stopped, Pc, Reply, NoAnswer
<1> QED BY <1>1, <1>2 DEF Init, TypeOK, NoMarker, Phase

\* Committing a row leaves a row.
LEMMA CommitTyped ==
  ASSUME TypeOK, NEW d \in Row, Commit(d)
  PROVE  db' \in Row /\ anchor' \in Int
  BY CheckedRow DEF Commit

\* A guardian's step leaves guardians.
LEMMA StepTyped ==
  ASSUME TypeOK, NEW n \in Node, NEW g \in Guardian, Step(n, g)
  PROVE  guard' \in [Node -> Guardian]
  BY DEF TypeOK, Step

\* What an action leaves alone keeps its type.
LEMMA StutterTyped ==
  ASSUME TypeOK, UNCHANGED vars
  PROVE  TypeOK'
  BY DEF TypeOK, vars, timeVars, authorityVars, guardianVars, hostVars, coordinatorVars

\* The fields of a request, a guardian and an answer.
LEMMA CallFields ==
  ASSUME TypeOK
  PROVE  /\ \A r \in requests : /\ r \in Request /\ r.node \in Node /\ r.inst \in Nat
                                /\ r.epoch \in Nat /\ r.id \in Nat
         /\ \A n \in Node : /\ guard[n] \in Guardian /\ answer[n] \in Reply
                            /\ guard[n].inst \in Nat /\ guard[n].epoch \in Nat
                            /\ guard[n].id \in Nat /\ guard[n].at \in Int
                            /\ guard[n].deadline \in Int
                            /\ answer[n].ttl \in Int /\ answer[n].id \in Nat
                            /\ answer[n].epoch \in Nat
                            /\ Deadline(n) \in Int
  BY ConstantsTyped DEF TypeOK, Request, Guardian, Reply, Deadline

\* The stopped guardian is one.
LEMMA StoppedTyped == Stopped \in Guardian
  BY DEF Stopped, Guardian, Pc

\* The requests to the authority preserve the types.
LEMMA TypeServe ==
  ASSUME TypeOK, Serve
  PROVE  TypeOK'
<1> USE DEF timeVars, authorityVars, guardianVars, hostVars, coordinatorVars
<1>1. db \in Row /\ Checked \in Row
  BY CheckedRow DEF TypeOK
<1>2. CASE ReadStatus
  <2>1. db' \in Row /\ anchor' \in Int
    BY <1>1, <1>2, CommitTyped DEF ReadStatus
  <2> QED BY <1>2, <2>1 DEF ReadStatus, TypeOK
<1>3. ASSUME NEW armed \in BOOLEAN, Arm(armed) PROVE TypeOK'
  <2>1. [Checked EXCEPT !.armed = armed] \in Row
    BY <1>1, RowEdits
  <2>2. db' \in Row /\ anchor' \in Int
    BY <1>3, <2>1, CommitTyped DEF Arm
  <2> QED BY <1>3, <2>2 DEF Arm, TypeOK
<1>4. CASE Restart
  <2>1. db' \in Row /\ anchor' \in Int
    BY <1>4, RestartedRow DEF Restart, StartAuthority, TypeOK
  <2> QED BY <1>4, <2>1 DEF Restart, TypeOK
<1>5. ASSUME NEW r \in requests, Acquire(r) PROVE TypeOK'
  <2>1. CASE Commit(Checked) /\ Answer(r, Checked)
    <3>1. db' \in Row /\ anchor' \in Int
      BY <1>1, <2>1, CommitTyped
    <3>2. requests' \subseteq Request /\ answer' \in [Node -> Reply]
      BY <1>1, <2>1, AnswerTyped
    <3> QED BY <2>1, <3>1, <3>2 DEF Answer, TypeOK
  <2>2. CASE /\ ~Held(Checked) /\ UnusedIds # {}
             /\ \E id \in UnusedIds :
                  LET granted == [Extend(Checked) EXCEPT
                                    !.lease = [id |-> id, node |-> r.node, inst |-> r.inst]]
                  IN  Commit(granted) /\ Answer(r, granted)
    <3>1. PICK id \in UnusedIds :
            LET granted == [Extend(Checked) EXCEPT
                              !.lease = [id |-> id, node |-> r.node, inst |-> r.inst]]
            IN  Commit(granted) /\ Answer(r, granted)
      BY <2>2
    <3> DEFINE lease == [id |-> id, node |-> r.node, inst |-> r.inst]
               granted == [Extend(Checked) EXCEPT !.lease = lease]
    <3>2. id \in Nat \ {0}
      BY FleetAssumption DEF UnusedIds
    <3>3. lease \in Lease
      BY <3>2, CallFields DEF Lease
    <3> HIDE DEF lease
    <3>4. granted \in Row
      BY <1>1, <3>3, ExtendedRow, RowEdits
    <3>5. Commit(granted) /\ Answer(r, granted)
      BY <3>1 DEF lease
    <3> HIDE DEF granted
    <3>6. db' \in Row /\ anchor' \in Int
      BY <3>4, <3>5, CommitTyped
    <3>7. requests' \subseteq Request /\ answer' \in [Node -> Reply]
      BY <3>4, <3>5, AnswerTyped
    <3> QED BY <3>5, <3>6, <3>7 DEF Answer, TypeOK
  <2> QED BY <1>5, <2>1, <2>2 DEF Acquire
<1>6. ASSUME NEW r \in requests, Renew(r) PROVE TypeOK'
  <2>1. Extend(Checked) \in Row
    BY <1>1, ExtendedRow
  <2>2. db' \in Row /\ anchor' \in Int
    BY <1>6, <2>1, CommitTyped DEF Renew
  <2>3. requests' \subseteq Request /\ answer' \in [Node -> Reply]
    BY <1>6, <2>1, AnswerTyped DEF Renew
  <2> QED BY <1>6, <2>2, <2>3 DEF Renew, Answer, TypeOK
<1>7. ASSUME NEW r \in requests, Release(r) PROVE TypeOK'
  <2>1. [Checked EXCEPT !.lease = NoLease] \in Row
    BY <1>1, NoLeaseTyped, RowEdits
  <2>2. db' \in Row /\ anchor' \in Int
    BY <1>7, <2>1, CommitTyped DEF Release
  <2> QED BY <1>7, <2>2 DEF Release, TypeOK
<1>8. ASSUME NEW r \in requests, Refuse(r) PROVE TypeOK'
  <2>1. db' \in Row /\ anchor' \in Int
    BY <1>1, <1>8, CommitTyped DEF Refuse
  <2> QED BY <1>8, <2>1 DEF Refuse, TypeOK
<1>9. ASSUME NEW r \in requests, Lose(r) PROVE TypeOK'
  BY <1>9 DEF Lose, TypeOK
<1>10. ASSUME NEW r \in requests, RollBack(r) PROVE TypeOK'
  BY <1>10, CheckedRow DEF RollBack, TypeOK
<1> QED BY <1>2, <1>3, <1>4, <1>5, <1>6, <1>7, <1>8, <1>9, <1>10 DEF Serve

\* The steps of a guardian preserve the types.
LEMMA TypeGuard ==
  ASSUME TypeOK, NEW n \in Node, Guard(n)
  PROVE  TypeOK'
<1> USE DEF timeVars, authorityVars, guardianVars, hostVars, coordinatorVars
<1>1. db \in Row /\ Checked \in Row /\ guard[n] \in Guardian /\ answer[n] \in Reply
  BY CheckedRow, CallFields DEF TypeOK
<1>2. now \in Int /\ 0 \in Int /\ 0 \in Nat
  BY DEF TypeOK
<1>3. CASE Start(n)
  <2> DEFINE pc == IF n = "primary" THEN "boot" ELSE "standby"
             inst == CHOOSE i \in UnusedNames(n) : TRUE
  <2>1. pc \in Pc
    BY DEF Pc
  <2>2. inst \in Nat
    BY <1>3, FleetAssumption DEF Start, UnusedNames
  <2> DEFINE g == [guard[n] EXCEPT !.pc = pc, !.inst = inst]
  <2>3. Step(n, g) /\ Quiet
    BY <1>3 DEF Start
  <2> HIDE DEF pc, inst
  <2>4. g \in Guardian
    BY <1>1, <2>1, <2>2, GuardianEdits
  <2> HIDE DEF g
  <2> QED BY <2>3, <2>4, StepTyped DEF Step, Quiet, TypeOK
<1>4. CASE AskLease(n)
  <2>1. "waiting" \in Pc /\ TRUE \in BOOLEAN
    BY DEF Pc
  <2> DEFINE g == [guard[n] EXCEPT !.pc = "waiting", !.calling = TRUE, !.at = now]
  <2>2. g \in Guardian
    BY <1>1, <1>2, <2>1, GuardianEdits, Zenon
  <2>3. Step(n, g) /\ Commit(Checked) /\ Send(n, "acquire", Checked.epoch, 0)
    BY <1>4 DEF AskLease
  <2>4. Checked.epoch \in Nat
    BY <1>1, RowFields
  <2>5. requests' \subseteq Request
    BY <1>2, <2>3, <2>4, SendTyped
  <2> HIDE DEF g
  <2>6. db' \in Row /\ anchor' \in Int /\ guard' \in [Node -> Guardian]
    BY <1>1, <2>2, <2>3, CommitTyped, StepTyped
  <2> QED BY <1>4, <2>3, <2>5, <2>6 DEF AskLease, Step, TypeOK
<1>5. CASE AskRenewal(n)
  <2> DEFINE g == [guard[n] EXCEPT !.calling = TRUE, !.at = now]
  <2>1. g \in Guardian
    BY <1>1, <1>2, GuardianEdits
  <2>2. Step(n, g) /\ Send(n, "renew", guard[n].epoch, guard[n].id)
    BY <1>5 DEF AskRenewal
  <2>3. requests' \subseteq Request
    BY <2>2, CallFields, SendTyped
  <2> HIDE DEF g
  <2> QED BY <1>5, <2>1, <2>2, <2>3, StepTyped DEF AskRenewal, Step, TypeOK
<1>6. CASE GiveUp(n)
  <2> DEFINE pc == IF guard[n].pc = "waiting" THEN "standby" ELSE guard[n].pc
             g == [guard[n] EXCEPT !.calling = FALSE, !.at = 0, !.pc = pc]
  <2>1. pc \in Pc
    BY <1>1 DEF Pc, Guardian
  <2>2. Step(n, g) /\ Forget(n) /\ UNCHANGED authorityVars
    BY <1>6 DEF GiveUp
  <2> HIDE DEF pc
  <2>3. g \in Guardian
    BY <1>1, <1>2, <2>1, GuardianEdits
  <2> HIDE DEF g
  <2> QED BY <2>2, <2>3, StepTyped, ForgetTyped DEF Step, TypeOK
<1>7. CASE Adopt(n)
  <2> DEFINE pc == IF guard[n].pc = "waiting" THEN "granted" ELSE guard[n].pc
             g == [guard[n] EXCEPT !.pc = pc, !.calling = FALSE, !.at = 0,
                     !.deadline = Deadline(n), !.id = answer[n].id,
                     !.epoch = answer[n].epoch]
  <2>1. pc \in Pc
    BY <1>1 DEF Pc, Guardian
  <2>2. Step(n, g) /\ Forget(n) /\ UNCHANGED authorityVars
    BY <1>7 DEF Adopt
  <2>3. Deadline(n) \in Int /\ answer[n].id \in Nat /\ answer[n].epoch \in Nat
    BY CallFields
  <2> HIDE DEF pc
  <2>4. [guard[n] EXCEPT !.pc = pc, !.calling = FALSE, !.at = 0] \in Guardian
    BY <1>1, <1>2, <2>1, GuardianEdits
  <2>5. g \in Guardian
    BY <2>3, <2>4, GuardianEdits, Zenon
  <2> HIDE DEF g
  <2> QED BY <2>2, <2>5, StepTyped, ForgetTyped DEF Step, TypeOK
<1>8. CASE Decline(n)
  <2>1. "standby" \in Pc /\ guard[n].inst \in Nat
    BY CallFields DEF Pc
  <2> DEFINE g == [Stopped EXCEPT !.pc = "standby", !.inst = guard[n].inst]
  <2>2. g \in Guardian
    BY <2>1, StoppedTyped, GuardianEdits, Zenon
  <2>3. Step(n, g) /\ Send(n, "release", guard[n].epoch, guard[n].id)
    BY <1>8 DEF Decline
  <2>4. requests' \subseteq Request
    BY <2>3, CallFields, SendTyped
  <2> HIDE DEF g
  <2> QED BY <1>8, <2>2, <2>3, <2>4, StepTyped DEF Decline, Step, TypeOK
<1>9. CASE Launch(n)
  <2>1. "running" \in Pc
    BY DEF Pc
  <2>2. [guard[n] EXCEPT !.pc = "running"] \in Guardian
    BY <1>1, <2>1, GuardianEdits
  <2> QED BY <1>9, <2>2, StepTyped DEF Launch, Step, Quiet, TypeOK
<1>10. CASE Fence(n)
  <2>1. "stopping" \in Pc
    BY DEF Pc
  <2> DEFINE g == [guard[n] EXCEPT !.pc = "stopping", !.calling = FALSE, !.at = 0]
  <2>2. g \in Guardian
    BY <1>1, <1>2, <2>1, GuardianEdits
  <2>3. Step(n, g) /\ Forget(n) /\ UNCHANGED authorityVars
    BY <1>10 DEF Fence
  <2> HIDE DEF g
  <2> QED BY <2>2, <2>3, StepTyped, ForgetTyped DEF Step, TypeOK
<1>11. CASE GiveBack(n)
  <2>1. [guard[n] EXCEPT !.id = 0] \in Guardian
    BY <1>1, <1>2, GuardianEdits
  <2>2. requests' \subseteq Request
    BY <1>11, CallFields, SendTyped DEF GiveBack
  <2> QED BY <1>11, <2>1, <2>2, StepTyped DEF GiveBack, Step, TypeOK
<1>12. CASE Die(n)
  BY <1>12, StoppedTyped, StepTyped, ForgetTyped DEF Die, Step, TypeOK
<1> QED BY <1>3, <1>4, <1>5, <1>6, <1>7, <1>8, <1>9, <1>10, <1>11, <1>12 DEF Guard

\* Enrollment, the controller and the coordinator preserve the types.
LEMMA TypeRole ==
  ASSUME TypeOK, Enroll \/ Promote \/ Reconcile \/ Coordinate
  PROVE  TypeOK'
<1> USE DEF timeVars, authorityVars, guardianVars, hostVars, coordinatorVars
<1>1. db \in Row /\ Checked \in Row /\ Checked.epoch \in Nat
  BY CheckedRow, RowFields DEF TypeOK
<1>2. \A n \in Node : MoveTo(Checked, n) \in Row
  BY <1>1, MovedRow
<1>3. CASE Enroll
  <2>1. "primary" \in Node /\ "standby" \in Pc
    BY DEF Node, Pc
  <2>2. [guard["primary"] EXCEPT !.pc = "standby"] \in Guardian
    BY <2>1, CallFields, GuardianEdits
  <2>3. [Checked EXCEPT !.enrolled = TRUE] \in Row
    BY <1>1, RowEdits
  <2>4. db' \in Row /\ anchor' \in Int /\ guard' \in [Node -> Guardian]
    BY <1>3, <2>1, <2>2, <2>3, CommitTyped, StepTyped DEF Enroll
  <2> QED BY <1>3, <2>4 DEF Enroll, Step, TypeOK
<1>4. CASE Promote
  <2>1. db' \in Row /\ anchor' \in Int
    BY <1>2, <1>4, CommitTyped DEF Promote, Node
  <2> QED BY <1>4, <2>1 DEF Promote, TypeOK
<1>5. CASE Reconcile
  <2>1. db' \in Row /\ anchor' \in Int
    BY <1>1, <1>5, CommitTyped DEF Reconcile
  <2> QED BY <1>5, <2>1 DEF Reconcile, TypeOK
<1>6. CASE Prepare
  <2>1. db' \in Row /\ anchor' \in Int
    BY <1>1, <1>6, CommitTyped DEF Prepare
  <2> QED BY <1>6, <2>1 DEF Prepare, TypeOK, Phase
<1>7. CASE StopController
  BY <1>7 DEF StopController, TypeOK
<1>8. CASE StopWorkload
  <2>1. "oci" \in Node
    BY DEF Node
  <2>2. requests' \subseteq Request /\ answer' \in [Node -> Reply]
    BY <1>8, <2>1, ForgetTyped DEF StopWorkload
  <2>3. guard' \in [Node -> Guardian]
    BY <1>8, StoppedTyped DEF StopWorkload, TypeOK
  <2> QED BY <1>8, <2>2, <2>3 DEF StopWorkload, TypeOK
<1>9. CASE Freeze
  <2>1. db' \in Row /\ anchor' \in Int
    BY <1>1, <1>9, CommitTyped DEF Freeze
  <2> QED BY <1>9, <2>1 DEF Freeze, TypeOK, Phase
<1>10. CASE WriteMarker
  <2>1. db' \in Row /\ anchor' \in Int
    BY <1>1, <1>10, CommitTyped DEF WriteMarker
  <2>2. marker' \in [epoch : Nat, createdAt : Int]
    BY <1>1, <1>10, CheckedRow DEF WriteMarker
  <2> QED BY <1>10, <2>1, <2>2 DEF WriteMarker, TypeOK, Phase
<1>11. CASE RestartWithMarker
  <2>1. db' \in Row /\ anchor' \in Int
    BY <1>11, RestartedRow DEF RestartWithMarker, StartAuthority, TypeOK
  <2> QED BY <1>11, <2>1 DEF RestartWithMarker, TypeOK, Phase, NoMarker
<1>12. CASE RestartFails
  BY <1>12 DEF RestartFails, TypeOK, Phase
<1>13. CASE FailBack
  <2>1. db' \in Row /\ anchor' \in Int
    BY <1>2, <1>13, CommitTyped DEF FailBack, Node
  <2> QED BY <1>1, <1>13, <2>1 DEF FailBack, TypeOK, Phase
<1>14. CASE FinishFailback
  <2>1. db' \in Row /\ anchor' \in Int
    BY <1>1, <1>14, CommitTyped DEF FinishFailback
  <2> QED BY <1>14, <2>1 DEF FinishFailback, TypeOK, Phase
<1> QED BY <1>3, <1>4, <1>5, <1>6, <1>7, <1>8, <1>9, <1>10, <1>11, <1>12, <1>13, <1>14
           DEF Coordinate

\* The environment preserves the types.
LEMMA TypeEnvironment ==
  ASSUME TypeOK, Boot \/ Tick \/ SetWallClock \/ InstallGuardian
  PROVE  TypeOK'
<1> USE DEF timeVars, authorityVars, guardianVars, hostVars, coordinatorVars
<1>1. CASE Boot
  <2>1. "oci" \in Node
    BY DEF Node
  <2>2. requests' \subseteq Request /\ answer' \in [Node -> Reply]
    BY <1>1, <2>1, ForgetTyped DEF Boot
  <2>3. guard' \in [Node -> Guardian]
    BY <1>1, StoppedTyped DEF Boot, TypeOK
  <2>4. db' \in Row /\ anchor' \in Int
    BY <1>1, RestartedRow DEF Boot, StartAuthority, TypeOK
  <2> QED BY <1>1, <2>2, <2>3, <2>4 DEF Boot, TypeOK, Phase
<1>2. CASE Tick
  BY <1>2 DEF Tick, TypeOK
<1>3. CASE SetWallClock
  BY <1>3, FleetAssumption DEF SetWallClock, TypeOK
<1>4. CASE InstallGuardian
  BY <1>4 DEF InstallGuardian, TypeOK
<1> QED BY <1>1, <1>2, <1>3, <1>4

\* The variables of FleetLease keep their types.
THEOREM TypeCorrect == Spec => []TypeOK
<1>1. TypeOK /\ [Next]_vars => TypeOK'
  <2> SUFFICES ASSUME TypeOK, [Next]_vars PROVE TypeOK'
    OBVIOUS
  <2> QED BY TypeServe, TypeGuard, TypeRole, TypeEnvironment, StutterTyped DEF Next
<1> QED BY TypeInit, <1>1, PTL DEF Spec

-----------------------------------------------------------------------------
(* The clocks and the drain.                                               *)

\* The numbers of a state.
LEMMA Numbers ==
  ASSUME TypeOK
  PROVE  /\ now \in Nat /\ skew \in Int /\ anchor \in Int
         /\ db.drainUntil \in Int /\ db.leaseExpires \in Int
         /\ \A n \in Node : guard[n].deadline \in Int /\ Deadline(n) \in Int
  BY CallFields, RowFields DEF TypeOK

\* After the clocks were compared the wall clock is near the anchor; the role is
\* where it was, and what was covered still is.
LEMMA ClocksCompared ==
  ASSUME FleetInv
  PROVE  /\ skew - NewAnchor <= Tolerance /\ NewAnchor - skew <= Tolerance
         /\ Checked.active = db.active /\ Checked.enrolled = db.enrolled
         /\ Checked.leaseExpires = db.leaseExpires
         /\ Checked.epoch \in {db.epoch, db.epoch + 1}
         /\ Checked.lease # NoLease => Checked.drainUntil >= Checked.leaseExpires + Drain
         /\ \A t \in Int : Covers(db, anchor, t) => Covers(Checked, NewAnchor, t)
<1>1. TypeOK /\ db \in Row
  BY DEF FleetInv, TypeOK
<1>2. CASE ~Jumped
  <2>1. Checked = db /\ NewAnchor = anchor
    BY <1>2 DEF Checked, NewAnchor
  <2>2. skew - anchor <= Tolerance /\ anchor - skew <= Tolerance
    BY <1>1, <1>2, Numbers, ConstantsTyped DEF Jumped
  <2> QED BY <2>1, <2>2 DEF FleetInv, LeaseDrains
<1>3. CASE Jumped
  <2> DEFINE drain == Max2(db.drainUntil, Quarantine(db))
  <2>1. /\ Checked.active = db.active /\ Checked.enrolled = db.enrolled
        /\ Checked.leaseExpires = db.leaseExpires /\ Checked.epoch = db.epoch + 1
        /\ Checked.lease = NoLease /\ Checked.drainUntil = drain
        /\ NewAnchor = skew
    BY <1>1, <1>3 DEF Checked, NewAnchor, Row
  <2>2. drain >= Quarantine(db) /\ drain \in Int
    BY <1>1, Numbers, CheckedRow, Larger
  <2>3. Quarantine(db) >= now + skew + Ttl + Drain
    BY <1>1, Numbers, ConstantsTyped, RowFields DEF Quarantine, Wall, Max2
  <2>4. drain - skew >= now + Ttl + Drain
    BY <1>1, <2>2, <2>3, Numbers, ConstantsTyped, CheckedRow
  <2> HIDE DEF drain
  <2>5. \A t \in Int : Covers(db, anchor, t) => Covers(Checked, NewAnchor, t)
    BY <1>1, <2>1, <2>2, <2>4, Numbers, ConstantsTyped DEF Covers
  <2> QED BY <1>1, <2>1, <2>5, Numbers, ConstantsTyped
<1> QED BY <1>2, <1>3

\* Once the drain is over, what it covered is over.
LEMMA DrainOver ==
  ASSUME TypeOK, NEW d \in Row, NEW a \in Int, NEW t \in Int,
         skew - a <= Tolerance, Wall >= d.drainUntil, Covers(d, a, t)
  PROVE  t + Late < now
<1>1. t + StopMargin + Drain <= now + skew - a + Tolerance
  BY Numbers, RowFields, ConstantsTyped DEF Covers, Wall
<1>2. t + StopMargin + Drain <= now + 2 * Tolerance
  BY <1>1, Numbers, ConstantsTyped
<1> QED BY <1>2, Numbers, ConstantsTyped, FleetAssumption

\* So nobody runs the workload any more or can still start it.
LEMMA NobodyLeft ==
  ASSUME FleetInv, Wall >= Checked.drainUntil
  PROVE  \A n \in Node : ~Usable(n) /\ ~Adoptable(n)
<1> SUFFICES ASSUME NEW n \in Node PROVE ~Usable(n) /\ ~Adoptable(n)
  OBVIOUS
<1>1. TypeOK /\ Checked \in Row /\ NewAnchor \in Int
  BY CheckedRow DEF FleetInv
<1>2. \A t \in Int : Covers(db, anchor, t) => t + Late < now
  BY <1>1, ClocksCompared, DrainOver
<1>3. ~Usable(n)
  <2> SUFFICES ASSUME Usable(n) PROVE FALSE
    OBVIOUS
  <2>1. guard[n].deadline + Late < now
    BY <1>1, <1>2, Numbers DEF FleetInv, DeadlinesCovered
  <2>2. now <= guard[n].deadline + Late
    BY <1>1, Numbers, ConstantsTyped DEF Usable, FleetInv, FencedInTime, FreshEnough
  <2> QED BY <1>1, <2>1, <2>2, Numbers, ConstantsTyped
<1>4. ~Adoptable(n)
  <2> SUFFICES ASSUME Adoptable(n) PROVE FALSE
    OBVIOUS
  <2>1. Deadline(n) + Late < now
    BY <1>1, <1>2, Numbers DEF FleetInv, DeadlinesCovered
  <2>2. now < Deadline(n) - StopBudget
    BY <1>1, Numbers, ConstantsTyped DEF Adoptable
  <2> QED BY <1>1, <2>1, <2>2, Numbers, ConstantsTyped
<1> QED BY <1>3, <1>4

\* Extending a lease keeps covered what was covered, since no deadline is later
\* than a lease that begins now.
LEMMA ExtendCovers ==
  ASSUME FleetInv
  PROVE  \A t \in Int : Covers(db, anchor, t) => Covers(Extend(Checked), NewAnchor, t)
<1>1. TypeOK /\ Checked \in Row /\ NewAnchor \in Int
  BY CheckedRow DEF FleetInv
<1>2. Extend(Checked).drainUntil = now + skew + Ttl + Drain
  BY <1>1 DEF Extend, Row, Wall
<1> QED BY <1>1, <1>2, ClocksCompared, Numbers, ConstantsTyped DEF Covers

-----------------------------------------------------------------------------
(* What keeps the deadlines covered.                                       *)

\* A step that moves neither clock nor role, whose row covers what the old one
\* did, and after which guardians have no deadlines but those they had or could
\* adopt.
LEMMA DeadlinesKept ==
  ASSUME FleetInv, TypeOK', now' = now, db'.active = db.active,
         \A t \in Int : Covers(db, anchor, t) => Covers(db', anchor', t),
         \A n \in Node : Usable(n)' =>
           \/ Usable(n) /\ guard'[n].deadline = guard[n].deadline
           \/ Adoptable(n) /\ guard'[n].deadline = Deadline(n),
         \A n \in Node : Adoptable(n)' => Adoptable(n) /\ Deadline(n)' = Deadline(n),
         \A n \in Node : Alive(n)' =>
           \/ Alive(n) /\ guard'[n].deadline = guard[n].deadline
           \/ now <= guard'[n].deadline
  PROVE  DeadlinesCovered' /\ FencedInTime'
<1>1. TypeOK
  BY DEF FleetInv
<1>2. DeadlinesCovered'
  BY <1>1, Numbers DEF FleetInv, DeadlinesCovered, Covers
<1>3. \A n \in Node : guard'[n].deadline \in Int
  BY DEF TypeOK, Guardian
<1>4. FencedInTime'
  BY <1>1, <1>3, Numbers, ConstantsTyped DEF FleetInv, FencedInTime
<1> QED BY <1>2, <1>4

\* Guardians that are left alone keep their deadlines.
LEMMA RowStep ==
  ASSUME FleetInv, TypeOK', UNCHANGED <<now, guard, answer>>, db'.active = db.active,
         \A t \in Int : Covers(db, anchor, t) => Covers(db', anchor', t)
  PROVE  DeadlinesCovered' /\ FencedInTime'
  BY DeadlinesKept DEF Usable, Alive, FreshEnough, Adoptable, Deadline

\* When nobody is left, the row does not matter.
LEMMA NobodyStep ==
  ASSUME FleetInv, UNCHANGED <<now, guard, answer>>,
         \A n \in Node : ~Usable(n) /\ ~Adoptable(n)
  PROVE  DeadlinesCovered' /\ FencedInTime'
  BY DEF FleetInv, DeadlinesCovered, FencedInTime, Usable, Alive, FreshEnough, Adoptable,
     Deadline

\* An answer to the active node that does not promise more than the row covers.
LEMMA AnswerStep ==
  ASSUME FleetInv, TypeOK', NEW r \in requests, NEW d \in Row, Commit(d), Answer(r, d),
         r.node = db.active, d.active = db.active,
         d.drainUntil >= d.leaseExpires + Drain,
         \A t \in Int : Covers(db, anchor, t) => Covers(d, NewAnchor, t)
  PROVE  DeadlinesCovered' /\ FencedInTime' /\ CallsMatch'
<1>1. TypeOK /\ r \in Request /\ r.node \in Node
  BY CallFields DEF FleetInv
<1>2. now' = now /\ guard' = guard /\ db' = d /\ anchor' = NewAnchor
  BY DEF Answer, Commit, timeVars
<1>3. \A n \in Node : (Usable(n)' <=> Usable(n)) /\ (Alive(n)' <=> Alive(n))
  BY <1>2 DEF Usable, Alive, FreshEnough
<1>4. ASSUME NEW n \in Node, answer'[n] = answer[n], Adoptable(n)'
      PROVE  n = d.active /\ Covers(d, NewAnchor, Deadline(n)')
  <2>1. Adoptable(n) /\ Deadline(n)' = Deadline(n) /\ Deadline(n) \in Int
    BY <1>1, <1>2, <1>4, CallFields DEF Adoptable, Deadline
  <2> QED BY <1>1, <2>1 DEF FleetInv, DeadlinesCovered
<1>5. ASSUME NEW n \in Node, answer'[n] # answer[n], Adoptable(n)'
      PROVE  n = d.active /\ Covers(d, NewAnchor, Deadline(n)')
  <2>1. n = r.node /\ answer'[n] = [ttl |-> d.leaseExpires - Wall, id |-> d.lease.id,
                                    epoch |-> d.epoch]
    BY <1>1, <1>5 DEF Answer, TypeOK
  <2>2. answer'[n].ttl = d.leaseExpires - Wall
    BY <2>1
  <2>3. Deadline(n)' = guard[n].at + (d.leaseExpires - Wall) - StopMargin
    BY <1>2, <2>2 DEF Deadline
  <2>4. d.leaseExpires - Wall \in 1..Ttl
    BY <1>5, <2>2 DEF Adoptable
  <2>5. guard[n].at <= now /\ guard[n].at \in Int
    BY <1>1, CallFields DEF FleetInv, CallsMatch
  <2>6. Deadline(n)' <= d.leaseExpires - skew - StopMargin
    BY <1>1, <2>3, <2>5, Numbers, RowFields, ConstantsTyped DEF Wall
  <2>7. Deadline(n)' <= now + Ttl - StopMargin
    BY <1>1, <2>3, <2>4, <2>5, Numbers, ConstantsTyped
  <2>8. skew - NewAnchor <= Tolerance /\ NewAnchor - skew <= Tolerance
    BY ClocksCompared
  <2>9. Deadline(n)' \in Int
    BY <1>1, <2>3, <2>5, CheckedRow, RowFields, ConstantsTyped
  <2>10. Deadline(n)' + StopMargin + Drain <= d.drainUntil - NewAnchor + Tolerance
    BY <1>1, <2>6, <2>8, <2>9, CheckedRow, Numbers, RowFields, ConstantsTyped
  <2> QED BY <2>1, <2>7, <2>10 DEF Covers
<1>6. \A t : Covers(d, NewAnchor, t) => Covers(db, anchor, t)'
  BY <1>2 DEF Covers
<1>7. DeadlinesCovered'
  <2> SUFFICES ASSUME NEW n \in Node
               PROVE  /\ Usable(n)' => /\ n = db'.active
                                       /\ Covers(db, anchor, guard[n].deadline)'
                      /\ Adoptable(n)' => n = db'.active /\ Covers(db, anchor, Deadline(n))'
    BY DEF DeadlinesCovered
  <2>1. ASSUME Usable(n)
        PROVE  n = d.active /\ Covers(d, NewAnchor, guard[n].deadline)
    BY <1>1, <2>1, Numbers DEF FleetInv, DeadlinesCovered
  <2>2. Usable(n)' => n = db'.active /\ Covers(db, anchor, guard[n].deadline)'
    BY <1>2, <1>3, <2>1 DEF Covers
  <2>3. Adoptable(n)' => n = d.active /\ Covers(d, NewAnchor, Deadline(n)')
    BY <1>4, <1>5
  <2>4. Adoptable(n)' => n = db'.active /\ Covers(db, anchor, Deadline(n))'
    BY <1>2, <2>3 DEF Covers
  <2> QED BY <2>2, <2>4
<1>8. FencedInTime'
  BY <1>2, <1>3 DEF FleetInv, FencedInTime
<1>9. CallsMatch'
  <2>1. \A n \in Node : answer'[n] # answer[n] => n = r.node /\ r.awaited
    BY <1>1 DEF Answer, TypeOK
  <2>2. requests' \subseteq requests
    BY DEF Answer
  <2> QED BY <1>1, <1>2, <2>1, <2>2 DEF FleetInv, CallsMatch
<1> QED BY <1>7, <1>8, <1>9

-----------------------------------------------------------------------------
(* The other parts of the invariant.                                       *)

\* A row that keeps the role and enrolls nobody, with an epoch that does not fall.
LEMMA RowControl ==
  ASSUME FleetInv, TypeOK',
         UNCHANGED <<guard, phase, ociUnit, controllerOn, legacy, marker>>,
         db'.active = db.active, db'.enrolled => db.enrolled, db'.epoch >= db.epoch
  PROVE  SourceFrozen' /\ MarkerCurrent' /\ LegacyUnenrolled'
<1>1. db.epoch \in Int /\ db'.epoch \in Int /\ marker.epoch \in Int
  BY RowFields DEF FleetInv, TypeOK
<1>2. SourceFrozen'
  BY DEF FleetInv, SourceFrozen, Frozen
<1>3. MarkerCurrent'
  BY <1>1 DEF FleetInv, MarkerCurrent, Frozen
<1>4. LegacyUnenrolled'
  BY DEF FleetInv, LegacyUnenrolled
<1> QED BY <1>2, <1>3, <1>4

\* Guardians that are left alone get no new answers and lose requests at most.
LEMMA CallsKept ==
  ASSUME FleetInv, UNCHANGED <<now, guard, answer>>, requests' \subseteq requests
  PROVE  CallsMatch'
  BY DEF FleetInv, CallsMatch

\* A frozen source runs nothing and will not.
LEMMA FrozenQuiet ==
  ASSUME FleetInv, Frozen
  PROVE  \A n \in Node : ~Usable(n) /\ ~Adoptable(n)
  BY DEF FleetInv, SourceFrozen, DeadlinesCovered, CallsMatch, Usable, Alive, Adoptable,
     Node

\* What a start of the authority does to its row.
LEMMA RestartedFields ==
  ASSUME FleetInv, NEW samePolicy \in BOOLEAN
  PROVE  /\ Restarted(samePolicy).active = db.active
         /\ Restarted(samePolicy).enrolled => db.enrolled
         /\ Restarted(samePolicy).epoch = db.epoch + 1
         /\ Restarted(samePolicy).lease = NoLease
         /\ ~HandoffReady => \A t \in Int :
              Covers(db, anchor, t) => Covers(Restarted(samePolicy), skew, t)
<1>1. TypeOK /\ db \in Row
  BY DEF FleetInv, TypeOK
<1>2. /\ Restarted(samePolicy).active = db.active
      /\ Restarted(samePolicy).enrolled = (db.enrolled /\ samePolicy)
      /\ Restarted(samePolicy).epoch = db.epoch + 1
      /\ Restarted(samePolicy).lease = NoLease
      /\ ~HandoffReady =>
           Restarted(samePolicy).drainUntil = Max2(db.drainUntil, Quarantine(db))
  BY <1>1 DEF Restarted, Row
<1>3. Quarantine(db) >= now + skew + Ttl + Drain
  BY <1>1, Numbers, ConstantsTyped, RowFields DEF Quarantine, Wall, Max2
<1>4. Max2(db.drainUntil, Quarantine(db)) >= Quarantine(db)
      /\ Max2(db.drainUntil, Quarantine(db)) \in Int
  BY <1>1, Numbers, CheckedRow, Larger
<1>5. ASSUME ~HandoffReady, NEW t \in Int, Covers(db, anchor, t)
      PROVE  Covers(Restarted(samePolicy), skew, t)
  <2>1. t <= now + Ttl - StopMargin
    BY <1>5 DEF Covers
  <2>2. Restarted(samePolicy).drainUntil >= now + skew + Ttl + Drain
    BY <1>1, <1>2, <1>3, <1>4, <1>5, Numbers, ConstantsTyped, CheckedRow
  <2>3. Restarted(samePolicy).drainUntil \in Int
    BY <1>2, <1>4, <1>5
  <2> QED BY <1>1, <2>1, <2>2, <2>3, Numbers, ConstantsTyped DEF Covers
<1> QED BY <1>2, <1>5

\* A start of the authority keeps the deadlines of guardians that are left alone.
LEMMA RestartStep ==
  ASSUME FleetInv, TypeOK', NEW samePolicy \in BOOLEAN, StartAuthority(samePolicy),
         UNCHANGED <<now, guard, answer>>
  PROVE  DeadlinesCovered' /\ FencedInTime' /\ LeaseDrains'
<1>1. db' = Restarted(samePolicy) /\ anchor' = skew
  BY DEF StartAuthority
<1>2. LeaseDrains'
  BY <1>1, RestartedFields DEF LeaseDrains
<1>3. CASE HandoffReady
  BY <1>2, <1>3, FrozenQuiet, NobodyStep DEF HandoffReady, FleetInv, MarkerCurrent
<1>4. CASE ~HandoffReady
  BY <1>1, <1>2, <1>4, RestartedFields, RowStep
<1> QED BY <1>3, <1>4

-----------------------------------------------------------------------------
(* Every step preserves the invariant.                                     *)

\* The authority.
LEMMA InvServe ==
  ASSUME FleetInv, Serve, ~LostQuarantine
  PROVE  FleetInv'
<1> USE DEF timeVars, authorityVars, guardianVars, hostVars, coordinatorVars
<1>1. TypeOK /\ TypeOK' /\ db \in Row /\ Checked \in Row
  BY TypeServe, CheckedRow DEF FleetInv, TypeOK
<1>2. Checked.epoch >= db.epoch
  BY <1>1, ClocksCompared, RowFields
<1>3. ASSUME NEW d \in Row, Commit(d), d.active = Checked.active,
             d.enrolled = Checked.enrolled, d.epoch = Checked.epoch
      PROVE  /\ db'.active = db.active /\ db'.enrolled = db.enrolled
             /\ db'.epoch >= db.epoch
  BY <1>2, <1>3, ClocksCompared DEF Commit
<1>4. ASSUME NEW d \in Row, Commit(d), d.active = Checked.active,
             d.enrolled = Checked.enrolled, d.epoch = Checked.epoch,
             d.leaseExpires = Checked.leaseExpires, d.drainUntil = Checked.drainUntil,
             d.lease \in {Checked.lease, NoLease}, requests' \subseteq requests,
             UNCHANGED <<timeVars, guard, answer, hostVars, coordinatorVars, legacy>>
      PROVE  FleetInv'
  <2>1. /\ db'.active = db.active /\ db'.enrolled = db.enrolled
        /\ db'.epoch >= db.epoch
    BY <1>3, <1>4
  <2>2. \A t \in Int : Covers(db, anchor, t) => Covers(db', anchor', t)
    BY <1>4, ClocksCompared DEF Commit, Covers
  <2>3. LeaseDrains'
    BY <1>4, ClocksCompared DEF Commit, LeaseDrains
  <2> QED BY <1>1, <1>4, <2>1, <2>2, <2>3, RowStep, RowControl, CallsKept DEF FleetInv
<1>5. CASE ReadStatus
  BY <1>1, <1>4, <1>5 DEF ReadStatus
<1>6. ASSUME NEW armed \in BOOLEAN, Arm(armed) PROVE FleetInv'
  <2> DEFINE d == [Checked EXCEPT !.armed = armed]
  <2>1. d \in Row
    BY <1>1, RowEdits
  <2>2. /\ d.active = Checked.active /\ d.enrolled = Checked.enrolled
        /\ d.epoch = Checked.epoch /\ d.leaseExpires = Checked.leaseExpires
        /\ d.drainUntil = Checked.drainUntil /\ d.lease = Checked.lease
    BY <1>1 DEF Row
  <2>3. Commit(d) /\ requests' \subseteq requests
    BY <1>6 DEF Arm
  <2> HIDE DEF d
  <2> QED BY <1>4, <1>6, <2>1, <2>2, <2>3 DEF Arm
<1>7. CASE Restart
  <2>1. PICK samePolicy \in BOOLEAN : StartAuthority(samePolicy)
    BY <1>7 DEF Restart
  <2>2. db'.active = db.active /\ (db'.enrolled => db.enrolled) /\ db'.epoch >= db.epoch
    BY <1>1, <2>1, RestartedFields, RowFields DEF StartAuthority
  <2> QED BY <1>1, <1>7, <2>1, <2>2, RestartStep, RowControl, CallsKept DEF Restart, FleetInv
<1>8. ASSUME NEW r \in requests, NEW d \in Row, Commit(d), Answer(r, d),
             r.node = Checked.active, d.active = Checked.active,
             d.enrolled = Checked.enrolled, d.epoch = Checked.epoch,
             d.drainUntil >= d.leaseExpires + Drain,
             \A t \in Int : Covers(db, anchor, t) => Covers(d, NewAnchor, t)
      PROVE  FleetInv'
  <2>1. /\ db'.active = db.active /\ db'.enrolled = db.enrolled
        /\ db'.epoch >= db.epoch
    BY <1>3, <1>8
  <2>2. DeadlinesCovered' /\ FencedInTime' /\ CallsMatch'
    BY <1>1, <1>8, ClocksCompared, AnswerStep
  <2>3. LeaseDrains'
    BY <1>8 DEF Commit, LeaseDrains
  <2>4. UNCHANGED <<guard, phase, ociUnit, controllerOn, legacy, marker>>
    BY <1>8 DEF Answer
  <2> QED BY <1>1, <2>1, <2>2, <2>3, <2>4, RowControl DEF FleetInv
<1>9. /\ Extend(Checked).active = Checked.active
      /\ Extend(Checked).enrolled = Checked.enrolled
      /\ Extend(Checked).epoch = Checked.epoch
      /\ Extend(Checked).drainUntil >= Extend(Checked).leaseExpires + Drain
      /\ Extend(Checked) \in Row
  <2>1. /\ Extend(Checked).active = Checked.active
        /\ Extend(Checked).enrolled = Checked.enrolled
        /\ Extend(Checked).epoch = Checked.epoch
        /\ Extend(Checked).drainUntil = Wall + Ttl + Drain
        /\ Extend(Checked).leaseExpires = Wall + Ttl
    BY <1>1 DEF Extend, Row
  <2> QED BY <1>1, <2>1, ExtendedRow, CheckedRow, ConstantsTyped
<1>10. ASSUME NEW r \in requests, Acquire(r) PROVE FleetInv'
  <2>1. r.node = Checked.active
    BY <1>10 DEF Acquire, MayAcquire
  <2>2. CASE Held(Checked) /\ Commit(Checked) /\ Answer(r, Checked)
    BY <1>1, <1>8, <2>1, <2>2, ClocksCompared DEF Held
  <2>3. CASE ~Held(Checked)
    <3>1. PICK id \in UnusedIds :
            LET granted == [Extend(Checked) EXCEPT
                              !.lease = [id |-> id, node |-> r.node, inst |-> r.inst]]
            IN  Commit(granted) /\ Answer(r, granted)
      BY <1>10, <2>3 DEF Acquire
    <3> DEFINE lease == [id |-> id, node |-> r.node, inst |-> r.inst]
               granted == [Extend(Checked) EXCEPT !.lease = lease]
    <3>2. lease \in Lease
      <4>1. id \in Nat \ {0}
        BY FleetAssumption DEF UnusedIds
      <4> QED BY <1>1, <4>1, CallFields DEF Lease
    <3>3. Commit(granted) /\ Answer(r, granted)
      BY <3>1
    <3> HIDE DEF lease
    <3>4. granted \in Row
      BY <1>9, <3>2, RowEdits
    <3>5. /\ granted.active = Extend(Checked).active
          /\ granted.enrolled = Extend(Checked).enrolled
          /\ granted.epoch = Extend(Checked).epoch
          /\ granted.drainUntil = Extend(Checked).drainUntil
          /\ granted.leaseExpires = Extend(Checked).leaseExpires
      BY <1>9 DEF Row
    <3> HIDE DEF granted
    <3>6. \A t \in Int : Covers(db, anchor, t) => Covers(granted, NewAnchor, t)
      BY <3>5, ExtendCovers DEF Covers
    <3> QED BY <1>8, <1>9, <2>1, <3>3, <3>4, <3>5, <3>6
  <2> QED BY <1>10, <2>2, <2>3 DEF Acquire
<1>11. ASSUME NEW r \in requests, Renew(r) PROVE FleetInv'
  <2>1. Commit(Extend(Checked)) /\ Answer(r, Extend(Checked)) /\ r.node = Checked.active
    BY <1>11 DEF Renew, MayRenew, Holder
  <2> QED BY <1>8, <1>9, <2>1, ExtendCovers
<1>12. ASSUME NEW r \in requests, Release(r) PROVE FleetInv'
  <2> DEFINE d == [Checked EXCEPT !.lease = NoLease]
  <2>1. d \in Row
    BY <1>1, NoLeaseTyped, RowEdits
  <2>2. /\ d.active = Checked.active /\ d.enrolled = Checked.enrolled
        /\ d.epoch = Checked.epoch /\ d.leaseExpires = Checked.leaseExpires
        /\ d.drainUntil = Checked.drainUntil /\ d.lease = NoLease
    BY <1>1 DEF Row
  <2>3. Commit(d) /\ requests' \subseteq requests
    BY <1>12 DEF Release
  <2> HIDE DEF d
  <2> QED BY <1>4, <1>12, <2>1, <2>2, <2>3 DEF Release
<1>13. ASSUME NEW r \in requests, Refuse(r) PROVE FleetInv'
  BY <1>1, <1>4, <1>13 DEF Refuse
<1>14. ASSUME NEW r \in requests, Lose(r) \/ RollBack(r) PROVE FleetInv'
  <2>1. /\ db' = db /\ anchor' = anchor /\ requests' \subseteq requests
        /\ UNCHANGED <<timeVars, guard, answer, hostVars, coordinatorVars, legacy>>
    BY <1>14 DEF Lose, RollBack, NewAnchor
  <2>2. db.epoch >= db.epoch
    BY <1>1, RowFields
  <2>3. LeaseDrains'
    BY <2>1 DEF FleetInv, LeaseDrains
  <2> QED BY <1>1, <2>1, <2>2, <2>3, RowStep, RowControl, CallsKept DEF FleetInv
<1> QED BY <1>5, <1>6, <1>7, <1>10, <1>11, <1>12, <1>13, <1>14 DEF Serve

\* Sending adds a request of n; forgetting leaves no answer for n.
LEMMA Messages ==
  ASSUME FleetInv, NEW n \in Node
  PROVE  /\ \A kind, epoch, id : Send(n, kind, epoch, id) =>
              \A r \in requests' : r \in requests
                                     \/ (r.node = n /\ r.awaited = (kind # "release"))
         /\ Forget(n) =>
              /\ answer'[n] = NoAnswer
              /\ \A m \in Node \ {n} : answer'[m] = answer[m]
              /\ \A r \in requests' : r.awaited =>
                   r.node # n /\ \E q \in requests : q.awaited /\ q.node = r.node
<1>1. requests \subseteq Request /\ answer \in [Node -> Reply]
  BY DEF FleetInv, TypeOK
<1>2. \A kind, epoch, id : Send(n, kind, epoch, id) =>
        \A r \in requests' : r \in requests
                               \/ (r.node = n /\ r.awaited = (kind # "release"))
  BY DEF Send
<1>3. ASSUME Forget(n)
      PROVE  /\ answer'[n] = NoAnswer
             /\ \A m \in Node \ {n} : answer'[m] = answer[m]
  BY <1>1, <1>3 DEF Forget
<1>4. ASSUME Forget(n), NEW r \in requests', r.awaited
      PROVE  r.node # n /\ \E q \in requests : q.awaited /\ q.node = r.node
  <2>1. PICK q \in requests : r = [q EXCEPT !.awaited = q.awaited /\ q.node # n]
    BY <1>4 DEF Forget
  <2>2. r.node = q.node /\ r.awaited = (q.awaited /\ q.node # n)
    BY <1>1, <2>1 DEF Request
  <2> QED BY <1>4, <2>2
<1> QED BY <1>2, <1>3, <1>4

\* A step of guardian n to g that uses at most the deadlines n has or can adopt, and
\* whose call, if any, is the only one of n.
LEMMA GuardianStep ==
  ASSUME FleetInv, TypeOK', NEW n \in Node, NEW g \in Guardian, Step(n, g),
         guard[n].pc # "down" \/ UnitOn(n),
         db'.active = db.active, db'.epoch >= db.epoch,
         db'.enrolled => db.enrolled \/ n = "primary", LeaseDrains',
         \A t \in Int : Covers(db, anchor, t) => Covers(db', anchor', t),
         \A m \in Node \ {n} : answer'[m] = answer[m],
         Usable(n)' => \/ Usable(n) /\ g.deadline = guard[n].deadline
                       \/ Adoptable(n) /\ g.deadline = Deadline(n),
         Alive(n)' => \/ Alive(n) /\ g.deadline = guard[n].deadline
                      \/ now <= g.deadline,
         Adoptable(n)' => Adoptable(n) /\ Deadline(n)' = Deadline(n),
         g.at <= now, g.calling => g.pc \in {"waiting", "running"},
         answer'[n] # NoAnswer => g.calling,
         \A r \in requests' : r.awaited =>
           \/ r.node = n /\ g.calling
           \/ r.node # n /\ \E q \in requests : q.awaited /\ q.node = r.node
  PROVE  FleetInv'
<1> USE DEF timeVars, hostVars, coordinatorVars
<1>1. guard \in [Node -> Guardian] /\ now' = now
  BY DEF FleetInv, TypeOK, Step
<1>2. guard'[n] = g /\ \A m \in Node \ {n} : guard'[m] = guard[m]
  BY <1>1 DEF Step
<1>3. \A m \in Node \ {n} : /\ Usable(m)' <=> Usable(m)
                            /\ Alive(m)' <=> Alive(m)
                            /\ Adoptable(m)' <=> Adoptable(m)
                            /\ Deadline(m)' = Deadline(m)
  BY <1>1, <1>2 DEF Usable, Alive, FreshEnough, Adoptable, Deadline
<1>4. DeadlinesCovered' /\ FencedInTime'
  BY <1>1, <1>2, <1>3, DeadlinesKept
<1>5. CallsMatch'
  <2>1. \A m \in Node : /\ guard'[m].at <= now'
                        /\ guard'[m].calling => guard'[m].pc \in {"waiting", "running"}
                        /\ answer'[m] # NoAnswer => guard'[m].calling
    BY <1>1, <1>2 DEF FleetInv, CallsMatch
  <2>2. \A r \in requests' : r.awaited => guard'[r.node].calling
    <3> SUFFICES ASSUME NEW r \in requests', r.awaited PROVE guard'[r.node].calling
      OBVIOUS
    <3>1. r.node \in Node
      BY DEF TypeOK, Request
    <3> QED BY <1>2, <3>1 DEF FleetInv, CallsMatch
  <2> QED BY <2>1, <2>2 DEF CallsMatch
<1>6. SourceFrozen'
  BY <1>1, <1>2 DEF FleetInv, SourceFrozen, Frozen, Step, UnitOn, Node
<1>7. MarkerCurrent'
  <2>1. db.epoch \in Int /\ db'.epoch \in Int /\ marker.epoch \in Int
    BY RowFields DEF FleetInv, TypeOK
  <2> QED BY <2>1 DEF FleetInv, MarkerCurrent, Frozen, Step
<1>8. LegacyUnenrolled'
  BY <1>1, <1>2 DEF FleetInv, LegacyUnenrolled, Step, UnitOn, Node
<1> QED BY <1>4, <1>5, <1>6, <1>7, <1>8 DEF FleetInv

\* A guardian.
LEMMA InvGuard ==
  ASSUME FleetInv, NEW n \in Node, Guard(n)
  PROVE  FleetInv'
<1>1. TypeOK /\ TypeOK' /\ guard[n] \in Guardian /\ guard'[n] \in Guardian
  BY TypeGuard, CallFields DEF FleetInv, TypeOK
<1>2. /\ guard[n].at <= now
      /\ guard[n].calling => guard[n].pc \in {"waiting", "running"}
      /\ answer[n] # NoAnswer => guard[n].calling
      /\ \A r \in requests : r.awaited => guard[r.node].calling
  BY DEF FleetInv, CallsMatch
<1>3. ASSUME UNCHANGED authorityVars
      PROVE  /\ db'.active = db.active /\ db'.enrolled = db.enrolled
             /\ db'.epoch >= db.epoch /\ LeaseDrains'
             /\ \A t \in Int : Covers(db, anchor, t) => Covers(db', anchor', t)
  BY <1>1, <1>3, RowFields DEF authorityVars, FleetInv, LeaseDrains, TypeOK
<1>4. ASSUME Commit(Checked)
      PROVE  /\ db'.active = db.active /\ db'.enrolled = db.enrolled
             /\ db'.epoch >= db.epoch /\ LeaseDrains'
             /\ \A t \in Int : Covers(db, anchor, t) => Covers(db', anchor', t)
  BY <1>1, <1>4, ClocksCompared, RowFields DEF Commit, LeaseDrains, TypeOK
<1>5. now \in Int /\ 0 <= now /\ (\A g : Step(n, g) => now' = now /\ guard'[n] = g)
  BY <1>1 DEF Step, TypeOK, timeVars
<1>6. CASE Start(n)
  <2> DEFINE g == [guard[n] EXCEPT !.pc = IF n = "primary" THEN "boot" ELSE "standby",
                                   !.inst = CHOOSE i \in UnusedNames(n) : TRUE]
  <2>1. /\ guard[n].pc = "down" /\ UnitOn(n) /\ Step(n, g)
        /\ UNCHANGED <<authorityVars, requests, answer>>
    BY <1>6 DEF Start, Quiet
  <2>2. /\ g.pc \in {"boot", "standby"} /\ g.calling = guard[n].calling
        /\ g.at = guard[n].at
    BY <1>1 DEF Guardian
  <2> HIDE DEF g
  <2>3. g \in Guardian /\ guard'[n] = g
    BY <1>1, <1>5, <2>1
  <2>4. ~Usable(n)' /\ ~Alive(n)' /\ ~Adoptable(n)'
    BY <1>2, <2>1, <2>2, <2>3 DEF Usable, Alive, Adoptable
  <2> QED BY <1>1, <1>2, <1>3, <2>1, <2>2, <2>3, <2>4, GuardianStep
<1>7. CASE AskLease(n)
  <2> DEFINE g == [guard[n] EXCEPT !.pc = "waiting", !.calling = TRUE, !.at = now]
  <2>1. /\ guard[n].pc = "standby" /\ Step(n, g) /\ Commit(Checked) /\ answer' = answer
        /\ Send(n, "acquire", Checked.epoch, 0)
    BY <1>7 DEF AskLease
  <2>2. g.pc = "waiting" /\ g.calling = TRUE /\ g.at = now
    BY <1>1 DEF Guardian
  <2> HIDE DEF g
  <2>3. g \in Guardian /\ guard'[n] = g
    BY <1>1, <1>5, <2>1
  <2>4. ~Usable(n)' /\ ~Alive(n)' /\ ~Adoptable(n)'
    BY <1>2, <2>1, <2>2, <2>3 DEF Usable, Alive, Adoptable, NoAnswer
  <2>5. \A r \in requests' : r.awaited =>
          r.node = n \/ \E q \in requests : q.awaited /\ q.node = r.node
    BY <2>1, Messages
  <2> QED BY <1>1, <1>2, <1>4, <1>5, <2>1, <2>2, <2>3, <2>4, <2>5, GuardianStep
<1>8. CASE AskRenewal(n)
  <2> DEFINE g == [guard[n] EXCEPT !.calling = TRUE, !.at = now]
  <2>1. /\ guard[n].pc = "running" /\ ~guard[n].calling /\ Step(n, g)
        /\ UNCHANGED <<authorityVars, answer>>
        /\ Send(n, "renew", guard[n].epoch, guard[n].id)
    BY <1>8 DEF AskRenewal
  <2>2. /\ g.pc = "running" /\ g.calling = TRUE /\ g.at = now
        /\ g.deadline = guard[n].deadline
    BY <1>1, <2>1 DEF Guardian
  <2> HIDE DEF g
  <2>3. g \in Guardian /\ guard'[n] = g
    BY <1>1, <1>5, <2>1
  <2>4. Usable(n) /\ Alive(n) /\ ~Adoptable(n)'
    BY <1>2, <2>1, <2>2, <2>3 DEF Usable, Alive, Adoptable, NoAnswer
  <2>5. \A r \in requests' : r.awaited =>
          r.node = n \/ \E q \in requests : q.awaited /\ q.node = r.node
    BY <2>1, Messages
  <2> QED BY <1>1, <1>2, <1>3, <1>5, <2>1, <2>2, <2>3, <2>4, <2>5, GuardianStep
<1>9. CASE GiveUp(n)
  <2> DEFINE g == [guard[n] EXCEPT !.calling = FALSE, !.at = 0,
                     !.pc = IF @ = "waiting" THEN "standby" ELSE @]
  <2>1. guard[n].calling /\ Step(n, g) /\ Forget(n) /\ UNCHANGED authorityVars
    BY <1>9 DEF GiveUp
  <2>2. /\ g.pc \in {"standby", "running"} /\ g.calling = FALSE /\ g.at = 0
        /\ g.deadline = guard[n].deadline /\ (g.pc = "running" => guard[n].pc = "running")
    BY <1>1, <1>2, <2>1 DEF Guardian
  <2> HIDE DEF g
  <2>3. g \in Guardian /\ guard'[n] = g
    BY <1>1, <1>5, <2>1
  <2>4. (Usable(n)' => Usable(n)) /\ (Alive(n)' => Alive(n)) /\ ~Adoptable(n)'
    BY <2>2, <2>3 DEF Usable, Alive, Adoptable
  <2>5. guard[n].pc # "down"
    BY <1>2, <2>1
  <2> QED BY <1>1, <1>3, <1>5, <2>1, <2>2, <2>3, <2>4, <2>5, Messages, GuardianStep
<1>10. CASE Adopt(n)
  <2> DEFINE g == [guard[n] EXCEPT !.pc = IF @ = "waiting" THEN "granted" ELSE @,
                     !.calling = FALSE, !.at = 0, !.deadline = Deadline(n),
                     !.id = answer[n].id, !.epoch = answer[n].epoch]
  <2>1. Adoptable(n) /\ Step(n, g) /\ Forget(n) /\ UNCHANGED authorityVars
    BY <1>10 DEF Adopt
  <2>2. /\ g.pc \in {"granted", "running"} /\ g.calling = FALSE /\ g.at = 0
        /\ g.deadline = Deadline(n)
    BY <1>1, <1>2, <2>1 DEF Guardian, Adoptable
  <2> HIDE DEF g
  <2>3. g \in Guardian /\ guard'[n] = g
    BY <1>1, <1>5, <2>1
  <2>4. ~Adoptable(n)'
    BY <2>2, <2>3 DEF Adoptable
  <2>5. guard[n].pc # "down" /\ now <= Deadline(n)
    BY <1>1, <1>2, <1>5, <2>1, Numbers, ConstantsTyped DEF Adoptable
  <2> QED BY <1>1, <1>3, <1>5, <2>1, <2>2, <2>3, <2>4, <2>5, Messages, GuardianStep
<1>11. CASE Decline(n)
  <2> DEFINE g == [Stopped EXCEPT !.pc = "standby", !.inst = guard[n].inst]
  <2>1. /\ guard[n].pc = "granted" /\ Step(n, g) /\ UNCHANGED <<authorityVars, answer>>
        /\ Send(n, "release", guard[n].epoch, guard[n].id)
    BY <1>11 DEF Decline
  <2>2. g.pc = "standby" /\ g.calling = FALSE /\ g.at = 0
    BY DEF Stopped
  <2> HIDE DEF g
  <2>3. g \in Guardian /\ guard'[n] = g
    BY <1>1, <1>5, <2>1
  <2>4. ~Usable(n)' /\ ~Alive(n)' /\ ~Adoptable(n)'
    BY <2>2, <2>3 DEF Usable, Alive, Adoptable
  <2>5. \A r \in requests' : r.awaited =>
          r.node # n /\ \E q \in requests : q.awaited /\ q.node = r.node
    BY <1>2, <2>1, Messages
  <2> QED BY <1>1, <1>2, <1>3, <1>5, <2>1, <2>2, <2>3, <2>4, <2>5, GuardianStep
<1>12. CASE Launch(n)
  <2> DEFINE g == [guard[n] EXCEPT !.pc = "running"]
  <2>1. /\ guard[n].pc = "granted" /\ FreshEnough(n) /\ Step(n, g)
        /\ UNCHANGED <<authorityVars, requests, answer>>
    BY <1>12 DEF Launch, Quiet
  <2>2. /\ g.pc = "running" /\ g.calling = guard[n].calling /\ g.at = guard[n].at
        /\ g.deadline = guard[n].deadline
    BY <1>1 DEF Guardian
  <2> HIDE DEF g
  <2>3. g \in Guardian /\ guard'[n] = g
    BY <1>1, <1>5, <2>1
  <2>4. Usable(n) /\ ~Adoptable(n)'
    BY <1>2, <2>1, <2>2, <2>3 DEF Usable, Adoptable
  <2>5. now <= guard[n].deadline
    BY <1>1, <1>5, <2>1, Numbers, ConstantsTyped DEF FreshEnough
  <2> QED BY <1>1, <1>2, <1>3, <2>1, <2>2, <2>3, <2>4, <2>5, GuardianStep
<1>13. CASE Fence(n)
  <2> DEFINE g == [guard[n] EXCEPT !.pc = "stopping", !.calling = FALSE, !.at = 0]
  <2>1. guard[n].pc = "running" /\ Step(n, g) /\ Forget(n) /\ UNCHANGED authorityVars
    BY <1>13 DEF Fence
  <2>2. /\ g.pc = "stopping" /\ g.calling = FALSE /\ g.at = 0
        /\ g.deadline = guard[n].deadline
    BY <1>1 DEF Guardian
  <2> HIDE DEF g
  <2>3. g \in Guardian /\ guard'[n] = g
    BY <1>1, <1>5, <2>1
  <2>4. Usable(n) /\ Alive(n) /\ ~Adoptable(n)'
    BY <2>1, <2>2, <2>3 DEF Usable, Alive, Adoptable
  <2> QED BY <1>1, <1>3, <1>5, <2>1, <2>2, <2>3, <2>4, Messages, GuardianStep
<1>14. CASE GiveBack(n)
  <2> DEFINE g == [guard[n] EXCEPT !.id = 0]
  <2>1. /\ guard[n].pc = "stopping" /\ Step(n, g) /\ UNCHANGED <<authorityVars, answer>>
        /\ Send(n, "release", guard[n].epoch, guard[n].id)
    BY <1>14 DEF GiveBack
  <2>2. /\ g.pc = "stopping" /\ g.calling = guard[n].calling /\ g.at = guard[n].at
        /\ g.deadline = guard[n].deadline
    BY <1>1, <2>1 DEF Guardian
  <2> HIDE DEF g
  <2>3. g \in Guardian /\ guard'[n] = g
    BY <1>1, <1>5, <2>1
  <2>4. Usable(n) /\ Alive(n) /\ ~Adoptable(n)'
    BY <1>2, <2>1, <2>2, <2>3 DEF Usable, Alive, Adoptable
  <2>5. \A r \in requests' : r.awaited =>
          r.node # n /\ \E q \in requests : q.awaited /\ q.node = r.node
    BY <1>2, <2>1, Messages
  <2> QED BY <1>1, <1>2, <1>3, <2>1, <2>2, <2>3, <2>4, <2>5, GuardianStep
<1>15. CASE Die(n)
  <2>1. guard[n].pc # "down" /\ Step(n, Stopped) /\ Forget(n) /\ UNCHANGED authorityVars
    BY <1>15 DEF Die
  <2>2. Stopped.pc = "down" /\ Stopped.calling = FALSE /\ Stopped.at = 0
    BY DEF Stopped
  <2>3. guard'[n] = Stopped
    BY <1>5, <2>1
  <2>4. ~Usable(n)' /\ ~Alive(n)' /\ ~Adoptable(n)'
    BY <2>2, <2>3 DEF Usable, Alive, Adoptable
  <2> QED BY <1>1, <1>3, <1>5, <2>1, <2>2, <2>3, <2>4, Messages, StoppedTyped, GuardianStep
<1> QED BY <1>6, <1>7, <1>8, <1>9, <1>10, <1>11, <1>12, <1>13, <1>14, <1>15 DEF Guard

\* The oci host's guardian ends with its unit.
LEMMA OciStops ==
  ASSUME FleetInv, TypeOK', now' = now, guard' = [guard EXCEPT !["oci"] = Stopped],
         Forget("oci"), db'.active = db.active,
         \A t \in Int : Covers(db, anchor, t) => Covers(db', anchor', t)
  PROVE  DeadlinesCovered' /\ FencedInTime' /\ CallsMatch' /\ guard'["oci"].pc = "down"
<1>1. "oci" \in Node /\ guard \in [Node -> Guardian] /\ now \in Int /\ 0 <= now
  BY DEF Node, FleetInv, TypeOK
<1>2. guard'["oci"] = Stopped /\ \A m \in Node \ {"oci"} : guard'[m] = guard[m]
  BY <1>1
<1>3. /\ answer'["oci"] = NoAnswer
      /\ \A m \in Node \ {"oci"} : answer'[m] = answer[m]
      /\ \A r \in requests' : r.awaited =>
           r.node # "oci" /\ \E q \in requests : q.awaited /\ q.node = r.node
  BY <1>1, Messages
<1>4. Stopped.pc = "down" /\ Stopped.calling = FALSE /\ Stopped.at = 0
  BY DEF Stopped
<1>5. \A m \in Node \ {"oci"} : /\ Usable(m)' <=> Usable(m)
                                /\ Alive(m)' <=> Alive(m)
                                /\ Adoptable(m)' <=> Adoptable(m)
                                /\ Deadline(m)' = Deadline(m)
  BY <1>2, <1>3 DEF Usable, Alive, FreshEnough, Adoptable, Deadline
<1>6. ~Usable("oci")' /\ ~Alive("oci")' /\ ~Adoptable("oci")'
  BY <1>2, <1>4 DEF Usable, Alive, Adoptable
<1>7. DeadlinesCovered' /\ FencedInTime'
  BY <1>2, <1>5, <1>6, DeadlinesKept
<1>8. CallsMatch'
  <2>1. \A m \in Node : /\ guard'[m].at <= now'
                        /\ guard'[m].calling => guard'[m].pc \in {"waiting", "running"}
                        /\ answer'[m] # NoAnswer => guard'[m].calling
    BY <1>1, <1>2, <1>3, <1>4 DEF FleetInv, CallsMatch
  <2>2. \A r \in requests' : r.awaited => guard'[r.node].calling
    <3> SUFFICES ASSUME NEW r \in requests', r.awaited PROVE guard'[r.node].calling
      OBVIOUS
    <3>1. r.node \in Node
      BY DEF TypeOK, Request
    <3> QED BY <1>2, <1>3, <3>1 DEF FleetInv, CallsMatch
  <2> QED BY <2>1, <2>2 DEF CallsMatch
<1> QED BY <1>2, <1>4, <1>7, <1>8

\* Enrollment, the controller and the coordinator.
LEMMA InvRole ==
  ASSUME FleetInv, Enroll \/ Promote \/ Reconcile \/ Coordinate
  PROVE  FleetInv'
<1> USE DEF timeVars, authorityVars, guardianVars, hostVars, coordinatorVars
<1>1. TypeOK /\ TypeOK' /\ db \in Row /\ Checked \in Row
  BY TypeRole, CheckedRow DEF FleetInv, TypeOK
<1>2. db.epoch \in Int /\ db.epoch > 0 /\ Checked.epoch \in Int
      /\ Checked.epoch >= db.epoch /\ marker.epoch \in Int
  BY <1>1, ClocksCompared, RowFields DEF TypeOK
<1>3. ASSUME Commit(Checked)
      PROVE  /\ db'.active = db.active /\ db'.enrolled = db.enrolled
             /\ db'.epoch >= db.epoch /\ LeaseDrains'
             /\ \A t \in Int : Covers(db, anchor, t) => Covers(db', anchor', t)
  BY <1>2, <1>3, ClocksCompared DEF Commit, LeaseDrains
<1>4. ASSUME Commit(Checked), UNCHANGED <<now, guard, answer, requests>>
      PROVE  DeadlinesCovered' /\ FencedInTime' /\ CallsMatch' /\ LeaseDrains'
  BY <1>1, <1>3, <1>4, RowStep, CallsKept
<1>5. CASE Enroll
  <2> DEFINE d == [Checked EXCEPT !.enrolled = TRUE]
             g == [guard["primary"] EXCEPT !.pc = "standby"]
  <2>1. /\ guard["primary"].pc = "boot" /\ Step("primary", g) /\ Commit(d)
        /\ UNCHANGED <<requests, answer>>
    BY <1>5 DEF Enroll
  <2>2. "primary" \in Node /\ guard["primary"] \in Guardian
    BY <1>1 DEF Node, TypeOK
  <2>3. /\ d.active = Checked.active /\ d.epoch = Checked.epoch /\ d.lease = Checked.lease
        /\ d.leaseExpires = Checked.leaseExpires /\ d.drainUntil = Checked.drainUntil
    BY <1>1 DEF Row
  <2>4. /\ g.pc = "standby" /\ g.calling = guard["primary"].calling
        /\ g.at = guard["primary"].at
    BY <2>2 DEF Guardian
  <2> HIDE DEF d, g
  <2>5. g \in Guardian /\ guard'["primary"] = g
    BY <1>1, <2>1, <2>2 DEF Step, TypeOK
  <2>6. /\ guard["primary"].at <= now /\ ~guard["primary"].calling
        /\ answer["primary"] = NoAnswer
        /\ \A r \in requests : r.awaited => guard[r.node].calling
    BY <2>1, <2>2 DEF FleetInv, CallsMatch
  <2>7. ~Usable("primary")' /\ ~Alive("primary")' /\ ~Adoptable("primary")'
    BY <2>4, <2>5, <2>6 DEF Usable, Alive, Adoptable
  <2>8. /\ db'.active = db.active /\ db'.epoch >= db.epoch /\ LeaseDrains'
        /\ \A t \in Int : Covers(db, anchor, t) => Covers(db', anchor', t)
    BY <1>2, <2>1, <2>3, ClocksCompared DEF Commit, LeaseDrains, Covers
  <2> QED BY <1>1, <2>1, <2>2, <2>4, <2>5, <2>6, <2>7, <2>8, GuardianStep
<1>6. ASSUME Wall >= Checked.drainUntil, NEW n \in Node, Commit(MoveTo(Checked, n)),
             UNCHANGED <<now, guard, answer, requests>>
      PROVE  /\ DeadlinesCovered' /\ FencedInTime' /\ CallsMatch' /\ LeaseDrains'
             /\ db'.active = n /\ db'.enrolled = Checked.enrolled
             /\ db'.epoch = Checked.epoch + 1
  <2>1. db'.active = n /\ db'.lease = NoLease /\ db'.enrolled = Checked.enrolled
        /\ db'.epoch = Checked.epoch + 1
    BY <1>1, <1>6 DEF Commit, MoveTo, Row
  <2> QED BY <1>6, <2>1, NobodyLeft, NobodyStep, CallsKept DEF LeaseDrains
<1>7. Drained(Checked) => Wall >= Checked.drainUntil
  <2>1. Checked.drainUntil \in Int /\ Checked.leaseExpires + Drain \in Int /\ Wall \in Int
    BY <1>1, CheckedRow, RowFields, ConstantsTyped
  <2> QED BY <2>1 DEF Drained, Max2
<1>8. CASE Promote
  <2>1. controllerOn /\ MayPromote(Checked) /\ Commit(MoveTo(Checked, "oci"))
        /\ UNCHANGED <<now, guard, answer, requests, hostVars, coordinatorVars, legacy>>
    BY <1>8 DEF Promote
  <2>2. /\ DeadlinesCovered' /\ FencedInTime' /\ CallsMatch' /\ LeaseDrains'
        /\ db'.active = "oci" /\ db'.epoch = Checked.epoch + 1 /\ ~legacy
    BY <1>6, <1>7, <2>1, ClocksCompared DEF MayPromote, Node, FleetInv, LegacyUnenrolled
  <2>3. SourceFrozen' /\ MarkerCurrent' /\ LegacyUnenrolled'
    BY <1>2, <2>1, <2>2 DEF FleetInv, SourceFrozen, MarkerCurrent, LegacyUnenrolled, Frozen
  <2> QED BY <1>1, <2>2, <2>3 DEF FleetInv
<1>9. CASE Reconcile
  <2>1. SourceFrozen' /\ MarkerCurrent' /\ LegacyUnenrolled'
    BY <1>2, <1>3, <1>9 DEF Reconcile, FleetInv, SourceFrozen, MarkerCurrent,
       LegacyUnenrolled, Frozen, Commit
  <2> QED BY <1>1, <1>4, <1>9, <2>1 DEF Reconcile, FleetInv
<1>10. CASE Prepare
  <2>1. SourceFrozen' /\ MarkerCurrent' /\ LegacyUnenrolled'
    BY <1>2, <1>3, <1>10, ClocksCompared DEF Prepare, FleetInv, SourceFrozen,
       MarkerCurrent, LegacyUnenrolled, Frozen, Commit
  <2> QED BY <1>1, <1>4, <1>10, <2>1 DEF Prepare, FleetInv
<1>11. CASE StopController \/ RestartFails
  <2>1. UNCHANGED <<now, db, anchor, guard, answer, requests, legacy, marker>>
    BY <1>11 DEF StopController, RestartFails
  <2>2. DeadlinesCovered' /\ FencedInTime' /\ CallsMatch' /\ LeaseDrains'
    BY <1>1, <2>1, RowStep, CallsKept DEF FleetInv, LeaseDrains
  <2>3. SourceFrozen' /\ MarkerCurrent' /\ LegacyUnenrolled'
    BY <1>11, <2>1 DEF StopController, RestartFails, FleetInv, SourceFrozen,
       MarkerCurrent, LegacyUnenrolled, Frozen
  <2> QED BY <1>1, <2>2, <2>3 DEF FleetInv
<1>12. CASE StopWorkload
  <2>1. /\ phase = "prepared" /\ ~controllerOn /\ Forget("oci") /\ ociUnit' = FALSE
        /\ guard' = [guard EXCEPT !["oci"] = Stopped]
        /\ UNCHANGED <<now, db, anchor, controllerOn, phase, marker, legacy>>
    BY <1>12 DEF StopWorkload
  <2>2. DeadlinesCovered' /\ FencedInTime' /\ CallsMatch' /\ guard'["oci"].pc = "down"
    BY <1>1, <2>1, OciStops
  <2>3. LeaseDrains' /\ SourceFrozen' /\ MarkerCurrent'
    BY <2>1, <2>2 DEF FleetInv, LeaseDrains, SourceFrozen, MarkerCurrent, Frozen
  <2>4. LegacyUnenrolled'
    BY <1>1, <2>1 DEF FleetInv, LegacyUnenrolled, TypeOK, Node
  <2> QED BY <1>1, <2>2, <2>3, <2>4 DEF FleetInv
<1>13. CASE Freeze
  <2>1. SourceFrozen' /\ MarkerCurrent' /\ LegacyUnenrolled'
    BY <1>2, <1>3, <1>13 DEF Freeze, SourceStopped, FleetInv, SourceFrozen,
       MarkerCurrent, LegacyUnenrolled, Frozen, Commit
  <2> QED BY <1>1, <1>4, <1>13, <2>1 DEF Freeze, FleetInv
<1>14. CASE WriteMarker
  <2>1. SourceFrozen' /\ MarkerCurrent' /\ LegacyUnenrolled'
    BY <1>2, <1>3, <1>14 DEF WriteMarker, FleetInv, SourceFrozen, MarkerCurrent,
       LegacyUnenrolled, Frozen, Commit
  <2> QED BY <1>1, <1>4, <1>14, <2>1 DEF WriteMarker, FleetInv
<1>15. CASE RestartWithMarker
  <2>1. /\ phase = "marked" /\ StartAuthority(TRUE) /\ phase' \in {"committing", "frozen"}
        /\ marker' = NoMarker /\ UNCHANGED <<now, guard, answer, requests, hostVars, legacy>>
    BY <1>15 DEF RestartWithMarker
  <2>2. DeadlinesCovered' /\ FencedInTime' /\ LeaseDrains' /\ CallsMatch'
    BY <1>1, <2>1, RestartStep, CallsKept
  <2>3. db'.active = db.active /\ (db'.enrolled => db.enrolled) /\ db'.epoch = db.epoch + 1
    BY <2>1, RestartedFields DEF StartAuthority
  <2>4. SourceFrozen' /\ LegacyUnenrolled'
    BY <2>1, <2>3 DEF FleetInv, SourceFrozen, LegacyUnenrolled, Frozen
  <2>5. MarkerCurrent'
    BY <1>2, <2>1, <2>3 DEF MarkerCurrent, NoMarker
  <2> QED BY <1>1, <2>2, <2>4, <2>5 DEF FleetInv
<1>16. CASE FailBack
  <2>1. /\ phase = "committing" /\ MayFailBack(Checked) /\ Commit(MoveTo(Checked, "primary"))
        /\ phase' \in {"returning", "committing"}
        /\ UNCHANGED <<now, guard, answer, requests, hostVars, marker, legacy>>
    BY <1>16 DEF FailBack
  <2>2. /\ DeadlinesCovered' /\ FencedInTime' /\ CallsMatch' /\ LeaseDrains'
        /\ db'.active = "primary" /\ db'.epoch = Checked.epoch + 1 /\ ~legacy
    BY <1>6, <1>7, <2>1, ClocksCompared DEF MayFailBack, Node, FleetInv, LegacyUnenrolled
  <2>3. SourceFrozen' /\ MarkerCurrent' /\ LegacyUnenrolled'
    BY <1>2, <2>1, <2>2 DEF FleetInv, SourceFrozen, MarkerCurrent, LegacyUnenrolled, Frozen
  <2> QED BY <1>1, <2>2, <2>3 DEF FleetInv
<1>17. CASE FinishFailback
  <2>1. SourceFrozen' /\ MarkerCurrent' /\ LegacyUnenrolled'
    BY <1>2, <1>3, <1>17 DEF FinishFailback, FleetInv, SourceFrozen, MarkerCurrent,
       LegacyUnenrolled, Frozen, Commit
  <2> QED BY <1>1, <1>4, <1>17, <2>1 DEF FinishFailback, FleetInv
<1> QED BY <1>5, <1>8, <1>9, <1>10, <1>11, <1>12, <1>13, <1>14, <1>15, <1>16, <1>17
           DEF Coordinate

\* The environment.
LEMMA InvEnvironment ==
  ASSUME FleetInv, ~UnfencedBoot, Boot \/ Tick \/ SetWallClock \/ InstallGuardian
  PROVE  FleetInv'
<1> USE DEF timeVars, authorityVars, guardianVars, hostVars, coordinatorVars
<1>1. TypeOK /\ TypeOK'
  BY TypeEnvironment DEF FleetInv
<1>2. CASE Boot
  <2>1. /\ ~Frozen /\ StartAuthority(TRUE) /\ Forget("oci")
        /\ guard' = [guard EXCEPT !["oci"] = Stopped]
        /\ ociUnit' = TRUE /\ phase' = phase
        /\ UNCHANGED <<now, marker, legacy>>
    BY <1>2 DEF Boot, Frozen
  <2>2. ~HandoffReady
    BY <2>1 DEF HandoffReady, FleetInv, MarkerCurrent
  <2>3. /\ db'.active = db.active /\ (db'.enrolled => db.enrolled)
        /\ db'.epoch = db.epoch + 1 /\ LeaseDrains'
        /\ \A t \in Int : Covers(db, anchor, t) => Covers(db', anchor', t)
    BY <2>1, <2>2, RestartedFields DEF StartAuthority, LeaseDrains
  <2>4. DeadlinesCovered' /\ FencedInTime' /\ CallsMatch'
    BY <1>1, <2>1, <2>3, OciStops
  <2>5. db.epoch \in Int /\ marker.epoch \in Int
    BY <1>1, RowFields DEF TypeOK
  <2>6. SourceFrozen' /\ MarkerCurrent'
    BY <2>1, <2>3, <2>5 DEF FleetInv, SourceFrozen, MarkerCurrent, Frozen
  <2>7. LegacyUnenrolled'
    BY <1>1, <2>1, <2>3 DEF FleetInv, LegacyUnenrolled, TypeOK, Node
  <2> QED BY <1>1, <2>3, <2>4, <2>6, <2>7 DEF FleetInv
<1>3. CASE Tick
  <2>1. /\ now' = now + 1
        /\ UNCHANGED <<db, anchor, guard, answer, requests, hostVars, coordinatorVars, legacy>>
        /\ \A n \in Node : Alive(n) => now < guard[n].deadline + Late
    BY <1>3 DEF Tick
  <2>2. \A n \in Node : /\ guard[n].deadline \in Int /\ guard[n].at \in Int
                        /\ Deadline(n) \in Int
    BY <1>1, CallFields
  <2>3. \A n \in Node : /\ Alive(n)' <=> Alive(n)
                        /\ Usable(n)' => Usable(n)
                        /\ Adoptable(n)' => Adoptable(n)
                        /\ Deadline(n)' = Deadline(n)
    BY <1>1, <2>1, <2>2, Numbers, ConstantsTyped DEF Usable, Alive, FreshEnough, Adoptable,
       Deadline
  <2>4. \A t \in Int : Covers(db, anchor, t) => Covers(db, anchor, t)'
    BY <1>1, <2>1, Numbers, ConstantsTyped DEF Covers
  <2>5. DeadlinesCovered'
    <3> SUFFICES ASSUME NEW n \in Node
                 PROVE  /\ Usable(n)' => /\ n = db'.active
                                         /\ Covers(db, anchor, guard[n].deadline)'
                        /\ Adoptable(n)' => /\ n = db'.active
                                            /\ Covers(db, anchor, Deadline(n))'
      BY DEF DeadlinesCovered
    <3>1. Usable(n)' => n = db.active /\ Covers(db, anchor, guard[n].deadline)
      BY <2>3 DEF FleetInv, DeadlinesCovered
    <3>2. Covers(db, anchor, guard[n].deadline) => Covers(db, anchor, guard[n].deadline)'
      BY <1>1, <2>1, <2>2, Numbers, ConstantsTyped DEF Covers
    <3>3. Adoptable(n)' => n = db.active /\ Covers(db, anchor, Deadline(n))
      BY <2>3 DEF FleetInv, DeadlinesCovered
    <3>4. Covers(db, anchor, Deadline(n)) => Covers(db, anchor, Deadline(n))'
      BY <1>1, <2>1, <2>2, <2>3, Numbers, ConstantsTyped DEF Covers
    <3> QED BY <2>1, <3>1, <3>2, <3>3, <3>4
  <2>6. FencedInTime'
    BY <1>1, <2>1, <2>2, <2>3, Numbers, ConstantsTyped DEF FencedInTime
  <2>7. CallsMatch'
    BY <1>1, <2>1, <2>2, Numbers DEF FleetInv, CallsMatch
  <2>8. LeaseDrains' /\ SourceFrozen' /\ MarkerCurrent' /\ LegacyUnenrolled'
    BY <2>1 DEF FleetInv, LeaseDrains, SourceFrozen, MarkerCurrent, LegacyUnenrolled, Frozen
  <2> QED BY <1>1, <2>5, <2>6, <2>7, <2>8 DEF FleetInv
<1>4. CASE SetWallClock \/ InstallGuardian
  <2>1. /\ UNCHANGED <<now, authorityVars, guardianVars, hostVars, coordinatorVars>>
        /\ legacy' => legacy
    BY <1>4 DEF SetWallClock, InstallGuardian
  <2>2. DeadlinesCovered' /\ FencedInTime' /\ CallsMatch'
    BY <1>1, <2>1, RowStep, CallsKept
  <2>3. LeaseDrains' /\ SourceFrozen' /\ MarkerCurrent' /\ LegacyUnenrolled'
    BY <2>1 DEF FleetInv, LeaseDrains, SourceFrozen, MarkerCurrent, LegacyUnenrolled, Frozen
  <2> QED BY <1>1, <2>2, <2>3 DEF FleetInv
<1> QED BY <1>2, <1>3, <1>4

\* The initial states satisfy the invariant.
LEMMA InvInit == Init => FleetInv
<1> SUFFICES ASSUME Init PROVE FleetInv
  OBVIOUS
<1>1. TypeOK
  BY TypeInit
<1>2. PICK start \in Starts :
        /\ start[1] = "oci" => ~legacy
        /\ start[1] = "primary" => ociUnit
        /\ db = [epoch |-> 1, active |-> start[1], armed |-> start[1] = "oci",
                 enrolled |-> start[1] = "oci", lease |-> NoLease, leaseExpires |-> 0,
                 drainUntil |-> 0, quarantineUntil |-> 0]
  BY DEF Init
<1>3. start[1] \in Node
  BY FleetAssumption DEF Node
<1>4. /\ \A n \in Node : /\ guard[n].pc = "down" /\ guard[n].calling = FALSE
                         /\ guard[n].at = 0 /\ answer[n] = NoAnswer
      /\ requests = {} /\ phase = "waiting" /\ marker.epoch = 0
  BY DEF Init, Stopped, NoMarker
<1>5. DeadlinesCovered /\ FencedInTime
  BY <1>4 DEF DeadlinesCovered, FencedInTime, Usable, Alive, Adoptable
<1>6. LeaseDrains /\ MarkerCurrent
  BY <1>2, <1>4 DEF LeaseDrains, MarkerCurrent
<1>7. CallsMatch
  BY <1>1, <1>4 DEF CallsMatch, TypeOK
<1>8. SourceFrozen
  BY <1>4 DEF SourceFrozen, Frozen, Node
<1>9. LegacyUnenrolled
  BY <1>2, <1>3, <1>4 DEF LegacyUnenrolled, Node
<1> QED BY <1>1, <1>5, <1>6, <1>7, <1>8, <1>9 DEF FleetInv

\* FleetInv is an invariant if the oci host is not booted while its source counts as
\* frozen, and no noticed clock step is forgotten.
THEOREM FleetInvariant ==
  ASSUME ~UnfencedBoot, ~LostQuarantine
  PROVE  Spec => []FleetInv
<1>1. FleetInv /\ [Next]_vars => FleetInv'
  <2> SUFFICES ASSUME FleetInv, [Next]_vars PROVE FleetInv'
    OBVIOUS
  <2>1. CASE UNCHANGED vars
    <3>1. UNCHANGED <<now, db, anchor, guard, answer, requests, phase, ociUnit,
                      controllerOn, legacy, marker>>
      BY <2>1 DEF vars, timeVars, authorityVars, guardianVars, hostVars, coordinatorVars
    <3>2. TypeOK'
      BY <2>1, StutterTyped DEF FleetInv
    <3>3. DeadlinesCovered' /\ FencedInTime' /\ CallsMatch'
      BY <3>1, <3>2, RowStep, CallsKept
    <3>4. LeaseDrains' /\ SourceFrozen' /\ MarkerCurrent' /\ LegacyUnenrolled'
      BY <3>1 DEF FleetInv, LeaseDrains, SourceFrozen, MarkerCurrent, LegacyUnenrolled,
         Frozen
    <3> QED BY <3>2, <3>3, <3>4 DEF FleetInv
  <2>2. CASE Next
    BY <2>2, InvServe, InvGuard, InvRole, InvEnvironment DEF Next
  <2> QED BY <2>1, <2>2
<1> QED BY InvInit, <1>1, PTL DEF Spec

-----------------------------------------------------------------------------
(* What follows for the machines.                                          *)

\* The workload runs on one machine only: whoever runs it is the active node, and
\* before primary is enrolled nobody else is.
THEOREM OneMachine ==
  ASSUME ~UnfencedBoot, ~LostQuarantine
  PROVE  Spec => []OneWorkload
<1>1. FleetInv => OneWorkload
  BY DEF FleetInv, DeadlinesCovered, Usable, LegacyUnenrolled, OneWorkload, Node
<1> QED BY FleetInvariant, <1>1, PTL

\* Only the active node runs the workload or may still start it.
THEOREM OnlyTheActive ==
  ASSUME ~UnfencedBoot, ~LostQuarantine
  PROVE  Spec => []OnlyActiveRuns
<1>1. FleetInv => OnlyActiveRuns
  BY DEF FleetInv, DeadlinesCovered, Usable, OnlyActiveRuns
<1> QED BY FleetInvariant, <1>1, PTL

\* When the drain is over, so is the workload it was meant for.
THEOREM DrainIsLongEnough ==
  ASSUME ~UnfencedBoot, ~LostQuarantine
  PROVE  Spec => []DrainedMeansStopped
<1>1. FleetInv => DrainedMeansStopped
  <2> SUFFICES ASSUME FleetInv, ~Jumped, Wall >= db.drainUntil, NEW n \in Node
               PROVE  ~Alive(n)
    BY DEF DrainedMeansStopped
  <2>1. Checked = db
    BY DEF Checked
  <2> QED BY <2>1, NobodyLeft DEF Usable
<1> QED BY FleetInvariant, <1>1, PTL

\* A marker that the authority would accept tells the truth.
THEOREM MarkerIsTrue ==
  ASSUME ~UnfencedBoot, ~LostQuarantine
  PROVE  Spec => []MarkerMeansFenced
<1>1. FleetInv => MarkerMeansFenced
  <2> SUFFICES ASSUME FleetInv, HandoffReady PROVE ~Alive("oci")
    BY DEF MarkerMeansFenced
  <2>1. Frozen
    BY DEF FleetInv, MarkerCurrent, HandoffReady
  <2> QED BY <2>1, FrozenQuiet DEF Usable, Node
<1> QED BY FleetInvariant, <1>1, PTL
=============================================================================
