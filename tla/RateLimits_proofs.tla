------------------------- MODULE RateLimits_proofs -------------------------
(***************************************************************************)
(* Proofs about RateLimits for any number of attempts, registrations,      *)
(* windows, messages and limits.                                           *)
(***************************************************************************)
EXTENDS RateLimits, FiniteSetTheorems, TLAPS

-----------------------------------------------------------------------------
(* The inductive invariant, in parts.                                      *)

\* Nothing is posted ahead of the attempt's current message, nor that message
\* itself while it still has to be submitted or is known not to be posted.
NoneAhead ==
  \A u \in Messages :
    /\ u[2] <= index[u[1]]
    /\ pc[u[1]] \in {"start", "holding", "begun", "undo"} => u[2] < index[u[1]]

\* An attempt that has not reserved has no row, and no window recorded.
Fresh ==
  \A a \in Attempts : pc[a] = "start" =>
    /\ index[a] = 1
    /\ \A s \in Slots : ~row[a][s]
    /\ \A c \in Counters : at[a][c] = 0

\* Only the messages a slot contributes to are charged to it, and all of them
\* were, once the attempt holds its reservation.
Shares ==
  \A a \in Attempts : \A s \in SlotsOf(a), i \in Parts(a) :
    /\ part[a][<<s, i>>] \in Charged => i \in PartsOf[a][s]
    /\ pc[a] \notin {"start", "ended"} /\ i \in PartsOf[a][s]
         => part[a][<<s, i>>] # "unused"

\* The current message is marked before it is submitted.
BegunMarked ==
  \A a \in Attempts : pc[a] = "begun" =>
    \A s \in SlotsOf(a) : index[a] \in PartsOf[a][s]
                            => part[a][<<s, index[a]>>] = "submitting"

InFlight == {"submitting", "committed", "unknown"}

\* PostedStaysCharged, for the parts of a swept reservation, too.
PostedMarked ==
  \A u \in Messages : \A s \in SlotsOf(u[1]) :
    u[2] \in PartsOf[u[1]][s] => part[u[1]][<<s, u[2]>>] \in InFlight

\* A window is recorded when it is open; later windows have later numbers.
EpochsPast ==
  /\ \A a \in Attempts, c \in Counters : at[a][c] <= epoch[c]
  /\ \A c \in Counters : open[c] => epoch[c] > 0

\* A reservation is not deleted while a window it was charged to is open.
RowsKept ==
  \A a \in Attempts, c \in Counters :
    c[1] \in SlotsOf(a) /\ open[c] /\ at[a][c] = epoch[c] => row[a][c[1]]

\* An open counter is within its limit.
UsedWithin == \A c \in Counters : open[c] => used[c] <= Limit[c]

Control == NoneAhead /\ Fresh /\ Shares /\ BegunMarked /\ PostedMarked
Books == EpochsPast /\ RowsKept /\ UsedWithin /\ ChargedExactly /\ PostedWithinLimit

QuotaInv == TypeOK /\ Control /\ Books
-----------------------------------------------------------------------------
(* Sets of messages are finite, and their sizes are numbers.               *)

\* There are finitely many messages.
LEMMA UnitsFinite == IsFiniteSet(Units)
<1>1. \A a \in Attempts : IsFiniteSet({a} \X Parts(a))
  <2>1. TAKE a \in Attempts
  <2>2. IsFiniteSet(Parts(a))
    BY QuotaAssumption, FS_Interval DEF Parts
  <2>3. IsFiniteSet({a})
    BY FS_Singleton
  <2>4. QED BY <2>2, <2>3, FS_Product
<1>2. IsFiniteSet({{a} \X Parts(a) : a \in Attempts})
  <2> DEFINE T == {{a} \X Parts(a) : a \in Attempts}
             f == [a \in Attempts |-> {a} \X Parts(a)]
  <2>1. f \in Surjection(Attempts, T) BY DEF Surjection
  <2>2. QED BY <2>1, QuotaAssumption, FS_Surjection
<1>3. QED BY <1>1, <1>2, FS_UNION DEF Units

\* A message is an attempt with one of its parts.
LEMMA UnitShape ==
  /\ \A u \in Units : u = <<u[1], u[2]>> /\ u[1] \in Attempts /\ u[2] \in Parts(u[1])
  /\ \A a \in Attempts : \A i \in Parts(a) : <<a, i>> \in Units
BY DEF Units

\* A set of messages has a size, which is no larger than that of a larger set.
LEMMA SubsetSize ==
  ASSUME NEW T \in SUBSET Units, NEW S \in SUBSET T
  PROVE  /\ IsFiniteSet(S) /\ Cardinality(S) \in Nat
         /\ Cardinality(S) <= Cardinality(T)
<1>1. IsFiniteSet(T) BY UnitsFinite, FS_Subset
<1>2. QED BY <1>1, FS_Subset, FS_CardinalityType

\* Removing a part of a set of messages removes its size.
LEMMA RemovedSize ==
  ASSUME NEW T \in SUBSET Units, NEW S \in SUBSET T
  PROVE  Cardinality(T \ S) = Cardinality(T) - Cardinality(S)
<1>1. IsFiniteSet(T) BY SubsetSize
<1>2. T \cap S = S OBVIOUS
<1>3. QED BY <1>1, <1>2, FS_Difference

\* Adding new messages adds their number.
LEMMA AddedSize ==
  ASSUME NEW T \in SUBSET Units, NEW S \in SUBSET Units, T \cap S = {}
  PROVE  Cardinality(T \cup S) = Cardinality(T) + Cardinality(S)
<1>1. IsFiniteSet(T) /\ IsFiniteSet(S)
  BY UnitsFinite, FS_Subset
<1>2. Cardinality(T \cap S) = 0 BY FS_EmptySet
<1>3. Cardinality(T) \in Nat /\ Cardinality(S) \in Nat BY <1>1, FS_CardinalityType
<1>4. Cardinality(T \cup S) = Cardinality(T) + Cardinality(S) - Cardinality(T \cap S)
  BY <1>1, FS_Union, Zenon
<1>5. QED BY <1>2, <1>3, <1>4

\* Subtraction that stops at zero.
LEMMA LessNat ==
  \A n, m \in Nat : Less(n, m) \in Nat /\ Less(n, m) <= n /\ (m <= n => Less(n, m) = n - m)
BY DEF Less

\* What an attempt pays a slot, and gets back from it, is a number.
LEMMA CostNat ==
  /\ \A a \in Attempts, c \in Counters : Cost(a, c) \in Nat
  /\ \A a \in Attempts, s \in Slots : \A K : Cardinality(UnitsOf(a, s, K)) \in Nat
<1>1. \A a \in Attempts, s \in Slots : Cardinality(Share(a, s)) \in Nat
  <2>1. \A a, s : Share(a, s) \in SUBSET Units BY DEF Share
  <2>2. QED BY <2>1, SubsetSize
<1>2. \A a \in Attempts, s \in Slots : \A K : Cardinality(UnitsOf(a, s, K)) \in Nat
  <2>1. \A a, s, K : UnitsOf(a, s, K) \in SUBSET Units BY DEF UnitsOf
  <2>2. QED BY <2>1, SubsetSize
<1>3. \A c \in Counters : c[1] \in Slots BY DEF Counters
<1>4. QED BY <1>1, <1>2, <1>3 DEF Cost

-----------------------------------------------------------------------------
(* The parts of a reservation.                                             *)

\* Settling changes the named parts of one attempt and nothing else.
LEMMA SettledParts ==
  ASSUME TypeOK, NEW a \in Attempts, NEW K, NEW o \in PartStates, Settled(a, K, o)
  PROVE  /\ part' = [b \in Attempts |-> part'[b]]
         /\ \A b \in Attempts : part'[b] \in [PartKey(b) -> PartStates]
         /\ \A b \in Attempts : b # a => part'[b] = part[b]
         /\ \A k \in PartKey(a) : part'[a][k] = IF k \in K THEN o ELSE part[a][k]
BY DEF TypeOK, Settled

\* A refund leaves every counter a number, and raises none.
LEMMA RefundedCounters ==
  ASSUME TypeOK, NEW a \in Attempts, NEW K, Refunded(a, K)
  PROVE  /\ used' \in [Counters -> Nat]
         /\ \A c \in Counters : used'[c] <= used[c]
<1>1. \A c \in Counters : Cardinality(UnitsOf(a, c[1], K)) \in Nat
  BY CostNat DEF Counters
<1>2. \A c \in Counters : used[c] \in Nat BY DEF TypeOK
<1>3. \A c \in Counters : Less(used[c], Cardinality(UnitsOf(a, c[1], K))) \in 0..used[c]
  <2>1. TAKE c \in Counters
  <2>2. used[c] \in Nat /\ Cardinality(UnitsOf(a, c[1], K)) \in Nat BY <1>1, <1>2
  <2>3. Less(used[c], Cardinality(UnitsOf(a, c[1], K))) \in Nat
        /\ Less(used[c], Cardinality(UnitsOf(a, c[1], K))) <= used[c]
    BY <2>2, LessNat
  <2>4. QED BY <2>2, <2>3
<1>4. \A c \in Counters : used'[c] \in 0..used[c]
  BY <1>2, <1>3 DEF Refunded
<1>5. QED BY <1>2, <1>4 DEF Refunded

\* Reserving marks the shares of the attempt, and opens what was closed.
LEMMA ReservedParts ==
  ASSUME TypeOK, NEW a \in Attempts, Reserve(a)
  PROVE  /\ part' = [b \in Attempts |-> part'[b]]
         /\ \A b \in Attempts : part'[b] \in [PartKey(b) -> PartStates]
         /\ \A b \in Attempts : b # a => part'[b] = part[b] /\ row'[b] = row[b] /\ at'[b] = at[b]
         /\ \A k \in PartKey(a) :
              part'[a][k] = IF k[2] \in PartsOf[a][k[1]] THEN "reserved" ELSE "unused"
         /\ \A s \in Slots : row'[a][s] = (s \in SlotsOf(a))
         /\ at'[a] = epoch'
BY DEF TypeOK, Reserve, PartStates

\* All other steps of an attempt leave its reservation and the counters.
Talk(a) ==
  \/ ReserveDenied(a) \/ BeginRefused(a) \/ PostRefused(a) \/ AnswerAccepted(a)
  \/ AnswerRejected(a) \/ AnswerUnknown(a) \/ CommitFails(a) \/ Acknowledge(a)
  \/ AcknowledgeFails(a) \/ CleanupFails(a) \/ Crash(a) \/ LeaseRunsOut(a) \/ LeaseTaken(a)

\* The transactions that mark parts which remain charged.
Mark(a) == Begin(a) \/ Commit(a) \/ RetainUnknown(a)

\* Every step is one of these.
LEMMA Steps ==
  ASSUME Next
  PROVE  \/ \E a \in Attempts : \/ Talk(a) \/ Mark(a) \/ Reserve(a) \/ Post(a)
                                \/ UndoPart(a) \/ Release(a)
         \/ \E a \in Attempts, s \in Slots : RecoverOrphan(a, s) \/ Sweep(a, s)
         \/ \E c \in Counters : WindowEnds(c)
         \/ \E m \in wire : DiscordPosts(m) \/ DiscordRejects(m)
BY DEF Next, AttemptStep, Talk, Mark

-----------------------------------------------------------------------------
(* Types.                                                                  *)

\* The initial state is well typed.
LEMMA TypeInit == Init => TypeOK
<1>1. \A a \in Attempts : 1 \in Parts(a) BY QuotaAssumption DEF Parts
<1>2. QED BY <1>1 DEF Init, TypeOK, PartStates, Phases

\* Steps that only move an attempt on keep the types.
LEMMA TalkTyped ==
  ASSUME TypeOK, NEW a \in Attempts, Talk(a)
  PROVE  /\ lease' \in [Attempts -> {"live", "late", "gone"}]
         /\ pc' \in [Attempts -> Phases]
         /\ index' = [b \in Attempts |-> index'[b]]
         /\ \A b \in Attempts : index'[b] \in Parts(b)
         /\ \A b \in Attempts : b # a => pc'[b] = pc[b] /\ index'[b] = index[b]
         /\ UNCHANGED <<counterVars, rowVars, netVars>>
<1>1. CASE Acknowledge(a)
  <2>1. /\ index[a] \in Parts(a) /\ Count[a] \in Nat
        /\ index[a] # Count[a] => index[a] + 1 \in Parts(a)
    <3>1. index[a] \in 1..Count[a] BY DEF TypeOK, Parts
    <3>2. Count[a] \in Nat BY QuotaAssumption
    <3>3. QED BY <3>1, <3>2 DEF Parts
  <2>2. QED BY <1>1, <2>1, QuotaAssumption DEF TypeOK, Acknowledge, LastPart, Phases
<1>2. CASE ~Acknowledge(a)
  BY <1>2 DEF TypeOK, Talk, ReserveDenied, BeginRefused, PostRefused, AnswerAccepted,
     AnswerRejected, AnswerUnknown, CommitFails, AcknowledgeFails, CleanupFails, Crash,
     LeaseRunsOut, LeaseTaken, Go, Phases
<1>3. QED BY <1>1, <1>2

\* Every step keeps the types.
LEMMA TypeStep == TypeOK /\ [Next]_vars => TypeOK'
<1> SUFFICES ASSUME TypeOK, [Next]_vars PROVE TypeOK'
  OBVIOUS
<1> USE DEF counterVars, rowVars, attemptVars, netVars
<1>1. CASE UNCHANGED vars
  BY <1>1 DEF vars, TypeOK, PartKey, SlotsOf, Parts, Units
<1>2. ASSUME NEW a \in Attempts, Talk(a) PROVE TypeOK'
  BY <1>2, TalkTyped DEF TypeOK, PartKey, SlotsOf, Parts, Units
<1>3. ASSUME NEW a \in Attempts, Mark(a) PROVE TypeOK'
  <2>1. PICK o \in PartStates : \E K : Settled(a, K, o)
    BY <1>3, Zenon DEF Mark, Begin, Commit, RetainUnknown, PartStates
  <2>2. UNCHANGED <<counterVars, row, at, netVars, lease, index>>
        /\ pc' \in [Attempts -> Phases]
    BY <1>3 DEF Mark, Begin, Commit, RetainUnknown, Go, TypeOK, Phases
  <2>3. QED BY <2>1, <2>2, SettledParts DEF TypeOK, PartKey, SlotsOf, Parts, Units
<1>4. ASSUME NEW a \in Attempts, Reserve(a) PROVE TypeOK'
  <2>1. /\ used' \in [Counters -> Nat]
        /\ epoch' \in [Counters -> Nat]
        /\ open' \in [Counters -> BOOLEAN]
    <3>1. \A c \in Counters : used[c] \in Nat /\ epoch[c] \in Nat /\ Cost(a, c) \in Nat
      BY CostNat DEF TypeOK
    <3>2. QED BY <1>4, <3>1 DEF Reserve, TypeOK
  <2>2. /\ row' \in [Attempts -> [Slots -> BOOLEAN]]
        /\ at' \in [Attempts -> [Counters -> Nat]]
    BY <1>4, <2>1 DEF Reserve, TypeOK
  <2>3. UNCHANGED <<netVars, lease, index>> /\ pc' \in [Attempts -> Phases]
    BY <1>4 DEF Reserve, Go, TypeOK, Phases
  <2>4. QED BY <1>4, <2>1, <2>2, <2>3, ReservedParts DEF TypeOK, PartKey, SlotsOf, Parts, Units
<1>5. ASSUME NEW a \in Attempts, Post(a) PROVE TypeOK'
  <2>1. <<a, index[a]>> \in Units
    BY UnitShape DEF TypeOK
  <2>2. wire' \subseteq Units
    BY <1>5, <2>1 DEF Post, TypeOK
  <2>3. UNCHANGED <<counterVars, rowVars, posted, lease, index>> /\ pc' \in [Attempts -> Phases]
    BY <1>5 DEF Post, Go, TypeOK, Phases
  <2>4. QED BY <2>2, <2>3 DEF TypeOK, PartKey, SlotsOf, Parts, Units
<1>6. ASSUME NEW a \in Attempts, UndoPart(a) \/ Release(a) PROVE TypeOK'
  <2>1. PICK K : Settled(a, K, "released") /\ Refunded(a, K)
    BY <1>6 DEF UndoPart, Release
  <2>2. UNCHANGED <<epoch, open, row, at, netVars, lease, index>>
        /\ pc' \in [Attempts -> Phases]
    BY <1>6 DEF UndoPart, Release, Go, TypeOK, Phases
  <2>3. "released" \in PartStates BY DEF PartStates
  <2>4. QED
    BY <2>1, <2>2, <2>3, SettledParts, RefundedCounters DEF TypeOK, PartKey, SlotsOf, Parts, Units
<1>7. ASSUME NEW a \in Attempts, NEW s \in Slots, RecoverOrphan(a, s) PROVE TypeOK'
  <2>1. PICK K : Settled(a, K, "released") /\ Refunded(a, K)
    BY <1>7 DEF RecoverOrphan
  <2>2. UNCHANGED <<epoch, open, row, at, attemptVars, netVars>>
    BY <1>7 DEF RecoverOrphan
  <2>3. "released" \in PartStates BY DEF PartStates
  <2>4. QED
    BY <2>1, <2>2, <2>3, SettledParts, RefundedCounters DEF TypeOK, PartKey, SlotsOf, Parts, Units
<1>8. ASSUME NEW a \in Attempts, NEW s \in Slots, Sweep(a, s) PROVE TypeOK'
  BY <1>8 DEF Sweep, TypeOK, PartKey, SlotsOf, Parts, Units
<1>9. ASSUME NEW c \in Counters, WindowEnds(c) PROVE TypeOK'
  BY <1>9 DEF WindowEnds, TypeOK, PartKey, SlotsOf, Parts, Units
<1>10. ASSUME NEW m \in wire, DiscordPosts(m) \/ DiscordRejects(m) PROVE TypeOK'
  BY <1>10 DEF DiscordPosts, DiscordRejects, TypeOK, PartKey, SlotsOf, Parts, Units
<1>11. QED BY <1>1, <1>2, <1>3, <1>4, <1>5, <1>6, <1>7, <1>8, <1>9, <1>10, Steps

-----------------------------------------------------------------------------
(* What an attempt does, and what it posted.                               *)

\* Initially nothing is reserved, marked or posted.
LEMMA ControlInit == Init => Control
<1> SUFFICES ASSUME Init PROVE Control
  OBVIOUS
<1>1. NoneAhead /\ PostedMarked BY DEF Init, NoneAhead, PostedMarked, Messages
<1>2. Fresh BY DEF Init, Fresh
<1>3. Shares /\ BegunMarked BY DEF Init, Shares, BegunMarked, PartKey, Charged
<1>4. QED BY <1>1, <1>2, <1>3 DEF Control

\* The messages that are or may be at Discord come from Post alone.
LEMMA MessagesFrom ==
  ASSUME TypeOK, [Next]_vars, NEW u \in Messages', u \notin Messages
  PROVE  \E a \in Attempts : Post(a) /\ u = <<a, index[a]>>
<1> USE DEF counterVars, rowVars, attemptVars, netVars, Messages
<1>1. CASE UNCHANGED vars BY <1>1 DEF vars
<1>2. ASSUME NEW a \in Attempts, Talk(a) PROVE FALSE
  BY <1>2, TalkTyped
<1>3. ASSUME NEW a \in Attempts, Mark(a) \/ Reserve(a) \/ UndoPart(a) \/ Release(a) PROVE FALSE
  BY <1>3 DEF Mark, Begin, Commit, RetainUnknown, Reserve, UndoPart, Release
<1>4. ASSUME NEW a \in Attempts, Post(a) PROVE u = <<a, index[a]>>
  BY <1>4 DEF Post
<1>5. ASSUME NEW a \in Attempts, NEW s \in Slots, RecoverOrphan(a, s) \/ Sweep(a, s) PROVE FALSE
  BY <1>5 DEF RecoverOrphan, Sweep
<1>6. ASSUME NEW c \in Counters, WindowEnds(c) PROVE FALSE
  BY <1>6 DEF WindowEnds
<1>7. ASSUME NEW m \in wire, DiscordPosts(m) \/ DiscordRejects(m) PROVE FALSE
  BY <1>7 DEF DiscordPosts, DiscordRejects
<1>8. QED BY <1>1, <1>2, <1>3, <1>4, <1>5, <1>6, <1>7, Steps

\* How the place of an attempt in the code, and its current part, may change.
Moved(a) ==
  \/ pc'[a] = pc[a] /\ index'[a] = index[a]
  \/ pc'[a] \in Phases \ {"start", "holding", "begun", "undo"} /\ index'[a] = index[a]
       /\ (pc[a] \in {"start", "ended"} => pc'[a] = "ended")
  \/ pc[a] \in {"holding", "begun"} /\ pc'[a] = "undo" /\ index'[a] = index[a]
  \/ pc[a] = "await" /\ pc'[a] = "undo" /\ index'[a] = index[a]
       /\ <<a, index[a]>> \notin Messages
  \/ pc[a] = "ack" /\ pc'[a] = "holding" /\ index'[a] = index[a] + 1
  \/ pc[a] = "start" /\ pc'[a] = "holding" /\ index'[a] = index[a] /\ Reserve(a)
  \/ pc[a] = "holding" /\ pc'[a] = "begun" /\ index'[a] = index[a] /\ Begin(a)

\* Every step moves every attempt in one of these ways.
LEMMA AttemptsMove ==
  ASSUME TypeOK, [Next]_vars, NEW b \in Attempts
  PROVE  Moved(b)
<1> USE DEF counterVars, rowVars, attemptVars, netVars, TypeOK, Phases, Moved, Go
<1>1. CASE UNCHANGED vars BY <1>1 DEF vars
<1>2. ASSUME NEW a \in Attempts, Talk(a) PROVE Moved(b)
  <2>1. CASE a # b BY <1>2, <2>1, TalkTyped
  <2>2. CASE a = b
    BY <1>2, <2>2 DEF Talk, ReserveDenied, BeginRefused, PostRefused, AnswerAccepted,
       AnswerRejected, AnswerUnknown, CommitFails, Acknowledge, AcknowledgeFails,
       CleanupFails, Crash, LeaseRunsOut, LeaseTaken, Rejected, Messages
  <2>3. QED BY <2>1, <2>2
<1>3. ASSUME NEW a \in Attempts, Mark(a) PROVE Moved(b)
  BY <1>3 DEF Mark, Begin, Commit, RetainUnknown
<1>4. ASSUME NEW a \in Attempts, Reserve(a) PROVE Moved(b)
  <2>1. \/ pc' = [pc EXCEPT ![a] = "holding"]
        \/ pc' = [pc EXCEPT ![a] = "ended"]
    BY <1>4 DEF Reserve
  <2>2. index' = index /\ pc[a] = "start" BY <1>4 DEF Reserve
  <2>3. QED BY <1>4, <2>1, <2>2
<1>5. ASSUME NEW a \in Attempts, Post(a) \/ UndoPart(a) \/ Release(a) PROVE Moved(b)
  BY <1>5 DEF Post, UndoPart, Release
<1>6. ASSUME NEW a \in Attempts, NEW s \in Slots, RecoverOrphan(a, s) \/ Sweep(a, s)
      PROVE  Moved(b)
  BY <1>6 DEF RecoverOrphan, Sweep
<1>7. ASSUME NEW c \in Counters, WindowEnds(c) PROVE Moved(b)
  BY <1>7 DEF WindowEnds
<1>8. ASSUME NEW m \in wire, DiscordPosts(m) \/ DiscordRejects(m) PROVE Moved(b)
  BY <1>8 DEF DiscordPosts, DiscordRejects
<1>9. QED BY <1>1, <1>2, <1>3, <1>4, <1>5, <1>6, <1>7, <1>8, Steps

\* No step posts ahead.
LEMMA NoneAheadStep == TypeOK /\ NoneAhead /\ [Next]_vars => NoneAhead'
<1> SUFFICES ASSUME TypeOK, NoneAhead, [Next]_vars, NEW u \in Messages'
             PROVE  /\ u[2] <= index'[u[1]]
                    /\ pc'[u[1]] \in {"start", "holding", "begun", "undo"} => u[2] < index'[u[1]]
  BY DEF NoneAhead
<1>1. CASE u \in Messages
  <2>1. u \in Units BY <1>1 DEF Messages, TypeOK
  <2>2. u = <<u[1], u[2]>> /\ u[1] \in Attempts /\ u[2] \in Parts(u[1])
    BY <2>1, UnitShape
  <2>3. u[2] \in Int /\ index[u[1]] \in Int
    BY <2>2 DEF Parts, TypeOK
  <2>4. u[2] <= index[u[1]]
        /\ (pc[u[1]] \in {"start", "holding", "begun", "undo"} => u[2] < index[u[1]])
    BY <1>1 DEF NoneAhead
  <2>5. Moved(u[1]) BY <2>2, AttemptsMove
  <2>6. u = <<u[1], index[u[1]]>> => u[2] = index[u[1]] BY <2>2
  <2>7. CASE <<u[1], index[u[1]]>> \notin Messages
    <3>1. u[2] < index[u[1]] BY <1>1, <2>2, <2>3, <2>4, <2>7
    <3>2. QED BY <2>3, <2>5, <3>1 DEF Moved
  <2>8. CASE <<u[1], index[u[1]]>> \in Messages
    BY <2>3, <2>4, <2>5, <2>8 DEF Moved
  <2>9. QED BY <2>7, <2>8
<1>2. CASE u \notin Messages
  <2>1. PICK a \in Attempts : Post(a) /\ u = <<a, index[a]>>
    BY <1>2, MessagesFrom
  <2>2. pc'[a] = "await" /\ index'[a] = index[a] /\ index[a] \in Int
    BY <2>1 DEF Post, Go, TypeOK, Parts
  <2>3. QED BY <2>1, <2>2
<1>3. QED BY <1>1, <1>2

\* Nothing but Reserve ends the start of an attempt with a reservation.
LEMMA FreshStep == TypeOK /\ Fresh /\ [Next]_vars => Fresh'
<1> SUFFICES ASSUME TypeOK, Fresh, [Next]_vars, NEW b \in Attempts, pc'[b] = "start"
             PROVE  /\ index'[b] = 1
                    /\ \A s \in Slots : ~row'[b][s]
                    /\ \A c \in Counters : at'[b][c] = 0
  BY DEF Fresh
<1>1. pc[b] = "start" /\ index'[b] = index[b]
  BY AttemptsMove DEF Moved
<1>2. at'[b] = at[b] /\ \A s \in Slots : row'[b][s] => row[b][s]
  <2> USE DEF counterVars, rowVars, attemptVars, netVars
  <2>1. CASE UNCHANGED vars BY <2>1 DEF vars
  <2>2. ASSUME NEW a \in Attempts, Talk(a) PROVE row' = row /\ at' = at
    BY <2>2, TalkTyped
  <2>3. ASSUME NEW a \in Attempts, Mark(a) \/ Post(a) \/ UndoPart(a) \/ Release(a)
        PROVE  row' = row /\ at' = at
    BY <2>3 DEF Mark, Begin, Commit, RetainUnknown, Post, UndoPart, Release
  <2>4. ASSUME NEW a \in Attempts, Reserve(a) PROVE row'[b] = row[b] /\ at'[b] = at[b]
    <3>1. a # b BY <2>4, <1>1 DEF Reserve, Go, TypeOK
    <3>2. QED BY <2>4, <3>1, ReservedParts
  <2>5. ASSUME NEW a \in Attempts, NEW s \in Slots, RecoverOrphan(a, s) \/ Sweep(a, s)
        PROVE  at' = at /\ \A t \in Slots : row'[b][t] => row[b][t]
    <3>1. CASE RecoverOrphan(a, s) BY <3>1 DEF RecoverOrphan
    <3>2. CASE Sweep(a, s)
      <4>1. at' = at /\ row' = [row EXCEPT ![a][s] = FALSE] BY <3>2 DEF Sweep
      <4>2. row \in [Attempts -> [Slots -> BOOLEAN]] BY DEF TypeOK
      <4>3. QED BY <4>1, <4>2
    <3>3. QED BY <2>5, <3>1, <3>2
  <2>6. ASSUME NEW c \in Counters, WindowEnds(c) PROVE row' = row /\ at' = at
    BY <2>6 DEF WindowEnds
  <2>7. ASSUME NEW m \in wire, DiscordPosts(m) \/ DiscordRejects(m) PROVE row' = row /\ at' = at
    BY <2>7 DEF DiscordPosts, DiscordRejects
  <2>8. QED BY <2>1, <2>2, <2>3, <2>4, <2>5, <2>6, <2>7, Steps
<1>3. QED BY <1>1, <1>2 DEF Fresh

\* How the parts of a reservation may change.
Changed(b, K, o) ==
  \A k \in PartKey(b) : part'[b][k] = IF k \in K THEN o ELSE part[b][k]

PartsMoved(b) ==
  \/ part'[b] = part[b] /\ ~Begin(b)
  \/ Reserve(b)
  \/ \E o \in InFlight : /\ Changed(b, Pending(b, index[b]), o)
                         /\ pc[b] \in {"holding", "commit", "retain"}
                         /\ Begin(b) => o = "submitting"
  \/ Changed(b, Pending(b, index[b]), "released") /\ pc[b] = "undo"
  \/ \E K \in SUBSET Reserved(b) : Changed(b, K, "released") /\ ~Begin(b)

\* Every step changes the parts of every reservation in one of these ways.
LEMMA PartsMove ==
  ASSUME TypeOK, [Next]_vars, NEW b \in Attempts
  PROVE  PartsMoved(b)
<1> USE DEF counterVars, rowVars, attemptVars, netVars
<1>0. Begin(b) => pc[b] = "holding" /\ pc'[b] = "begun"
  BY DEF Begin, Go, TypeOK
<1>1. CASE UNCHANGED vars BY <1>0, <1>1 DEF vars, PartsMoved
<1>2. ASSUME NEW a \in Attempts, Talk(a) PROVE PartsMoved(b)
  <2>1. part' = part BY <1>2, TalkTyped
  <2>2. ~Begin(b)
    <3>1. CASE a # b
      <4>1. pc'[b] = pc[b] BY <1>2, <3>1, TalkTyped
      <4>2. QED BY <1>0, <4>1
    <3>2. CASE a = b
      BY <1>0, <1>2, <3>2 DEF Talk, ReserveDenied, BeginRefused, PostRefused, AnswerAccepted,
         AnswerRejected, AnswerUnknown, CommitFails, Acknowledge, AcknowledgeFails,
         CleanupFails, Crash, LeaseRunsOut, LeaseTaken, Go, TypeOK
    <3>3. QED BY <3>1, <3>2
  <2>3. QED BY <2>1, <2>2 DEF PartsMoved
<1>3. ASSUME NEW a \in Attempts, Mark(a) PROVE PartsMoved(b)
  <2>1. PICK o \in InFlight : /\ Settled(a, Pending(a, index[a]), o)
                              /\ Begin(a) => o = "submitting"
    <3>1. CASE Begin(a) BY <3>1 DEF Begin, InFlight
    <3>2. CASE ~Begin(a)
      BY <1>3, <3>2 DEF Mark, Commit, RetainUnknown, InFlight
    <3>3. QED BY <3>1, <3>2
  <2>2. o \in PartStates BY DEF InFlight, PartStates
  <2>3. CASE a = b
    <3>1. Changed(b, Pending(b, index[b]), o) BY <2>1, <2>2, <2>3, SettledParts DEF Changed
    <3>2. pc[b] \in {"holding", "commit", "retain"}
      BY <1>3, <2>3 DEF Mark, Begin, Commit, RetainUnknown
    <3>3. QED BY <2>1, <2>3, <3>1, <3>2 DEF PartsMoved
  <2>4. CASE a # b
    <3>1. part'[b] = part[b] BY <2>1, <2>2, <2>4, SettledParts
    <3>2. pc'[b] = pc[b]
      BY <1>3, <2>4 DEF Mark, Begin, Commit, RetainUnknown, Go, TypeOK
    <3>3. QED BY <1>0, <3>1, <3>2 DEF PartsMoved
  <2>5. QED BY <2>3, <2>4
<1>4. ASSUME NEW a \in Attempts, Reserve(a) PROVE PartsMoved(b)
  <2>1. CASE a = b BY <1>4, <2>1 DEF PartsMoved
  <2>2. CASE a # b
    <3>1. part'[b] = part[b] BY <1>4, <2>2, ReservedParts
    <3>2. pc'[b] = pc[b] BY <1>4, <2>2 DEF Reserve, Go, TypeOK
    <3>3. QED BY <1>0, <3>1, <3>2 DEF PartsMoved
  <2>3. QED BY <2>1, <2>2
<1>5. ASSUME NEW a \in Attempts, Post(a) PROVE PartsMoved(b)
  <2>1. part' = part /\ (pc'[b] = pc[b] \/ pc'[b] = "await") BY <1>5 DEF Post, Go, TypeOK
  <2>2. QED BY <1>0, <2>1 DEF PartsMoved
<1>6. ASSUME NEW a \in Attempts, UndoPart(a) \/ Release(a) PROVE PartsMoved(b)
  <2>1. PICK K : /\ Settled(a, K, "released")
                 /\ \/ K = Pending(a, index[a]) /\ pc[a] = "undo"
                    \/ K = Reserved(a)
    BY <1>6 DEF UndoPart, Release, Returned
  <2>2. "released" \in PartStates BY DEF PartStates
  <2>3. CASE a = b
    <3>1. Changed(b, K, "released") BY <2>1, <2>2, <2>3, SettledParts DEF Changed
    <3>2. pc'[b] \in {"refund", "ended"} BY <1>6, <2>3 DEF UndoPart, Release, Go, TypeOK
    <3>3. QED BY <1>0, <2>1, <2>3, <3>1, <3>2 DEF PartsMoved
  <2>4. CASE a # b
    <3>1. part'[b] = part[b] BY <2>1, <2>2, <2>4, SettledParts
    <3>2. pc'[b] = pc[b] BY <1>6, <2>4 DEF UndoPart, Release, Go, TypeOK
    <3>3. QED BY <1>0, <3>1, <3>2 DEF PartsMoved
  <2>5. QED BY <2>3, <2>4
<1>7. ASSUME NEW a \in Attempts, NEW s \in Slots, RecoverOrphan(a, s) PROVE PartsMoved(b)
  <2>1. Settled(a, OrphanHolds(a, s), "released") /\ pc' = pc
    BY <1>7 DEF RecoverOrphan
  <2>2. "released" \in PartStates BY DEF PartStates
  <2>3. CASE a = b
    <3>1. Changed(b, OrphanHolds(a, s), "released") BY <2>1, <2>2, <2>3, SettledParts DEF Changed
    <3>2. OrphanHolds(a, s) \in SUBSET Reserved(b) BY <2>3 DEF OrphanHolds
    <3>3. QED BY <1>0, <2>1, <3>1, <3>2 DEF PartsMoved
  <2>4. CASE a # b
    <3>1. part'[b] = part[b] BY <2>1, <2>2, <2>4, SettledParts
    <3>2. QED BY <1>0, <2>1, <3>1 DEF PartsMoved
  <2>5. QED BY <2>3, <2>4
<1>8. ASSUME NEW a \in Attempts, NEW s \in Slots, Sweep(a, s) PROVE PartsMoved(b)
  BY <1>0, <1>8 DEF Sweep, PartsMoved
<1>9. ASSUME NEW c \in Counters, WindowEnds(c) PROVE PartsMoved(b)
  BY <1>0, <1>9 DEF WindowEnds, PartsMoved
<1>10. ASSUME NEW m \in wire, DiscordPosts(m) \/ DiscordRejects(m) PROVE PartsMoved(b)
  BY <1>0, <1>10 DEF DiscordPosts, DiscordRejects, PartsMoved
<1>11. QED BY <1>1, <1>2, <1>3, <1>4, <1>5, <1>6, <1>7, <1>8, <1>9, <1>10, Steps

\* Nothing is charged to a slot that does not contribute.
LEMMA SharesStep == TypeOK /\ Shares /\ [Next]_vars => Shares'
<1> SUFFICES ASSUME TypeOK, Shares, [Next]_vars,
                    NEW b \in Attempts, NEW s \in SlotsOf(b), NEW i \in Parts(b)
             PROVE  /\ part'[b][<<s, i>>] \in Charged => i \in PartsOf[b][s]
                    /\ pc'[b] \notin {"start", "ended"} /\ i \in PartsOf[b][s]
                         => part'[b][<<s, i>>] # "unused"
  BY DEF Shares, SlotsOf, Parts
<1>1. <<s, i>> \in PartKey(b) BY DEF PartKey
<1>2. /\ part[b][<<s, i>>] \in Charged => i \in PartsOf[b][s]
      /\ pc[b] \notin {"start", "ended"} /\ i \in PartsOf[b][s] => part[b][<<s, i>>] # "unused"
  BY DEF Shares
<1>3. CASE Reserve(b)
  <2>1. part'[b][<<s, i>>] = IF i \in PartsOf[b][s] THEN "reserved" ELSE "unused"
    BY <1>1, <1>3, ReservedParts
  <2>2. QED BY <2>1 DEF Charged
<1>4. CASE ~Reserve(b)
  <2>1. pc'[b] \notin {"start", "ended"} => pc[b] \notin {"start", "ended"}
    BY <1>4, AttemptsMove DEF Moved
  <2>2. \/ part'[b][<<s, i>>] = part[b][<<s, i>>]
        \/ part[b][<<s, i>>] \in Charged /\ part'[b][<<s, i>>] # "unused"
    <3>1. PartsMoved(b) BY PartsMove
    <3>2. QED
      BY <1>1, <1>4, <3>1 DEF PartsMoved, Changed, Pending, Reserved, Charged, InFlight
  <2>3. QED BY <1>2, <2>1, <2>2
<1>5. QED BY <1>3, <1>4

\* The mark of the current message is made by Begin and stays until it is sent.
LEMMA BegunMarkedStep == TypeOK /\ Shares /\ BegunMarked /\ [Next]_vars => BegunMarked'
<1> SUFFICES ASSUME TypeOK, Shares, BegunMarked, [Next]_vars, NEW b \in Attempts,
                    pc'[b] = "begun", NEW s \in SlotsOf(b), index'[b] \in PartsOf[b][s]
             PROVE  part'[b][<<s, index'[b]>>] = "submitting"
  BY DEF BegunMarked, SlotsOf
<1>1. index[b] \in Parts(b) BY DEF TypeOK
<1>2. <<s, index[b]>> \in PartKey(b) BY <1>1 DEF PartKey
<1>3. index'[b] = index[b] /\ (pc[b] = "begun" \/ Begin(b))
  BY AttemptsMove DEF Moved
<1>4. PartsMoved(b) BY PartsMove
<1>5. CASE Begin(b)
  <2>1. pc[b] = "holding" /\ Beginnable(b) BY <1>5 DEF Begin
  <2>2. part[b][<<s, index[b]>>] = "reserved"
    BY <1>1, <1>2, <1>3, <2>1 DEF Beginnable, Shares
  <2>3. <<s, index[b]>> \in Pending(b, index[b])
    BY <1>2, <2>2 DEF Pending
  <2>4. ~Reserve(b) BY <2>1 DEF Reserve
  <2>5. Changed(b, Pending(b, index[b]), "submitting")
    BY <1>4, <1>5, <2>1, <2>4 DEF PartsMoved
  <2>6. QED BY <1>2, <1>3, <2>3, <2>5 DEF Changed
<1>6. CASE ~Begin(b)
  <2>1. pc[b] = "begun" BY <1>3, <1>6
  <2>2. part[b][<<s, index[b]>>] = "submitting" BY <1>3, <2>1 DEF BegunMarked
  <2>3. ~Reserve(b) BY <2>1 DEF Reserve
  <2>4. QED BY <1>2, <1>3, <1>4, <2>1, <2>2, <2>3 DEF PartsMoved, Changed, Reserved
<1>7. QED BY <1>5, <1>6

\* A message at Discord keeps its charge in every slot.
LEMMA PostedMarkedStep ==
  TypeOK /\ Control /\ [Next]_vars => PostedMarked'
<1> SUFFICES ASSUME TypeOK, Control, [Next]_vars, NEW u \in Messages', NEW s \in SlotsOf(u[1]),
                    u[2] \in PartsOf[u[1]][s]
             PROVE  part'[u[1]][<<s, u[2]>>] \in InFlight
  BY DEF PostedMarked, SlotsOf
<1> DEFINE a == u[1]
           i == u[2]
<1>1. CASE u \in Messages
  <2>1. u \in Units BY <1>1 DEF Messages, TypeOK
  <2>2. u = <<a, i>> /\ a \in Attempts /\ i \in Parts(a) BY <2>1, UnitShape
  <2>3. <<s, i>> \in PartKey(a) BY <2>2 DEF PartKey
  <2>4. part[a][<<s, i>>] \in InFlight BY <1>1 DEF Control, PostedMarked
  <2>5. i \in Nat /\ i >= 1 /\ index[a] \in Nat BY <2>2 DEF Parts, TypeOK
  <2>6. pc[a] \in {"start", "undo"} => i < index[a]
    BY <1>1 DEF Control, NoneAhead
  <2>7. ~Reserve(a)
    <3>1. pc[a] # "start" BY <2>2, <2>5, <2>6 DEF Control, Fresh
    <3>2. QED BY <3>1 DEF Reserve
  <2>8. PartsMoved(a) BY <2>2, PartsMove
  <2>9. CASE pc[a] = "undo" /\ Changed(a, Pending(a, index[a]), "released")
    <3>1. <<s, i>> \notin Pending(a, index[a]) BY <2>5, <2>6, <2>9 DEF Pending
    <3>2. QED BY <2>3, <2>4, <2>9, <3>1 DEF Changed
  <2>10. CASE \E K \in SUBSET Reserved(a) : Changed(a, K, "released")
    BY <2>3, <2>4, <2>10 DEF Changed, Reserved, InFlight
  <2>11. CASE \E o \in InFlight : Changed(a, Pending(a, index[a]), o)
    BY <2>3, <2>4, <2>11 DEF Changed
  <2>12. QED BY <2>4, <2>7, <2>8, <2>9, <2>10, <2>11 DEF PartsMoved
<1>2. CASE u \notin Messages
  <2>1. PICK b \in Attempts : Post(b) /\ u = <<b, index[b]>> BY <1>2, MessagesFrom
  <2>2. pc[b] = "begun" /\ part' = part BY <2>1 DEF Post, rowVars
  <2>3. part[b][<<s, index[b]>>] = "submitting" BY <2>1, <2>2 DEF Control, BegunMarked
  <2>4. QED BY <2>1, <2>2, <2>3 DEF InFlight
<1>3. QED BY <1>1, <1>2

\* What the attempts do and post stays in order.
LEMMA ControlStep == TypeOK /\ Control /\ [Next]_vars => Control'
BY NoneAheadStep, FreshStep, SharesStep, BegunMarkedStep, PostedMarkedStep DEF Control

-----------------------------------------------------------------------------
(* The counters.                                                           *)

\* Initially every window is closed and nothing is posted.
LEMMA BooksInit == Init => Books
<1> SUFFICES ASSUME Init PROVE Books
  OBVIOUS
<1>1. EpochsPast /\ RowsKept /\ UsedWithin /\ ChargedExactly
  BY DEF Init, EpochsPast, RowsKept, UsedWithin, ChargedExactly
<1>2. PostedWithinLimit
  <2>1. \A c \in Counters : MessagesIn(c) = {} BY DEF Init, MessagesIn, Messages
  <2>2. \A c \in Counters : Limit[c] \in Nat BY QuotaAssumption
  <2>3. QED BY <2>1, <2>2, FS_EmptySet DEF PostedWithinLimit
<1>3. QED BY <1>1, <1>2 DEF Books

\* A step that charges nothing and refunds nothing.
Quiet ==
  /\ UNCHANGED <<used, epoch, row, at>>
  /\ \A c \in Counters : open'[c] => open[c]
  /\ \A b \in Attempts : \A k \in PartKey(b) :
       part'[b][k] \in Charged <=> part[b][k] \in Charged

\* A step that gives back the parts K of attempt a.
GiveBack(a, K) ==
  /\ \A k \in K : k \in PartKey(a) /\ row[a][k[1]] /\ part[a][k] \in {"reserved", "submitting"}
  /\ Changed(a, K, "released")
  /\ \A b \in Attempts : b # a => part'[b] = part[b]
  /\ Refunded(a, K)
  /\ UNCHANGED <<epoch, open, row, at>>

\* For the counters these are all the steps there are.
LEMMA BookSteps ==
  ASSUME TypeOK, [Next]_vars
  PROVE  \/ Quiet
         \/ \E a \in Attempts : Reserve(a) \/ \E K : GiveBack(a, K)
         \/ \E a \in Attempts, s \in Slots : Sweep(a, s)
<1> USE DEF counterVars, rowVars, attemptVars, netVars
<1>1. CASE UNCHANGED vars BY <1>1 DEF vars, Quiet
<1>2. ASSUME NEW a \in Attempts, Talk(a) PROVE Quiet
  BY <1>2, TalkTyped DEF Quiet
<1>3. ASSUME NEW a \in Attempts, Mark(a) PROVE Quiet
  <2>1. PICK o \in InFlight : Settled(a, Pending(a, index[a]), o)
    BY <1>3 DEF Mark, Begin, Commit, RetainUnknown, InFlight
  <2>2. o \in PartStates /\ o \in Charged BY DEF InFlight, PartStates, Charged
  <2>3. UNCHANGED <<used, epoch, open, row, at>>
    BY <1>3 DEF Mark, Begin, Commit, RetainUnknown
  <2>4. \A k \in PartKey(a) : part'[a][k] = IF k \in Pending(a, index[a]) THEN o ELSE part[a][k]
    BY <2>1, <2>2, SettledParts
  <2>5. \A k \in Pending(a, index[a]) : part[a][k] \in Charged
    BY DEF Pending, Charged
  <2>6. \A b \in Attempts : b # a => part'[b] = part[b]
    BY <2>1, <2>2, SettledParts
  <2>7. QED BY <2>2, <2>3, <2>4, <2>5, <2>6 DEF Quiet
<1>4. ASSUME NEW a \in Attempts, Post(a) PROVE Quiet
  BY <1>4 DEF Post, Quiet
<1>5. ASSUME NEW a \in Attempts, UndoPart(a) \/ Release(a) PROVE \E K : GiveBack(a, K)
  <2>1. PICK K : /\ Settled(a, K, "released") /\ Refunded(a, K)
                 /\ K = Pending(a, index[a]) \/ K = Reserved(a)
    BY <1>5 DEF UndoPart, Release, Returned
  <2>2. RowsExist(a) /\ UNCHANGED <<epoch, open, row, at>>
    BY <1>5 DEF UndoPart, Release
  <2>3. "released" \in PartStates BY DEF PartStates
  <2>4. \A k \in K : k \in PartKey(a) /\ part[a][k] \in {"reserved", "submitting"}
    BY <2>1 DEF Pending, Reserved
  <2>5. \A k \in PartKey(a) : row[a][k[1]]
    BY <2>2 DEF RowsExist, PartKey
  <2>6. QED BY <2>1, <2>2, <2>3, <2>4, <2>5, SettledParts DEF GiveBack, Changed
<1>6. ASSUME NEW a \in Attempts, NEW s \in Slots, RecoverOrphan(a, s)
      PROVE  GiveBack(a, OrphanHolds(a, s))
  <2>1. /\ Settled(a, OrphanHolds(a, s), "released")
        /\ Refunded(a, OrphanHolds(a, s))
        /\ UNCHANGED <<epoch, open, row, at>> /\ row[a][s]
    BY <1>6 DEF RecoverOrphan
  <2>2. "released" \in PartStates BY DEF PartStates
  <2>3. \A k \in OrphanHolds(a, s) : k \in PartKey(a) /\ k[1] = s /\ part[a][k] = "reserved"
    BY DEF OrphanHolds, Reserved
  <2>4. QED BY <2>1, <2>2, <2>3, SettledParts DEF GiveBack, Changed
<1>7. ASSUME NEW c \in Counters, WindowEnds(c) PROVE Quiet
  BY <1>7 DEF WindowEnds, Quiet, TypeOK
<1>8. ASSUME NEW m \in wire, DiscordPosts(m) \/ DiscordRejects(m) PROVE Quiet
  BY <1>8 DEF DiscordPosts, DiscordRejects, Quiet
<1>9. QED BY <1>1, <1>2, <1>3, <1>4, <1>5, <1>6, <1>7, <1>8, Steps

\* What Reserve does to a counter, by whether its window is still running.
LEMMA ReservedCounter ==
  ASSUME TypeOK, NEW a \in Attempts, Reserve(a), NEW c \in Counters
  PROVE  /\ c \in CountersOf(a) <=> c[1] \in SlotsOf(a)
         /\ c \notin CountersOf(a) =>
              used'[c] = used[c] /\ epoch'[c] = epoch[c] /\ open'[c] = open[c]
         /\ c \in CountersOf(a) /\ open[c] =>
              used'[c] = used[c] + Cost(a, c) /\ epoch'[c] = epoch[c] /\ open'[c]
         /\ c \in CountersOf(a) /\ ~open[c] =>
              used'[c] = Cost(a, c) /\ epoch'[c] = epoch[c] + 1 /\ open'[c]
         /\ c \in CountersOf(a) => used'[c] <= Limit[c]
<1>1. c \in CountersOf(a) <=> c[1] \in SlotsOf(a)
  BY DEF CountersOf, Counters, SlotsOf
<1>2. c \in CountersOf(a) => Fits(a, c)
  BY DEF Reserve
<1>3. used[c] \in Nat /\ epoch[c] \in Nat /\ open[c] \in BOOLEAN /\ Cost(a, c) \in Nat
  BY CostNat DEF TypeOK
<1>4. /\ used'[c] = IF c \notin CountersOf(a) THEN used[c]
                    ELSE IF open[c] THEN used[c] + Cost(a, c) ELSE Cost(a, c)
      /\ epoch'[c] = IF c \in CountersOf(a) /\ ~open[c] THEN epoch[c] + 1 ELSE epoch[c]
      /\ open'[c] = (c \in CountersOf(a) \/ open[c])
  BY DEF Reserve
<1>5. c \in CountersOf(a) => used'[c] <= Limit[c]
  BY <1>2, <1>4 DEF Fits
<1>6. QED BY <1>1, <1>3, <1>4, <1>5

\* Windows only go forward.
LEMMA EpochsPastStep == TypeOK /\ EpochsPast /\ [Next]_vars => EpochsPast'
<1> SUFFICES ASSUME TypeOK, EpochsPast, [Next]_vars, NEW c \in Counters
             PROVE  /\ \A b \in Attempts : at'[b][c] <= epoch'[c]
                    /\ open'[c] => epoch'[c] > 0
  BY DEF EpochsPast
<1>1. /\ epoch[c] \in Nat
      /\ open[c] => epoch[c] > 0
      /\ \A b \in Attempts : at[b][c] \in Nat /\ at[b][c] <= epoch[c]
  BY DEF TypeOK, EpochsPast
<1>2. CASE Quiet BY <1>1, <1>2 DEF Quiet
<1>3. ASSUME NEW a \in Attempts, NEW K, GiveBack(a, K)
      PROVE  at' = at /\ epoch' = epoch /\ open' = open
  BY <1>3 DEF GiveBack
<1>4. ASSUME NEW a \in Attempts, Reserve(a)
      PROVE  /\ \A b \in Attempts : at'[b][c] <= epoch'[c]
             /\ open'[c] => epoch'[c] > 0
  <2>1. epoch'[c] \in Nat /\ epoch[c] <= epoch'[c] /\ (open'[c] => epoch'[c] > 0)
    BY <1>1, <1>4, ReservedCounter
  <2>2. at'[a][c] = epoch'[c] BY <1>4, ReservedParts
  <2>3. \A b \in Attempts : b # a => at'[b][c] = at[b][c] BY <1>4, ReservedParts
  <2>4. QED BY <1>1, <2>1, <2>2, <2>3
<1>5. ASSUME NEW a \in Attempts, NEW s \in Slots, Sweep(a, s)
      PROVE  at' = at /\ epoch' = epoch /\ open' = open
  BY <1>5 DEF Sweep, counterVars
<1>6. QED BY <1>1, <1>2, <1>3, <1>4, <1>5, BookSteps

\* The sweep deletes only what no open window counts.
LEMMA RowsKeptStep == TypeOK /\ EpochsPast /\ RowsKept /\ [Next]_vars => RowsKept'
<1> SUFFICES ASSUME TypeOK, EpochsPast, RowsKept, [Next]_vars,
                    NEW b \in Attempts, NEW c \in Counters,
                    c[1] \in SlotsOf(b), open'[c], at'[b][c] = epoch'[c]
             PROVE  row'[b][c[1]]
  BY DEF RowsKept, SlotsOf
<1>1. open[c] /\ at[b][c] = epoch[c] => row[b][c[1]] BY DEF RowsKept
<1>2. at[b][c] \in Nat /\ epoch[c] \in Nat /\ at[b][c] <= epoch[c]
  BY DEF TypeOK, EpochsPast
<1>3. c[1] \in Slots /\ c = <<c[1], c[2]>> /\ c[2] \in Windows BY DEF Counters
<1>4. CASE Quiet BY <1>1, <1>4 DEF Quiet
<1>5. ASSUME NEW a \in Attempts, NEW K, GiveBack(a, K) PROVE row'[b][c[1]]
  BY <1>1, <1>5 DEF GiveBack
<1>6. ASSUME NEW a \in Attempts, Reserve(a) PROVE row'[b][c[1]]
  <2>1. CASE a = b BY <1>3, <1>6, <2>1, ReservedParts
  <2>2. CASE a # b
    <3>1. row'[b] = row[b] /\ at'[b] = at[b] BY <1>6, <2>2, ReservedParts
    <3>2. open[c] /\ epoch'[c] = epoch[c]
      BY <1>2, <1>6, <3>1, ReservedCounter
    <3>3. QED BY <1>1, <3>1, <3>2
  <2>3. QED BY <2>1, <2>2
<1>7. ASSUME NEW a \in Attempts, NEW s \in Slots, Sweep(a, s) PROVE row'[b][c[1]]
  <2>1. /\ row' = [row EXCEPT ![a][s] = FALSE] /\ UNCHANGED <<open, at, epoch>>
        /\ ~RunningHold(a, s) /\ row[a][s]
    BY <1>7 DEF Sweep, counterVars
  <2>2. row[b][c[1]] BY <1>1, <2>1
  <2>3. ~(a = b /\ s = c[1]) BY <1>3, <2>1 DEF RunningHold
  <2>4. row \in [Attempts -> [Slots -> BOOLEAN]] BY DEF TypeOK
  <2>5. QED BY <1>3, <2>1, <2>2, <2>3, <2>4
<1>8. QED BY <1>4, <1>5, <1>6, <1>7, BookSteps

\* Only a reservation that fits is charged.
LEMMA UsedWithinStep == TypeOK /\ UsedWithin /\ [Next]_vars => UsedWithin'
<1> SUFFICES ASSUME TypeOK, UsedWithin, [Next]_vars, NEW c \in Counters, open'[c]
             PROVE  used'[c] <= Limit[c]
  BY DEF UsedWithin
<1>1. open[c] => used[c] <= Limit[c] BY DEF UsedWithin
<1>2. used[c] \in Nat /\ Limit[c] \in Nat BY QuotaAssumption DEF TypeOK
<1>3. CASE Quiet BY <1>1, <1>3 DEF Quiet
<1>4. ASSUME NEW a \in Attempts, NEW K, GiveBack(a, K) PROVE used'[c] <= Limit[c]
  <2>1. open' = open /\ Refunded(a, K) BY <1>4 DEF GiveBack
  <2>2. used'[c] \in Nat /\ used'[c] <= used[c] BY <2>1, RefundedCounters
  <2>3. QED BY <1>1, <1>2, <2>1, <2>2
<1>5. ASSUME NEW a \in Attempts, Reserve(a) PROVE used'[c] <= Limit[c]
  BY <1>1, <1>5, ReservedCounter
<1>6. ASSUME NEW a \in Attempts, NEW s \in Slots, Sweep(a, s) PROVE used'[c] <= Limit[c]
  BY <1>1, <1>6 DEF Sweep, counterVars
<1>7. QED BY <1>3, <1>4, <1>5, <1>6, BookSteps

\* The messages charged to a counter, spelled out.
LEMMA InUnits ==
  ASSUME NEW c \in Counters, NEW u
  PROVE  u \in UnitsIn(c, Charged) <=>
           /\ u \in Units /\ row[u[1]][c[1]] /\ at[u[1]][c] = epoch[c]
           /\ u[2] \in PartsOf[u[1]][c[1]]
           /\ part[u[1]][<<c[1], u[2]>>] \in Charged
BY DEF UnitsIn

\* A message a slot contributes to has its place in the reservation.
LEMMA UnitKey ==
  ASSUME NEW c \in Counters, NEW u \in Units, u[2] \in PartsOf[u[1]][c[1]]
  PROVE  <<c[1], u[2]>> \in PartKey(u[1]) /\ c[1] \in SlotsOf(u[1]) /\ u[1] \in Attempts
<1>1. u[1] \in Attempts /\ u[2] \in Parts(u[1]) BY UnitShape
<1>2. c[1] \in Slots BY DEF Counters
<1>3. QED BY <1>1, <1>2 DEF PartKey, SlotsOf

\* A quiet step leaves every sum as it is.
LEMMA QuietCharged ==
  ASSUME TypeOK, Quiet, NEW c \in Counters
  PROVE  UnitsIn(c, Charged)' = UnitsIn(c, Charged)
<1> SUFFICES ASSUME NEW u \in Units, u[2] \in PartsOf[u[1]][c[1]]
             PROVE  part'[u[1]][<<c[1], u[2]>>] \in Charged
                      <=> part[u[1]][<<c[1], u[2]>>] \in Charged
  BY DEF UnitsIn, Quiet
<1>1. QED BY UnitKey DEF Quiet

\* A refund takes out of the sum what it takes out of the reservation.
LEMMA GiveBackCharged ==
  ASSUME TypeOK, Shares, ChargedExactly, NEW a \in Attempts, NEW K, GiveBack(a, K),
         NEW c \in Counters, open[c]
  PROVE  used'[c] = Cardinality(UnitsIn(c, Charged)')
<1> DEFINE U == UnitsIn(c, Charged)
           S == UnitsOf(a, c[1], K)
<1>1. used[c] = Cardinality(U) BY DEF ChargedExactly
<1>2. U \in SUBSET Units /\ S \in SUBSET Units BY DEF UnitsIn, UnitsOf
<1>3. used'[c] = IF at[a][c] = epoch[c] THEN Less(used[c], Cardinality(S)) ELSE used[c]
  BY DEF GiveBack, Refunded, Refundable
<1>4. UnitsIn(c, Charged)' = IF at[a][c] = epoch[c] THEN U \ S ELSE U
  <2>1. ASSUME NEW u \in Units
        PROVE  u \in UnitsIn(c, Charged)' <=>
                 u \in U /\ ~(u \in S)
    <3>1. CASE u[2] \in PartsOf[u[1]][c[1]]
      <4>1. <<c[1], u[2]>> \in PartKey(u[1]) /\ u[1] \in Attempts BY <3>1, UnitKey
      <4>2. CASE u[1] = a
        <5>1. part'[a][<<c[1], u[2]>>] = IF <<c[1], u[2]>> \in K THEN "released"
                                         ELSE part[a][<<c[1], u[2]>>]
          BY <4>1, <4>2 DEF GiveBack, Changed
        <5>2. u \in S <=> <<c[1], u[2]>> \in K BY <4>2 DEF UnitsOf
        <5>3. QED BY <4>2, <5>1, <5>2 DEF UnitsIn, GiveBack, Charged
      <4>3. CASE u[1] # a
        <5>1. part'[u[1]] = part[u[1]] BY <4>1, <4>3 DEF GiveBack
        <5>2. u \notin S BY <4>3 DEF UnitsOf
        <5>3. QED BY <5>1, <5>2 DEF UnitsIn, GiveBack
      <4>4. QED BY <4>2, <4>3
    <3>2. CASE u[2] \notin PartsOf[u[1]][c[1]]
      BY <3>2 DEF UnitsIn
    <3>3. QED BY <3>1, <3>2
  <2>2. UnitsIn(c, Charged)' \subseteq Units BY DEF UnitsIn, Units
  <2>3. at[a][c] # epoch[c] => U \cap S = {}
    BY DEF UnitsIn, UnitsOf
  <2>4. QED BY <1>2, <2>1, <2>2, <2>3
<1>5. CASE at[a][c] = epoch[c]
  <2>1. S \in SUBSET U
    <3>1. SUFFICES ASSUME NEW u \in S PROVE u \in U
      OBVIOUS
    <3>2. u \in Units /\ u[1] = a /\ <<c[1], u[2]>> \in K BY DEF UnitsOf
    <3>3. /\ <<c[1], u[2]>> \in PartKey(a) /\ row[a][c[1]]
          /\ part[a][<<c[1], u[2]>>] \in {"reserved", "submitting"}
      BY <3>2 DEF GiveBack
    <3>4. c[1] \in SlotsOf(a) /\ u[2] \in Parts(a) BY <3>3 DEF PartKey
    <3>5. u[2] \in PartsOf[a][c[1]] BY <3>3, <3>4 DEF Shares, Charged
    <3>6. QED BY <1>5, <3>2, <3>3, <3>5 DEF UnitsIn, Charged
  <2>2. Cardinality(U \ S) = Cardinality(U) - Cardinality(S)
    BY <1>2, <2>1, RemovedSize
  <2>3. Cardinality(S) \in Nat /\ Cardinality(U) \in Nat /\ Cardinality(S) <= Cardinality(U)
    BY <1>2, <2>1, SubsetSize
  <2>4. Less(Cardinality(U), Cardinality(S)) = Cardinality(U) - Cardinality(S)
    BY <2>3, LessNat
  <2>5. QED BY <1>1, <1>3, <1>4, <1>5, <2>2, <2>4
<1>6. CASE at[a][c] # epoch[c]
  BY <1>1, <1>3, <1>4, <1>6
<1>7. QED BY <1>5, <1>6

\* A reservation adds to the sum what it adds to the counter.
LEMMA ReserveCharged ==
  ASSUME TypeOK, Fresh, EpochsPast, ChargedExactly, NEW a \in Attempts, Reserve(a),
         NEW c \in Counters, open'[c]
  PROVE  used'[c] = Cardinality(UnitsIn(c, Charged)')
<1> DEFINE U == UnitsIn(c, Charged)
           S == Share(a, c[1])
<1>1. open[c] => used[c] = Cardinality(U) BY DEF ChargedExactly
<1>2. U \in SUBSET Units /\ S \in SUBSET Units BY DEF UnitsIn, Share
<1>3. \A u \in Units : u[1] # a => part'[u[1]] = part[u[1]] /\ row'[u[1]] = row[u[1]]
                                   /\ at'[u[1]] = at[u[1]]
  BY UnitShape, ReservedParts
<1>4. /\ at'[a][c] = epoch'[c] /\ row'[a][c[1]] = (c[1] \in SlotsOf(a))
      /\ ~row[a][c[1]]
  <2>1. c[1] \in Slots BY DEF Counters
  <2>2. pc[a] = "start" BY DEF Reserve
  <2>3. QED BY <2>1, <2>2, ReservedParts DEF Fresh
<1>5. \A u \in Units : u[1] = a =>
        (u \in UnitsIn(c, Charged)' <=> u \in S)
  <2>1. SUFFICES ASSUME NEW u \in Units, u[1] = a
                 PROVE  u \in UnitsIn(c, Charged)' <=> u \in S
    OBVIOUS
  <2>2. CASE u[2] \in PartsOf[a][c[1]]
    <3>1. <<c[1], u[2]>> \in PartKey(a) /\ c[1] \in SlotsOf(a) BY <2>1, <2>2, UnitKey
    <3>2. part'[a][<<c[1], u[2]>>] = "reserved" BY <2>2, <3>1, ReservedParts
    <3>3. QED BY <1>4, <2>1, <2>2, <3>1, <3>2 DEF UnitsIn, Share, Charged
  <2>3. CASE u[2] \notin PartsOf[a][c[1]]
    BY <2>1, <2>3 DEF UnitsIn, Share
  <2>4. QED BY <2>2, <2>3
<1>6. \A u \in S : u[1] = a BY DEF Share
<1>7. \A u \in U : u[1] # a BY <1>4 DEF UnitsIn
<1>8. UnitsIn(c, Charged)' \subseteq Units BY DEF UnitsIn, Units
<1>9. CASE c \notin CountersOf(a)
  <2>1. used'[c] = used[c] /\ epoch'[c] = epoch[c] /\ open[c] /\ c[1] \notin SlotsOf(a)
    BY <1>9, ReservedCounter
  <2>2. S = {}
    <3>1. c[1] \in Slots BY DEF Counters
    <3>2. QED BY <2>1, <3>1 DEF Share, SlotsOf
  <2>3. \A u \in Units : u[1] # a => (u \in UnitsIn(c, Charged)' <=> u \in U)
    BY <1>3, <2>1 DEF UnitsIn
  <2>4. UnitsIn(c, Charged)' = U BY <1>2, <1>5, <1>7, <1>8, <2>2, <2>3
  <2>5. QED BY <1>1, <2>1, <2>4
<1>10. CASE c \in CountersOf(a) /\ open[c]
  <2>1. used'[c] = used[c] + Cost(a, c) /\ epoch'[c] = epoch[c]
    BY <1>10, ReservedCounter
  <2>2. \A u \in Units : u[1] # a => (u \in UnitsIn(c, Charged)' <=> u \in U)
    BY <1>3, <2>1 DEF UnitsIn
  <2>3. UnitsIn(c, Charged)' = U \cup S
    BY <1>2, <1>5, <1>6, <1>7, <1>8, <2>2
  <2>4. U \cap S = {} BY <1>6, <1>7
  <2>5. Cardinality(U \cup S) = Cardinality(U) + Cardinality(S)
    BY <1>2, <2>4, AddedSize
  <2>6. QED BY <1>1, <1>10, <2>1, <2>3, <2>5 DEF Cost
<1>11. CASE c \in CountersOf(a) /\ ~open[c]
  <2>1. used'[c] = Cost(a, c) /\ epoch'[c] = epoch[c] + 1
    BY <1>11, ReservedCounter
  <2>2. \A u \in Units : u[1] # a => u \notin UnitsIn(c, Charged)'
    <3>1. SUFFICES ASSUME NEW u \in Units, u[1] # a PROVE at'[u[1]][c] # epoch'[c]
      BY DEF UnitsIn
    <3>2. u[1] \in Attempts BY UnitShape
    <3>3. at[u[1]][c] <= epoch[c] /\ at[u[1]][c] \in Nat /\ epoch[c] \in Nat
      BY <3>2 DEF EpochsPast, TypeOK
    <3>4. QED BY <1>3, <2>1, <3>1, <3>3
  <2>3. UnitsIn(c, Charged)' = S BY <1>2, <1>5, <1>6, <1>8, <2>2
  <2>4. QED BY <2>1, <2>3 DEF Cost
<1>12. QED BY <1>9, <1>10, <1>11

\* A swept reservation was in the sum of no running window.
LEMMA SweepCharged ==
  ASSUME TypeOK, NEW a \in Attempts, NEW s \in Slots, Sweep(a, s),
         NEW c \in Counters, open[c]
  PROVE  UnitsIn(c, Charged)' = UnitsIn(c, Charged)
<1>1. /\ row' = [row EXCEPT ![a][s] = FALSE] /\ UNCHANGED <<open, at, epoch, part>>
      /\ ~RunningHold(a, s) /\ row[a][s]
  BY DEF Sweep, counterVars
<1>2. row \in [Attempts -> [Slots -> BOOLEAN]] BY DEF TypeOK
<1>3. c[1] \in Slots /\ c = <<c[1], c[2]>> /\ c[2] \in Windows BY DEF Counters
<1>4. s = c[1] => at[a][c] # epoch[c] BY <1>1, <1>3 DEF RunningHold
<1>5. \A u \in Units : u[1] \in Attempts BY UnitShape
<1>6. \A u \in Units : at[u[1]][c] = epoch[c] => row'[u[1]][c[1]] = row[u[1]][c[1]]
  BY <1>1, <1>2, <1>3, <1>4, <1>5
<1>7. QED BY <1>1, <1>6 DEF UnitsIn

\* Counters and reservations stay in balance.
LEMMA ChargedExactlyStep ==
  TypeOK /\ Control /\ Books /\ [Next]_vars => ChargedExactly'
<1> SUFFICES ASSUME TypeOK, Control, Books, [Next]_vars, NEW c \in Counters, open'[c]
             PROVE  used'[c] = Cardinality(UnitsIn(c, Charged)')
  BY DEF ChargedExactly
<1> USE DEF Control, Books
<1>1. open[c] => used[c] = Cardinality(UnitsIn(c, Charged)) BY DEF ChargedExactly
<1>2. CASE Quiet
  <2>1. open[c] /\ used'[c] = used[c] BY <1>2 DEF Quiet
  <2>2. UnitsIn(c, Charged)' = UnitsIn(c, Charged) BY <1>2, QuietCharged
  <2>3. QED BY <1>1, <2>1, <2>2
<1>3. ASSUME NEW a \in Attempts, NEW K, GiveBack(a, K)
      PROVE  used'[c] = Cardinality(UnitsIn(c, Charged)')
  <2>1. open[c] BY <1>3 DEF GiveBack
  <2>2. QED BY <1>3, <2>1, GiveBackCharged
<1>4. ASSUME NEW a \in Attempts, Reserve(a)
      PROVE  used'[c] = Cardinality(UnitsIn(c, Charged)')
  BY <1>4, ReserveCharged
<1>5. ASSUME NEW a \in Attempts, NEW s \in Slots, Sweep(a, s)
      PROVE  used'[c] = Cardinality(UnitsIn(c, Charged)')
  <2>1. open[c] /\ used'[c] = used[c] BY <1>5 DEF Sweep, counterVars
  <2>2. UnitsIn(c, Charged)' = UnitsIn(c, Charged) BY <1>5, <2>1, SweepCharged
  <2>3. QED BY <1>1, <2>1, <2>2
<1>6. QED BY <1>2, <1>3, <1>4, <1>5, BookSteps

-----------------------------------------------------------------------------
(* The quota.                                                              *)

\* The messages posted in the running window of a counter are among those it
\* was charged for.
LEMMA OpenWithin ==
  TypeOK /\ PostedMarked /\ RowsKept /\ UsedWithin /\ ChargedExactly
    => \A c \in Counters : open[c] => Cardinality(MessagesIn(c)) <= Limit[c]
<1> SUFFICES ASSUME TypeOK, PostedMarked, RowsKept, UsedWithin, ChargedExactly,
                    NEW c \in Counters, open[c]
             PROVE  Cardinality(MessagesIn(c)) <= Limit[c]
  OBVIOUS
<1>1. MessagesIn(c) \subseteq UnitsIn(c, Charged)
  <2>1. SUFFICES ASSUME NEW u \in MessagesIn(c) PROVE u \in UnitsIn(c, Charged)
    OBVIOUS
  <2>2. /\ u \in Messages /\ u \in Units
        /\ u[2] \in PartsOf[u[1]][c[1]] /\ at[u[1]][c] = epoch[c]
    BY DEF MessagesIn, Messages, TypeOK
  <2>3. c[1] \in SlotsOf(u[1]) /\ u[1] \in Attempts BY <2>2, UnitKey
  <2>4. row[u[1]][c[1]] BY <2>2, <2>3 DEF RowsKept
  <2>5. part[u[1]][<<c[1], u[2]>>] \in InFlight BY <2>2, <2>3 DEF PostedMarked
  <2>6. QED BY <2>2, <2>4, <2>5 DEF UnitsIn, InFlight, Charged
<1>2. UnitsIn(c, Charged) \in SUBSET Units BY DEF UnitsIn
<1>3. /\ Cardinality(MessagesIn(c)) \in Nat /\ Cardinality(UnitsIn(c, Charged)) \in Nat
      /\ Cardinality(MessagesIn(c)) <= Cardinality(UnitsIn(c, Charged))
  BY <1>1, <1>2, SubsetSize
<1>4. used[c] = Cardinality(UnitsIn(c, Charged)) /\ used[c] <= Limit[c]
  BY DEF ChargedExactly, UsedWithin
<1>5. Limit[c] \in Nat BY QuotaAssumption
<1>6. QED BY <1>3, <1>4, <1>5

\* A window that is over gets no more messages.
LEMMA ClosedMessages ==
  ASSUME TypeOK, TypeOK', [Next]_vars, NEW c \in Counters, ~open'[c]
  PROVE  MessagesIn(c)' \subseteq MessagesIn(c)
<1> SUFFICES ASSUME NEW u \in MessagesIn(c)' PROVE u \in MessagesIn(c)
  OBVIOUS
<1>1. /\ u \in Messages' /\ u \in Units
      /\ u[2] \in PartsOf[u[1]][c[1]] /\ at'[u[1]][c] = epoch'[c]
  BY DEF MessagesIn, Messages, TypeOK, Units
<1>2. c[1] \in SlotsOf(u[1]) /\ u[1] \in Attempts BY <1>1, UnitKey
<1>3. at[u[1]][c] = epoch[c]
  <2>1. CASE Quiet BY <1>1, <2>1 DEF Quiet
  <2>2. ASSUME NEW a \in Attempts, NEW K, GiveBack(a, K) PROVE at[u[1]][c] = epoch[c]
    BY <1>1, <2>2 DEF GiveBack
  <2>3. ASSUME NEW a \in Attempts, Reserve(a) PROVE at[u[1]][c] = epoch[c]
    <3>1. c \notin CountersOf(a) /\ epoch'[c] = epoch[c] BY <2>3, ReservedCounter
    <3>2. u[1] # a BY <1>2, <2>3, <3>1, ReservedCounter
    <3>3. QED BY <1>1, <1>2, <2>3, <3>1, <3>2, ReservedParts
  <2>4. ASSUME NEW a \in Attempts, NEW s \in Slots, Sweep(a, s) PROVE at[u[1]][c] = epoch[c]
    BY <1>1, <2>4 DEF Sweep, counterVars
  <2>5. QED BY <2>1, <2>2, <2>3, <2>4, BookSteps
<1>4. CASE u \in Messages BY <1>1, <1>3, <1>4 DEF MessagesIn
<1>5. CASE u \notin Messages
  <2>1. PICK a \in Attempts : Post(a) /\ u = <<a, index[a]>> BY <1>1, <1>5, MessagesFrom
  <2>2. open[c] BY <1>1, <2>1 DEF Post, Unexpired
  <2>3. open' = open BY <2>1 DEF Post, counterVars
  <2>4. QED BY <2>2, <2>3
<1>6. QED BY <1>4, <1>5

\* No step posts more than a plan allows.
LEMMA WithinStep ==
  ASSUME TypeOK, PostedWithinLimit, [Next]_vars,
         TypeOK', PostedMarked', RowsKept', UsedWithin', ChargedExactly'
  PROVE  PostedWithinLimit'
<1>1. \A c \in Counters : open'[c] => Cardinality(MessagesIn(c)') <= Limit[c]
  <2>1. (TypeOK /\ PostedMarked /\ RowsKept /\ UsedWithin /\ ChargedExactly
           => \A c \in Counters : open[c] => Cardinality(MessagesIn(c)) <= Limit[c])'
    BY OpenWithin, PTL
  <2>2. QED BY <2>1
<1>2. ASSUME NEW c \in Counters, ~open'[c] PROVE Cardinality(MessagesIn(c)') <= Limit[c]
  <2>1. MessagesIn(c)' \subseteq MessagesIn(c) BY <1>2, ClosedMessages
  <2>2. MessagesIn(c) \in SUBSET Units BY DEF MessagesIn, Messages, TypeOK
  <2>3. /\ Cardinality(MessagesIn(c)') \in Nat /\ Cardinality(MessagesIn(c)) \in Nat
        /\ Cardinality(MessagesIn(c)') <= Cardinality(MessagesIn(c))
    BY <2>1, <2>2, SubsetSize
  <2>4. Cardinality(MessagesIn(c)) <= Limit[c] /\ Limit[c] \in Nat
    BY QuotaAssumption DEF PostedWithinLimit
  <2>5. QED BY <2>3, <2>4
<1>3. QED BY <1>1, <1>2 DEF PostedWithinLimit

\* The invariant is inductive.
LEMMA QuotaStep == QuotaInv /\ [Next]_vars => QuotaInv'
<1> SUFFICES ASSUME QuotaInv, [Next]_vars PROVE QuotaInv'
  OBVIOUS
<1>1. TypeOK /\ Control /\ Books BY DEF QuotaInv
<1>2. TypeOK' BY <1>1, TypeStep
<1>3. Control' BY <1>1, ControlStep
<1>4. EpochsPast' BY <1>1, EpochsPastStep DEF Books
<1>5. RowsKept' BY <1>1, RowsKeptStep DEF Books
<1>6. UsedWithin' BY <1>1, UsedWithinStep DEF Books
<1>7. ChargedExactly' BY <1>1, ChargedExactlyStep
<1>8. PostedWithinLimit' BY <1>1, <1>2, <1>3, <1>5, <1>6, <1>7, WithinStep DEF Books, Control
<1>9. QED BY <1>2, <1>3, <1>4, <1>5, <1>6, <1>7, <1>8 DEF QuotaInv, Books

\* The invariant implies what the runs check.
LEMMA QuotaImplies == QuotaInv => PostedStaysCharged
<1> SUFFICES ASSUME QuotaInv, NEW u \in Messages, NEW s \in Slots,
                    u[2] \in PartsOf[u[1]][s]
             PROVE  part[u[1]][<<s, u[2]>>] \in {"submitting", "committed", "unknown"}
  BY DEF PostedStaysCharged
<1>1. s \in SlotsOf(u[1]) BY DEF SlotsOf
<1>2. QED BY <1>1 DEF QuotaInv, Control, PostedMarked, InFlight

\* The strengthened invariant holds in every reachable state, whatever the
\* attempts, registrations, windows, messages and limits are.
THEOREM QuotaInvariant == Spec => []QuotaInv
<1>1. Init => QuotaInv BY TypeInit, ControlInit, BooksInit DEF QuotaInv
<1>2. QuotaInv /\ [Next]_vars => QuotaInv' BY QuotaStep
<1>3. QED BY <1>1, <1>2, PTL DEF Spec

\* The state of the quota always has its type.
THEOREM TypeCorrect == Spec => []TypeOK
<1>1. QuotaInv => TypeOK BY DEF QuotaInv
<1>2. QED BY <1>1, QuotaInvariant, PTL

\* No message that may have reached Discord is refunded, by whichever process.
THEOREM NeverUncharged == Spec => []PostedStaysCharged
BY QuotaImplies, QuotaInvariant, PTL

\* A counter is at all times the sum of what is held and spent in its window.
THEOREM BooksBalance == Spec => []ChargedExactly
<1>1. QuotaInv => ChargedExactly BY DEF QuotaInv, Books
<1>2. QED BY <1>1, QuotaInvariant, PTL

\* No slot gets more messages in a window than its plan allows.
THEOREM WithinQuota == Spec => []PostedWithinLimit
<1>1. QuotaInv => PostedWithinLimit BY DEF QuotaInv, Books
<1>2. QED BY <1>1, QuotaInvariant, PTL

\* What is shown as used today is what was charged and is not reserved.
LEMMA ShownIsConfirmed == QuotaInv => UsageShowsConfirmed
<1> SUFFICES ASSUME QuotaInv, NEW c \in Counters, open[c]
             PROVE  TodayUsed(c) = Cardinality(UnitsIn(c, {"committed"}))
  BY DEF UsageShowsConfirmed
<1> DEFINE Held == UnitsIn(c, {"reserved", "submitting", "unknown"})
           Spent == UnitsIn(c, {"committed"})
<1>1. Held \in SUBSET Units /\ Spent \in SUBSET Units BY DEF UnitsIn
<1>2. Held \cap Spent = {} BY DEF UnitsIn
<1>3. UnitsIn(c, Charged) = Held \cup Spent BY DEF UnitsIn, Charged
<1>4. used[c] = Cardinality(Held \cup Spent)
  BY <1>3 DEF QuotaInv, Books, ChargedExactly
<1>5. Cardinality(Held \cup Spent) = Cardinality(Held) + Cardinality(Spent)
  BY <1>1, <1>2, AddedSize
<1>6. Cardinality(Held) \in Nat /\ Cardinality(Spent) \in Nat BY <1>1, SubsetSize
<1>7. TodayUsed(c) = Less(used[c], Cardinality(Held)) BY DEF TodayUsed, TodayReserved
<1> HIDE DEF Held, Spent
<1>8. Less(used[c], Cardinality(Held)) = Cardinality(Spent)
  BY <1>4, <1>5, <1>6 DEF Less
<1>9. QED BY <1>7, <1>8 DEF Spent

\* The number shown as used today is that of the messages that were confirmed.
THEOREM UsageIsTrue == Spec => []UsageShowsConfirmed
BY ShownIsConfirmed, QuotaInvariant, PTL

=============================================================================
