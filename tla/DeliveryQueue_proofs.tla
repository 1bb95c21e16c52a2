------------------------ MODULE DeliveryQueue_proofs ------------------------
(***************************************************************************)
(* Proofs about DeliveryQueue for any number of jobs, processes, monitors, *)
(* leases and messages per batch.                                          *)
(***************************************************************************)
EXTENDS DeliveryQueue, FiniteSetTheorems, TLAPS

-----------------------------------------------------------------------------
(* The inductive invariant, in parts.                                      *)

\* Lease tokens are fresh when granted, and no two workers remember the same.
Tokens ==
  /\ \A j \in Jobs : lease[j] <= lastLease
  /\ \A r \in Requests : r.lease <= lastLease
  /\ \A w \in Workers : wlease[w] <= lastLease
  /\ \A w \in Workers : pc[w] \notin {"idle", "recovered"} =>
       wjob[w] \in Jobs /\ wlease[w] # NoLease
  /\ \A v, w \in Workers : v # w /\ wlease[v] = wlease[w] => wlease[w] = NoLease

\* A worker that still has something to send knows how much of it.
Counts ==
  \A w \in Workers :
    /\ pc[w] = "prepared" => wsteps[w] > 0
    /\ pc[w] \notin PhaseSending \cup {"settle"} => wconf[w] = 0
    /\ pc[w] \in PhaseSending => wconf[w] < wsteps[w]

\* Only an event that joined a batch is aggregated.
Adopted == \A j \in Jobs : state[j] = "aggregated" => parent[j] \in Jobs

\* While a row is in sending, what is at Discord for it came from its holder.
HolderSubmits ==
  \A r \in Requests : state[r.job] = "sending" => r.lease = lease[r.job]

\* A worker in the sending loop owns its row, until a claim gives it up.
OwnsOrAbandoned ==
  \A w \in Workers : pc[w] \in PhaseSending =>
    \/ state[wjob[w]] = "sending" /\ lease[wjob[w]] = wlease[w]
    \/ state[wjob[w]] = "unknown" /\ lease[wjob[w]] = NoLease

\* Two workers are never in the sending loop with the same row.
OneSender ==
  \A v, w \in Workers :
    v # w /\ pc[v] \in PhaseSending /\ pc[w] \in PhaseSending => wjob[v] # wjob[w]

\* The last message the worker may have submitted.
Reached(w) == IF pc[w] \in {"await", "ack"} THEN wconf[w] + 1 ELSE wconf[w]

\* What is at Discord for the job of a sending worker is what it submitted.
OwnSubmissions ==
  \A w \in Workers : pc[w] \in PhaseSending =>
    \A r \in Requests : r.job = wjob[w] =>
      /\ r.lease = wlease[w]
      /\ r.step <= Reached(w)
      /\ pc[w] = "await" /\ r.step = wconf[w] + 1 => r = Submission(w)

Delivering == {"sent"} \cup Uncertain

\* Before the sending loop a worker has submitted nothing; nor has one that
\* still holds its row and is about to declare it unsent.
NothingSubmitted ==
  \A w \in Workers :
    \/ pc[w] \in PhaseBeforeSend
    \/ /\ pc[w] = "settle" /\ goal[w] \notin Delivering
       /\ lease[wjob[w]] = wlease[w]
    => \A r \in Requests : r.job = wjob[w] => r.lease # wlease[w]

QueueInv ==
  /\ TypeOK /\ Tokens /\ Counts /\ Adopted
  /\ UnsentMeansUndelivered /\ HolderSubmits
  /\ OwnsOrAbandoned /\ OneSender /\ OwnSubmissions /\ NothingSubmitted
  /\ AtMostOnce

-----------------------------------------------------------------------------
(* What the row updates return.                                            *)

\* The state a row gets when it is recovered is a final one.
LEMMA RecoveredIsTerminal ==
  ASSUME TypeOK, Adopted, NEW j \in Jobs, Recoverable(j)
  PROVE  RecoveredState(j) \in Terminal
  BY DEF TypeOK, Adopted, Recoverable, RecoveredState, Terminal, Unsent,
     Uncertain

\* Resolving a row returns a state for every row.
LEMMA ResolvedType ==
  ASSUME TypeOK, NEW j \in Jobs, NEW s \in RowStates
  PROVE  Resolved(j, s) \in [Jobs -> RowStates]
  BY DEF TypeOK, Resolved

\* Resolving a row changes that row and aggregated rows only.
LEMMA ResolvedFrame ==
  ASSUME TypeOK, NEW j \in Jobs, NEW s \in RowStates
  PROVE  /\ Resolved(j, s)[j] = s
         /\ \A k \in Jobs \ {j} :
              \/ Resolved(j, s)[k] = state[k]
              \/ state[k] = "aggregated" /\ Resolved(j, s)[k] = s /\ s \in Terminal
  BY DEF Resolved

\* Giving up leases leaves the others alone.
LEMMA UnleaseFrame ==
  ASSUME TypeOK, NEW S \in SUBSET Jobs, Unlease(S)
  PROVE  /\ lease' \in [Jobs -> Leases \cup {NoLease}]
         /\ live' \in [Jobs -> BOOLEAN]
         /\ \A j \in Jobs : lease'[j] = IF j \in S THEN NoLease ELSE lease[j]
  BY DEF TypeOK, Unlease

\* The typing of a worker's memory, which Forget, Go and Aim preserve.
MemoryTyped ==
  /\ pc \in [Workers -> Phases]
  /\ wjob \in [Workers -> Jobs \cup {NoJob}]
  /\ wlease \in [Workers -> Leases \cup {NoLease}]
  /\ wplan \in [Workers -> SUBSET Item]
  /\ tries \in [Workers -> 0..AttemptLimit]
  /\ wsteps \in [Workers -> 0..MaxSteps] /\ wconf \in [Workers -> 0..MaxSteps]
  /\ goal \in [Workers -> Terminal \cup {"none", "pending"}]

\* Forgetting a job leaves a typed memory.
LEMMA ForgetTyped ==
  ASSUME TypeOK, NEW w \in Workers, Forget(w)
  PROVE  MemoryTyped'
  BY LimitAssumption DEF TypeOK, MemoryTyped, Forget, Phases, NoLease

\* Moving on leaves a typed memory.
LEMMA GoTyped ==
  ASSUME TypeOK, NEW w \in Workers, NEW p \in Phases, Go(w, p)
  PROVE  MemoryTyped'
  BY DEF TypeOK, MemoryTyped, Go

\* Choosing the outcome to record leaves a typed memory.
LEMMA AimTyped ==
  ASSUME TypeOK, NEW w \in Workers, NEW s \in Terminal \cup {"pending"}, Aim(w, s)
  PROVE  MemoryTyped'
  BY DEF TypeOK, MemoryTyped, Aim, Phases

-----------------------------------------------------------------------------
(* Type correctness.                                                       *)

\* The initial state is well typed.
LEMMA TypeInit == Init => TypeOK
<1> SUFFICES ASSUME Init PROVE TypeOK
  OBVIOUS
<1>1. \A j \in Jobs : Content(j) \subseteq Item
  BY DEF Content
<1>2. sentSteps \in [Jobs -> Nat]
  BY DEF Init
<1> QED
  BY <1>1, <1>2, LimitAssumption
  DEF Init, TypeOK, RowStates, Phases, NoLease, Terminal, Withdrawable,
     PhaseBeforeSend, PhaseSending, Unsent, Uncertain

\* Every step keeps the types.
LEMMA TypeStep ==
  ASSUME TypeOK, Tokens, Counts, Adopted, Next
  PROVE  TypeOK'
<1>1. ASSUME NEW w \in Workers, ClaimRecover(w)
      PROVE  TypeOK'
  <2>1. PICK R \in SUBSET {j \in Jobs : Recoverable(j)} :
          LET orphans == {k \in Jobs : parent[k] \in R /\ state[k] = "aggregated"} IN
          /\ state' = [j \in Jobs |->
                         CASE j \in R -> RecoveredState(j)
                           [] j \in orphans \ R -> RecoveredState(parent[j])
                           [] OTHER -> state[j]]
          /\ Unlease(R \cup orphans)
    BY <1>1 DEF ClaimRecover
  <2>2. state' \in [Jobs -> RowStates]
    BY <2>1, RecoveredIsTerminal DEF TypeOK, RowStates
  <2>3. lease' \in [Jobs -> Leases \cup {NoLease}] /\ live' \in [Jobs -> BOOLEAN]
    BY <2>1, UnleaseFrame
  <2> QED
    BY <1>1, <2>2, <2>3 DEF TypeOK, ClaimRecover, Phases, RosterSize, Go,
       envVars, netVars, PhaseBeforeSend, PhaseSending
<1>2. ASSUME NEW w \in Workers, NEW j \in Jobs, ClaimCorrupt(w, j)
      PROVE  TypeOK'
  <2>1. state' \in [Jobs -> RowStates]
    BY <1>2, ResolvedType DEF ClaimCorrupt, RowStates, Terminal, Withdrawable,
       Unsent, Uncertain
  <2>2. lease' \in [Jobs -> Leases \cup {NoLease}] /\ live' \in [Jobs -> BOOLEAN]
    BY <1>2, UnleaseFrame DEF ClaimCorrupt
  <2> QED
    BY <1>2, <2>1, <2>2, ForgetTyped
    DEF TypeOK, MemoryTyped, ClaimCorrupt, envVars, netVars
<1>3. ASSUME NEW w \in Workers, Settle(w)
      PROVE  TypeOK'
  <2>1. wjob[w] \in Jobs /\ goal[w] \in Terminal \cup {"none", "pending"}
    BY <1>3 DEF Settle, Tokens, TypeOK
  <2>2. state' \in [Jobs -> RowStates]
    BY <1>3, <2>1, ResolvedType DEF Settle, TypeOK, RowStates, Terminal,
       Withdrawable, Unsent, Uncertain
  <2>3. lease' \in [Jobs -> Leases \cup {NoLease}] /\ live' \in [Jobs -> BOOLEAN]
    BY <1>3, <2>1, UnleaseFrame DEF Settle, TypeOK
  <2> QED
    BY <1>3, <2>2, <2>3, ForgetTyped
    DEF TypeOK, MemoryTyped, Settle, envVars, netVars
<1>4. ASSUME NEW w \in Workers, Acknowledge(w)
      PROVE  TypeOK'
  <2>1. wconf[w] < wsteps[w] /\ wjob[w] \in Jobs
    BY <1>4 DEF Acknowledge, Counts, Tokens, PhaseSending
  <2>2. wconf' \in [Workers -> 0..MaxSteps] /\ pc' \in [Workers -> Phases]
    BY <1>4, <2>1, LimitAssumption DEF TypeOK, Acknowledge, Aim, Phases,
       PhaseBeforeSend, PhaseSending
  <2>3. goal' \in [Workers -> Terminal \cup {"none", "pending"}]
    BY <1>4 DEF TypeOK, Acknowledge, Aim, Terminal, Unsent, Uncertain
  <2> QED
    BY <1>4, <2>1, <2>2, <2>3 DEF TypeOK, Acknowledge, Aim, envVars, netVars
<1>5. ASSUME NEW w \in Workers, AcknowledgeFails(w)
      PROVE  TypeOK'
  BY <1>5 DEF TypeOK, AcknowledgeFails, Phases, Terminal, Aim, Outcome,
     rowVars, envVars, netVars, PhaseBeforeSend, PhaseSending, Unsent,
     Uncertain
<1>6. ASSUME NEW w \in Workers, PrepareRefused(w)
      PROVE  TypeOK'
  BY <1>6 DEF TypeOK, PrepareRefused, Phases, Terminal, Aim, rowVars, envVars,
     netVars, PhaseBeforeSend, PhaseSending, Unsent, Uncertain
<1>7. ASSUME NEW j \in Jobs, UserRetry(j)
      PROVE  TypeOK'
  BY <1>7, UnleaseFrame, LimitAssumption DEF TypeOK, UserRetry, RowStates,
     Editable, envVars, workVars, netVars, Terminal, Withdrawable, Unsent,
     Uncertain
<1>8. CASE RuleWithdrawn
  <2>1. stale' \subseteq Item
    BY <1>8 DEF RuleWithdrawn, RoutedItems, TypeOK
  <2>2. state' \in [Jobs -> RowStates]
    BY <1>8 DEF RuleWithdrawn, TypeOK, RowStates, Terminal, Withdrawable,
       Unsent, Uncertain
  <2> QED
    BY <1>8, <2>1, <2>2, UnleaseFrame DEF TypeOK, RuleWithdrawn, workVars,
       netVars
<1>9. ASSUME NEW w \in Workers,
             \/ ClaimNothing(w) \/ RefreshLost(w) \/ BeginLost(w)
             \/ LeaseLost(w) \/ Crash(w)
      PROVE  TypeOK'
  BY <1>9, ForgetTyped
  DEF TypeOK, MemoryTyped, ClaimNothing, RefreshLost, BeginLost, LeaseLost,
     Crash, rowVars, envVars, netVars
<1>10. ASSUME NEW w \in Workers,
              \/ RefreshEmpty(w) \/ Preflight(w) \/ BeginRefused(w)
              \/ BeginGated(w) \/ SendRefused(w) \/ SendBreaks(w)
              \/ AnswerRefused(w) \/ AnswerUnknown(w) \/ SettleBreaks(w)
       PROVE  TypeOK'
  <2>1. \/ \E s \in Terminal \cup {"pending"} : Aim(w, s)
        \/ Go(w, "checked")
    BY <1>10 DEF RefreshEmpty, Preflight, BeginRefused, BeginGated,
       SendRefused, SendBreaks, AnswerRefused, AnswerUnknown, SettleBreaks,
       Terminal, Unsent, rowVars, envVars, netVars, CheckResults, Outcome,
       RetryOrFail, Uncertain
  <2>2. MemoryTyped'
    BY <2>1, AimTyped, GoTyped DEF Phases, PhaseBeforeSend
  <2>3. UNCHANGED <<rowVars, envVars, netVars>>
    BY <1>10 DEF RefreshEmpty, Preflight, BeginRefused, BeginGated,
       SendRefused, SendBreaks, AnswerRefused, AnswerUnknown, SettleBreaks
  <2> QED
    BY <2>2, <2>3 DEF TypeOK, MemoryTyped, rowVars, envVars, netVars
<1>11. ASSUME NEW w \in Workers,
              \/ AttemptBreaks(w) \/ AnswerAccepted(w) \/ Pace(w) \/ Gate(w)
       PROVE  TypeOK'
  <2>1. MemoryTyped'
    BY <1>11, GoTyped DEF AttemptBreaks, AnswerAccepted, Pace, Gate, Phases,
       rowVars, envVars, netVars, PhaseBeforeSend, PhaseSending
  <2> QED
    BY <1>11, <2>1 DEF TypeOK, MemoryTyped, AttemptBreaks, AnswerAccepted,
       Pace, Gate, rowVars, envVars, netVars, RenewLease
<1>12. ASSUME NEW w \in Workers, Prepare(w)
       PROVE  TypeOK'
  BY <1>12 DEF TypeOK, Prepare, Phases, rowVars, envVars, netVars,
     PhaseBeforeSend, PhaseSending
<1>13. ASSUME NEW w \in Workers, Refresh(w)
       PROVE  TypeOK'
  BY <1>13 DEF TypeOK, Tokens, Refresh, Phases, Terminal, Accepted, envVars,
     netVars, PhaseBeforeSend, PhaseSending, Unsent, Uncertain
<1>14. ASSUME NEW w \in Workers, CountAttempt(w)
       PROVE  TypeOK'
  <2>1. MemoryTyped'
    BY <1>14, AimTyped DEF CountAttempt, RetryOrFail, Terminal, Bump, envVars,
       netVars, Unsent, Uncertain
  <2>2. attempts' \in [Jobs -> 0..AttemptLimit]
    BY <1>14, LimitAssumption DEF TypeOK, Tokens, CountAttempt, Bump
  <2> QED
    BY <1>14, <2>1, <2>2 DEF TypeOK, MemoryTyped, CountAttempt, envVars,
       netVars
<1>15. ASSUME NEW w \in Workers, BeginSend(w)
       PROVE  TypeOK'
  BY <1>15, LimitAssumption DEF TypeOK, Tokens, BeginSend, Phases, RowStates,
     GateUse, Bump, netVars, PhaseBeforeSend, PhaseSending, Terminal,
     Withdrawable, Unsent, Uncertain
<1>16. ASSUME NEW w \in Workers, Submit(w)
       PROVE  TypeOK'
  BY <1>16, LimitAssumption DEF TypeOK, Tokens, Counts, Submit, Phases,
     Request, Submission, Go, rowVars, envVars, PhaseBeforeSend, PhaseSending,
     Leases, Item
<1>17. ASSUME NEW w \in Workers, NEW j \in Jobs, ClaimLease(w, j)
       PROVE  TypeOK'
  BY <1>17, LimitAssumption DEF TypeOK, ClaimLease, Phases, RowStates, Leases,
     netVars, PhaseBeforeSend, PhaseSending, Terminal, Withdrawable, Unsent,
     Uncertain
<1>18. ASSUME NEW j \in Jobs, RouteRoot(j)
       PROVE  TypeOK'
  BY <1>18 DEF TypeOK, RouteRoot, Content, RowStates, envVars, workVars,
     netVars, Item, Terminal, Withdrawable, Unsent, Uncertain
<1>19. ASSUME NEW j \in Jobs, NEW p \in Jobs, RouteJoin(j, p)
       PROVE  TypeOK'
  BY <1>19 DEF TypeOK, RouteJoin, Content, RowStates, envVars, workVars,
     netVars, Item, Terminal, Withdrawable, Unsent, Uncertain
<1>20. ASSUME NEW j \in Jobs, UserCancel(j) \/ UserReschedule(j)
       PROVE  TypeOK'
  <2>0. Resolved(j, "cancelled") \in [Jobs -> RowStates]
    BY ResolvedType DEF RowStates, Terminal, Withdrawable, Unsent, Uncertain
  <2>1. state' \in [Jobs -> RowStates]
    BY <1>20, <2>0 DEF TypeOK, UserCancel, UserReschedule, RowStates, Terminal,
       Withdrawable, Unsent, Uncertain
  <2>2. lease' \in [Jobs -> Leases \cup {NoLease}] /\ live' \in [Jobs -> BOOLEAN]
    BY <1>20, UnleaseFrame DEF UserCancel, UserReschedule
  <2> QED
    BY <1>20, <2>1, <2>2
    DEF TypeOK, UserCancel, UserReschedule, envVars, workVars, netVars
<1>21. ASSUME NEW j \in Jobs, LeaseRunsOut(j)
       PROVE  TypeOK'
  BY <1>21 DEF TypeOK, LeaseRunsOut, envVars, workVars, netVars
<1>22. ASSUME NEW m \in Monitors, MonitorChanges(m)
       PROVE  TypeOK'
  BY <1>22 DEF TypeOK, MonitorChanges, RowStates, Withdrawable, RoutedItems,
     workVars, netVars, Terminal, Item, Unsent, Uncertain
<1>23. ASSUME \/ \E r \in wire : DiscordAccepts(r) \/ DiscordRefuses(r)
              \/ GateWindowRolls
       PROVE  TypeOK'
  BY <1>23 DEF TypeOK, DiscordAccepts, DiscordRefuses, GateWindowRolls,
     rowVars, envVars, workVars, netVars
<1> QED
  BY <1>1, <1>2, <1>3, <1>4, <1>5, <1>6, <1>7, <1>8, <1>9, <1>10, <1>11, <1>12,
     <1>13, <1>14, <1>15, <1>16, <1>17, <1>18, <1>19, <1>20, <1>21, <1>22,
     <1>23
  DEF Next, WorkerStep, JobStep

-----------------------------------------------------------------------------
(* What one step can do to a row.  The rest of the argument cites these    *)
(* lemmas, not the actions.                                                *)

\* An outcome that tells of a delivery is never rewritten.
OutcomeKept(j) == state[j] \in Delivering => state'[j] = state[j]

\* A row leaves sending because a claim abandons it or its holder closes it.
SendingLeft(j) ==
  state[j] = "sending" =>
    \/ state'[j] = "sending" /\ lease'[j] = lease[j]
    \/ state'[j] = "unknown" /\ lease'[j] = NoLease
    \/ \E w \in Workers : Settle(w) /\ wjob[w] = j /\ Owns(w) /\ state'[j] = goal[w]

\* A row enters sending by beginSend only.
SendingEntered(j) ==
  state'[j] = "sending" /\ state[j] # "sending" =>
    \E w \in Workers : BeginSend(w) /\ wjob[w] = j

\* A lease ends, or a new one is granted for a row that may be claimed.
LeaseMoves(j) ==
  \/ lease'[j] = lease[j]
  \/ lease'[j] = NoLease
  \/ lease'[j] = lastLease' /\ lastLease' = lastLease + 1 /\ Claimable(j)

RowMoves(j) ==
  OutcomeKept(j) /\ SendingLeft(j) /\ SendingEntered(j) /\ LeaseMoves(j)

\* Every step changes every row in one of the ways named above.
LEMMA RowStep ==
  ASSUME TypeOK, Tokens, Counts, Adopted, Next, NEW j \in Jobs
  PROVE  RowMoves(j)
<1>1. ASSUME NEW w \in Workers, ClaimRecover(w)
      PROVE  RowMoves(j)
  <2>1. PICK R \in SUBSET {k \in Jobs : Recoverable(k)} :
          LET orphans == {k \in Jobs : parent[k] \in R /\ state[k] = "aggregated"} IN
          /\ state' = [k \in Jobs |->
                         CASE k \in R -> RecoveredState(k)
                           [] k \in orphans \ R -> RecoveredState(parent[k])
                           [] OTHER -> state[k]]
          /\ Unlease(R \cup orphans)
    BY <1>1 DEF ClaimRecover
  <2>3. lease'[j] \in {lease[j], NoLease}
    BY <2>1, UnleaseFrame
  <2>4. j \in R => state'[j] = RecoveredState(j) /\ lease'[j] = NoLease
    BY <2>1, UnleaseFrame
  <2>5. j \notin R =>
          \/ state'[j] = state[j] /\ lease'[j] = lease[j]
          \/ state[j] = "aggregated" /\ state'[j] \in Terminal
    <3> SUFFICES ASSUME j \notin R
                 PROVE  \/ state'[j] = state[j] /\ lease'[j] = lease[j]
                        \/ state[j] = "aggregated" /\ state'[j] \in Terminal
      OBVIOUS
    <3>1. CASE parent[j] \in R /\ state[j] = "aggregated"
      <4>1. state'[j] = RecoveredState(parent[j])
        BY <2>1, <3>1
      <4>2. RecoveredState(parent[j]) \in Terminal
        BY <2>1, <3>1, RecoveredIsTerminal
      <4> QED
        BY <4>1, <4>2, <3>1
    <3>2. CASE ~(parent[j] \in R /\ state[j] = "aggregated")
      <4>1. lease'[j] = lease[j]
        BY <2>1, <3>2, UnleaseFrame
      <4> QED
        BY <2>1, <3>2, <4>1
    <3> QED
      BY <3>1, <3>2
  <2>6. CASE j \in R
    <3>1. Recoverable(j) /\ RecoveredState(j) \in Terminal
      BY <2>1, <2>6, RecoveredIsTerminal
    <3>2. /\ state[j] \in {"held", "sending", "aggregated"}
          /\ state[j] = "sending" => state'[j] = "unknown"
      BY <2>4, <2>6, <3>1 DEF Recoverable, RecoveredState
    <3>3. state'[j] \in Terminal /\ lease'[j] = NoLease
      BY <2>4, <2>6, <3>1
    <3> QED
      BY <3>2, <3>3
      DEF RowMoves, OutcomeKept, SendingLeft, SendingEntered, LeaseMoves,
         Delivering, Terminal, Uncertain, Unsent
  <2>7. CASE j \notin R
    BY <2>3, <2>5, <2>7
    DEF RowMoves, OutcomeKept, SendingLeft, SendingEntered, LeaseMoves,
       Delivering, Terminal, Uncertain, Unsent
  <2> QED
    BY <2>6, <2>7
<1>2. ASSUME NEW w \in Workers, NEW k \in Jobs, ClaimLease(w, k) \/ ClaimCorrupt(w, k)
      PROVE  RowMoves(j)
  <2>1. CASE ClaimLease(w, k)
    BY <2>1 DEF TypeOK, ClaimLease, Claimable, RowMoves, OutcomeKept,
       SendingLeft, SendingEntered, LeaseMoves, Delivering, Uncertain
  <2>2. CASE ClaimCorrupt(w, k)
    <3>1. PICK s \in {"partial", "failed"} : state' = Resolved(k, s)
      BY <2>2 DEF ClaimCorrupt
    <3>2. /\ Resolved(k, s)[k] = s
          /\ \A i \in Jobs \ {k} :
               \/ Resolved(k, s)[i] = state[i]
               \/ state[i] = "aggregated" /\ Resolved(k, s)[i] = s
      BY ResolvedFrame DEF RowStates, Terminal, Withdrawable, Unsent, Uncertain
    <3>3. lease'[j] = IF j = k THEN NoLease ELSE lease[j]
      BY <2>2, UnleaseFrame DEF ClaimCorrupt
    <3> QED
      BY <2>2, <3>1, <3>2, <3>3
      DEF ClaimCorrupt, Claimable, RowMoves, OutcomeKept, SendingLeft,
         SendingEntered, LeaseMoves, Delivering, Uncertain
  <2> QED
    BY <1>2, <2>1, <2>2
<1>3. ASSUME NEW w \in Workers, Settle(w)
      PROVE  RowMoves(j)
  <2>1. wjob[w] \in Jobs /\ goal[w] \in Terminal \cup {"none", "pending"}
    BY <1>3 DEF Settle, Tokens, TypeOK
  <2>2. CASE ~Owns(w)
    BY <1>3, <2>2 DEF Settle, RowMoves, OutcomeKept, SendingLeft,
       SendingEntered, LeaseMoves
  <2>3. CASE Owns(w)
    <3>1. /\ state'[wjob[w]] = goal[w]
          /\ \A k \in Jobs \ {wjob[w]} :
               \/ state'[k] = state[k] /\ lease'[k] = lease[k]
               \/ state[k] = "aggregated" /\ state'[k] \in Terminal
          /\ lease'[j] \in {lease[j], NoLease}
      BY <1>3, <2>1, <2>3, ResolvedFrame, UnleaseFrame DEF Settle, RowStates,
         Terminal, Withdrawable, Unsent, Uncertain
    <3> QED
      BY <1>3, <2>1, <2>3, <3>1
      DEF Owns, RowMoves, OutcomeKept, SendingLeft, SendingEntered, LeaseMoves,
         Delivering, Terminal, Uncertain, Unsent
  <2> QED
    BY <2>2, <2>3
<1>4. ASSUME NEW w \in Workers, BeginSend(w)
      PROVE  RowMoves(j)
  BY <1>4 DEF TypeOK, Tokens, BeginSend, HoldsLeased, RowMoves, OutcomeKept,
     SendingLeft, SendingEntered, LeaseMoves, Delivering, Uncertain
<1>5. ASSUME NEW k \in Jobs, UserCancel(k) \/ UserReschedule(k) \/ UserRetry(k)
      PROVE  RowMoves(j)
  <2>1. state[k] \notin {"sending"} \cup Delivering
    BY <1>5 DEF UserCancel, UserReschedule, UserRetry, Editable, Delivering,
       Uncertain
  <2>2. lease'[j] = IF j = k THEN NoLease ELSE lease[j]
    BY <1>5, UnleaseFrame DEF UserCancel, UserReschedule, UserRetry
  <2>3. \/ j = k /\ state'[j] \in {"cancelled", "pending"}
        \/ j # k /\ state'[j] = state[j]
        \/ j # k /\ state[j] = "aggregated" /\ state'[j] = "cancelled"
    BY <1>5 DEF TypeOK, UserCancel, UserReschedule, UserRetry, Resolved
  <2> QED
    BY <2>1, <2>2, <2>3 DEF RowMoves, OutcomeKept, SendingLeft, SendingEntered,
       LeaseMoves, Delivering, Uncertain
<1>6. ASSUME NEW k \in Jobs, NEW p \in Jobs, RouteRoot(k) \/ RouteJoin(k, p)
      PROVE  RowMoves(j)
  BY <1>6 DEF TypeOK, RouteRoot, RouteJoin, Superseded, RowMoves, OutcomeKept,
     SendingLeft, SendingEntered, LeaseMoves, Delivering, Uncertain
<1>7. CASE RuleWithdrawn \/ \E m \in Monitors : MonitorChanges(m)
  BY <1>7, UnleaseFrame DEF RuleWithdrawn, MonitorChanges, Withdrawable,
     RowMoves, OutcomeKept, SendingLeft, SendingEntered, LeaseMoves,
     Delivering, Uncertain
<1>8. ASSUME UNCHANGED <<state, lease>>
      PROVE  RowMoves(j)
  BY <1>8 DEF RowMoves, OutcomeKept, SendingLeft, SendingEntered, LeaseMoves
<1>9. ASSUME NEW w \in Workers, WorkerStep(w) \/ Crash(w)
      PROVE  RowMoves(j)
  BY <1>1, <1>2, <1>3, <1>4, <1>8, <1>9
  DEF WorkerStep, ClaimNothing, Refresh, RefreshEmpty, RefreshLost, Preflight,
     Prepare, PrepareRefused, AttemptBreaks, CountAttempt, BeginLost,
     BeginRefused, BeginGated, Pace, Gate, LeaseLost, SendRefused, SendBreaks,
     Submit, AnswerAccepted, AnswerRefused, AnswerUnknown, Acknowledge,
     AcknowledgeFails, SettleBreaks, Crash, rowVars
<1>10. ASSUME NEW k \in Jobs, JobStep(k)
       PROVE  RowMoves(j)
  BY <1>5, <1>6, <1>8, <1>10 DEF JobStep, LeaseRunsOut
<1> QED
  BY <1>7, <1>8, <1>9, <1>10 DEF Next, DiscordAccepts, DiscordRefuses,
     GateWindowRolls, rowVars

-----------------------------------------------------------------------------
(* What one step can do to a worker's memory.                              *)

Rests(w) ==
  /\ pc'[w] = pc[w] /\ wjob'[w] = wjob[w] /\ wlease'[w] = wlease[w]
  /\ wplan'[w] = wplan[w] /\ wsteps'[w] = wsteps[w] /\ wconf'[w] = wconf[w]
  /\ goal'[w] = goal[w]

\* The tick ends, or has only just begun.
Leaves(w) ==
  /\ pc'[w] \in {"idle", "recovered"} /\ wconf'[w] = 0
  /\ wlease'[w] \in {NoLease, wlease[w]}

Claims(w) == \E j \in Jobs : ClaimLease(w, j)

\* The tick moves on before beginSend.
Advances(w) ==
  /\ pc[w] \in PhaseBeforeSend /\ pc'[w] \in PhaseBeforeSend \cup {"settle"}
  /\ wjob'[w] = wjob[w] /\ wlease'[w] = wlease[w] /\ wconf'[w] = wconf[w]
  /\ pc'[w] = "prepared" => wsteps'[w] > 0

\* The sending loop moves on, without submitting anything.
Loops(w) ==
  /\ pc[w] \in PhaseSending /\ pc'[w] \in PhaseSending \ {"await"}
  /\ wjob'[w] = wjob[w] /\ wlease'[w] = wlease[w]
  /\ wsteps'[w] = wsteps[w] /\ wconf'[w] < wsteps[w]
  /\ Reached(w)' = Reached(w)

\* The attempt ends; it is called unsent only if nothing was submitted, or if
\* the row has been given up meanwhile.
Concludes(w) ==
  /\ pc[w] \in PhaseSending \cup {"settle"} /\ pc'[w] = "settle"
  /\ wjob'[w] = wjob[w] /\ wlease'[w] = wlease[w]
  /\ goal'[w] \notin Delivering =>
       \/ pc[w] \in PhaseSending /\ Reached(w) = 0
       \/ pc[w] = "await" /\ wconf[w] = 0 /\ Submission(w) \notin Requests
       \/ pc[w] = "ack" /\ ~(lease[wjob[w]] = wlease[w] /\ state[wjob[w]] = "sending")

MemoryMoves(w) ==
  \/ Rests(w) \/ Leaves(w) \/ Claims(w) \/ Advances(w) \/ BeginSend(w)
  \/ Submit(w) \/ Loops(w) \/ Concludes(w)

\* A worker that forgets its job has left it.
LEMMA ForgetLeaves ==
  ASSUME TypeOK, NEW w \in Workers, Forget(w)
  PROVE  Leaves(w)
  BY DEF TypeOK, Forget, Leaves

\* An acting worker makes one of the moves.
LEMMA ActorMoves ==
  ASSUME TypeOK, Tokens, Counts, NEW w \in Workers, WorkerStep(w) \/ Crash(w)
  PROVE  MemoryMoves(w)
<1>1. ASSUME \/ ClaimNothing(w) \/ RefreshLost(w) \/ BeginLost(w)
             \/ LeaseLost(w) \/ Crash(w) \/ Settle(w)
             \/ \E j \in Jobs : ClaimCorrupt(w, j)
      PROVE  MemoryMoves(w)
  BY <1>1, ForgetLeaves
  DEF MemoryMoves, ClaimNothing, RefreshLost, BeginLost, LeaseLost, Crash,
     Settle, ClaimCorrupt
<1>2. ASSUME ClaimRecover(w)
      PROVE  MemoryMoves(w)
  BY <1>2 DEF MemoryMoves, Leaves, ClaimRecover, Go, TypeOK, Counts, Tokens,
     PhaseSending
<1>3. ASSUME \/ RefreshEmpty(w) \/ Preflight(w) \/ PrepareRefused(w)
             \/ AttemptBreaks(w) \/ CountAttempt(w) \/ BeginRefused(w)
             \/ BeginGated(w)
      PROVE  MemoryMoves(w)
  <2>1. /\ pc[w] \in PhaseBeforeSend
        /\ \/ \E s : Aim(w, s)
           \/ Go(w, "checked")
           \/ Go(w, "count")
    BY <1>3 DEF RefreshEmpty, Preflight, PrepareRefused, AttemptBreaks,
       CountAttempt, BeginRefused, BeginGated, PhaseBeforeSend
  <2>2. Advances(w)
    BY <2>1 DEF TypeOK, Advances, Aim, Go, PhaseBeforeSend
  <2> QED
    BY <2>2 DEF MemoryMoves
<1>4. ASSUME Refresh(w) \/ Prepare(w)
      PROVE  MemoryMoves(w)
  BY <1>4 DEF TypeOK, MemoryMoves, Advances, Refresh, Prepare, PhaseBeforeSend
<1>5. ASSUME Pace(w) \/ Gate(w) \/ AnswerAccepted(w)
      PROVE  MemoryMoves(w)
  BY <1>5 DEF TypeOK, Counts, MemoryMoves, Loops, Reached, Pace, Gate,
     AnswerAccepted, Go, PhaseSending
<1>6. ASSUME SendRefused(w) \/ SendBreaks(w) \/ AnswerUnknown(w) \/ SettleBreaks(w)
      PROVE  MemoryMoves(w)
  BY <1>6 DEF TypeOK, MemoryMoves, Concludes, Reached, SendRefused, SendBreaks,
     AnswerUnknown, SettleBreaks, Aim, Outcome, PhaseSending, Delivering,
     Uncertain
<1>7. ASSUME AnswerRefused(w)
      PROVE  MemoryMoves(w)
  BY <1>7 DEF TypeOK, MemoryMoves, Concludes, AnswerRefused, Aim, Outcome,
     Requests, PhaseSending, Delivering, Uncertain
<1>8. ASSUME Acknowledge(w)
      PROVE  MemoryMoves(w)
  <2>1. CASE Aim(w, "unknown")
    BY <1>8, <2>1 DEF TypeOK, MemoryMoves, Concludes, Acknowledge, Aim,
       PhaseSending, Delivering, Uncertain
  <2>2. CASE ~Aim(w, "unknown")
    BY <1>8, <2>2 DEF TypeOK, Counts, MemoryMoves, Concludes, Loops, Reached,
       Acknowledge, PhaseSending, Delivering, Uncertain
  <2> QED
    BY <2>1, <2>2
<1>9. ASSUME AcknowledgeFails(w)
      PROVE  MemoryMoves(w)
  BY <1>9 DEF TypeOK, MemoryMoves, Concludes, AcknowledgeFails, Aim, Outcome,
     PhaseSending, Delivering, Uncertain
<1> QED
  BY <1>1, <1>2, <1>3, <1>4, <1>5, <1>6, <1>7, <1>8, <1>9
  DEF WorkerStep, MemoryMoves, Claims

\* Nobody changes the memory of another worker.
LEMMA OthersRest ==
  ASSUME TypeOK, NEW v \in Workers, NEW w \in Workers, v # w,
         WorkerStep(v) \/ Crash(v)
  PROVE  Rests(w)
<1>1. ASSUME NEW p, Go(v, p)
      PROVE  Rests(w)
  BY <1>1 DEF TypeOK, Rests, Go
<1>2. ASSUME NEW s, Aim(v, s)
      PROVE  Rests(w)
  BY <1>2 DEF TypeOK, Rests, Aim
<1>3. ASSUME Forget(v)
      PROVE  Rests(w)
  BY <1>3 DEF TypeOK, Rests, Forget
<1>4. ASSUME NEW j \in Jobs, ClaimLease(v, j)
      PROVE  Rests(w)
  BY <1>4 DEF TypeOK, Rests, ClaimLease
<1>5. ASSUME Refresh(v) \/ Prepare(v) \/ BeginSend(v)
      PROVE  Rests(w)
  BY <1>5 DEF TypeOK, Rests, Refresh, Prepare, BeginSend
<1>6. ASSUME Acknowledge(v)
      PROVE  Rests(w)
  BY <1>2, <1>6 DEF TypeOK, Rests, Acknowledge
<1> QED
  BY <1>1, <1>2, <1>3, <1>4, <1>5, <1>6
  DEF WorkerStep, ClaimRecover, ClaimNothing, ClaimCorrupt, RefreshEmpty,
     RefreshLost, Preflight, PrepareRefused, AttemptBreaks, CountAttempt,
     BeginLost, BeginRefused, BeginGated, Pace, Gate, LeaseLost, SendRefused,
     SendBreaks, Submit, AnswerAccepted, AnswerRefused, AnswerUnknown,
     AcknowledgeFails, Settle, SettleBreaks, Crash

\* Every step changes every worker's memory in one of the ways above.
LEMMA MemoryStep ==
  ASSUME TypeOK, Tokens, Counts, Next, NEW w \in Workers
  PROVE  MemoryMoves(w)
<1>1. CASE \E v \in Workers : WorkerStep(v) \/ Crash(v)
  BY <1>1, ActorMoves, OthersRest DEF MemoryMoves
<1>2. CASE ~\E v \in Workers : WorkerStep(v) \/ Crash(v)
  <2>1. UNCHANGED workVars
    BY <1>2 DEF Next, JobStep, RouteRoot, RouteJoin, LeaseRunsOut, UserCancel,
       UserReschedule, UserRetry, DiscordAccepts, DiscordRefuses,
       GateWindowRolls, MonitorChanges, RuleWithdrawn
  <2> QED
    BY <2>1 DEF workVars, MemoryMoves, Rests
<1> QED
  BY <1>1, <1>2

-----------------------------------------------------------------------------
(* What one step can do to the requests at Discord.                        *)

\* Only Submit makes a request, for the worker that takes the step.
LEMMA RequestStep ==
  ASSUME Next
  PROVE  \/ Requests' \subseteq Requests
         \/ \E w \in Workers :
              /\ Submit(w) /\ Requests' = Requests \cup {Submission(w)}
              /\ UNCHANGED <<rowVars, envVars>>
<1>1. ASSUME NEW w \in Workers, Submit(w)
      PROVE  /\ Requests' = Requests \cup {Submission(w)}
             /\ UNCHANGED <<rowVars, envVars>>
  BY <1>1 DEF Submit, Requests
<1>2. ASSUME NEW r \in wire, DiscordAccepts(r) \/ DiscordRefuses(r)
      PROVE  Requests' \subseteq Requests
  BY <1>2 DEF DiscordAccepts, DiscordRefuses, Requests
<1>3. CASE /\ ~\E w \in Workers : Submit(w)
           /\ ~\E r \in wire : DiscordAccepts(r) \/ DiscordRefuses(r)
  <2>1. UNCHANGED netVars
    BY <1>3 DEF Next, WorkerStep, JobStep, ClaimRecover, ClaimNothing,
       ClaimLease, ClaimCorrupt, Refresh, RefreshEmpty, RefreshLost, Preflight,
       Prepare, PrepareRefused, AttemptBreaks, CountAttempt, BeginLost,
       BeginRefused, BeginGated, BeginSend, Pace, Gate, LeaseLost, SendRefused,
       SendBreaks, AnswerAccepted, AnswerRefused, AnswerUnknown, Acknowledge,
       AcknowledgeFails, Settle, SettleBreaks, Crash, RouteRoot, RouteJoin,
       LeaseRunsOut, UserCancel, UserReschedule, UserRetry, GateWindowRolls,
       MonitorChanges, RuleWithdrawn
  <2> QED
    BY <2>1 DEF netVars, Requests
<1> QED
  BY <1>1, <1>2, <1>3

-----------------------------------------------------------------------------
(* The inductive invariant.                                                *)

\* Initially nothing is leased, remembered or submitted.
LEMMA QueueInit == Init => QueueInv
<1> SUFFICES ASSUME Init PROVE QueueInv
  OBVIOUS
<1>1. TypeOK
  BY TypeInit
<1>2. Requests = {}
  BY DEF Init, Requests
<1>3. Tokens /\ Counts /\ Adopted
  BY <1>2 DEF Init, Tokens, Counts, Adopted, PhaseSending, NoLease
<1>4. /\ UnsentMeansUndelivered /\ HolderSubmits /\ OwnsOrAbandoned /\ OneSender
      /\ OwnSubmissions /\ NothingSubmitted /\ AtMostOnce
  BY <1>2 DEF Init, UnsentMeansUndelivered, HolderSubmits, OwnsOrAbandoned,
     OneSender, OwnSubmissions, NothingSubmitted, AtMostOnce, PhaseSending
<1> QED
  BY <1>1, <1>3, <1>4 DEF QueueInv

\* The steps of a tick up to beginSend, to split the long case analyses.
PrimaryStep(w) ==
  \/ ClaimRecover(w) \/ ClaimNothing(w) \/ \E j \in Jobs : ClaimCorrupt(w, j)
  \/ Refresh(w) \/ RefreshEmpty(w) \/ RefreshLost(w)
  \/ Preflight(w) \/ Prepare(w) \/ PrepareRefused(w) \/ AttemptBreaks(w)
  \/ CountAttempt(w)
  \/ BeginLost(w) \/ BeginRefused(w) \/ BeginGated(w) \/ BeginSend(w)

\* The counter of lease tokens only grows.
LEMMA LastLeaseGrows ==
  ASSUME TypeOK, Next
  PROVE  lastLease' \in {lastLease, lastLease + 1}
<1>1. ASSUME NEW w \in Workers, NEW j \in Jobs, ClaimLease(w, j)
      PROVE  lastLease' = lastLease + 1
  BY <1>1 DEF ClaimLease
<1>2. ASSUME NEW w \in Workers, WorkerStep(w), ~\E j \in Jobs : ClaimLease(w, j)
      PROVE  lastLease' = lastLease
  <2>1. CASE PrimaryStep(w)
    BY <2>1 DEF PrimaryStep, ClaimRecover, ClaimNothing, ClaimCorrupt, Refresh,
       RefreshEmpty, RefreshLost, Preflight, Prepare, PrepareRefused,
       AttemptBreaks, CountAttempt, BeginLost, BeginRefused, BeginGated,
       BeginSend, envVars
  <2>2. CASE ~PrimaryStep(w)
    BY <1>2, <2>2 DEF PrimaryStep, WorkerStep, Pace, Gate, LeaseLost,
       SendRefused, SendBreaks, Submit, AnswerAccepted, AnswerRefused,
       AnswerUnknown, Acknowledge, AcknowledgeFails, Settle, SettleBreaks,
       envVars
  <2> QED
    BY <2>1, <2>2
<1>3. ASSUME NEW j \in Jobs, JobStep(j)
      PROVE  lastLease' = lastLease
  BY <1>3 DEF JobStep, RouteRoot, RouteJoin, LeaseRunsOut, UserCancel,
     UserReschedule, UserRetry, envVars
<1> QED
  BY <1>1, <1>2, <1>3 DEF Next, Crash, DiscordAccepts, DiscordRefuses,
     GateWindowRolls, MonitorChanges, RuleWithdrawn, envVars

\* A lease token is granted once: it is new, and only its worker keeps it.
LEMMA TokensStep ==
  ASSUME TypeOK, Tokens, Counts, Adopted, Next
  PROVE  Tokens'
<1>1. lastLease \in Nat /\ lastLease' \in {lastLease, lastLease + 1}
  BY LastLeaseGrows DEF TypeOK
<1>2. ASSUME NEW j \in Jobs
      PROVE  lease'[j] <= lastLease'
  BY <1>1, RowStep DEF TypeOK, Tokens, RowMoves, LeaseMoves, NoLease, Leases
<1>3. ASSUME NEW r \in Requests'
      PROVE  r.lease <= lastLease'
  <2>1. CASE r \in Requests
    BY <1>1, <2>1 DEF TypeOK, Tokens, Requests, Request, Leases
  <2>2. CASE r \notin Requests
    BY <1>1, <2>2, RequestStep DEF TypeOK, Tokens, Submission, Leases, NoLease,
       envVars
  <2> QED
    BY <2>1, <2>2
<1>4. ASSUME NEW w \in Workers
      PROVE  /\ \/ wlease'[w] \in {wlease[w], NoLease}
                \/ /\ Claims(w) /\ wlease'[w] = lastLease'
                   /\ lastLease' = lastLease + 1
             /\ pc'[w] \notin {"idle", "recovered"} =>
                  wjob'[w] \in Jobs /\ wlease'[w] # NoLease
  <2>1. CASE Claims(w)
    <3>1. PICK j \in Jobs : ClaimLease(w, j)
      BY <2>1 DEF Claims
    <3>2. wlease'[w] = lastLease' /\ lastLease' = lastLease + 1 /\ wjob'[w] = j
      BY <3>1 DEF TypeOK, ClaimLease
    <3> QED
      BY <1>1, <2>1, <3>2 DEF NoLease
  <2>2. CASE ~Claims(w)
    BY <2>2, MemoryStep DEF TypeOK, Tokens, MemoryMoves, Rests, Leaves,
       Advances, BeginSend, Submit, Go, Loops, Concludes, PhaseSending,
       PhaseBeforeSend
  <2> QED
    BY <2>1, <2>2
<1>5. ASSUME NEW v \in Workers, NEW w \in Workers, v # w
      PROVE  ~(Claims(v) /\ Claims(w))
  <2>1. Claims(v) => pc'[w] = pc[w] /\ pc[v] = "recovered"
    BY <1>5 DEF TypeOK, Claims, ClaimLease
  <2>2. Claims(w) => pc'[w] = "claimed" /\ pc[w] = "recovered"
    BY DEF TypeOK, Claims, ClaimLease
  <2> QED
    BY <2>1, <2>2
<1>6. ASSUME NEW v \in Workers, NEW w \in Workers, v # w, wlease'[v] = wlease'[w]
      PROVE  wlease'[w] = NoLease
  BY <1>1, <1>4, <1>5, <1>6 DEF TypeOK, Tokens, Leases, NoLease
<1>7. ASSUME NEW w \in Workers
      PROVE  wlease'[w] <= lastLease'
  BY <1>1, <1>4 DEF TypeOK, Tokens, Leases, NoLease
<1> QED
  BY <1>2, <1>3, <1>4, <1>6, <1>7 DEF Tokens

\* The count of confirmed messages stays behind that of the batch.
LEMMA CountsStep ==
  ASSUME TypeOK, Tokens, Counts, Next
  PROVE  Counts'
<1> SUFFICES ASSUME NEW w \in Workers
    PROVE  /\ pc'[w] = "prepared" => wsteps'[w] > 0
           /\ pc'[w] \notin PhaseSending \cup {"settle"} => wconf'[w] = 0
           /\ pc'[w] \in PhaseSending => wconf'[w] < wsteps'[w]
  BY DEF Counts
<1>1. MemoryMoves(w)
  BY MemoryStep
<1> QED
  BY <1>1 DEF TypeOK, Counts, MemoryMoves, Rests, Leaves, Claims, ClaimLease,
     Advances, BeginSend, Submit, Go, Loops, Concludes, PhaseSending,
     PhaseBeforeSend

\* Whatever becomes aggregated has a parent.
LEMMA AdoptedStep ==
  ASSUME TypeOK, Tokens, Counts, Adopted, Next
  PROVE  Adopted'
<1> SUFFICES ASSUME NEW j \in Jobs, state'[j] = "aggregated"
    PROVE  parent'[j] \in Jobs
  BY DEF Adopted
<1>1. ASSUME NEW k \in Jobs, NEW p \in Jobs, RouteJoin(k, p)
      PROVE  parent'[j] \in Jobs
  BY <1>1 DEF TypeOK, Adopted, RouteJoin
<1>2. ASSUME UNCHANGED parent, state[j] = "aggregated"
      PROVE  parent'[j] \in Jobs
  BY <1>2 DEF Adopted
<1>3. ASSUME NEW w \in Workers, ClaimRecover(w)
      PROVE  state[j] = "aggregated"
  <2>1. PICK R \in SUBSET {k \in Jobs : Recoverable(k)} :
          state' = [k \in Jobs |->
            CASE k \in R -> RecoveredState(k)
              [] k \in {i \in Jobs : parent[i] \in R /\ state[i] = "aggregated"} \ R
                   -> RecoveredState(parent[k])
              [] OTHER -> state[k]]
    BY <1>3 DEF ClaimRecover
  <2>2. CASE j \in R
    <3>1. RecoveredState(j) \in Terminal
      BY <2>1, <2>2, RecoveredIsTerminal
    <3> QED
      BY <2>1, <2>2, <3>1 DEF Terminal, Unsent, Uncertain
  <2>3. CASE j \notin R
    BY <2>1, <2>3
  <2> QED
    BY <2>2, <2>3
<1>4. ASSUME NEW w \in Workers, NEW k \in Jobs, ClaimLease(w, k) \/ ClaimCorrupt(w, k)
      PROVE  state[j] = "aggregated"
  BY <1>4 DEF TypeOK, ClaimLease, ClaimCorrupt, Resolved
<1>5. ASSUME NEW w \in Workers, Settle(w)
      PROVE  state[j] = "aggregated"
  BY <1>5 DEF TypeOK, Settle, Resolved, Terminal, Unsent, Uncertain
<1>6. ASSUME NEW w \in Workers, BeginSend(w)
      PROVE  state[j] = "aggregated"
  BY <1>6 DEF TypeOK, BeginSend
<1>7. ASSUME NEW k \in Jobs, \/ RouteRoot(k) \/ UserCancel(k)
                             \/ UserReschedule(k) \/ UserRetry(k)
      PROVE  state[j] = "aggregated"
  BY <1>7 DEF TypeOK, RouteRoot, UserCancel, UserReschedule, UserRetry,
     Resolved
<1>8. CASE RuleWithdrawn \/ \E m \in Monitors : MonitorChanges(m)
  BY <1>2, <1>8 DEF TypeOK, RuleWithdrawn, MonitorChanges
<1>9. CASE \E w \in Workers : WorkerStep(w) \/ Crash(w)
  <2>1. UNCHANGED parent
    <3> SUFFICES ASSUME NEW w \in Workers, WorkerStep(w) \/ Crash(w)
                 PROVE  UNCHANGED parent
      BY <1>9
    <3>1. CASE PrimaryStep(w)
      BY <3>1 DEF PrimaryStep, ClaimRecover, ClaimNothing, ClaimCorrupt,
         Refresh, RefreshEmpty, RefreshLost, Preflight, Prepare,
         PrepareRefused, AttemptBreaks, CountAttempt, BeginLost, BeginRefused,
         BeginGated, BeginSend, rowVars
    <3>2. CASE ~PrimaryStep(w)
      BY <3>2 DEF PrimaryStep, WorkerStep, Crash, ClaimLease, Pace, Gate,
         LeaseLost, SendRefused, SendBreaks, Submit, AnswerAccepted,
         AnswerRefused, AnswerUnknown, Acknowledge, AcknowledgeFails, Settle,
         SettleBreaks, rowVars
    <3> QED
      BY <3>1, <3>2
  <2>2. \/ UNCHANGED state
        \/ \E w \in Workers : \/ ClaimRecover(w) \/ Settle(w) \/ BeginSend(w)
                             \/ \E k \in Jobs : ClaimLease(w, k) \/ ClaimCorrupt(w, k)
    BY <1>9 DEF WorkerStep, ClaimNothing, Refresh, RefreshEmpty, RefreshLost,
       Preflight, Prepare, PrepareRefused, AttemptBreaks, CountAttempt,
       BeginLost, BeginRefused, BeginGated, Pace, Gate, LeaseLost, SendRefused,
       SendBreaks, Submit, AnswerAccepted, AnswerRefused, AnswerUnknown,
       Acknowledge, AcknowledgeFails, SettleBreaks, Crash, rowVars
  <2> QED
    BY <1>2, <1>3, <1>4, <1>5, <1>6, <2>1, <2>2
<1>10. CASE \E k \in Jobs : JobStep(k)
  BY <1>1, <1>2, <1>7, <1>10
  DEF JobStep, LeaseRunsOut, RouteRoot, UserCancel, UserReschedule, UserRetry
<1>11. CASE GateWindowRolls \/ \E r \in wire : DiscordAccepts(r) \/ DiscordRefuses(r)
  BY <1>2, <1>11 DEF GateWindowRolls, DiscordAccepts, DiscordRefuses, rowVars
<1> QED
  BY <1>8, <1>9, <1>10, <1>11 DEF Next

\* What the state before the step says of the requests that exist after it.
LEMMA UndeliveredStep ==
  ASSUME QueueInv, Next
  PROVE  UnsentMeansUndelivered' /\ HolderSubmits'
<1> USE DEF QueueInv
<1> SUFFICES ASSUME NEW r \in Requests'
    PROVE  /\ state'[r.job] \in {"sending", "sent"} \cup Uncertain
           /\ state'[r.job] = "sending" => r.lease = lease'[r.job]
  BY DEF UnsentMeansUndelivered, HolderSubmits, Requests
<1>1. CASE r \in Requests
  <2>1. r.job \in Jobs
    BY <1>1 DEF TypeOK, Requests, Request
  <2>2. RowMoves(r.job)
    BY <2>1, RowStep
  <2>3. state[r.job] \in {"sending", "sent"} \cup Uncertain
    BY <1>1 DEF UnsentMeansUndelivered
  <2>4. CASE state[r.job] \in Delivering
    BY <2>2, <2>4 DEF RowMoves, OutcomeKept, Delivering, Uncertain
  <2>5. CASE state[r.job] = "sending"
    <3>1. ASSUME NEW w \in Workers, Settle(w), wjob[w] = r.job, Owns(w),
                 state'[r.job] = goal[w]
          PROVE  state'[r.job] \in Delivering
      <4>1. r.lease = wlease[w] /\ lease[wjob[w]] = wlease[w]
        BY <1>1, <2>5, <3>1 DEF HolderSubmits, Owns
      <4> QED
        BY <1>1, <3>1, <4>1 DEF Settle, NothingSubmitted
    <3> QED
      BY <1>1, <2>2, <2>5, <3>1 DEF RowMoves, SendingLeft, HolderSubmits,
         Delivering, Uncertain
  <2> QED
    BY <2>3, <2>4, <2>5 DEF Delivering
<1>2. CASE r \notin Requests
  <2>1. PICK w \in Workers : Submit(w) /\ r = Submission(w) /\ UNCHANGED rowVars
    BY <1>2, RequestStep
  <2>2. pc[w] \in PhaseSending /\ r.job = wjob[w] /\ r.lease = wlease[w]
    BY <2>1 DEF Submit, Submission, PhaseSending
  <2> QED
    BY <2>1, <2>2 DEF OwnsOrAbandoned, rowVars, Uncertain
<1> QED
  BY <1>1, <1>2

\* A worker that is in the sending loop after the step was there before it,
\* with the same row, or has just begun to send.
LEMMA SendersStay ==
  ASSUME TypeOK, Tokens, Counts, Next, NEW w \in Workers, pc'[w] \in PhaseSending
  PROVE  /\ wjob'[w] = wjob[w] /\ wlease'[w] = wlease[w]
         /\ wjob[w] \in Jobs /\ wlease[w] # NoLease
         /\ pc[w] \in PhaseSending \/ BeginSend(w)
<1>1. MemoryMoves(w)
  BY MemoryStep
<1>2. ~Leaves(w) /\ ~Claims(w) /\ ~Advances(w) /\ ~Concludes(w)
  BY DEF TypeOK, Leaves, Claims, ClaimLease, Advances, Concludes, PhaseSending,
     PhaseBeforeSend
<1>3. CASE BeginSend(w)
  BY <1>3 DEF Tokens, BeginSend
<1>4. CASE Rests(w) \/ Submit(w) \/ Loops(w)
  <2>1. /\ pc[w] \in PhaseSending
        /\ wjob'[w] = wjob[w] /\ wlease'[w] = wlease[w]
    BY <1>4 DEF Rests, Submit, Go, Loops, PhaseSending
  <2> QED
    BY <2>1 DEF Tokens, PhaseSending
<1> QED
  BY <1>1, <1>2, <1>3, <1>4 DEF MemoryMoves

\* Nobody is in the sending loop with a row for which a worker begins to send.
LEMMA BeginsAlone ==
  ASSUME QueueInv, NEW v \in Workers, NEW w \in Workers, v # w, BeginSend(w)
  PROVE  /\ pc'[v] = pc[v]
         /\ pc[v] \in PhaseSending => wjob[v] # wjob[w]
         /\ ~BeginSend(v)
<1>1. pc'[v] = pc[v]
  BY DEF QueueInv, TypeOK, BeginSend
<1>2. state[wjob[w]] = "leased"
  BY DEF BeginSend, HoldsLeased
<1>3. ~BeginSend(v)
  BY <1>1 DEF QueueInv, TypeOK, BeginSend
<1> QED
  BY <1>1, <1>2, <1>3 DEF QueueInv, OwnsOrAbandoned

\* A sender keeps its row until a recovery calls the outcome unknown.
LEMMA OwnershipStep ==
  ASSUME QueueInv, Next
  PROVE  OwnsOrAbandoned' /\ OneSender'
<1> USE DEF QueueInv
<1>1. ASSUME NEW w \in Workers, pc'[w] \in PhaseSending
      PROVE  \/ state'[wjob[w]] = "sending" /\ lease'[wjob[w]] = wlease[w]
             \/ state'[wjob[w]] = "unknown" /\ lease'[wjob[w]] = NoLease
  <2>1. wjob[w] \in Jobs /\ wlease[w] # NoLease
    BY <1>1, SendersStay
  <2>2. CASE BeginSend(w)
    BY <2>1, <2>2 DEF TypeOK, BeginSend, HoldsLeased, Holds, Owns
  <2>3. CASE pc[w] \in PhaseSending
    <3>1. RowMoves(wjob[w])
      BY <2>1, RowStep
    <3>2. CASE state[wjob[w]] = "unknown" /\ lease[wjob[w]] = NoLease
      <4>1. state'[wjob[w]] = "unknown"
        BY <3>1, <3>2 DEF RowMoves, OutcomeKept, Delivering, Uncertain
      <4>2. ~Claimable(wjob[w])
        BY <3>2 DEF Claimable
      <4> QED
        BY <3>1, <3>2, <4>1, <4>2 DEF RowMoves, LeaseMoves
    <3>3. CASE state[wjob[w]] = "sending" /\ lease[wjob[w]] = wlease[w]
      <4>1. ASSUME NEW v \in Workers, Settle(v), wjob[v] = wjob[w], Owns(v)
            PROVE  FALSE
        <5>1. wlease[v] = wlease[w]
          BY <3>3, <4>1 DEF Owns
        <5>2. v = w
          BY <2>1, <5>1 DEF Tokens
        <5> QED
          BY <2>3, <4>1, <5>2 DEF Settle, PhaseSending
      <4> QED
        BY <3>1, <3>3, <4>1 DEF RowMoves, SendingLeft
    <3> QED
      BY <2>3, <3>2, <3>3 DEF OwnsOrAbandoned
  <2> QED
    BY <1>1, <2>2, <2>3, SendersStay
<1>2. ASSUME NEW v \in Workers, NEW w \in Workers, v # w,
             pc'[v] \in PhaseSending, pc'[w] \in PhaseSending
      PROVE  wjob[v] # wjob[w]
  <2>1. CASE BeginSend(v) \/ BeginSend(w)
    BY <1>2, <2>1, BeginsAlone
  <2>2. CASE pc[v] \in PhaseSending /\ pc[w] \in PhaseSending
    BY <1>2, <2>2 DEF OneSender
  <2> QED
    BY <1>2, <2>1, <2>2, SendersStay
<1> QED
  BY <1>1, <1>2, SendersStay DEF OwnsOrAbandoned, OneSender

\* Two workers never submit in the same step, and a worker that submits is
\* neither beginning to send nor moving on otherwise.
LEMMA SubmitAlone ==
  ASSUME TypeOK, NEW w \in Workers, Submit(w), NEW v \in Workers
  PROVE  /\ v # w => Rests(v) /\ ~Submit(v)
         /\ ~BeginSend(v)
         /\ pc[w] \in PhaseSending /\ pc'[w] = "await"
         /\ Submission(w)' = Submission(w) /\ wconf'[w] = wconf[w]
<1>1. /\ pc[w] = "submit" /\ pc' = [pc EXCEPT ![w] = "await"]
      /\ UNCHANGED <<wjob, wlease, wplan, tries, wsteps, wconf, goal, state>>
  BY DEF Submit, Go, rowVars
<1>2. ~BeginSend(v)
  <2>1. ~(pc' = [pc EXCEPT ![v] = "sending"] /\ pc[v] = "prepared")
    BY <1>1 DEF TypeOK
  <2> QED
    BY <2>1 DEF BeginSend
<1>3. v # w => ~Submit(v)
  BY <1>1 DEF TypeOK, Submit, Go
<1> QED
  BY <1>1, <1>2, <1>3 DEF TypeOK, Rests, Submission, PhaseSending

\* Nobody else submits for the row of a sender.
LEMMA OwnSubmissionsStep ==
  ASSUME QueueInv, Next
  PROVE  OwnSubmissions'
<1> USE DEF QueueInv
<1> SUFFICES ASSUME NEW w \in Workers, pc'[w] \in PhaseSending,
                    NEW r \in Requests', r.job = wjob'[w]
    PROVE  /\ r.lease = wlease'[w]
           /\ r.step <= Reached(w)'
           /\ pc'[w] = "await" /\ r.step = wconf'[w] + 1 => r = Submission(w)'
  BY DEF OwnSubmissions
<1>1. /\ wjob'[w] = wjob[w] /\ wlease'[w] = wlease[w] /\ wjob[w] \in Jobs
      /\ pc[w] \in PhaseSending \/ BeginSend(w)
  BY SendersStay
<1>2. CASE BeginSend(w)
  <2>1. r \in Requests
    BY <1>2, RequestStep, SubmitAlone
  <2>2. state[wjob[w]] = "leased"
    BY <1>2 DEF BeginSend, HoldsLeased
  <2> QED
    BY <1>1, <2>1, <2>2 DEF UnsentMeansUndelivered, Uncertain
<1>3. CASE Submit(w)
  <2>1. /\ pc[w] = "submit" /\ pc'[w] = "await"
        /\ Submission(w)' = Submission(w) /\ wconf'[w] = wconf[w]
    BY <1>3, SubmitAlone DEF Submit
  <2>2. Reached(w) = wconf[w] /\ Reached(w)' = wconf[w] + 1 /\ wconf[w] \in Nat
    BY <2>1 DEF TypeOK, Reached
  <2>3. CASE r \in Requests
    <3>1. r.lease = wlease[w] /\ r.step <= wconf[w] /\ r.step \in Nat
      BY <1>1, <2>1, <2>2, <2>3 DEF OwnSubmissions, TypeOK, Requests, Request,
         PhaseSending
    <3> QED
      BY <1>1, <2>1, <2>2, <3>1
  <2>4. CASE r = Submission(w)
    BY <1>1, <2>1, <2>2, <2>4 DEF Submission
  <2> QED
    BY <1>3, <2>3, <2>4, RequestStep, SubmitAlone
<1>4. CASE pc[w] \in PhaseSending /\ ~BeginSend(w) /\ ~Submit(w)
  <2>1. r \in Requests
    <3> SUFFICES ASSUME NEW v \in Workers, Submit(v), r = Submission(v)
                 PROVE  FALSE
      BY RequestStep
    <3>1. pc[v] \in PhaseSending /\ wjob[v] = wjob[w] /\ v # w
      BY <1>1, <1>4, SubmitAlone DEF Submission
    <3> QED
      BY <1>4, <3>1 DEF OneSender
  <2>2. /\ r.lease = wlease[w] /\ r.step <= Reached(w)
        /\ pc[w] = "await" /\ r.step = wconf[w] + 1 => r = Submission(w)
    BY <1>1, <1>4, <2>1 DEF OwnSubmissions
  <2>3. Rests(w) \/ Loops(w)
    <3>1. MemoryMoves(w)
      BY MemoryStep
    <3> QED
      BY <1>4, <3>1 DEF MemoryMoves, Leaves, Claims, ClaimLease, Advances,
         Concludes, TypeOK, PhaseSending, PhaseBeforeSend
  <2> QED
    BY <1>1, <2>2, <2>3 DEF Rests, Loops, Reached, Submission
<1> QED
  BY <1>1, <1>2, <1>3, <1>4

\* A worker submits only in the sending loop.
LEMMA NothingSubmittedStep ==
  ASSUME QueueInv, Next
  PROVE  NothingSubmitted'
<1> USE DEF QueueInv
<1> SUFFICES ASSUME NEW w \in Workers,
                    \/ pc'[w] \in PhaseBeforeSend
                    \/ /\ pc'[w] = "settle" /\ goal'[w] \notin Delivering
                       /\ lease'[wjob'[w]] = wlease'[w],
                    NEW r \in Requests', r.job = wjob'[w]
    PROVE  r.lease # wlease'[w]
  BY DEF NothingSubmitted
<1>1. /\ lastLease \in Nat /\ wlease[w] \in Nat /\ wlease[w] <= lastLease
      /\ r \in Requests => r.lease \in Nat /\ r.lease <= lastLease
  BY DEF TypeOK, Tokens, Requests, Request, Leases, NoLease
<1>2. CASE Claims(w)
  <2>1. PICK j \in Jobs : ClaimLease(w, j)
    BY <1>2 DEF Claims
  <2>2. wlease'[w] = lastLease + 1
    BY <2>1 DEF TypeOK, ClaimLease
  <2>3. r \in Requests
    <3>1. ~\E v \in Workers : Submit(v)
      BY <2>1, <2>2, <1>1 DEF ClaimLease, Submit, envVars
    <3> QED
      BY <3>1, RequestStep
  <2> QED
    BY <1>1, <2>2, <2>3
<1>3. CASE ~Claims(w)
  <2>1. /\ wjob'[w] = wjob[w] /\ wlease'[w] = wlease[w]
        /\ Rests(w) \/ Advances(w) \/ Concludes(w)
    BY <1>3, MemoryStep, SubmitAlone
    DEF MemoryMoves, Rests, Leaves, Advances, BeginSend, TypeOK, Loops,
       Concludes, PhaseSending, PhaseBeforeSend
  <2>2. wjob[w] \in Jobs /\ wlease[w] # NoLease
    BY <2>1 DEF Rests, Advances, Concludes, Tokens, PhaseSending,
       PhaseBeforeSend
  <2>3. CASE r \notin Requests
    <3>1. PICK v \in Workers : Submit(v) /\ r = Submission(v)
      BY <2>3, RequestStep
    <3>2. v # w
      BY <2>1, <3>1, SubmitAlone DEF Submit, Rests, Advances, Concludes,
         PhaseSending, PhaseBeforeSend
    <3> QED
      BY <2>1, <2>2, <3>1, <3>2 DEF Submission, Tokens
  <2>4. CASE r \in Requests /\ pc'[w] \in PhaseBeforeSend
    <3>1. pc[w] \in PhaseBeforeSend
      BY <2>1, <2>4 DEF Rests, Advances, Concludes, PhaseBeforeSend
    <3> QED
      BY <2>1, <2>4, <3>1 DEF NothingSubmitted
  <2>5. CASE r \in Requests /\ pc'[w] \notin PhaseBeforeSend
    <3>1. /\ pc'[w] = "settle" /\ goal'[w] \notin Delivering
          /\ lease'[wjob[w]] = wlease[w]
      BY <2>1, <2>5
    <3>2. lease[wjob[w]] = wlease[w]
      BY <1>1, <2>2, <3>1, RowStep DEF RowMoves, LeaseMoves
    <3>3. CASE Rests(w) \/ Advances(w)
      BY <2>1, <2>5, <3>1, <3>2, <3>3 DEF NothingSubmitted, Rests, Advances
    <3>4. CASE Concludes(w)
      <4>1. \/ pc[w] \in PhaseSending /\ Reached(w) = 0
            \/ pc[w] = "await" /\ wconf[w] = 0 /\ Submission(w) \notin Requests
            \/ pc[w] = "ack" /\ state[wjob[w]] # "sending"
        BY <3>1, <3>2, <3>4 DEF Concludes
      <4>2. r.step \in Nat /\ r.step > 0
        BY <2>5 DEF TypeOK, Requests, Request
      <4>3. CASE pc[w] \in PhaseSending /\ Reached(w) = 0
        BY <2>1, <2>5, <4>2, <4>3 DEF OwnSubmissions
      <4>4. CASE pc[w] = "await" /\ wconf[w] = 0 /\ Submission(w) \notin Requests
        <5>1. pc[w] \in PhaseSending /\ Reached(w) = 1
          BY <4>4 DEF PhaseSending, Reached
        <5>2. r.lease = wlease[w] /\ r.step <= 1
              /\ (r.step = 1 => r = Submission(w))
          BY <2>1, <2>5, <4>4, <5>1 DEF OwnSubmissions
        <5> QED
          BY <2>5, <4>2, <4>4, <5>2
      <4>5. CASE pc[w] = "ack" /\ state[wjob[w]] # "sending"
        BY <2>2, <3>2, <4>5 DEF OwnsOrAbandoned, PhaseSending
      <4> QED
        BY <4>1, <4>3, <4>4, <4>5
    <3> QED
      BY <2>1, <3>3, <3>4
  <2> QED
    BY <2>3, <2>4, <2>5
<1> QED
  BY <1>2, <1>3

\* A submission is the first of its message.
LEMMA AtMostOnceStep ==
  ASSUME QueueInv, Next
  PROVE  AtMostOnce'
<1> USE DEF QueueInv
<1> SUFFICES ASSUME NEW r \in Requests', NEW q \in Requests', r.job = q.job
    PROVE  r.lease = q.lease /\ (r.step = q.step => r = q)
  BY DEF AtMostOnce, Requests
<1>1. CASE r \in Requests /\ q \in Requests
  BY <1>1 DEF AtMostOnce
<1>2. CASE ~(r \in Requests /\ q \in Requests)
  <2>1. PICK w \in Workers : Submit(w) /\ Requests' = Requests \cup {Submission(w)}
    BY <1>2, RequestStep
  <2>2. /\ pc[w] \in PhaseSending /\ Reached(w) = wconf[w] /\ wconf[w] \in Nat
        /\ Submission(w).job = wjob[w] /\ Submission(w).lease = wlease[w]
        /\ Submission(w).step = wconf[w] + 1
    BY <2>1 DEF TypeOK, Submit, Submission, Reached, PhaseSending
  <2>3. ASSUME NEW n \in Requests, n.job = wjob[w]
        PROVE  n.lease = wlease[w] /\ n.step # wconf[w] + 1
    <3>1. n.lease = wlease[w] /\ n.step <= wconf[w] /\ n.step \in Nat
      BY <2>2, <2>3 DEF OwnSubmissions, TypeOK, Requests, Request
    <3> QED
      BY <2>2, <3>1
  <2> QED
    BY <1>2, <2>1, <2>2, <2>3
<1> QED
  BY <1>1, <1>2

\* The invariant is inductive.
LEMMA QueueStep == QueueInv /\ [Next]_vars => QueueInv'
<1> SUFFICES ASSUME QueueInv, [Next]_vars PROVE QueueInv'
  OBVIOUS
<1>1. CASE Next
  <2>1. TypeOK' /\ Tokens' /\ Counts' /\ Adopted'
    BY <1>1, TypeStep, TokensStep, CountsStep, AdoptedStep DEF QueueInv
  <2> QED
    BY <1>1, <2>1, UndeliveredStep, OwnershipStep, OwnSubmissionsStep,
       NothingSubmittedStep, AtMostOnceStep
    DEF QueueInv
<1>2. CASE UNCHANGED vars
  BY <1>2 DEF vars, rowVars, envVars, workVars, netVars, QueueInv, TypeOK,
     Tokens, Counts, Adopted, UnsentMeansUndelivered, HolderSubmits,
     OwnsOrAbandoned, OneSender, OwnSubmissions, Reached, Submission,
     NothingSubmitted, AtMostOnce, Requests
<1> QED
  BY <1>1, <1>2

-----------------------------------------------------------------------------
(* The theorems.                                                           *)

\* The invariant holds in every reachable state of the queue.
THEOREM QueueInvariant == Spec => []QueueInv
  BY QueueInit, QueueStep, PTL DEF Spec

\* Rows, memories and requests keep their types, so no handler of queue.js or
\* runtime.js computes a state, a count or a lease it does not know.
THEOREM TypeCorrect == Spec => []TypeOK
<1>1. QueueInv => TypeOK
  BY DEF QueueInv
<1> QED
  BY <1>1, QueueInvariant, PTL

\* However many processes tick, crash and outlive their leases, no message of
\* a job is posted twice and no second lease ever posts for the job.
THEOREM NeverTwice == Spec => []AtMostOnce
<1>1. QueueInv => AtMostOnce
  BY DEF QueueInv
<1> QED
  BY <1>1, QueueInvariant, PTL

\* A row that history.js lets an owner retry, or a claim may take up again,
\* has nothing at Discord, neither delivered nor in flight.
THEOREM RetryIsSafe == Spec => []UnsentMeansUndelivered
<1>1. QueueInv => UnsentMeansUndelivered
  BY DEF QueueInv
<1> QED
  BY <1>1, QueueInvariant, PTL

\* No transaction of any process, owner or recovery rewrites an outcome that
\* tells of a delivery.
THEOREM OutcomesStand == Spec => DeliveryOutcomeStands
<1>1. QueueInv /\ [Next]_vars =>
        [\A j \in Jobs : state[j] \in {"sent"} \cup Uncertain
                          => state'[j] = state[j]]_vars
  <2> SUFFICES ASSUME QueueInv, Next
               PROVE  \A j \in Jobs : state[j] \in {"sent"} \cup Uncertain
                                         => state'[j] = state[j]
    OBVIOUS
  <2> QED
    BY RowStep DEF QueueInv, RowMoves, OutcomeKept, Delivering
<1> QED
  BY <1>1, QueueInvariant, PTL DEF Spec, DeliveryOutcomeStands
=============================================================================
