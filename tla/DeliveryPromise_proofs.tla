----------------------- MODULE DeliveryPromise_proofs -----------------------
(***************************************************************************)
(* Proofs about the batches of DeliveryQueue: what a row and the events    *)
(* folded into it say of the messages Discord accepted, and that the queue *)
(* implements DeliveryPromise.  They rest on QueueInv, the invariant of    *)
(* DeliveryQueue_proofs.                                                   *)
(***************************************************************************)
EXTENDS DeliveryQueue_proofs

-----------------------------------------------------------------------------
(* The rows a step can touch.                                              *)

\* The steps of a worker that write a row other than its lease and attempts.
WorkerWrites(w) ==
  \/ ClaimRecover(w) \/ Refresh(w) \/ BeginSend(w) \/ Acknowledge(w) \/ Settle(w)
  \/ \E j \in Jobs : ClaimLease(w, j) \/ ClaimCorrupt(w, j)

\* The same of the owner, the router and the withdrawals.
OwnerWrites ==
  \/ \E j \in Jobs : RouteRoot(j) \/ UserCancel(j) \/ UserReschedule(j) \/ UserRetry(j)
  \/ \E j, p \in Jobs : RouteJoin(j, p)
  \/ RuleWithdrawn \/ \E m \in Monitors : MonitorChanges(m)

content == <<state, parent, members, sentSteps>>

\* No other step changes what a row says.
LEMMA ContentStep ==
  ASSUME Next
  PROVE  \/ \E w \in Workers : WorkerWrites(w)
         \/ OwnerWrites
         \/ UNCHANGED content
<1>1. ASSUME NEW w \in Workers, WorkerStep(w) \/ Crash(w), ~WorkerWrites(w)
      PROVE  UNCHANGED content
  BY <1>1 DEF WorkerWrites, WorkerStep, ClaimNothing, RefreshEmpty, RefreshLost,
     Preflight, Prepare, PrepareRefused, AttemptBreaks, CountAttempt, BeginLost,
     BeginRefused, BeginGated, Pace, Gate, LeaseLost, SendRefused, SendBreaks,
     Submit, AnswerAccepted, AnswerRefused, AnswerUnknown, AcknowledgeFails,
     SettleBreaks, Crash, rowVars, content
<1>2. ASSUME NEW j \in Jobs, JobStep(j), ~OwnerWrites
      PROVE  UNCHANGED content
  BY <1>2 DEF OwnerWrites, JobStep, LeaseRunsOut, content
<1> QED
  BY <1>1, <1>2 DEF Next, OwnerWrites, DiscordAccepts, DiscordRefuses,
     GateWindowRolls, rowVars, content

-----------------------------------------------------------------------------
(* The rate gate.                                                          *)

\* Only beginSend charges a job, and only a new window clears the counter.
LEMMA GateStep ==
  ASSUME Next
  PROVE  \/ \E w \in Workers : BeginSend(w)
         \/ gateUsed' = 0 /\ charged' = charged
         \/ UNCHANGED <<gateUsed, charged>>
<1>1. ASSUME NEW w \in Workers, WorkerStep(w) \/ Crash(w), ~BeginSend(w)
      PROVE  UNCHANGED <<gateUsed, charged>>
  <2>1. CASE PrimaryStep(w)
    BY <1>1, <2>1 DEF PrimaryStep, ClaimRecover, ClaimNothing, ClaimCorrupt,
       Refresh, RefreshEmpty, RefreshLost, Preflight, Prepare, PrepareRefused,
       AttemptBreaks, CountAttempt, BeginLost, BeginRefused, BeginGated,
       envVars, rowVars
  <2>2. CASE ~PrimaryStep(w)
    BY <1>1, <2>2 DEF PrimaryStep, WorkerStep, Crash, ClaimLease, Pace, Gate,
       LeaseLost, SendRefused, SendBreaks, Submit, AnswerAccepted,
       AnswerRefused, AnswerUnknown, Acknowledge, AcknowledgeFails, Settle,
       SettleBreaks, envVars, rowVars
  <2> QED
    BY <2>1, <2>2
<1>2. ASSUME NEW j \in Jobs, JobStep(j)
      PROVE  UNCHANGED <<gateUsed, charged>>
  BY <1>2 DEF JobStep, RouteRoot, RouteJoin, LeaseRunsOut, UserCancel,
     UserReschedule, UserRetry, envVars
<1> QED
  BY <1>1, <1>2 DEF Next, DiscordAccepts, DiscordRefuses, GateWindowRolls,
     MonitorChanges, RuleWithdrawn, envVars, rowVars

\* A place that is taken is that of a job charged for the first time.
LEMMA GateChargedStep ==
  ASSUME QueueInv, GateChargedOnce, [Next]_vars
  PROVE  GateChargedOnce'
<1> DEFINE Charged == {j \in Jobs : charged[j]}
<1>1. IsFiniteSet(Charged) /\ Cardinality(Charged) \in Nat
  BY JobAssumption, FS_Subset, FS_CardinalityType
<1>2. gateUsed \in Nat /\ gateUsed <= Cardinality(Charged)
  BY DEF QueueInv, TypeOK, GateChargedOnce
<1>3. ASSUME NEW w \in Workers, BeginSend(w)
      PROVE  GateChargedOnce'
  <2>1. /\ wjob[w] \in Jobs /\ charged \in [Jobs -> BOOLEAN]
        /\ charged' = [charged EXCEPT ![wjob[w]] = TRUE]
        /\ gateUsed' = IF charged[wjob[w]] THEN gateUsed ELSE gateUsed + 1
    BY <1>3 DEF QueueInv, TypeOK, Tokens, BeginSend, GateUse
  <2>2. Charged' = Charged \cup {wjob[w]}
    BY <2>1
  <2>3. /\ charged[wjob[w]] => wjob[w] \in Charged
        /\ ~charged[wjob[w]] => wjob[w] \notin Charged
    BY <2>1
  <2>4. Cardinality(Charged') =
          IF wjob[w] \in Charged THEN Cardinality(Charged) ELSE Cardinality(Charged) + 1
    BY <1>1, <2>2, FS_AddElement
  <2> QED
    BY <1>1, <1>2, <2>1, <2>3, <2>4 DEF GateChargedOnce
<1>4. CASE gateUsed' = 0 /\ charged' = charged
  BY <1>1, <1>4 DEF GateChargedOnce
<1>5. CASE UNCHANGED <<gateUsed, charged>>
  BY <1>5 DEF GateChargedOnce
<1> QED
  BY <1>3, <1>4, <1>5, GateStep DEF vars, rowVars, envVars

\* However often a job is postponed, retried or recovered, beginSend takes one
\* place of its rule's gate for it.
THEOREM ChargedOnce == Spec => []GateChargedOnce
<1>1. Init => GateChargedOnce
  <2> SUFFICES ASSUME Init PROVE GateChargedOnce
    OBVIOUS
  <2>1. IsFiniteSet({j \in Jobs : charged[j]})
    BY JobAssumption, FS_Subset
  <2> QED
    BY <2>1, FS_CardinalityType DEF Init, GateChargedOnce
<1>2. QueueInv /\ GateChargedOnce /\ [Next]_vars => GateChargedOnce'
  BY GateChargedStep
<1> QED
  BY <1>1, <1>2, QueueInvariant, PTL DEF Spec

-----------------------------------------------------------------------------
(* Batches: a row and the events folded into it.                           *)

\* A tick that ends knows the state it will ask for.
Aimed == \A w \in Workers : pc[w] = "settle" => goal[w] # "none"

\* An event is folded into a root of the same rule and monitor, and is over or
\* waits for that root; it never takes a way of its own.
Family ==
  \A c \in Jobs : parent[c] # NoJob =>
    /\ parent[c] \in Jobs /\ parent[parent[c]] = NoJob
    /\ state[c] \in {"aggregated"} \cup Terminal
    /\ state[parent[c]] # "none"
    /\ {c, parent[c]} \cap FlowJobs = {}
    /\ MonitorsOf[parent[c]] = MonitorsOf[c]

\* A worker's row is a root that was routed.
WorksOnRoots ==
  \A w \in Workers : pc[w] \notin {"idle", "recovered"} =>
    parent[wjob[w]] = NoJob /\ state[wjob[w]] # "none"

Open == {"pending", "held", "leased", "sending"}

FamilyInv == QueueInv /\ Aimed /\ Family /\ WorksOnRoots /\ ChildAwaitsOpenParent

\* What a step does to the state of a row.
StateMoves(j) ==
  \/ state'[j] = state[j]
  \/ state[j] = "none" /\ state'[j] = "pending" /\ parent[j] = NoJob
  \/ state[j] = "none" /\ \E p \in Jobs : RouteJoin(j, p)
  \/ state[j] # "none" /\ state'[j] \in Terminal
  \/ parent[j] = NoJob /\ state[j] # "none" /\ state'[j] \in Open

\* What keeps a family together: an event goes on waiting only if the state of
\* its root allows it.
KeepsWaiting(c) ==
  state[c] = "aggregated" /\ state'[c] = "aggregated" => state'[parent[c]] \in Open

\* Goals are named before they are asked for.
LEMMA AimedStep ==
  ASSUME TypeOK, Tokens, Counts, Aimed, Next
  PROVE  Aimed'
<1>1. ASSUME NEW w \in Workers, NEW s \in Terminal \cup {"pending"}, Aim(w, s)
      PROVE  Aimed'
  BY <1>1 DEF TypeOK, Aimed, Aim, Terminal, Unsent, Uncertain
<1>2. ASSUME NEW w \in Workers, NEW p \in Phases \ {"settle"}, Go(w, p)
      PROVE  Aimed'
  BY <1>2 DEF TypeOK, Aimed, Go
<1>3. ASSUME NEW w \in Workers, Forget(w)
      PROVE  Aimed'
  BY <1>3 DEF TypeOK, Aimed, Forget
<1>4. ASSUME NEW w \in Workers, Refresh(w) \/ Prepare(w) \/ BeginSend(w)
                                \/ \E j \in Jobs : ClaimLease(w, j)
      PROVE  Aimed'
  BY <1>4 DEF TypeOK, Aimed, Refresh, Prepare, BeginSend, ClaimLease
<1>5. ASSUME NEW w \in Workers, Acknowledge(w)
      PROVE  Aimed'
  BY <1>1, <1>5 DEF TypeOK, Aimed, Acknowledge, Terminal, Uncertain
<1>6. ASSUME NEW w \in Workers,
             \/ ClaimNothing(w) \/ RefreshLost(w) \/ BeginLost(w)
             \/ LeaseLost(w) \/ Crash(w) \/ Settle(w)
             \/ \E j \in Jobs : ClaimCorrupt(w, j)
      PROVE  Aimed'
  BY <1>3, <1>6 DEF ClaimNothing, RefreshLost, BeginLost, LeaseLost, Crash,
     Settle, ClaimCorrupt
<1>7. ASSUME NEW w \in Workers,
             \/ RefreshEmpty(w) \/ PrepareRefused(w) \/ CountAttempt(w)
             \/ BeginRefused(w) \/ BeginGated(w) \/ SendRefused(w)
             \/ SendBreaks(w) \/ AnswerRefused(w) \/ AnswerUnknown(w)
             \/ AcknowledgeFails(w) \/ SettleBreaks(w)
      PROVE  Aimed'
  <2>1. \E s \in Terminal \cup {"pending"} : Aim(w, s)
    BY <1>7 DEF RefreshEmpty, PrepareRefused, CountAttempt, BeginRefused,
       BeginGated, SendRefused, SendBreaks, AnswerRefused, AnswerUnknown,
       AcknowledgeFails, SettleBreaks, Terminal, Unsent, Uncertain,
       CheckResults, Outcome, RetryOrFail
  <2> QED
    BY <1>1, <2>1
<1>8. ASSUME NEW w \in Workers,
             \/ ClaimRecover(w) \/ AttemptBreaks(w) \/ Pace(w) \/ Gate(w)
             \/ Submit(w) \/ AnswerAccepted(w)
      PROVE  Aimed'
  <2>1. \E p \in Phases \ {"settle"} : Go(w, p)
    BY <1>8 DEF ClaimRecover, AttemptBreaks, Pace, Gate, Submit, AnswerAccepted,
       Phases, PhaseBeforeSend, PhaseSending
  <2> QED
    BY <1>2, <2>1
<1>9. ASSUME NEW w \in Workers, Preflight(w)
      PROVE  Aimed'
  <2>1. \/ \E s \in Terminal \cup {"pending"} : Aim(w, s)
        \/ Go(w, "checked")
    BY <1>9 DEF Preflight, CheckResults, Terminal, Unsent, Uncertain
  <2> QED
    BY <1>1, <1>2, <2>1 DEF Phases, PhaseBeforeSend
<1>10. CASE ~\E w \in Workers : WorkerStep(w) \/ Crash(w)
  <2>1. UNCHANGED workVars
    BY <1>10 DEF Next, JobStep, RouteRoot, RouteJoin, LeaseRunsOut, UserCancel,
       UserReschedule, UserRetry, DiscordAccepts, DiscordRefuses,
       GateWindowRolls, MonitorChanges, RuleWithdrawn
  <2> QED
    BY <2>1 DEF workVars, Aimed
<1> QED
  BY <1>3, <1>4, <1>5, <1>6, <1>7, <1>8, <1>9, <1>10 DEF WorkerStep

\* Every step moves every row in one of these ways, and no root leaves an
\* event behind.
LEMMA StateStep ==
  ASSUME FamilyInv, Next, NEW j \in Jobs
  PROVE  StateMoves(j) /\ KeepsWaiting(j)
<1> USE DEF FamilyInv, QueueInv
<1>0. /\ state[j] = "aggregated" =>
           /\ parent[j] \in Jobs /\ parent[j] # NoJob /\ state[parent[j]] \in Open
      /\ \A k \in Jobs : state[k] \in Open => parent[k] = NoJob
  BY JobAssumption DEF ChildAwaitsOpenParent, Open, Family, TypeOK, Terminal,
     Unsent, Uncertain
<1>1. ASSUME NEW w \in Workers, ClaimRecover(w)
      PROVE  StateMoves(j) /\ KeepsWaiting(j)
  <2>1. PICK R \in SUBSET {k \in Jobs : Recoverable(k)} :
          state' = [k \in Jobs |->
            CASE k \in R -> RecoveredState(k)
              [] k \in {i \in Jobs : parent[i] \in R /\ state[i] = "aggregated"} \ R
                   -> RecoveredState(parent[k])
              [] OTHER -> state[k]]
    BY <1>1 DEF ClaimRecover
  <2>2. \A k \in R : k \in Jobs /\ Recoverable(k) /\ RecoveredState(k) \in Terminal
    BY <2>1, RecoveredIsTerminal
  <2>3. \A k \in Jobs : k \in R => state'[k] = RecoveredState(k) /\ state[k] # "none"
    BY <2>1, <2>2 DEF Recoverable
  <2>4. \A k \in Jobs : k \notin R /\ parent[k] \in R /\ state[k] = "aggregated"
                          => state'[k] = RecoveredState(parent[k])
    BY <2>1
  <2>5. \A k \in Jobs : k \notin R /\ ~(parent[k] \in R /\ state[k] = "aggregated")
                          => state'[k] = state[k]
    BY <2>1
  <2>6. StateMoves(j)
    BY <2>2, <2>3, <2>4, <2>5 DEF StateMoves
  <2>7. KeepsWaiting(j)
    <3> SUFFICES ASSUME state[j] = "aggregated", state'[j] = "aggregated"
                 PROVE  state'[parent[j]] \in Open
      BY DEF KeepsWaiting
    <3>1. j \notin R /\ parent[j] \notin R
      BY <2>2, <2>3, <2>4 DEF Terminal, Unsent, Uncertain
    <3> QED
      BY <1>0, <2>5, <3>1 DEF Open
  <2> QED
    BY <2>6, <2>7
<1>2. ASSUME NEW w \in Workers, NEW k \in Jobs, ClaimLease(w, k)
      PROVE  StateMoves(j) /\ KeepsWaiting(j)
  BY <1>0, <1>2 DEF TypeOK, ClaimLease, Claimable, StateMoves, KeepsWaiting, Open
<1>3. ASSUME NEW k \in Jobs, NEW s \in Terminal \cup {"pending"}, state[k] \in Open,
             state' = Resolved(k, s)
      PROVE  StateMoves(j) /\ KeepsWaiting(j)
  BY <1>0, <1>3 DEF Resolved, StateMoves, KeepsWaiting, Open, Terminal, Unsent,
     Uncertain
<1>4. ASSUME NEW w \in Workers, NEW k \in Jobs, ClaimCorrupt(w, k)
      PROVE  StateMoves(j) /\ KeepsWaiting(j)
  <2>1. state[k] \in Open /\ \E s \in {"partial", "failed"} : state' = Resolved(k, s)
    BY <1>4 DEF ClaimCorrupt, Claimable, Open
  <2> QED
    BY <1>3, <2>1 DEF Terminal, Unsent, Uncertain
<1>5. ASSUME NEW w \in Workers, Settle(w)
      PROVE  StateMoves(j) /\ KeepsWaiting(j)
  <2>1. wjob[w] \in Jobs /\ goal[w] \in Terminal \cup {"pending"}
    BY <1>5 DEF Settle, Tokens, TypeOK, Aimed
  <2>2. \/ state' = state
        \/ state[wjob[w]] \in Open /\ state' = Resolved(wjob[w], goal[w])
    BY <1>5 DEF Settle, Owns, Open
  <2>3. CASE state' = state
    BY <1>0, <2>3 DEF StateMoves, KeepsWaiting
  <2> QED
    BY <1>3, <2>1, <2>2, <2>3
<1>6. ASSUME NEW w \in Workers, BeginSend(w)
      PROVE  StateMoves(j) /\ KeepsWaiting(j)
  <2>1. /\ wjob[w] \in Jobs /\ state[wjob[w]] = "leased"
        /\ state' = [state EXCEPT ![wjob[w]] = "sending"]
    BY <1>6 DEF BeginSend, HoldsLeased, Tokens
  <2> QED
    BY <1>0, <2>1 DEF TypeOK, StateMoves, KeepsWaiting, Open
<1>7. ASSUME NEW k \in Jobs, UserCancel(k)
      PROVE  StateMoves(j) /\ KeepsWaiting(j)
  BY <1>0, <1>7 DEF UserCancel, Editable, Resolved, StateMoves, KeepsWaiting, Open,
     Terminal, Unsent
<1>8. ASSUME NEW k \in Jobs, UserReschedule(k) \/ UserRetry(k)
      PROVE  StateMoves(j) /\ KeepsWaiting(j)
  BY <1>0, <1>8 DEF TypeOK, UserReschedule, UserRetry, Editable, StateMoves,
     KeepsWaiting, Open
<1>9. ASSUME NEW k \in Jobs, RouteRoot(k)
      PROVE  StateMoves(j) /\ KeepsWaiting(j)
  <2>1. state[k] = "none" /\ parent[k] = NoJob
    BY <1>9 DEF RouteRoot, Family, TypeOK, Terminal, Unsent, Uncertain
  <2> QED
    BY <1>0, <1>9, <2>1 DEF TypeOK, RouteRoot, StateMoves, KeepsWaiting, Open
<1>10. ASSUME NEW k \in Jobs, NEW p \in Jobs, RouteJoin(k, p)
       PROVE  StateMoves(j) /\ KeepsWaiting(j)
  <2>1. /\ state[k] = "none" /\ state[p] = "pending"
        /\ state' \in [Jobs -> RowStates] =>
           \A i \in Jobs \ {k} :
             \/ state'[i] = state[i]
             \/ state[i] = "aggregated" /\ state'[i] = "excluded"
    BY <1>10 DEF TypeOK, RouteJoin, Joinable, Superseded
  <2>2. state' \in [Jobs -> RowStates]
    BY <1>10, TypeStep DEF TypeOK
  <2> QED
    BY <1>0, <1>10, <2>1, <2>2 DEF StateMoves, KeepsWaiting, Open, Terminal, Unsent
<1>11. CASE RuleWithdrawn
  <2>1. PICK s \in {"cancelled", "excluded"} :
          state' = [i \in Jobs |-> IF state[i] \in Withdrawable THEN s ELSE state[i]]
    BY <1>11 DEF RuleWithdrawn
  <2> QED
    BY <1>0, <2>1 DEF Withdrawable, StateMoves, KeepsWaiting, Open, Terminal, Unsent
<1>12. ASSUME NEW m \in Monitors, MonitorChanges(m)
       PROVE  StateMoves(j) /\ KeepsWaiting(j)
  <2>1. state' = [i \in Jobs |->
          IF i \notin FlowJobs /\ m \in MonitorsOf[i] /\ state[i] \in Withdrawable
          THEN "cancelled" ELSE state[i]]
    BY <1>12 DEF MonitorChanges
  <2>2. StateMoves(j)
    BY <2>1 DEF StateMoves, Withdrawable, Terminal, Unsent
  <2>3. KeepsWaiting(j)
    <3> SUFFICES ASSUME state[j] = "aggregated", state'[j] = "aggregated"
                 PROVE  state'[parent[j]] \in Open
      BY DEF KeepsWaiting
    <3>1. j \notin FlowJobs /\ m \notin MonitorsOf[j]
          /\ MonitorsOf[parent[j]] = MonitorsOf[j]
      BY <1>0, <2>1 DEF Family, Withdrawable
    <3> QED
      BY <1>0, <2>1, <3>1
  <2> QED
    BY <2>2, <2>3
<1>13. CASE UNCHANGED state
  BY <1>0, <1>13 DEF StateMoves, KeepsWaiting
<1> QED
  BY <1>1, <1>2, <1>4, <1>5, <1>6, <1>7, <1>8, <1>9, <1>10, <1>11, <1>12, <1>13,
     ContentStep
  DEF WorkerWrites, OwnerWrites, Refresh, Acknowledge, content

\* Only joining a batch gives a row a parent.
LEMMA ParentStep ==
  ASSUME Next
  PROVE  parent' = parent \/ \E j, p \in Jobs : RouteJoin(j, p)
  BY ContentStep DEF WorkerWrites, OwnerWrites, content, ClaimRecover, Refresh,
     BeginSend, Acknowledge, Settle, ClaimLease, ClaimCorrupt, RouteRoot,
     UserCancel, UserReschedule, UserRetry, RuleWithdrawn, MonitorChanges

\* What a row that joins a batch looks like before and after.
LEMMA JoinStep ==
  ASSUME FamilyInv, Next, NEW j \in Jobs, NEW p \in Jobs, RouteJoin(j, p)
  PROVE  /\ j # p /\ state[j] = "none" /\ state[p] = "pending" /\ parent[p] = NoJob
         /\ {j, p} \cap FlowJobs = {} /\ MonitorsOf[p] = MonitorsOf[j]
         /\ parent' = [parent EXCEPT ![j] = p]
         /\ state'[j] = "aggregated" /\ state'[p] = "pending"
         /\ \A k \in Jobs : state[k] = "none" => parent[k] = NoJob
  BY DEF FamilyInv, QueueInv, TypeOK, RouteJoin, Joinable, Superseded, Family,
     Terminal, Unsent, Uncertain

\* Families stay together.
LEMMA FamilyStep ==
  ASSUME FamilyInv, Next
  PROVE  Family' /\ ChildAwaitsOpenParent'
<1> USE DEF FamilyInv, QueueInv
<1>1. \A k \in Jobs : StateMoves(k) /\ KeepsWaiting(k)
  BY StateStep
<1>2. TypeOK' /\ Adopted'
  BY TypeStep, AdoptedStep
<1>3. CASE parent' = parent
  <2>1. ASSUME NEW c \in Jobs, parent[c] # NoJob
        PROVE  /\ parent[c] \in Jobs /\ parent[parent[c]] = NoJob
               /\ state'[c] \in {"aggregated"} \cup Terminal
               /\ state'[parent[c]] # "none"
               /\ {c, parent[c]} \cap FlowJobs = {}
               /\ MonitorsOf[parent[c]] = MonitorsOf[c]
    <3>1. /\ parent[c] \in Jobs /\ parent[parent[c]] = NoJob
          /\ state[c] \in {"aggregated"} \cup Terminal /\ state[parent[c]] # "none"
          /\ {c, parent[c]} \cap FlowJobs = {} /\ MonitorsOf[parent[c]] = MonitorsOf[c]
      BY <2>1 DEF Family
    <3>2. StateMoves(c) /\ StateMoves(parent[c])
      BY <1>1, <3>1
    <3>3. state[c] # "none"
      BY <3>1 DEF Terminal, Unsent, Uncertain
    <3> QED
      BY <2>1, <3>1, <3>2, <3>3 DEF StateMoves, Open, Terminal, Unsent, Uncertain
  <2>2. Family'
    BY <1>3, <2>1 DEF Family
  <2>3. ASSUME NEW c \in Jobs, state'[c] = "aggregated"
        PROVE  parent[c] \in Jobs /\ state'[parent[c]] \in Open
    <3>1. parent[c] \in Jobs /\ parent[c] # NoJob
      BY <1>2, <1>3, <2>3, JobAssumption DEF Adopted
    <3>2. state[c] = "aggregated"
      BY <1>1, <2>3, <3>1 DEF Family, StateMoves, Open, Terminal, Unsent, Uncertain
    <3> QED
      BY <1>1, <2>3, <3>1, <3>2 DEF KeepsWaiting
  <2> QED
    BY <1>3, <2>2, <2>3 DEF ChildAwaitsOpenParent, Open
<1>4. ASSUME NEW j \in Jobs, NEW p \in Jobs, RouteJoin(j, p)
      PROVE  Family' /\ ChildAwaitsOpenParent'
  <2>1. /\ j # p /\ state[j] = "none" /\ state[p] = "pending" /\ parent[p] = NoJob
        /\ {j, p} \cap FlowJobs = {} /\ MonitorsOf[p] = MonitorsOf[j]
        /\ parent' = [parent EXCEPT ![j] = p]
        /\ state'[j] = "aggregated" /\ state'[p] = "pending"
        /\ parent[j] = NoJob
    BY <1>4, JoinStep
  <2>2. parent'[j] = p /\ \A k \in Jobs \ {j} : parent'[k] = parent[k]
    BY <2>1 DEF TypeOK
  <2>3. ASSUME NEW c \in Jobs, c # j, parent[c] # NoJob
        PROVE  /\ parent[c] \in Jobs \ {j} /\ parent'[parent[c]] = NoJob
               /\ state'[c] \in {"aggregated"} \cup Terminal
               /\ state'[parent[c]] # "none"
               /\ {c, parent[c]} \cap FlowJobs = {}
               /\ MonitorsOf[parent[c]] = MonitorsOf[c]
               /\ state'[c] = "aggregated" => state'[parent[c]] \in Open
    <3>1. /\ parent[c] \in Jobs /\ parent[parent[c]] = NoJob
          /\ state[c] \in {"aggregated"} \cup Terminal /\ state[parent[c]] # "none"
          /\ {c, parent[c]} \cap FlowJobs = {} /\ MonitorsOf[parent[c]] = MonitorsOf[c]
      BY <2>3 DEF Family
    <3>2. StateMoves(c) /\ StateMoves(parent[c]) /\ KeepsWaiting(c)
      BY <1>1, <3>1
    <3>3. parent[c] # j /\ state[c] # "none"
      BY <2>1, <3>1 DEF Terminal, Unsent, Uncertain
    <3>4. state'[c] = "aggregated" => state[c] = "aggregated"
      <4>1. state'[c] # state[c] => state'[c] # "aggregated"
        BY <2>3, <3>2, <3>3 DEF StateMoves, Open, Terminal, Unsent, Uncertain
      <4> QED
        BY <4>1
    <3>5. state'[c] \in {"aggregated"} \cup Terminal
      BY <2>3, <3>1, <3>2, <3>3 DEF StateMoves
    <3>6. state'[parent[c]] # "none"
      BY <3>1, <3>2 DEF StateMoves, Open, Terminal, Unsent, Uncertain
    <3> QED
      BY <2>2, <3>1, <3>2, <3>3, <3>4, <3>5, <3>6 DEF KeepsWaiting
  <2>4. ASSUME NEW c \in Jobs, parent'[c] # NoJob
        PROVE  /\ parent'[c] \in Jobs /\ parent'[parent'[c]] = NoJob
               /\ state'[c] \in {"aggregated"} \cup Terminal
               /\ state'[parent'[c]] # "none"
               /\ {c, parent'[c]} \cap FlowJobs = {}
               /\ MonitorsOf[parent'[c]] = MonitorsOf[c]
               /\ state'[c] = "aggregated" => state'[parent'[c]] \in Open
    <3>1. CASE c = j
      BY <2>1, <2>2, <3>1 DEF Open
    <3>2. CASE c # j
      BY <2>2, <2>3, <2>4, <3>2
    <3> QED
      BY <3>1, <3>2
  <2>5. Family'
    BY <2>4 DEF Family
  <2>6. ChildAwaitsOpenParent'
    BY <1>2, <2>4, JobAssumption DEF Adopted, ChildAwaitsOpenParent, Open
  <2> QED
    BY <2>5, <2>6
<1> QED
  BY <1>3, <1>4, ParentStep

\* A worker that has a row got it from a claim, which takes roots only.
LEMMA WorksOnRootsStep ==
  ASSUME FamilyInv, Next
  PROVE  WorksOnRoots'
<1> USE DEF FamilyInv, QueueInv
<1> SUFFICES ASSUME NEW w \in Workers, pc'[w] \notin {"idle", "recovered"}
             PROVE  parent'[wjob'[w]] = NoJob /\ state'[wjob'[w]] # "none"
  BY DEF WorksOnRoots
<1>1. \A k \in Jobs : parent[k] = NoJob /\ state[k] # "none" =>
        parent'[k] = NoJob /\ state'[k] # "none"
  <2> SUFFICES ASSUME NEW k \in Jobs, parent[k] = NoJob, state[k] # "none"
               PROVE  parent'[k] = NoJob /\ state'[k] # "none"
    OBVIOUS
  <2>1. state'[k] # "none"
    BY StateStep DEF StateMoves, Open, Terminal, Unsent, Uncertain
  <2>2. parent'[k] = NoJob
    BY ParentStep, JoinStep DEF TypeOK
  <2> QED
    BY <2>1, <2>2
<1>2. CASE Claims(w)
  <2>1. PICK j \in Jobs : ClaimLease(w, j)
    BY <1>2 DEF Claims
  <2>2. wjob'[w] = j /\ state[j] \in {"pending", "leased"}
    BY <2>1 DEF TypeOK, ClaimLease, Claimable
  <2>3. parent[j] = NoJob
    BY <2>2 DEF Family, Terminal, Unsent, Uncertain
  <2> QED
    BY <1>1, <2>2, <2>3
<1>3. CASE ~Claims(w)
  <2>1. wjob'[w] = wjob[w] /\ pc[w] \notin {"idle", "recovered"}
    BY <1>3, MemoryStep
    DEF MemoryMoves, Rests, Leaves, Advances, BeginSend, Submit, Go, Loops,
       Concludes, PhaseBeforeSend, PhaseSending
  <2>2. wjob[w] \in Jobs
    BY <2>1 DEF Tokens
  <2> QED
    BY <1>1, <2>1, <2>2 DEF WorksOnRoots
<1> QED
  BY <1>2, <1>3

\* The families' invariant is inductive.
LEMMA FamilyInduction == FamilyInv /\ [Next]_vars => FamilyInv'
<1> SUFFICES ASSUME FamilyInv, [Next]_vars PROVE FamilyInv'
  OBVIOUS
<1>1. QueueInv'
  BY QueueStep DEF FamilyInv
<1>2. CASE Next
  BY <1>1, <1>2, AimedStep, FamilyStep, WorksOnRootsStep DEF FamilyInv, QueueInv
<1>3. CASE UNCHANGED vars
  BY <1>1, <1>3 DEF FamilyInv, vars, rowVars, workVars, Aimed, Family,
     WorksOnRoots, ChildAwaitsOpenParent
<1> QED
  BY <1>2, <1>3

\* Initially nothing is folded.
LEMMA FamilyInit == Init => FamilyInv
  BY QueueInit DEF Init, FamilyInv, Aimed, Family, WorksOnRoots,
     ChildAwaitsOpenParent

\* The invariant of the families holds in every reachable state.
LEMMA FamilyHolds == Spec => []FamilyInv
  BY FamilyInit, FamilyInduction, PTL DEF Spec

\* No transition, recovery, cancellation or withdrawal leaves an aggregated
\* event without a root that can still be closed.
THEOREM NoOrphans == Spec => []ChildAwaitsOpenParent
<1>1. FamilyInv => ChildAwaitsOpenParent
  BY DEF FamilyInv
<1> QED
  BY <1>1, FamilyHolds, PTL

-----------------------------------------------------------------------------
(* What a batch says and what Discord has of it.                           *)

\* Whatever a worker is about to send is what its row says.
PlanCurrent ==
  \A w \in Workers :
    \/ pc[w] \in PhaseSending
    \/ /\ pc[w] \in PhaseBeforeSend
       /\ state[wjob[w]] = "leased" /\ lease[wjob[w]] = wlease[w]
    => wplan[w] = members[wjob[w]]

\* A waiting event is in the batch of its root.
Contained ==
  \A c \in Jobs : parent[c] # NoJob /\ state[c] = "aggregated"
                    => Content(c) \subseteq members[parent[c]]

\* A row that may be claimed has no confirmed message.
FreshCount ==
  \A j \in Jobs : state[j] \in {"none", "pending", "leased"} => sentSteps[j] = 0

\* Nor has the row of a worker that has not begun, or goes back to pending.
NothingCounted ==
  \A w \in Workers :
    /\ pc[w] \in PhaseBeforeSend \/ (pc[w] = "settle" /\ goal[w] = "pending")
    /\ lease[wjob[w]] = wlease[w]
    => sentSteps[wjob[w]] = 0

\* A worker about to close its row as sent.
Finishing(w) ==
  pc[w] = "settle" /\ goal[w] = "sent" /\ lease[wjob[w]] = wlease[w]

\* The messages a sender has counted are at Discord, and no others but the one
\* it waits for.
Confirmed ==
  \A w \in Workers : pc[w] \in PhaseSending \/ Finishing(w) =>
    /\ sentSteps[wjob[w]] = wconf[w]
    /\ \A n \in 1..wconf[w] : \E r \in delivered :
         r.job = wjob[w] /\ r.step = n /\ r.of = wsteps[w]
    /\ \A r \in wire : r.job = wjob[w] => pc[w] = "await" /\ r = Submission(w)
    /\ pc[w] = "ack" => Submission(w) \in delivered

\* One that is about to close has counted them all.
Finished ==
  \A w \in Workers : Finishing(w) =>
    /\ state[wjob[w]] = "sending"
    /\ wconf[w] = wsteps[w] /\ wconf[w] > 0
    /\ \A r \in Requests : r.job = wjob[w] => r.step <= wconf[w]

\* Requests are made for roots, and are in flight or answered.
RequestsInOrder ==
  /\ wire \cap delivered = {}
  /\ \A r \in Requests : parent[r.job] = NoJob

BatchInv ==
  /\ FamilyInv
  /\ PlanCurrent /\ Contained /\ FreshCount /\ NothingCounted
  /\ Confirmed /\ Finished /\ RequestsInOrder
  /\ BatchFrozen /\ SentMeansDelivered /\ SentChildWasInBatch

\* Nobody forgets what was delivered.
LEMMA DeliveredGrows ==
  ASSUME Next
  PROVE  /\ delivered \subseteq delivered'
         /\ wire' \subseteq wire \/ \E w \in Workers : Submit(w)
         /\ UNCHANGED delivered \/ \E r \in wire : DiscordAccepts(r)
<1>1. CASE \E r \in wire : DiscordAccepts(r) \/ DiscordRefuses(r)
  BY <1>1 DEF DiscordAccepts, DiscordRefuses
<1>2. CASE \E w \in Workers : Submit(w)
  BY <1>2 DEF Submit
<1>3. CASE /\ ~\E w \in Workers : Submit(w)
           /\ ~\E r \in wire : DiscordAccepts(r) \/ DiscordRefuses(r)
  <2>1. UNCHANGED netVars
    BY <1>3 DEF Next, WorkerStep, JobStep, ClaimRecover, ClaimNothing,
       ClaimLease, ClaimCorrupt, Refresh, RefreshEmpty, RefreshLost, Preflight,
       Prepare, PrepareRefused, AttemptBreaks, CountAttempt, BeginLost,
       BeginRefused, BeginGated, BeginSend, Pace, Gate, LeaseLost, SendRefused,
       SendBreaks, AnswerAccepted, AnswerRefused, AnswerUnknown, Acknowledge,
       AcknowledgeFails, Settle, SettleBreaks, Crash, RouteRoot, RouteJoin,
       LeaseRunsOut, UserCancel, UserReschedule, UserRetry, GateWindowRolls,
       MonitorChanges, RuleWithdrawn
  <2> QED
    BY <2>1 DEF netVars
<1> QED
  BY <1>1, <1>2, <1>3

\* What a step does to a worker, in the detail this argument needs.
Keeps(w) ==
  /\ wjob'[w] = wjob[w] /\ wlease'[w] = wlease[w]
  /\ wplan'[w] = wplan[w] /\ wconf'[w] = wconf[w]

Readies(w) ==
  /\ pc[w] \in PhaseBeforeSend /\ pc'[w] \in PhaseBeforeSend \cup {"settle"}
  /\ Keeps(w)
  /\ pc'[w] = "settle" => goal'[w] # "sent"

Paces(w) ==
  /\ pc[w] \in PhaseSending \ {"await", "ack"}
  /\ pc'[w] \in PhaseSending \ {"await", "ack"}
  /\ Keeps(w) /\ wsteps'[w] = wsteps[w]

GivesUp(w) ==
  /\ pc[w] \in PhaseSending \cup {"settle"} /\ pc'[w] = "settle"
  /\ Keeps(w) /\ goal'[w] # "sent"
  /\ goal'[w] = "pending" => pc[w] \in PhaseSending /\ wconf[w] = 0

TickMoves(w) ==
  \/ Rests(w) \/ pc'[w] \in {"idle", "recovered"} \/ Claims(w) \/ Refresh(w)
  \/ BeginSend(w) \/ Submit(w) \/ AnswerAccepted(w) \/ Acknowledge(w)
  \/ Readies(w) \/ Paces(w) \/ GivesUp(w)

\* Every step moves every worker in one of these ways.
LEMMA TickStep ==
  ASSUME TypeOK, Tokens, Counts, Next, NEW w \in Workers
  PROVE  TickMoves(w)
<1>1. ASSUME \/ ClaimNothing(w) \/ RefreshLost(w) \/ BeginLost(w)
             \/ LeaseLost(w) \/ Crash(w) \/ Settle(w) \/ ClaimRecover(w)
             \/ \E j \in Jobs : ClaimCorrupt(w, j)
      PROVE  TickMoves(w)
  BY <1>1 DEF TypeOK, TickMoves, ClaimNothing, RefreshLost, BeginLost, LeaseLost,
     Crash, Settle, ClaimRecover, ClaimCorrupt, Forget, Go
<1>2. ASSUME \/ RefreshEmpty(w) \/ Preflight(w) \/ PrepareRefused(w)
             \/ AttemptBreaks(w) \/ CountAttempt(w) \/ BeginRefused(w)
             \/ BeginGated(w)
      PROVE  TickMoves(w)
  <2>1. /\ pc[w] \in PhaseBeforeSend
        /\ \/ \E s \in Unsent \cup {"pending"} : Aim(w, s)
           \/ Go(w, "checked")
           \/ Go(w, "count")
    BY <1>2 DEF RefreshEmpty, Preflight, PrepareRefused, AttemptBreaks,
       CountAttempt, BeginRefused, BeginGated, PhaseBeforeSend, CheckResults,
       RetryOrFail, Unsent
  <2>2. Readies(w)
    BY <2>1 DEF TypeOK, Readies, Keeps, Aim, Go, PhaseBeforeSend, Unsent
  <2> QED
    BY <2>2 DEF TickMoves
<1>3. ASSUME Prepare(w)
      PROVE  TickMoves(w)
  BY <1>3 DEF TypeOK, TickMoves, Readies, Keeps, Prepare, PhaseBeforeSend
<1>4. ASSUME Pace(w) \/ Gate(w)
      PROVE  TickMoves(w)
  BY <1>4 DEF TypeOK, TickMoves, Paces, Keeps, Pace, Gate, Go, PhaseSending
<1>5. ASSUME \/ SendRefused(w) \/ SendBreaks(w) \/ AnswerRefused(w)
             \/ AnswerUnknown(w) \/ AcknowledgeFails(w) \/ SettleBreaks(w)
      PROVE  TickMoves(w)
  <2>1. /\ pc[w] \in PhaseSending \cup {"settle"}
        /\ \E s \in Unsent \cup {"pending", "partial", "unknown"} :
             /\ Aim(w, s)
             /\ s = "pending" => pc[w] \in PhaseSending /\ wconf[w] = 0
    BY <1>5 DEF TypeOK, SendRefused, SendBreaks, AnswerRefused, AnswerUnknown,
       AcknowledgeFails, SettleBreaks, Outcome, RetryOrFail, PhaseSending, Unsent
  <2>2. GivesUp(w)
    BY <2>1 DEF TypeOK, GivesUp, Keeps, Aim, Unsent
  <2> QED
    BY <2>2 DEF TickMoves
<1>6. CASE WorkerStep(w) \/ Crash(w)
  BY <1>1, <1>2, <1>3, <1>4, <1>5, <1>6 DEF WorkerStep, TickMoves, Claims
<1>7. CASE \E v \in Workers \ {w} : WorkerStep(v) \/ Crash(v)
  BY <1>7, OthersRest DEF TickMoves
<1>8. CASE ~\E v \in Workers : WorkerStep(v) \/ Crash(v)
  <2>1. UNCHANGED workVars
    BY <1>8 DEF Next, JobStep, RouteRoot, RouteJoin, LeaseRunsOut, UserCancel,
       UserReschedule, UserRetry, DiscordAccepts, DiscordRefuses,
       GateWindowRolls, MonitorChanges, RuleWithdrawn
  <2> QED
    BY <2>1 DEF workVars, TickMoves, Rests
<1> QED
  BY <1>6, <1>7, <1>8

\* Which steps write the batch of a row, and which its count of messages.
LEMMA MembersStep ==
  ASSUME Next
  PROVE  \/ members' = members
         \/ \E j \in Jobs : RouteRoot(j)
         \/ \E j, p \in Jobs : RouteJoin(j, p)
         \/ \E w \in Workers : Refresh(w)
  BY ContentStep DEF WorkerWrites, OwnerWrites, content, ClaimRecover,
     BeginSend, Acknowledge, Settle, ClaimLease, ClaimCorrupt,
     UserCancel, UserReschedule, UserRetry, RuleWithdrawn, MonitorChanges

\* Only an acknowledgement counts a message.
LEMMA SentStepsStep ==
  ASSUME Next
  PROVE  sentSteps' = sentSteps \/ \E w \in Workers : Acknowledge(w)
  BY ContentStep DEF WorkerWrites, OwnerWrites, content, ClaimRecover, Refresh,
     BeginSend, Settle, ClaimLease, ClaimCorrupt, RouteRoot, RouteJoin,
     UserCancel, UserReschedule, UserRetry, RuleWithdrawn, MonitorChanges

\* Where a row that may be claimed, is leased or is shown as sent comes from,
\* and where one that was not sent goes.
Sources(j) ==
  /\ state'[j] \in {"none", "pending", "leased"} =>
       \/ state[j] \in {"none", "pending", "leased"}
       \/ sentSteps[j] = 0
       \/ \E w \in Workers : Settle(w) /\ Owns(w) /\ wjob[w] = j /\ goal[w] = "pending"
  /\ state'[j] = "leased" /\ state[j] # "leased" => lease'[j] = lastLease + 1
  /\ state'[j] = "sent" /\ state[j] # "sent" =>
       \E w \in Workers :
         /\ Settle(w) /\ Owns(w) /\ goal[w] = "sent"
         /\ wjob[w] = j \/ (parent[j] = wjob[w] /\ state[j] = "aggregated")
  /\ state[j] \in Unsent => state'[j] \in Unsent \cup Open

\* Every step respects them.
LEMMA SourcesStep ==
  ASSUME FamilyInv, Next, NEW j \in Jobs
  PROVE  Sources(j)
<1> USE DEF FamilyInv, QueueInv
<1>0. \A k \in Jobs : state[k] = "aggregated" =>
        parent[k] \in Jobs /\ parent[k] # NoJob /\ state[parent[k]] \in Open
  BY JobAssumption DEF ChildAwaitsOpenParent, Open
<1>1. ASSUME NEW w \in Workers, ClaimRecover(w)
      PROVE  Sources(j)
  <2>1. PICK R \in SUBSET {k \in Jobs : Recoverable(k)} :
          state' = [k \in Jobs |->
            CASE k \in R -> RecoveredState(k)
              [] k \in {i \in Jobs : parent[i] \in R /\ state[i] = "aggregated"} \ R
                   -> RecoveredState(parent[k])
              [] OTHER -> state[k]]
    BY <1>1 DEF ClaimRecover
  <2>2. ASSUME NEW k \in R
        PROVE  RecoveredState(k) \in Uncertain \cup {"failed"}
    <3>1. k \in Jobs /\ Recoverable(k)
      BY <2>1
    <3>2. state[k] \in {"held", "sending"}
      BY <1>0, <3>1 DEF Recoverable, Open, Terminal, Unsent, Uncertain
    <3> QED
      BY <3>2 DEF RecoveredState, Uncertain
  <2>3. j \in R => state'[j] = RecoveredState(j)
    BY <2>1
  <2>4. j \notin R /\ parent[j] \in R /\ state[j] = "aggregated"
          => state'[j] = RecoveredState(parent[j])
    BY <2>1
  <2>5. j \notin R /\ ~(parent[j] \in R /\ state[j] = "aggregated")
          => state'[j] = state[j]
    BY <2>1
  <2>6. state'[j] = state[j] \/ state'[j] \in Uncertain \cup {"failed"}
    BY <2>2, <2>3, <2>4, <2>5
  <2>7. state[j] \in Unsent => state'[j] = state[j]
    <3>1. \A k \in R : state[k] \notin Unsent
      BY <2>1 DEF Recoverable, Unsent
    <3> QED
      BY <2>5, <3>1 DEF Unsent
  <2> QED
    BY <2>6, <2>7 DEF Sources, Uncertain
<1>2. ASSUME NEW w \in Workers, NEW k \in Jobs, ClaimLease(w, k)
      PROVE  Sources(j)
  BY <1>2 DEF TypeOK, ClaimLease, Claimable, Sources, Unsent
<1>3. ASSUME NEW w \in Workers, NEW k \in Jobs, ClaimCorrupt(w, k)
      PROVE  Sources(j)
  BY <1>3 DEF ClaimCorrupt, Claimable, Resolved, Sources, Unsent
<1>4. ASSUME NEW w \in Workers, Settle(w)
      PROVE  Sources(j)
  <2>1. wjob[w] \in Jobs /\ goal[w] \in Terminal \cup {"pending"}
    BY <1>4 DEF Settle, Tokens, TypeOK, Aimed
  <2>2. CASE Owns(w)
    <3>1. state'[j] = IF j = wjob[w] THEN goal[w]
                      ELSE IF /\ goal[w] \in Terminal
                              /\ parent[j] = wjob[w] /\ state[j] = "aggregated"
                           THEN goal[w] ELSE state[j]
      BY <1>4, <2>2 DEF Settle, Resolved
    <3> QED
      BY <1>4, <2>1, <2>2, <3>1 DEF Owns, Sources, Terminal, Unsent, Uncertain
  <2>3. CASE ~Owns(w)
    BY <1>4, <2>3 DEF Settle, Sources
  <2> QED
    BY <2>2, <2>3
<1>5. ASSUME NEW w \in Workers, BeginSend(w)
      PROVE  Sources(j)
  BY <1>5 DEF TypeOK, BeginSend, Sources, Open
<1>6. ASSUME NEW k \in Jobs, UserCancel(k) \/ UserReschedule(k) \/ UserRetry(k)
      PROVE  Sources(j)
  <2>1. sentSteps[k] = 0
    BY <1>6 DEF UserCancel, UserReschedule, UserRetry, Editable
  <2>2. \/ state'[j] = state[j]
        \/ j = k /\ state'[j] = "pending"
        \/ state'[j] = "cancelled"
    BY <1>6 DEF TypeOK, UserCancel, UserReschedule, UserRetry, Resolved
  <2> QED
    BY <2>1, <2>2 DEF Sources, Unsent, Open
<1>7. ASSUME NEW k \in Jobs, NEW p \in Jobs, RouteRoot(k) \/ RouteJoin(k, p)
      PROVE  Sources(j)
  BY <1>7 DEF TypeOK, RouteRoot, RouteJoin, Superseded, Sources, Unsent, Open
<1>8. CASE RuleWithdrawn \/ \E m \in Monitors : MonitorChanges(m)
  BY <1>8 DEF RuleWithdrawn, MonitorChanges, Withdrawable, Sources, Unsent
<1>9. CASE UNCHANGED state
  BY <1>9 DEF Sources
<1> QED
  BY <1>1, <1>2, <1>3, <1>4, <1>5, <1>6, <1>7, <1>8, <1>9, ContentStep
  DEF WorkerWrites, OwnerWrites, Refresh, Acknowledge, content

\* A lease that a worker remembers was never granted anew, and is its alone.
LEMMA LeaseStays ==
  ASSUME QueueInv, Next, NEW w \in Workers, wjob[w] \in Jobs, wlease[w] # NoLease,
         lease'[wjob[w]] = wlease[w]
  PROVE  /\ lease[wjob[w]] = wlease[w]
         /\ \A v \in Workers : wlease[v] = wlease[w] => v = w
<1>1. lastLease \in Nat /\ lastLease' \in {lastLease, lastLease + 1}
      /\ wlease[w] \in Nat /\ wlease[w] <= lastLease
  BY LastLeaseGrows DEF QueueInv, TypeOK, Tokens, Leases, NoLease
<1>2. RowMoves(wjob[w])
  BY RowStep DEF QueueInv
<1> QED
  BY <1>1, <1>2 DEF QueueInv, Tokens, RowMoves, LeaseMoves

\* A batch that has been read is not written again.
LEMMA BatchStays ==
  ASSUME FamilyInv, Next, NEW j \in Jobs, state[j] \notin {"none", "pending"},
         \A v \in Workers : Refresh(v) => wjob[v] # j
  PROVE  members'[j] = members[j]
<1> USE DEF FamilyInv, QueueInv
<1>1. ASSUME NEW k \in Jobs, RouteRoot(k)
      PROVE  members'[j] = members[j]
  BY <1>1 DEF TypeOK, RouteRoot
<1>2. ASSUME NEW k \in Jobs, NEW p \in Jobs, RouteJoin(k, p)
      PROVE  members'[j] = members[j]
  BY <1>2 DEF TypeOK, RouteJoin, Joinable
<1>3. ASSUME NEW w \in Workers, Refresh(w)
      PROVE  members'[j] = members[j]
  BY <1>3 DEF TypeOK, Refresh
<1> QED
  BY <1>1, <1>2, <1>3, MembersStep

\* A plan that was read under a lease stays that of the row.
LEMMA PlanCurrentStep ==
  ASSUME FamilyInv, PlanCurrent, Next
  PROVE  PlanCurrent'
<1> USE DEF FamilyInv, QueueInv
<1> SUFFICES ASSUME NEW w \in Workers,
                    \/ pc'[w] \in PhaseSending
                    \/ /\ pc'[w] \in PhaseBeforeSend
                       /\ state'[wjob'[w]] = "leased"
                       /\ lease'[wjob'[w]] = wlease'[w]
             PROVE  wplan'[w] = members'[wjob'[w]]
  BY DEF PlanCurrent
<1>1. CASE Claims(w)
  BY <1>1 DEF Claims, ClaimLease, TypeOK
<1>2. CASE Refresh(w)
  BY <1>2 DEF Refresh, TypeOK, Tokens
<1>3. CASE ~Claims(w) /\ ~Refresh(w)
  <2>1. /\ wplan'[w] = wplan[w] /\ wjob'[w] = wjob[w] /\ wlease'[w] = wlease[w]
        /\ pc'[w] \in PhaseSending => pc[w] \in PhaseSending \/ BeginSend(w)
        /\ pc'[w] \in PhaseBeforeSend => pc[w] \in PhaseBeforeSend
        /\ pc[w] \in PhaseSending \cup PhaseBeforeSend
    BY <1>3, TickStep DEF TickMoves, Rests, Keeps, Readies, Paces, GivesUp,
       TypeOK, BeginSend, Submit, AnswerAccepted, Acknowledge, Aim, Go,
       PhaseSending, PhaseBeforeSend
  <2>2. wjob[w] \in Jobs /\ wlease[w] # NoLease
    BY <2>1 DEF Tokens, PhaseSending, PhaseBeforeSend
  <2>3. \/ pc[w] \in PhaseSending
        \/ /\ pc[w] \in PhaseBeforeSend
           /\ state[wjob[w]] = "leased" /\ lease[wjob[w]] = wlease[w]
    <3>1. CASE pc'[w] \in PhaseSending
      BY <2>1, <3>1 DEF BeginSend, HoldsLeased, Holds, Owns, PhaseBeforeSend
    <3>2. CASE pc'[w] \notin PhaseSending
      <4>1. /\ pc[w] \in PhaseBeforeSend
            /\ state'[wjob[w]] = "leased" /\ lease'[wjob[w]] = wlease[w]
        BY <2>1, <3>2
      <4>2. lease[wjob[w]] = wlease[w]
        BY <2>2, <4>1, LeaseStays
      <4>3. wlease[w] <= lastLease /\ lastLease \in Nat
        BY DEF Tokens, TypeOK
      <4>4. state[wjob[w]] = "leased"
        BY <2>2, <4>1, <4>3, SourcesStep DEF Sources
      <4> QED
        BY <4>1, <4>2, <4>4
    <3> QED
      BY <3>1, <3>2
  <2>4. members'[wjob[w]] = members[wjob[w]]
    <3>1. state[wjob[w]] \notin {"none", "pending"}
      BY <2>3 DEF OwnsOrAbandoned
    <3>2. ASSUME NEW v \in Workers, Refresh(v), wjob[v] = wjob[w]
          PROVE  FALSE
      <4>1. state[wjob[w]] = "leased" /\ lease[wjob[w]] = wlease[v]
        BY <3>2 DEF Refresh, HoldsLeased, Holds, Owns
      <4>2. wlease[v] = wlease[w]
        BY <2>3, <4>1 DEF OwnsOrAbandoned
      <4> QED
        BY <1>3, <2>2, <3>2, <4>2 DEF Tokens
    <3> QED
      BY <2>2, <3>1, <3>2, BatchStays
  <2> QED
    BY <2>1, <2>3, <2>4 DEF PlanCurrent
<1> QED
  BY <1>1, <1>2, <1>3

\* A batch is not written once a request with it exists.
LEMMA BatchFrozenStep ==
  ASSUME FamilyInv, PlanCurrent, BatchFrozen, Next
  PROVE  BatchFrozen'
<1> USE DEF FamilyInv, QueueInv
<1> SUFFICES ASSUME NEW r \in Requests'
             PROVE  r.items = members'[r.job]
  BY DEF BatchFrozen
<1>1. CASE r \in Requests
  <2>1. /\ r.job \in Jobs /\ r.items = members[r.job]
        /\ state[r.job] \in {"sending", "sent"} \cup Uncertain
    BY <1>1 DEF TypeOK, Requests, Request, BatchFrozen, UnsentMeansUndelivered
  <2>2. \A v \in Workers : Refresh(v) => wjob[v] # r.job
    BY <2>1 DEF Refresh, HoldsLeased, Uncertain
  <2> QED
    BY <2>1, <2>2, BatchStays DEF Uncertain
<1>2. CASE r \notin Requests
  <2>1. PICK w \in Workers : /\ Submit(w) /\ r = Submission(w)
                             /\ UNCHANGED <<rowVars, envVars>>
    BY <1>2, RequestStep
  <2>2. pc[w] \in PhaseSending /\ r.job = wjob[w] /\ r.items = wplan[w]
    BY <2>1 DEF Submit, Submission, PhaseSending
  <2> QED
    BY <2>1, <2>2 DEF PlanCurrent, rowVars
<1> QED
  BY <1>1, <1>2

\* A waiting event stays in the batch it joined.
LEMMA ContainedStep ==
  ASSUME FamilyInv, Contained, Next
  PROVE  Contained'
<1> USE DEF FamilyInv, QueueInv
<1> SUFFICES ASSUME NEW c \in Jobs, parent'[c] # NoJob, state'[c] = "aggregated"
             PROVE  Content(c) \subseteq members'[parent'[c]]
  BY DEF Contained
<1>1. ASSUME NEW k \in Jobs, NEW p \in Jobs, RouteJoin(k, p)
      PROVE  Content(c) \subseteq members'[parent'[c]]
  <2>1. /\ k # p /\ state[k] = "none" /\ state[p] = "pending"
        /\ parent' = [parent EXCEPT ![k] = p]
        /\ parent[k] = NoJob /\ parent[p] = NoJob
    BY <1>1, JoinStep
  <2>2. /\ members'[k] = Content(k)
        /\ Content(k) \subseteq members'[p]
        /\ Aggregation # "latest" => members[p] \subseteq members'[p]
        /\ \A i \in Jobs \ {k, p} : members'[i] = members[i]
    BY <1>1, <2>1 DEF TypeOK, RouteJoin
  <2>3. CASE c = k
    BY <2>1, <2>2, <2>3 DEF TypeOK
  <2>4. CASE c # k
    <3>1. /\ parent'[c] = parent[c] /\ parent[c] \in Jobs /\ parent[c] # k
          /\ state[c] = "aggregated"
          /\ Aggregation = "latest" => parent[c] # p
      BY <1>1, <2>1, <2>4, StateStep
      DEF TypeOK, RouteJoin, Superseded, Family, StateMoves, Terminal, Unsent,
         Uncertain, Open
    <3> QED
      BY <2>2, <3>1 DEF Contained
  <2> QED
    BY <2>3, <2>4
<1>2. CASE ~\E k, p \in Jobs : RouteJoin(k, p)
  <2>1. parent' = parent
    BY <1>2, ParentStep
  <2>2. /\ parent[c] \in Jobs /\ state[c] \in {"aggregated"} \cup Terminal
        /\ parent[c] \notin FlowJobs /\ state[parent[c]] # "none"
    BY <2>1 DEF Family
  <2>3. state[c] = "aggregated"
    BY <1>2, <2>1, <2>2, StateStep DEF StateMoves, Open, Terminal, Unsent,
       Uncertain
  <2>4. members'[parent[c]] = members[parent[c]]
    BY <1>2, <2>2, MembersStep DEF RouteRoot, Refresh, TypeOK
  <2> QED
    BY <2>1, <2>3, <2>4 DEF Contained
<1> QED
  BY <1>1, <1>2

\* An acknowledgement is by the holder of the row, and changes no other count.
LEMMA AcknowledgeFrame ==
  ASSUME QueueInv, NEW w \in Workers, Acknowledge(w)
  PROVE  /\ pc[w] = "ack" /\ wjob[w] \in Jobs
         /\ lease[wjob[w]] = wlease[w] /\ state[wjob[w]] = "sending"
         /\ sentSteps'[wjob[w]] = sentSteps[wjob[w]] + 1
         /\ \A j \in Jobs \ {wjob[w]} : sentSteps'[j] = sentSteps[j]
         /\ pc'[w] \in {"sending", "settle"}
         /\ wjob'[w] = wjob[w] /\ wlease'[w] = wlease[w]
         /\ wplan'[w] = wplan[w] /\ wsteps'[w] = wsteps[w]
         /\ UNCHANGED <<state, lease, wire, delivered>>
         /\ \/ pc'[w] = "settle" /\ goal'[w] = "unknown"
            \/ /\ wconf'[w] = wconf[w] + 1
               /\ \/ pc'[w] = "sending"
                  \/ pc'[w] = "settle" /\ goal'[w] = "sent" /\ wconf'[w] = wsteps[w]
<1> USE DEF QueueInv
<1>1. /\ pc[w] = "ack" /\ wjob[w] \in Jobs
      /\ lease[wjob[w]] = wlease[w] /\ state[wjob[w]] = "sending"
      /\ sentSteps' = [sentSteps EXCEPT ![wjob[w]] = @ + 1]
      /\ UNCHANGED <<state, lease, wire, delivered>>
  BY DEF Acknowledge, Tokens, netVars
<1>2. CASE Aim(w, "unknown")
  BY <1>1, <1>2 DEF TypeOK, Aim
<1>3. CASE ~Aim(w, "unknown")
  BY <1>1, <1>3 DEF TypeOK, Acknowledge
<1> QED
  BY <1>2, <1>3

\* The row of a worker that is not waiting to acknowledge keeps its count
\* while it holds the row.
LEMMA CountStays ==
  ASSUME QueueInv, Next, NEW w \in Workers, wjob[w] \in Jobs, wlease[w] # NoLease,
         ~Acknowledge(w), lease[wjob[w]] = wlease[w]
  PROVE  sentSteps'[wjob[w]] = sentSteps[wjob[w]]
<1>1. ASSUME NEW v \in Workers, Acknowledge(v)
      PROVE  sentSteps'[wjob[w]] = sentSteps[wjob[w]]
  <2>1. v # w
    BY <1>1
  <2>2. wjob[v] # wjob[w]
    BY <1>1, <2>1, AcknowledgeFrame DEF QueueInv, Tokens
  <2> QED
    BY <1>1, <2>2, AcknowledgeFrame
<1> QED
  BY <1>1, SentStepsStep

\* Rows return to pending with nothing confirmed.
LEMMA FreshCountStep ==
  ASSUME FamilyInv, FreshCount, NothingCounted, Next
  PROVE  FreshCount'
<1> USE DEF FamilyInv, QueueInv
<1> SUFFICES ASSUME NEW j \in Jobs, state'[j] \in {"none", "pending", "leased"}
             PROVE  sentSteps'[j] = 0
  BY DEF FreshCount
<1>1. sentSteps'[j] = sentSteps[j]
  <2>1. ASSUME NEW v \in Workers, Acknowledge(v)
        PROVE  wjob[v] # j
    BY <2>1, AcknowledgeFrame
  <2> QED
    BY <2>1, AcknowledgeFrame, SentStepsStep
<1>2. ASSUME NEW w \in Workers, Settle(w), Owns(w), wjob[w] = j, goal[w] = "pending"
      PROVE  sentSteps[j] = 0
  BY <1>2 DEF Settle, Owns, NothingCounted
<1>3. \/ state[j] \in {"none", "pending", "leased"} \/ sentSteps[j] = 0
      \/ \E w \in Workers : Settle(w) /\ Owns(w) /\ wjob[w] = j /\ goal[w] = "pending"
  BY SourcesStep DEF Sources
<1>4. sentSteps[j] = 0
  BY <1>2, <1>3 DEF FreshCount
<1> QED
  BY <1>1, <1>4

\* A worker that has not begun, or postpones, leaves nothing counted.
LEMMA NothingCountedStep ==
  ASSUME FamilyInv, FreshCount, NothingCounted, Confirmed, Next
  PROVE  NothingCounted'
<1> USE DEF FamilyInv, QueueInv
<1> SUFFICES ASSUME NEW w \in Workers,
                    \/ pc'[w] \in PhaseBeforeSend
                    \/ pc'[w] = "settle" /\ goal'[w] = "pending",
                    lease'[wjob'[w]] = wlease'[w]
             PROVE  sentSteps'[wjob'[w]] = 0
  BY DEF NothingCounted
<1>1. CASE Claims(w)
  <2>1. PICK j \in Jobs : ClaimLease(w, j)
    BY <1>1 DEF Claims
  <2>2. wjob'[w] = j /\ sentSteps'[j] = sentSteps[j] /\ state[j] \in {"pending", "leased"}
    BY <2>1 DEF TypeOK, ClaimLease, Claimable
  <2> QED
    BY <2>2 DEF FreshCount
<1>2. CASE ~Claims(w)
  <2>1. /\ wjob'[w] = wjob[w] /\ wlease'[w] = wlease[w] /\ ~Acknowledge(w)
        /\ \/ pc[w] \in PhaseBeforeSend
           \/ pc[w] = "settle" /\ goal[w] = "pending"
           \/ pc[w] \in PhaseSending /\ wconf[w] = 0
    <3>1. ~Acknowledge(w)
      BY AcknowledgeFrame DEF PhaseBeforeSend
    <3>2. ~BeginSend(w) /\ ~Submit(w) /\ ~AnswerAccepted(w)
      BY DEF TypeOK, BeginSend, Submit, AnswerAccepted, Go, PhaseBeforeSend
    <3>3. CASE Refresh(w)
      BY <3>1, <3>3 DEF Refresh, PhaseBeforeSend
    <3>4. CASE Rests(w) \/ Readies(w) \/ Paces(w) \/ GivesUp(w)
      BY <3>1, <3>4 DEF Rests, Readies, Paces, GivesUp, Keeps, PhaseBeforeSend,
         PhaseSending
    <3> QED
      BY <1>2, <3>1, <3>2, <3>3, <3>4, TickStep DEF TickMoves, PhaseBeforeSend
  <2>2. wjob[w] \in Jobs /\ wlease[w] # NoLease
    BY <2>1 DEF Tokens, PhaseSending, PhaseBeforeSend
  <2>3. lease[wjob[w]] = wlease[w]
    BY <2>1, <2>2, LeaseStays
  <2>4. sentSteps[wjob[w]] = 0
    BY <2>1, <2>3 DEF NothingCounted, Confirmed
  <2> QED
    BY <2>1, <2>2, <2>3, <2>4, CountStays
<1> QED
  BY <1>1, <1>2

\* Nobody submits for the row of a worker about to close it as sent.
LEMMA FinisherAlone ==
  ASSUME QueueInv, Finished, NEW w \in Workers, Finishing(w), NEW v \in Workers,
         pc[v] \in PhaseSending
  PROVE  wjob[v] # wjob[w]
<1>1. wjob[w] \in Jobs /\ wlease[w] # NoLease /\ state[wjob[w]] = "sending" /\ v # w
  BY DEF QueueInv, Tokens, Finishing, Finished, PhaseSending
<1> QED
  BY <1>1 DEF QueueInv, OwnsOrAbandoned, Tokens, Finishing

\* Whoever is about to close its row as sent was so before, or has just
\* acknowledged the last message.
LEMMA FinisherStays ==
  ASSUME QueueInv, Next, NEW w \in Workers, Finishing(w)'
  PROVE  /\ wjob'[w] = wjob[w] /\ wlease'[w] = wlease[w]
         /\ wjob[w] \in Jobs /\ wlease[w] # NoLease
         /\ lease[wjob[w]] = wlease[w]
         /\ \/ Finishing(w) /\ Rests(w)
            \/ Acknowledge(w) /\ wconf'[w] = wsteps[w] /\ wconf'[w] = wconf[w] + 1
<1> USE DEF QueueInv
<1>1. pc'[w] = "settle" /\ goal'[w] = "sent" /\ lease'[wjob'[w]] = wlease'[w]
  BY DEF Finishing
<1>2. ~Claims(w) /\ ~Refresh(w) /\ ~BeginSend(w) /\ ~Submit(w) /\ ~AnswerAccepted(w)
  BY <1>1 DEF TypeOK, Claims, ClaimLease, Refresh, BeginSend, Submit,
     AnswerAccepted, Go
<1>3. Rests(w) \/ Acknowledge(w)
  BY <1>1, <1>2, TickStep DEF TickMoves, Readies, Paces, GivesUp, PhaseSending
<1>4. /\ wjob'[w] = wjob[w] /\ wlease'[w] = wlease[w]
      /\ pc[w] \in {"settle", "ack"}
  BY <1>1, <1>3, AcknowledgeFrame DEF Rests
<1>5. wjob[w] \in Jobs /\ wlease[w] # NoLease
  BY <1>4 DEF Tokens
<1>6. lease[wjob[w]] = wlease[w]
  BY <1>1, <1>4, <1>5, LeaseStays
<1> QED
  BY <1>1, <1>3, <1>4, <1>5, <1>6, AcknowledgeFrame DEF Rests, Finishing

\* A count is that of messages Discord has accepted.
LEMMA ConfirmedStep ==
  ASSUME FamilyInv, FreshCount, Confirmed, Finished, RequestsInOrder, Next
  PROVE  Confirmed'
<1> USE DEF FamilyInv, QueueInv
<1> SUFFICES ASSUME NEW w \in Workers, pc'[w] \in PhaseSending \/ Finishing(w)'
    PROVE  /\ sentSteps'[wjob'[w]] = wconf'[w]
           /\ \A n \in 1..wconf'[w] : \E r \in delivered' :
                r.job = wjob'[w] /\ r.step = n /\ r.of = wsteps'[w]
           /\ \A r \in wire' : r.job = wjob'[w] => pc'[w] = "await" /\ r = Submission(w)'
           /\ pc'[w] = "ack" => Submission(w)' \in delivered'
  BY DEF Confirmed
<1>1. /\ wjob'[w] = wjob[w] /\ wlease'[w] = wlease[w]
      /\ wjob[w] \in Jobs /\ wlease[w] # NoLease
      /\ pc[w] \in PhaseSending \/ BeginSend(w) \/ Finishing(w)
  BY SendersStay, FinisherStays, AcknowledgeFrame DEF PhaseSending
<1>2. CASE BeginSend(w)
  <2>1. /\ pc[w] = "prepared" /\ pc'[w] = "sending" /\ state[wjob[w]] = "leased"
        /\ wconf'[w] = wconf[w] /\ UNCHANGED <<sentSteps, wire, delivered>>
    BY <1>2 DEF TypeOK, BeginSend, HoldsLeased, netVars
  <2>2. wconf[w] = 0 /\ sentSteps[wjob[w]] = 0
    BY <1>1, <2>1 DEF Counts, PhaseSending, FreshCount
  <2>3. \A r \in wire : r.job # wjob[w]
    BY <2>1 DEF UnsentMeansUndelivered, Requests, Uncertain
  <2> QED
    BY <1>1, <2>1, <2>2, <2>3
<1>3. CASE Submit(w)
  <2>1. /\ pc[w] = "submit" /\ pc'[w] = "await" /\ Submission(w)' = Submission(w)
        /\ wire' = wire \cup {Submission(w)}
        /\ wconf'[w] = wconf[w] /\ wsteps'[w] = wsteps[w]
        /\ UNCHANGED <<sentSteps, delivered>>
    BY <1>3, SubmitAlone DEF TypeOK, Submit, Go, rowVars
  <2>2. /\ sentSteps[wjob[w]] = wconf[w]
        /\ \A n \in 1..wconf[w] : \E r \in delivered :
             r.job = wjob[w] /\ r.step = n /\ r.of = wsteps[w]
        /\ \A r \in wire : r.job # wjob[w]
    BY <2>1 DEF Confirmed, PhaseSending
  <2> QED
    BY <1>1, <2>1, <2>2
<1>4. CASE AnswerAccepted(w)
  <2>1. /\ pc[w] = "await" /\ pc'[w] = "ack" /\ Submission(w)' = Submission(w)
        /\ Submission(w) \in delivered
        /\ wconf'[w] = wconf[w] /\ wsteps'[w] = wsteps[w]
        /\ UNCHANGED <<sentSteps, wire, delivered>>
    BY <1>4 DEF TypeOK, AnswerAccepted, Go, rowVars, netVars, Submission
  <2>2. /\ sentSteps[wjob[w]] = wconf[w]
        /\ \A n \in 1..wconf[w] : \E r \in delivered :
             r.job = wjob[w] /\ r.step = n /\ r.of = wsteps[w]
        /\ \A r \in wire : r.job = wjob[w] => r = Submission(w)
    BY <2>1 DEF Confirmed, PhaseSending
  <2>3. \A r \in wire : r.job # wjob[w]
    BY <2>1, <2>2 DEF RequestsInOrder
  <2> QED
    BY <1>1, <2>1, <2>2, <2>3
<1>5. CASE Acknowledge(w)
  <2>1. /\ pc[w] = "ack" /\ pc'[w] \in {"sending", "settle"}
        /\ sentSteps'[wjob[w]] = sentSteps[wjob[w]] + 1
        /\ wconf'[w] = wconf[w] + 1 /\ wsteps'[w] = wsteps[w]
        /\ UNCHANGED <<wire, delivered>>
    BY <1>5, AcknowledgeFrame DEF Finishing, PhaseSending
  <2>2. /\ sentSteps[wjob[w]] = wconf[w]
        /\ \A n \in 1..wconf[w] : \E r \in delivered :
             r.job = wjob[w] /\ r.step = n /\ r.of = wsteps[w]
        /\ \A r \in wire : r.job # wjob[w]
        /\ Submission(w) \in delivered
    BY <2>1 DEF Confirmed, PhaseSending
  <2>3. /\ Submission(w).job = wjob[w] /\ Submission(w).step = wconf[w] + 1
        /\ Submission(w).of = wsteps[w]
    BY DEF Submission
  <2>4. ASSUME NEW n \in 1..wconf'[w]
        PROVE  \E r \in delivered : r.job = wjob[w] /\ r.step = n /\ r.of = wsteps[w]
    <3>1. wconf[w] \in Nat
      BY DEF TypeOK
    <3>2. n \in 1..wconf[w] \/ n = wconf[w] + 1
      BY <2>1, <2>4, <3>1
    <3> QED
      BY <2>2, <2>3, <3>2
  <2> QED
    BY <1>1, <2>1, <2>2, <2>4
<1>6. CASE Rests(w) \/ Paces(w)
  <2>1. /\ wconf'[w] = wconf[w] /\ wsteps'[w] = wsteps[w] /\ wplan'[w] = wplan[w]
        /\ pc[w] \in PhaseSending \/ Finishing(w)
        /\ pc'[w] \in {"await", "ack"} \/ pc[w] \in {"await", "ack"} => pc'[w] = pc[w]
    <3>1. CASE Rests(w)
      BY <1>1, <3>1, FinisherStays, AcknowledgeFrame DEF Rests, PhaseSending
    <3>2. CASE Paces(w)
      BY <3>2 DEF Paces, Keeps
    <3> QED
      BY <1>6, <3>1, <3>2
  <2>2. Submission(w)' = Submission(w)
    BY <1>1, <2>1 DEF Submission
  <2>3. /\ sentSteps[wjob[w]] = wconf[w]
        /\ \A n \in 1..wconf[w] : \E r \in delivered :
             r.job = wjob[w] /\ r.step = n /\ r.of = wsteps[w]
        /\ \A r \in wire : r.job = wjob[w] => pc[w] = "await" /\ r = Submission(w)
        /\ pc[w] = "ack" => Submission(w) \in delivered
    BY <2>1 DEF Confirmed
  <2>4. ASSUME NEW v \in Workers, v # w, pc[v] \in PhaseSending
        PROVE  wjob[v] # wjob[w]
    BY <2>1, <2>4, FinisherAlone DEF OneSender
  <2>5. sentSteps'[wjob[w]] = sentSteps[wjob[w]]
    <3>1. ASSUME NEW v \in Workers, Acknowledge(v)
          PROVE  sentSteps'[wjob[w]] = sentSteps[wjob[w]]
      <4>1. v # w
        BY <1>6, <3>1, AcknowledgeFrame DEF Rests, Paces
      <4>2. wjob[v] # wjob[w]
        BY <2>4, <3>1, <4>1, AcknowledgeFrame DEF PhaseSending
      <4> QED
        BY <1>1, <3>1, <4>2, AcknowledgeFrame
    <3> QED
      BY <3>1, SentStepsStep
  <2>6. \A r \in wire' : r.job = wjob[w] => r \in wire
    <3>1. ASSUME NEW v \in Workers, Submit(v)
          PROVE  wire' = wire \cup {Submission(v)} /\ Submission(v).job # wjob[w]
      <4>1. pc[v] = "submit" /\ wire' = wire \cup {Submission(v)}
            /\ Submission(v).job = wjob[v]
        BY <3>1 DEF Submit, Submission
      <4>2. v # w
        BY <1>6, <3>1, <4>1, SubmitAlone DEF Rests, Paces
      <4> QED
        BY <2>4, <4>1, <4>2 DEF PhaseSending
    <3> QED
      BY <3>1, DeliveredGrows
  <2> QED
    BY <1>1, <2>1, <2>2, <2>3, <2>5, <2>6, DeliveredGrows
<1>7. \/ BeginSend(w) \/ Submit(w) \/ AnswerAccepted(w) \/ Acknowledge(w)
      \/ Rests(w) \/ Paces(w)
  <2>1. CASE Finishing(w)'
    BY <2>1, FinisherStays
  <2>2. CASE pc'[w] \in PhaseSending
    BY <2>2, TickStep DEF TickMoves, Claims, ClaimLease, Refresh, TypeOK, Readies,
       GivesUp, PhaseBeforeSend, PhaseSending
  <2> QED
    BY <2>1, <2>2
<1> QED
  BY <1>2, <1>3, <1>4, <1>5, <1>6, <1>7

\* A worker about to close its row as sent has had every message accepted.
LEMMA FinishedStep ==
  ASSUME FamilyInv, Finished, Next
  PROVE  Finished'
<1> USE DEF FamilyInv, QueueInv
<1> SUFFICES ASSUME NEW w \in Workers, Finishing(w)'
    PROVE  /\ state'[wjob'[w]] = "sending"
           /\ wconf'[w] = wsteps'[w] /\ wconf'[w] > 0
           /\ \A r \in Requests' : r.job = wjob'[w] => r.step <= wconf'[w]
  BY DEF Finished
<1>1. /\ wjob'[w] = wjob[w] /\ wlease'[w] = wlease[w]
      /\ wjob[w] \in Jobs /\ wlease[w] # NoLease /\ lease[wjob[w]] = wlease[w]
      /\ lease'[wjob[w]] = wlease[w]
  BY FinisherStays DEF Finishing
<1>2. CASE Acknowledge(w) /\ wconf'[w] = wsteps[w] /\ wconf'[w] = wconf[w] + 1
  <2>1. /\ pc[w] = "ack" /\ state[wjob[w]] = "sending"
        /\ wsteps'[w] = wsteps[w] /\ UNCHANGED <<state, wire, delivered>>
    BY <1>2, AcknowledgeFrame
  <2>2. Reached(w) = wconf'[w] /\ wconf[w] \in Nat
    BY <1>2, <2>1 DEF Reached, TypeOK
  <2>3. \A r \in Requests : r.job = wjob[w] => r.step <= wconf'[w]
    BY <2>1, <2>2 DEF OwnSubmissions, PhaseSending
  <2>4. \A r \in Requests' : r.job = wjob'[w] => r.step <= wconf'[w]
    <3>1. \A r \in Requests' : r \in Requests
      BY <2>1 DEF Requests
    <3> QED
      BY <1>1, <2>3, <3>1
  <2>5. wconf'[w] = wsteps'[w] /\ wconf'[w] > 0
    <3>1. wconf'[w] = wsteps[w] /\ wconf'[w] = wconf[w] + 1
      BY <1>2
    <3>2. wsteps'[w] = wsteps[w] /\ wconf[w] \in Nat
      BY <2>1, <2>2
    <3>3. wconf[w] + 1 > 0
      BY <3>2
    <3> QED
      BY <3>1, <3>2, <3>3, Zenon
  <2>6. state'[wjob'[w]] = "sending"
    BY <1>1, <2>1
  <2> QED
    BY <2>4, <2>5, <2>6
<1>3. CASE Finishing(w) /\ Rests(w)
  <2>1. /\ state[wjob[w]] = "sending" /\ wconf[w] = wsteps[w] /\ wconf[w] > 0
        /\ \A r \in Requests : r.job = wjob[w] => r.step <= wconf[w]
        /\ wconf'[w] = wconf[w] /\ wsteps'[w] = wsteps[w]
    BY <1>3 DEF Finished, Rests
  <2>2. ASSUME NEW v \in Workers, Settle(v), wjob[v] = wjob[w], Owns(v)
        PROVE  FALSE
    <3>1. v = w
      BY <1>1, <2>2 DEF Owns, Tokens
    <3> QED
      BY <1>3, <2>2, <3>1 DEF Settle, Forget, Rests, TypeOK
  <2>3. state'[wjob[w]] = "sending"
    BY <1>1, <2>1, <2>2, RowStep DEF RowMoves, SendingLeft
  <2>4. ASSUME NEW v \in Workers, Submit(v)
        PROVE  Submission(v).job # wjob[w]
    BY <1>3, <2>4, FinisherAlone, SubmitAlone DEF Submission
  <2>5. \A r \in Requests' : r.job = wjob[w] => r \in Requests
    BY <2>4, RequestStep
  <2> QED
    BY <1>1, <2>1, <2>3, <2>5
<1> QED
  BY <1>2, <1>3, FinisherStays

\* A request is new when it is made, and made for a root.
LEMMA RequestsInOrderStep ==
  ASSUME FamilyInv, RequestsInOrder, Next
  PROVE  RequestsInOrder'
<1> USE DEF FamilyInv, QueueInv
<1>1. ASSUME NEW w \in Workers, Submit(w)
      PROVE  Submission(w) \notin Requests /\ parent[Submission(w).job] = NoJob
  <2>1. /\ pc[w] = "submit" /\ Reached(w) = wconf[w] /\ wconf[w] \in Nat
        /\ Submission(w).job = wjob[w] /\ Submission(w).step = wconf[w] + 1
    BY <1>1 DEF Submit, Submission, Reached, TypeOK
  <2>2. Submission(w) \notin Requests
    BY <2>1 DEF OwnSubmissions, PhaseSending
  <2> QED
    BY <2>1, <2>2 DEF WorksOnRoots
<1>2. ASSUME NEW r \in Requests
      PROVE  parent'[r.job] = NoJob
  <2>1. r.job \in Jobs /\ state[r.job] # "none"
    BY <1>2 DEF TypeOK, Requests, Request, UnsentMeansUndelivered, Uncertain
  <2> QED
    BY <1>2, <2>1, ParentStep, JoinStep DEF RequestsInOrder, TypeOK
<1>3. \A r \in Requests' : parent'[r.job] = NoJob
  <2> SUFFICES ASSUME NEW r \in Requests', r \notin Requests
               PROVE  parent'[r.job] = NoJob
    BY <1>2
  <2>1. PICK w \in Workers : /\ Submit(w) /\ r = Submission(w)
                             /\ UNCHANGED <<rowVars, envVars>>
    BY RequestStep
  <2> QED
    BY <1>1, <2>1 DEF rowVars
<1>4. wire' \cap delivered' = {}
  <2>1. CASE \E r \in wire : DiscordAccepts(r)
    BY <2>1 DEF DiscordAccepts, RequestsInOrder
  <2>2. CASE UNCHANGED delivered
    BY <1>1, <2>2, DeliveredGrows DEF RequestsInOrder, Requests, Submit
  <2> QED
    BY <2>1, <2>2, DeliveredGrows
<1> QED
  BY <1>3, <1>4 DEF RequestsInOrder

\* A row becomes sent when its holder closes it, all messages accepted.
LEMMA SentMeansDeliveredStep ==
  ASSUME BatchInv, Next
  PROVE  SentMeansDelivered'
<1> USE DEF BatchInv, FamilyInv, QueueInv
<1> SUFFICES ASSUME NEW j \in Jobs, state'[j] = "sent", parent'[j] = NoJob
    PROVE  /\ sentSteps'[j] > 0
           /\ \A n \in 1..sentSteps'[j] :
                \E r \in delivered' : r.job = j /\ r.step = n /\ r.of = sentSteps'[j]
           /\ \A r \in Requests' : r.job = j => r \in delivered' /\ r.step <= sentSteps'[j]
  BY DEF SentMeansDelivered
<1>1. parent[j] = NoJob
  <2>1. ASSUME NEW k \in Jobs, NEW p \in Jobs, RouteJoin(k, p)
        PROVE  parent[j] = NoJob
    BY <2>1, JoinStep DEF TypeOK
  <2> QED
    BY <2>1, ParentStep
<1>2. ASSUME NEW w \in Workers, Acknowledge(w)
      PROVE  wjob[w] # j
  BY <1>2, AcknowledgeFrame
<1>3. sentSteps'[j] = sentSteps[j]
  BY <1>2, AcknowledgeFrame, SentStepsStep
<1>4. /\ sentSteps[j] > 0
      /\ \A n \in 1..sentSteps[j] :
           \E r \in delivered : r.job = j /\ r.step = n /\ r.of = sentSteps[j]
      /\ \A r \in Requests : r.job = j => r \in delivered /\ r.step <= sentSteps[j]
      /\ \A w \in Workers : Submit(w) => wjob[w] # j
  <2>1. CASE state[j] = "sent"
    <3>1. \A w \in Workers : Submit(w) => wjob[w] # j
      BY <2>1, SubmitAlone DEF OwnsOrAbandoned
    <3> QED
      BY <1>1, <2>1, <3>1 DEF SentMeansDelivered
  <2>2. CASE state[j] # "sent"
    <3>0. PICK w \in Workers :
            /\ Settle(w) /\ Owns(w) /\ goal[w] = "sent"
            /\ wjob[w] = j \/ (parent[j] = wjob[w] /\ state[j] = "aggregated")
      BY <2>2, SourcesStep DEF Sources
    <3>1. Settle(w) /\ Owns(w) /\ goal[w] = "sent" /\ wjob[w] = j
      BY <1>1, <3>0, JobAssumption DEF Settle, Tokens
    <3>2. Finishing(w)
      BY <3>1 DEF Finishing, Settle, Owns
    <3>3. /\ sentSteps[j] = wconf[w] /\ wconf[w] = wsteps[w] /\ wconf[w] > 0
          /\ \A n \in 1..wconf[w] :
               \E r \in delivered : r.job = j /\ r.step = n /\ r.of = wsteps[w]
          /\ \A r \in wire : r.job # j
          /\ \A r \in Requests : r.job = j => r.step <= wconf[w]
      BY <3>1, <3>2 DEF Confirmed, Finished, Finishing
    <3>4. \A v \in Workers : Submit(v) => wjob[v] # j
      BY <3>1, <3>2, FinisherAlone, SubmitAlone
    <3> QED
      BY <3>3, <3>4 DEF Requests
  <2> QED
    BY <2>1, <2>2
<1>5. \A r \in Requests' : r.job = j => r \in Requests
  BY <1>4, RequestStep DEF Submission
<1> QED
  BY <1>3, <1>4, <1>5, DeliveredGrows

\* An event becomes sent with its root, while it is in its batch.
LEMMA SentChildStep ==
  ASSUME BatchInv, Next
  PROVE  SentChildWasInBatch'
<1> USE DEF BatchInv, FamilyInv, QueueInv
<1> SUFFICES ASSUME NEW c \in Jobs, parent'[c] # NoJob, state'[c] = "sent"
             PROVE  \E r \in delivered' : r.job = parent'[c] /\ Content(c) \subseteq r.items
  BY DEF SentChildWasInBatch
<1>1. parent'[c] = parent[c]
  <2>1. ASSUME NEW k \in Jobs, NEW p \in Jobs, RouteJoin(k, p)
        PROVE  c # k /\ parent'[c] = parent[c]
    BY <2>1, JoinStep DEF TypeOK
  <2> QED
    BY <2>1, ParentStep
<1>2. CASE state[c] = "sent"
  BY <1>1, <1>2, DeliveredGrows DEF SentChildWasInBatch
<1>3. CASE state[c] # "sent"
  <2>1. PICK w \in Workers :
          /\ Settle(w) /\ Owns(w) /\ goal[w] = "sent"
          /\ wjob[w] = c \/ (parent[c] = wjob[w] /\ state[c] = "aggregated")
    BY <1>3, SourcesStep DEF Sources
  <2>2. wjob[w] # c
    BY <1>1, <2>1 DEF WorksOnRoots, Settle
  <2>3. Finishing(w) /\ wjob[w] = parent[c] /\ state[c] = "aggregated"
    BY <2>1, <2>2 DEF Finishing, Settle, Owns
  <2>4. wconf[w] > 0 /\ wconf[w] \in Nat
    BY <2>3 DEF Finished, TypeOK
  <2>5. 1 \in 1..wconf[w]
    BY <2>4
  <2>6. PICK r \in delivered : r.job = parent[c]
    BY <2>3, <2>5 DEF Confirmed
  <2>7. r.items = members[parent[c]]
    BY <2>6 DEF BatchFrozen, Requests
  <2>8. Content(c) \subseteq members[parent[c]]
    BY <1>1, <2>3 DEF Contained
  <2> QED
    BY <1>1, <2>6, <2>7, <2>8, DeliveredGrows
<1> QED
  BY <1>2, <1>3

\* The invariant of the batches is inductive.
LEMMA BatchInduction == BatchInv /\ [Next]_vars => BatchInv'
<1> SUFFICES ASSUME BatchInv, [Next]_vars PROVE BatchInv'
  OBVIOUS
<1>1. FamilyInv'
  BY FamilyInduction DEF BatchInv
<1>2. CASE Next
  <2>1. PlanCurrent' /\ Contained' /\ BatchFrozen'
    BY <1>2, PlanCurrentStep, ContainedStep, BatchFrozenStep DEF BatchInv
  <2>2. FreshCount' /\ NothingCounted'
    BY <1>2, FreshCountStep, NothingCountedStep DEF BatchInv
  <2>3. Confirmed' /\ Finished' /\ RequestsInOrder'
    BY <1>2, ConfirmedStep, FinishedStep, RequestsInOrderStep DEF BatchInv
  <2> QED
    BY <1>1, <1>2, <2>1, <2>2, <2>3, SentMeansDeliveredStep, SentChildStep
    DEF BatchInv
<1>3. CASE UNCHANGED vars
  BY <1>1, <1>3 DEF BatchInv, vars, rowVars, workVars, netVars, PlanCurrent,
     Contained, FreshCount, NothingCounted, Confirmed, Finished, Finishing,
     RequestsInOrder, BatchFrozen, SentMeansDelivered, SentChildWasInBatch,
     Requests, Submission
<1> QED
  BY <1>2, <1>3

\* Initially there is no batch and no request.
LEMMA BatchInit == Init => BatchInv
<1> SUFFICES ASSUME Init PROVE BatchInv
  OBVIOUS
<1>1. FamilyInv /\ Requests = {}
  BY FamilyInit DEF Init, Requests
<1>2. PlanCurrent /\ NothingCounted /\ Confirmed /\ Finished
  BY DEF Init, PlanCurrent, NothingCounted, Confirmed, Finished, Finishing,
     PhaseSending, PhaseBeforeSend
<1>3. Contained /\ RequestsInOrder /\ BatchFrozen
  BY <1>1 DEF Init, Contained, RequestsInOrder, BatchFrozen
<1>4. FreshCount /\ SentMeansDelivered /\ SentChildWasInBatch
  BY <1>1 DEF Init, FreshCount, SentMeansDelivered, SentChildWasInBatch
<1> QED
  BY <1>1, <1>2, <1>3, <1>4 DEF BatchInv

\* The invariant of the batches holds in every reachable state.
THEOREM BatchInvariant == Spec => []BatchInv
  BY BatchInit, BatchInduction, PTL DEF Spec

\* A row shown as sent has exactly the messages it counts, all accepted by
\* Discord and none in flight, whatever crashed or was retried before.
THEOREM SentIsDelivered == Spec => []SentMeansDelivered
<1>1. BatchInv => SentMeansDelivered
  BY DEF BatchInv
<1> QED
  BY <1>1, BatchInvariant, PTL

\* What Discord was asked to show is what the row says it contains.
THEOREM BatchIsFrozen == Spec => []BatchFrozen
<1>1. BatchInv => BatchFrozen
  BY DEF BatchInv
<1> QED
  BY <1>1, BatchInvariant, PTL

\* An event that was folded into a batch is shown as sent only if Discord
\* accepted a message of that batch with it in.
THEOREM ChildrenWereSent == Spec => []SentChildWasInBatch
<1>1. BatchInv => SentChildWasInBatch
  BY DEF BatchInv
<1> QED
  BY <1>1, BatchInvariant, PTL

-----------------------------------------------------------------------------
(* Content that was withdrawn.                                             *)

\* A batch holds events of its monitors that were routed.
MembersRouted ==
  \A j \in Jobs : \A i \in members[j] :
    i.monitor \in MonitorsOf[j] /\ state[j] # "none" /\ state[i.from] # "none"

\* Only what was routed is stale, and a version-1 batch with something stale
\* has the event of its root stale as well.
StaleTold ==
  /\ \A i \in stale : state[i.from] # "none"
  /\ \A j \in Jobs \ FlowJobs : members[j] \cap stale # {} => Content(j) \cap stale # {}

CurrentInv == BatchInv /\ MembersRouted /\ StaleTold

\* Only a change of a monitor or a rule makes content stale.
LEMMA StaleStep ==
  ASSUME Next
  PROVE  stale' = stale \/ RuleWithdrawn \/ \E m \in Monitors : MonitorChanges(m)
<1>1. ASSUME NEW w \in Workers, WorkerStep(w) \/ Crash(w)
      PROVE  stale' = stale
  <2>1. CASE PrimaryStep(w)
    BY <2>1 DEF PrimaryStep, ClaimRecover, ClaimNothing, ClaimCorrupt, Refresh,
       RefreshEmpty, RefreshLost, Preflight, Prepare, PrepareRefused,
       AttemptBreaks, CountAttempt, BeginLost, BeginRefused, BeginGated,
       BeginSend, envVars
  <2>2. CASE ~PrimaryStep(w)
    BY <1>1, <2>2 DEF PrimaryStep, WorkerStep, Crash, ClaimLease, Pace, Gate,
       LeaseLost, SendRefused, SendBreaks, Submit, AnswerAccepted,
       AnswerRefused, AnswerUnknown, Acknowledge, AcknowledgeFails, Settle,
       SettleBreaks, envVars
  <2> QED
    BY <2>1, <2>2
<1>2. ASSUME NEW j \in Jobs, JobStep(j)
      PROVE  stale' = stale
  BY <1>2 DEF JobStep, RouteRoot, RouteJoin, LeaseRunsOut, UserCancel,
     UserReschedule, UserRetry, envVars
<1> QED
  BY <1>1, <1>2 DEF Next, DiscordAccepts, DiscordRefuses, GateWindowRolls, envVars

\* What a batch can hold after a step.
LEMMA MembersGrow ==
  ASSUME FamilyInv, PlanCurrent, Next, NEW j \in Jobs
  PROVE  \/ members'[j] \subseteq members[j]
         \/ members'[j] = Content(j) /\ state[j] = "none" /\ state'[j] # "none"
         \/ \E k \in Jobs :
              /\ members'[j] \subseteq members[j] \cup Content(k)
              /\ {j, k} \cap FlowJobs = {} /\ MonitorsOf[k] = MonitorsOf[j]
              /\ state[k] = "none" /\ state'[k] # "none" /\ state[j] # "none"
<1> USE DEF FamilyInv, QueueInv
<1>1. ASSUME NEW k \in Jobs, RouteRoot(k)
      PROVE  \/ members'[j] \subseteq members[j]
             \/ members'[j] = Content(j) /\ state[j] = "none" /\ state'[j] # "none"
  BY <1>1 DEF TypeOK, RouteRoot
<1>2. ASSUME NEW k \in Jobs, NEW p \in Jobs, RouteJoin(k, p)
      PROVE  \/ members'[j] \subseteq members[j]
             \/ members'[j] = Content(j) /\ state[j] = "none" /\ state'[j] # "none"
             \/ /\ members'[j] \subseteq members[j] \cup Content(k)
                /\ {j, k} \cap FlowJobs = {} /\ MonitorsOf[k] = MonitorsOf[j]
                /\ state[k] = "none" /\ state'[k] # "none" /\ state[j] # "none"
  <2>1. /\ k # p /\ state[k] = "none" /\ state[p] = "pending"
        /\ {k, p} \cap FlowJobs = {} /\ MonitorsOf[p] = MonitorsOf[k]
        /\ state'[k] = "aggregated"
    BY <1>2, JoinStep
  <2>2. /\ members'[k] = Content(k)
        /\ members'[p] \subseteq members[p] \cup Content(k)
        /\ \A i \in Jobs \ {k, p} : members'[i] = members[i]
    BY <1>2, <2>1 DEF TypeOK, RouteJoin
  <2> QED
    BY <2>1, <2>2
<1>3. ASSUME NEW w \in Workers, Refresh(w)
      PROVE  members'[j] \subseteq members[j]
  <2>1. /\ pc[w] = "claimed" /\ state[wjob[w]] = "leased"
        /\ lease[wjob[w]] = wlease[w] /\ wjob[w] \in Jobs
        /\ members' = [members EXCEPT ![wjob[w]] = Accepted(wplan[w])]
    BY <1>3 DEF Refresh, HoldsLeased, Holds, Owns, Tokens
  <2>2. CASE j = wjob[w]
    <3>1. wplan[w] = members[j] /\ members'[j] = Accepted(wplan[w])
      BY <2>1, <2>2 DEF TypeOK, PlanCurrent, PhaseBeforeSend
    <3> QED
      BY <3>1 DEF Accepted
  <2>3. CASE j # wjob[w]
    BY <2>1, <2>3 DEF TypeOK
  <2> QED
    BY <2>2, <2>3
<1> QED
  BY <1>1, <1>2, <1>3, MembersStep

\* What is told apart stays so.
LEMMA CurrentStep ==
  ASSUME CurrentInv, Next
  PROVE  MembersRouted' /\ StaleTold'
<1> USE DEF CurrentInv, BatchInv, FamilyInv, QueueInv
<1>1. \A k \in Jobs : state[k] # "none" => state'[k] # "none"
  BY StateStep DEF StateMoves, Open, Terminal, Unsent, Uncertain
<1>2. \A j \in Jobs : \A i \in members[j] : i \in Item
  BY DEF TypeOK
<1>3. \A k \in Jobs : \A i \in Content(k) :
        i.from = k /\ i.monitor \in MonitorsOf[k] /\ i \in Item
  BY DEF Content
<1>4. MembersRouted'
  <2> SUFFICES ASSUME NEW j \in Jobs, NEW i \in members'[j]
      PROVE  i.monitor \in MonitorsOf[j] /\ state'[j] # "none" /\ state'[i.from] # "none"
    BY DEF MembersRouted
  <2>1. CASE i \in members[j]
    <3>1. i.from \in Jobs
      BY <1>2, <2>1 DEF Item
    <3> QED
      BY <1>1, <2>1, <3>1 DEF MembersRouted
  <2>2. CASE i \notin members[j]
    <3>1. \/ i \in Content(j) /\ state'[j] # "none"
          \/ \E k \in Jobs :
               /\ i \in Content(k) /\ MonitorsOf[k] = MonitorsOf[j]
               /\ state'[k] # "none" /\ state[j] # "none"
      BY <2>2, MembersGrow
    <3> QED
      BY <1>1, <1>3, <3>1
  <2> QED
    BY <2>1, <2>2
<1>5. \A i \in stale' : i \in stale \/ (i \in Item /\ state[i.from] # "none")
  BY StaleStep DEF RuleWithdrawn, MonitorChanges, RoutedItems
<1>6. \A i \in stale' : state'[i.from] # "none"
  <2> SUFFICES ASSUME NEW i \in stale'
               PROVE  state'[i.from] # "none"
    OBVIOUS
  <2>1. i \in Item /\ state[i.from] # "none"
    BY <1>5 DEF TypeOK, StaleTold
  <2> QED
    BY <1>1, <2>1 DEF Item
<1>7. ASSUME NEW j \in Jobs \ FlowJobs, members'[j] \cap stale' # {}
      PROVE  Content(j) \cap stale' # {}
  <2>1. stale \subseteq stale'
    BY StaleStep DEF RuleWithdrawn, MonitorChanges
  <2>2. CASE stale' = stale
    <3>1. ASSUME NEW k \in Jobs, state[k] = "none"
          PROVE  Content(k) \cap stale = {}
      BY <1>3, <3>1 DEF StaleTold
    <3>2. CASE members'[j] \subseteq members[j]
      BY <1>7, <2>2, <3>2 DEF StaleTold
    <3>3. CASE members'[j] = Content(j)
      BY <1>7, <2>2, <3>3
    <3>4. ASSUME NEW k \in Jobs, members'[j] \subseteq members[j] \cup Content(k),
                 state[k] = "none"
          PROVE  Content(j) \cap stale' # {}
      <4>1. members[j] \cap stale # {}
        BY <1>7, <2>2, <3>1, <3>4
      <4> QED
        BY <2>2, <4>1 DEF StaleTold
    <3> QED
      BY <3>2, <3>3, <3>4, MembersGrow
  <2>3. CASE stale' # stale
    <3>1. /\ members'[j] = members[j]
          /\ \E M \in SUBSET Monitors :
               stale' = stale \cup UNION {RoutedItems(m) : m \in M}
      <4>1. CASE RuleWithdrawn
        BY <4>1 DEF RuleWithdrawn
      <4>2. ASSUME NEW m \in Monitors, MonitorChanges(m)
            PROVE  /\ members'[j] = members[j]
                   /\ stale' = stale \cup UNION {RoutedItems(n) : n \in {m}}
        BY <4>2 DEF MonitorChanges
      <4> QED
        BY <2>3, <4>1, <4>2, StaleStep
    <3>2. PICK M \in SUBSET Monitors :
            stale' = stale \cup UNION {RoutedItems(m) : m \in M}
      BY <3>1
    <3>3. PICK i \in members[j] : i \in stale'
      BY <1>7, <3>1
    <3>4. CASE i \in stale
      BY <2>1, <3>3, <3>4 DEF StaleTold
    <3>5. CASE i \notin stale
      <4>1. PICK m \in M : i \in RoutedItems(m)
        BY <3>2, <3>3, <3>5
      <4>2. m \in MonitorsOf[j] /\ m \in Monitors /\ state[j] # "none"
        BY <3>3, <4>1 DEF MembersRouted, RoutedItems
      <4>3. /\ [from |-> j, monitor |-> m] \in Content(j)
            /\ [from |-> j, monitor |-> m] \in RoutedItems(m)
        BY <4>2 DEF Content, RoutedItems, Item
      <4> QED
        BY <3>2, <4>3
    <3> QED
      BY <3>4, <3>5
  <2> QED
    BY <2>2, <2>3
<1> QED
  BY <1>4, <1>6, <1>7 DEF StaleTold

\* The invariant about withdrawn content is inductive.
LEMMA CurrentInduction == CurrentInv /\ [Next]_vars => CurrentInv'
<1> SUFFICES ASSUME CurrentInv, [Next]_vars PROVE CurrentInv'
  OBVIOUS
<1>1. BatchInv'
  BY BatchInduction DEF CurrentInv
<1>2. CASE Next
  BY <1>1, <1>2, CurrentStep DEF CurrentInv
<1>3. CASE UNCHANGED vars
  BY <1>1, <1>3 DEF CurrentInv, vars, rowVars, envVars, MembersRouted, StaleTold
<1> QED
  BY <1>2, <1>3

\* Initially nothing is stale, and a row an earlier release left holds its own
\* event.
LEMMA CurrentInit == Init => CurrentInv
  BY BatchInit DEF Init, CurrentInv, MembersRouted, StaleTold, Content

\* The invariant about withdrawn content holds in every reachable state.
LEMMA CurrentHolds == Spec => []CurrentInv
  BY CurrentInit, CurrentInduction, PTL DEF Spec

\* beginSend never starts with an event whose monitor was changed or stopped
\* since it was routed, however old the plan is that the worker read.
THEOREM SendsWhatIsCurrent == Spec => SendBeginsCurrent
<1>1. CurrentInv /\ [Next]_vars =>
        [\A j \in Jobs : state[j] # "sending" /\ state'[j] = "sending"
                           => members[j] \cap stale = {}]_vars
  <2> SUFFICES ASSUME CurrentInv, Next, NEW j \in Jobs, state[j] # "sending",
                      state'[j] = "sending"
               PROVE  members[j] \cap stale = {}
    OBVIOUS
  <2> USE DEF CurrentInv, BatchInv, FamilyInv, QueueInv
  <2>1. PICK w \in Workers : BeginSend(w) /\ wjob[w] = j
    BY RowStep DEF RowMoves, SendingEntered
  <2>2. /\ pc[w] = "prepared" /\ state[j] = "leased" /\ lease[j] = wlease[w]
        /\ "ready" \in CheckResults(j, wplan[w])
    BY <2>1 DEF BeginSend, HoldsLeased, Holds, Owns
  <2>3. wplan[w] = members[j]
    BY <2>1, <2>2 DEF PlanCurrent, PhaseBeforeSend
  <2>4. CASE j \in FlowJobs
    BY <2>2, <2>3, <2>4 DEF CheckResults, Accepted, Unsent
  <2>5. CASE j \notin FlowJobs
    BY <2>2, <2>5 DEF CheckResults, StaleTold
  <2> QED
    BY <2>4, <2>5
<1> QED
  BY <1>1, CurrentHolds, PTL DEF Spec, SendBeginsCurrent

-----------------------------------------------------------------------------
(* The queue implements DeliveryPromise.                                   *)

\* What the history shows of a row, by its state.
LEMMA VerdictOf ==
  ASSUME QueueInv, NEW j \in Jobs
  PROVE  /\ parent[j] # NoJob => Verdict(j) = "folded"
         /\ parent[j] = NoJob =>
              /\ state[j] = "none" => Verdict(j) = "absent"
              /\ state[j] = "sent" => Verdict(j) = "sent"
              /\ state[j] \in Uncertain => Verdict(j) = "uncertain"
              /\ state[j] \in Unsent => Verdict(j) = "unsent"
              /\ state[j] \in Open => Verdict(j) = "open"
         /\ parent[j] = NoJob =>
              state[j] \in {"none", "sent"} \cup Uncertain \cup Unsent \cup Open
<1>1. parent[j] = NoJob =>
        state[j] \in {"none", "sent"} \cup Uncertain \cup Unsent \cup Open
  BY JobAssumption DEF QueueInv, TypeOK, Adopted, RowStates, Terminal, Withdrawable,
     Open
<1> QED
  BY <1>1 DEF Verdict, Uncertain, Unsent, Open

\* The same of the next state.
LEMMA VerdictOfNext ==
  ASSUME QueueInv', NEW j \in Jobs
  PROVE  /\ parent'[j] # NoJob => Verdict(j)' = "folded"
         /\ parent'[j] = NoJob =>
              /\ state'[j] = "none" => Verdict(j)' = "absent"
              /\ state'[j] = "sent" => Verdict(j)' = "sent"
              /\ state'[j] \in Uncertain => Verdict(j)' = "uncertain"
              /\ state'[j] \in Unsent => Verdict(j)' = "unsent"
              /\ state'[j] \in Open => Verdict(j)' = "open"
         /\ parent'[j] = NoJob =>
              state'[j] \in {"none", "sent"} \cup Uncertain \cup Unsent \cup Open
<1>1. parent'[j] = NoJob =>
        state'[j] \in {"none", "sent"} \cup Uncertain \cup Unsent \cup Open
  BY JobAssumption DEF QueueInv, TypeOK, Adopted, RowStates, Terminal, Withdrawable,
     Open
<1> QED
  BY <1>1 DEF Verdict, Uncertain, Unsent, Open

\* A message that Discord accepts arrives for an open or an uncertain job, for
\* the first time.
LEMMA ArrivalKeepsPromise ==
  ASSUME BatchInv, BatchInv', NEW r \in wire, DiscordAccepts(r), NEW j \in Jobs
  PROVE  \/ Verdict(j)' = Verdict(j) /\ StepsGot(j)' = StepsGot(j)
         \/ /\ Verdict(j) \in {"open", "uncertain"} /\ Verdict(j)' = Verdict(j)
            /\ \E n \in (1..MaxSteps) \ StepsGot(j) :
                 StepsGot(j)' = StepsGot(j) \cup {n}
<1> USE DEF BatchInv, FamilyInv
<1>1. /\ UNCHANGED <<state, parent>>
      /\ delivered' = delivered \cup {r}
      /\ r \in Requests /\ r.job \in Jobs /\ r.step \in 1..MaxSteps
  BY DEF DiscordAccepts, rowVars, Requests, QueueInv, TypeOK, Request
<1>2. Verdict(j)' = Verdict(j)
  BY <1>1, VerdictOf, VerdictOfNext
<1>3. CASE r.job # j
  BY <1>1, <1>2, <1>3 DEF StepsGot
<1>4. CASE r.job = j
  <2>1. parent[j] = NoJob
    BY <1>1, <1>4 DEF RequestsInOrder
  <2>2. state[j] \in {"sending"} \cup Uncertain
    <3>1. state[j] \in {"sending", "sent"} \cup Uncertain
      BY <1>1, <1>4 DEF QueueInv, UnsentMeansUndelivered
    <3>2. state[j] # "sent"
      BY <1>1, <1>4, <2>1 DEF SentMeansDelivered, RequestsInOrder
    <3> QED
      BY <3>1, <3>2
  <2>3. Verdict(j) \in {"open", "uncertain"}
    BY <2>1, <2>2, VerdictOf DEF Open
  <2>4. r.step \notin StepsGot(j)
    <3> SUFFICES ASSUME NEW q \in delivered, q.job = j, q.step = r.step
                 PROVE  FALSE
      BY DEF StepsGot
    <3>1. q = r
      BY <1>1, <1>4 DEF QueueInv, AtMostOnce, Requests
    <3> QED
      BY <3>1 DEF RequestsInOrder
  <2>5. StepsGot(j)' = StepsGot(j) \cup {r.step}
    BY <1>1, <1>4 DEF StepsGot
  <2> QED
    BY <1>1, <1>2, <2>3, <2>4, <2>5
<1> QED
  BY <1>3, <1>4

\* A step that delivers nothing moves a verdict as promised.
LEMMA VerdictKeepsPromise ==
  ASSUME BatchInv, BatchInv', Next, UNCHANGED delivered, NEW j \in Jobs
  PROVE  /\ StepsGot(j)' = StepsGot(j)
         /\ \/ Verdict(j)' = Verdict(j)
            \/ Verdict(j) = "absent" /\ Verdict(j)' \in {"open", "folded"}
            \/ Verdict(j) = "open" /\ Verdict(j)' = "sent" /\ StepsGot(j) # {}
            \/ Verdict(j) = "open" /\ Verdict(j)' = "uncertain"
            \/ Verdict(j) = "open" /\ Verdict(j)' = "unsent" /\ StepsGot(j) = {}
            \/ Verdict(j) = "unsent" /\ Verdict(j)' = "open" /\ StepsGot(j) = {}
<1> USE DEF BatchInv, FamilyInv
<1>1. StepsGot(j)' = StepsGot(j)
  BY DEF StepsGot
<1>2. ASSUME NEW p \in Jobs, RouteJoin(j, p)
      PROVE  Verdict(j) = "absent" /\ Verdict(j)' = "folded"
  BY <1>2, JoinStep, VerdictOf, VerdictOfNext, JobAssumption DEF QueueInv, TypeOK
<1>3. CASE ~\E p \in Jobs : RouteJoin(j, p)
  <2>1. parent'[j] = parent[j]
    <3>1. ASSUME NEW k \in Jobs, NEW p \in Jobs, RouteJoin(k, p)
          PROVE  parent'[j] = parent[j]
      BY <1>3, <3>1, JoinStep DEF QueueInv, TypeOK
    <3> QED
      BY <3>1, ParentStep
  <2>2. CASE parent[j] # NoJob
    BY <1>1, <2>1, <2>2, VerdictOf, VerdictOfNext
  <2>3. CASE parent[j] = NoJob
    <3>1. /\ state[j] = "none" => state'[j] \in {"none", "pending"}
          /\ state[j] # "none" => state'[j] # "none"
      BY <1>3, StateStep DEF StateMoves, Open, Terminal, Unsent, Uncertain
    <3>2. OutcomeKept(j) /\ Sources(j)
      BY RowStep, SourcesStep DEF QueueInv, RowMoves
    <3>3. ASSUME state'[j] = "sent"
          PROVE  StepsGot(j)' # {}
      <4>1. sentSteps'[j] > 0 /\ sentSteps'[j] \in Nat
            /\ \A n \in 1..sentSteps'[j] : \E r \in delivered' : r.job = j
        BY <2>1, <2>3, <3>3 DEF SentMeansDelivered, QueueInv, TypeOK
      <4>2. 1 \in 1..sentSteps'[j]
        BY <4>1
      <4> QED
        BY <4>1, <4>2 DEF StepsGot
    <3>4. state[j] \in Unsent => StepsGot(j) = {}
      BY DEF QueueInv, UnsentMeansUndelivered, Requests, StepsGot, Unsent, Uncertain
    <3>5. state'[j] \in Unsent => StepsGot(j)' = {}
      BY DEF QueueInv, UnsentMeansUndelivered, Requests, StepsGot, Unsent, Uncertain
    <3>6. CASE state[j] = "none"
      BY <1>1, <2>1, <2>3, <3>1, <3>6, VerdictOf, VerdictOfNext DEF Open
    <3>7. CASE state[j] \in {"sent"} \cup Uncertain
      BY <1>1, <2>1, <2>3, <3>2, <3>7, VerdictOf, VerdictOfNext
      DEF OutcomeKept, Delivering
    <3>8. CASE state[j] \in Unsent
      BY <1>1, <2>1, <2>3, <3>2, <3>4, <3>8, VerdictOf, VerdictOfNext DEF Sources
    <3>9. CASE state[j] \in Open
      <4>1. state[j] # "none"
        BY <3>9 DEF Open
      <4> QED
        BY <1>1, <2>1, <2>3, <3>1, <3>3, <3>5, <3>9, <4>1, VerdictOf, VerdictOfNext
    <3> QED
      BY <2>3, <3>6, <3>7, <3>8, <3>9, VerdictOf
  <2> QED
    BY <2>2, <2>3
<1> QED
  BY <1>1, <1>2, <1>3

\* Every behaviour of the durable queue, with any number of processes, crashes
\* and retries, is one that DeliveryPromise allows.
THEOREM QueueKeepsPromise == Spec => PromiseKept
<1>1. Init => Promise!Init
  <2> SUFFICES ASSUME Init PROVE Promise!Init
    OBVIOUS
  <2>1. \A j \in Jobs : StepsGot(j) = {}
    BY DEF Init, StepsGot
  <2>2. \A j \in Jobs : Verdict(j) \in {"absent", "open"}
    BY QueueInit, VerdictOf DEF Init, Open
  <2> QED
    BY <2>1, <2>2 DEF Promise!Init
<1>2. BatchInv /\ BatchInv' /\ [Next]_vars => [Promise!Next]_(Promise!vars)
  <2> SUFFICES ASSUME BatchInv, BatchInv', [Next]_vars
               PROVE  [Promise!Next]_(Promise!vars)
    OBVIOUS
  <2>1. CASE Next
    <3>1. ASSUME NEW j \in Jobs
          PROVE  \/ Verdict(j)' = Verdict(j) /\ StepsGot(j)' = StepsGot(j)
                 \/ /\ Verdict(j) \in {"open", "uncertain"} /\ Verdict(j)' = Verdict(j)
                    /\ \E n \in (1..MaxSteps) \ StepsGot(j) :
                         StepsGot(j)' = StepsGot(j) \cup {n}
                 \/ /\ StepsGot(j)' = StepsGot(j)
                    /\ \/ Verdict(j) = "absent" /\ Verdict(j)' \in {"open", "folded"}
                       \/ Verdict(j) = "open" /\ Verdict(j)' = "sent" /\ StepsGot(j) # {}
                       \/ Verdict(j) = "open" /\ Verdict(j)' = "uncertain"
                       \/ Verdict(j) = "open" /\ Verdict(j)' = "unsent" /\ StepsGot(j) = {}
                       \/ Verdict(j) = "unsent" /\ Verdict(j)' = "open" /\ StepsGot(j) = {}
      BY <2>1, DeliveredGrows, ArrivalKeepsPromise, VerdictKeepsPromise
    <3>2. Promise!Next
      BY <3>1 DEF Promise!Next, Promise!JobStep, Promise!Same, Promise!Accept,
         Promise!Deliver, Promise!ReportSent, Promise!ReportUncertain,
         Promise!ReportUnsent, Promise!Retry
    <3> QED
      BY <3>2
  <2>2. CASE UNCHANGED vars
    BY <2>2 DEF vars, rowVars, netVars, Promise!vars, Verdict, StepsGot
  <2> QED
    BY <2>1, <2>2
<1> QED
  BY <1>1, <1>2, BatchInvariant, PTL DEF Spec, PromiseKept, Promise!Spec
=============================================================================
