--------------------------- MODULE GraphJoin_proofs ---------------------------
(***************************************************************************)
(* Proofs about the joins of GraphFlow: what a run that is flagged, merged, *)
(* notified or closed on one branch may rely on, for any graph and any     *)
(* number of runs, workers, windows and faults.                            *)
(*                                                                         *)
(* Two chains of invariants start from SyncInv, which says where every     *)
(* activation came from and that a run without its flag is calm.  On the   *)
(* way to the merges, WayInv says that a run is at one place at most where *)
(* it can come by one way only, and TreeInv that a closed edge or a        *)
(* decided merge has nothing left before it, in graphs whose branches meet *)
(* at merges only.  On the way to the limiting blocks, UnitInv says that a *)
(* unit is known by its way and that an activation which is not settled    *)
(* has sent nothing, and GateInv that what passed is what was counted.     *)
(***************************************************************************)
EXTENDS GraphFlow_proofs, WellFoundedInduction

-----------------------------------------------------------------------------
(* What each operation does, exactly.                                      *)

\* The activation of the next node with a unit, and the activation of the same
\* node for one group of the runs of a step.
Succ(e, u) == [node |-> e.to, via |-> e.id, unit |-> u]
Part(s, G) == [s EXCEPT !.unit = Onward(s, G)]

\* The record of one step changes and the given steps are activated.
Turns(s, ids) ==
  /\ s \in DOMAIN steps
  /\ DOMAIN steps' = DOMAIN steps \cup ids
  /\ \A t \in DOMAIN steps \ {s} : steps'[t] = steps[t]
  /\ \A t \in ids \ DOMAIN steps : steps'[t] = NewStep(t)
  /\ steps'[s].version = steps[s].version

\* The successors of a step, when `sent` tells which runs take which edge.
NextSteps(s, sent) ==
  {Succ(e, Onward(s, sent[e])) : e \in {g \in Out(s.node) : sent[g] # {}}}

\* Runs go on over the edges of the node.
Leaves(f, sent) ==
  LET s == f.step IN
  /\ Owned(f)
  /\ sent \in [Out(s.node) -> SUBSET (f.runs \cap Eligible(s))]
  /\ Turns(s, NextSteps(s, sent))
  /\ steps'[s].state = "complete" /\ steps'[s].runs = steps[s].runs
  /\ \A d : d \in data' <=>
       d \in data \/ \E e \in Out(s.node) : \E r \in sent[e] :
                       d = <<r, e.id, Onward(s, sent[e])>>
  /\ closed' = closed \cup UNION {{<<r, e.id>> : r \in f.runs \ sent[e]} : e \in Out(s.node)}
  /\ \/ Type[s.node] \in Plain \cup {"limit"}
     \/ f.runs \subseteq expired /\ \A e \in Out(s.node) : sent[e] = {}
  /\ UNCHANGED <<batches, sends>>

\* The groups of a unit get activations of their own.
Splits(f, K) ==
  LET s == f.step IN
  /\ Owned(f) /\ Type[s.node] = "limit"
  /\ K \in SUBSET (f.runs \cap Eligible(s))
  /\ \E r, q \in K : KeyOf[s.node][r] # KeyOf[s.node][q]
  /\ Turns(s, {Part(s, G) : G \in Groups(s.node, K)})
  /\ steps'[s].state = "complete" /\ steps'[s].runs = steps[s].runs
  /\ UNCHANGED <<batches, sends, data, closed>>

\* Nothing goes on: the activation ends, waits or joins.
Stays(f) ==
  LET s == f.step IN
  /\ Owned(f)
  /\ Turns(s, {})
  /\ steps'[s].state \in Over /\ steps'[s].runs \subseteq steps[s].runs
  /\ steps'[s].state = "joining" => Type[s.node] = "merge"
  /\ closed \subseteq closed'
  /\ \A c \in closed' \ closed :
       /\ c \in NoPath(f.runs \cup steps[s].runs, s.node)
       /\ \/ Eligible(s) = {} /\ c \in NoPath(f.runs, s.node)
          \/ /\ Type[s.node] # "merge"
             /\ c[1] \notin steps'[s].runs \/ steps'[s].state \in Terminal
  /\ UNCHANGED <<batches, data>>
  /\ \/ UNCHANGED sends
     \/ /\ Type[s.node] = "send" /\ steps'[s].state = "complete"
        /\ steps'[s].runs = steps[s].runs
        /\ \E K \in SUBSET (f.runs \cap Eligible(s)) :
             sends' = [t \in DOMAIN sends \cup {s} |->
                         IF t = s THEN [runs |-> K, state |-> "unprojected"]
                         ELSE sends[t]]

\* The groups of a unit become inputs of batches.
Admits(f, K, into) ==
  LET s == f.step IN
  /\ Owned(f)
  /\ K \in SUBSET (f.runs \cap Eligible(s)) /\ f.runs \ expired \subseteq K
  /\ Turns(s, {})
  /\ steps'[s].state = "aggregating" /\ steps'[s].runs = steps[s].runs
  /\ Takes(s, K, into)
  /\ \A r \in K : \E b \in into : b.key = KeyOf[s.node][r]
  /\ \A b \in into : b.window = f.at /\ \E r \in K : b.key = KeyOf[s.node][r]
  /\ UNCHANGED <<data, closed, sends>>

\* A worker that lost its step, or its life, changes nothing.
Idles ==
  UNCHANGED <<steps, data, closed, batches, sends>>

\* Ending an activation keeps its members and the version of its lease.
LEMMA FinishedRecord ==
  ASSUME TypeOK, NEW s \in DOMAIN steps, NEW state \in StepStates, NEW wake \in Nat
  PROVE  /\ DOMAIN Finished(s, state, wake) = DOMAIN steps
         /\ Finished(s, state, wake)[s].state = state
         /\ Finished(s, state, wake)[s].runs = steps[s].runs
         /\ Finished(s, state, wake)[s].version = steps[s].version
         /\ \A t \in DOMAIN steps \ {s} : Finished(s, state, wake)[t] = steps[t]
<1>1. steps[s] \in Steps BY DEF TypeOK
<1>2. Finished(s, state, wake)[s]
        = [steps[s] EXCEPT !.state = state, !.wake = wake, !.live = FALSE]
  BY DEF Finished
<1>3. \A t \in DOMAIN steps \ {s} : Finished(s, state, wake)[t] = steps[t]
  BY DEF Finished
<1>4. DOMAIN Finished(s, state, wake) = DOMAIN steps BY DEF Finished
<1>5. /\ Finished(s, state, wake)[s].state = state
      /\ Finished(s, state, wake)[s].runs = steps[s].runs
      /\ Finished(s, state, wake)[s].version = steps[s].version
  BY <1>1, <1>2 DEF Steps, StepStates
<1>6. QED BY <1>3, <1>4, <1>5

\* A finished step with successors.
LEMMA FinishedTurns ==
  ASSUME TypeOK, NEW s \in DOMAIN steps, NEW state \in StepStates, NEW wake \in Nat, NEW ids,
         steps' = Activate(Finished(s, state, wake), ids)
  PROVE  /\ Turns(s, ids)
         /\ steps'[s].state = state /\ steps'[s].runs = steps[s].runs
<1> DEFINE T == Finished(s, state, wake)
<1>1. /\ DOMAIN T = DOMAIN steps /\ T[s].state = state /\ T[s].runs = steps[s].runs
      /\ T[s].version = steps[s].version
      /\ \A t \in DOMAIN steps \ {s} : T[t] = steps[t]
  BY FinishedRecord
<1> HIDE DEF T
<1>2. steps' = Activate(T, ids) BY DEF T
<1>3. /\ DOMAIN steps' = DOMAIN T \cup ids
      /\ \A t \in DOMAIN T : steps'[t] = T[t]
      /\ \A t \in ids \ DOMAIN T : steps'[t] = NewStep(t)
  <2> DEFINE A == Activate(T, ids)
  <2>1. /\ DOMAIN A = DOMAIN T \cup ids
        /\ \A t \in DOMAIN T : A[t] = T[t]
        /\ \A t \in ids \ DOMAIN T : A[t] = NewStep(t)
    BY Activated, Zenon
  <2> HIDE DEF A
  <2>2. steps' = A BY <1>2 DEF A
  <2>3. QED BY <2>1, <2>2
<1>4. steps'[s] = T[s] /\ \A t \in DOMAIN steps \ {s} : steps'[t] = steps[t]
  BY <1>1, <1>3
<1>5. /\ steps'[s].state = state /\ steps'[s].runs = steps[s].runs
      /\ steps'[s].version = steps[s].version
  BY <1>1, <1>4
<1>6. DOMAIN steps' = DOMAIN steps \cup ids BY <1>1, <1>3
<1>7. \A t \in ids \ DOMAIN steps : steps'[t] = NewStep(t) BY <1>1, <1>3
<1>8. QED BY <1>4, <1>5, <1>6, <1>7 DEF Turns

\* A finished step without successors.
LEMMA FinishedStays ==
  ASSUME TypeOK, NEW s \in DOMAIN steps, NEW state \in StepStates, NEW wake \in Nat,
         steps' = Finished(s, state, wake)
  PROVE  /\ Turns(s, {})
         /\ steps'[s].state = state /\ steps'[s].runs = steps[s].runs
BY FinishedRecord DEF Turns

\* Emit, as one fact about each receipt.
LEMMA EmitMoves ==
  ASSUME TypeOK, NEW s \in DOMAIN steps, NEW sent, NEW seen,
         Emit(s, Finish(s, "complete"), sent, seen)
  PROVE  /\ Turns(s, NextSteps(s, sent))
         /\ steps'[s].state = "complete" /\ steps'[s].runs = steps[s].runs
         /\ \A d : d \in data' <=>
              d \in data \/ \E e \in Out(s.node) : \E r \in sent[e] :
                              d = <<r, e.id, Onward(s, sent[e])>>
         /\ closed' = closed \cup UNION {{<<r, e.id>> : r \in seen \ sent[e]}
                                         : e \in Out(s.node)}
<1> DEFINE taken == {e \in Out(s.node) : sent[e] # {}}
<1>1. /\ steps' = Activate(Finish(s, "complete"),
                           {[node |-> e.to, via |-> e.id,
                             unit |-> Onward(s, sent[e])] : e \in taken})
      /\ data' = data \cup UNION {{<<r, e.id, Onward(s, sent[e])>> : r \in sent[e]}
                                  : e \in taken}
      /\ closed' = closed \cup UNION {{<<r, e.id>> : r \in seen \ sent[e]}
                                      : e \in Out(s.node)}
  BY DEF Emit
<1>2. steps' = Activate(Finished(s, "complete", steps[s].wake), NextSteps(s, sent))
  BY <1>1 DEF NextSteps, Succ, Finish
<1>3. Turns(s, NextSteps(s, sent)) /\ steps'[s].state = "complete"
      /\ steps'[s].runs = steps[s].runs
  <2>1. steps[s].wake \in Nat BY DEF TypeOK, Steps
  <2>2. QED BY <1>2, <2>1, FinishedTurns DEF StepStates
<1>4. \A d : d \in data' <=>
         d \in data \/ \E e \in Out(s.node) : \E r \in sent[e] :
                         d = <<r, e.id, Onward(s, sent[e])>>
  BY <1>1
<1>5. QED BY <1>1, <1>3, <1>4

\* A completed evaluation.
LEMMA SettleLeaves ==
  ASSUME TypeOK, NEW f \in flights, Settle(f)
  PROVE  \E sent : Leaves(f, sent)
<1> DEFINE s == f.step
<1>1. s \in DOMAIN steps /\ steps[s].wake \in Nat /\ f.at + 1 \in Nat
  BY FlightFields DEF Steps
<1>2. PICK K \in Kept(f) :
        /\ Type[s.node] \in Plain \/ K = {}
        /\ \E port \in [K -> PortsOf(s.node)] :
             LET sent == [e \in Out(s.node) |-> {r \in K : port[r] = e.port}] IN
             /\ \A e \in Out(s.node) : sent[e] \subseteq Eligible(s)
             /\ Emit(s, Finish(s, "complete"), sent, f.runs)
  BY Zenon DEF Settle
<1>3. PICK port \in [K -> PortsOf(s.node)] :
        LET sent == [e \in Out(s.node) |-> {r \in K : port[r] = e.port}] IN
        /\ \A e \in Out(s.node) : sent[e] \subseteq Eligible(s)
        /\ Emit(s, Finish(s, "complete"), sent, f.runs)
  BY <1>2
<1> DEFINE sent == [e \in Out(s.node) |-> {r \in K : port[r] = e.port}]
<1>4. K \in SUBSET f.runs BY FlightFields
<1>5. sent \in [Out(s.node) -> SUBSET (f.runs \cap Eligible(s))]
  <2>1. \A e \in Out(s.node) : sent[e] \subseteq Eligible(s) BY <1>3
  <2>2. \A e \in Out(s.node) : sent[e] = {r \in K : port[r] = e.port} OBVIOUS
  <2>3. QED BY <1>4, <2>1, <2>2
<1>6. \/ Type[s.node] \in Plain \cup {"limit"}
      \/ f.runs \subseteq expired /\ \A e \in Out(s.node) : sent[e] = {}
  <2>1. Type[s.node] \notin Plain => f.runs \ expired \subseteq K BY DEF Kept, Plain
  <2>2. QED BY <1>2, <2>1
<1>7. Emit(s, Finish(s, "complete"), sent, f.runs) BY <1>3
<1> HIDE DEF sent
<1>8. /\ Turns(s, NextSteps(s, sent))
      /\ steps'[s].state = "complete" /\ steps'[s].runs = steps[s].runs
      /\ \A d : d \in data' <=>
           d \in data \/ \E e \in Out(s.node) : \E r \in sent[e] :
                           d = <<r, e.id, Onward(s, sent[e])>>
      /\ closed' = closed \cup UNION {{<<r, e.id>> : r \in f.runs \ sent[e]}
                                      : e \in Out(s.node)}
  BY <1>1, <1>7, EmitMoves
<1>9. Owned(f) /\ UNCHANGED <<batches, sends>> BY DEF Settle
<1>10. Leaves(f, sent) BY <1>5, <1>6, <1>8, <1>9 DEF Leaves
<1>11. QED BY <1>10

\* A limiting node passes the unit, drops it or defers it.
LEMMA GateMoves ==
  ASSUME TypeOK, NEW f \in flights, Gate(f)
  PROVE  (\E sent : Leaves(f, sent)) \/ Stays(f)
<1> DEFINE s == f.step
<1>1. s \in DOMAIN steps /\ steps[s].wake \in Nat /\ f.at + 1 \in Nat
  BY FlightFields DEF Steps
<1>2. PICK K \in Kept(f) : \E k \in Keys :
        /\ K # {} /\ K \subseteq Eligible(s)
        /\ \/ Emit(s, Finish(s, "complete"), [e \in Out(s.node) |-> K], f.runs)
           \/ /\ steps' = IF Overflow = "drop" THEN Finish(s, "excluded")
                          ELSE Finished(s, "pending", f.at + 1)
              /\ closed' = IF Overflow = "drop" THEN closed \cup NoPath(f.runs \ K, s.node)
                           ELSE closed
              /\ UNCHANGED data
  BY ZenonT(60) DEF Gate
<1>3. Owned(f) /\ UNCHANGED <<batches, sends>> /\ Type[s.node] = "limit" BY DEF Gate
<1>4. K \in SUBSET (f.runs \cap Eligible(s)) BY <1>2, FlightFields
<1>5. CASE Emit(s, Finish(s, "complete"), [e \in Out(s.node) |-> K], f.runs)
  <2> DEFINE sent == [e \in Out(s.node) |-> K]
  <2>1. sent \in [Out(s.node) -> SUBSET (f.runs \cap Eligible(s))] BY <1>4
  <2>2. Emit(s, Finish(s, "complete"), sent, f.runs) BY <1>5
  <2> HIDE DEF sent
  <2>3. /\ Turns(s, NextSteps(s, sent))
        /\ steps'[s].state = "complete" /\ steps'[s].runs = steps[s].runs
        /\ \A d : d \in data' <=>
             d \in data \/ \E e \in Out(s.node) : \E r \in sent[e] :
                             d = <<r, e.id, Onward(s, sent[e])>>
        /\ closed' = closed \cup UNION {{<<r, e.id>> : r \in f.runs \ sent[e]}
                                        : e \in Out(s.node)}
    BY <1>1, <2>2, EmitMoves
  <2>4. Leaves(f, sent) BY <1>3, <2>1, <2>3 DEF Leaves
  <2>5. QED BY <2>4
<1>6. CASE ~Emit(s, Finish(s, "complete"), [e \in Out(s.node) |-> K], f.runs)
  <2>1. /\ steps' = IF Overflow = "drop" THEN Finish(s, "excluded")
                    ELSE Finished(s, "pending", f.at + 1)
        /\ closed' = IF Overflow = "drop" THEN closed \cup NoPath(f.runs \ K, s.node)
                     ELSE closed
        /\ UNCHANGED data
    BY <1>2, <1>6
  <2>2. CASE Overflow = "drop"
    <3>1. steps' = Finished(s, "excluded", steps[s].wake) BY <2>1, <2>2 DEF Finish
    <3>2. Turns(s, {}) /\ steps'[s].state = "excluded" /\ steps'[s].runs = steps[s].runs
      BY <1>1, <3>1, FinishedStays DEF StepStates
    <3>3. closed' = closed \cup NoPath(f.runs \ K, s.node) BY <2>1, <2>2
    <3>4. \A c \in closed' \ closed : c \in NoPath(f.runs \cup steps[s].runs, s.node)
      BY <3>3 DEF NoPath
    <3>5. QED BY <1>3, <2>1, <3>2, <3>3, <3>4 DEF Stays, Over, Terminal
  <2>3. CASE Overflow # "drop"
    <3>1. steps' = Finished(s, "pending", f.at + 1) /\ closed' = closed BY <2>1, <2>3
    <3>2. Turns(s, {}) /\ steps'[s].state = "pending" /\ steps'[s].runs = steps[s].runs
      BY <1>1, <3>1, FinishedStays DEF StepStates
    <3>3. QED BY <1>3, <2>1, <3>1, <3>2 DEF Stays, Over
  <2>4. QED BY <2>2, <2>3
<1>7. QED BY <1>5, <1>6

\* A limiting node splits a unit of several groups.
LEMMA PartitionSplits ==
  ASSUME TypeOK, NEW f \in flights, Partition(f)
  PROVE  \E K : Splits(f, K)
<1> DEFINE s == f.step
<1>1. s \in DOMAIN steps /\ steps[s].wake \in Nat /\ f.at + 1 \in Nat
  BY FlightFields DEF Steps
<1>2. PICK K \in Kept(f) :
        /\ Cardinality(Groups(s.node, K)) > 1
        /\ K \subseteq Eligible(s)
        /\ steps' = Activate(Finish(s, "complete"),
                      {[s EXCEPT !.unit = Onward(s, G)] : G \in Groups(s.node, K)})
  BY DEF Partition
<1>3. steps' = Activate(Finished(s, "complete", steps[s].wake),
                        {Part(s, G) : G \in Groups(s.node, K)})
  BY <1>2 DEF Finish, Part
<1>4. /\ Turns(s, {Part(s, G) : G \in Groups(s.node, K)})
      /\ steps'[s].state = "complete" /\ steps'[s].runs = steps[s].runs
  BY <1>1, <1>3, FinishedTurns DEF StepStates
<1>5. K \in SUBSET (f.runs \cap Eligible(s)) BY <1>2, FlightFields
<1>6. Owned(f) /\ Type[s.node] = "limit" /\ UNCHANGED <<batches, sends, data, closed>>
  BY DEF Partition
<1>7. \E r, q \in K : KeyOf[s.node][r] # KeyOf[s.node][q]
  <2>1. SUFFICES ASSUME \A r, q \in K : KeyOf[s.node][r] = KeyOf[s.node][q] PROVE FALSE
    OBVIOUS
  <2>2. \A G \in Groups(s.node, K) : G = K BY <2>1 DEF Groups
  <2>3. Groups(s.node, K) = {} \/ Groups(s.node, K) = {K} BY <2>2
  <2>4. Cardinality(Groups(s.node, K)) \in {0, 1}
    BY <2>3, FS_EmptySet, FS_Singleton
  <2>5. QED BY <1>2, <2>4
<1>8. Splits(f, K) BY <1>4, <1>5, <1>6, <1>7 DEF Splits
<1>9. QED BY <1>8

\* A wait, an evaluation of withdrawn members and one that failed.
LEMMA OthersStay ==
  ASSUME TypeOK, NEW f \in flights,
         Wait(f) \/ SettleRevoked(f) \/ FailStep(f) \/ Park(f) \/ RecordSend(f)
  PROVE  Stays(f)
<1> DEFINE s == f.step
<1>1. /\ s \in DOMAIN steps /\ steps[s] \in Steps
      /\ steps[s].wake \in Nat /\ f.at + 1 \in Nat
  BY FlightFields DEF Steps
<1>2. CASE Wait(f)
  <2>1. PICK K \in Kept(f) \ {{}} :
          /\ K \subseteq Eligible(s)
          /\ steps' = [Finished(s, "pending", f.at + 1) EXCEPT ![s].runs = K]
          /\ closed' = closed \cup NoPath(f.runs \ K, s.node)
    BY <1>2 DEF Wait
  <2> DEFINE T == Finished(s, "pending", f.at + 1)
  <2>2. /\ DOMAIN T = DOMAIN steps /\ T[s].state = "pending"
        /\ T[s].version = steps[s].version
        /\ \A t \in DOMAIN steps \ {s} : T[t] = steps[t]
    BY <1>1, FinishedRecord DEF StepStates
  <2>3. T[s] = [steps[s] EXCEPT !.state = "pending", !.wake = f.at + 1, !.live = FALSE]
    BY <1>1 DEF Finished
  <2> HIDE DEF T
  <2>4. steps' = [T EXCEPT ![s].runs = K] BY <2>1 DEF T
  <2>5. /\ DOMAIN steps' = DOMAIN steps
        /\ \A t \in DOMAIN steps \ {s} : steps'[t] = steps[t]
        /\ steps'[s] = [T[s] EXCEPT !.runs = K]
    BY <1>1, <2>2, <2>4
  <2>6. steps'[s].state = "pending" /\ steps'[s].runs = K
        /\ steps'[s].version = steps[s].version
    BY <1>1, <2>3, <2>5 DEF Steps
  <2>7. Turns(s, {}) BY <1>1, <2>5, <2>6 DEF Turns
  <2>8. Owned(f) /\ Type[s.node] = "delay" /\ UNCHANGED <<batches, data, sends>>
    BY <1>2 DEF Wait
  <2>9. K \subseteq steps[s].runs BY <2>1 DEF Eligible
  <2>10. \A c \in closed' \ closed : /\ c \in NoPath(f.runs \cup steps[s].runs, s.node)
                                     /\ c[1] \notin K
    BY <2>1 DEF NoPath
  <2>11. closed \subseteq closed' BY <2>1
  <2>12. QED BY <2>6, <2>7, <2>8, <2>9, <2>10, <2>11 DEF Stays, Over
<1>3. CASE SettleRevoked(f)
  <2>1. /\ Owned(f) /\ Eligible(s) = {} /\ UNCHANGED <<batches, data, sends>>
        /\ steps' = Finished(s, "excluded", steps[s].wake)
    BY <1>3 DEF SettleRevoked, Finish
  <2>2. Turns(s, {}) /\ steps'[s].state = "excluded" /\ steps'[s].runs = steps[s].runs
    BY <1>1, <2>1, FinishedStays DEF StepStates
  <2>3. PICK untaken \in SUBSET NoPath(f.runs, s.node) : closed' = closed \cup untaken
    BY <1>3 DEF SettleRevoked
  <2>4. \A c \in closed' \ closed : /\ c \in NoPath(f.runs \cup steps[s].runs, s.node)
                                    /\ c \in NoPath(f.runs, s.node)
    BY <2>3 DEF NoPath
  <2>5. closed \subseteq closed' BY <2>3
  <2>6. QED BY <2>1, <2>2, <2>4, <2>5 DEF Stays, Over
<1>4. CASE FailStep(f)
  <2>1. /\ Owned(f) /\ Type[s.node] # "merge" /\ UNCHANGED <<batches, data, sends>>
        /\ steps' = Finished(s, "excluded", steps[s].wake)
        /\ closed' = closed \cup NoPath(steps[s].runs, s.node)
    BY <1>4 DEF FailStep, Finish
  <2>2. Turns(s, {}) /\ steps'[s].state = "excluded" /\ steps'[s].runs = steps[s].runs
    BY <1>1, <2>1, FinishedStays DEF StepStates
  <2>3. \A c \in closed' \ closed : c \in NoPath(f.runs \cup steps[s].runs, s.node)
    BY <2>1 DEF NoPath
  <2>4. closed \subseteq closed' BY <2>1
  <2>5. QED BY <2>1, <2>2, <2>3, <2>4 DEF Stays, Over, Terminal
<1>5. CASE Park(f)
  <2>1. /\ Owned(f) /\ Type[s.node] = "merge" /\ UNCHANGED <<batches, data, sends, closed>>
        /\ steps' = Finished(s, "joining", steps[s].wake)
    BY <1>5 DEF Park, Finish
  <2>2. Turns(s, {}) /\ steps'[s].state = "joining" /\ steps'[s].runs = steps[s].runs
    BY <1>1, <2>1, FinishedStays DEF StepStates
  <2>3. QED BY <2>1, <2>2 DEF Stays, Over
<1>6. CASE RecordSend(f)
  <2>1. /\ Owned(f) /\ Type[s.node] = "send" /\ UNCHANGED <<batches, data, closed>>
        /\ steps' = Finished(s, "complete", steps[s].wake)
    BY <1>6 DEF RecordSend, Finish
  <2>2. Turns(s, {}) /\ steps'[s].state = "complete" /\ steps'[s].runs = steps[s].runs
    BY <1>1, <2>1, FinishedStays DEF StepStates
  <2>3. PICK K \in Kept(f) :
          /\ K \subseteq Eligible(s)
          /\ sends' = [t \in DOMAIN sends \cup {s} |->
                         IF t = s THEN [runs |-> K, state |-> "unprojected"]
                         ELSE sends[t]]
    BY <1>6 DEF RecordSend
  <2>4. K \in SUBSET (f.runs \cap Eligible(s)) BY <2>3, FlightFields
  <2>5. QED BY <2>1, <2>2, <2>3, <2>4 DEF Stays, Over
<1>7. QED BY <1>2, <1>3, <1>4, <1>5, <1>6

\* An admission.
LEMMA AdmitAdmits ==
  ASSUME TypeOK, SegmentsNumbered, NEW f \in flights, Admit(f)
  PROVE  \E K, into : Admits(f, K, into)
<1> DEFINE s == f.step
<1>1. s \in DOMAIN steps /\ steps[s].wake \in Nat BY FlightFields DEF Steps
<1>2. PICK K \in SUBSET f.runs : \E into :
        /\ K \subseteq Eligible(s) /\ f.runs \ expired \subseteq K
        /\ Takes(s, K, into)
        /\ \A r \in K : \E b \in into : b.key = KeyOf[s.node][r]
        /\ \A b \in into : b.window = f.at /\ \E r \in K : b.key = KeyOf[s.node][r]
  BY AdmitExactly
<1>3. PICK into :
        /\ K \subseteq Eligible(s) /\ f.runs \ expired \subseteq K
        /\ Takes(s, K, into)
        /\ \A r \in K : \E b \in into : b.key = KeyOf[s.node][r]
        /\ \A b \in into : b.window = f.at /\ \E r \in K : b.key = KeyOf[s.node][r]
  BY <1>2
<1>4. /\ Owned(f) /\ UNCHANGED <<data, closed, sends>>
      /\ steps' = Finished(s, "aggregating", steps[s].wake)
  BY DEF Admit, Finish
<1>5. Turns(s, {}) /\ steps'[s].state = "aggregating" /\ steps'[s].runs = steps[s].runs
  BY <1>1, <1>4, FinishedStays DEF StepStates
<1>6. Admits(f, K, into) BY <1>3, <1>4, <1>5 DEF Admits
<1>7. QED BY <1>6

\* However a worker concludes its evaluation, it does one of these, and flags
\* the runs of the unit if it does anything at all.
LEMMA ConcludeMoves ==
  ASSUME TypeOK, SegmentsNumbered, NEW f \in flights, Conclude(f)
  PROVE  /\ \/ \E sent : Leaves(f, sent)
            \/ \E K : Splits(f, K)
            \/ Stays(f)
            \/ \E K, into : Admits(f, K, into)
            \/ Idles
         /\ Idles \/ needsSync' = needsSync \cup f.step.unit.runs
         /\ needsSync \subseteq needsSync'
         /\ flights' = flights \ {f}
         /\ UNCHANGED <<clock, revoked, expired, decisions, jobs>>
<1>1. ConcludeFrame(f) BY ConcludeLeaves
<1>2. /\ UNCHANGED <<clock, revoked, expired, decisions, jobs>>
      /\ flights' = flights \ {f} /\ needsSync \subseteq needsSync'
  BY <1>1 DEF ConcludeFrame
<1>3. CASE Late(f) \/ Abandon(f)
  <2>1. Idles BY <1>3 DEF Late, Abandon, Idles
  <2>2. QED BY <1>2, <2>1
<1>4. CASE ~(Late(f) \/ Abandon(f))
  <2>1. needsSync' = needsSync \cup f.step.unit.runs
    <3>1. CASE Settle(f) BY <3>1 DEF Settle, Flag
    <3>2. CASE SettleRevoked(f) BY <3>2 DEF SettleRevoked, Flag
    <3>3. CASE Wait(f) BY <3>3 DEF Wait, Flag
    <3>4. CASE Partition(f) BY <3>4 DEF Partition, Flag
    <3>5. CASE Gate(f) BY <3>5 DEF Gate, Flag
    <3>6. CASE Admit(f) BY <3>6 DEF Admit, Flag
    <3>7. CASE Park(f) BY <3>7 DEF Park, Flag
    <3>8. CASE RecordSend(f) BY <3>8 DEF RecordSend, Flag
    <3>9. CASE FailStep(f) BY <3>9 DEF FailStep, Flag
    <3>10. QED
      BY <1>4, <3>1, <3>2, <3>3, <3>4, <3>5, <3>6, <3>7, <3>8, <3>9 DEF Conclude
  <2>2. \/ \E sent : Leaves(f, sent)
        \/ \E K : Splits(f, K)
        \/ Stays(f)
        \/ \E K, into : Admits(f, K, into)
    BY <1>4, SettleLeaves, GateMoves, PartitionSplits, OthersStay, AdmitAdmits DEF Conclude
  <2>3. QED BY <1>2, <2>1, <2>2
<1>5. QED BY <1>3, <1>4

\* The members of an input that may still go on, the inputs that are taken and
\* the unit they form.
Going(b, i) == batches[b].inputs[i].runs \ (revoked \cup expired)
Chosen(b) ==
  {i \in DOMAIN batches[b].inputs :
     /\ Going(b, i) # {}
     /\ BatchMode # "all" =>
          \A j \in DOMAIN batches[b].inputs : Going(b, j) # {} => j <= i}
SealedUnit(b) ==
  [origin |-> b.node, path |-> {},
   ancestry |-> {b} \cup UNION {batches[b].inputs[i].step.unit.ancestry : i \in Chosen(b)},
   runs |-> UNION {Going(b, i) : i \in Chosen(b)}]

\* A batch closes, and its unit goes on over the edges `taken`.
Seals(b, taken) ==
  /\ batches[b].state = "open"
  /\ taken \in SUBSET Out(b.node)
  /\ taken # {} => Chosen(b) # {} /\ taken = Out(b.node)
  /\ DOMAIN batches' = DOMAIN batches
  /\ \A c \in DOMAIN batches \ {b} : batches'[c] = batches[c]
  /\ batches'[b].inputs = batches[b].inputs /\ batches'[b].state # "open"
  /\ DOMAIN steps' = DOMAIN steps \cup {Succ(e, SealedUnit(b)) : e \in taken}
  /\ \A t \in DOMAIN steps :
       /\ steps'[t].runs = steps[t].runs /\ steps'[t].version = steps[t].version
       /\ IF t \in LastOf(b) /\ steps[t].state = "aggregating"
          THEN steps'[t].state = "complete" ELSE steps'[t] = steps[t]
  /\ \A t \in DOMAIN steps' \ DOMAIN steps : steps'[t] = NewStep(t)
  /\ \A d : d \in data' <=>
       d \in data \/ \E e \in taken : \E r \in SealedUnit(b).runs :
                       d = <<r, e.id, SealedUnit(b)>>
  /\ closed' = closed \cup UNION {NoPath(steps[s].runs, b.node) : s \in LastOf(b)}
  /\ needsSync' = needsSync \cup RunsOf(batches[b].inputs)
  /\ UNCHANGED <<clock, revoked, expired, flights, used, decisions, sends, jobs>>

\* closeBatch does that.
LEMMA CloseSeals ==
  ASSUME TypeOK, NEW b \in DOMAIN batches, CloseBatch(b)
  PROVE  \E taken : Seals(b, taken)
<1> DEFINE ins == batches[b].inputs
           Left(i) == ins[i].runs \ (revoked \cup expired)
           alive == {i \in DOMAIN ins : Left(i) # {}}
           chosen == IF BatchMode = "all" THEN alive
                     ELSE {i \in alive : \A j \in alive : j <= i}
           unit == [origin |-> b.node, path |-> {},
                    ancestry |-> {b} \cup UNION {ins[i].step.unit.ancestry : i \in chosen},
                    runs |-> UNION {Left(i) : i \in chosen}]
           done == [s \in DOMAIN steps |->
                      IF s \in LastOf(b) /\ steps[s].state = "aggregating"
                      THEN [steps[s] EXCEPT !.state = "complete"] ELSE steps[s]]
           Ids(taken) == {[node |-> e.to, via |-> e.id, unit |-> unit] : e \in taken}
<1>1. chosen = Chosen(b) BY DEF Chosen, Going
<1>2. unit = SealedUnit(b)
  <2>1. \A i : Left(i) = Going(b, i) BY DEF Going
  <2> HIDE DEF chosen, Left
  <2>2. UNION {Left(i) : i \in chosen} = UNION {Going(b, i) : i \in Chosen(b)}
    BY <1>1, <2>1
  <2>3. QED BY <1>1, <2>2, Zenon DEF SealedUnit
<1>3. PICK outcome \in IF chosen = {} THEN {"empty"} ELSE {"sealed", "failed"} :
        LET taken == IF outcome = "sealed" THEN Out(b.node) ELSE {} IN
        /\ steps' = Activate(done, Ids(taken))
        /\ data' = data \cup UNION {{<<r, e.id, unit>> : r \in unit.runs} : e \in taken}
  BY Zenon DEF CloseBatch, LastOf
<1> DEFINE taken == IF outcome = "sealed" THEN Out(b.node) ELSE {}
<1>4. taken \in SUBSET Out(b.node) /\ (taken # {} => Chosen(b) # {} /\ taken = Out(b.node))
  <2>1. CASE chosen = {}
    <3>1. outcome = "empty" BY <1>3, <2>1
    <3>2. QED BY <3>1
  <2>2. CASE chosen # {} BY <1>1, <2>2
  <2>3. QED BY <2>1, <2>2
<1> HIDE DEF unit, chosen, taken
<1>5. /\ steps' = Activate(done, {Succ(e, SealedUnit(b)) : e \in taken})
      /\ data' = data \cup UNION {{<<r, e.id, SealedUnit(b)>> : r \in SealedUnit(b).runs}
                                  : e \in taken}
  BY <1>2, <1>3 DEF Succ, taken
<1>6. \A d : d \in data' <=>
        d \in data \/ \E e \in taken : \E r \in SealedUnit(b).runs :
                        d = <<r, e.id, SealedUnit(b)>>
  BY <1>5
<1>7. /\ DOMAIN done = DOMAIN steps
      /\ \A t \in DOMAIN steps :
           /\ done[t].runs = steps[t].runs /\ done[t].version = steps[t].version
           /\ IF t \in LastOf(b) /\ steps[t].state = "aggregating"
              THEN done[t].state = "complete" ELSE done[t] = steps[t]
  <2>1. \A t \in DOMAIN steps : steps[t] \in Steps BY DEF TypeOK
  <2>2. \A t \in DOMAIN steps :
          LET x == [steps[t] EXCEPT !.state = "complete"] IN
          x.runs = steps[t].runs /\ x.version = steps[t].version /\ x.state = "complete"
    BY <2>1 DEF Steps
  <2>3. QED BY <2>2
<1> HIDE DEF done
<1> DEFINE ids == {Succ(e, SealedUnit(b)) : e \in taken}
           A == Activate(done, ids)
<1>8. /\ DOMAIN A = DOMAIN done \cup ids
      /\ \A t \in DOMAIN done : A[t] = done[t]
      /\ \A t \in ids \ DOMAIN done : A[t] = NewStep(t)
  BY Activated, Zenon
<1>9. steps' = A BY <1>5
<1> HIDE DEF A, ids
<1>10. /\ DOMAIN steps' = DOMAIN steps \cup ids
       /\ \A t \in DOMAIN steps : steps'[t] = done[t]
       /\ \A t \in DOMAIN steps' \ DOMAIN steps : steps'[t] = NewStep(t)
  BY <1>7, <1>8, <1>9
<1>11. /\ closed' = closed \cup UNION {NoPath(steps[s].runs, b.node) : s \in LastOf(b)}
       /\ needsSync' = needsSync \cup RunsOf(batches[b].inputs)
       /\ UNCHANGED <<clock, revoked, expired, flights, used, decisions, sends, jobs>>
  BY DEF CloseBatch, LastOf, Flag, world
<1>12. /\ batches[b].state = "open"
       /\ DOMAIN batches' = DOMAIN batches
       /\ \A c \in DOMAIN batches \ {b} : batches'[c] = batches[c]
       /\ batches'[b].inputs = batches[b].inputs /\ batches'[b].state # "open"
  BY CloseBooks
<1>13. Seals(b, taken)
  BY <1>4, <1>6, <1>7, <1>10, <1>11, <1>12 DEF Seals, ids
<1>14. QED BY <1>13

\* The merges that can decide on a run of S.
Ripe(S) == Deciding([r \in S \ revoked |-> Closable(r)])

\* A synchronization of S: the runs Away[m] leave the merge m.
Syncs(S, Away) ==
  /\ Away \in [Merges -> SUBSET (S \ revoked)]
  /\ \A m \in Merges : \A r \in Away[m] : <<m, r>> \in Ripe(S) /\ Arrivals(r, m) # {}
  /\ DOMAIN decisions' = DOMAIN decisions \cup Ripe(S) \cup Withdrawn(S)
  /\ \A d \in DOMAIN decisions : decisions'[d] = decisions[d]
  /\ \A d \in Ripe(S) : decisions'[d].arrivals = Arrivals(d[2], d[1])
  /\ DOMAIN steps' = DOMAIN steps \cup {Succ(x[1], x[2]) : x \in LeavesNow(Away)}
  /\ \A t \in DOMAIN steps :
       \/ steps'[t] = steps[t]
       \/ /\ Type[t.node] = "merge" /\ steps[t].state \in {"pending", "leased", "joining"}
          /\ \A r \in steps[t].runs : <<t.node, r>> \in DOMAIN decisions'
          /\ steps'[t].state = "complete"
          /\ steps'[t].runs = steps[t].runs /\ steps'[t].version = steps[t].version
  /\ \A t \in DOMAIN steps' \ DOMAIN steps : steps'[t] = NewStep(t)
  /\ \A d : d \in data' <=>
       d \in data \/ \E x \in LeavesNow(Away) : \E r \in x[2].runs : d = <<r, x[1].id, x[2]>>
  /\ \A c : c \in closed' <=>
       c \in closed \/ \E r \in S \ revoked : \E id \in Closable(r) : c = <<r, id>>
  /\ \/ needsSync' = needsSync
     \/ /\ needsSync' = needsSync \ S
        /\ closed' = closed /\ Ripe(S) = {} /\ Withdrawn(S) = {}
        /\ \A t \in DOMAIN steps : steps'[t] = steps[t]
  /\ UNCHANGED <<clock, revoked, expired, flights, batches, used, sends, jobs>>

\* synchronize does that.
LEMMA SynchronizeSyncs ==
  ASSUME TypeOK, NEW S \in syncs, Synchronize(S)
  PROVE  \E Away : Syncs(S, Away)
<1> DEFINE closable == [r \in S \ revoked |-> Closable(r)]
           closing == UNION {{<<r, id>> : id \in closable[r]} : r \in S \ revoked}
           fresh == Ripe(S) \cup Withdrawn(S)
<1>1. S \in SUBSET Runs BY DEF TypeOK
<1>2. Ripe(S) \in SUBSET (Merges \X (S \ revoked)) BY DEF Deciding, Ripe
<1>3. PICK failed \in SUBSET {d \in Ripe(S) : Accepts(d[1], d[2])} :
        LET accepted == {d \in Ripe(S) : Accepts(d[1], d[2])} \ failed
            RunsAt(m) == {r \in S : <<m, r>> \in accepted}
            decided == [d \in DOMAIN decisions \cup fresh |->
                          IF d \in DOMAIN decisions THEN decisions[d]
                          ELSE [state |-> IF d \in accepted THEN "emitted" ELSE "excluded",
                                arrivals |-> IF d \in Ripe(S) THEN Arrivals(d[2], d[1])
                                             ELSE {}]]
            over == {s \in DOMAIN steps :
                       /\ Type[s.node] = "merge"
                       /\ steps[s].state \in {"pending", "leased", "joining"}
                       /\ \A r \in steps[s].runs : <<s.node, r>> \in DOMAIN decided}
            ended == [s \in DOMAIN steps |->
                        IF s \in over
                        THEN [steps[s] EXCEPT !.state = "complete", !.live = FALSE]
                        ELSE steps[s]]
            out == UNION {Out(m) \X Joined(m, RunsAt(m)) : m \in Merges}
        IN
        /\ decisions' = decided
        /\ closed' = closed \cup closing
        /\ steps' = Activate(ended, {[node |-> x[1].to, via |-> x[1].id, unit |-> x[2]]
                                     : x \in out})
        /\ data' = data \cup UNION {{<<r, x[1].id, x[2]>> : r \in x[2].runs} : x \in out}
        /\ needsSync' = IF closing \subseteq closed /\ fresh = {} /\ over = {}
                        THEN needsSync \ S ELSE needsSync
  BY ZenonT(60) DEF Synchronize, Ripe
<1> DEFINE accepted == {d \in Ripe(S) : Accepts(d[1], d[2])} \ failed
           Away == [m \in Merges |-> {r \in S : <<m, r>> \in accepted}]
           over == {s \in DOMAIN steps :
                       /\ Type[s.node] = "merge"
                       /\ steps[s].state \in {"pending", "leased", "joining"}
                       /\ \A r \in steps[s].runs : <<s.node, r>> \in DOMAIN decisions'}
           ended == [s \in DOMAIN steps |->
                       IF s \in over
                       THEN [steps[s] EXCEPT !.state = "complete", !.live = FALSE]
                       ELSE steps[s]]
           ids == {Succ(x[1], x[2]) : x \in LeavesNow(Away)}
<1>4. decisions' = [d \in DOMAIN decisions \cup fresh |->
                      IF d \in DOMAIN decisions THEN decisions[d]
                      ELSE [state |-> IF d \in accepted THEN "emitted" ELSE "excluded",
                            arrivals |-> IF d \in Ripe(S) THEN Arrivals(d[2], d[1]) ELSE {}]]
  BY <1>3
<1>5. UNION {Out(m) \X Joined(m, {r \in S : <<m, r>> \in accepted}) : m \in Merges}
        = LeavesNow(Away)
  BY DEF LeavesNow
<1>6. /\ steps' = Activate(ended, ids)
      /\ data' = data \cup UNION {{<<r, x[1].id, x[2]>> : r \in x[2].runs}
                                  : x \in LeavesNow(Away)}
      /\ closed' = closed \cup closing
      /\ needsSync' = IF closing \subseteq closed /\ fresh = {} /\ over = {}
                      THEN needsSync \ S ELSE needsSync
  BY <1>3, <1>5 DEF Succ
<1>7. Away \in [Merges -> SUBSET (S \ revoked)]
  <2>1. \A m : \A r : <<m, r>> \in accepted => r \in S \ revoked BY <1>2
  <2> HIDE DEF accepted
  <2>2. QED BY <2>1
<1>8. \A m \in Merges : \A r \in Away[m] : <<m, r>> \in Ripe(S) /\ Arrivals(r, m) # {}
  <2>1. \A m \in Merges : \A r \in Away[m] : <<m, r>> \in Ripe(S) /\ Accepts(m, r)
    OBVIOUS
  <2> HIDE DEF Away
  <2>2. QED BY <2>1 DEF Accepts
<1> HIDE DEF Away, accepted
<1>9. /\ DOMAIN decisions' = DOMAIN decisions \cup fresh
      /\ \A d \in DOMAIN decisions : decisions'[d] = decisions[d]
  BY <1>4
<1>10. \A d \in Ripe(S) : decisions'[d].arrivals = Arrivals(d[2], d[1])
  <2>1. TAKE d \in Ripe(S)
  <2>2. d \notin DOMAIN decisions
    BY DEF Ripe, Deciding, Decided
  <2>3. QED BY <1>4, <2>2
<1>11. /\ DOMAIN ended = DOMAIN steps
       /\ \A t \in DOMAIN steps \ over : ended[t] = steps[t]
       /\ \A t \in over : /\ ended[t].state = "complete" /\ ended[t].runs = steps[t].runs
                          /\ ended[t].version = steps[t].version
  <2>1. \A t \in DOMAIN steps : steps[t] \in Steps BY DEF TypeOK
  <2>2. \A t \in DOMAIN steps :
          LET x == [steps[t] EXCEPT !.state = "complete", !.live = FALSE] IN
          x.runs = steps[t].runs /\ x.version = steps[t].version /\ x.state = "complete"
    BY <2>1 DEF Steps
  <2>3. QED BY <2>2
<1> DEFINE A == Activate(ended, ids)
<1> HIDE DEF ended
<1>12. /\ DOMAIN A = DOMAIN ended \cup ids
       /\ \A t \in DOMAIN ended : A[t] = ended[t]
       /\ \A t \in ids \ DOMAIN ended : A[t] = NewStep(t)
  BY Activated, Zenon
<1>13. steps' = A BY <1>6
<1> HIDE DEF A, ids
<1>14. /\ DOMAIN steps' = DOMAIN steps \cup ids
       /\ \A t \in DOMAIN steps : steps'[t] = ended[t]
       /\ \A t \in DOMAIN steps' \ DOMAIN steps : steps'[t] = NewStep(t)
  BY <1>11, <1>12, <1>13
<1>15. \A t \in over :
         /\ Type[t.node] = "merge" /\ steps[t].state \in {"pending", "leased", "joining"}
         /\ \A r \in steps[t].runs : <<t.node, r>> \in DOMAIN decisions'
  OBVIOUS
<1> HIDE DEF over
<1>16. \A t \in DOMAIN steps :
         \/ steps'[t] = steps[t]
         \/ /\ Type[t.node] = "merge" /\ steps[t].state \in {"pending", "leased", "joining"}
            /\ \A r \in steps[t].runs : <<t.node, r>> \in DOMAIN decisions'
            /\ steps'[t].state = "complete"
            /\ steps'[t].runs = steps[t].runs /\ steps'[t].version = steps[t].version
  BY <1>11, <1>14, <1>15
<1>17. \A d : d \in data' <=>
         d \in data \/ \E x \in LeavesNow(Away) : \E r \in x[2].runs : d = <<r, x[1].id, x[2]>>
  BY <1>6
<1>18. \A c : c \in closed' <=>
         c \in closed \/ \E r \in S \ revoked : \E id \in Closable(r) : c = <<r, id>>
  <2>1. closing = UNION {{<<r, id>> : id \in Closable(r)} : r \in S \ revoked} OBVIOUS
  <2>2. QED BY <1>6, <2>1
<1>19. \/ needsSync' = needsSync
       \/ /\ needsSync' = needsSync \ S
          /\ closed' = closed /\ Ripe(S) = {} /\ Withdrawn(S) = {}
          /\ \A t \in DOMAIN steps : steps'[t] = steps[t]
  <2>1. CASE closing \subseteq closed /\ fresh = {} /\ over = {}
    <3>1. closed' = closed BY <1>6, <2>1
    <3>2. \A t \in DOMAIN steps : steps'[t] = steps[t] BY <1>11, <1>14, <2>1
    <3>3. QED BY <1>6, <2>1, <3>1, <3>2
  <2>2. CASE ~(closing \subseteq closed /\ fresh = {} /\ over = {}) BY <1>6, <2>2
  <2>3. QED BY <2>1, <2>2
<1>20. UNCHANGED <<clock, revoked, expired, flights, batches, used, sends, jobs>>
  BY DEF Synchronize, world
<1> HIDE DEF closing
<1>21. Syncs(S, Away)
  BY <1>7, <1>8, <1>9, <1>10, <1>14, <1>16, <1>17, <1>18, <1>19, <1>20 DEF Syncs, ids
<1>22. QED BY <1>21

\* A worker takes or loses a lease.
Leases(s) ==
  /\ s \in DOMAIN steps /\ DOMAIN steps' = DOMAIN steps
  /\ \A t \in DOMAIN steps \ {s} : steps'[t] = steps[t]
  /\ steps[s].state \in {"pending", "leased"} /\ steps'[s].state = "leased"
  /\ steps'[s].runs = steps[s].runs
  /\ UNCHANGED <<clock, revoked, expired, needsSync, data, closed, batches, used,
                 decisions, sends, jobs>>

\* Nothing happens to the tables of the executor.
Rests == UNCHANGED <<steps, data, closed, batches, used, decisions>>

\* How a run begins.
FirstUnit(r) == [origin |-> StartNode, path |-> {}, ancestry |-> {}, runs |-> {r}]
FirstStep(r) == [node |-> StartNode, via |-> NoEdge, unit |-> FirstUnit(r)]
Begins(r) ==
  /\ r \notin Started
  /\ DOMAIN steps' = DOMAIN steps \cup {FirstStep(r)}
  /\ \A t \in DOMAIN steps : steps'[t] = steps[t]
  /\ \A t \in DOMAIN steps' \ DOMAIN steps : steps'[t] = NewStep(t)
  /\ needsSync' = needsSync \cup {r}
  /\ UNCHANGED <<clock, revoked, expired, flights, data, closed, batches, used,
                 decisions, sends, jobs>>

\* A lease is taken with a new version, which no worker has yet.
LEMMA LeaseMoves ==
  ASSUME TypeOK, NEW s \in DOMAIN steps, Claim(s) \/ LeaseEnds(s)
  PROVE  /\ Leases(s)
         /\ \/ /\ Claim(s) /\ steps'[s].version = steps[s].version + 1
               /\ flights' = flights \cup {[step |-> s, version |-> steps'[s].version,
                                            runs |-> steps[s].runs \ revoked, at |-> clock]}
            \/ /\ steps[s].state = "leased" /\ steps'[s].version = steps[s].version
               /\ flights' = flights
<1>1. steps[s] \in Steps BY DEF TypeOK
<1>2. CASE Claim(s)
  <2>1. steps' = [steps EXCEPT ![s].state = "leased", ![s].live = TRUE,
                               ![s].version = @ + 1]
    BY <1>2 DEF Claim
  <2>2. steps'[s] = [steps[s] EXCEPT !.state = "leased", !.live = TRUE,
                                     !.version = steps[s].version + 1]
    BY <2>1
  <2>3. steps[s].version + 1 \in Nat BY <1>1 DEF Steps
  <2>4. /\ steps'[s].state = "leased" /\ steps'[s].runs = steps[s].runs
        /\ steps'[s].version = steps[s].version + 1
    BY <1>1, <2>2, <2>3 DEF Steps
  <2>5. DOMAIN steps' = DOMAIN steps /\ \A t \in DOMAIN steps \ {s} : steps'[t] = steps[t]
    BY <2>1
  <2>6. steps[s].state \in {"pending", "leased"} BY <1>2 DEF Claim, Claimable
  <2>7. UNCHANGED <<clock, revoked, expired, needsSync, data, closed, batches, used,
                    decisions, sends, jobs>>
    BY <1>2 DEF Claim, world
  <2>8. flights' = flights \cup {[step |-> s, version |-> steps'[s].version,
                                  runs |-> steps[s].runs \ revoked, at |-> clock]}
    BY <1>2, <2>4 DEF Claim
  <2>9. QED BY <1>2, <2>4, <2>5, <2>6, <2>7, <2>8 DEF Leases
<1>3. CASE LeaseEnds(s)
  <2>1. steps' = [steps EXCEPT ![s].live = FALSE] /\ steps[s].state = "leased"
    BY <1>3 DEF LeaseEnds
  <2>2. steps'[s] = [steps[s] EXCEPT !.live = FALSE] BY <2>1
  <2>3. /\ steps'[s].state = steps[s].state /\ steps'[s].runs = steps[s].runs
        /\ steps'[s].version = steps[s].version
    BY <1>1, <2>2 DEF Steps
  <2>4. DOMAIN steps' = DOMAIN steps /\ \A t \in DOMAIN steps \ {s} : steps'[t] = steps[t]
    BY <2>1
  <2>5. UNCHANGED <<clock, revoked, expired, needsSync, data, closed, batches, used,
                    decisions, sends, jobs, flights>>
    BY <1>3 DEF LeaseEnds, world
  <2>6. QED BY <2>1, <2>3, <2>4, <2>5 DEF Leases
<1>4. QED BY <1>2, <1>3

\* The first activation of a run.
LEMMA StartBegins ==
  ASSUME NEW r \in Runs, StartRun(r)
  PROVE  Begins(r)
<1>1. steps' = Activate(steps, {FirstStep(r)}) BY DEF StartRun, FirstStep, FirstUnit
<1>2. /\ DOMAIN steps' = DOMAIN steps \cup {FirstStep(r)}
      /\ \A t \in DOMAIN steps : steps'[t] = steps[t]
      /\ \A t \in {FirstStep(r)} \ DOMAIN steps : steps'[t] = NewStep(t)
  BY <1>1, Activated, Zenon
<1>3. /\ r \notin Started /\ needsSync' = needsSync \cup {r}
      /\ UNCHANGED <<clock, revoked, expired, flights, data, closed, batches, used,
                     decisions, sends, jobs>>
  BY DEF StartRun, Flag, world
<1>4. QED BY <1>2, <1>3 DEF Begins

\* Every step of the executor is one of these.
LEMMA NextMoves ==
  ASSUME TypeOK, [Next]_vars
  PROVE  \/ \E r \in Runs : Begins(r)
         \/ \E s \in DOMAIN steps : (Claim(s) \/ LeaseEnds(s)) /\ Leases(s)
         \/ \E f \in flights : Conclude(f)
         \/ \E b \in DOMAIN batches : \E taken : Seals(b, taken)
         \/ \E S \in syncs : \E Away : Syncs(S, Away)
         \/ /\ Rests /\ UNCHANGED flights
            /\ \/ /\ \E r \in Runs : Revoke(r)
                  /\ UNCHANGED <<expired, sends, jobs>>
               \/ /\ \E r \in Runs : Expire(r)
                  /\ UNCHANGED <<revoked, needsSync, sends, jobs>>
               \/ /\ \E s \in DOMAIN sends : Project(s)
                  /\ UNCHANGED <<revoked, expired, needsSync>>
               \/ UNCHANGED <<revoked, expired, needsSync, sends, jobs>>
<1>1. CASE \E r \in Runs : StartRun(r) BY <1>1, StartBegins
<1>2. CASE \E s \in DOMAIN steps : Claim(s) \/ LeaseEnds(s) BY <1>2, LeaseMoves
<1>3. CASE \E b \in DOMAIN batches : CloseBatch(b) BY <1>3, CloseSeals
<1>4. CASE \E S \in syncs : Synchronize(S) BY <1>4, SynchronizeSyncs
<1>5. CASE \E r \in Runs : Revoke(r) BY <1>5 DEF Revoke, Rests
<1>6. CASE \E r \in Runs : Expire(r) BY <1>6 DEF Expire, Rests
<1>7. CASE \E s \in DOMAIN sends : Project(s) BY <1>7 DEF Project, Rests, world
<1>8. CASE Resync BY <1>8 DEF Resync, Rests, world
<1>9. CASE \E S \in syncs : Skip(S) BY <1>9 DEF Skip, Rests, world
<1>10. CASE Tick BY <1>10 DEF Tick, Rests
<1>11. CASE UNCHANGED vars BY <1>11 DEF vars, Rests, world
<1>12. CASE \E f \in flights : Conclude(f) BY <1>12
<1>13. QED
  BY <1>1, <1>2, <1>3, <1>4, <1>5, <1>6, <1>7, <1>8, <1>9, <1>10, <1>11, <1>12 DEF Next

\* What no step does to an activation: its members never become more, its
\* version never goes back, a lease of the same version is the same lease, and
\* what is over or in a batch keeps its members.
Evolves(t) ==
  /\ t \in DOMAIN steps'
  /\ steps'[t].runs \subseteq steps[t].runs
  /\ steps[t].version <= steps'[t].version
  /\ steps'[t].state = "leased" /\ steps'[t].version = steps[t].version =>
       steps[t].state = "leased" /\ steps'[t].runs = steps[t].runs
  /\ steps[t].state \in Terminal => steps'[t] = steps[t]
  /\ steps[t].state = "aggregating" =>
       steps'[t].state \in {"aggregating", "complete"} /\ steps'[t].runs = steps[t].runs

\* No operation takes activations away, ends a settled one anew or adds members to
\* one, and what it adds is new.
LEMMA StepsEvolve ==
  ASSUME TypeOK, SegmentsNumbered, [Next]_vars
  PROVE  /\ \A t \in DOMAIN steps : Evolves(t)
         /\ \A t \in DOMAIN steps' \ DOMAIN steps : steps'[t] = NewStep(t)
         /\ revoked \subseteq revoked' /\ expired \subseteq expired'
<1> DEFINE Goal == /\ \A t \in DOMAIN steps : Evolves(t)
                   /\ \A t \in DOMAIN steps' \ DOMAIN steps : steps'[t] = NewStep(t)
                   /\ revoked \subseteq revoked' /\ expired \subseteq expired'
<1>1. \A t \in DOMAIN steps : steps[t] \in Steps BY DEF TypeOK
<1>2. \A t \in DOMAIN steps : steps[t].version \in Nat /\ steps[t].version <= steps[t].version
  BY <1>1 DEF Steps
<1>3. ASSUME NEW t \in DOMAIN steps, t \in DOMAIN steps', steps'[t] = steps[t]
      PROVE  Evolves(t)
  BY <1>2, <1>3 DEF Evolves, Terminal
<1>4. ASSUME NEW r \in Runs, Begins(r) PROVE Goal
  BY <1>3, <1>4 DEF Begins
<1>5. ASSUME NEW s \in DOMAIN steps, Claim(s) \/ LeaseEnds(s) PROVE Goal
  <2>1. Leases(s) BY <1>5, LeaseMoves
  <2>2. \A t \in DOMAIN steps \ {s} : Evolves(t) BY <1>3, <2>1 DEF Leases
  <2>3. \/ steps'[s].version = steps[s].version + 1
        \/ steps[s].state = "leased" /\ steps'[s].version = steps[s].version
    BY <1>5, LeaseMoves
  <2>4. Evolves(s) BY <1>2, <2>1, <2>3 DEF Evolves, Leases, Terminal
  <2>5. QED BY <2>1, <2>2, <2>4 DEF Leases
<1>6. ASSUME NEW f \in flights, Conclude(f) PROVE Goal
  <2> DEFINE s == f.step
  <2>1. revoked' = revoked /\ expired' = expired BY <1>6, ConcludeMoves
  <2>2. CASE Idles BY <1>3, <2>1, <2>2 DEF Idles
  <2>3. ASSUME NEW ids, Turns(s, ids), Owned(f),
               steps'[s].state \in Over \cup {"aggregating"},
               steps'[s].runs \subseteq steps[s].runs
        PROVE  Goal
    <3>1. steps[s].state = "leased" /\ s \in DOMAIN steps BY <2>3 DEF Owned, Turns
    <3>2. Evolves(s) BY <1>2, <2>3, <3>1 DEF Evolves, Turns, Terminal, Over
    <3>3. \A t \in DOMAIN steps \ {s} : Evolves(t) BY <1>3, <2>3 DEF Turns
    <3>4. \A t \in DOMAIN steps' \ DOMAIN steps : steps'[t] = NewStep(t)
      BY <2>3 DEF Turns
    <3>5. QED BY <2>1, <3>2, <3>3, <3>4
  <2>4. CASE \E sent : Leaves(f, sent) BY <2>3, <2>4 DEF Leaves, Over
  <2>5. CASE \E K : Splits(f, K) BY <2>3, <2>5 DEF Splits, Over
  <2>6. CASE Stays(f) BY <2>3, <2>6 DEF Stays
  <2>7. CASE \E K, into : Admits(f, K, into) BY <2>3, <2>7 DEF Admits
  <2>8. QED BY <1>6, <2>2, <2>4, <2>5, <2>6, <2>7, ConcludeMoves
<1>7. ASSUME NEW b \in DOMAIN batches, NEW taken, Seals(b, taken) PROVE Goal
  <2>1. ASSUME NEW t \in DOMAIN steps PROVE Evolves(t)
    <3>1. CASE steps'[t] = steps[t] BY <1>3, <1>7, <3>1 DEF Seals
    <3>2. CASE steps[t].state = "aggregating" /\ steps'[t].state = "complete"
      BY <1>2, <1>7, <3>2 DEF Seals, Evolves, Terminal
    <3>3. QED BY <1>7, <3>1, <3>2 DEF Seals
  <2>2. QED BY <1>7, <2>1 DEF Seals
<1>8. ASSUME NEW S \in syncs, NEW Away, Syncs(S, Away) PROVE Goal
  <2>1. ASSUME NEW t \in DOMAIN steps PROVE Evolves(t)
    <3>1. CASE steps'[t] = steps[t] BY <1>3, <1>8, <3>1 DEF Syncs
    <3>2. CASE /\ steps[t].state \in {"pending", "leased", "joining"}
               /\ steps'[t].state = "complete" /\ steps'[t].runs = steps[t].runs
               /\ steps'[t].version = steps[t].version
      BY <1>2, <1>8, <3>2 DEF Syncs, Evolves, Terminal
    <3>3. QED BY <1>8, <3>1, <3>2 DEF Syncs
  <2>2. QED BY <1>8, <2>1 DEF Syncs
<1>9. CASE Rests
  <2>1. \A t \in DOMAIN steps : Evolves(t) BY <1>3, <1>9 DEF Rests
  <2>2. revoked \subseteq revoked' /\ expired \subseteq expired'
    BY DEF Next, vars, world, StartRun, Revoke, Expire, Claim, LeaseEnds, Conclude,
           Settle, SettleRevoked, Wait, Partition, Gate, Admit, Park, RecordSend,
           FailStep, Late, Abandon, CloseBatch, Resync, Synchronize, Skip, Project, Tick
  <2>3. QED BY <1>9, <2>1, <2>2 DEF Rests
<1>10. QED BY <1>4, <1>5, <1>6, <1>7, <1>8, <1>9, NextMoves

-----------------------------------------------------------------------------
(* Who is a member of what.                                                *)

\* A continuation, an evaluation and an input never have members that their
\* unit did not have; an evaluation that still owns its step knows exactly the
\* members that were not withdrawn before it began.
StepMembers == \A s \in DOMAIN steps : steps[s].runs \subseteq s.unit.runs
FlightMembers ==
  \A f \in flights :
    /\ f.version <= steps[f.step].version
    /\ f.runs \subseteq f.step.unit.runs
    /\ steps[f.step].runs \ revoked \subseteq f.runs
    /\ Owned(f) => f.runs \subseteq steps[f.step].runs
InputMembers ==
  \A b \in DOMAIN batches : \A i \in DOMAIN batches[b].inputs :
    /\ batches[b].inputs[i].step.node = b.node
    /\ batches[b].inputs[i].runs \subseteq steps[batches[b].inputs[i].step].runs
Members == StepMembers /\ FlightMembers /\ InputMembers

\* Members are never added to an activation.
LEMMA StepMembersStep ==
  ASSUME TypeOK, SegmentsNumbered, StepMembers, [Next]_vars
  PROVE  StepMembers'
<1>1. \A t \in DOMAIN steps : Evolves(t) BY StepsEvolve
<1>2. \A t \in DOMAIN steps' \ DOMAIN steps : steps'[t] = NewStep(t) BY StepsEvolve
<1>3. \A t : NewStep(t).runs = t.unit.runs BY DEF NewStep
<1>4. QED BY <1>1, <1>2, <1>3 DEF StepMembers, Evolves

\* A worker that owns its lease evaluates members of its activation.
LEMMA FlightMembersStep ==
  ASSUME TypeOK, SegmentsNumbered, StepMembers, FlightMembers, [Next]_vars
  PROVE  FlightMembers'
<1>1. \A t \in DOMAIN steps : Evolves(t) BY StepsEvolve
<1>2. revoked \subseteq revoked' BY StepsEvolve
<1>3. ASSUME NEW f \in flights
      PROVE  /\ f.version <= steps'[f.step].version
             /\ f.runs \subseteq f.step.unit.runs
             /\ steps'[f.step].runs \ revoked' \subseteq f.runs
             /\ Owned(f)' => f.runs \subseteq steps'[f.step].runs
  <2>1. f.step \in DOMAIN steps /\ Evolves(f.step) BY <1>1, FlightFields
  <2>2. f \in Flights /\ steps[f.step] \in Steps BY <2>1 DEF TypeOK
  <2>3. f.version \in Nat /\ steps[f.step].version \in Nat BY <2>2 DEF Flights, Steps
  <2>4. /\ f.version <= steps[f.step].version /\ f.runs \subseteq f.step.unit.runs
        /\ steps[f.step].runs \ revoked \subseteq f.runs
        /\ Owned(f) => f.runs \subseteq steps[f.step].runs
    BY DEF FlightMembers
  <2>5. steps'[f.step].version \in Nat
    <3>1. IsTable(steps') BY StepsGrow DEF TableGrows
    <3>2. steps'[f.step] \in Steps BY <2>1, <3>1 DEF IsTable, Evolves
    <3>3. QED BY <3>2 DEF Steps
  <2>6. f.version <= steps'[f.step].version BY <2>1, <2>3, <2>4, <2>5 DEF Evolves
  <2>7. Owned(f)' => Owned(f) /\ steps'[f.step].runs = steps[f.step].runs
    <3>1. SUFFICES ASSUME Owned(f)' PROVE Owned(f) /\ steps'[f.step].runs = steps[f.step].runs
      OBVIOUS
    <3>2. steps'[f.step].state = "leased" /\ steps'[f.step].version = f.version
      BY <3>1 DEF Owned
    <3>3. steps[f.step].version = f.version
      BY <2>1, <2>3, <2>4, <2>5, <3>2 DEF Evolves
    <3>4. QED BY <2>1, <3>2, <3>3 DEF Evolves, Owned
  <2>8. QED BY <1>2, <2>1, <2>4, <2>6, <2>7 DEF Evolves
<1>4. CASE flights' \subseteq flights BY <1>3, <1>4 DEF FlightMembers
<1>5. ASSUME NEW s \in DOMAIN steps, Claim(s) PROVE FlightMembers'
  <2> DEFINE g == [step |-> s, version |-> steps'[s].version,
                   runs |-> steps[s].runs \ revoked, at |-> clock]
  <2>1. steps'[s].runs = steps[s].runs /\ revoked' = revoked
    BY <1>5, LeaseMoves DEF Leases
  <2>2. flights' \subseteq flights \cup {g} BY <1>5, LeaseMoves
  <2>3. steps'[s].version \in Nat
    <3>1. IsTable(steps') BY StepsGrow DEF TableGrows
    <3>2. steps'[s] \in Steps BY <1>1, <3>1 DEF IsTable, Evolves
    <3>3. QED BY <3>2 DEF Steps
  <2>4. /\ g.step = s /\ g.version <= steps'[s].version
        /\ g.runs \subseteq s.unit.runs
        /\ steps'[s].runs \ revoked' \subseteq g.runs
        /\ g.runs \subseteq steps'[s].runs
    BY <2>1, <2>3 DEF StepMembers
  <2> HIDE DEF g
  <2>5. QED BY <1>3, <2>2, <2>4 DEF FlightMembers
<1>6. CASE \E s \in DOMAIN steps : LeaseEnds(s) BY <1>4, <1>6 DEF LeaseEnds
<1>7. CASE \E f \in flights : Conclude(f) BY <1>4, <1>7, ConcludeMoves
<1>8. QED BY <1>4, <1>5, <1>6, <1>7, NextMoves DEF Begins, Seals, Syncs

\* An input holds members of its activation.
LEMMA InputMembersStep ==
  ASSUME TypeOK, SegmentsNumbered, InputsHeld, InputMembers, [Next]_vars
  PROVE  InputMembers'
<1>1. \A t \in DOMAIN steps : Evolves(t) BY StepsEvolve
<1>2. ASSUME NEW b \in DOMAIN batches, NEW i \in DOMAIN batches[b].inputs
      PROVE  /\ batches[b].inputs[i].step.node = b.node
             /\ batches[b].inputs[i].runs \subseteq steps'[batches[b].inputs[i].step].runs
  <2> DEFINE t == batches[b].inputs[i].step
  <2>1. t \in DOMAIN steps /\ steps[t].state \in {"aggregating", "complete"}
    BY DEF InputsHeld
  <2>2. steps'[t].runs = steps[t].runs BY <1>1, <2>1 DEF Evolves, Terminal
  <2>3. QED BY <2>2 DEF InputMembers
<1>3. CASE UNCHANGED batches BY <1>2, <1>3 DEF InputMembers
<1>4. ASSUME NEW b \in DOMAIN batches, CloseBatch(b) PROVE InputMembers'
  <2>1. /\ DOMAIN batches' = DOMAIN batches
        /\ \A c \in DOMAIN batches : batches'[c].inputs = batches[c].inputs
    BY <1>4, CloseBooks
  <2>2. QED BY <1>2, <2>1 DEF InputMembers
<1>5. ASSUME NEW f \in flights, Admit(f) PROVE InputMembers'
  <2>1. PICK K, into : Admits(f, K, into) BY <1>5, AdmitAdmits
  <2>2. K \subseteq steps'[f.step].runs BY <2>1 DEF Admits, Eligible
  <2>3. SUFFICES ASSUME NEW b \in DOMAIN batches', NEW i \in DOMAIN batches'[b].inputs
                 PROVE  /\ batches'[b].inputs[i].step.node = b.node
                        /\ batches'[b].inputs[i].runs
                             \subseteq steps'[batches'[b].inputs[i].step].runs
    BY DEF InputMembers
  <2>4. CASE b \in DOMAIN batches /\ i \in DOMAIN batches[b].inputs
    <3>1. batches'[b].inputs[i] = batches[b].inputs[i] BY <2>1, <2>4 DEF Admits, Takes
    <3>2. QED BY <1>2, <2>4, <3>1
  <2>5. CASE ~(b \in DOMAIN batches /\ i \in DOMAIN batches[b].inputs)
    <3>1. b \in into
      <4>1. b \notin into => b \in DOMAIN batches /\ batches'[b] = batches[b]
        BY <2>1 DEF Admits, Takes
      <4>2. QED BY <2>5, <4>1
    <3>2. batches'[b].inputs[i] = Entry(f.step, K, b) BY <2>1, <2>5, <3>1 DEF Admits, Takes
    <3>3. b.node = f.step.node BY <2>1, <3>1 DEF Admits, Takes
    <3>4. QED BY <2>2, <3>2, <3>3 DEF Entry
  <2>6. QED BY <2>4, <2>5
<1>6. QED BY <1>3, <1>4, <1>5, BatchMoves

\* A function on the subsets of a set that takes larger sets to larger ones has
\* a fixed point: the recursive definitions over the graph have one.
LEMMA FixedPoint ==
  ASSUME NEW S, NEW F \in [SUBSET S -> SUBSET S],
         \A A, B \in SUBSET S : A \subseteq B => F[A] \subseteq F[B]
  PROVE  \E L \in SUBSET S : F[L] = L
<1> DEFINE L == {x \in S : \A B \in SUBSET S : F[B] \subseteq B => x \in B}
<1>1. L \in SUBSET S OBVIOUS
<1>2. F[L] \in SUBSET S BY <1>1
<1>3. \A B \in SUBSET S : F[B] \subseteq B => L \subseteq B OBVIOUS
<1> HIDE DEF L
<1>4. \A B \in SUBSET S : F[B] \subseteq B => F[L] \subseteq B
  <2>1. TAKE B \in SUBSET S
  <2>2. HAVE F[B] \subseteq B
  <2>3. F[L] \subseteq F[B] BY <1>1, <1>3, <2>2
  <2>4. QED BY <2>2, <2>3
<1>5. F[L] \subseteq L BY <1>2, <1>4 DEF L
<1>6. F[F[L]] \subseteq F[L] BY <1>1, <1>2, <1>5
<1>7. L \subseteq F[L] BY <1>2, <1>3, <1>6
<1>8. QED BY <1>1, <1>5, <1>7

\* The nodes that have nothing left to send for a run satisfy the equation that
\* defines them.
Closes(r, f) ==
  f = [n \in Nodes |-> /\ \A e \in In(n) : (<<r, e.id>> \in closed \/ f[e.from])
                       /\ Exhausted(r, n)]

\* So the closure that propagateClosures computes exists, for any graph without a
\* cycle.
LEMMA ClosesExists == \A r : \E f : Closes(r, f)
<1> SUFFICES ASSUME NEW r PROVE \E f : Closes(r, f)
  OBVIOUS
<1> DEFINE Body(B) == {n \in Nodes : /\ \A e \in In(n) : <<r, e.id>> \in closed \/ e.from \in B
                                     /\ Exhausted(r, n)}
           F == [B \in SUBSET Nodes |-> Body(B)]
<1>1. F \in [SUBSET Nodes -> SUBSET Nodes] OBVIOUS
<1>2. \A A, B \in SUBSET Nodes : A \subseteq B => F[A] \subseteq F[B] OBVIOUS
<1>3. PICK L \in SUBSET Nodes : F[L] = L 
  <2> HIDE DEF F
  <2> QED BY <1>1, <1>2, FixedPoint
<1>4. L = Body(L) BY <1>3
<1> HIDE DEF F
<1> DEFINE f == [n \in Nodes |-> n \in L]
           g == [n \in Nodes |-> /\ \A e \in In(n) : (<<r, e.id>> \in closed \/ f[e.from])
                                 /\ Exhausted(r, n)]
<1>5. \A n \in Nodes : \A e \in In(n) : e.from \in Nodes BY GraphAssumption DEF In
<1>6. \A n \in Nodes : g[n] = f[n]
  <2>1. TAKE n \in Nodes
  <2>2. \A e \in In(n) : f[e.from] <=> e.from \in L BY <1>5
  <2>3. f[n] <=> n \in L OBVIOUS
  <2>4. n \in L <=> /\ \A e \in In(n) : <<r, e.id>> \in closed \/ e.from \in L
                    /\ Exhausted(r, n)
    BY <1>4
  <2>5. g[n] <=> /\ \A e \in In(n) : (<<r, e.id>> \in closed \/ f[e.from])
                 /\ Exhausted(r, n)
    OBVIOUS
  <2>6. f[n] \in BOOLEAN /\ g[n] \in BOOLEAN OBVIOUS
  <2> HIDE DEF f, g
  <2>7. QED BY <2>2, <2>3, <2>4, <2>5, <2>6
<1>7. f = g BY <1>6
<1>8. Closes(r, f) BY <1>7 DEF Closes
<1>9. QED BY <1>8

\* And it is the one the model uses.
LEMMA ClosedNowIs ==
  \A r : \E f : Closes(r, f)
     /\ ClosedNow(r) = {e.id : e \in {g \in Edges : <<r, g.id>> \in closed \/ f[g.from]}}
<1> SUFFICES ASSUME NEW r PROVE \E f : Closes(r, f)
     /\ ClosedNow(r) = {e.id : e \in {g \in Edges : <<r, g.id>> \in closed \/ f[g.from]}}
  OBVIOUS
<1> DEFINE f == CHOOSE h : Closes(r, h)
<1>1. Closes(r, f) BY ClosesExists
<1>2. ClosedNow(r) = {e.id : e \in {g \in Edges : <<r, g.id>> \in closed \/ f[g.from]}}
  BY DEF ClosedNow, Closes
<1>3. QED BY <1>1, <1>2

\* A set of numbers has a least one.
LEMMA LeastNumber ==
  ASSUME NEW T \in SUBSET Nat, T # {}
  PROVE  \E x \in T : \A y \in T : x <= y
<1>1. IsWellFoundedOn(OpToRel(<, Nat), Nat) BY NatLessThanWellFounded
<1>2. PICK x \in T : \A y \in T : ~(<<y, x>> \in OpToRel(<, Nat))
  BY <1>1, WFMin
<1>3. \A y \in T : ~(y < x) BY <1>2 DEF OpToRel
<1>4. QED BY <1>3

\* Some node of a set of nodes has no predecessor in it.
LEMMA FirstNode ==
  ASSUME NEW B \in SUBSET Nodes, B # {}
  PROVE  \E n \in B : \A e \in In(n) : e.from \notin B
<1>1. PICK rank \in [Nodes -> 0..Cardinality(Nodes)] :
        \A e \in Edges : rank[e.from] < rank[e.to]
  BY PlanAssumption
<1>2. Cardinality(Nodes) \in Nat BY GraphAssumption, FS_CardinalityType
<1>3. \A n \in Nodes : rank[n] \in Nat BY <1>1, <1>2
<1> DEFINE T == {rank[n] : n \in B}
<1>4. T \in SUBSET Nat /\ T # {} BY <1>3
<1>5. PICK x \in T : \A y \in T : x <= y
  <2> HIDE DEF T
  <2>1. QED BY <1>4, LeastNumber
<1>6. PICK n \in B : x = rank[n] OBVIOUS
<1>7. \A e \in In(n) : e.from \notin B
  <2>1. TAKE e \in In(n)
  <2>2. e \in Edges /\ e.to = n /\ e.from \in Nodes BY GraphAssumption DEF In
  <2>3. rank[e.from] < rank[n] BY <1>1, <2>2
  <2>4. SUFFICES ASSUME e.from \in B PROVE FALSE
    OBVIOUS
  <2>5. rank[n] <= rank[e.from] BY <1>5, <1>6, <2>4
  <2>6. QED BY <1>3, <2>2, <2>3, <2>5
<1>8. QED BY <1>7

-----------------------------------------------------------------------------
(* A run is calm when no edge of it is left to close and no merge to decide. *)

Shut(r, n) == \A e \in In(n) : <<r, e.id>> \in closed
LocalCalm(r) ==
  \A n \in Nodes : Shut(r, n) /\ Exhausted(r, n) => \A e \in Out(n) : <<r, e.id>> \in closed
CalmOf(r) ==
  IF r \in revoked THEN \A m \in Merges : Decided(m, r)
  ELSE /\ Present(r) => LocalCalm(r)
       /\ \A m \in Merges : Shut(r, m) => Decided(m, r)

\* What the closure of a calm run adds is closed already, and the other way round.
LEMMA CalmCloses == \A r : LocalCalm(r) <=> \A id \in ClosedNow(r) : <<r, id>> \in closed
<1> SUFFICES ASSUME NEW r
             PROVE  LocalCalm(r) <=> \A id \in ClosedNow(r) : <<r, id>> \in closed
  OBVIOUS
<1>1. PICK f : /\ Closes(r, f)
               /\ ClosedNow(r) = {e.id : e \in {g \in Edges : <<r, g.id>> \in closed \/ f[g.from]}}
  BY ClosedNowIs
<1>2. \A n \in Nodes : f[n] <=> /\ \A e \in In(n) : (<<r, e.id>> \in closed \/ f[e.from])
                                /\ Exhausted(r, n)
  BY <1>1 DEF Closes
<1>3. \A n \in Nodes : \A e \in In(n) : e \in Edges /\ e \in Out(e.from) /\ e.from \in Nodes
  BY GraphAssumption DEF In, Out
<1>4. ASSUME \A id \in ClosedNow(r) : <<r, id>> \in closed PROVE LocalCalm(r)
  <2>1. SUFFICES ASSUME NEW n \in Nodes, Shut(r, n), Exhausted(r, n), NEW e \in Out(n)
                 PROVE  <<r, e.id>> \in closed
    BY DEF LocalCalm
  <2>2. f[n] BY <1>2, <2>1 DEF Shut
  <2>3. e \in Edges /\ e.from = n BY EdgeFacts
  <2>4. e.id \in ClosedNow(r) BY <1>1, <2>2, <2>3
  <2>5. QED BY <1>4, <2>4
<1>5. ASSUME LocalCalm(r), NEW id \in ClosedNow(r) PROVE <<r, id>> \in closed
  <2> DEFINE B == {n \in Nodes : f[n] /\ \E e \in Out(n) : <<r, e.id>> \notin closed}
  <2>1. B = {}
    <3>1. SUFFICES ASSUME B # {} PROVE FALSE
      OBVIOUS
    <3>2. PICK n \in B : \A e \in In(n) : e.from \notin B
      <4> HIDE DEF B
      <4>1. B \in SUBSET Nodes BY DEF B
      <4>2. QED BY <3>1, <4>1, FirstNode
    <3>3. \A e \in In(n) : <<r, e.id>> \in closed BY <1>2, <1>3, <3>2
    <3>4. Exhausted(r, n) BY <1>2
    <3>5. QED BY <1>5, <3>2, <3>3, <3>4 DEF LocalCalm, Shut
  <2>2. PICK g \in Edges : id = g.id /\ (<<r, g.id>> \in closed \/ f[g.from]) BY <1>1
  <2>3. g \in Out(g.from) /\ g.from \in Nodes BY GraphAssumption DEF Out
  <2>4. QED BY <2>1, <2>2, <2>3
<1>6. QED BY <1>4, <1>5

\* The closure keeps what is closed.
LEMMA ClosableKeeps ==
  /\ \A r : \A e \in Edges : <<r, e.id>> \in closed => e.id \in Closable(r)
  /\ \A r : ~Present(r) => \A id \in Closable(r) : <<r, id>> \in closed
  /\ \A r : Closable(r) \subseteq EdgeIds
<1>1. \A r : \A e \in Edges : <<r, e.id>> \in closed => e.id \in ClosedNow(r)
  <2>1. TAKE r
  <2>2. PICK f : ClosedNow(r) = {e.id : e \in {g \in Edges : <<r, g.id>> \in closed \/ f[g.from]}}
    BY ClosedNowIs
  <2>3. QED BY <2>2
<1>2. \A r : Closable(r) \subseteq EdgeIds BY DEF Closable, ClosedNow, EdgeIds
<1>3. \A r : \A e \in Edges : <<r, e.id>> \in closed => e.id \in Closable(r)
  BY <1>1 DEF Closable
<1>4. \A r : ~Present(r) => \A id \in Closable(r) : <<r, id>> \in closed
  BY DEF Closable
<1>5. QED BY <1>2, <1>3, <1>4

\* Which merges can decide on a run.
LEMMA RipeIs ==
  ASSUME NEW S, NEW m, NEW r
  PROVE  <<m, r>> \in Ripe(S) <=>
           /\ m \in Merges /\ r \in S \ revoked /\ ~Decided(m, r)
           /\ \A e \in In(m) : e.id \in Closable(r)
BY DEF Ripe, Deciding

\* A calm run is synchronized, and the other way round.
LEMMA CalmIs ==
  ASSUME NEW r
  PROVE  CalmOf(r) <=>
           IF r \in revoked THEN Withdrawn({r}) = {}
           ELSE /\ \A id \in Closable(r) : <<r, id>> \in closed
                /\ \A m \in Merges : (\A e \in In(m) : e.id \in Closable(r)) => Decided(m, r)
<1>1. CASE r \in revoked
  <2>1. Withdrawn({r}) = {d \in Merges \X {r} : ~Decided(d[1], d[2])}
    BY <1>1 DEF Withdrawn
  <2>2. ASSUME \A m \in Merges : Decided(m, r), NEW d \in Withdrawn({r}) PROVE FALSE
    <3>1. d[1] \in Merges /\ d[2] = r /\ ~Decided(d[1], d[2]) BY <2>1, <2>2
    <3>2. QED BY <2>2, <3>1
  <2>3. ASSUME Withdrawn({r}) = {}, NEW m \in Merges PROVE Decided(m, r)
    <3>1. SUFFICES ASSUME ~Decided(m, r) PROVE FALSE
      OBVIOUS
    <3>2. <<m, r>> \in Merges \X {r} OBVIOUS
    <3>3. <<m, r>> \in Withdrawn({r}) BY <2>1, <3>1, <3>2
    <3>4. QED BY <2>3, <3>3
  <2>4. QED BY <1>1, <2>2, <2>3 DEF CalmOf
<1>2. CASE r \notin revoked
  <2>1. (Present(r) => LocalCalm(r)) <=> \A id \in Closable(r) : <<r, id>> \in closed
    BY CalmCloses, ClosableKeeps DEF Closable
  <2>2. ASSUME \A id \in Closable(r) : <<r, id>> \in closed, NEW m \in Merges
        PROVE  (\A e \in In(m) : e.id \in Closable(r)) <=> Shut(r, m)
    <3>1. \A e \in In(m) : e \in Edges BY DEF In
    <3>2. QED BY <2>2, <3>1, ClosableKeeps DEF Shut
  <2>3. QED BY <1>2, <2>1, <2>2 DEF CalmOf
<1>3. QED BY <1>1, <1>2

-----------------------------------------------------------------------------
(* Where an activation comes from.                                         *)

\* An edge led to the node with a unit that holds the runs of the activation,
\* and each of them has the receipt.  Only a limiting node has activations for a
\* part of the unit that arrived.
Arrived(s) ==
  \E e \in Edges : \E u \in Units :
    /\ e.id = s.via /\ e.to = s.node /\ s.unit.runs \subseteq u.runs
    /\ \A r \in s.unit.runs : <<r, e.id, u>> \in data
    /\ s.unit = u \/ Type[s.node] = "limit"
Whence == \A s \in DOMAIN steps : Arrived(s) \/ \E r \in Runs : s = FirstStep(r)

\* Receipts are never taken back, and what is new has arrived.
LEMMA Successors ==
  ASSUME NEW e \in Edges, NEW u \in Units, \A r \in u.runs : <<r, e.id, u>> \in data'
  PROVE  Arrived(Succ(e, u))'
BY DEF Arrived, Succ

\* The units a merge forms out of units are units.
LEMMA UnitsTyped ==
  ASSUME TypeOK
  PROVE  /\ \A f \in flights : \A sent : Leaves(f, sent) =>
              \A e \in Out(f.step.node) : /\ Onward(f.step, sent[e]) \in Units
                                          /\ Onward(f.step, sent[e]).runs = sent[e]
         /\ \A b \in DOMAIN batches : SealedUnit(b) \in Units
         /\ \A S \in syncs : \A Away : Syncs(S, Away) =>
              \A x \in LeavesNow(Away) : \E m \in Merges :
                /\ x[1] \in Out(m) /\ x[2] \in Joined(m, Away[m]) /\ x[2] \in Units
                /\ x[2].runs \in SUBSET Away[m] /\ Away[m] \in SUBSET (S \ revoked)
<1>1. ASSUME NEW f \in flights, NEW sent, Leaves(f, sent), NEW e \in Out(f.step.node)
      PROVE  Onward(f.step, sent[e]) \in Units /\ Onward(f.step, sent[e]).runs = sent[e]
  <2>1. f.step \in StepIds /\ f.runs \in SUBSET Runs BY FlightFields
  <2>2. sent[e] \in SUBSET Runs BY <1>1, <2>1 DEF Leaves
  <2>3. QED BY <2>1, <2>2, OnwardTyped
<1>2. ASSUME NEW b \in DOMAIN batches PROVE SealedUnit(b) \in Units
  <2>1. \A i \in Chosen(b) : /\ batches[b].inputs[i].step.unit.ancestry \in SUBSET BatchIds
                             /\ Going(b, i) \in SUBSET Runs
    BY InputFields DEF Chosen, Going
  <2>2. {b} \cup UNION {batches[b].inputs[i].step.unit.ancestry : i \in Chosen(b)}
          \in SUBSET BatchIds
    BY <2>1, InputFields
  <2>3. UNION {Going(b, i) : i \in Chosen(b)} \in SUBSET Runs BY <2>1
  <2>4. b.node \in Nodes BY InputFields
  <2>5. QED BY <2>2, <2>3, <2>4 DEF SealedUnit, Units
<1>3. ASSUME NEW S \in syncs, NEW Away, Syncs(S, Away), NEW x \in LeavesNow(Away)
      PROVE  \E m \in Merges :
               /\ x[1] \in Out(m) /\ x[2] \in Joined(m, Away[m]) /\ x[2] \in Units
               /\ x[2].runs \in SUBSET Away[m] /\ Away[m] \in SUBSET (S \ revoked)
  <2>1. PICK m \in Merges : x \in Out(m) \X Joined(m, Away[m]) BY DEF LeavesNow
  <2>2. S \in SUBSET Runs BY DEF TypeOK
  <2>3. Away[m] \in SUBSET (S \ revoked) BY <1>3 DEF Syncs
  <2>4. Away[m] \in SUBSET Runs BY <2>2, <2>3
  <2>5. QED BY <2>1, <2>3, <2>4, JoinedUnits
<1>4. QED BY <1>1, <1>2, <1>3

\* Every activation goes on having its origin.
LEMMA WhenceStep ==
  ASSUME TypeOK, SegmentsNumbered, StepMembers, Whence, [Next]_vars
  PROVE  Whence'
<1>1. ASSUME data \subseteq data', NEW s, Arrived(s) PROVE Arrived(s)'
  BY <1>1 DEF Arrived
<1>2. ASSUME data \subseteq data', NEW s \in DOMAIN steps
      PROVE  Arrived(s)' \/ \E r \in Runs : s = FirstStep(r)
  BY <1>1, <1>2 DEF Whence
<1>3. CASE UNCHANGED data /\ DOMAIN steps' = DOMAIN steps
  BY <1>2, <1>3 DEF Whence
<1>4. ASSUME NEW r \in Runs, Begins(r) PROVE Whence'
  BY <1>2, <1>4 DEF Begins, Whence
<1>5. ASSUME NEW f \in flights, Conclude(f) PROVE Whence'
  <2> DEFINE s == f.step
  <2>1. s \in DOMAIN steps /\ s \in StepIds /\ f.runs \in SUBSET Runs BY FlightFields
  <2>2. ASSUME NEW sent, Leaves(f, sent) PROVE Whence'
    <3>1. /\ data \subseteq data'
          /\ DOMAIN steps' = DOMAIN steps \cup NextSteps(s, sent)
          /\ \A e \in Out(s.node) : \A r \in sent[e] : <<r, e.id, Onward(s, sent[e])>> \in data'
      BY <2>2 DEF Leaves, Turns
    <3>2. ASSUME NEW t \in NextSteps(s, sent) PROVE Arrived(t)'
      <4>1. PICK e \in Out(s.node) : t = Succ(e, Onward(s, sent[e])) BY <3>2 DEF NextSteps
      <4>2. Onward(s, sent[e]) \in Units /\ Onward(s, sent[e]).runs = sent[e]
        BY <2>2, UnitsTyped
      <4>3. e \in Edges BY EdgeFacts
      <4>4. QED BY <3>1, <4>1, <4>2, <4>3, Successors
    <3>3. QED BY <1>2, <3>1, <3>2 DEF Whence
  <2>3. ASSUME NEW K, Splits(f, K) PROVE Whence'
    <3>1. /\ data = data' /\ Type[s.node] = "limit"
          /\ DOMAIN steps' = DOMAIN steps \cup {Part(s, G) : G \in Groups(s.node, K)}
      BY <2>3 DEF Splits, Turns
    <3>2. K \in SUBSET s.unit.runs
      BY <2>1, <2>3 DEF Splits, Eligible, StepMembers
    <3>3. Arrived(s)
      <4>1. \A r : FirstStep(r).node = StartNode BY DEF FirstStep
      <4>2. \A r : s # FirstStep(r) BY <3>1, <4>1, PlanAssumption
      <4>3. QED BY <2>1, <4>2 DEF Whence
    <3>4. ASSUME NEW G \in Groups(s.node, K) PROVE Arrived(Part(s, G))'
      <4>1. G \in SUBSET K BY DEF Groups
      <4>2. PICK e \in Edges : \E u \in Units :
              /\ e.id = s.via /\ e.to = s.node /\ s.unit.runs \subseteq u.runs
              /\ \A r \in s.unit.runs : <<r, e.id, u>> \in data
        BY <3>3 DEF Arrived
      <4>3. PICK u \in Units :
              /\ e.id = s.via /\ e.to = s.node /\ s.unit.runs \subseteq u.runs
              /\ \A r \in s.unit.runs : <<r, e.id, u>> \in data
        BY <4>2
      <4>4. Onward(s, G).runs = G
        <5>1. G \in SUBSET Runs BY <2>1, <3>2, <4>1, StepFields
        <5>2. QED BY <2>1, <5>1, OnwardTyped
      <4>5. /\ Part(s, G).node = s.node /\ Part(s, G).via = s.via
            /\ Part(s, G).unit.runs = G
        BY <2>1, <4>4 DEF Part, StepIds
      <4>6. QED BY <3>1, <3>2, <4>1, <4>3, <4>5 DEF Arrived
    <3>5. QED BY <1>2, <3>1, <3>4 DEF Whence
  <2>4. ASSUME Stays(f) \/ \E K, into : Admits(f, K, into) PROVE Whence'
    <3>1. UNCHANGED data /\ DOMAIN steps' = DOMAIN steps
      BY <2>4 DEF Stays, Admits, Turns
    <3>2. QED BY <1>3, <3>1
  <2>5. CASE Idles BY <1>3, <2>5 DEF Idles
  <2>6. QED BY <1>5, <2>2, <2>3, <2>4, <2>5, ConcludeMoves
<1>6. ASSUME NEW b \in DOMAIN batches, NEW taken, Seals(b, taken) PROVE Whence'
  <2>0. PICK u : u = SealedUnit(b) OBVIOUS
  <2>1. u \in Units BY <2>0, UnitsTyped
  <2>2. /\ data \subseteq data' /\ taken \in SUBSET Out(b.node)
        /\ DOMAIN steps' = DOMAIN steps \cup {Succ(e, u) : e \in taken}
        /\ \A e \in taken : \A r \in u.runs : <<r, e.id, u>> \in data'
    BY <1>6, <2>0 DEF Seals
  <2>3. ASSUME NEW e \in taken PROVE Arrived(Succ(e, u))'
    <3>1. e \in Edges BY <2>2, EdgeFacts
    <3>2. QED BY <2>1, <2>2, <3>1, Successors
  <2>4. QED BY <1>2, <2>2, <2>3 DEF Whence
<1>7. ASSUME NEW S \in syncs, NEW Away, Syncs(S, Away) PROVE Whence'
  <2>1. /\ data \subseteq data'
        /\ DOMAIN steps' = DOMAIN steps \cup {Succ(x[1], x[2]) : x \in LeavesNow(Away)}
        /\ \A x \in LeavesNow(Away) : \A r \in x[2].runs : <<r, x[1].id, x[2]>> \in data'
    BY <1>7 DEF Syncs
  <2>2. ASSUME NEW x \in LeavesNow(Away) PROVE Arrived(Succ(x[1], x[2]))'
    <3>1. PICK m \in Merges : x[1] \in Out(m) /\ x[2] \in Units BY <1>7, UnitsTyped
    <3>2. x[1] \in Edges BY <3>1, EdgeFacts
    <3>3. QED BY <2>1, <3>1, <3>2, Successors
  <2>3. QED BY <1>2, <2>1, <2>2 DEF Whence
<1>8. QED BY <1>3, <1>4, <1>5, <1>6, <1>7, NextMoves DEF Leases, Rests

\* Every receipt is of a member of its unit, which got an activation.
Carried ==
  \A d \in data : d[1] \in d[3].runs /\ \E e \in Edges :
                   e.id = d[2] /\ Succ(e, d[3]) \in DOMAIN steps

\* What is new among the receipts goes with new activations.
LEMMA CarriedStep ==
  ASSUME TypeOK, SegmentsNumbered, Carried, [Next]_vars
  PROVE  Carried'
<1>1. TableGrows BY StepsGrow
<1>2. ASSUME NEW d \in data
      PROVE  d[1] \in d[3].runs /\ \E e \in Edges :
               e.id = d[2] /\ Succ(e, d[3]) \in DOMAIN steps'
  BY <1>1, <1>2 DEF Carried, TableGrows
<1>3. ASSUME NEW d, NEW e \in Edges, NEW u, NEW r \in u.runs, d = <<r, e.id, u>>,
             Succ(e, u) \in DOMAIN steps'
      PROVE  d[1] \in d[3].runs /\ \E g \in Edges :
               g.id = d[2] /\ Succ(g, d[3]) \in DOMAIN steps'
  BY <1>3
<1>4. CASE UNCHANGED data BY <1>2, <1>4 DEF Carried
<1>5. ASSUME NEW f \in flights, Conclude(f) PROVE Carried'
  <2>1. ASSUME NEW sent, Leaves(f, sent) PROVE Carried'
    <3>1. SUFFICES ASSUME NEW d \in data' \ data
                   PROVE  d[1] \in d[3].runs /\ \E g \in Edges :
                            g.id = d[2] /\ Succ(g, d[3]) \in DOMAIN steps'
      BY <1>2 DEF Carried
    <3>2. PICK e \in Out(f.step.node) : \E r \in sent[e] :
            d = <<r, e.id, Onward(f.step, sent[e])>>
      BY <2>1 DEF Leaves
    <3>3. PICK r \in sent[e] : d = <<r, e.id, Onward(f.step, sent[e])>> BY <3>2
    <3>4. Succ(e, Onward(f.step, sent[e])) \in DOMAIN steps'
      BY <2>1, <3>3 DEF Leaves, Turns, NextSteps
    <3>5. Onward(f.step, sent[e]).runs = sent[e] /\ e \in Edges BY <2>1, UnitsTyped, EdgeFacts
    <3>6. QED BY <1>3, <3>3, <3>4, <3>5
  <2>2. QED BY <1>4, <1>5, <2>1, ConcludeMoves DEF Splits, Stays, Admits, Idles
<1>6. ASSUME NEW b \in DOMAIN batches, NEW taken, Seals(b, taken) PROVE Carried'
  <2>1. SUFFICES ASSUME NEW d \in data' \ data
                 PROVE  d[1] \in d[3].runs /\ \E g \in Edges :
                          g.id = d[2] /\ Succ(g, d[3]) \in DOMAIN steps'
    BY <1>2 DEF Carried
  <2>2. PICK u : u = SealedUnit(b) OBVIOUS
  <2>3. PICK e \in taken : \E r \in u.runs : d = <<r, e.id, u>> BY <1>6, <2>2 DEF Seals
  <2>4. PICK r \in u.runs : d = <<r, e.id, u>> BY <2>3
  <2>5. Succ(e, u) \in DOMAIN steps' BY <1>6, <2>2 DEF Seals
  <2>6. e \in Edges BY <1>6, EdgeFacts DEF Seals
  <2>7. QED BY <1>3, <2>4, <2>5, <2>6
<1>7. ASSUME NEW S \in syncs, NEW Away, Syncs(S, Away) PROVE Carried'
  <2>1. SUFFICES ASSUME NEW d \in data' \ data
                 PROVE  d[1] \in d[3].runs /\ \E g \in Edges :
                          g.id = d[2] /\ Succ(g, d[3]) \in DOMAIN steps'
    BY <1>2 DEF Carried
  <2>2. PICK x \in LeavesNow(Away) : \E r \in x[2].runs : d = <<r, x[1].id, x[2]>>
    BY <1>7 DEF Syncs
  <2>3. PICK r \in x[2].runs : d = <<r, x[1].id, x[2]>> BY <2>2
  <2>4. Succ(x[1], x[2]) \in DOMAIN steps' BY <1>7 DEF Syncs
  <2>5. PICK m \in Merges : x[1] \in Out(m) BY <1>7, UnitsTyped
  <2>6. x[1] \in Edges BY <2>5, EdgeFacts
  <2>7. QED BY <1>3, <2>3, <2>4, <2>6
<1>8. QED BY <1>4, <1>5, <1>6, <1>7, NextMoves DEF Begins, Leases, Rests

-----------------------------------------------------------------------------
(* A run that is not flagged has nothing to be synchronized.               *)

\* An activation ended with a member of it in no input of a closed batch: the
\* member is past its deadline, or its group sealed earlier than another one.
LeftOut(r) ==
  \E b \in DOMAIN batches : \E i \in DOMAIN batches[b].inputs :
    /\ batches[b].state # "open"
    /\ r \in steps[batches[b].inputs[i].step].runs \ batches[b].inputs[i].runs
NotForgotten ==
  \A r \in Started \ needsSync : r \in revoked \/ ~LeftOut(r) => CalmOf(r)

\* Nothing that counts for a run happens in a step.
Quiet(r) ==
  /\ r \in revoked' <=> r \in revoked
  /\ \A m \in Merges : Decided(m, r)' <=> Decided(m, r)
  /\ r \in revoked \/
     /\ \A e \in Edges : <<r, e.id>> \in closed' <=> <<r, e.id>> \in closed
     /\ \A d : d[1] = r => (d \in data' <=> d \in data)
     /\ DOMAIN steps \subseteq DOMAIN steps'
     /\ \A t \in DOMAIN steps' \ DOMAIN steps : r \notin steps'[t].runs
     /\ \A t \in DOMAIN steps :
          /\ r \in steps'[t].runs <=> r \in steps[t].runs
          /\ r \in steps[t].runs =>
               \/ (steps'[t].state \in Terminal <=> steps[t].state \in Terminal)
               \/ Type[t.node] = "merge" /\ Arrivals(r, t.node) # {}

\* What changes neither activations nor receipts nor decisions of a run leaves it
\* calm.
LEMMA QuietCalm ==
  ASSUME NEW r, Quiet(r)
  PROVE  CalmOf(r)' <=> CalmOf(r)
<1>1. r \in revoked' <=> r \in revoked BY DEF Quiet
<1>2. \A m \in Merges : Decided(m, r)' <=> Decided(m, r) BY DEF Quiet
<1>3. CASE r \in revoked BY <1>1, <1>2, <1>3 DEF CalmOf
<1>4. CASE r \notin revoked
  <2>1. \A e \in Edges : <<r, e.id>> \in closed' <=> <<r, e.id>> \in closed
    BY <1>4 DEF Quiet
  <2>2. \A d : d[1] = r => (d \in data' <=> d \in data) BY <1>4 DEF Quiet
  <2>3. /\ DOMAIN steps \subseteq DOMAIN steps'
        /\ \A t \in DOMAIN steps' \ DOMAIN steps : r \notin steps'[t].runs
        /\ \A t \in DOMAIN steps : r \in steps'[t].runs <=> r \in steps[t].runs
    BY <1>4 DEF Quiet
  <2>4. Present(r)' <=> Present(r) BY <2>3 DEF Present
  <2>5. \A n : Data(r, n)' = Data(r, n) BY <2>2 DEF Data
  <2>6. \A n : Arrivals(r, n)' = Arrivals(r, n) BY <2>5 DEF Arrivals
  <2>7. \A n : At(n, r)' = At(n, r) BY <2>3 DEF At
  <2>8. ASSUME NEW n \in Nodes PROVE Exhausted(r, n)' <=> Exhausted(r, n)
    <3>1. CASE Type[n] = "merge" /\ Arrivals(r, n) # {}
      <4>1. n \in Merges BY <3>1 DEF Merges
      <4>2. QED BY <1>2, <2>6, <3>1, <4>1 DEF Exhausted
    <3>2. CASE ~(Type[n] = "merge" /\ Arrivals(r, n) # {})
      <4>1. \A s \in At(n, r) : steps'[s].state \in Terminal <=> steps[s].state \in Terminal
        BY <1>4, <3>2 DEF Quiet, At
      <4>2. QED BY <2>6, <2>7, <3>2, <4>1 DEF Exhausted
    <3>3. QED BY <3>1, <3>2
  <2>9. \A n : \A e \in In(n) \cup Out(n) : e \in Edges BY DEF In, Out
  <2>10. \A n : Shut(r, n)' <=> Shut(r, n) BY <2>1, <2>9 DEF Shut
  <2>11. LocalCalm(r)' <=> LocalCalm(r) BY <2>1, <2>8, <2>9, <2>10 DEF LocalCalm
  <2>12. QED BY <1>1, <1>2, <1>4, <2>4, <2>10, <2>11 DEF CalmOf
<1>5. QED BY <1>3, <1>4

\* A batch that is closed stays as it is, and so do the activations it held.
LEMMA LeftOutStays ==
  ASSUME TypeOK, SegmentsNumbered, InputsHeld, [Next]_vars
  PROVE  /\ \A b \in DOMAIN batches : \A i \in DOMAIN batches[b].inputs :
              /\ b \in DOMAIN batches' /\ i \in DOMAIN batches'[b].inputs
              /\ batches'[b].inputs[i] = batches[b].inputs[i]
              /\ batches[b].state # "open" => batches'[b].state # "open"
              /\ steps'[batches[b].inputs[i].step].runs = steps[batches[b].inputs[i].step].runs
         /\ \A r : LeftOut(r) => LeftOut(r)'
<1>1. ASSUME NEW b \in DOMAIN batches, NEW i \in DOMAIN batches[b].inputs
      PROVE  steps'[batches[b].inputs[i].step].runs = steps[batches[b].inputs[i].step].runs
  <2> DEFINE t == batches[b].inputs[i].step
  <2>1. t \in DOMAIN steps /\ steps[t].state \in {"aggregating", "complete"} BY DEF InputsHeld
  <2>2. Evolves(t) BY <2>1, StepsEvolve
  <2> HIDE DEF t
  <2>3. steps'[t].runs = steps[t].runs BY <2>1, <2>2 DEF Evolves, Terminal
  <2>4. QED BY <2>3 DEF t
<1>2. ASSUME NEW b \in DOMAIN batches, NEW i \in DOMAIN batches[b].inputs
      PROVE  /\ b \in DOMAIN batches' /\ i \in DOMAIN batches'[b].inputs
             /\ batches'[b].inputs[i] = batches[b].inputs[i]
             /\ batches[b].state # "open" => batches'[b].state # "open"
  <2>1. CASE UNCHANGED batches BY <2>1
  <2>2. ASSUME NEW f \in flights, Admit(f)
        PROVE  /\ b \in DOMAIN batches' /\ i \in DOMAIN batches'[b].inputs
               /\ batches'[b].inputs[i] = batches[b].inputs[i]
               /\ batches[b].state # "open" => batches'[b].state # "open"
    <3>1. PICK K \in SUBSET Runs : \E into : Takes(f.step, K, into) BY <2>2, AdmitTakes
    <3>2. PICK into : Takes(f.step, K, into) BY <3>1
    <3>3. QED BY <3>2 DEF Takes
  <2>3. CASE \E c \in DOMAIN batches : CloseBatch(c) BY <2>3, CloseBooks
  <2>4. QED BY <2>1, <2>2, <2>3, BatchMoves
<1>3. \A r : LeftOut(r) => LeftOut(r)'
  <2>1. SUFFICES ASSUME NEW r, LeftOut(r) PROVE LeftOut(r)'
    OBVIOUS
  <2>2. PICK b \in DOMAIN batches : \E i \in DOMAIN batches[b].inputs :
          /\ batches[b].state # "open"
          /\ r \in steps[batches[b].inputs[i].step].runs \ batches[b].inputs[i].runs
    BY <2>1 DEF LeftOut
  <2>3. PICK i \in DOMAIN batches[b].inputs :
          /\ batches[b].state # "open"
          /\ r \in steps[batches[b].inputs[i].step].runs \ batches[b].inputs[i].runs
    BY <2>2
  <2>4. /\ b \in DOMAIN batches' /\ i \in DOMAIN batches'[b].inputs
        /\ batches'[b].inputs[i] = batches[b].inputs[i] /\ batches'[b].state # "open"
        /\ steps'[batches[b].inputs[i].step].runs = steps[batches[b].inputs[i].step].runs
    BY <1>1, <1>2, <2>3
  <2>5. r \in steps'[batches'[b].inputs[i].step].runs \ batches'[b].inputs[i].runs
    BY <2>3, <2>4
  <2>6. QED BY <2>4, <2>5 DEF LeftOut
<1>4. QED BY <1>1, <1>2, <1>3

\* An evaluation disturbs runs of its unit only.
LEMMA ConcludeQuiet ==
  ASSUME TypeOK, SegmentsNumbered, StepMembers, FlightMembers,
         NEW f \in flights, Conclude(f), NEW r, Idles \/ r \notin f.step.unit.runs
  PROVE  Quiet(r) /\ (r \in Started' => r \in Started)
<1> DEFINE s == f.step
<1>1. UNCHANGED <<revoked, decisions>> BY ConcludeMoves
<1>2. /\ s \in DOMAIN steps /\ s \in StepIds /\ f.runs \in SUBSET s.unit.runs
      /\ steps[s].runs \in SUBSET s.unit.runs
  BY FlightFields DEF FlightMembers, StepMembers
<1>3. \A m : Decided(m, r)' <=> Decided(m, r) BY <1>1 DEF Decided
<1>4. CASE Idles BY <1>1, <1>3, <1>4 DEF Idles, Quiet, Started
<1>5. ASSUME r \notin s.unit.runs, NEW ids, Turns(s, ids), \A t \in ids : r \notin t.unit.runs,
             steps'[s].runs \subseteq steps[s].runs,
             \A e \in Edges : <<r, e.id>> \in closed' <=> <<r, e.id>> \in closed,
             \A d : d[1] = r => (d \in data' <=> d \in data)
      PROVE  Quiet(r) /\ (r \in Started' => r \in Started)
  <2>1. /\ DOMAIN steps \subseteq DOMAIN steps'
        /\ \A t \in DOMAIN steps' \ DOMAIN steps : r \notin steps'[t].runs
    BY <1>5 DEF Turns, NewStep
  <2>2. \A t \in DOMAIN steps : r \in steps'[t].runs <=> r \in steps[t].runs
    BY <1>2, <1>5 DEF Turns
  <2>3. \A t \in DOMAIN steps : r \in steps[t].runs => steps'[t] = steps[t]
    BY <1>2, <1>5 DEF Turns
  <2>4. r \in Started' => r \in Started BY <1>5 DEF Turns, Started
  <2>5. QED BY <1>1, <1>3, <1>5, <2>1, <2>2, <2>3, <2>4 DEF Quiet
<1>6. ASSUME NEW sent, Leaves(f, sent), r \notin s.unit.runs
      PROVE  Quiet(r) /\ (r \in Started' => r \in Started)
  <2>1. \A e \in Out(s.node) : sent[e] \in SUBSET f.runs BY <1>6 DEF Leaves
  <2>2. \A t \in NextSteps(s, sent) : r \notin t.unit.runs
    <3>1. TAKE t \in NextSteps(s, sent)
    <3>2. PICK e \in Out(s.node) : t = Succ(e, Onward(s, sent[e])) BY DEF NextSteps
    <3>3. t.unit.runs = sent[e] BY <1>6, <3>2, UnitsTyped DEF Succ
    <3>4. QED BY <1>2, <1>6, <2>1, <3>3
  <2>3. \A d : d[1] = r => (d \in data' <=> d \in data)
    BY <1>2, <1>6, <2>1 DEF Leaves
  <2>4. \A e \in Edges : <<r, e.id>> \in closed' <=> <<r, e.id>> \in closed
    BY <1>2, <1>6 DEF Leaves
  <2>5. Turns(s, NextSteps(s, sent)) /\ steps'[s].runs \subseteq steps[s].runs
    BY <1>6 DEF Leaves
  <2>6. QED BY <1>5, <1>6, <2>2, <2>3, <2>4, <2>5
<1>7. ASSUME NEW K, Splits(f, K), r \notin s.unit.runs
      PROVE  Quiet(r) /\ (r \in Started' => r \in Started)
  <2>1. \A G \in Groups(s.node, K) : G \in SUBSET f.runs BY <1>7 DEF Splits, Groups
  <2>2. ASSUME NEW G \in Groups(s.node, K) PROVE r \notin Part(s, G).unit.runs
    <3>1. f.runs \in SUBSET Runs BY FlightFields
    <3>2. Onward(s, G).runs = G BY <1>2, <2>1, <2>2, <3>1, OnwardTyped
    <3>3. Part(s, G).unit.runs = G BY <1>2, <3>2 DEF Part, StepIds
    <3>4. QED BY <1>2, <1>7, <2>1, <3>3
  <2>3. /\ Turns(s, {Part(s, G) : G \in Groups(s.node, K)})
        /\ steps'[s].runs \subseteq steps[s].runs /\ UNCHANGED <<data, closed>>
    BY <1>7 DEF Splits
  <2>4. QED BY <1>5, <1>7, <2>2, <2>3
<1>8. ASSUME Stays(f), r \notin s.unit.runs
      PROVE  Quiet(r) /\ (r \in Started' => r \in Started)
  <2>1. \A e \in Edges : <<r, e.id>> \in closed' <=> <<r, e.id>> \in closed
    BY <1>2, <1>8 DEF Stays, NoPath
  <2>2. Turns(s, {}) /\ steps'[s].runs \subseteq steps[s].runs /\ UNCHANGED data
    BY <1>8 DEF Stays
  <2>3. QED BY <1>5, <1>8, <2>1, <2>2
<1>9. ASSUME NEW K, NEW into, Admits(f, K, into), r \notin s.unit.runs
      PROVE  Quiet(r) /\ (r \in Started' => r \in Started)
  <2>1. Turns(s, {}) /\ steps'[s].runs \subseteq steps[s].runs /\ UNCHANGED <<data, closed>>
    BY <1>9 DEF Admits
  <2>2. QED BY <1>5, <1>9, <2>1
<1>10. QED BY <1>4, <1>6, <1>7, <1>8, <1>9, ConcludeMoves

\* A batch that closes disturbs the runs of its inputs, and runs that were left
\* out of them.
LEMMA SealsQuiet ==
  ASSUME TypeOK, SegmentsNumbered, InputsHeld, NEW b \in DOMAIN batches, NEW taken,
         Seals(b, taken), [Next]_vars, NEW r, r \notin RunsOf(batches[b].inputs),
         r \in revoked \/ ~LeftOut(r)'
  PROVE  Quiet(r) /\ (r \in Started' => r \in Started)
<1> DEFINE ins == batches[b].inputs
<1>1. \A i \in DOMAIN ins : r \notin ins[i].runs BY DEF RunsOf
<1>2. r \notin SealedUnit(b).runs
  BY <1>1 DEF SealedUnit, Chosen, Going
<1>3. /\ UNCHANGED <<revoked, decisions>>
      /\ DOMAIN steps \subseteq DOMAIN steps'
      /\ \A t \in DOMAIN steps' \ DOMAIN steps : r \notin t.unit.runs /\ r \notin steps'[t].runs
  <2>1. \A t \in DOMAIN steps' \ DOMAIN steps : t.unit = SealedUnit(b) /\ steps'[t] = NewStep(t)
    BY DEF Seals, Succ
  <2>2. \A t : NewStep(t).runs = t.unit.runs BY DEF NewStep
  <2>3. \A t \in DOMAIN steps' \ DOMAIN steps : r \notin t.unit.runs /\ r \notin steps'[t].runs
    BY <1>2, <2>1, <2>2
  <2>4. UNCHANGED <<revoked, decisions>> /\ DOMAIN steps \subseteq DOMAIN steps' BY DEF Seals
  <2>5. QED BY <2>3, <2>4
<1>4. r \in Started' => r \in Started BY <1>3 DEF Started
<1>5. \A m : Decided(m, r)' <=> Decided(m, r) BY <1>3 DEF Decided
<1>6. CASE r \in revoked BY <1>3, <1>4, <1>5, <1>6 DEF Quiet
<1>7. CASE r \notin revoked
  <2>1. \A t \in LastOf(b) : r \notin steps[t].runs
    <3>1. SUFFICES ASSUME NEW t \in LastOf(b), r \in steps[t].runs PROVE LeftOut(r)'
      BY <1>7
    <3>2. PICK i \in DOMAIN ins : t = ins[i].step BY DEF LastOf
    <3>3. r \in steps[ins[i].step].runs \ ins[i].runs BY <1>1, <3>1, <3>2
    <3>4. /\ b \in DOMAIN batches' /\ batches'[b].state # "open"
          /\ i \in DOMAIN batches'[b].inputs /\ batches'[b].inputs[i] = ins[i]
          /\ steps'[ins[i].step].runs = steps[ins[i].step].runs
      BY LeftOutStays DEF Seals
    <3>5. r \in steps'[batches'[b].inputs[i].step].runs \ batches'[b].inputs[i].runs
      BY <3>3, <3>4
    <3>6. QED BY <3>4, <3>5 DEF LeftOut
  <2>2. \A e \in Edges : <<r, e.id>> \in closed' <=> <<r, e.id>> \in closed
    BY <2>1 DEF Seals, NoPath
  <2>3. \A d : d[1] = r => (d \in data' <=> d \in data) BY <1>2 DEF Seals
  <2>4. \A t \in DOMAIN steps : /\ steps'[t].runs = steps[t].runs
                                /\ r \in steps[t].runs => steps'[t] = steps[t]
    BY <2>1 DEF Seals
  <2>5. QED BY <1>3, <1>4, <1>5, <2>2, <2>3, <2>4 DEF Quiet
<1>8. QED BY <1>6, <1>7

\* Members of an activation of a merge have arrived there.
LEMMA MergeArrivals ==
  ASSUME TypeOK, StepMembers, Whence, NEW t \in DOMAIN steps, Type[t.node] = "merge",
         NEW r \in t.unit.runs
  PROVE  Arrivals(r, t.node) # {}
<1>1. \A q : t # FirstStep(q) 
  <2>1. \A q : FirstStep(q).node = StartNode BY DEF FirstStep
  <2>2. QED BY <2>1, PlanAssumption
<1>2. Arrived(t) BY <1>1 DEF Whence
<1>3. PICK e \in Edges : \E u \in Units : e.to = t.node /\ <<r, e.id, u>> \in data
  BY <1>2 DEF Arrived
<1>4. PICK u : e.to = t.node /\ <<r, e.id, u>> \in data BY <1>3
<1>5. e \in In(t.node) BY <1>4 DEF In
<1>6. <<r, e.id, u>> \in Data(r, t.node) BY <1>4, <1>5 DEF Data
<1>7. QED BY <1>6 DEF Arrivals

\* A synchronization disturbs only runs it was asked for and that have something
\* to be synchronized.
LEMMA SyncsQuiet ==
  ASSUME TypeOK, StepMembers, Whence, NEW S \in syncs, NEW Away, Syncs(S, Away),
         NEW r,
         r \in S \ revoked => \A id \in Closable(r) : <<r, id>> \in closed,
         \A m \in Merges : <<m, r>> \notin Ripe(S) \cup Withdrawn(S)
  PROVE  Quiet(r) /\ (r \in Started' => r \in Started)
<1>1. \A m \in Merges : r \notin Away[m] BY DEF Syncs
<1>2. \A x \in LeavesNow(Away) : r \notin x[2].runs BY <1>1, UnitsTyped
<1>3. /\ UNCHANGED revoked /\ DOMAIN steps \subseteq DOMAIN steps'
      /\ \A t \in DOMAIN steps' \ DOMAIN steps : r \notin t.unit.runs /\ r \notin steps'[t].runs
  <2>1. ASSUME NEW t \in DOMAIN steps' \ DOMAIN steps PROVE r \notin t.unit.runs
    <3>1. PICK x \in LeavesNow(Away) : t = Succ(x[1], x[2]) BY DEF Syncs
    <3>2. QED BY <1>2, <3>1 DEF Succ
  <2>2. \A t : NewStep(t).runs = t.unit.runs BY DEF NewStep
  <2>3. \A t \in DOMAIN steps' \ DOMAIN steps : steps'[t] = NewStep(t) BY DEF Syncs
  <2>4. UNCHANGED revoked /\ DOMAIN steps \subseteq DOMAIN steps' BY DEF Syncs
  <2>5. QED BY <2>1, <2>2, <2>3, <2>4
<1>4. r \in Started' => r \in Started BY <1>3 DEF Started
<1>5. \A m \in Merges : Decided(m, r)' <=> Decided(m, r) BY DEF Syncs, Decided
<1>6. \A e \in Edges : <<r, e.id>> \in closed' <=> <<r, e.id>> \in closed
  BY DEF Syncs
<1>7. \A d : d[1] = r => (d \in data' <=> d \in data) BY <1>2 DEF Syncs
<1>8. ASSUME NEW t \in DOMAIN steps
      PROVE  /\ steps'[t].runs = steps[t].runs
             /\ r \in steps[t].runs =>
                  \/ (steps'[t].state \in Terminal <=> steps[t].state \in Terminal)
                  \/ Type[t.node] = "merge" /\ Arrivals(r, t.node) # {}
  <2>1. \/ steps'[t] = steps[t]
        \/ Type[t.node] = "merge" /\ steps'[t].runs = steps[t].runs
    BY DEF Syncs
  <2>2. r \in steps[t].runs => r \in t.unit.runs BY DEF StepMembers
  <2>3. QED BY <2>1, <2>2, MergeArrivals
<1>9. QED BY <1>3, <1>4, <1>5, <1>6, <1>7, <1>8 DEF Quiet

\* No step leaves a run behind without its flag.
LEMMA NotForgottenStep ==
  ASSUME TypeOK, SegmentsNumbered, InputsHeld, Members, Whence, Carried, NotForgotten, [Next]_vars
  PROVE  NotForgotten'
<1> SUFFICES ASSUME NEW r, (r \in Started)', (r \notin needsSync)',
                    (r \in revoked \/ ~LeftOut(r))'
             PROVE  CalmOf(r)'
  BY DEF NotForgotten
<1>1. StepMembers /\ FlightMembers BY DEF Members
<1>2. ASSUME Quiet(r), r \in Started' => r \in Started, r \notin needsSync
      PROVE  CalmOf(r)'
  <2>1. r \in revoked \/ ~LeftOut(r) BY <1>2, LeftOutStays DEF Quiet
  <2>2. CalmOf(r) BY <1>2, <2>1 DEF NotForgotten
  <2>3. QED BY <1>2, <2>2, QuietCalm
<1>3. ASSUME NEW q \in Runs, Begins(q) PROVE CalmOf(r)'
  <2>1. r # q /\ r \notin needsSync BY <1>3 DEF Begins
  <2>2. \A t \in DOMAIN steps' \ DOMAIN steps : t.unit.runs = {q} /\ steps'[t].runs = {q}
    <3>1. \A t \in DOMAIN steps' \ DOMAIN steps : t = FirstStep(q) /\ steps'[t] = NewStep(t)
      BY <1>3 DEF Begins
    <3>2. FirstStep(q).unit.runs = {q} BY DEF FirstStep, FirstUnit
    <3>3. \A t : NewStep(t).runs = t.unit.runs BY DEF NewStep
    <3>4. QED BY <3>1, <3>2, <3>3
  <2>3. r \in Started' => r \in Started BY <2>1, <2>2 DEF Started
  <2>4. Quiet(r) BY <1>3, <2>1, <2>2 DEF Begins, Quiet, Decided
  <2>5. QED BY <1>2, <2>1, <2>3, <2>4
<1>4. ASSUME NEW s \in DOMAIN steps, Leases(s) PROVE CalmOf(r)'
  <2>1. \A t \in DOMAIN steps : /\ steps'[t].runs = steps[t].runs
                                /\ steps'[t].state \in Terminal <=> steps[t].state \in Terminal
    BY <1>4 DEF Leases, Terminal
  <2>2. r \notin needsSync /\ (r \in Started' => r \in Started)
    BY <1>4 DEF Leases, Started
  <2>3. Quiet(r) BY <1>4, <2>1 DEF Leases, Quiet, Decided
  <2>4. QED BY <1>2, <2>2, <2>3
<1>5. ASSUME NEW f \in flights, Conclude(f) PROVE CalmOf(r)'
  <2>1. r \notin needsSync /\ (Idles \/ r \notin f.step.unit.runs) BY <1>5, ConcludeMoves
  <2>2. QED BY <1>1, <1>2, <1>5, <2>1, ConcludeQuiet
<1>6. ASSUME NEW b \in DOMAIN batches, NEW taken, Seals(b, taken) PROVE CalmOf(r)'
  <2>1. r \notin needsSync /\ r \notin RunsOf(batches[b].inputs) /\ revoked' = revoked
    BY <1>6 DEF Seals
  <2>2. QED BY <1>2, <1>6, <2>1, SealsQuiet
<1>7. ASSUME NEW S \in syncs, NEW Away, Syncs(S, Away) PROVE CalmOf(r)'
  <2>1. revoked' = revoked BY <1>7 DEF Syncs
  <2>2. r \in Started
    <3>1. PICK t \in DOMAIN steps' : r \in t.unit.runs BY DEF Started
    <3>2. CASE t \in DOMAIN steps BY <3>1, <3>2 DEF Started
    <3>3. CASE t \notin DOMAIN steps
      <4>1. PICK x \in LeavesNow(Away) : t = Succ(x[1], x[2]) BY <1>7, <3>3 DEF Syncs
      <4>2. PICK m \in Merges : x[2].runs \in SUBSET Away[m] BY <1>7, UnitsTyped
      <4>3. r \in Away[m] BY <3>1, <4>1, <4>2 DEF Succ
      <4>4. PICK d \in data : d[1] = r
        <5>1. Arrivals(r, m) # {} BY <1>7, <4>3 DEF Syncs
        <5>2. Data(r, m) # {} BY <5>1 DEF Arrivals
        <5>3. QED BY <5>2 DEF Data
      <4>5. QED BY <4>4 DEF Carried, Succ, Started
    <3>4. QED BY <3>2, <3>3
  <2>3. ASSUME r \notin needsSync
        PROVE  /\ r \in S \ revoked => \A id \in Closable(r) : <<r, id>> \in closed
               /\ \A m \in Merges : <<m, r>> \notin Ripe(S) \cup Withdrawn(S)
    <3>1. CalmOf(r) BY <2>1, <2>2, <2>3, LeftOutStays DEF NotForgotten
    <3>2. CASE r \in revoked
      <4>1. \A m \in Merges : Decided(m, r) BY <3>1, <3>2 DEF CalmOf
      <4>2. QED BY <3>2, <4>1, RipeIs DEF Withdrawn
    <3>3. CASE r \notin revoked
      <4>1. /\ \A id \in Closable(r) : <<r, id>> \in closed
            /\ \A m \in Merges : (\A e \in In(m) : e.id \in Closable(r)) => Decided(m, r)
        BY <3>1, <3>3, CalmIs
      <4>2. QED BY <3>3, <4>1, RipeIs DEF Withdrawn
    <3>4. QED BY <3>2, <3>3
  <2>4. CASE r \notin needsSync
    <3>1. Quiet(r) BY <1>1, <1>7, <2>3, <2>4, SyncsQuiet
    <3>2. QED BY <1>2, <2>2, <2>4, <3>1
  <2>5. CASE r \in needsSync
    <3>1. /\ r \in S /\ closed' = closed /\ Ripe(S) = {} /\ Withdrawn(S) = {}
      BY <1>7, <2>5 DEF Syncs
    <3>2. r \in S \ revoked => \A id \in Closable(r) : <<r, id>> \in closed
      BY <1>7, <3>1 DEF Syncs
    <3>3. Quiet(r) BY <1>1, <1>7, <3>1, <3>2, SyncsQuiet
    <3>4. CalmOf(r)
      <4>1. CASE r \in revoked
        <5>1. Withdrawn({r}) = {}
          <6>1. \A d : d \in Withdrawn({r}) => d \in Withdrawn(S) BY <3>1 DEF Withdrawn
          <6>2. QED BY <3>1, <6>1
        <5>2. QED BY <4>1, <5>1, CalmIs
      <4>2. CASE r \notin revoked
        <5>1. \A m \in Merges : (\A e \in In(m) : e.id \in Closable(r)) => Decided(m, r)
          <6>1. TAKE m \in Merges
          <6>2. <<m, r>> \in Ripe(S) <=>
                  /\ m \in Merges /\ r \in S \ revoked /\ ~Decided(m, r)
                  /\ \A e \in In(m) : e.id \in Closable(r)
            BY RipeIs
          <6>3. QED BY <3>1, <4>2, <6>2
        <5>2. QED BY <3>1, <3>2, <4>2, <5>1, CalmIs
      <4>3. QED BY <4>1, <4>2
    <3>5. QED BY <3>3, <3>4, QuietCalm
  <2>6. QED BY <2>4, <2>5
<1>8. CASE Rests /\ UNCHANGED <<revoked, needsSync>>
  <2>1. Quiet(r) BY <1>8 DEF Rests, Quiet, Decided
  <2>2. QED BY <1>2, <1>8, <2>1 DEF Rests, Started
<1>9. ASSUME Rests, NEW q \in Runs, Revoke(q) PROVE CalmOf(r)'
  <2>1. revoked' = revoked \cup {q} /\ needsSync' = needsSync \cup {q}
    BY <1>9 DEF Revoke, Flag
  <2>2. r # q /\ r \notin needsSync BY <2>1
  <2>3. Quiet(r) BY <1>9, <2>1, <2>2 DEF Rests, Quiet, Decided
  <2>4. QED BY <1>2, <1>9, <2>2, <2>3 DEF Rests, Started
<1>10. QED BY <1>3, <1>4, <1>5, <1>6, <1>7, <1>8, <1>9, NextMoves

\* Aggregating nodes do not tell runs apart.
OneKey ==
  \A n \in Nodes : Type[n] = "aggregate" => \A r, q \in Runs : KeyOf[n][r] = KeyOf[n][q]

\* Then an input holds all members of its activation that were not ended from
\* outside.
InputsWhole ==
  OneKey => \A b \in DOMAIN batches : \A i \in DOMAIN batches[b].inputs :
    steps[batches[b].inputs[i].step].runs \ batches[b].inputs[i].runs
      \subseteq revoked \cup expired

\* With one group per batch every member that still counts enters its batch.
LEMMA InputsWholeStep ==
  ASSUME TypeOK, SegmentsNumbered, InputsHeld, Members, InputsWhole, [Next]_vars
  PROVE  InputsWhole'
<1> SUFFICES ASSUME OneKey PROVE InputsWhole'
  BY DEF InputsWhole, OneKey
<1>1. revoked \cup expired \subseteq revoked' \cup expired' BY StepsEvolve
<1>2. ASSUME NEW b \in DOMAIN batches, NEW i \in DOMAIN batches[b].inputs
      PROVE  /\ i \in DOMAIN batches'[b].inputs
             /\ steps'[batches'[b].inputs[i].step].runs \ batches'[b].inputs[i].runs
                  \subseteq revoked' \cup expired'
  <2>1. steps[batches[b].inputs[i].step].runs \ batches[b].inputs[i].runs
          \subseteq revoked \cup expired
    BY DEF InputsWhole
  <2>2. /\ i \in DOMAIN batches'[b].inputs /\ batches'[b].inputs[i] = batches[b].inputs[i]
        /\ steps'[batches[b].inputs[i].step].runs = steps[batches[b].inputs[i].step].runs
    BY LeftOutStays
  <2>3. QED BY <1>1, <2>1, <2>2
<1>3. CASE UNCHANGED batches BY <1>2, <1>3 DEF InputsWhole
<1>4. ASSUME NEW b \in DOMAIN batches, CloseBatch(b) PROVE InputsWhole'
  <2>1. DOMAIN batches' = DOMAIN batches
        /\ \A c \in DOMAIN batches : batches'[c].inputs = batches[c].inputs
    BY <1>4, CloseBooks
  <2>2. QED BY <1>2, <2>1 DEF InputsWhole
<1>5. ASSUME NEW f \in flights, Admit(f) PROVE InputsWhole'
  <2> DEFINE s == f.step
  <2>1. PICK K, into : Admits(f, K, into) BY <1>5, AdmitAdmits
  <2>2. /\ K \in SUBSET f.runs /\ f.runs \ expired \subseteq K
        /\ steps'[s].runs = steps[s].runs /\ Takes(s, K, into)
        /\ \A b \in into : \E r \in K : b.key = KeyOf[s.node][r]
    BY <2>1 DEF Admits
  <2>3. s \in DOMAIN steps /\ s.node \in Nodes /\ f.runs \in SUBSET Runs BY FlightFields
  <2>4. steps[s].runs \ revoked \subseteq f.runs BY DEF Members, FlightMembers
  <2>5. ASSUME NEW b \in into PROVE steps'[s].runs \ Entry(s, K, b).runs \subseteq revoked' \cup expired'
    <3>1. Type[s.node] = "aggregate" BY <2>2 DEF Takes
    <3>2. \A r \in K : KeyOf[s.node][r] = b.key
      BY <2>2, <2>3, <3>1 DEF OneKey
    <3>3. Entry(s, K, b).runs = K BY <3>2 DEF Entry
    <3>4. QED BY <1>1, <2>2, <2>4, <3>3
  <2>6. ASSUME NEW b \in DOMAIN batches', NEW i \in DOMAIN batches'[b].inputs
        PROVE  steps'[batches'[b].inputs[i].step].runs \ batches'[b].inputs[i].runs
                 \subseteq revoked' \cup expired'
    <3>1. CASE b \in DOMAIN batches /\ i \in DOMAIN batches[b].inputs BY <1>2, <3>1
    <3>2. CASE ~(b \in DOMAIN batches /\ i \in DOMAIN batches[b].inputs)
      <4>1. b \in into BY <2>2, <2>6, <3>2 DEF Takes
      <4>2. batches'[b].inputs[i] = Entry(s, K, b) BY <2>2, <3>2, <4>1 DEF Takes
      <4>3. Entry(s, K, b).step = s BY DEF Entry
      <4>4. QED BY <2>5, <4>1, <4>2, <4>3
    <3>3. QED BY <3>1, <3>2
  <2>7. QED BY <2>6 DEF InputsWhole
<1>6. QED BY <1>3, <1>4, <1>5, BatchMoves

-----------------------------------------------------------------------------
(* The invariant of the synchronization.                                   *)

SyncInv ==
  GraphInv /\ Members /\ Whence /\ Carried /\ InputsWhole /\ NotForgotten

\* At the start there is nothing to synchronize.
LEMMA SyncInit == Init => SyncInv
<1> SUFFICES ASSUME Init PROVE SyncInv
  OBVIOUS
<1>1. /\ DOMAIN steps = {} /\ DOMAIN batches = {} /\ data = {} /\ flights = {}
  BY DEF Init
<1>2. Started = {} BY <1>1 DEF Started
<1>3. QED
  BY <1>1, <1>2, GraphInit DEF SyncInv, Members, StepMembers, FlightMembers, InputMembers,
     Whence, Carried, InputsWhole, NotForgotten

\* Every operation keeps that.
LEMMA SyncStep == SyncInv /\ [Next]_vars => SyncInv'
<1> SUFFICES ASSUME SyncInv, [Next]_vars PROVE SyncInv'
  OBVIOUS
<1>1. /\ GraphInv /\ TypeOK /\ SegmentsNumbered /\ InputsHeld /\ Members /\ StepMembers
      /\ FlightMembers /\ InputMembers /\ Whence /\ Carried /\ InputsWhole /\ NotForgotten
  BY DEF SyncInv, GraphInv, Members
<1>2. GraphInv' BY <1>1, GraphStep
<1>3. Members' BY <1>1, StepMembersStep, FlightMembersStep, InputMembersStep DEF Members
<1>4. Whence' /\ Carried' BY <1>1, WhenceStep, CarriedStep
<1>5. InputsWhole' BY <1>1, InputsWholeStep
<1>6. NotForgotten' BY <1>1, NotForgottenStep
<1>7. QED BY <1>2, <1>3, <1>4, <1>5, <1>6 DEF SyncInv

\* A run has nothing to be synchronized.
Synchronized(r) ==
  IF r \in revoked THEN Withdrawn({r}) = {}
  ELSE /\ \A id \in Closable(r) : <<r, id>> \in closed
       /\ Deciding([q \in {r} |-> Closable(q)]) = {}

\* That is what it means to be calm.
LEMMA CalmSynchronized == ASSUME NEW r PROVE CalmOf(r) <=> Synchronized(r)
<1>1. CASE r \in revoked BY <1>1, CalmIs DEF Synchronized
<1>2. CASE r \notin revoked
  <2> DEFINE D == Deciding([q \in {r} |-> Closable(q)])
  <2>1. D = {d \in Merges \X {r} : ~Decided(d[1], d[2]) /\ \A e \in In(d[1]) : e.id \in Closable(r)}
    BY DEF Deciding
  <2> HIDE DEF D
  <2>2. ASSUME \A m \in Merges : (\A e \in In(m) : e.id \in Closable(r)) => Decided(m, r),
               NEW d \in D
        PROVE  FALSE
    <3>1. d[1] \in Merges /\ d[2] = r BY <2>1, <2>2
    <3>2. QED BY <2>1, <2>2, <3>1
  <2>3. ASSUME D = {}, NEW m \in Merges, \A e \in In(m) : e.id \in Closable(r)
        PROVE  Decided(m, r)
    <3>1. SUFFICES ASSUME ~Decided(m, r) PROVE FALSE
      OBVIOUS
    <3>2. <<m, r>> \in Merges \X {r} OBVIOUS
    <3>3. <<m, r>> \in D BY <2>1, <2>3, <3>1, <3>2
    <3>4. QED BY <2>3, <3>3
  <2>4. Synchronized(r) <=> /\ \A id \in Closable(r) : <<r, id>> \in closed
                            /\ D = {}
    BY <1>2 DEF Synchronized, D
  <2>5. QED BY <1>2, <2>2, <2>3, <2>4, CalmIs
<1>3. QED BY <1>1, <1>2

\* So it holds throughout.
LEMMA SyncInvariant == Spec => []SyncInv
BY SyncInit, SyncStep, PTL DEF Spec

\* The runs whose flags say the truth: all that were not left out of a batch.
FlagsTrue ==
  \A r \in Started \ needsSync : r \in revoked \/ ~LeftOut(r) => Synchronized(r)

\* A run whose flag is cleared has nothing left to synchronize, unless a batch that
\* was sealed held an activation of it without the run itself (Synchronize,
\* synchronizationBatch).
THEOREM FlagsTellTruth == Spec => []FlagsTrue
<1>1. SyncInv => FlagsTrue BY CalmSynchronized DEF SyncInv, NotForgotten, FlagsTrue
<1>2. QED BY <1>1, SyncInvariant, PTL

\* Expired runs.
ExpiredOnly == Perishable = {} => expired = {}

\* Only runs with a deadline expire.
LEMMA NothingPerishes == Spec => []ExpiredOnly
<1>1. Init => ExpiredOnly BY DEF Init, ExpiredOnly
<1>2. TypeOK /\ ExpiredOnly /\ [Next]_vars => ExpiredOnly'
  <2>1. SUFFICES ASSUME TypeOK, Perishable = {}, expired = {}, [Next]_vars PROVE expired' = {}
    BY DEF ExpiredOnly
  <2>2. \A f \in flights : Conclude(f) => expired' = expired BY ConcludeLeaves DEF ConcludeFrame
  <2>3. \A r : ~Expire(r) BY <2>1 DEF Expire
  <2>4. ASSUME \/ \E r \in Runs : Begins(r)
               \/ \E s \in DOMAIN steps : Leases(s)
               \/ \E b \in DOMAIN batches : \E taken : Seals(b, taken)
               \/ \E S \in syncs : \E Away : Syncs(S, Away)
        PROVE  expired' = expired
    BY <2>4 DEF Begins, Leases, Seals, Syncs
  <2>5. \/ \E r \in Runs : Begins(r)
        \/ \E s \in DOMAIN steps : Leases(s)
        \/ \E f \in flights : Conclude(f)
        \/ \E b \in DOMAIN batches : \E taken : Seals(b, taken)
        \/ \E S \in syncs : \E Away : Syncs(S, Away)
        \/ \E r \in Runs : Expire(r)
        \/ expired' = expired
    BY <2>1, NextMoves
  <2>6. expired' = expired BY <2>2, <2>3, <2>4, <2>5
  <2>7. QED BY <2>1, <2>6
<1>3. QED BY <1>1, <1>2, TypeCorrect, PTL DEF Spec

\* No edge that could be closed and no merge that could decide is ever forgotten
\* (SyncNotForgotten: the needs_sync flags and synchronize), when an activation
\* enters batches as a whole: it belongs to one group and no member expires on the
\* way.  A run that expires is forgotten for good (graph_forgotten).  A run that
\* belongs to another group goes without its flag from the end of the activation's
\* last batch until what its own batch sent on is parked.
THEOREM NobodyForgotten == OneKey /\ Perishable = {} => (Spec => []SyncNotForgotten)
<1> SUFFICES ASSUME OneKey, Perishable = {} PROVE Spec => []SyncNotForgotten
  OBVIOUS
<1>1. ExpiredOnly /\ SyncInv => SyncNotForgotten
  <2>1. SUFFICES ASSUME expired = {}, SyncInv, NEW r \in Started \ needsSync
                 PROVE  Synchronized(r)
    BY DEF ExpiredOnly, SyncNotForgotten, Synchronized
  <2>2. r \in revoked \/ ~LeftOut(r) BY <2>1 DEF SyncInv, InputsWhole, LeftOut
  <2>3. QED BY <2>1, <2>2, CalmSynchronized DEF SyncInv, NotForgotten
<1>2. QED BY <1>1, NothingPerishes, SyncInvariant, PTL

-----------------------------------------------------------------------------
(* Where a run can come by one way only.                                   *)

\* Ordinary nodes that are reached over one edge, from a merge or from another
\* such node: behind a merge, or where branches part but never reconverge.
GoodSet(B) == \A n \in B : \A e \in In(n) : In(n) = {e} /\ e.from \in Merges \cup B
Simple == UNION {B \in SUBSET (Nodes \ Merges) : GoodSet(B)}

\* The activations of a run at a node that are not over, and those of them that
\* are still to send it on.
Active(n, r) == {s \in At(n, r) : steps[s].state \notin Terminal}
Through(n, r) == \A s \in Active(n, r) : ~Goes(s, r)
SentOn(r, n) == \E d \in data : \E e \in Out(n) : d[1] = r /\ d[2] = e.id
Intents(n, r) == {s \in DOMAIN sends : s.node = n /\ r \in sends[s].runs}
Visited(r, n) == \E s \in DOMAIN steps : s.node = n /\ r \in s.unit.runs

\* A run is there once, and is gone when it was sent on or is to be notified.
Single(n, r) ==
  /\ \A s, t \in Active(n, r) : s = t
  /\ SentOn(r, n) \/ Intents(n, r) # {} => Through(n, r)
  /\ \A s, t \in Intents(n, r) : s = t
Once == \A n \in Simple : \A r \in Runs : Single(n, r)
Visits == \A n \in Nodes \ Merges : \A r : SentOn(r, n) => Visited(r, n)

\* What was sent was evaluated; a job is of the members of its intent and there
\* is one for each destination.
SendBooks ==
  /\ \A s \in DOMAIN sends :
       /\ Type[s.node] = "send" /\ steps[s].state = "complete"
       /\ sends[s].runs \subseteq s.unit.runs
  /\ \A j \in jobs : /\ j.send \in DOMAIN sends /\ sends[j.send].state # "unprojected"
                     /\ j.runs \subseteq sends[j.send].runs
                     /\ \A r \in j.runs : j.dest = Dest[r]
  /\ \A j, k \in jobs : j.send = k.send /\ j.dest = k.dest => j = k

\* The nodes a simple one is reached from.
LEMMA SimpleIn ==
  ASSUME NEW n \in Simple
  PROVE  /\ n \in Nodes \ Merges
         /\ \A e \in In(n) : In(n) = {e} /\ e.from \in Merges \cup Simple
BY DEF Simple, GoodSet

\* No edge leads back to its own node.
LEMMA NoLoop == \A e \in Edges : e.from # e.to
<1>1. PICK rank \in [Nodes -> 0..Cardinality(Nodes)] :
        \A e \in Edges : rank[e.from] < rank[e.to]
  BY PlanAssumption
<1>2. Cardinality(Nodes) \in Nat BY GraphAssumption, FS_CardinalityType
<1>3. \A e \in Edges : rank[e.from] \in Nat BY <1>1, <1>2, GraphAssumption
<1>4. QED BY <1>1, <1>3

\* A run that did not come over the one edge to a node never was there.
LEMMA NeverThere ==
  ASSUME Whence, NEW n, NEW e, In(n) = {e},
         NEW r, \A d \in data : ~(d[1] = r /\ d[2] = e.id)
  PROVE  ~Visited(r, n)
<1> SUFFICES ASSUME NEW s \in DOMAIN steps, s.node = n, r \in s.unit.runs
             PROVE  FALSE
  BY DEF Visited
<1>1. e \in Edges /\ e.to = n BY DEF In
<1>2. \A q : s # FirstStep(q)
  <2>1. \A q : FirstStep(q).node = StartNode BY DEF FirstStep
  <2>2. QED BY <1>1, <2>1, PlanAssumption
<1>3. PICK g \in Edges : \E u \in Units :
        g.id = s.via /\ g.to = s.node /\ \A q \in s.unit.runs : <<q, g.id, u>> \in data
  BY <1>2 DEF Whence, Arrived
<1>4. PICK u : <<r, g.id, u>> \in data BY <1>3
<1>5. g = e BY <1>3 DEF In
<1>6. QED BY <1>4, <1>5

\* A run that never was at a node, or is still to be sent on, left nothing there.
Clear(n, r) == ~SentOn(r, n) /\ Intents(n, r) = {}

\* A run that never came to a node has not left it.
LEMMA NeverClear ==
  ASSUME TypeOK, StepMembers, SendBooks, Visits, NEW n \in Nodes \ Merges, NEW r, ~Visited(r, n)
  PROVE  Clear(n, r) /\ \A s \in DOMAIN steps : s.node = n => r \notin steps[s].runs
<1>1. ~SentOn(r, n) BY DEF Visits
<1>2. \A s \in DOMAIN sends : s \in DOMAIN steps BY DEF TypeOK
<1>3. Intents(n, r) = {} BY <1>2 DEF SendBooks, Intents, Visited
<1>4. QED BY <1>1, <1>3 DEF Clear, Visited, StepMembers

\* Nor has one that is still to be sent on.
LEMMA GoingClear ==
  ASSUME NEW n, NEW r, Single(n, r), NEW s \in Active(n, r), Goes(s, r)
  PROVE  Clear(n, r) /\ Active(n, r) = {s}
BY DEF Single, Through, Clear

\* The ways in which a step keeps a run single.
Fewer(n, r) ==
  /\ Active(n, r)' \subseteq Active(n, r)
  /\ \A s \in Active(n, r)' : Goes(s, r)' => Goes(s, r)
  /\ SentOn(r, n)' => SentOn(r, n)
  /\ Intents(n, r)' \subseteq Intents(n, r)
Comes(n, r) ==
  /\ Clear(n, r) /\ Clear(n, r)'
  /\ \A s, t \in Active(n, r)' : s = t
Passes(n, r) ==
  /\ \A s, t \in Active(n, r)' : s = t
  /\ \A s \in Active(n, r)' : ~Goes(s, r)'
  /\ \A s, t \in Intents(n, r)' : s = t

\* A step that brings the run to the node or lets it pass keeps it single.
LEMMA StaysSingle ==
  ASSUME NEW n, NEW r, Single(n, r), Fewer(n, r) \/ Comes(n, r) \/ Passes(n, r)
  PROVE  Single(n, r)'
<1>1. CASE Fewer(n, r) BY <1>1 DEF Fewer, Single, Through
<1>2. CASE Comes(n, r) BY <1>2 DEF Comes, Single, Clear
<1>3. CASE Passes(n, r) BY <1>3 DEF Passes, Single, Through
<1>4. QED BY <1>1, <1>2, <1>3

\* Projection keeps the members of an intent.
LEMMA ProjectKeeps ==
  ASSUME TypeOK, NEW s \in DOMAIN sends, Project(s)
  PROVE  /\ DOMAIN sends' = DOMAIN sends
         /\ \A t \in DOMAIN sends : sends'[t].runs = sends[t].runs
         /\ sends[s].state = "unprojected" /\ sends'[s].state # "unprojected"
         /\ \A t \in DOMAIN sends \ {s} : sends'[t] = sends[t]
<1>1. sends[s] \in Sends BY DEF TypeOK
<1>2. PICK state \in {"projected", "expired", "cancelled"} :
        sends' = [sends EXCEPT ![s].state = state]
  BY DEF Project
<1>3. sends'[s] = [sends[s] EXCEPT !.state = state] BY <1>2
<1>4. sends'[s].runs = sends[s].runs /\ sends'[s].state = state BY <1>1, <1>3 DEF Sends
<1>5. DOMAIN sends' = DOMAIN sends /\ \A t \in DOMAIN sends \ {s} : sends'[t] = sends[t]
  BY <1>2
<1>6. sends[s].state = "unprojected" BY DEF Project
<1>7. QED BY <1>2, <1>4, <1>5, <1>6

\* What is known of an intent stays known.
LEMMA SendBooksStep ==
  ASSUME TypeOK, SegmentsNumbered, Members, SendBooks, [Next]_vars
  PROVE  SendBooks'
<1>1. \A t \in DOMAIN steps : Evolves(t) BY StepsEvolve
<1>2. ASSUME NEW s \in DOMAIN sends
      PROVE  /\ Type[s.node] = "send" /\ steps'[s].state = "complete"
             /\ sends[s].runs \subseteq s.unit.runs
  <2>1. /\ s \in DOMAIN steps /\ steps[s].state = "complete"
        /\ Type[s.node] = "send" /\ sends[s].runs \subseteq s.unit.runs
    BY DEF TypeOK, SendBooks
  <2>2. QED BY <1>1, <2>1 DEF Evolves, Terminal
<1>3. CASE UNCHANGED <<sends, jobs>> BY <1>2, <1>3 DEF SendBooks
<1>4. ASSUME NEW f \in flights, Conclude(f) PROVE SendBooks'
  <2> DEFINE s == f.step
  <2>1. jobs' = jobs BY <1>4, ConcludeMoves
  <2>2. CASE UNCHANGED sends BY <1>3, <2>1, <2>2
  <2>3. ASSUME Stays(f), sends' # sends PROVE SendBooks'
    <3>1. /\ Owned(f) /\ steps'[s].state = "complete" /\ Type[s.node] = "send"
          /\ \E K \in SUBSET (f.runs \cap Eligible(s)) :
               sends' = [t \in DOMAIN sends \cup {s} |->
                           IF t = s THEN [runs |-> K, state |-> "unprojected"] ELSE sends[t]]
      BY <2>3 DEF Stays
    <3>2. PICK K \in SUBSET (f.runs \cap Eligible(s)) :
            sends' = [t \in DOMAIN sends \cup {s} |->
                        IF t = s THEN [runs |-> K, state |-> "unprojected"] ELSE sends[t]]
      BY <3>1
    <3>3. s \notin DOMAIN sends BY <3>1 DEF Owned, SendBooks
    <3>4. K \subseteq s.unit.runs BY DEF Members, FlightMembers
    <3>5. /\ DOMAIN sends' = DOMAIN sends \cup {s} /\ sends'[s].runs = K
          /\ \A t \in DOMAIN sends : sends'[t] = sends[t]
      BY <3>2, <3>3
    <3>6. \A t \in DOMAIN sends' :
            /\ Type[t.node] = "send" /\ steps'[t].state = "complete"
            /\ sends'[t].runs \subseteq t.unit.runs
      BY <1>2, <3>1, <3>4, <3>5
    <3>7. \A j \in jobs : /\ j.send \in DOMAIN sends' /\ sends'[j.send].state # "unprojected"
                          /\ j.runs \subseteq sends'[j.send].runs
                          /\ \A r \in j.runs : j.dest = Dest[r]
      BY <3>5 DEF SendBooks
    <3>8. QED BY <2>1, <3>6, <3>7 DEF SendBooks
  <2>4. UNCHANGED sends \/ Stays(f)
    BY <1>4, ConcludeMoves DEF Leaves, Splits, Admits, Idles
  <2>5. QED BY <2>2, <2>3, <2>4
<1>5. ASSUME Rests, NEW s \in DOMAIN sends, Project(s) PROVE SendBooks'
  <2> DEFINE R == (sends[s].runs \ revoked) \ expired
             Job(d) == [send |-> s, dest |-> d, runs |-> {r \in R : Dest[r] = d}]
  <2>1. jobs' = jobs \cup {Job(d) : d \in {Dest[r] : r \in R}}
    BY <1>5, ProjectedJobs, Zenon
  <2>2. /\ DOMAIN sends' = DOMAIN sends
        /\ \A t \in DOMAIN sends : sends'[t].runs = sends[t].runs
        /\ sends[s].state = "unprojected" /\ sends'[s].state # "unprojected"
        /\ \A t \in DOMAIN sends \ {s} : sends'[t] = sends[t]
    BY <1>5, ProjectKeeps
  <2>3. \A d : Job(d).send = s /\ Job(d).dest = d /\ Job(d).runs = {r \in R : Dest[r] = d}
    OBVIOUS
  <2> HIDE DEF Job
  <2>4. \A j \in jobs : j.send # s BY <2>2 DEF SendBooks
  <2>5. \A j \in jobs' : /\ j.send \in DOMAIN sends' /\ sends'[j.send].state # "unprojected"
                         /\ j.runs \subseteq sends'[j.send].runs
                         /\ \A r \in j.runs : j.dest = Dest[r]
    <3>1. TAKE j \in jobs'
    <3>2. CASE j \in jobs
      <4>1. j.send \in DOMAIN sends \ {s} BY <2>4, <3>2 DEF SendBooks
      <4>2. QED BY <2>2, <3>2, <4>1 DEF SendBooks
    <3>3. CASE j \notin jobs
      <4>1. PICK d \in {Dest[r] : r \in R} : j = Job(d) BY <2>1, <3>3
      <4>2. QED BY <2>2, <2>3, <4>1
    <3>4. QED BY <3>2, <3>3
  <2>6. \A j, k \in jobs' : j.send = k.send /\ j.dest = k.dest => j = k
    <3>1. TAKE j, k \in jobs'
    <3>2. HAVE j.send = k.send /\ j.dest = k.dest
    <3>3. CASE j \in jobs /\ k \in jobs BY <3>2, <3>3 DEF SendBooks
    <3>4. CASE j \notin jobs \/ k \notin jobs
      <4>1. j.send = s /\ k.send = s BY <2>1, <2>3, <3>2, <3>4
      <4>2. j = Job(j.dest) /\ k = Job(k.dest) BY <2>1, <2>3, <2>4, <4>1
      <4>3. QED BY <3>2, <4>2
    <3>5. QED BY <3>3, <3>4
  <2>7. \A t \in DOMAIN sends' :
          /\ Type[t.node] = "send" /\ steps'[t].state = "complete"
          /\ sends'[t].runs \subseteq t.unit.runs
    BY <1>2, <2>2
  <2>8. QED BY <2>5, <2>6, <2>7 DEF SendBooks
<1>6. QED BY <1>3, <1>4, <1>5, NextMoves DEF Begins, Leases, Seals, Syncs

\* The unit of a sealed batch is of members of its inputs.
LEMMA SealedMembers ==
  ASSUME TypeOK, Members, InputsHeld, BatchNodes, Collecting, NEW b \in DOMAIN batches,
         batches[b].state = "open", NEW r \in SealedUnit(b).runs
  PROVE  /\ Type[b.node] = "aggregate"
         /\ \E i \in DOMAIN batches[b].inputs :
              /\ r \in batches[b].inputs[i].runs
              /\ batches[b].inputs[i].step \in Active(b.node, r)
              /\ Goes(batches[b].inputs[i].step, r)
              /\ r \in batches[b].inputs[i].step.unit.runs
<1>1. PICK i \in DOMAIN batches[b].inputs : r \in batches[b].inputs[i].runs
  BY DEF SealedUnit, Chosen, Going
<1> DEFINE t == batches[b].inputs[i].step
<1>2. /\ t \in DOMAIN steps /\ t.node = b.node /\ r \in steps[t].runs
      /\ r \in t.unit.runs
  BY <1>1 DEF Members, StepMembers, InputMembers, InputsHeld
<1>3. steps[t].state = "aggregating" BY <1>2 DEF Collecting, Holds
<1>4. t \in Active(b.node, r) BY <1>2, <1>3 DEF Active, At, Terminal
<1>5. Goes(t, r) BY <1>1 DEF Goes
<1>6. QED BY <1>1, <1>2, <1>4, <1>5 DEF BatchNodes

\* What is sent on was there.
LEMMA VisitsStep ==
  ASSUME TypeOK, SegmentsNumbered, Members, InputsHeld, BatchNodes, Collecting, Visits,
         [Next]_vars
  PROVE  Visits'
<1>1. TableGrows BY StepsGrow
<1>2. ASSUME NEW n \in Nodes \ Merges, NEW r, Visited(r, n) PROVE Visited(r, n)'
  BY <1>1, <1>2 DEF Visited, TableGrows
<1>3. CASE UNCHANGED data BY <1>2, <1>3 DEF Visits, SentOn
<1>4. SUFFICES ASSUME NEW n \in Nodes \ Merges, NEW r, NEW d \in data', NEW e \in Out(n),
                      d[1] = r, d[2] = e.id, d \notin data
               PROVE  Visited(r, n)'
  BY <1>2 DEF Visits, SentOn
<1>5. ASSUME NEW f \in flights, Conclude(f) PROVE Visited(r, n)'
  <2>1. PICK sent : Leaves(f, sent)
    BY <1>4, <1>5, ConcludeMoves DEF Splits, Stays, Admits, Idles
  <2>2. PICK g \in Out(f.step.node) : \E q \in sent[g] : d = <<q, g.id, Onward(f.step, sent[g])>>
    BY <1>4, <2>1 DEF Leaves
  <2>3. g = e /\ n = f.step.node /\ r \in sent[g] BY <1>4, <2>2, EdgeFacts
  <2>4. r \in f.step.unit.runs BY <2>1, <2>3 DEF Leaves, Members, FlightMembers
  <2>5. f.step \in DOMAIN steps BY FlightFields
  <2>6. QED BY <1>2, <2>3, <2>4, <2>5 DEF Visited
<1>6. ASSUME NEW b \in DOMAIN batches, NEW taken, Seals(b, taken) PROVE Visited(r, n)'
  <2>1. PICK g \in Out(b.node) : \E q \in SealedUnit(b).runs : d = <<q, g.id, SealedUnit(b)>>
    BY <1>4, <1>6 DEF Seals
  <2>2. n = b.node /\ r \in SealedUnit(b).runs BY <1>4, <2>1, EdgeFacts
  <2>3. batches[b].state = "open" BY <1>6 DEF Seals
  <2>4. PICK i \in DOMAIN batches[b].inputs :
          /\ batches[b].inputs[i].step \in Active(b.node, r)
          /\ r \in batches[b].inputs[i].step.unit.runs
    BY <2>2, <2>3, SealedMembers
  <2>5. QED BY <1>2, <2>2, <2>4 DEF Visited, Active, At
<1>7. ASSUME NEW S \in syncs, NEW Away, Syncs(S, Away) PROVE Visited(r, n)'
  <2>1. PICK x \in LeavesNow(Away) : d[2] = x[1].id BY <1>4, <1>7 DEF Syncs
  <2>2. PICK m \in Merges : x[1] \in Out(m) BY <1>7, UnitsTyped
  <2>3. QED BY <1>4, <2>1, <2>2, EdgeFacts
<1>8. QED BY <1>3, <1>4, <1>5, <1>6, <1>7, NextMoves DEF Begins, Leases, Rests

\* The activations there were do not come back and are not put into a batch again.
LEMMA OldOnes ==
  ASSUME TypeOK, SegmentsNumbered, Members, InputsHeld, [Next]_vars, NEW n, NEW r,
         NEW t \in DOMAIN steps, t \in Active(n, r)'
  PROVE  t \in Active(n, r) /\ (Goes(t, r)' => Goes(t, r))
<1>1. Evolves(t) BY StepsEvolve
<1>2. t \in Active(n, r) BY <1>1 DEF Evolves, Active, At
<1>3. steps'[t].state \notin Terminal \cup {"aggregating"} => Goes(t, r)
  BY <1>1 DEF Evolves, Goes, Terminal
<1>4. ASSUME NEW b \in DOMAIN batches', NEW i \in DOMAIN batches'[b].inputs,
             batches'[b].state = "open",
             batches'[b].inputs[i].step = t, r \in batches'[b].inputs[i].runs
      PROVE  Goes(t, r)
  <2>1. CASE UNCHANGED batches BY <1>4, <2>1 DEF Goes
  <2>2. ASSUME NEW c \in DOMAIN batches, CloseBatch(c) PROVE Goes(t, r)
    <3>1. /\ DOMAIN batches' = DOMAIN batches /\ batches'[c].state # "open"
          /\ \A a \in DOMAIN batches \ {c} : batches'[a] = batches[a]
      BY <2>2, CloseBooks
    <3>2. QED BY <1>4, <3>1 DEF Goes
  <2>3. ASSUME NEW f \in flights, Admit(f) PROVE Goes(t, r)
    <3>1. PICK K, into : Admits(f, K, into) BY <2>3, AdmitAdmits
    <3>2. CASE b \in DOMAIN batches /\ i \in DOMAIN batches[b].inputs
      <4>1. batches'[b].inputs[i] = batches[b].inputs[i] /\ batches'[b].state = batches[b].state
        BY <3>1, <3>2 DEF Admits, Takes
      <4>2. QED BY <1>4, <3>2, <4>1 DEF Goes
    <3>3. CASE ~(b \in DOMAIN batches /\ i \in DOMAIN batches[b].inputs)
      <4>1. batches'[b].inputs[i] = Entry(f.step, K, b) BY <3>1, <3>3 DEF Admits, Takes
      <4>2. t = f.step BY <1>4, <4>1 DEF Entry
      <4>3. steps[t].state = "leased" BY <3>1, <4>2 DEF Admits, Owned
      <4>4. QED BY <4>3 DEF Goes, Terminal
    <3>4. QED BY <3>2, <3>3
  <2>4. QED BY <2>1, <2>2, <2>3, BatchMoves
<1>5. QED BY <1>2, <1>3, <1>4 DEF Goes

\* A step that brings no activation of the run to the node, no receipt over its
\* edges and no intent.
LEMMA NobodyComes ==
  ASSUME TypeOK, SegmentsNumbered, Members, InputsHeld, [Next]_vars, NEW n, NEW r,
         \A t \in DOMAIN steps' \ DOMAIN steps : t.node = n => r \notin t.unit.runs
  PROVE  /\ Active(n, r)' \subseteq Active(n, r)
         /\ \A t \in Active(n, r)' : Goes(t, r)' => Goes(t, r)
<1>1. \A t \in DOMAIN steps' \ DOMAIN steps : steps'[t] = NewStep(t) BY StepsEvolve
<1>2. \A t : NewStep(t).runs = t.unit.runs BY DEF NewStep
<1>3. \A t \in Active(n, r)' : t \in DOMAIN steps BY <1>1, <1>2 DEF Active, At
<1>4. QED BY <1>3, OldOnes

\* An activation of a run that never was at the node.
LEMMA FirstComes ==
  ASSUME TypeOK, SegmentsNumbered, Members, InputsHeld, SendBooks, Visits, [Next]_vars,
         NEW n \in Nodes \ Merges, NEW r, ~Visited(r, n),
         \A s, t \in DOMAIN steps' \ DOMAIN steps :
           s.node = n /\ t.node = n /\ r \in s.unit.runs /\ r \in t.unit.runs => s = t,
         SentOn(r, n)' => SentOn(r, n), UNCHANGED sends
  PROVE  Comes(n, r)
<1>1. /\ Clear(n, r)
      /\ \A s \in DOMAIN steps : s.node = n => r \notin steps[s].runs
  BY NeverClear DEF Members
<1>2. Clear(n, r)' BY <1>1 DEF Clear, Intents
<1>3. \A t \in DOMAIN steps' \ DOMAIN steps : steps'[t] = NewStep(t) BY StepsEvolve
<1>4. \A t : NewStep(t).runs = t.unit.runs BY DEF NewStep
<1>5. \A t \in Active(n, r)' : t \notin DOMAIN steps
  BY <1>1, OldOnes DEF Active, At
<1>6. \A s, t \in Active(n, r)' : s = t BY <1>3, <1>4, <1>5 DEF Active, At
<1>7. QED BY <1>1, <1>2, <1>6 DEF Comes

\* An evaluation sends a run on, splits its unit or records it, and is over.
LEMMA OnceConclude ==
  ASSUME TypeOK, SegmentsNumbered, Members, InputsHeld, Whence, SendBooks, Visits, Once,
         [Next]_vars, NEW f \in flights, Conclude(f), NEW n \in Simple, NEW r \in Runs
  PROVE  Fewer(n, r) \/ Comes(n, r) \/ Passes(n, r)
<1> DEFINE s == f.step
<1>1. s \in DOMAIN steps /\ s \in StepIds /\ s.node \in Nodes /\ f.runs \in SUBSET Runs
  BY FlightFields
<1>2. n \in Nodes \ Merges /\ \A e \in In(n) : In(n) = {e} /\ e.from \in Merges \cup Simple
  BY SimpleIn
<1>3. ASSUME \A t \in DOMAIN steps' \ DOMAIN steps : t.node = n => r \notin t.unit.runs,
             SentOn(r, n)' => SentOn(r, n), Intents(n, r)' \subseteq Intents(n, r)
      PROVE  Fewer(n, r)
  BY <1>3, NobodyComes DEF Fewer
<1>4. ASSUME NEW m \in Simple, m = s.node, Owned(f), r \in Eligible(s)
      PROVE  Clear(m, r) /\ Active(m, r) = {s}
  <2>1. s \in Active(m, r) /\ Goes(s, r)
    BY <1>1, <1>4 DEF Owned, Eligible, Active, At, Goes, Terminal
  <2>2. Single(m, r) BY DEF Once
  <2>3. QED BY <2>1, <2>2, GoingClear
<1>5. ASSUME NEW sent, Leaves(f, sent) PROVE Fewer(n, r) \/ Comes(n, r) \/ Passes(n, r)
  <2>1. /\ Owned(f) /\ UNCHANGED sends /\ steps'[s].state = "complete"
        /\ DOMAIN steps' = DOMAIN steps \cup NextSteps(s, sent)
        /\ \A e \in Out(s.node) : sent[e] \subseteq Eligible(s)
    BY <1>5 DEF Leaves, Turns
  <2>2. \A t \in DOMAIN steps' \ DOMAIN steps :
          \E e \in Out(s.node) : t = Succ(e, Onward(s, sent[e])) /\ t.unit.runs = sent[e]
    <3>1. TAKE t \in DOMAIN steps' \ DOMAIN steps
    <3>2. PICK e \in Out(s.node) : t = Succ(e, Onward(s, sent[e])) BY <2>1 DEF NextSteps
    <3>3. t.unit.runs = sent[e] BY <1>5, <3>2, UnitsTyped DEF Succ
    <3>4. QED BY <3>2, <3>3
  <2>3. ASSUME SentOn(r, n)', ~SentOn(r, n)
        PROVE  n = s.node /\ \E e \in Out(n) : r \in sent[e]
    <3>1. PICK d \in data' : \E e \in Out(n) : d[1] = r /\ d[2] = e.id
      BY <2>3 DEF SentOn
    <3>2. PICK e \in Out(n) : d[1] = r /\ d[2] = e.id BY <3>1
    <3>3. d \notin data BY <2>3, <3>2 DEF SentOn
    <3>4. PICK g \in Out(s.node) : \E q \in sent[g] : d = <<q, g.id, Onward(s, sent[g])>>
      BY <1>5, <3>3 DEF Leaves
    <3>5. g = e /\ n = s.node /\ r \in sent[g] BY <3>2, <3>4, EdgeFacts
    <3>6. QED BY <3>5
  <2>4. Intents(n, r)' = Intents(n, r) BY <2>1 DEF Intents
  <2>5. CASE \E e \in Out(s.node) : e.to = n /\ r \in sent[e]
    <3>1. PICK e \in Out(s.node) : e.to = n /\ r \in sent[e] BY <2>5
    <3>2. e \in Edges /\ e.from = s.node /\ e \in In(n) BY <3>1, EdgeFacts DEF In
    <3>3. In(n) = {e} BY <1>2, <3>2
    <3>4. s.node \notin Merges
      BY <1>5, <3>1 DEF Leaves, Plain, Merges
    <3>5. s.node \in Simple /\ n # s.node BY <1>2, <3>1, <3>2, <3>4, NoLoop
    <3>6. Clear(s.node, r) BY <1>4, <2>1, <3>1, <3>5
    <3>7. \A d \in data : ~(d[1] = r /\ d[2] = e.id) BY <3>1, <3>6 DEF Clear, SentOn
    <3>8. ~Visited(r, n) BY <3>3, <3>7, NeverThere
    <3>9. \A t \in DOMAIN steps' \ DOMAIN steps :
            t.node = n => t = Succ(e, Onward(s, sent[e]))
      <4>1. TAKE t \in DOMAIN steps' \ DOMAIN steps
      <4>2. HAVE t.node = n
      <4>3. PICK g \in Out(s.node) : t = Succ(g, Onward(s, sent[g])) BY <2>2
      <4>4. g \in In(n) BY <4>2, <4>3, EdgeFacts DEF In, Succ
      <4>5. QED BY <3>3, <4>3, <4>4
    <3>10. SentOn(r, n)' => SentOn(r, n) BY <2>3, <3>5
    <3>11. Comes(n, r) BY <1>2, <2>1, <3>8, <3>9, <3>10, FirstComes
    <3>12. QED BY <3>11
  <2>6. CASE ~\E e \in Out(s.node) : e.to = n /\ r \in sent[e]
    <3>1. \A t \in DOMAIN steps' \ DOMAIN steps : t.node = n => r \notin t.unit.runs
      BY <2>2, <2>6 DEF Succ
    <3>2. CASE SentOn(r, n)' => SentOn(r, n) BY <1>3, <2>4, <3>1, <3>2
    <3>3. CASE SentOn(r, n)' /\ ~SentOn(r, n)
      <4>1. n = s.node /\ r \in Eligible(s) BY <2>1, <2>3, <3>3
      <4>2. Clear(n, r) /\ Active(n, r) = {s} BY <1>4, <2>1, <4>1
      <4>3. Active(n, r)' = {}
        BY <2>1, <3>1, <4>2, NobodyComes DEF Active, Terminal
      <4>4. Passes(n, r) BY <2>4, <4>2, <4>3 DEF Passes, Clear
      <4>5. QED BY <4>4
    <3>4. QED BY <3>2, <3>3
  <2>7. QED BY <2>5, <2>6
<1>6. ASSUME NEW K, Splits(f, K) PROVE Fewer(n, r) \/ Comes(n, r) \/ Passes(n, r)
  <2>1. /\ Owned(f) /\ UNCHANGED <<sends, data>> /\ steps'[s].state = "complete"
        /\ DOMAIN steps' = DOMAIN steps \cup {Part(s, G) : G \in Groups(s.node, K)}
        /\ K \subseteq Eligible(s) /\ K \in SUBSET Runs
    BY <1>1, <1>6 DEF Splits, Turns
  <2>2. ASSUME NEW G \in Groups(s.node, K)
        PROVE  G \subseteq K /\ Part(s, G).node = s.node /\ Part(s, G).unit.runs = G
    <3>1. G \in SUBSET K BY DEF Groups
    <3>2. Onward(s, G).runs = G BY <1>1, <2>1, <3>1, OnwardTyped
    <3>3. QED BY <1>1, <3>1, <3>2 DEF Part, StepIds
  <2>3. (SentOn(r, n)' <=> SentOn(r, n)) /\ Intents(n, r)' = Intents(n, r)
    BY <2>1 DEF SentOn, Intents
  <2>4. CASE n = s.node /\ r \in K
    <3>1. Clear(n, r) /\ Active(n, r) = {s} BY <1>4, <2>1, <2>4
    <3>2. \A G, H \in Groups(s.node, K) : r \in G /\ r \in H => G = H BY DEF Groups
    <3>3. \A t \in DOMAIN steps' \ DOMAIN steps : steps'[t] = NewStep(t) BY StepsEvolve
    <3>4. \A t : NewStep(t).runs = t.unit.runs BY DEF NewStep
    <3>5. \A t \in Active(n, r)' : t \notin DOMAIN steps
      BY <2>1, <3>1, OldOnes DEF Active, Terminal
    <3>6. \A t \in Active(n, r)' :
            \E G \in Groups(s.node, K) : t = Part(s, G) /\ r \in G
      <4>1. TAKE t \in Active(n, r)'
      <4>2. t \in DOMAIN steps' \ DOMAIN steps /\ r \in steps'[t].runs
        BY <3>5 DEF Active, At
      <4>3. PICK G \in Groups(s.node, K) : t = Part(s, G) BY <2>1, <4>2
      <4>4. r \in t.unit.runs BY <3>3, <3>4, <4>2
      <4>5. r \in G BY <2>2, <4>3, <4>4
      <4>6. QED BY <4>3, <4>5
    <3>7. \A t, u \in Active(n, r)' : t = u BY <3>2, <3>6
    <3>8. Comes(n, r) BY <2>3, <3>1, <3>7 DEF Comes, Clear
    <3>9. QED BY <3>8
  <2>5. CASE ~(n = s.node /\ r \in K) BY <1>3, <2>1, <2>2, <2>3, <2>5
  <2>6. QED BY <2>4, <2>5
<1>7. ASSUME Stays(f) PROVE Fewer(n, r) \/ Comes(n, r) \/ Passes(n, r)
  <2>1. Owned(f) /\ UNCHANGED data /\ DOMAIN steps' = DOMAIN steps
    BY <1>7 DEF Stays, Turns
  <2>2. SentOn(r, n)' <=> SentOn(r, n) BY <2>1 DEF SentOn
  <2>3. CASE Intents(n, r)' \subseteq Intents(n, r) BY <1>3, <2>1, <2>2, <2>3
  <2>4. CASE ~(Intents(n, r)' \subseteq Intents(n, r))
    <3>1. PICK K \in SUBSET (f.runs \cap Eligible(s)) :
            sends' = [t \in DOMAIN sends \cup {s} |->
                        IF t = s THEN [runs |-> K, state |-> "unprojected"] ELSE sends[t]]
      BY <1>7, <2>4 DEF Stays, Intents
    <3>2. steps'[s].state = "complete" BY <1>7, <2>4 DEF Stays, Intents
    <3>3. DOMAIN sends' = DOMAIN sends \cup {s} /\ sends'[s].runs = K
          /\ \A t \in DOMAIN sends \ {s} : sends'[t] = sends[t]
      BY <3>1
    <3>4. n = s.node /\ r \in K BY <2>4, <3>3 DEF Intents
    <3>5. Clear(n, r) /\ Active(n, r) = {s} BY <1>4, <2>1, <3>4
    <3>6. Active(n, r)' = {} BY <2>1, <3>2, <3>5, NobodyComes DEF Active, Terminal
    <3>7. \A t \in Intents(n, r)' : t = s BY <3>3, <3>5 DEF Clear, Intents
    <3>8. Passes(n, r) BY <3>6, <3>7 DEF Passes
    <3>9. QED BY <3>8
  <2>5. QED BY <2>3, <2>4
<1>8. ASSUME (\E K, into : Admits(f, K, into)) \/ Idles PROVE Fewer(n, r)
  <2>1. UNCHANGED <<data, sends>> /\ DOMAIN steps' = DOMAIN steps
    BY <1>8 DEF Admits, Idles, Turns
  <2>2. (SentOn(r, n)' <=> SentOn(r, n)) /\ Intents(n, r)' = Intents(n, r)
    BY <2>1 DEF SentOn, Intents
  <2>3. QED BY <1>3, <2>1, <2>2
<1>9. QED BY <1>5, <1>6, <1>7, <1>8, ConcludeMoves

\* A batch sends its runs on, and holds no other part of them.
LEMMA OnceSeals ==
  ASSUME TypeOK, SegmentsNumbered, Members, InputsHeld, BatchNodes, Collecting, HeldOnce,
         Whence, SendBooks, Visits, Once, [Next]_vars,
         NEW b \in DOMAIN batches, NEW taken, Seals(b, taken), NEW n \in Simple, NEW r \in Runs
  PROVE  Fewer(n, r) \/ Comes(n, r) \/ Passes(n, r)
<1>1. n \in Nodes \ Merges /\ \A e \in In(n) : In(n) = {e} /\ e.from \in Merges \cup Simple
  BY SimpleIn
<1>2. /\ UNCHANGED sends /\ taken \in SUBSET Out(b.node) /\ batches[b].state = "open"
      /\ \A t \in DOMAIN steps' \ DOMAIN steps :
           t.unit.runs = SealedUnit(b).runs /\ \E e \in taken : t = Succ(e, SealedUnit(b))
  BY DEF Seals, Succ
<1>3. Intents(n, r)' = Intents(n, r) BY <1>2 DEF Intents
<1>4. ASSUME NEW m \in Simple, m = b.node, r \in SealedUnit(b).runs
      PROVE  /\ Clear(m, r)
             /\ \E i \in DOMAIN batches[b].inputs :
                  /\ r \in batches[b].inputs[i].runs
                  /\ Active(m, r) = {batches[b].inputs[i].step}
  <2>1. PICK i \in DOMAIN batches[b].inputs :
          /\ r \in batches[b].inputs[i].runs
          /\ batches[b].inputs[i].step \in Active(b.node, r)
          /\ Goes(batches[b].inputs[i].step, r)
    BY <1>2, <1>4, SealedMembers
  <2>2. Single(m, r) BY DEF Once
  <2>3. Clear(m, r) /\ Active(m, r) = {batches[b].inputs[i].step}
    BY <1>4, <2>1, <2>2, GoingClear
  <2>4. QED BY <2>1, <2>3
<1>5. ASSUME SentOn(r, n)', ~SentOn(r, n)
      PROVE  n = b.node /\ r \in SealedUnit(b).runs
  <2>1. PICK d \in data' : \E e \in Out(n) : d[1] = r /\ d[2] = e.id
    BY <1>5 DEF SentOn
  <2>2. PICK e \in Out(n) : d[1] = r /\ d[2] = e.id BY <2>1
  <2>3. d \notin data BY <1>5, <2>2 DEF SentOn
  <2>4. PICK g \in Out(b.node) : \E q \in SealedUnit(b).runs : d = <<q, g.id, SealedUnit(b)>>
    BY <2>3 DEF Seals
  <2>5. QED BY <2>2, <2>4, EdgeFacts
<1>6. CASE r \in SealedUnit(b).runs /\ \E e \in taken : e.to = n
  <2>1. PICK e \in taken : e.to = n BY <1>6
  <2>2. e \in Out(b.node) /\ e \in Edges /\ e.from = b.node /\ e \in In(n)
    BY <1>2, <2>1, EdgeFacts DEF In
  <2>3. In(n) = {e} BY <1>1, <2>2
  <2>4. b.node \notin Merges BY <1>2, <1>6, SealedMembers DEF Merges
  <2>5. b.node \in Simple /\ n # b.node BY <1>1, <2>1, <2>2, <2>4, NoLoop
  <2>6. Clear(b.node, r) BY <1>4, <1>6, <2>5
  <2>7. \A d \in data : ~(d[1] = r /\ d[2] = e.id) BY <2>2, <2>6 DEF Clear, SentOn
  <2>8. ~Visited(r, n) BY <2>3, <2>7, NeverThere
  <2>9. \A t \in DOMAIN steps' \ DOMAIN steps : t.node = n => t = Succ(e, SealedUnit(b))
    <3>1. TAKE t \in DOMAIN steps' \ DOMAIN steps
    <3>2. HAVE t.node = n
    <3>3. PICK g \in taken : t = Succ(g, SealedUnit(b)) BY <1>2
    <3>4. g \in In(n) BY <1>2, <3>2, <3>3, EdgeFacts DEF In, Succ
    <3>5. QED BY <2>3, <3>3, <3>4
  <2>10. SentOn(r, n)' => SentOn(r, n) BY <1>5, <2>5
  <2>11. QED BY <1>1, <1>2, <2>8, <2>9, <2>10, FirstComes
<1>7. CASE ~(r \in SealedUnit(b).runs /\ \E e \in taken : e.to = n)
  <2>1. \A t \in DOMAIN steps' \ DOMAIN steps : t.node = n => r \notin t.unit.runs
    BY <1>2, <1>7 DEF Succ
  <2>2. CASE SentOn(r, n)' => SentOn(r, n)
    BY <1>3, <2>1, <2>2, NobodyComes DEF Fewer
  <2>3. CASE SentOn(r, n)' /\ ~SentOn(r, n)
    <3>1. n = b.node /\ r \in SealedUnit(b).runs BY <1>5, <2>3
    <3>2. PICK i \in DOMAIN batches[b].inputs :
            /\ r \in batches[b].inputs[i].runs
            /\ Active(n, r) = {batches[b].inputs[i].step}
      BY <1>4, <3>1
    <3>3. PICK t : t = batches[b].inputs[i].step OBVIOUS
    <3>4. Active(n, r)' \subseteq {t} BY <2>1, <3>2, <3>3, NobodyComes
    <3>5. Clear(n, r) BY <1>4, <3>1
    <3>6. ASSUME t \in Active(n, r)' PROVE ~Goes(t, r)'
      <4>1. steps[t].state = "aggregating" /\ t \in DOMAIN steps
        BY <1>2, <3>3 DEF Collecting, Holds, InputsHeld
      <4>2. steps'[t].state \in {"aggregating", "complete"} BY <4>1, StepsEvolve DEF Evolves
      <4>3. \A c \in DOMAIN batches' : \A j \in DOMAIN batches'[c].inputs :
              ~(/\ batches'[c].state = "open"
                /\ batches'[c].inputs[j].step = t /\ r \in batches'[c].inputs[j].runs)
        <5>1. SUFFICES ASSUME NEW c \in DOMAIN batches', NEW j \in DOMAIN batches'[c].inputs,
                              batches'[c].state = "open",
                              batches'[c].inputs[j].step = t, r \in batches'[c].inputs[j].runs
                       PROVE  FALSE
          OBVIOUS
        <5>2. c # b /\ c \in DOMAIN batches /\ batches'[c] = batches[c] BY <5>1 DEF Seals
        <5>3. c = b BY <3>2, <3>3, <5>1, <5>2 DEF HeldOnce
        <5>4. QED BY <5>2, <5>3
      <4>4. QED BY <4>2, <4>3 DEF Goes, Terminal
    <3>7. Intents(n, r)' = {} BY <1>3, <3>5 DEF Clear
    <3>8. QED BY <3>4, <3>6, <3>7 DEF Passes
  <2>4. QED BY <2>2, <2>3
<1>8. QED BY <1>6, <1>7

\* A merge sends on runs it had not decided on.
LEMMA OnceSyncs ==
  ASSUME TypeOK, SegmentsNumbered, Members, InputsHeld, LeftMeansDecided,
         Whence, SendBooks, Visits, Once, [Next]_vars,
         NEW S \in syncs, NEW Away, Syncs(S, Away), NEW n \in Simple, NEW r \in Runs
  PROVE  Fewer(n, r) \/ Comes(n, r) \/ Passes(n, r)
<1>1. n \in Nodes \ Merges /\ \A e \in In(n) : In(n) = {e} BY SimpleIn
<1>2. /\ UNCHANGED sends
      /\ \A t \in DOMAIN steps' \ DOMAIN steps :
           \E x \in LeavesNow(Away) : t = Succ(x[1], x[2])
  BY DEF Syncs
<1>3. \A x \in LeavesNow(Away) : \E m \in Merges :
        /\ x[1] \in Out(m) /\ x[2] \in Joined(m, Away[m]) /\ x[2] \in Units
        /\ x[2].runs \in SUBSET Away[m] /\ Away[m] \in SUBSET (S \ revoked)
  <2>1. Syncs(S, Away) OBVIOUS
  <2>2. \A T \in syncs : \A Aw : Syncs(T, Aw) =>
          \A x \in LeavesNow(Aw) : \E m \in Merges :
            /\ x[1] \in Out(m) /\ x[2] \in Joined(m, Aw[m]) /\ x[2] \in Units
            /\ x[2].runs \in SUBSET Aw[m] /\ Aw[m] \in SUBSET (T \ revoked)
    BY UnitsTyped, Zenon
  <2>3. QED BY <2>1, <2>2
<1>4. Intents(n, r)' = Intents(n, r) BY <1>2 DEF Intents
<1>5. SentOn(r, n)' => SentOn(r, n)
  <2>1. SUFFICES ASSUME NEW d \in data', NEW e \in Out(n), d[1] = r, d[2] = e.id, d \notin data
                 PROVE  FALSE
    BY DEF SentOn
  <2>2. PICK x \in LeavesNow(Away) : d[2] = x[1].id BY <2>1 DEF Syncs
  <2>3. PICK m \in Merges : x[1] \in Out(m) BY <1>3
  <2>4. QED BY <1>1, <2>1, <2>2, <2>3, EdgeFacts
<1>6. CASE \A t \in DOMAIN steps' \ DOMAIN steps : t.node = n => r \notin t.unit.runs
  BY <1>4, <1>5, <1>6, NobodyComes DEF Fewer
<1>7. ASSUME NEW t \in DOMAIN steps' \ DOMAIN steps, t.node = n, r \in t.unit.runs
      PROVE  Comes(n, r)
  <2>1. PICK x \in LeavesNow(Away) : t = Succ(x[1], x[2]) BY <1>2
  <2>2. PICK e, m : e = x[1] /\ m \in Merges /\ e \in Out(m) /\ x[2].runs \in SUBSET Away[m]
    BY <1>3
  <2>3. e \in In(n) /\ r \in Away[m] BY <1>7, <2>1, <2>2, EdgeFacts DEF In, Succ
  <2>4. In(n) = {e} BY <1>1, <2>3
  <2>5. ~Decided(m, r)
    <3>1. <<m, r>> \in Ripe(S) BY <2>2, <2>3 DEF Syncs
    <3>2. QED BY <3>1, RipeIs
  <2>6. \A d \in data : ~(d[1] = r /\ d[2] = e.id) BY <2>2, <2>5 DEF LeftMeansDecided, Decided
  <2>7. ~Visited(r, n) BY <2>4, <2>6, NeverThere
  <2>8. ASSUME NEW s \in DOMAIN steps' \ DOMAIN steps, s.node = n, r \in s.unit.runs
        PROVE  s = t
    <3>1. PICK y \in LeavesNow(Away) : s = Succ(y[1], y[2]) BY <1>2
    <3>2. PICK k \in Merges : y[1] \in Out(k) /\ y[2] \in Joined(k, Away[k]) BY <1>3
    <3>3. PICK l \in Merges : x[1] \in Out(l) /\ x[2] \in Joined(l, Away[l]) BY <1>3
    <3>4. y[1] \in In(n) /\ x[1] \in In(n)
      BY <1>7, <2>1, <2>8, <3>1, <3>2, <3>3, EdgeFacts DEF In, Succ
    <3>5. y[1] = x[1] BY <2>4, <3>4
    <3>6. k = l BY <3>2, <3>3, <3>5, EdgeFacts
    <3>7. r \in y[2].runs /\ r \in x[2].runs BY <1>7, <2>1, <2>8, <3>1 DEF Succ
    <3>8. S \in SUBSET Runs BY DEF TypeOK
    <3>9. Away[l] \in SUBSET Runs BY <3>3, <3>8 DEF Syncs
    <3>10. y[2] = x[2] BY <3>2, <3>3, <3>6, <3>7, <3>9, JoinedUnits
    <3>11. QED BY <2>1, <3>1, <3>5, <3>10
  <2>9. QED BY <1>1, <1>2, <1>5, <2>7, <2>8, FirstComes
<1>8. QED BY <1>6, <1>7

\* No step makes a run pass a simple node twice.
LEMMA OnceStep ==
  ASSUME TypeOK, SegmentsNumbered, Members, InputsHeld, BatchNodes, Collecting, HeldOnce,
         LeftMeansDecided, Whence, SendBooks, Visits, Once, [Next]_vars
  PROVE  Once'
<1> SUFFICES ASSUME NEW n \in Simple, NEW r \in Runs
             PROVE  Fewer(n, r) \/ Comes(n, r) \/ Passes(n, r)
  BY StaysSingle DEF Once
<1>1. n \in Nodes \ Merges BY SimpleIn
<1>2. ASSUME DOMAIN steps' = DOMAIN steps, data' = data, DOMAIN sends' = DOMAIN sends,
             \A t \in DOMAIN sends : sends'[t].runs = sends[t].runs
      PROVE  Fewer(n, r)
  <2>1. (SentOn(r, n)' <=> SentOn(r, n)) /\ Intents(n, r)' = Intents(n, r)
    BY <1>2 DEF SentOn, Intents
  <2>2. QED BY <1>2, <2>1, NobodyComes DEF Fewer
<1>3. ASSUME NEW q \in Runs, Begins(q) PROVE Fewer(n, r) \/ Comes(n, r)
  <2>1. /\ UNCHANGED <<data, sends>> /\ q \notin Started
        /\ \A t \in DOMAIN steps' \ DOMAIN steps : t = FirstStep(q)
    BY <1>3 DEF Begins
  <2>2. (SentOn(r, n)' <=> SentOn(r, n)) /\ Intents(n, r)' = Intents(n, r)
    BY <2>1 DEF SentOn, Intents
  <2>3. FirstStep(q).unit.runs = {q} BY DEF FirstStep, FirstUnit
  <2>4. CASE r = q
    <3>1. ~Visited(r, n) BY <2>1, <2>4 DEF Started, Visited
    <3>2. QED BY <1>1, <2>1, <2>2, <3>1, FirstComes
  <2>5. CASE r # q
    <3>1. \A t \in DOMAIN steps' \ DOMAIN steps : t.node = n => r \notin t.unit.runs
      BY <2>1, <2>3, <2>5
    <3>2. QED BY <2>2, <3>1, NobodyComes DEF Fewer
  <2>6. QED BY <2>4, <2>5
<1>4. ASSUME NEW s \in DOMAIN steps, Leases(s) PROVE Fewer(n, r)
  BY <1>2, <1>4 DEF Leases
<1>5. CASE \E f \in flights : Conclude(f) BY <1>5, OnceConclude
<1>6. CASE \E b \in DOMAIN batches : \E taken : Seals(b, taken) BY <1>6, OnceSeals
<1>7. CASE \E S \in syncs : \E Away : Syncs(S, Away) BY <1>7, OnceSyncs
<1>8. CASE Rests /\ UNCHANGED sends BY <1>2, <1>8 DEF Rests
<1>9. ASSUME Rests, NEW s \in DOMAIN sends, Project(s) PROVE Fewer(n, r)
  BY <1>2, <1>9, ProjectKeeps DEF Rests
<1>10. QED BY <1>3, <1>4, <1>5, <1>6, <1>7, <1>8, <1>9, NextMoves

-----------------------------------------------------------------------------
(* A send node behind merges notifies once.                                *)

WayInv == SyncInv /\ SendBooks /\ Visits /\ Once

\* At the start nothing is under way.
LEMMA WayInit == Init => WayInv
<1> SUFFICES ASSUME Init PROVE WayInv
  OBVIOUS
<1>1. DOMAIN steps = {} /\ DOMAIN sends = {} /\ data = {} /\ jobs = {} BY DEF Init
<1>2. QED
  BY <1>1, SyncInit
  DEF WayInv, SendBooks, Visits, Once, Single, SentOn, Active, At, Intents, Through

\* Every operation keeps runs on their single ways.
LEMMA WayStep == WayInv /\ [Next]_vars => WayInv'
<1> SUFFICES ASSUME WayInv, [Next]_vars PROVE WayInv'
  OBVIOUS
<1>1. /\ SyncInv /\ TypeOK /\ SegmentsNumbered /\ InputsHeld /\ BatchNodes /\ Members
      /\ LeftMeansDecided /\ Whence /\ Collecting /\ HeldOnce
      /\ SendBooks /\ Visits /\ Once
  BY BooksAre DEF WayInv, SyncInv, GraphInv
<1>2. SyncInv' BY <1>1, SyncStep
<1>3. SendBooks' BY <1>1, SendBooksStep
<1>4. Visits' BY <1>1, VisitsStep
<1>5. Once' BY <1>1, OnceStep
<1>6. QED BY <1>2, <1>3, <1>4, <1>5 DEF WayInv

\* So it holds throughout.
LEMMA WayInvariant == Spec => []WayInv
BY WayInit, WayStep, PTL DEF Spec

\* The nodes that are reached through a merge alone satisfy the equation that
\* defines them.
Behind(g) ==
  g = [n \in Nodes |-> \E e \in Edges : In(n) = {e} /\ (e.from \in Merges \/ g[e.from])]

\* The nodes behind a merge are well defined, since the graph has no cycle.
LEMMA BehindExists == \E g : Behind(g)
<1> DEFINE Body(B) == {n \in Nodes : \E e \in Edges : In(n) = {e} /\ (e.from \in Merges \/ e.from \in B)}
           F == [B \in SUBSET Nodes |-> Body(B)]
<1>1. F \in [SUBSET Nodes -> SUBSET Nodes] OBVIOUS
<1>2. \A A, B \in SUBSET Nodes : A \subseteq B => F[A] \subseteq F[B] OBVIOUS
<1>3. PICK L \in SUBSET Nodes : F[L] = L
  <2> HIDE DEF F
  <2> QED BY <1>1, <1>2, FixedPoint
<1>4. L = Body(L) BY <1>3
<1> HIDE DEF F
<1> DEFINE f == [n \in Nodes |-> n \in L]
           g == [n \in Nodes |-> \E e \in Edges : In(n) = {e} /\ (e.from \in Merges \/ f[e.from])]
<1>5. \A e \in Edges : f[e.from] <=> e.from \in L BY GraphAssumption
<1>6. \A n \in Nodes : g[n] = f[n]
  <2>1. TAKE n \in Nodes
  <2>2. n \in L <=> \E e \in Edges : In(n) = {e} /\ (e.from \in Merges \/ e.from \in L)
    BY <1>4
  <2>3. g[n] <=> \E e \in Edges : In(n) = {e} /\ (e.from \in Merges \/ f[e.from])
    OBVIOUS
  <2>4. f[n] <=> n \in L OBVIOUS
  <2>5. f[n] \in BOOLEAN /\ g[n] \in BOOLEAN OBVIOUS
  <2> HIDE DEF f, g
  <2>6. QED BY <1>5, <2>2, <2>3, <2>4, <2>5
<1>7. f = g BY <1>6
<1>8. Behind(f) BY <1>7 DEF Behind
<1>9. QED BY <1>8

\* They are simple unless they are merges themselves.
LEMMA BehindSimple ==
  ASSUME NEW g, Behind(g), NEW n \in Nodes \ Merges, g[n]
  PROVE  n \in Simple
<1> DEFINE B == {m \in Nodes \ Merges : g[m]}
<1>1. GoodSet(B)
  <2>1. SUFFICES ASSUME NEW m \in B, NEW e \in In(m)
                 PROVE  In(m) = {e} /\ e.from \in Merges \cup B
    BY DEF GoodSet
  <2>2. PICK h \in Edges : In(m) = {h} /\ (h.from \in Merges \/ g[h.from]) BY DEF Behind
  <2>3. h = e /\ e.from \in Nodes BY <2>2, GraphAssumption
  <2>4. QED BY <2>2, <2>3
<1>2. B \in SUBSET (Nodes \ Merges) /\ n \in B OBVIOUS
<1> HIDE DEF B
<1>3. QED BY <1>1, <1>2 DEF Simple

\* OneNotification, by these nodes.
LEMMA OneNotificationIs ==
  \E g : /\ Behind(g)
         /\ OneNotification <=>
              /\ LeavesMergeOnce
              /\ \A n \in Nodes, r \in Runs : g[n] =>
                   Cardinality({j \in jobs : j.send.node = n /\ r \in j.runs}) <= 1
<1> DEFINE g == CHOOSE h : Behind(h)
<1>1. Behind(g) BY BehindExists
<1>2. OneNotification <=>
        /\ LeavesMergeOnce
        /\ \A n \in Nodes, r \in Runs : g[n] =>
             Cardinality({j \in jobs : j.send.node = n /\ r \in j.runs}) <= 1
  BY DEF OneNotification, Behind
<1>3. QED BY <1>1, <1>2

\* A run leaves each merge once and a send node reached through a merge alone
\* notifies once, whatever is retried, synchronized again or leased twice
\* (graph-join-store.js, projectOne).
THEOREM NotifiedOnce == Spec => []OneNotification
<1>1. WayInv => OneNotification
  <2>1. SUFFICES ASSUME WayInv PROVE OneNotification
    OBVIOUS
  <2>2. PICK g : /\ Behind(g)
                 /\ OneNotification <=>
                      /\ LeavesMergeOnce
                      /\ \A n \in Nodes, r \in Runs : g[n] =>
                           Cardinality({j \in jobs : j.send.node = n /\ r \in j.runs}) <= 1
    BY OneNotificationIs
  <2>3. LeavesMergeOnce BY <2>1, LeavesOnce DEF WayInv, SyncInv
  <2>4. ASSUME NEW n \in Nodes, NEW r \in Runs, g[n]
        PROVE  Cardinality({j \in jobs : j.send.node = n /\ r \in j.runs}) <= 1
    <3> DEFINE D == {j \in jobs : j.send.node = n /\ r \in j.runs}
    <3>1. \A j \in D : /\ j.send \in DOMAIN sends /\ j.send \in Intents(n, r)
                       /\ j.dest = Dest[r] /\ Type[n] = "send"
      BY <2>1 DEF WayInv, SendBooks, Intents
    <3>2. \A j, k \in D : j = k
      <4>1. TAKE j, k \in D
      <4>2. n \notin Merges BY <3>1 DEF Merges
      <4>3. n \in Simple BY <2>2, <2>4, <4>2, BehindSimple
      <4>4. j.send = k.send BY <2>1, <3>1, <4>3 DEF WayInv, Once, Single
      <4>5. QED BY <2>1, <3>1, <4>4 DEF WayInv, SendBooks
    <3>3. CASE D = {} BY <3>3, FS_EmptySet
    <3>4. CASE D # {}
      <4>1. PICK j \in D : TRUE BY <3>4
      <4>2. D = {j} BY <3>2, <4>1
      <4>3. Cardinality(D) = 1 BY <4>2, FS_Singleton
      <4>4. QED BY <4>3
    <3>5. QED BY <3>3, <3>4
  <2>5. QED BY <2>2, <2>3, <2>4
<1>2. QED BY <1>1, WayInvariant, PTL

-----------------------------------------------------------------------------
(* What a closed edge means where branches part but never reconverge.       *)

\* An ordinary block is reached over one edge; only merges join branches.
Treelike == \A n \in Nodes \ Merges : \A e, g \in In(n) : e = g

\* The run came over the edge, or never will.
Reached(r, e) == <<r, e.id>> \in closed \/ \E d \in data : d[1] = r /\ d[2] = e.id
\* The node is through with the run.
Done(r, n) ==
  IF n \in Merges THEN Shut(r, n) /\ (Decided(n, r) \/ Arrivals(r, n) = {})
  ELSE Active(n, r) = {} /\ \A g \in In(n) : Reached(r, g)
ClosedStarted == \A c \in closed : c[1] \in Started
ClosedMeans ==
  \A r \in Runs : Sound(r) => \A e \in Edges : <<r, e.id>> \in closed => Done(r, e.from)
DecidedMeans == \A d \in DOMAIN decisions : Sound(d[2]) => Shut(d[2], d[1])

\* Then every ordinary block is simple.
LEMMA TreeSimple == Treelike => Simple = Nodes \ Merges
<1> SUFFICES ASSUME Treelike PROVE Simple = Nodes \ Merges
  OBVIOUS
<1>1. GoodSet(Nodes \ Merges)
  <2>1. SUFFICES ASSUME NEW n \in Nodes \ Merges, NEW e \in In(n)
                 PROVE  In(n) = {e} /\ e.from \in Merges \cup (Nodes \ Merges)
    BY DEF GoodSet
  <2>2. e.from \in Nodes BY GraphAssumption DEF In
  <2>3. QED BY <2>2 DEF Treelike
<1>2. QED BY <1>1 DEF Simple

\* A run that is at an ordinary block came over its edge.
LEMMA VisitedReached ==
  ASSUME Treelike, Whence, NEW n \in Nodes \ Merges, NEW r, Visited(r, n), NEW g \in In(n)
  PROVE  \E d \in data : d[1] = r /\ d[2] = g.id
<1>1. PICK s \in DOMAIN steps : s.node = n /\ r \in s.unit.runs BY DEF Visited
<1>2. \A q : s # FirstStep(q)
  <2>1. \A q : FirstStep(q).node = StartNode BY DEF FirstStep
  <2>2. g \in Edges /\ g.to = n BY DEF In
  <2>3. QED BY <1>1, <2>1, <2>2, PlanAssumption
<1>3. PICK e \in Edges : \E u \in Units :
        e.id = s.via /\ e.to = s.node /\ \A q \in s.unit.runs : <<q, e.id, u>> \in data
  BY <1>2 DEF Whence, Arrived
<1>4. PICK u : <<r, e.id, u>> \in data BY <1>1, <1>3
<1>5. e = g BY <1>1, <1>3 DEF In, Treelike
<1>6. QED BY <1>4, <1>5

\* A block that is still to send a run on has sent it nowhere and closed nothing.
LEMMA GoingOpen ==
  ASSUME Treelike, Once, ClosedMeans, NEW n \in Nodes \ Merges, NEW r \in Runs, Sound(r),
         NEW s \in Active(n, r), Goes(s, r), NEW e \in Out(n)
  PROVE  ~Reached(r, e)
<1>1. n \in Simple BY TreeSimple
<1>2. Single(n, r) BY <1>1 DEF Once
<1>3. ~SentOn(r, n) BY <1>2, GoingClear DEF Clear
<1>4. e \in Edges /\ e.from = n BY EdgeFacts
<1>5. <<r, e.id>> \notin closed BY <1>4 DEF ClosedMeans, Done
<1>6. QED BY <1>3, <1>5 DEF Reached, SentOn

\* Nor has a merge for a run that leaves it, and the closure leaves its edges open.
LEMMA LeavingOpen ==
  ASSUME TypeOK, LeftMeansDecided, ClosedMeans, NEW S \in syncs, NEW Away, Syncs(S, Away),
         NEW m \in Merges, NEW r \in Away[m], Sound(r), NEW e \in Out(m)
  PROVE  ~Reached(r, e) /\ e.id \notin Closable(r)
<1>1. <<m, r>> \in Ripe(S) /\ Arrivals(r, m) # {} BY DEF Syncs
<1>2. ~Decided(m, r) BY <1>1, RipeIs
<1>3. r \in Runs
  <2>1. S \in SUBSET Runs BY DEF TypeOK
  <2>2. QED BY <2>1 DEF Syncs
<1>4. \A d \in data : ~(d[1] = r /\ d[2] = e.id) BY <1>2 DEF LeftMeansDecided, Decided
<1>5. e \in Edges /\ e.from = m BY EdgeFacts
<1>6. <<r, e.id>> \notin closed BY <1>1, <1>2, <1>3, <1>5 DEF ClosedMeans, Done
<1>7. ~Exhausted(r, m) BY <1>1, <1>2 DEF Exhausted, Merges
<1>8. e.id \notin ClosedNow(r)
  <2>1. PICK f : /\ Closes(r, f)
                 /\ ClosedNow(r) = {h.id : h \in {g \in Edges : <<r, g.id>> \in closed \/ f[g.from]}}
    BY ClosedNowIs
  <2>2. ~f[m] 
    <3>1. m \in Nodes BY DEF Merges
    <3>2. QED BY <1>7, <2>1, <3>1 DEF Closes
  <2>3. \A g \in Edges : g.id = e.id => g = e BY <1>5, GraphAssumption
  <2>4. QED BY <1>5, <1>6, <2>1, <2>2, <2>3
<1>9. e.id \notin Closable(r)
  <2>1. e.id \in Closable(r) /\ ~Present(r) => <<r, e.id>> \in closed BY ClosableKeeps
  <2>2. QED BY <1>6, <1>8, <2>1 DEF Closable
<1>10. QED BY <1>4, <1>6, <1>9 DEF Reached

\* A new receipt is of a run that the edge was still open for.
LEMMA NewReceipts ==
  ASSUME TypeOK, SegmentsNumbered, Members, InputsHeld, BatchNodes, Collecting,
         LeftMeansDecided, Treelike, Once, ClosedMeans, [Next]_vars,
         NEW r \in Runs, Sound(r), NEW d \in data' \ data, d[1] = r,
         NEW e \in Edges, d[2] = e.id
  PROVE  ~Reached(r, e)
<1>1. \A n : \A g \in Out(n) : g.id = e.id => g = e BY EdgeFacts, GraphAssumption
<1>2. ASSUME NEW f \in flights, Conclude(f) PROVE ~Reached(r, e)
  <2>1. PICK sent : Leaves(f, sent) BY <1>2, ConcludeMoves DEF Splits, Stays, Admits, Idles
  <2>2. PICK g \in Out(f.step.node) : \E q \in sent[g] : d = <<q, g.id, Onward(f.step, sent[g])>>
    BY <2>1 DEF Leaves
  <2>3. g = e /\ r \in sent[e] BY <1>1, <2>2
  <2>4. /\ f.step \in DOMAIN steps /\ f.step.node \in Nodes
        /\ steps[f.step].state = "leased" /\ r \in steps[f.step].runs
        /\ f.step.node \notin Merges
    BY <2>1, <2>2, <2>3, FlightFields DEF Leaves, Owned, Eligible, Plain, Merges
  <2>5. f.step \in Active(f.step.node, r) /\ Goes(f.step, r)
    BY <2>4 DEF Active, At, Goes, Terminal
  <2>6. QED BY <2>2, <2>3, <2>4, <2>5, GoingOpen
<1>3. ASSUME NEW b \in DOMAIN batches, NEW taken, Seals(b, taken) PROVE ~Reached(r, e)
  <2>1. PICK g \in Out(b.node) : \E q \in SealedUnit(b).runs : d = <<q, g.id, SealedUnit(b)>>
    BY <1>3 DEF Seals
  <2>2. g = e /\ r \in SealedUnit(b).runs BY <1>1, <2>1
  <2>3. batches[b].state = "open" BY <1>3 DEF Seals
  <2>4. PICK i \in DOMAIN batches[b].inputs :
          /\ batches[b].inputs[i].step \in Active(b.node, r)
          /\ Goes(batches[b].inputs[i].step, r)
    BY <2>2, <2>3, SealedMembers
  <2>5. b.node \in Nodes \ Merges BY <2>2, <2>3, SealedMembers, InputFields DEF Merges
  <2>6. QED BY <2>1, <2>2, <2>4, <2>5, GoingOpen
<1>4. ASSUME NEW S \in syncs, NEW Away, Syncs(S, Away) PROVE ~Reached(r, e)
  <2>1. PICK x \in LeavesNow(Away) : \E q \in x[2].runs : d = <<q, x[1].id, x[2]>>
    BY <1>4 DEF Syncs
  <2>2. PICK m \in Merges : x[1] \in Out(m) /\ x[2].runs \in SUBSET Away[m]
    BY <1>4, UnitsTyped
  <2>3. x[1] = e /\ r \in Away[m] BY <1>1, <2>1, <2>2
  <2>4. QED BY <1>4, <2>2, <2>3, LeavingOpen
<1>5. QED BY <1>2, <1>3, <1>4, NextMoves DEF Begins, Leases, Rests

\* Receipts stay.
LEMMA ReceiptsStay ==
  ASSUME TypeOK, SegmentsNumbered, [Next]_vars
  PROVE  /\ data \subseteq data'
         /\ \A r : \A e : Reached(r, e) => Reached(r, e)'
<1>1. data \subseteq data' /\ closed \subseteq closed'
  BY ConcludeMoves, NextMoves
  DEF Begins, Leases, Rests, Seals, Syncs, Leaves, Splits, Stays, Admits, Idles
<1>2. QED BY <1>1 DEF Reached

\* What arrived at a block is the same if nothing comes over its edges.
NoneNew(r, n) == \A g \in In(n) : \A d \in data' \ data : ~(d[1] = r /\ d[2] = g.id)

\* Then what arrived at the node stays as it was.
LEMMA ArrivalsStay ==
  ASSUME TypeOK, SegmentsNumbered, [Next]_vars, NEW r, NEW n, NoneNew(r, n)
  PROVE  Arrivals(r, n)' = Arrivals(r, n)
<1>1. data \subseteq data' BY ReceiptsStay
<1>2. Data(r, n)' = Data(r, n) BY <1>1 DEF Data, NoneNew
<1>3. QED BY <1>2 DEF Arrivals

\* Nothing does when every edge was reached.
LEMMA ReachedNone ==
  ASSUME TypeOK, SegmentsNumbered, Members, InputsHeld, BatchNodes, Collecting,
         LeftMeansDecided, Treelike, Once, ClosedMeans, [Next]_vars,
         NEW r \in Runs, Sound(r), NEW n, \A g \in In(n) : Reached(r, g)
  PROVE  NoneNew(r, n)
<1>1. \A e \in In(n) : e \in Edges BY DEF In
<1>2. QED BY <1>1, NewReceipts DEF NoneNew

\* Where a new activation comes from.
LEMMA NewSteps ==
  ASSUME TypeOK, SegmentsNumbered, [Next]_vars, NEW t \in DOMAIN steps' \ DOMAIN steps
  PROVE  \/ \E q \in Runs : q \notin Started /\ t = FirstStep(q)
         \/ \E f \in flights : \E K :
              Splits(f, K) /\ t.node = f.step.node /\ t.unit.runs \subseteq K
         \/ \E e \in Edges : \E u \in Units :
              t = Succ(e, u) /\ \A r \in u.runs : <<r, e.id, u>> \in data'
<1> DEFINE Came == \E e \in Edges : \E u \in Units :
                     t = Succ(e, u) /\ \A r \in u.runs : <<r, e.id, u>> \in data'
<1>1. CASE \E q \in Runs : Begins(q) BY <1>1 DEF Begins
<1>2. ASSUME NEW f \in flights, Conclude(f)
      PROVE  Came \/ \E K : Splits(f, K) /\ t.node = f.step.node /\ t.unit.runs \subseteq K
  <2>1. ASSUME NEW sent, Leaves(f, sent) PROVE Came
    <3>1. PICK e \in Out(f.step.node) : t = Succ(e, Onward(f.step, sent[e]))
      BY <2>1 DEF Leaves, Turns, NextSteps
    <3>2. PICK u : u = Onward(f.step, sent[e]) OBVIOUS
    <3>3. u \in Units /\ u.runs = sent[e] /\ e \in Edges BY <2>1, <3>2, UnitsTyped, EdgeFacts
    <3>4. \A r \in u.runs : <<r, e.id, u>> \in data' BY <2>1, <3>2, <3>3 DEF Leaves
    <3>5. QED BY <3>1, <3>2, <3>3, <3>4
  <2>2. ASSUME NEW K, Splits(f, K)
        PROVE  t.node = f.step.node /\ t.unit.runs \subseteq K
    <3>1. f.step \in StepIds /\ f.runs \in SUBSET Runs BY FlightFields
    <3>2. PICK G \in Groups(f.step.node, K) : t = Part(f.step, G) BY <2>2 DEF Splits, Turns
    <3>3. G \in SUBSET K /\ K \in SUBSET Runs BY <2>2, <3>1 DEF Groups, Splits
    <3>4. Onward(f.step, G).runs = G BY <3>1, <3>3, OnwardTyped
    <3>5. QED BY <3>1, <3>2, <3>3, <3>4 DEF Part, StepIds
  <2>3. CASE Stays(f) \/ (\E K, into : Admits(f, K, into)) \/ Idles
    BY <2>3 DEF Stays, Admits, Idles, Turns
  <2>4. QED BY <1>2, <2>1, <2>2, <2>3, ConcludeMoves
<1>3. ASSUME NEW b \in DOMAIN batches, NEW taken, Seals(b, taken) PROVE Came
  <2>1. PICK u : u = SealedUnit(b) OBVIOUS
  <2>2. PICK e \in taken : t = Succ(e, u) BY <1>3, <2>1 DEF Seals
  <2>3. u \in Units /\ e \in Edges BY <1>3, <2>1, UnitsTyped, EdgeFacts DEF Seals
  <2>4. \A r \in u.runs : <<r, e.id, u>> \in data' BY <1>3, <2>1, <2>2 DEF Seals
  <2>5. QED BY <2>2, <2>3, <2>4
<1>4. ASSUME NEW S \in syncs, NEW Away, Syncs(S, Away) PROVE Came
  <2>1. PICK x \in LeavesNow(Away) : t = Succ(x[1], x[2]) BY <1>4 DEF Syncs
  <2>2. PICK m \in Merges : x[1] \in Out(m) /\ x[2] \in Units BY <1>4, UnitsTyped
  <2>3. x[1] \in Edges BY <2>2, EdgeFacts
  <2>4. \A r \in x[2].runs : <<r, x[1].id, x[2]>> \in data' BY <1>4 DEF Syncs
  <2>5. QED BY <2>1, <2>2, <2>3, <2>4
<1>5. QED BY <1>1, <1>2, <1>3, <1>4, NextMoves DEF Leases, Rests

\* So no activation comes to a block if no receipt does and it splits none.
LEMMA NobodyNew ==
  ASSUME TypeOK, SegmentsNumbered, Members, InputsHeld, Carried, [Next]_vars,
         NEW n, NEW r \in Started, Active(n, r) = {} \/ closed' # closed, NoneNew(r, n)
  PROVE  Active(n, r)' \subseteq Active(n, r)
<1>1. SUFFICES ASSUME NEW t \in DOMAIN steps' \ DOMAIN steps, t.node = n, r \in t.unit.runs
               PROVE  FALSE
  <2>1. \A t \in DOMAIN steps' \ DOMAIN steps : t.node = n => r \notin t.unit.runs BY <1>1
  <2>2. QED BY <2>1, NobodyComes
<1>2. ASSUME NEW q \in Runs, q \notin Started, t = FirstStep(q) PROVE FALSE
  BY <1>1, <1>2 DEF FirstStep, FirstUnit
<1>3. ASSUME NEW f \in flights, NEW K, Splits(f, K), n = f.step.node, r \in K PROVE FALSE
  <2>1. f.step \in DOMAIN steps BY FlightFields
  <2>2. f.step \in Active(n, r) /\ closed' = closed
    BY <1>3, <2>1 DEF Splits, Owned, Eligible, Active, At, Terminal
  <2>3. QED BY <2>2
<1>4. ASSUME NEW e \in Edges, NEW u \in Units, t = Succ(e, u), <<r, e.id, u>> \in data'
      PROVE  FALSE
  <2>1. e \in In(n) BY <1>1, <1>4 DEF Succ, In
  <2>2. <<r, e.id, u>> \in data BY <1>4, <2>1 DEF NoneNew
  <2>3. PICK g \in Edges : g.id = e.id /\ Succ(g, u) \in DOMAIN steps BY <2>2 DEF Carried
  <2>4. g = e BY <2>3, GraphAssumption
  <2>5. QED BY <1>1, <1>4, <2>3, <2>4
<1>5. \A e : \A u : t = Succ(e, u) => r \in u.runs BY <1>1 DEF Succ
<1>6. QED BY <1>1, <1>2, <1>3, <1>4, <1>5, NewSteps

\* Only edges of runs that began are closed.
LEMMA ClosedStartedStep ==
  ASSUME TypeOK, SegmentsNumbered, Members, InputsHeld, ClosedStarted, [Next]_vars
  PROVE  ClosedStarted'
<1>1. Started \subseteq Started'
  <2>1. TableGrows BY StepsGrow
  <2>2. QED BY <2>1 DEF Started, TableGrows
<1>2. \A t \in DOMAIN steps : steps[t].runs \subseteq Started
  <2>1. TAKE t \in DOMAIN steps
  <2>2. t \in StepIds /\ steps[t].runs \subseteq t.unit.runs
    BY DEF TypeOK, Members, StepMembers
  <2>3. t.unit.runs \in SUBSET Runs BY <2>2, StepFields
  <2>4. QED BY <2>2, <2>3 DEF Started
<1>3. SUFFICES ASSUME NEW c \in closed' \ closed PROVE c[1] \in Started
  BY <1>1 DEF ClosedStarted
<1>4. ASSUME NEW f \in flights, Conclude(f) PROVE c[1] \in Started
  <2>1. f.step \in DOMAIN steps /\ f.runs \subseteq f.step.unit.runs
    BY FlightFields DEF Members, FlightMembers
  <2>2. f.runs \in SUBSET Runs BY FlightFields
  <2>3. f.runs \cup steps[f.step].runs \subseteq Started BY <1>2, <2>1, <2>2 DEF Started
  <2>4. ASSUME NEW sent, Leaves(f, sent) PROVE c[1] \in f.runs BY <2>4 DEF Leaves
  <2>5. ASSUME Stays(f) PROVE c[1] \in f.runs \cup steps[f.step].runs
    BY <2>5 DEF Stays, NoPath
  <2>6. QED BY <1>4, <2>3, <2>4, <2>5, ConcludeMoves DEF Splits, Admits, Idles
<1>5. ASSUME NEW b \in DOMAIN batches, NEW taken, Seals(b, taken) PROVE c[1] \in Started
  <2>1. \E s \in LastOf(b) : c \in NoPath(steps[s].runs, b.node) BY <1>5 DEF Seals
  <2>2. \A s \in LastOf(b) : s \in DOMAIN steps BY DEF LastOf, InputsHeld
  <2>3. QED BY <1>2, <2>1, <2>2 DEF NoPath
<1>6. ASSUME NEW S \in syncs, NEW Away, Syncs(S, Away) PROVE c[1] \in Started
  <2>1. PICK r \in S \ revoked : \E id \in Closable(r) : c = <<r, id>> BY <1>6 DEF Syncs
  <2>2. Present(r) BY <2>1, ClosableKeeps
  <2>3. QED BY <1>2, <2>1, <2>2 DEF Present
<1>7. QED BY <1>4, <1>5, <1>6, NextMoves DEF Begins, Leases, Rests

\* What is decided was closed before.
LEMMA DecidedMeansStep ==
  ASSUME TypeOK, SegmentsNumbered, DecidedMeans, [Next]_vars
  PROVE  DecidedMeans'
<1>1. /\ \A r : Sound(r)' => Sound(r)
      /\ \A r, n : Shut(r, n) => Shut(r, n)'
  <2>1. revoked \subseteq revoked' /\ expired \subseteq expired' BY StepsEvolve
  <2>2. closed \subseteq closed'
    BY ConcludeMoves, NextMoves
    DEF Begins, Leases, Rests, Seals, Syncs, Leaves, Splits, Stays, Admits, Idles
  <2>3. QED BY <2>1, <2>2 DEF Sound, Shut
<1>2. SUFFICES ASSUME NEW d \in DOMAIN decisions', d \notin DOMAIN decisions, Sound(d[2])'
               PROVE  Shut(d[2], d[1])'
  BY <1>1 DEF DecidedMeans
<1>3. ASSUME NEW S \in syncs, NEW Away, Syncs(S, Away) PROVE Shut(d[2], d[1])'
  <2>1. d \in Ripe(S) \cup Withdrawn(S) BY <1>2, <1>3 DEF Syncs
  <2>2. d[2] \notin revoked BY <1>1, <1>2 DEF Sound
  <2>3. d \in Ripe(S) BY <2>1, <2>2 DEF Withdrawn
  <2>4. PICK m, r : d = <<m, r>> BY <2>3 DEF Ripe, Deciding
  <2>5. r \in S \ revoked /\ \A e \in In(m) : e.id \in Closable(r) BY <2>3, <2>4, RipeIs
  <2>6. QED BY <1>3, <2>4, <2>5 DEF Syncs, Shut
<1>4. QED BY <1>2, <1>3, ConcludeMoves, NextMoves DEF Begins, Leases, Rests, Seals

\* The premises of the steps that follow.
TreeInv ==
  /\ WayInv /\ ClosedStarted
  /\ Treelike => ClosedMeans /\ DecidedMeans /\ MergeSawEverything

\* What the proofs below use of it.
LEMMA TreeFacts ==
  ASSUME TreeInv, Treelike
  PROVE  /\ TypeOK /\ SegmentsNumbered /\ Members /\ InputsHeld /\ BatchNodes /\ Collecting
         /\ LeftMeansDecided /\ Whence /\ Carried /\ Once
         /\ ClosedStarted /\ ClosedMeans /\ DecidedMeans /\ MergeSawEverything
BY BooksAre DEF TreeInv, WayInv, SyncInv, GraphInv

\* Nothing comes over an edge the closure closes.
LEMMA ClosableNone ==
  ASSUME TreeInv, Treelike, NEW S \in syncs, NEW Away, Syncs(S, Away),
         NEW r \in Runs, Sound(r), NEW n, \A e \in In(n) : e.id \in Closable(r)
  PROVE  NoneNew(r, n)
<1> SUFFICES ASSUME NEW g \in In(n), NEW d \in data' \ data, d[1] = r, d[2] = g.id
             PROVE  FALSE
  BY DEF NoneNew
<1>1. TypeOK /\ LeftMeansDecided /\ ClosedMeans BY TreeFacts
<1>2. PICK x \in LeavesNow(Away) : \E q \in x[2].runs : d = <<q, x[1].id, x[2]>> BY DEF Syncs
<1>3. PICK m \in Merges : x[1] \in Out(m) /\ x[2].runs \in SUBSET Away[m]
  BY <1>1, UnitsTyped
<1>4. r \in Away[m] /\ g.id = x[1].id BY <1>2, <1>3
<1>5. x[1].id \notin Closable(r) BY <1>1, <1>3, <1>4, LeavingOpen
<1>6. QED BY <1>4, <1>5

\* A merge decides over all that ever arrives.
LEMMA MergeSawStep ==
  ASSUME TreeInv, Treelike, [Next]_vars
  PROVE  MergeSawEverything'
<1>1. /\ TypeOK /\ SegmentsNumbered /\ Members /\ InputsHeld /\ BatchNodes /\ Collecting
      /\ LeftMeansDecided /\ Once /\ ClosedMeans /\ DecidedMeans /\ MergeSawEverything
  BY TreeFacts
<1>2. SUFFICES ASSUME NEW d \in DOMAIN decisions', Sound(d[2])'
               PROVE  decisions'[d].arrivals = Arrivals(d[2], d[1])'
  BY DEF MergeSawEverything
<1>3. Sound(d[2])
  <2>1. revoked \subseteq revoked' /\ expired \subseteq expired' BY <1>1, StepsEvolve
  <2>2. QED BY <1>2, <2>1 DEF Sound
<1>4. CASE d \in DOMAIN decisions
  <2>1. Shut(d[2], d[1]) /\ d[2] \in Runs BY <1>1, <1>3, <1>4 DEF DecidedMeans, TypeOK
  <2>2. \A g \in In(d[1]) : Reached(d[2], g) BY <2>1 DEF Shut, Reached
  <2>3. Arrivals(d[2], d[1])' = Arrivals(d[2], d[1])
    BY <1>1, <1>3, <2>1, <2>2, ReachedNone, ArrivalsStay
  <2>4. decisions'[d] = decisions[d]
    BY <1>1, <1>4, ConcludeMoves, NextMoves DEF Begins, Leases, Rests, Seals, Syncs
  <2>5. QED BY <1>1, <1>3, <1>4, <2>3, <2>4 DEF MergeSawEverything
<1>5. ASSUME d \notin DOMAIN decisions, NEW S \in syncs, NEW Away, Syncs(S, Away)
      PROVE  decisions'[d].arrivals = Arrivals(d[2], d[1])'
  <2>1. d \in Ripe(S)
    <3>1. d \in Ripe(S) \cup Withdrawn(S) BY <1>2, <1>5 DEF Syncs
    <3>2. QED BY <1>3, <3>1 DEF Sound, Withdrawn
  <2>2. decisions'[d].arrivals = Arrivals(d[2], d[1]) BY <1>5, <2>1 DEF Syncs
  <2>3. PICK m, r : d = <<m, r>> BY <2>1 DEF Ripe, Deciding
  <2>4. r \in S /\ \A e \in In(m) : e.id \in Closable(r) BY <2>1, <2>3, RipeIs
  <2>5. r \in Runs BY <1>1, <2>4 DEF TypeOK
  <2>6. NoneNew(r, m) BY <1>3, <1>5, <2>3, <2>4, <2>5, ClosableNone
  <2>7. QED BY <1>1, <2>2, <2>3, <2>6, ArrivalsStay
<1>6. QED
  BY <1>1, <1>2, <1>4, <1>5, ConcludeMoves, NextMoves DEF Begins, Leases, Rests, Seals

\* A block that is through with a run stays so.
LEMMA DoneStays ==
  ASSUME TreeInv, Treelike, [Next]_vars, NEW r \in Started, Sound(r), NEW n \in Nodes, Done(r, n)
  PROVE  Done(r, n)'
<1>1. /\ TypeOK /\ SegmentsNumbered /\ Members /\ InputsHeld /\ BatchNodes /\ Collecting
      /\ LeftMeansDecided /\ Whence /\ Carried /\ Once /\ ClosedMeans
  BY TreeFacts
<1>2. r \in Runs BY DEF Started
<1>3. \A e : Reached(r, e) => Reached(r, e)' BY <1>1, ReceiptsStay
<1>4. CASE n \in Merges
  <2>1. Shut(r, n) BY <1>4 DEF Done
  <2>2. \A g \in In(n) : Reached(r, g) BY <2>1 DEF Shut, Reached
  <2>3. Arrivals(r, n)' = Arrivals(r, n) BY <1>1, <1>2, <2>2, ReachedNone, ArrivalsStay
  <2>4. closed \subseteq closed' /\ DOMAIN decisions \subseteq DOMAIN decisions'
    BY <1>1, ConcludeMoves, NextMoves
    DEF Begins, Leases, Rests, Seals, Syncs, Leaves, Splits, Stays, Admits, Idles
  <2>5. QED BY <1>4, <2>3, <2>4 DEF Done, Shut, Decided
<1>5. CASE n \notin Merges
  <2>1. Active(n, r) = {} /\ \A g \in In(n) : Reached(r, g) BY <1>5 DEF Done
  <2>2. Active(n, r)' \subseteq Active(n, r) BY <1>1, <1>2, <2>1, ReachedNone, NobodyNew
  <2>3. QED BY <1>3, <1>5, <2>1, <2>2 DEF Done
<1>6. QED BY <1>4, <1>5

\* A block is through with the runs of an activation that ends.
LEMMA ActiveEnds ==
  ASSUME TreeInv, Treelike, [Next]_vars, NEW r \in Runs, Sound(r), NEW n \in Nodes \ Merges,
         NEW s \in Active(n, r), steps'[s].state \in Terminal, closed' # closed
  PROVE  Done(r, n)'
<1>1. /\ TypeOK /\ SegmentsNumbered /\ Members /\ InputsHeld /\ BatchNodes /\ Collecting
      /\ LeftMeansDecided /\ Whence /\ Carried /\ Once /\ ClosedMeans
  BY TreeFacts
<1>2. s \in DOMAIN steps /\ s.node = n /\ r \in s.unit.runs
  BY <1>1 DEF Active, At, Members, StepMembers
<1>3. r \in Started BY <1>2 DEF Started
<1>4. n \in Simple BY TreeSimple
<1>5. Active(n, r) = {s} BY <1>1, <1>4 DEF Once, Single
<1>6. \A g \in In(n) : Reached(r, g) BY <1>1, <1>2, VisitedReached DEF Visited, Reached
<1>7. Active(n, r)' \subseteq {s} BY <1>1, <1>3, <1>5, <1>6, ReachedNone, NobodyNew
<1>8. Active(n, r)' = {} BY <1>7 DEF Active
<1>9. \A g \in In(n) : Reached(r, g)' BY <1>1, <1>6, ReceiptsStay
<1>10. QED BY <1>8, <1>9 DEF Done

\* What the closure adds is right: the block has nothing left to send.
LEMMA ClosureRight ==
  ASSUME TreeInv, Treelike, [Next]_vars, NEW S \in syncs, NEW Away, Syncs(S, Away),
         NEW r \in S \ revoked, Sound(r), NEW e \in Edges, e.id \in Closable(r),
         <<r, e.id>> \notin closed
  PROVE  Done(r, e.from)'
<1>1. /\ TypeOK /\ SegmentsNumbered /\ Members /\ InputsHeld /\ BatchNodes /\ Collecting
      /\ LeftMeansDecided /\ Whence /\ Carried /\ Once /\ ClosedMeans
  BY TreeFacts
<1>2. r \in Runs BY <1>1 DEF TypeOK
<1>3. PICK n : n = e.from /\ n \in Nodes BY GraphAssumption
<1>4. Present(r) BY <1>3, ClosableKeeps
<1>5. r \in Started
  <2>1. PICK t \in DOMAIN steps : r \in steps[t].runs BY <1>4 DEF Present
  <2>2. r \in t.unit.runs BY <1>1, <2>1 DEF Members, StepMembers
  <2>3. QED BY <1>2, <2>1, <2>2 DEF Started
<1>6. PICK f : /\ Closes(r, f)
               /\ ClosedNow(r) = {h.id : h \in {g \in Edges : <<r, g.id>> \in closed \/ f[g.from]}}
  BY ClosedNowIs
<1>7. Closable(r) = ClosedNow(r) BY <1>4 DEF Closable
<1>8. f[n]
  <2>1. PICK h \in Edges : h.id = e.id /\ (<<r, h.id>> \in closed \/ f[h.from])
    BY <1>6, <1>7
  <2>2. h = e BY <2>1, GraphAssumption
  <2>3. QED BY <1>3, <2>1, <2>2
<1>9. Exhausted(r, n) /\ \A g \in In(n) : <<r, g.id>> \in closed \/ f[g.from]
  BY <1>3, <1>6, <1>8 DEF Closes
<1>10. \A g \in In(n) : g.id \in Closable(r)
  BY <1>6, <1>7, <1>9 DEF In
<1>11. NoneNew(r, n) BY <1>2, <1>10, ClosableNone
<1>12. Arrivals(r, n)' = Arrivals(r, n) BY <1>1, <1>11, ArrivalsStay
<1>13. Shut(r, n)' BY <1>10 DEF Syncs, Shut
<1>14. \A m : Decided(m, r) => Decided(m, r)' BY DEF Syncs, Decided
<1>15. CASE n \in Merges
  <2>1. Decided(n, r) \/ Arrivals(r, n) = {} BY <1>9, <1>15 DEF Exhausted, Merges
  <2>2. QED BY <1>3, <1>12, <1>13, <1>14, <1>15, <2>1 DEF Done
<1>16. CASE n \notin Merges
  <2>1. Active(n, r) = {} BY <1>3, <1>9, <1>16 DEF Exhausted, Merges, Active
  <2>2. Active(n, r)' = {} BY <1>1, <1>5, <1>11, <2>1, NobodyNew
  <2>3. QED BY <1>3, <1>13, <1>16, <2>2 DEF Done, Shut, Reached
<1>17. QED BY <1>15, <1>16

\* An edge is closed only behind a block that is through with the run.
LEMMA ClosedMeansStep ==
  ASSUME TreeInv, Treelike, [Next]_vars
  PROVE  ClosedMeans'
<1>1. /\ TypeOK /\ SegmentsNumbered /\ Members /\ InputsHeld /\ BatchNodes /\ Collecting
      /\ LeftMeansDecided /\ Whence /\ Carried /\ Once /\ ClosedStarted /\ ClosedMeans
  BY TreeFacts
<1>2. SUFFICES ASSUME NEW r \in Runs, Sound(r)', NEW e \in Edges, (<<r, e.id>> \in closed)'
               PROVE  Done(r, e.from)'
  BY DEF ClosedMeans
<1>3. Sound(r)
  <2>1. revoked \subseteq revoked' /\ expired \subseteq expired' BY <1>1, StepsEvolve
  <2>2. QED BY <1>2, <2>1 DEF Sound
<1>4. PICK n : n = e.from /\ n \in Nodes /\ e \in Out(n) BY GraphAssumption DEF Out
<1>5. CASE <<r, e.id>> \in closed
  <2>1. Done(r, n) /\ r \in Started BY <1>1, <1>3, <1>4, <1>5 DEF ClosedMeans, ClosedStarted
  <2>2. QED BY <1>3, <1>4, <2>1, DoneStays
<1>6. CASE <<r, e.id>> \notin closed
  <2>1. closed' # closed BY <1>2, <1>6
  <2>2. \A k : \A h \in Out(k) : h.id = e.id => h = e /\ k = n BY <1>4, EdgeFacts
  <2>3. ASSUME NEW f \in flights, Conclude(f) PROVE Done(r, n)'
    <3> DEFINE s == f.step
    <3>1. s \in DOMAIN steps BY <1>1, FlightFields
    <3>2. ASSUME NEW sent, Leaves(f, sent) PROVE Done(r, n)'
      <4>1. PICK h \in Out(s.node) : <<r, e.id>> \in {<<q, h.id>> : q \in f.runs \ sent[h]}
        BY <1>2, <1>6, <3>2 DEF Leaves
      <4>2. h = e /\ s.node = n /\ r \in f.runs BY <2>2, <4>1
      <4>3. Owned(f) /\ steps'[s].state = "complete" BY <3>2 DEF Leaves
      <4>4. s \in Active(n, r)
        BY <1>1, <3>1, <4>2, <4>3 DEF Members, FlightMembers, Owned, Active, At, Terminal
      <4>5. n \notin Merges
        BY <1>3, <3>2, <4>2 DEF Leaves, Plain, Merges, Sound
      <4>6. QED BY <1>3, <1>4, <2>1, <4>3, <4>4, <4>5, ActiveEnds DEF Terminal
    <3>3. ASSUME Stays(f) PROVE Done(r, n)'
      <4>1. /\ Owned(f) /\ <<r, e.id>> \in NoPath(f.runs \cup steps[s].runs, s.node)
            /\ \/ Eligible(s) = {} /\ <<r, e.id>> \in NoPath(f.runs, s.node)
               \/ /\ Type[s.node] # "merge"
                  /\ r \notin steps'[s].runs \/ steps'[s].state \in Terminal
        <5>0. PICK c : c = <<r, e.id>> OBVIOUS
        <5>1. c = <<r, e.id>> /\ c[1] = r BY <5>0
        <5>2. c \in closed' \ closed BY <1>2, <1>6, <5>1
        <5>3. /\ Owned(f) /\ c \in NoPath(f.runs \cup steps[s].runs, s.node)
              /\ \/ Eligible(s) = {} /\ c \in NoPath(f.runs, s.node)
                 \/ /\ Type[s.node] # "merge"
                    /\ c[1] \notin steps'[s].runs \/ steps'[s].state \in Terminal
          BY <3>3, <5>2 DEF Stays
        <5>4. QED BY <5>1, <5>3
      <4>2. f.runs \subseteq steps[s].runs BY <1>1, <4>1 DEF Members, FlightMembers
      <4>3. s.node = n /\ r \in steps[s].runs BY <2>2, <4>1, <4>2 DEF NoPath
      <4>4. s \in Active(n, r) BY <3>1, <4>1, <4>3 DEF Owned, Active, At, Terminal
      <4>5. Eligible(s) # {} BY <1>3, <4>3 DEF Sound, Eligible
      <4>6. n \notin Merges BY <4>1, <4>3, <4>5 DEF Merges
      <4>7. CASE steps'[s].state \in Terminal
        BY <1>3, <1>4, <2>1, <4>4, <4>6, <4>7, ActiveEnds
      <4>8. CASE r \notin steps'[s].runs
        <5>1. n \in Simple BY <4>6, <1>4, TreeSimple
        <5>2. Active(n, r) = {s} BY <1>1, <4>4, <5>1 DEF Once, Single
        <5>3. r \in s.unit.runs /\ r \in Started
          BY <1>1, <3>1, <4>3 DEF Members, StepMembers, Started
        <5>4. \A g \in In(n) : Reached(r, g)
          BY <1>1, <1>4, <3>1, <4>3, <4>6, <5>3, VisitedReached DEF Visited, Reached
        <5>5. Active(n, r)' \subseteq {s}
          BY <1>1, <1>3, <2>1, <5>2, <5>3, <5>4, ReachedNone, NobodyNew
        <5>6. Active(n, r)' = {} BY <4>8, <5>5 DEF Active, At
        <5>7. \A g \in In(n) : Reached(r, g)' BY <1>1, <5>4, ReceiptsStay
        <5>8. QED BY <4>6, <5>6, <5>7 DEF Done
      <4>9. QED BY <4>1, <4>5, <4>7, <4>8
    <3>4. QED BY <1>1, <2>1, <2>3, <3>2, <3>3, ConcludeMoves DEF Splits, Admits, Idles
  <2>4. ASSUME NEW b \in DOMAIN batches, NEW taken, Seals(b, taken) PROVE Done(r, n)'
    <3>1. PICK s \in LastOf(b) : <<r, e.id>> \in NoPath(steps[s].runs, b.node)
      BY <1>2, <1>6, <2>4 DEF Seals
    <3>2. b.node = n /\ r \in steps[s].runs BY <2>2, <3>1 DEF NoPath
    <3>3. PICK i \in DOMAIN batches[b].inputs : s = batches[b].inputs[i].step
      BY <3>1 DEF LastOf
    <3>4. /\ s \in DOMAIN steps /\ s.node = n /\ batches[b].state = "open"
          /\ Type[n] = "aggregate"
      BY <1>1, <2>4, <3>2, <3>3 DEF InputsHeld, Members, InputMembers, BatchNodes, Seals
    <3>5. steps[s].state = "aggregating" BY <1>1, <3>3, <3>4 DEF Collecting, Holds
    <3>6. s \in Active(n, r) BY <3>2, <3>4, <3>5 DEF Active, At, Terminal
    <3>7. steps'[s].state = "complete" BY <2>4, <3>1, <3>4, <3>5 DEF Seals
    <3>8. n \notin Merges BY <3>4 DEF Merges
    <3>9. QED BY <1>3, <1>4, <2>1, <3>6, <3>7, <3>8, ActiveEnds DEF Terminal
  <2>5. ASSUME NEW S \in syncs, NEW Away, Syncs(S, Away) PROVE Done(r, n)'
    <3>1. r \in S \ revoked /\ e.id \in Closable(r) BY <1>2, <1>6, <2>5 DEF Syncs
    <3>2. QED BY <1>3, <1>4, <1>6, <2>5, <3>1, ClosureRight
  <2>6. QED BY <1>1, <1>4, <2>1, <2>3, <2>4, <2>5, NextMoves DEF Begins, Leases, Rests
<1>7. QED BY <1>5, <1>6

\* At the start nothing is closed or decided.
LEMMA TreeInit == Init => TreeInv
<1> SUFFICES ASSUME Init PROVE TreeInv
  OBVIOUS
<1>1. closed = {} /\ DOMAIN decisions = {} BY DEF Init
<1>2. QED
  BY <1>1, WayInit DEF TreeInv, ClosedStarted, ClosedMeans, DecidedMeans, MergeSawEverything

\* Every operation keeps it.
LEMMA TreeStep == TreeInv /\ [Next]_vars => TreeInv'
<1> SUFFICES ASSUME TreeInv, [Next]_vars PROVE TreeInv'
  OBVIOUS
<1>1. WayInv /\ ClosedStarted BY DEF TreeInv
<1>2. TypeOK /\ SegmentsNumbered /\ Members /\ InputsHeld
  BY <1>1 DEF WayInv, SyncInv, GraphInv
<1>3. WayInv' BY <1>1, WayStep
<1>4. ClosedStarted' BY <1>1, <1>2, ClosedStartedStep
<1>5. ASSUME Treelike PROVE ClosedMeans' /\ DecidedMeans' /\ MergeSawEverything'
  BY <1>2, <1>5, TreeFacts, ClosedMeansStep, DecidedMeansStep, MergeSawStep
<1>6. QED BY <1>3, <1>4, <1>5 DEF TreeInv, Treelike

\* So it holds throughout.
LEMMA TreeInvariant == Spec => []TreeInv
BY TreeInit, TreeStep, PTL DEF Spec

\* A merge decides over everything that ever arrives for a run (synchronize,
\* propagateClosures), when only merges bring branches together; graph_reconverge
\* shows what happens otherwise.
THEOREM MergesSeeAll == Treelike => (Spec => []MergeSawEverything)
<1> SUFFICES ASSUME Treelike PROVE Spec => []MergeSawEverything
  OBVIOUS
<1>1. TreeInv => MergeSawEverything BY DEF TreeInv
<1>2. QED BY <1>1, TreeInvariant, PTL

-----------------------------------------------------------------------------
(* A branch that is still under way never counts as absent.                *)

\* The node has nothing more to send on for the run.
Past(r, n) ==
  IF n \in Merges THEN Shut(r, n) /\ (Decided(n, r) \/ Arrivals(r, n) = {})
  ELSE Through(n, r) /\ \A g \in In(n) : Reached(r, g)

\* A node that is through with the run has nothing more to send.
LEMMA DonePast == \A r, n : Done(r, n) => Past(r, n)
BY DEF Done, Past, Through

\* What leads to a block that has nothing more to send has nothing more either.
LEMMA PastBefore ==
  ASSUME TreeInv, Treelike, NEW r \in Runs, Sound(r),
         NEW n \in Nodes, Past(r, n), NEW g \in In(n)
  PROVE  Past(r, g.from)
<1>1. /\ TypeOK /\ Members /\ LeftMeansDecided /\ Whence /\ Once
      /\ ClosedMeans /\ DecidedMeans /\ Visits
  BY TreeFacts DEF TreeInv, WayInv
<1>2. g \in Edges /\ g.from \in Nodes /\ g \in Out(g.from) BY GraphAssumption DEF In, Out
<1>3. Reached(r, g) BY DEF Past, Shut, Reached
<1>4. CASE <<r, g.id>> \in closed BY <1>1, <1>2, <1>4, DonePast DEF ClosedMeans
<1>5. ASSUME NEW d \in data, d[1] = r, d[2] = g.id PROVE Past(r, g.from)
  <2>1. CASE g.from \in Merges
    <3>1. <<g.from, r>> \in DOMAIN decisions BY <1>1, <1>2, <1>5, <2>1 DEF LeftMeansDecided
    <3>2. Shut(r, g.from) BY <1>1, <3>1 DEF DecidedMeans
    <3>3. QED BY <2>1, <3>1, <3>2 DEF Past, Decided
  <2>2. CASE g.from \notin Merges
    <3>1. SentOn(r, g.from) /\ g.from \in Simple BY <1>2, <1>5, <2>2, TreeSimple DEF SentOn
    <3>2. Through(g.from, r) BY <1>1, <3>1 DEF Once, Single
    <3>3. Visited(r, g.from) BY <1>1, <1>2, <2>2, <3>1 DEF Visits
    <3>4. \A h \in In(g.from) : Reached(r, h)
      BY <1>1, <1>2, <2>2, <3>3, VisitedReached DEF Reached
    <3>5. QED BY <2>2, <3>2, <3>4 DEF Past
  <2>3. QED BY <2>1, <2>2
<1>6. QED BY <1>3, <1>4, <1>5 DEF Reached

\* The nodes before a node satisfy the equation that defines them.
Upwards(g) == g = [m \in Nodes |-> {m} \cup UNION {g[e.from] : e \in In(m)}]

\* Such a function exists, since containment is monotone.
LEMMA UpwardsExists == \E g : Upwards(g)
<1> DEFINE Body(B) == {x \in Nodes \X Nodes :
                         x[1] = x[2] \/ \E e \in In(x[1]) : <<e.from, x[2]>> \in B}
           F == [B \in SUBSET (Nodes \X Nodes) |-> Body(B)]
<1>1. F \in [SUBSET (Nodes \X Nodes) -> SUBSET (Nodes \X Nodes)] OBVIOUS
<1>2. \A A, B \in SUBSET (Nodes \X Nodes) : A \subseteq B => F[A] \subseteq F[B] OBVIOUS
<1>3. PICK L \in SUBSET (Nodes \X Nodes) : F[L] = L
  <2> HIDE DEF F
  <2> QED BY <1>1, <1>2, FixedPoint
<1>4. L = Body(L) BY <1>3
<1> HIDE DEF F
<1> DEFINE f == [m \in Nodes |-> {x \in Nodes : <<m, x>> \in L}]
           g == [m \in Nodes |-> {m} \cup UNION {f[e.from] : e \in In(m)}]
<1>5. \A m : \A e \in In(m) : e.from \in Nodes BY GraphAssumption DEF In
<1>6. \A m \in Nodes : g[m] = f[m]
  <2>1. TAKE m \in Nodes
  <2>2. \A x \in Nodes : <<m, x>> \in L <=> m = x \/ \E e \in In(m) : <<e.from, x>> \in L
    <3>1. TAKE x \in Nodes
    <3>2. PICK c : c = <<m, x>> OBVIOUS
    <3>3. c \in Nodes \X Nodes /\ c[1] = m /\ c[2] = x BY <3>2
    <3>4. c \in L <=> c \in Body(L)
      <4> HIDE DEF Body
      <4> QED BY <1>4, Zenon
    <3>5. c \in Body(L) <=> c[1] = c[2] \/ \E e \in In(c[1]) : <<e.from, c[2]>> \in L
      BY <3>3, Zenon
    <3>6. c \in L <=> m = x \/ \E e \in In(m) : <<e.from, x>> \in L
      BY <3>3, <3>4, <3>5, Zenon
    <3>7. QED BY <3>2, <3>6, Zenon
  <2>3. f[m] = {x \in Nodes : <<m, x>> \in L} OBVIOUS
  <2>4. \A e \in In(m) : f[e.from] = {x \in Nodes : <<e.from, x>> \in L} BY <1>5
  <2>5. g[m] = {m} \cup UNION {f[e.from] : e \in In(m)} OBVIOUS
  <2> HIDE DEF f, g
  <2>6. \A x : x \in g[m] => x \in Nodes BY <2>4, <2>5
  <2>7. \A x \in Nodes : x \in g[m] <=> m = x \/ \E e \in In(m) : <<e.from, x>> \in L
    <3>1. TAKE x \in Nodes
    <3>2. \A e \in In(m) : x \in f[e.from] <=> <<e.from, x>> \in L BY <2>4
    <3>3. x \in g[m] <=> m = x \/ \E e \in In(m) : x \in f[e.from] BY <2>5, Zenon
    <3>4. QED BY <3>2, <3>3, Zenon
  <2>8. QED BY <2>2, <2>3, <2>6, <2>7
<1>7. f = g BY <1>6
<1>8. Upwards(f) BY <1>7 DEF Upwards
<1>9. QED BY <1>8

\* And Upstream is one.
LEMMA UpstreamIs == \E g : Upwards(g) /\ \A n \in Nodes : Upstream(n) = g[n]
<1> DEFINE g == CHOOSE h : Upwards(h)
<1>1. Upwards(g) BY UpwardsExists
<1>2. \A n \in Nodes : Upstream(n) = g[n] BY DEF Upstream, Upwards
<1>3. QED BY <1>1, <1>2

\* So everything that leads to the block is through with the run.
LEMMA PastUpstream ==
  ASSUME TreeInv, Treelike, NEW r \in Runs, Sound(r), NEW n \in Nodes, Past(r, n),
         NEW x \in Upstream(n)
  PROVE  Past(r, x)
<1>1. PICK g : Upwards(g) /\ \A m \in Nodes : Upstream(m) = g[m] BY UpstreamIs
<1>2. \A m \in Nodes : g[m] = {m} \cup UNION {g[e.from] : e \in In(m)} BY <1>1 DEF Upwards
<1> DEFINE B == {m \in Nodes : Past(r, m) /\ \E y \in g[m] : ~Past(r, y)}
<1>3. B = {}
  <2>1. SUFFICES ASSUME B # {} PROVE FALSE
    OBVIOUS
  <2>2. PICK m \in B : \A e \in In(m) : e.from \notin B
    <3> HIDE DEF B
    <3>1. B \in SUBSET Nodes BY DEF B
    <3>2. QED BY <2>1, <3>1, FirstNode
  <2>3. PICK y \in g[m] : ~Past(r, y) OBVIOUS
  <2>4. y # m BY <2>2, <2>3
  <2>5. PICK e \in In(m) : y \in g[e.from] BY <1>2, <2>3, <2>4
  <2>6. e.from \in Nodes BY GraphAssumption DEF In
  <2>7. Past(r, e.from) BY PastBefore
  <2>8. QED BY <2>2, <2>3, <2>5, <2>6, <2>7
<1>4. QED BY <1>1, <1>3

\* A branch that is queued, deferred, collecting or joining never counts as absent
\* when an edge is closed (propagateClosures), unless blocks other than merges
\* bring branches together.
THEOREM BranchesCount == Treelike => (Spec => []AbsentMeansAbsent)
<1> SUFFICES ASSUME Treelike PROVE Spec => []AbsentMeansAbsent
  OBVIOUS
<1>1. TreeInv => AbsentMeansAbsent
  <2>1. SUFFICES ASSUME TreeInv, NEW c \in closed, NEW e \in Edges, NEW s \in DOMAIN steps,
                        c[2] = e.id, Sound(c[1]), c[1] \in steps[s].runs,
                        s.node \in Upstream(e.from), Goes(s, c[1])
                 PROVE  Decided(s.node, c[1])
    BY DEF AbsentMeansAbsent
  <2>2. /\ TypeOK /\ Members /\ Whence /\ Collecting /\ ClosedMeans BY <2>1, TreeFacts
  <2>3. PICK r \in Runs, id \in EdgeIds : c = <<r, id>> BY <2>2 DEF TypeOK
  <2>4. c[1] = r /\ c = <<r, e.id>> BY <2>1, <2>3
  <2>5. e.from \in Nodes /\ s.node \in Nodes
    <3>1. s \in StepIds BY <2>2 DEF TypeOK
    <3>2. QED BY <3>1, GraphAssumption DEF StepIds
  <2>6. Past(r, e.from) BY <2>1, <2>2, <2>4, DonePast DEF ClosedMeans
  <2>7. Past(r, s.node) BY <2>1, <2>4, <2>5, <2>6, PastUpstream
  <2>8. s \in Active(s.node, r)
    <3>1. steps[s].state \notin Terminal
      <4>1. CASE steps[s].state \notin Terminal \cup {"aggregating"} BY <4>1
      <4>2. CASE \E b \in DOMAIN batches : batches[b].state = "open" /\ Holds(b, s)
        BY <2>2, <4>2 DEF Collecting, Terminal
      <4>3. QED BY <2>1, <4>1, <4>2 DEF Goes, Holds
    <3>2. QED BY <2>1, <2>4, <3>1 DEF Active, At
  <2>9. s.node \in Merges BY <2>1, <2>4, <2>7, <2>8 DEF Past, Through
  <2>10. Arrivals(r, s.node) # {}
    <3>1. r \in s.unit.runs /\ StepMembers
      BY <2>1, <2>2, <2>4 DEF Members, StepMembers
    <3>2. Type[s.node] = "merge" BY <2>9 DEF Merges
    <3>3. QED BY <2>2, <3>1, <3>2, MergeArrivals
  <2>11. QED BY <2>4, <2>7, <2>9, <2>10 DEF Past
<1>2. QED BY <1>1, TreeInvariant, PTL

-----------------------------------------------------------------------------
(* A unit is known by its way.                                             *)

\* A numbering of the blocks along the connections.
Rank == CHOOSE rank \in [Nodes -> 0..Cardinality(Nodes)] :
          \A e \in Edges : rank[e.from] < rank[e.to]

\* It exists, because a published flow has no cycle.
LEMMA RankGrows ==
  /\ \A n \in Nodes : Rank[n] \in Nat
  /\ \A e \in Edges : /\ e.from \in Nodes /\ e.to \in Nodes
                      /\ Rank[e.from] \in Nat /\ Rank[e.to] \in Nat
                      /\ Rank[e.from] < Rank[e.to]
<1>1. \E rank \in [Nodes -> 0..Cardinality(Nodes)] : \A e \in Edges : rank[e.from] < rank[e.to]
  BY PlanAssumption
<1>2. /\ Rank \in [Nodes -> 0..Cardinality(Nodes)]
      /\ \A e \in Edges : Rank[e.from] < Rank[e.to]
  <2> DEFINE P(rank) == \A e \in Edges : rank[e.from] < rank[e.to]
             R == [Nodes -> 0..Cardinality(Nodes)]
  <2>1. \E rank \in R : P(rank) BY <1>1
  <2>2. Rank = CHOOSE rank \in R : P(rank) BY DEF Rank
  <2> HIDE DEF P, R
  <2>3. Rank \in R /\ P(Rank) BY <2>1, <2>2, Zenon
  <2>4. QED BY <2>3 DEF P, R
<1>3. \A e \in Edges : e.from \in Nodes /\ e.to \in Nodes BY GraphAssumption
<1>4. \A n \in Nodes : Rank[n] \in Nat BY <1>2
<1>5. QED BY <1>2, <1>3, <1>4

\* The edges a unit has taken when its step sends it on, and the units that are
\* formed out of it there.
Trail(s) == s.unit.path \cup ({s.via} \ {NoEdge})
Of(s, u) == /\ u.origin = s.unit.origin /\ u.ancestry = s.unit.ancestry
            /\ u.path = Trail(s)
Alike(u, v) == u.origin = v.origin /\ u.ancestry = v.ancestry /\ u.path = v.path

\* What a step forms is formed out of its unit.
LEMMA OnwardIs ==
  ASSUME NEW s \in StepIds, NEW R
  PROVE  /\ Of(s, Onward(s, R)) /\ Onward(s, R).runs = R
         /\ Part(s, R).node = s.node /\ Part(s, R).via = s.via
         /\ Part(s, R).unit = Onward(s, R)
<1>1. s.unit \in Units BY StepFields
<1>2. PICK u, p : u = s.unit /\ p = s.unit.path \cup ({s.via} \ {NoEdge}) OBVIOUS
<1>3. Onward(s, R) = [u EXCEPT !.path = p, !.runs = R] BY <1>2 DEF Onward
<1>4. u \in Units BY <1>1, <1>2
<1>5. /\ Onward(s, R).origin = u.origin /\ Onward(s, R).ancestry = u.ancestry
      /\ Onward(s, R).path = p /\ Onward(s, R).runs = R
  BY <1>3, <1>4 DEF Units
<1>6. Of(s, Onward(s, R)) /\ Onward(s, R).runs = R BY <1>2, <1>5 DEF Of, Trail
<1>7. Part(s, R) = [s EXCEPT !.unit = Onward(s, R)] BY DEF Part
<1> HIDE DEF Part
<1>8. PICK n, v : s = [node |-> n, via |-> v, unit |-> s.unit] BY DEF StepIds
<1>9. QED BY <1>6, <1>7, <1>8

\* Ordinary blocks send on what they get.
Ordinary == {n \in Nodes : Type[n] \notin {"merge", "aggregate"}}

\* An activation for one group of the members of another one, which is complete.
IsPart(s) == s.via \in s.unit.path
Whole(p, s) ==
  /\ ~IsPart(p) /\ p.node = s.node /\ p.via = s.via /\ Of(p, s.unit)
  /\ s.unit.runs \subseteq p.unit.runs /\ steps[p].state = "complete"

\* The way of a unit ends where it is.
Below(u, e) == \A g \in Edges : g.id \in u.path => Rank[g.to] <= Rank[e.from]
EndsAt(s) ==
  \A g \in Edges : g.id \in s.unit.path =>
    Rank[g.to] <= Rank[s.node] /\ (g.to = s.node => g.id = s.via)
Trails ==
  /\ \A d \in data : \A e \in Edges : d[2] = e.id => Below(d[3], e)
  /\ \A s \in DOMAIN steps : EndsAt(s)

\* Every activation was brought by receipts of its unit, or is part of one.
Roots ==
  \A s \in DOMAIN steps : ~IsPart(s) =>
    (\E r \in Runs : s = FirstStep(r)) \/ \A r \in s.unit.runs : <<r, s.via, s.unit>> \in data
Parts ==
  \A s \in DOMAIN steps : IsPart(s) =>
    /\ \A r, q \in s.unit.runs : KeyOf[s.node][r] = KeyOf[s.node][q]
    /\ \E p \in DOMAIN steps : Whole(p, s)
PartsApart ==
  \A s, t \in DOMAIN steps :
    /\ IsPart(s) /\ IsPart(t) /\ s.node = t.node /\ s.via = t.via
    /\ Alike(s.unit, t.unit) /\ s.unit.runs \cap t.unit.runs # {}
    => s = t

\* What an ordinary block sent came from an activation that is complete, and from
\* no other one.
Senders ==
  \A d \in data : \A e \in Edges : d[2] = e.id /\ e.from \in Ordinary =>
    \E s \in DOMAIN steps : /\ s.node = e.from /\ steps[s].state = "complete"
                            /\ d[1] \in s.unit.runs /\ Of(s, d[3])
Unsent ==
  \A s \in DOMAIN steps : s.node \in Ordinary /\ steps[s].state \notin Terminal =>
    \A e \in Out(s.node) : \A d \in data :
      d[1] \in s.unit.runs /\ d[2] = e.id => ~Of(s, d[3])

\* A run comes over an edge in a unit once for each way it may take.
Receipts == \A c, d \in data : c[1] = d[1] /\ c[2] = d[2] /\ Alike(c[3], d[3]) => c = d

\* Units come out of batches that are closed.
IsOver(b) == b \in DOMAIN batches /\ batches[b].state # "open"
Born == /\ \A d \in data : \A b \in d[3].ancestry : IsOver(b)
        /\ \A s \in DOMAIN steps : \A b \in s.unit.ancestry : IsOver(b)

\* The edge an activation came over ends there.
LEMMA ViaIs ==
  ASSUME TypeOK, Whence, NEW s \in DOMAIN steps
  PROVE  /\ s \in StepIds /\ s.unit \in Units /\ s.node \in Nodes
         /\ \/ \E r \in Runs : s = FirstStep(r)
            \/ s.node # StartNode /\ s.via # NoEdge
         /\ \A g \in Edges : g.id = s.via => g.to = s.node
         /\ s.via \in s.unit.path => s.via # NoEdge
         /\ \A g \in Edges : EndsAt(s) /\ g.id \in Trail(s) =>
              Rank[g.to] <= Rank[s.node] /\ (g.to = s.node => g.id = s.via)
<1>1. s \in StepIds /\ s.unit \in Units /\ s.node \in Nodes BY StepFields DEF TypeOK
<1>2. CASE \E r \in Runs : s = FirstStep(r)
  <2>1. s.via = NoEdge /\ s.unit.path = {} BY <1>2 DEF FirstStep, FirstUnit
  <2>2. Trail(s) = {} BY <2>1 DEF Trail
  <2>3. \A g \in Edges : g.id # s.via BY <2>1, GraphAssumption
  <2>4. QED BY <1>1, <1>2, <2>1, <2>2, <2>3
<1>3. CASE Arrived(s)
  <2>1. PICK e \in Edges : e.id = s.via /\ e.to = s.node BY <1>3 DEF Arrived
  <2>2. s.node # StartNode /\ s.via # NoEdge BY <2>1, PlanAssumption, GraphAssumption
  <2>3. \A g \in Edges : g.id = s.via => g.to = s.node BY <2>1, GraphAssumption
  <2>4. ASSUME NEW g \in Edges, EndsAt(s), g.id \in Trail(s)
        PROVE  Rank[g.to] <= Rank[s.node] /\ (g.to = s.node => g.id = s.via)
    <3>1. CASE g.id \in s.unit.path BY <2>4, <3>1 DEF EndsAt
    <3>2. CASE g.id = s.via
      <4>1. g.to = s.node /\ Rank[s.node] \in Nat BY <1>1, <2>3, <3>2, RankGrows
      <4>2. QED BY <3>2, <4>1
    <3>3. QED BY <2>4, <3>1, <3>2 DEF Trail
  <2>5. QED BY <1>1, <2>2, <2>3, <2>4
<1>4. QED BY <1>2, <1>3 DEF Whence

\* Two whole activations that send the same units are one.
LEMMA SameWhole ==
  ASSUME TypeOK, Whence, Trails, Roots, Receipts,
         NEW s \in DOMAIN steps, NEW t \in DOMAIN steps, s.node = t.node,
         s.unit.origin = t.unit.origin, s.unit.ancestry = t.unit.ancestry,
         Trail(s) = Trail(t), NEW r \in s.unit.runs, r \in t.unit.runs
  PROVE  /\ s.via = t.via
         /\ ~IsPart(s) /\ ~IsPart(t) => s = t
         /\ IsPart(s) /\ IsPart(t) => Alike(s.unit, t.unit)
<1>1. /\ s \in StepIds /\ t \in StepIds /\ s.unit \in Units /\ t.unit \in Units
      /\ EndsAt(s) /\ EndsAt(t)
  BY ViaIs DEF Trails
<1>2. CASE s.node = StartNode
  <2>1. PICK q \in Runs : s = FirstStep(q) BY <1>2, ViaIs
  <2>2. PICK p \in Runs : t = FirstStep(p) BY <1>2, ViaIs
  <2>3. q = r /\ p = r BY <2>1, <2>2 DEF FirstStep, FirstUnit
  <2>4. s = t BY <2>1, <2>2, <2>3
  <2>5. ~IsPart(s) BY <2>1 DEF IsPart, FirstStep, FirstUnit
  <2>6. QED BY <2>4, <2>5
<1>3. CASE s.node # StartNode
  <2>1. s.via # NoEdge /\ t.via # NoEdge BY <1>3, ViaIs DEF FirstStep
  <2>2. Trail(s) = s.unit.path \cup {s.via} /\ Trail(t) = t.unit.path \cup {t.via}
    BY <2>1 DEF Trail
  <2>3. PICK e \in Edges : e.id = s.via
    BY <1>1, <2>1 DEF StepIds, EdgeIds
  <2>4. s.via = t.via
    <3>1. e.to = s.node BY <2>3, ViaIs
    <3>2. e.id \in Trail(t) BY <2>2, <2>3
    <3>3. e.id = t.via BY <1>1, <3>1, <3>2, ViaIs
    <3>4. QED BY <2>3, <3>3
  <2> DEFINE one == s.unit.path
             two == t.unit.path
  <2>8. one \cup {s.via} = two \cup {s.via}
    <3>1. Trail(s) = one \cup {s.via} /\ Trail(t) = two \cup {t.via} BY <2>2
    <3> HIDE DEF one, two
    <3>2. QED BY <2>4, <3>1
  <2>9. (s.via \in one <=> s.via \in two) => s.unit.path = t.unit.path
    <3> HIDE DEF one, two
    <3>1. ASSUME s.via \in one <=> s.via \in two PROVE one = two
      <4>1. \A x : x \in one \cup {s.via} <=> x \in two \cup {s.via} BY <2>8
      <4>2. \A x : x \in one <=> x \in two BY <3>1, <4>1
      <4>3. QED BY <4>2
    <3>2. QED BY <3>1 DEF one, two
  <2>10. /\ IsPart(s) <=> s.via \in one
         /\ IsPart(t) <=> s.via \in two
    BY <2>4 DEF IsPart
  <2> HIDE DEF one, two
  <2>5. ASSUME ~IsPart(s), ~IsPart(t) PROVE s = t
    <3>1. s.unit.path = t.unit.path BY <2>5, <2>9, <2>10
    <3>2. Alike(s.unit, t.unit) BY <3>1 DEF Alike
    <3>3. \A q : s # FirstStep(q) /\ t # FirstStep(q) BY <2>1 DEF FirstStep
    <3>4. <<r, s.via, s.unit>> \in data /\ <<r, t.via, t.unit>> \in data
      BY <2>5, <3>3 DEF Roots
    <3>5. <<r, s.via, s.unit>> = <<r, t.via, t.unit>>
      BY <2>4, <3>2, <3>4 DEF Receipts
    <3>6. s.unit = t.unit BY <3>5
    <3>7. QED BY <1>1, <2>4, <3>6 DEF StepIds
  <2>6. ASSUME IsPart(s), IsPart(t) PROVE Alike(s.unit, t.unit)
    <3>1. s.unit.path = t.unit.path BY <2>6, <2>9, <2>10
    <3>2. QED BY <3>1 DEF Alike
  <2>7. QED BY <2>4, <2>5, <2>6
<1>4. QED BY <1>2, <1>3

\* So two activations that send the same units are one, unless one is a part of
\* the other.
LEMMA SameStep ==
  ASSUME TypeOK, Whence, Trails, Roots, Receipts, Parts, PartsApart,
         NEW s \in DOMAIN steps, NEW t \in DOMAIN steps, s.node = t.node,
         s.unit.origin = t.unit.origin, s.unit.ancestry = t.unit.ancestry,
         Trail(s) = Trail(t), NEW r \in s.unit.runs, r \in t.unit.runs
  PROVE  s = t \/ Whole(s, t) \/ Whole(t, s)
<1>1. /\ s.via = t.via
      /\ ~IsPart(s) /\ ~IsPart(t) => s = t
      /\ IsPart(s) /\ IsPart(t) => Alike(s.unit, t.unit)
  BY SameWhole
<1>2. CASE IsPart(s) /\ IsPart(t) BY <1>1, <1>2 DEF PartsApart
<1>3. ASSUME NEW x \in DOMAIN steps, NEW y \in DOMAIN steps, IsPart(x), ~IsPart(y),
             x.node = y.node, x.unit.origin = y.unit.origin,
             x.unit.ancestry = y.unit.ancestry, Trail(x) = Trail(y),
             r \in x.unit.runs, r \in y.unit.runs
      PROVE  Whole(y, x)
  <2>1. PICK p \in DOMAIN steps : Whole(p, x) BY <1>3 DEF Parts
  <2>2. Trail(x) = x.unit.path BY <1>3 DEF Trail, IsPart
  <2>3. /\ p.node = y.node /\ p.unit.origin = y.unit.origin
        /\ p.unit.ancestry = y.unit.ancestry /\ Trail(p) = Trail(y)
        /\ r \in p.unit.runs /\ ~IsPart(p)
    BY <1>3, <2>1, <2>2 DEF Whole, Of
  <2>4. p = y BY <1>3, <2>3, SameWhole
  <2>5. QED BY <2>1, <2>4
<1>4. QED BY <1>1, <1>2, <1>3

\* The units that set out over an edge in a step.
Fresh(e, u) ==
  \/ \E f \in flights : \E sent : /\ Leaves(f, sent) /\ e \in Out(f.step.node)
                                  /\ u = Onward(f.step, sent[e]) /\ sent[e] # {}
  \/ \E b \in DOMAIN batches : \E taken : /\ Seals(b, taken) /\ e \in taken
                                          /\ u = SealedUnit(b)
  \/ \E S \in syncs : \E Away : Syncs(S, Away) /\ <<e, u>> \in LeavesNow(Away)

\* Every new receipt is one of a unit that sets out.
LEMMA FreshReceipts ==
  ASSUME TypeOK, SegmentsNumbered, [Next]_vars, NEW d \in data' \ data
  PROVE  \E e \in Edges : \E u \in Units : \E r \in u.runs :
           Fresh(e, u) /\ d = <<r, e.id, u>>
<1>1. ASSUME NEW f \in flights, Conclude(f)
      PROVE  \E e \in Edges : \E u \in Units : \E r \in u.runs :
               Fresh(e, u) /\ d = <<r, e.id, u>>
  <2>1. ASSUME NEW sent, Leaves(f, sent)
        PROVE  \E e \in Edges : \E u \in Units : \E r \in u.runs :
                 Fresh(e, u) /\ d = <<r, e.id, u>>
    <3>1. PICK e \in Out(f.step.node) : \E r \in sent[e] :
            d = <<r, e.id, Onward(f.step, sent[e])>>
      BY <2>1 DEF Leaves
    <3>2. PICK r \in sent[e] : d = <<r, e.id, Onward(f.step, sent[e])>> BY <3>1
    <3>3. PICK u : u = Onward(f.step, sent[e]) OBVIOUS
    <3>4. u \in Units /\ u.runs = sent[e] /\ e \in Edges BY <2>1, <3>3, UnitsTyped, EdgeFacts
    <3>5. Fresh(e, u) BY <2>1, <3>2, <3>3 DEF Fresh
    <3>6. QED BY <3>2, <3>3, <3>4, <3>5
  <2>2. QED BY <1>1, <2>1, ConcludeMoves DEF Splits, Stays, Admits, Idles
<1>2. ASSUME NEW b \in DOMAIN batches, NEW taken, Seals(b, taken)
      PROVE  \E e \in Edges : \E u \in Units : \E r \in u.runs :
               Fresh(e, u) /\ d = <<r, e.id, u>>
  <2>1. PICK u : u = SealedUnit(b) OBVIOUS
  <2>2. PICK e \in taken : \E r \in u.runs : d = <<r, e.id, u>> BY <1>2, <2>1 DEF Seals
  <2>3. u \in Units /\ e \in Edges BY <1>2, <2>1, UnitsTyped, EdgeFacts DEF Seals
  <2>4. Fresh(e, u) BY <1>2, <2>1 DEF Fresh
  <2>5. QED BY <2>2, <2>3, <2>4
<1>3. ASSUME NEW S \in syncs, NEW Away, Syncs(S, Away)
      PROVE  \E e \in Edges : \E u \in Units : \E r \in u.runs :
               Fresh(e, u) /\ d = <<r, e.id, u>>
  <2>1. PICK x \in LeavesNow(Away) : \E r \in x[2].runs : d = <<r, x[1].id, x[2]>>
    BY <1>3 DEF Syncs
  <2>2. PICK m \in Merges : x[1] \in Out(m) /\ x[2] \in Units BY <1>3, UnitsTyped
  <2>3. PICK e, u : x = <<e, u>> BY DEF LeavesNow
  <2>4. e \in Edges /\ u \in Units BY <2>2, <2>3, EdgeFacts
  <2>5. Fresh(e, u) BY <1>3, <2>3 DEF Fresh
  <2>6. QED BY <2>1, <2>3, <2>4, <2>5
<1>4. QED BY <1>1, <1>2, <1>3, NextMoves DEF Begins, Leases, Rests

\* A new activation is the first one of a run, one for a group, or the next one of
\* a unit that sets out.
LEMMA FreshSteps ==
  ASSUME TypeOK, SegmentsNumbered, [Next]_vars, NEW t \in DOMAIN steps' \ DOMAIN steps
  PROVE  \/ \E q \in Runs : q \notin Started /\ t = FirstStep(q)
         \/ \E f \in flights : \E K : Splits(f, K) /\ \E G \in Groups(f.step.node, K) :
                                                        t = Part(f.step, G)
         \/ \E e \in Edges : \E u \in Units : t = Succ(e, u) /\ Fresh(e, u)
<1>1. ASSUME NEW f \in flights, Conclude(f)
      PROVE  \/ \E K : Splits(f, K) /\ \E G \in Groups(f.step.node, K) : t = Part(f.step, G)
             \/ \E e \in Edges : \E u \in Units : t = Succ(e, u) /\ Fresh(e, u)
  <2>1. ASSUME NEW sent, Leaves(f, sent)
        PROVE  \E e \in Edges : \E u \in Units : t = Succ(e, u) /\ Fresh(e, u)
    <3>1. t \in NextSteps(f.step, sent) BY <2>1 DEF Leaves, Turns
    <3>2. PICK e \in Out(f.step.node) : sent[e] # {} /\ t = Succ(e, Onward(f.step, sent[e]))
      BY <3>1 DEF NextSteps
    <3>3. PICK u : u = Onward(f.step, sent[e]) OBVIOUS
    <3>4. u \in Units /\ e \in Edges BY <2>1, <3>3, UnitsTyped, EdgeFacts
    <3>5. Fresh(e, u) BY <2>1, <3>2, <3>3 DEF Fresh
    <3>6. QED BY <3>2, <3>3, <3>4, <3>5
  <2>2. ASSUME NEW K, Splits(f, K)
        PROVE  \E G \in Groups(f.step.node, K) : t = Part(f.step, G)
    BY <2>2 DEF Splits, Turns
  <2>3. QED BY <1>1, <2>1, <2>2, ConcludeMoves DEF Stays, Admits, Idles, Turns
<1>2. ASSUME NEW b \in DOMAIN batches, NEW taken, Seals(b, taken)
      PROVE  \E e \in Edges : \E u \in Units : t = Succ(e, u) /\ Fresh(e, u)
  <2>1. PICK u : u = SealedUnit(b) OBVIOUS
  <2>2. PICK e \in taken : t = Succ(e, u) BY <1>2, <2>1 DEF Seals
  <2>3. u \in Units /\ e \in Edges BY <1>2, <2>1, UnitsTyped, EdgeFacts DEF Seals
  <2>4. Fresh(e, u) BY <1>2, <2>1 DEF Fresh
  <2>5. QED BY <2>2, <2>3, <2>4
<1>3. ASSUME NEW S \in syncs, NEW Away, Syncs(S, Away)
      PROVE  \E e \in Edges : \E u \in Units : t = Succ(e, u) /\ Fresh(e, u)
  <2>1. PICK x \in LeavesNow(Away) : t = Succ(x[1], x[2]) BY <1>3 DEF Syncs
  <2>2. PICK m \in Merges : x[1] \in Out(m) /\ x[2] \in Units BY <1>3, UnitsTyped
  <2>3. PICK e, u : x = <<e, u>> BY DEF LeavesNow
  <2>4. e \in Edges /\ u \in Units BY <2>2, <2>3, EdgeFacts
  <2>5. Fresh(e, u) BY <1>3, <2>3 DEF Fresh
  <2>6. QED BY <2>1, <2>3, <2>4, <2>5
<1>4. ASSUME NEW q \in Runs, Begins(q) PROVE q \notin Started /\ t = FirstStep(q)
  BY <1>4 DEF Begins
<1>5. QED BY <1>1, <1>2, <1>3, <1>4, NextMoves DEF Leases, Rests

\* A fresh unit has its receipts and its activation.
LEMMA FreshArrives ==
  ASSUME TypeOK, NEW e \in Edges, NEW u \in Units, Fresh(e, u)
  PROVE  \A r \in u.runs : <<r, e.id, u>> \in data'
<1>1. ASSUME NEW f \in flights, NEW sent, Leaves(f, sent), e \in Out(f.step.node),
             u = Onward(f.step, sent[e])
      PROVE  \A r \in u.runs : <<r, e.id, u>> \in data'
  <2>1. u.runs = sent[e] BY <1>1, UnitsTyped
  <2>2. \A r \in sent[e] : <<r, e.id, Onward(f.step, sent[e])>> \in data' BY <1>1 DEF Leaves
  <2>3. QED BY <1>1, <2>1, <2>2
<1>2. ASSUME NEW b \in DOMAIN batches, NEW taken, Seals(b, taken), e \in taken,
             u = SealedUnit(b)
      PROVE  \A r \in u.runs : <<r, e.id, u>> \in data'
  BY <1>2 DEF Seals
<1>3. ASSUME NEW S \in syncs, NEW Away, Syncs(S, Away), <<e, u>> \in LeavesNow(Away)
      PROVE  \A r \in u.runs : <<r, e.id, u>> \in data'
  <2>1. PICK x : x = <<e, u>> OBVIOUS
  <2>2. x \in LeavesNow(Away) /\ x[1] = e /\ x[2] = u BY <1>3, <2>1
  <2>3. \A r \in x[2].runs : <<r, x[1].id, x[2]>> \in data' BY <1>3, <2>2 DEF Syncs
  <2>4. QED BY <2>2, <2>3
<1>4. QED BY <1>1, <1>2, <1>3 DEF Fresh

\* What is said of the source of an edge.
LEMMA FreshSource ==
  ASSUME TypeOK, NEW e \in Edges, NEW u \in Units, Fresh(e, u)
  PROVE  \/ \E f \in flights : \E sent :
              /\ Leaves(f, sent) /\ e \in Out(f.step.node) /\ e.from = f.step.node
              /\ u = Onward(f.step, sent[e]) /\ sent[e] # {} /\ u.runs = sent[e]
              /\ Of(f.step, u) /\ f.step \in DOMAIN steps /\ f.step \in StepIds
         \/ \E b \in DOMAIN batches : \E taken :
              /\ Seals(b, taken) /\ e \in Out(b.node) /\ e.from = b.node
              /\ u = SealedUnit(b) /\ u.path = {}
         \/ \E S \in syncs : \E Away : \E m \in Merges :
              /\ Syncs(S, Away) /\ e \in Out(m) /\ e.from = m
              /\ u \in Joined(m, Away[m]) /\ u.path = {}
<1>1. ASSUME NEW f \in flights, NEW sent, Leaves(f, sent), e \in Out(f.step.node),
             u = Onward(f.step, sent[e]), sent[e] # {}
      PROVE  /\ e.from = f.step.node /\ u.runs = sent[e]
             /\ Of(f.step, u) /\ f.step \in DOMAIN steps /\ f.step \in StepIds
  BY <1>1, UnitsTyped, FlightFields, OnwardIs DEF Out
<1>2. ASSUME NEW b \in DOMAIN batches, NEW taken, Seals(b, taken), e \in taken,
             u = SealedUnit(b)
      PROVE  e \in Out(b.node) /\ e.from = b.node /\ u.path = {}
  BY <1>2 DEF Seals, Out, SealedUnit
<1>3. ASSUME NEW S \in syncs, NEW Away, Syncs(S, Away), <<e, u>> \in LeavesNow(Away)
      PROVE  \E m \in Merges : e \in Out(m) /\ e.from = m /\ u \in Joined(m, Away[m]) /\ u.path = {}
  <2>1. PICK m \in Merges : <<e, u>> \in Out(m) \X Joined(m, Away[m]) BY <1>3 DEF LeavesNow
  <2>2. e \in Out(m) /\ u \in Joined(m, Away[m]) BY <2>1
  <2>3. u.path = {} BY <2>2 DEF Joined
  <2>4. QED BY <2>2, <2>3 DEF Out
<1>4. QED BY <1>1, <1>2, <1>3 DEF Fresh

\* Every unit stays behind the edge it sets out over.
LEMMA FreshBelow ==
  ASSUME TypeOK, Whence, Trails, NEW e \in Edges, NEW u \in Units, Fresh(e, u)
  PROVE  Below(u, e)
<1>1. ASSUME NEW s \in DOMAIN steps, e.from = s.node, Of(s, u) PROVE Below(u, e)
  <2>1. EndsAt(s) BY DEF Trails
  <2>2. u.path = Trail(s) BY <1>1 DEF Of
  <2>3. \A g \in Edges : g.id \in Trail(s) => Rank[g.to] <= Rank[s.node] BY <2>1, ViaIs
  <2>4. QED BY <1>1, <2>2, <2>3 DEF Below
<1>2. ASSUME u.path = {} PROVE Below(u, e) BY <1>2 DEF Below
<1>3. QED BY <1>1, <1>2, FreshSource

\* Units never turn back (Onward, CloseBatch, mergeLineage).
LEMMA TrailsStep ==
  ASSUME TypeOK, SegmentsNumbered, Whence, Trails, [Next]_vars
  PROVE  Trails'
<1>1. ASSUME NEW d \in data', NEW e \in Edges, d[2] = e.id PROVE Below(d[3], e)
  <2>1. CASE d \in data BY <1>1, <2>1 DEF Trails
  <2>2. CASE d \notin data
    <3>1. PICK g \in Edges, u \in Units : \E r \in u.runs : Fresh(g, u) /\ d = <<r, g.id, u>>
      BY <2>2, FreshReceipts
    <3>2. g = e /\ d[3] = u BY <1>1, <3>1, GraphAssumption
    <3>3. QED BY <3>1, <3>2, FreshBelow
  <2>3. QED BY <2>1, <2>2
<1>2. ASSUME NEW t \in DOMAIN steps' PROVE EndsAt(t)
  <2>1. CASE t \in DOMAIN steps BY <2>1 DEF Trails
  <2>2. ASSUME NEW q, t = FirstStep(q) PROVE EndsAt(t)
    BY <2>2 DEF EndsAt, FirstStep, FirstUnit
  <2>3. ASSUME NEW f \in flights, NEW K, Splits(f, K), NEW G, t = Part(f.step, G)
        PROVE  EndsAt(t)
    <3>1. f.step \in DOMAIN steps /\ f.step \in StepIds BY FlightFields
    <3>2. PICK s : s = f.step OBVIOUS
    <3>3. /\ t.node = s.node /\ t.via = s.via /\ t.unit.path = Trail(s)
      <4>1. t.node = s.node /\ t.via = s.via /\ t.unit = Onward(s, G)
        BY <2>3, <3>1, <3>2, OnwardIs
      <4>2. Of(s, Onward(s, G)) BY <3>1, <3>2, OnwardIs
      <4>3. QED BY <4>1, <4>2 DEF Of
    <3>4. EndsAt(s) BY <3>1, <3>2 DEF Trails
    <3>5. \A g \in Edges : g.id \in Trail(s) =>
            Rank[g.to] <= Rank[s.node] /\ (g.to = s.node => g.id = s.via)
      BY <3>1, <3>2, <3>4, ViaIs
    <3>6. QED BY <3>3, <3>5 DEF EndsAt
  <2>4. ASSUME NEW e \in Edges, NEW u \in Units, t = Succ(e, u), Fresh(e, u)
        PROVE  EndsAt(t)
    <3>1. t.node = e.to /\ t.via = e.id /\ t.unit = u BY <2>4 DEF Succ
    <3>2. Below(u, e) BY <2>4, FreshBelow
    <3>3. ASSUME NEW g \in Edges, g.id \in u.path
          PROVE  Rank[g.to] <= Rank[e.to] /\ g.to # e.to
      <4>1. Rank[g.to] <= Rank[e.from] BY <3>2, <3>3 DEF Below
      <4>2. /\ Rank[g.to] \in Nat /\ Rank[e.from] \in Nat /\ Rank[e.to] \in Nat
            /\ Rank[e.from] < Rank[e.to]
        BY RankGrows
      <4>3. QED BY <4>1, <4>2
    <3>4. QED BY <3>1, <3>3 DEF EndsAt
  <2>5. QED BY <2>1, <2>2, <2>3, <2>4, FreshSteps
<1>3. QED BY <1>1, <1>2 DEF Trails

\* The activation for a group of a unit.
LEMMA NewPart ==
  ASSUME TypeOK, Whence, NEW f \in flights, NEW K, Splits(f, K),
         NEW G \in Groups(f.step.node, K)
  PROVE  /\ f.step \in DOMAIN steps /\ f.step \in StepIds /\ steps[f.step].state = "leased"
         /\ Part(f.step, G).node = f.step.node /\ Part(f.step, G).via = f.step.via
         /\ Of(f.step, Part(f.step, G).unit) /\ Part(f.step, G).unit.runs = G
         /\ IsPart(Part(f.step, G)) /\ Trail(Part(f.step, G)) = Trail(f.step)
         /\ G \subseteq K /\ K \subseteq f.step.unit.runs \cup f.runs
         /\ \A r \in G : \A q \in K : q \in G <=> KeyOf[f.step.node][r] = KeyOf[f.step.node][q]
<1>1. f.step \in DOMAIN steps /\ f.step \in StepIds BY FlightFields
<1>2. steps[f.step].state = "leased" BY DEF Splits, Owned
<1>3. PICK s : s = f.step OBVIOUS
<1>4. PICK t : t = Part(f.step, G) OBVIOUS
<1>5. /\ t.node = s.node /\ t.via = s.via /\ Of(s, t.unit) /\ t.unit.runs = G
  BY <1>1, <1>3, <1>4, OnwardIs
<1>6. s.node # StartNode
  <2>1. Type[s.node] = "limit" BY <1>3 DEF Splits
  <2>2. QED BY <2>1, PlanAssumption
<1>7. s.via # NoEdge BY <1>1, <1>3, <1>6, ViaIs DEF FirstStep
<1>8. t.unit.path = Trail(s) BY <1>5 DEF Of
<1>9. s.via \in Trail(s) BY <1>7 DEF Trail
<1>10. IsPart(t) BY <1>5, <1>8, <1>9 DEF IsPart
<1>11. Trail(t) = Trail(s) BY <1>5, <1>8, <1>9 DEF Trail
<1>12. PICK r \in K : G = {q \in K : KeyOf[s.node][q] = KeyOf[s.node][r]}
  BY <1>3 DEF Groups
<1>13. G \subseteq K /\ \A x \in G : \A q \in K : q \in G <=> KeyOf[s.node][x] = KeyOf[s.node][q]
  BY <1>12
<1>14. K \subseteq f.runs BY DEF Splits
<1>15. QED BY <1>1, <1>2, <1>3, <1>4, <1>5, <1>10, <1>11, <1>13, <1>14

\* Neither the first activation of a run nor one that was brought over an edge is
\* a part of another one.
LEMMA FirstWhole == \A q : ~IsPart(FirstStep(q))
BY DEF IsPart, FirstStep, FirstUnit

\* Nor is one that was brought over an edge.
LEMMA SuccWhole ==
  ASSUME TypeOK, Whence, Trails, NEW e \in Edges, NEW u \in Units, Fresh(e, u)
  PROVE  ~IsPart(Succ(e, u))
<1>1. SUFFICES ASSUME e.id \in u.path PROVE FALSE BY DEF IsPart, Succ
<1>2. Rank[e.to] <= Rank[e.from] BY <1>1, FreshBelow DEF Below
<1>3. Rank[e.to] \in Nat /\ Rank[e.from] \in Nat /\ Rank[e.from] < Rank[e.to] BY RankGrows
<1>4. QED BY <1>2, <1>3

\* Activations come with their receipts (putStep).
LEMMA RootsStep ==
  ASSUME TypeOK, SegmentsNumbered, Whence, Trails, Roots, [Next]_vars
  PROVE  Roots'
<1>1. SUFFICES ASSUME NEW t \in DOMAIN steps', ~IsPart(t)
               PROVE  (\E r \in Runs : t = FirstStep(r))
                        \/ \A r \in t.unit.runs : <<r, t.via, t.unit>> \in data'
  BY DEF Roots
<1>2. CASE t \in DOMAIN steps
  <2>1. data \subseteq data' BY ReceiptsStay
  <2>2. QED BY <1>1, <1>2, <2>1 DEF Roots
<1>3. ASSUME NEW f \in flights, NEW K, Splits(f, K), NEW G \in Groups(f.step.node, K),
             t = Part(f.step, G)
      PROVE  FALSE
  BY <1>1, <1>3, NewPart
<1>4. ASSUME NEW e \in Edges, NEW u \in Units, t = Succ(e, u), Fresh(e, u)
      PROVE  \A r \in t.unit.runs : <<r, t.via, t.unit>> \in data'
  <2>1. t.via = e.id /\ t.unit = u BY <1>4 DEF Succ
  <2>2. QED BY <1>4, <2>1, FreshArrives
<1>5. QED BY <1>2, <1>3, <1>4, FreshSteps

\* What is over remains.
LEMMA CompleteStays ==
  ASSUME TypeOK, SegmentsNumbered, [Next]_vars, NEW p \in DOMAIN steps,
         steps[p].state \in Terminal
  PROVE  p \in DOMAIN steps' /\ steps'[p] = steps[p]
<1>1. Evolves(p) BY StepsEvolve
<1>2. QED BY <1>1 DEF Evolves

\* Only a limiting block divides a unit, and only one of several groups (Partition).
LEMMA PartsStep ==
  ASSUME TypeOK, SegmentsNumbered, Members, Whence, Trails, Parts, [Next]_vars
  PROVE  Parts'
<1>1. SUFFICES ASSUME NEW t \in DOMAIN steps', IsPart(t)
               PROVE  /\ \A r, q \in t.unit.runs : KeyOf[t.node][r] = KeyOf[t.node][q]
                      /\ \E p \in DOMAIN steps' : Whole(p, t)'
  BY DEF Parts
<1>2. CASE t \in DOMAIN steps
  <2>1. PICK p \in DOMAIN steps : Whole(p, t) BY <1>1, <1>2 DEF Parts
  <2>2. p \in DOMAIN steps' /\ steps'[p] = steps[p]
    BY <2>1, CompleteStays DEF Whole, Terminal
  <2>3. Whole(p, t)' BY <2>1, <2>2 DEF Whole
  <2>4. QED BY <1>1, <1>2, <2>2, <2>3 DEF Parts
<1>3. ASSUME NEW f \in flights, NEW K, Splits(f, K), NEW G \in Groups(f.step.node, K),
             t = Part(f.step, G)
      PROVE  /\ \A r, q \in t.unit.runs : KeyOf[t.node][r] = KeyOf[t.node][q]
             /\ \E p \in DOMAIN steps' : Whole(p, t)'
  <2>1. PICK s : s = f.step OBVIOUS
  <2>2. /\ s \in DOMAIN steps /\ t.node = s.node /\ t.via = s.via /\ Of(s, t.unit)
        /\ t.unit.runs = G /\ G \subseteq K
        /\ \A r \in G : \A q \in K : q \in G <=> KeyOf[s.node][r] = KeyOf[s.node][q]
    BY <1>3, <2>1, NewPart
  <2>3. K \subseteq s.unit.runs
    BY <1>3, <2>1 DEF Splits, Members, FlightMembers
  <2>4. ~IsPart(s)
    <3>1. \E r, q \in K : KeyOf[s.node][r] # KeyOf[s.node][q] BY <1>3, <2>1 DEF Splits
    <3>2. QED BY <2>2, <2>3, <3>1 DEF Parts
  <2>5. s \in DOMAIN steps' /\ steps'[s].state = "complete"
    BY <1>3, <2>1, <2>2, StepsGrow DEF Splits, TableGrows
  <2>6. Whole(s, t)' BY <2>2, <2>3, <2>4, <2>5 DEF Whole
  <2>7. QED BY <2>2, <2>5, <2>6
<1>4. ~\E q : t = FirstStep(q) BY <1>1, FirstWhole
<1>5. ~\E e \in Edges : \E u \in Units : t = Succ(e, u) /\ Fresh(e, u)
  BY <1>1, SuccWhole
<1>6. QED BY <1>2, <1>3, <1>4, <1>5, FreshSteps

\* The parts of a unit have not been formed before.
LEMMA PartsFresh ==
  ASSUME TypeOK, Whence, Members, Trails, Roots, Receipts, Parts,
         NEW f \in flights, NEW K, Splits(f, K), NEW G \in Groups(f.step.node, K),
         NEW t \in DOMAIN steps, IsPart(t), t.node = f.step.node, t.via = f.step.via,
         Alike(t.unit, Part(f.step, G).unit), NEW r \in G, r \in t.unit.runs
  PROVE  FALSE
<1>1. PICK s : s = f.step OBVIOUS
<1>2. /\ s \in DOMAIN steps /\ steps[s].state = "leased" /\ Of(s, Part(s, G).unit)
      /\ G \subseteq K
  BY <1>1, NewPart
<1>3. K \subseteq s.unit.runs BY <1>1 DEF Splits, Members, FlightMembers
<1>4. ~IsPart(s)
  <2>1. \E x, q \in K : KeyOf[s.node][x] # KeyOf[s.node][q] BY <1>1 DEF Splits
  <2>2. QED BY <1>2, <1>3, <2>1 DEF Parts
<1>5. PICK p \in DOMAIN steps : Whole(p, t) BY DEF Parts
<1>6. /\ p.node = s.node /\ p.unit.origin = s.unit.origin
      /\ p.unit.ancestry = s.unit.ancestry /\ Trail(p) = Trail(s)
      /\ r \in p.unit.runs /\ r \in s.unit.runs /\ ~IsPart(p)
  <2>1. /\ t.unit.origin = s.unit.origin /\ t.unit.ancestry = s.unit.ancestry
        /\ t.unit.path = Trail(s)
    BY <1>1, <1>2 DEF Of, Alike
  <2>2. /\ t.unit.origin = p.unit.origin /\ t.unit.ancestry = p.unit.ancestry
        /\ t.unit.path = Trail(p) /\ p.node = t.node /\ ~IsPart(p)
        /\ t.unit.runs \subseteq p.unit.runs
    BY <1>5 DEF Whole, Of
  <2>3. QED BY <1>1, <1>2, <1>3, <2>1, <2>2
<1>7. p = s BY <1>2, <1>4, <1>6, SameWhole
<1>8. QED BY <1>2, <1>5, <1>7 DEF Whole

\* The parts of a unit share no run.
LEMMA PartsApartStep ==
  ASSUME TypeOK, SegmentsNumbered, Members, Whence, Trails, Roots, Receipts, Parts, PartsApart,
         [Next]_vars
  PROVE  PartsApart'
<1>1. SUFFICES ASSUME NEW s \in DOMAIN steps', NEW t \in DOMAIN steps', IsPart(s), IsPart(t),
                      s.node = t.node, s.via = t.via, Alike(s.unit, t.unit),
                      NEW r \in s.unit.runs, r \in t.unit.runs
               PROVE  s = t
  BY DEF PartsApart
<1>2. CASE s \in DOMAIN steps /\ t \in DOMAIN steps BY <1>1, <1>2 DEF PartsApart
<1>3. ASSUME NEW x \in DOMAIN steps' \ DOMAIN steps, IsPart(x)
      PROVE  \E f \in flights : \E K : Splits(f, K) /\ \E G \in Groups(f.step.node, K) :
                                                        x = Part(f.step, G)
  <2>1. ~\E q : x = FirstStep(q) BY <1>3, FirstWhole
  <2>2. ~\E e \in Edges : \E u \in Units : x = Succ(e, u) /\ Fresh(e, u)
    BY <1>3, SuccWhole
  <2>3. QED BY <2>1, <2>2, FreshSteps
<1>4. ASSUME NEW x \in DOMAIN steps', NEW y \in DOMAIN steps, x \notin DOMAIN steps,
             IsPart(x), IsPart(y), x.node = y.node, x.via = y.via,
             Alike(x.unit, y.unit), r \in x.unit.runs, r \in y.unit.runs
      PROVE  FALSE
  <2>0. PICK f \in flights : \E K : Splits(f, K) /\ \E G \in Groups(f.step.node, K) :
                                                       x = Part(f.step, G)
    BY <1>3, <1>4
  <2>1. PICK K : Splits(f, K) /\ \E G \in Groups(f.step.node, K) : x = Part(f.step, G)
    BY <2>0
  <2>2. PICK G \in Groups(f.step.node, K) : x = Part(f.step, G) BY <2>1
  <2>3. /\ Part(f.step, G).node = f.step.node /\ Part(f.step, G).via = f.step.via
        /\ Part(f.step, G).unit.runs = G
    BY <2>1, NewPart
  <2>4. Alike(y.unit, Part(f.step, G).unit) BY <1>4, <2>2 DEF Alike
  <2>5. y.node = f.step.node /\ y.via = f.step.via /\ r \in G BY <1>4, <2>2, <2>3
  <2>6. QED BY <1>4, <2>1, <2>4, <2>5, PartsFresh
<1>5. CASE s \notin DOMAIN steps /\ t \notin DOMAIN steps
  <2>0. PICK f \in flights : \E K : Splits(f, K) /\ \E G \in Groups(f.step.node, K) :
                                                       s = Part(f.step, G)
    BY <1>1, <1>3, <1>5
  <2>1. PICK K : Splits(f, K) /\ \E G \in Groups(f.step.node, K) : s = Part(f.step, G)
    BY <2>0
  <2>2. PICK G \in Groups(f.step.node, K) : s = Part(f.step, G) BY <2>1
  <2>3. DOMAIN steps' = DOMAIN steps \cup {Part(f.step, H) : H \in Groups(f.step.node, K)}
    BY <2>1 DEF Splits, Turns
  <2>4. PICK H \in Groups(f.step.node, K) : t = Part(f.step, H) BY <1>5, <2>3
  <2>5. r \in G /\ r \in H /\ G \subseteq K /\ H \subseteq K
    BY <1>1, <2>1, <2>2, <2>4, NewPart
  <2>6. \A q \in K : q \in G <=> q \in H
    BY <2>1, <2>5, NewPart
  <2>7. G = H BY <2>5, <2>6
  <2>8. QED BY <2>2, <2>4, <2>7
<1>6. CASE s \notin DOMAIN steps /\ t \in DOMAIN steps BY <1>1, <1>4, <1>6
<1>7. CASE s \in DOMAIN steps /\ t \notin DOMAIN steps
  <2>1. Alike(t.unit, s.unit) BY <1>1 DEF Alike
  <2>2. QED BY <1>1, <1>4, <1>7, <2>1
<1>8. QED BY <1>2, <1>5, <1>6, <1>7

\* One operation forms all fresh units of a step.
LEMMA LeavesAll ==
  ASSUME TypeOK, NEW f \in flights, NEW sent, Leaves(f, sent)
  PROVE  /\ f.step \in DOMAIN steps /\ f.step \in StepIds /\ f.step \in DOMAIN steps'
         /\ steps[f.step].state = "leased" /\ steps'[f.step].state = "complete"
         /\ \A e \in Out(f.step.node) : sent[e] \subseteq f.runs
         /\ \A d \in data' \ data : \E e \in Out(f.step.node) : \E r \in sent[e] :
              d = <<r, e.id, Onward(f.step, sent[e])>> /\ f.step.node \in Ordinary
         /\ \A t \in DOMAIN steps' \ DOMAIN steps : \E e \in Out(f.step.node) :
              t.node = e.to /\ t.via = e.id
<1>1. f.step \in DOMAIN steps /\ f.step \in StepIds /\ f.step.node \in Nodes BY FlightFields
<1>2. Turns(f.step, NextSteps(f.step, sent)) BY DEF Leaves
<1>3. f.step \in DOMAIN steps' BY <1>1, <1>2 DEF Turns
<1>4. steps[f.step].state = "leased" /\ steps'[f.step].state = "complete"
  BY DEF Leaves, Owned
<1>5. \A e \in Out(f.step.node) : sent[e] \subseteq f.runs BY DEF Leaves
<1>6. ASSUME NEW d \in data' \ data
      PROVE  \E e \in Out(f.step.node) : \E r \in sent[e] :
               d = <<r, e.id, Onward(f.step, sent[e])>> /\ f.step.node \in Ordinary
  <2>1. PICK e \in Out(f.step.node) : \E r \in sent[e] :
          d = <<r, e.id, Onward(f.step, sent[e])>>
    BY <1>6 DEF Leaves
  <2>2. sent[e] # {} BY <2>1
  <2>3. Type[f.step.node] \in Plain \cup {"limit"} BY <2>2 DEF Leaves
  <2>4. f.step.node \in Ordinary BY <1>1, <2>3 DEF Ordinary, Plain
  <2>5. QED BY <2>1, <2>4
<1>7. ASSUME NEW t \in DOMAIN steps' \ DOMAIN steps
      PROVE  \E e \in Out(f.step.node) : t.node = e.to /\ t.via = e.id
  <2>1. t \in NextSteps(f.step, sent) BY <1>2, <1>7 DEF Turns
  <2>2. PICK e \in Out(f.step.node) : t = Succ(e, Onward(f.step, sent[e])) BY <2>1 DEF NextSteps
  <2>3. QED BY <2>2 DEF Succ
<1>8. QED BY <1>1, <1>3, <1>4, <1>5, <1>6, <1>7

\* Where new receipts come from.
LEMMA NewData ==
  ASSUME TypeOK, SegmentsNumbered, [Next]_vars
  PROVE  \/ data' = data
         \/ \E f \in flights : \E sent : Leaves(f, sent)
         \/ \E b \in DOMAIN batches : \E taken : Seals(b, taken)
         \/ \E S \in syncs : \E Away : Syncs(S, Away)
<1>1. ASSUME NEW f \in flights, Conclude(f)
      PROVE  data' = data \/ \E sent : Leaves(f, sent)
  BY <1>1, ConcludeMoves DEF Splits, Stays, Admits, Idles
<1>2. QED BY <1>1, NextMoves DEF Begins, Leases, Rests

\* What goes over an edge out of an ordinary block was sent when an activation
\* completed (Emit).
LEMMA SendersStep ==
  ASSUME TypeOK, SegmentsNumbered, BatchNodes, Members, Senders, [Next]_vars
  PROVE  Senders'
<1>1. SUFFICES ASSUME NEW d \in data', NEW e \in Edges, d[2] = e.id, e.from \in Ordinary
               PROVE  \E s \in DOMAIN steps' : /\ s.node = e.from /\ steps'[s].state = "complete"
                                               /\ d[1] \in s.unit.runs /\ Of(s, d[3])
  BY DEF Senders
<1>2. CASE d \in data
  <2>1. PICK s \in DOMAIN steps : /\ s.node = e.from /\ steps[s].state = "complete"
                                  /\ d[1] \in s.unit.runs /\ Of(s, d[3])
    BY <1>1, <1>2 DEF Senders
  <2>2. s \in DOMAIN steps' /\ steps'[s] = steps[s] BY <2>1, CompleteStays DEF Terminal
  <2>3. QED BY <2>1, <2>2
<1>3. CASE d \notin data
  <2>1. PICK g \in Edges, u \in Units : \E r \in u.runs : Fresh(g, u) /\ d = <<r, g.id, u>>
    BY <1>3, FreshReceipts
  <2>2. PICK r \in u.runs : Fresh(g, u) /\ d = <<r, g.id, u>> BY <2>1
  <2>3. g = e /\ d[3] = u /\ d[1] = r BY <1>1, <2>2, GraphAssumption
  <2>4. ASSUME NEW f \in flights, NEW sent, Leaves(f, sent), e \in Out(f.step.node),
               e.from = f.step.node, u.runs = sent[e], Of(f.step, u)
        PROVE  \E s \in DOMAIN steps' : /\ s.node = e.from /\ steps'[s].state = "complete"
                                        /\ d[1] \in s.unit.runs /\ Of(s, d[3])
    <3>1. /\ f.step \in DOMAIN steps' /\ steps'[f.step].state = "complete"
          /\ sent[e] \subseteq f.runs
      BY <2>4, LeavesAll
    <3>2. f.runs \subseteq f.step.unit.runs BY DEF Members, FlightMembers
    <3>3. QED BY <2>2, <2>3, <2>4, <3>1, <3>2
  <2>5. ~\E b \in DOMAIN batches : e.from = b.node BY <1>1 DEF BatchNodes, Ordinary
  <2>6. ~\E m \in Merges : e.from = m BY <1>1 DEF Merges, Ordinary
  <2>7. QED BY <2>2, <2>3, <2>4, <2>5, <2>6, FreshSource
<1>4. QED BY <1>2, <1>3

\* No unit goes over an edge twice: an activation is settled once, a batch closed
\* once and a merge decided once.
LEMMA ReceiptsStep ==
  ASSUME TypeOK, SegmentsNumbered, Members, Receipts, Unsent, Born, LeavesAlone', [Next]_vars
  PROVE  Receipts'
<1>1. SUFFICES ASSUME NEW c \in data', NEW d \in data', c[1] = d[1], c[2] = d[2],
                      Alike(c[3], d[3])
               PROVE  c = d
  BY DEF Receipts
<1>2. CASE c \in data /\ d \in data BY <1>1, <1>2 DEF Receipts
<1>3. ASSUME NEW f \in flights, NEW sent, Leaves(f, sent) PROVE c = d
  <2>1. ASSUME NEW x \in data' \ data, NEW y \in data', x[1] = y[1], x[2] = y[2],
               Alike(x[3], y[3])
        PROVE  x = y
    <3>5. PICK e \in Out(f.step.node) : \E r \in sent[e] :
            x = <<r, e.id, Onward(f.step, sent[e])>> /\ f.step.node \in Ordinary
      BY <1>3, <2>1, LeavesAll
    <3>1. PICK r \in sent[e] :
            x = <<r, e.id, Onward(f.step, sent[e])>> /\ f.step.node \in Ordinary
      BY <3>5
    <3>2. CASE y \notin data
      <4>5. PICK g \in Out(f.step.node) : \E q \in sent[g] :
              y = <<q, g.id, Onward(f.step, sent[g])>>
        BY <1>3, <2>1, <3>2, LeavesAll
      <4>1. PICK q \in sent[g] : y = <<q, g.id, Onward(f.step, sent[g])>> BY <4>5
      <4>2. g.id = e.id /\ q = r BY <2>1, <3>1, <4>1
      <4>3. g = e BY <4>2, EdgeFacts
      <4>4. QED BY <3>1, <4>1, <4>2, <4>3
    <3>3. CASE y \in data
      <4>1. /\ f.step \in DOMAIN steps /\ f.step \in StepIds
            /\ steps[f.step].state = "leased" /\ sent[e] \subseteq f.runs
        BY <1>3, LeavesAll
      <4>2. f.runs \subseteq f.step.unit.runs BY DEF Members, FlightMembers
      <4>3. y[1] = r /\ y[2] = e.id /\ r \in f.step.unit.runs BY <2>1, <3>1, <4>1, <4>2
      <4>4. ~Of(f.step, y[3])
        BY <3>1, <3>3, <4>1, <4>3 DEF Unsent, Terminal
      <4>5. Of(f.step, x[3]) BY <3>1, <4>1, OnwardIs
      <4>6. QED BY <2>1, <4>4, <4>5 DEF Of, Alike
    <3>4. QED BY <3>2, <3>3
  <2>2. Alike(d[3], c[3]) BY <1>1 DEF Alike
  <2>3. QED BY <1>1, <1>2, <2>1, <2>2
<1>4. ASSUME NEW b \in DOMAIN batches, NEW taken, Seals(b, taken) PROVE c = d
  <2>1. PICK u : u = SealedUnit(b) OBVIOUS
  <2>2. \A x \in data' \ data : \E e \in taken : \E r \in u.runs : x = <<r, e.id, u>>
    BY <1>4, <2>1 DEF Seals
  <2>3. b \in u.ancestry BY <2>1 DEF SealedUnit
  <2>4. \A x \in data : b \notin x[3].ancestry BY <1>4 DEF Born, IsOver, Seals
  <2>5. \A x \in data' \ data : x[3] = u BY <2>2
  <2>6. ASSUME NEW x \in data' \ data, NEW y \in data', x[1] = y[1], x[2] = y[2],
               Alike(x[3], y[3])
        PROVE  x = y
    <3>1. y \notin data BY <2>3, <2>4, <2>5, <2>6 DEF Alike
    <3>2. PICK e \in taken, r \in u.runs : x = <<r, e.id, u>> BY <2>2, <2>6
    <3>3. PICK g \in taken, q \in u.runs : y = <<q, g.id, u>> BY <2>2, <2>6, <3>1
    <3>4. QED BY <2>6, <3>2, <3>3
  <2>7. Alike(d[3], c[3]) BY <1>1 DEF Alike
  <2>8. QED BY <1>1, <1>2, <2>6, <2>7
<1>5. ASSUME NEW S \in syncs, NEW Away, Syncs(S, Away) PROVE c = d
  <2>1. ASSUME NEW x \in data' \ data, NEW y \in data', x[1] = y[1], x[2] = y[2]
        PROVE  x = y
    <3>1. PICK z \in LeavesNow(Away) : \E r \in z[2].runs : x = <<r, z[1].id, z[2]>>
      BY <1>5, <2>1 DEF Syncs
    <3>2. PICK m \in Merges : z[1] \in Out(m) BY <1>5, UnitsTyped
    <3>3. PICK e : e = z[1] OBVIOUS
    <3>4. e \in Out(m) /\ x[2] = e.id BY <3>1, <3>2, <3>3
    <3>5. QED BY <2>1, <3>2, <3>4 DEF LeavesAlone
  <2>2. QED BY <1>1, <1>2, <2>1
<1>6. CASE data' = data BY <1>2, <1>6
<1>7. QED BY <1>3, <1>4, <1>5, <1>6, NewData

\* A batch that is closed stays closed.
LEMMA OverStays ==
  ASSUME TypeOK, SegmentsNumbered, [Next]_vars, NEW b, IsOver(b)
  PROVE  IsOver(b)'
<1>1. b \in DOMAIN batches /\ batches[b].state # "open" BY DEF IsOver
<1>2. ASSUME NEW f \in flights, Admit(f)
      PROVE  b \in DOMAIN batches' /\ batches'[b].state = batches[b].state
  <2>1. PICK K \in SUBSET Runs : \E into : Takes(f.step, K, into) BY <1>2, AdmitTakes
  <2>2. QED BY <1>1, <2>1 DEF Takes
<1>3. ASSUME NEW c \in DOMAIN batches, CloseBatch(c)
      PROVE  b \in DOMAIN batches' /\ batches'[b].state # "open"
  <2>1. /\ DOMAIN batches' = DOMAIN batches /\ batches'[c].state # "open"
        /\ \A a \in DOMAIN batches \ {c} : batches'[a] = batches[a]
    BY <1>3, CloseBooks
  <2>2. QED BY <1>1, <2>1
<1>4. QED BY <1>1, <1>2, <1>3, BatchMoves DEF IsOver

\* A unit that sets out comes out of closed batches alone.
LEMMA FreshBorn ==
  ASSUME TypeOK, SegmentsNumbered, InputsHeld, Born, [Next]_vars,
         NEW e \in Edges, NEW u \in Units, Fresh(e, u), NEW a \in u.ancestry
  PROVE  IsOver(a)'
<1>1. ASSUME NEW f \in flights, Of(f.step, u) PROVE IsOver(a)'
  <2>1. f.step \in DOMAIN steps BY FlightFields
  <2>2. a \in f.step.unit.ancestry BY <1>1 DEF Of
  <2>3. IsOver(a) BY <2>1, <2>2 DEF Born
  <2>4. QED BY <2>3, OverStays
<1>2. ASSUME NEW b \in DOMAIN batches, NEW taken, Seals(b, taken), u = SealedUnit(b)
      PROVE  IsOver(a)'
  <2>1. CASE a = b
    <3>1. b \in DOMAIN batches' /\ batches'[b].state # "open" BY <1>2 DEF Seals
    <3>2. QED BY <2>1, <3>1 DEF IsOver
  <2>2. CASE a # b
    <3>1. PICK i \in DOMAIN batches[b].inputs : a \in batches[b].inputs[i].step.unit.ancestry
      BY <1>2, <2>2 DEF SealedUnit, Chosen
    <3>2. batches[b].inputs[i].step \in DOMAIN steps BY DEF InputsHeld
    <3>3. IsOver(a) BY <3>1, <3>2 DEF Born
    <3>4. QED BY <3>3, OverStays
  <2>3. QED BY <2>1, <2>2
<1>3. ASSUME NEW m \in Merges, NEW R, u \in Joined(m, R) PROVE IsOver(a)'
  <2>1. PICK G : u.ancestry = UNION {v.ancestry : v \in UNION {Arrivals(r, m) : r \in G}}
    BY <1>3 DEF Joined
  <2>5. PICK r \in G : \E v \in Arrivals(r, m) : a \in v.ancestry BY <2>1
  <2>2. PICK v \in Arrivals(r, m) : a \in v.ancestry BY <2>5
  <2>3. PICK d \in data : d[3] = v BY <2>2 DEF Arrivals, Data
  <2>4. IsOver(a) BY <2>2, <2>3 DEF Born
  <2>6. QED BY <2>4, OverStays
<1>4. QED BY <1>1, <1>2, <1>3, FreshSource

\* So do all units on their way.
LEMMA BornStep ==
  ASSUME TypeOK, SegmentsNumbered, InputsHeld, Whence, Born, [Next]_vars
  PROVE  Born'
<1>1. ASSUME NEW d \in data', NEW a \in d[3].ancestry PROVE IsOver(a)'
  <2>1. CASE d \in data
    <3>1. IsOver(a) BY <1>1, <2>1 DEF Born
    <3>2. QED BY <3>1, OverStays
  <2>2. CASE d \notin data
    <3>1. PICK g \in Edges, u \in Units : \E r \in u.runs : Fresh(g, u) /\ d = <<r, g.id, u>>
      BY <2>2, FreshReceipts
    <3>2. d[3] = u BY <3>1
    <3>3. QED BY <1>1, <3>1, <3>2, FreshBorn
  <2>3. QED BY <2>1, <2>2
<1>2. ASSUME NEW t \in DOMAIN steps', NEW a \in t.unit.ancestry PROVE IsOver(a)'
  <2>1. CASE t \in DOMAIN steps
    <3>1. IsOver(a) BY <1>2, <2>1 DEF Born
    <3>2. QED BY <3>1, OverStays
  <2>2. ~\E q : t = FirstStep(q) BY <1>2 DEF FirstStep, FirstUnit
  <2>3. ASSUME NEW f \in flights, NEW K, Splits(f, K), NEW G \in Groups(f.step.node, K),
               t = Part(f.step, G)
        PROVE  IsOver(a)'
    <3>1. f.step \in DOMAIN steps /\ Of(f.step, t.unit) BY <2>3, NewPart
    <3>2. a \in f.step.unit.ancestry BY <1>2, <3>1 DEF Of
    <3>3. IsOver(a) BY <3>1, <3>2 DEF Born
    <3>4. QED BY <3>3, OverStays
  <2>4. ASSUME NEW e \in Edges, NEW u \in Units, t = Succ(e, u), Fresh(e, u) PROVE IsOver(a)'
    <3>1. t.unit = u BY <2>4 DEF Succ
    <3>2. QED BY <1>2, <2>4, <3>1, FreshBorn
  <2>5. QED BY <2>1, <2>2, <2>3, <2>4, FreshSteps
<1>3. QED BY <1>1, <1>2 DEF Born

\* The same for all activations, now and after a step.
SameSteps ==
  \A s, t \in DOMAIN steps :
    /\ s.node = t.node /\ s.unit.origin = t.unit.origin
    /\ s.unit.ancestry = t.unit.ancestry /\ Trail(s) = Trail(t)
    /\ s.unit.runs \cap t.unit.runs # {}
    => s = t \/ Whole(s, t) \/ Whole(t, s)

\* What that rests on.
WayFacts ==
  TypeOK /\ Whence /\ Trails /\ Roots /\ Receipts /\ Parts /\ PartsApart

\* That is SameStep.
LEMMA SameStepsAre == WayFacts => SameSteps
<1>1. SUFFICES ASSUME WayFacts,
                      NEW s \in DOMAIN steps, NEW t \in DOMAIN steps, s.node = t.node,
                      s.unit.origin = t.unit.origin, s.unit.ancestry = t.unit.ancestry,
                      Trail(s) = Trail(t), NEW r \in s.unit.runs, r \in t.unit.runs
               PROVE  s = t \/ Whole(s, t) \/ Whole(t, s)
  BY DEF SameSteps
<1>2. QED BY <1>1, SameStep DEF WayFacts

\* And it goes on being so.
LEMMA SameStepsNext == WayFacts' => SameSteps'
BY SameStepsAre, PTL

\* An activation that is not settled has sent nothing, however often it was leased
\* (owned, settle).
LEMMA UnsentStep ==
  ASSUME TypeOK, SegmentsNumbered, BatchNodes, Members, Carried, WayFacts, WayFacts',
         Senders, Unsent, [Next]_vars
  PROVE  Unsent'
<1>1. SUFFICES ASSUME NEW s \in DOMAIN steps', s.node \in Ordinary,
                      steps'[s].state \notin Terminal, NEW e \in Out(s.node), NEW d \in data',
                      d[1] \in s.unit.runs, d[2] = e.id, Of(s, d[3])
               PROVE  FALSE
  BY DEF Unsent
<1>2. /\ Whence /\ Trails /\ Roots /\ Receipts /\ Parts /\ PartsApart
      /\ SameSteps /\ SameSteps'
  BY SameStepsAre, SameStepsNext DEF WayFacts
<1>3. e \in Edges /\ e.from = s.node BY EdgeFacts
\* What is new among the receipts of the edge was sent by one activation.
<1>4. ASSUME d \notin data
      PROVE  \E f \in flights : \E sent :
               /\ Leaves(f, sent) /\ f.step.node = s.node /\ Of(f.step, d[3])
               /\ d[1] \in f.step.unit.runs
  <2>1. PICK g \in Edges, u \in Units : \E r \in u.runs : Fresh(g, u) /\ d = <<r, g.id, u>>
    BY <1>4, FreshReceipts
  <2>2. PICK r \in u.runs : Fresh(g, u) /\ d = <<r, g.id, u>> BY <2>1
  <2>3. g = e /\ d[3] = u /\ d[1] = r BY <1>1, <1>3, <2>2, GraphAssumption
  <2>4. ~\E b \in DOMAIN batches : e.from = b.node BY <1>1, <1>3 DEF BatchNodes, Ordinary
  <2>5. ~\E m \in Merges : e.from = m BY <1>1, <1>3 DEF Merges, Ordinary
  <2>0. PICK f \in flights : \E sent :
          /\ Leaves(f, sent) /\ e \in Out(f.step.node) /\ e.from = f.step.node
          /\ u.runs = sent[e] /\ Of(f.step, u)
    BY <2>2, <2>3, <2>4, <2>5, FreshSource
  <2>6. PICK sent :
          /\ Leaves(f, sent) /\ e \in Out(f.step.node) /\ e.from = f.step.node
          /\ u.runs = sent[e] /\ Of(f.step, u)
    BY <2>0
  <2>7. sent[e] \subseteq f.runs BY <2>6, LeavesAll
  <2>8. f.runs \subseteq f.step.unit.runs BY DEF Members, FlightMembers
  <2>9. QED BY <1>3, <2>2, <2>3, <2>6, <2>7, <2>8
<1>5. CASE s \in DOMAIN steps
  <2>1. steps[s].state \notin Terminal BY <1>1, <1>5, CompleteStays
  <2>2. CASE d \in data BY <1>1, <1>5, <2>1, <2>2 DEF Unsent
  <2>3. CASE d \notin data
    <3>0. PICK f \in flights : \E sent :
            /\ Leaves(f, sent) /\ f.step.node = s.node /\ Of(f.step, d[3])
            /\ d[1] \in f.step.unit.runs
      BY <1>4, <2>3
    <3>1. PICK sent :
            /\ Leaves(f, sent) /\ f.step.node = s.node /\ Of(f.step, d[3])
            /\ d[1] \in f.step.unit.runs
      BY <3>0
    <3>2. PICK t : t = f.step OBVIOUS
    <3>3. /\ t \in DOMAIN steps /\ steps[t].state = "leased" /\ steps'[t].state = "complete"
      BY <3>1, <3>2, LeavesAll
    <3>4. /\ s.node = t.node /\ s.unit.origin = t.unit.origin
          /\ s.unit.ancestry = t.unit.ancestry /\ Trail(s) = Trail(t)
          /\ s.unit.runs \cap t.unit.runs # {}
      BY <1>1, <3>1, <3>2 DEF Of
    <3>5. s = t \/ Whole(s, t) \/ Whole(t, s) BY <1>2, <1>5, <3>3, <3>4 DEF SameSteps
    <3>6. s # t BY <1>1, <3>3 DEF Terminal
    <3>7. ~Whole(s, t) BY <2>1 DEF Whole, Terminal
    <3>8. ~Whole(t, s) BY <3>3 DEF Whole
    <3>9. QED BY <3>5, <3>6, <3>7, <3>8
  <2>4. QED BY <2>2, <2>3
<1>6. ASSUME s \notin DOMAIN steps, NEW q \in Runs, q \notin Started, s = FirstStep(q)
      PROVE  FALSE
  <2>1. d[1] = q BY <1>1, <1>6 DEF FirstStep, FirstUnit
  <2>2. CASE d \in data
    <3>1. PICK g \in Edges : d[1] \in d[3].runs /\ Succ(g, d[3]) \in DOMAIN steps
      BY <2>2 DEF Carried
    <3>2. Succ(g, d[3]).unit = d[3] BY DEF Succ
    <3>3. q \in Started BY <1>6, <2>1, <3>1, <3>2 DEF Started
    <3>4. QED BY <1>6, <3>3
  <2>3. CASE d \notin data
    <3>1. PICK f \in flights : d[1] \in f.step.unit.runs BY <1>4, <2>3
    <3>2. f.step \in DOMAIN steps BY FlightFields
    <3>3. q \in Started BY <1>6, <2>1, <3>1, <3>2 DEF Started
    <3>4. QED BY <1>6, <3>3
  <2>4. QED BY <2>2, <2>3
<1>7. ASSUME NEW f \in flights, NEW K, Splits(f, K), NEW G \in Groups(f.step.node, K),
             s = Part(f.step, G)
      PROVE  FALSE
  <2>1. PICK t : t = f.step OBVIOUS
  <2>2. /\ t \in DOMAIN steps /\ steps[t].state = "leased" /\ s.node = t.node
        /\ Of(t, s.unit) /\ s.unit.runs = G /\ Trail(s) = Trail(t) /\ G \subseteq K
    BY <1>2, <1>7, <2>1, NewPart
  <2>3. K \subseteq t.unit.runs /\ d \in data
    BY <1>7, <2>1 DEF Splits, Members, FlightMembers
  <2>4. Of(t, d[3]) /\ d[1] \in t.unit.runs BY <1>1, <2>2, <2>3 DEF Of
  <2>5. steps[t].state \notin Terminal BY <2>2 DEF Terminal
  <2>6. QED BY <1>1, <2>2, <2>3, <2>4, <2>5 DEF Unsent
<1>8. ASSUME s \notin DOMAIN steps, NEW g \in Edges, NEW u \in Units, s = Succ(g, u), Fresh(g, u)
      PROVE  FALSE
  <2>1. CASE d \in data
    <3>1. PICK t \in DOMAIN steps : /\ t.node = e.from /\ steps[t].state = "complete"
                                    /\ d[1] \in t.unit.runs /\ Of(t, d[3])
      BY <1>1, <1>3, <2>1 DEF Senders
    <3>2. t \in DOMAIN steps' BY <3>1, StepsGrow DEF TableGrows
    <3>3. /\ s.node = t.node /\ s.unit.origin = t.unit.origin
          /\ s.unit.ancestry = t.unit.ancestry /\ Trail(s) = Trail(t)
          /\ s.unit.runs \cap t.unit.runs # {}
      BY <1>1, <1>3, <3>1 DEF Of
    <3>4. s = t \/ Whole(s, t)' \/ Whole(t, s)' BY <1>2, <3>2, <3>3 DEF SameSteps
    <3>5. s # t BY <1>8, <3>1
    <3>6. ~Whole(s, t)' BY <1>1 DEF Whole, Terminal
    <3>7. ~Whole(t, s)'
      <4>1. SUFFICES ASSUME Whole(t, s)' PROVE FALSE OBVIOUS
      <4>2. s.via = t.via /\ s.unit.path = Trail(t) BY <4>1 DEF Whole, Of
      <4>3. s.via = g.id /\ g.id # NoEdge BY <1>8, GraphAssumption DEF Succ
      <4>4. IsPart(s) BY <4>2, <4>3 DEF IsPart, Trail
      <4>5. QED BY <1>2, <1>8, <4>4, SuccWhole
    <3>8. QED BY <3>4, <3>5, <3>6, <3>7
  <2>2. CASE d \notin data
    <3>0. PICK f \in flights : \E sent : Leaves(f, sent) /\ f.step.node = s.node
      BY <1>4, <2>2
    <3>1. PICK sent : Leaves(f, sent) /\ f.step.node = s.node BY <3>0
    <3>2. PICK h \in Out(f.step.node) : s.node = h.to BY <1>8, <3>1, LeavesAll
    <3>3. h \in Edges /\ h.from = s.node BY <3>1, <3>2, EdgeFacts
    <3>4. QED BY <3>2, <3>3, NoLoop
  <2>3. QED BY <2>1, <2>2
<1>9. QED BY <1>5, <1>6, <1>7, <1>8, FreshSteps

\* The counters have a place for the window of every evaluation.
Times == \A f \in flights : f.at \in 0..MaxWindow

\* An evaluation began at a time of the clock.
LEMMA TimesStep ==
  ASSUME TypeOK, SegmentsNumbered, Times, [Next]_vars
  PROVE  Times'
<1>1. ASSUME NEW f \in flights, Conclude(f) PROVE Times'
  <2>1. flights' = flights \ {f} BY <1>1, ConcludeMoves
  <2>2. QED BY <2>1 DEF Times
<1>2. ASSUME NEW s \in DOMAIN steps, Claim(s) PROVE Times'
  <2>1. \A f \in flights' \ flights : f.at = clock BY <1>2 DEF Claim
  <2>2. clock \in 0..MaxWindow BY DEF TypeOK
  <2>3. QED BY <2>1, <2>2 DEF Times
<1>3. ASSUME NEW s \in DOMAIN steps, LeaseEnds(s) PROVE Times'
  BY <1>3 DEF LeaseEnds, Times
<1>4. ASSUME UNCHANGED flights PROVE Times' BY <1>4 DEF Times
<1>5. QED BY <1>1, <1>2, <1>3, <1>4, NextMoves DEF Begins, Seals, Syncs

\* The inductive invariant of units on their ways.
UnitInv ==
  /\ SyncInv
  /\ Trails /\ Roots /\ Parts /\ PartsApart /\ Senders /\ Unsent /\ Receipts
  /\ Born /\ Times

\* What the proofs below use of the first invariant.
LEMMA SyncFacts ==
  ASSUME SyncInv
  PROVE  /\ TypeOK /\ SegmentsNumbered /\ Members /\ InputsHeld /\ BatchNodes
         /\ LeftMeansDecided /\ LeavesAlone /\ Whence /\ Carried
BY DEF SyncInv, GraphInv

\* At the start no unit is under way.
LEMMA UnitInit == Init => UnitInv
<1>1. SUFFICES ASSUME Init PROVE UnitInv OBVIOUS
<1>2. SyncInv BY <1>1, SyncInit
<1>3. DOMAIN steps = {} /\ data = {} /\ flights = {} BY <1>1 DEF Init
<1>4. Trails /\ Roots /\ Parts /\ PartsApart
  BY <1>3 DEF Trails, Roots, Parts, PartsApart
<1>5. Senders /\ Unsent /\ Receipts /\ Born /\ Times
  BY <1>3 DEF Senders, Unsent, Receipts, Born, Times
<1>6. QED BY <1>2, <1>4, <1>5 DEF UnitInv

\* Every operation keeps units on their ways.
LEMMA UnitStep == UnitInv /\ [Next]_vars => UnitInv'
<1>1. SUFFICES ASSUME UnitInv, [Next]_vars PROVE UnitInv' OBVIOUS
<1>2. SyncInv' BY <1>1, SyncStep DEF UnitInv
<1>3. /\ TypeOK /\ SegmentsNumbered /\ Members /\ InputsHeld /\ BatchNodes
      /\ LeftMeansDecided /\ LeavesAlone /\ Whence /\ Carried
  BY <1>1, SyncFacts DEF UnitInv
<1>4. TypeOK' /\ Whence' /\ LeavesAlone' BY <1>2 DEF SyncInv, GraphInv
<1>5. /\ Trails /\ Roots /\ Parts /\ PartsApart /\ Senders /\ Unsent /\ Receipts
      /\ Born /\ Times
  BY <1>1 DEF UnitInv
<1>6. Trails' /\ Roots' /\ Parts'
  BY <1>1, <1>3, <1>5, TrailsStep, RootsStep, PartsStep
<1>7. PartsApart' BY <1>1, <1>3, <1>5, PartsApartStep
<1>8. Senders' /\ Born' /\ Times'
  BY <1>1, <1>3, <1>5, SendersStep, BornStep, TimesStep
<1>9. Receipts' BY <1>1, <1>3, <1>4, <1>5, ReceiptsStep
<1>10. Unsent'
  <2>1. WayFacts /\ WayFacts' BY <1>3, <1>4, <1>5, <1>6, <1>7, <1>9 DEF WayFacts
  <2>2. QED BY <1>1, <1>3, <1>5, <2>1, UnsentStep
<1>11. QED BY <1>2, <1>6, <1>7, <1>8, <1>9, <1>10 DEF UnitInv

\* So it holds throughout.
LEMMA UnitInvariant == Spec => []UnitInv
<1>1. Init => UnitInv BY UnitInit
<1>2. UnitInv /\ [Next]_vars => UnitInv' BY UnitStep
<1>3. QED BY <1>1, <1>2, PTL DEF Spec

-----------------------------------------------------------------------------
(* Sums over the windows.                                                  *)

Windows == 0..MaxWindow
\* The numbers h of the windows, added up.
Sums(h, g) == g = [w \in Windows |-> h[w] + IF w = 0 THEN 0 ELSE g[w - 1]]

\* The windows are numbers without gaps.
LEMMA WindowFacts ==
  /\ MaxWindow \in Windows /\ 0 \in Windows /\ Windows \subseteq Nat
  /\ \A w \in Windows : w # 0 => w - 1 \in Windows /\ w - 1 < w
BY ConfigAssumption DEF Windows

\* What holds for a window whenever it holds for the one before holds for all.
LEMMA EachWindow ==
  ASSUME NEW T \in SUBSET Windows,
         \A w \in Windows : w = 0 \/ w - 1 \in T => w \in T
  PROVE  T = Windows
<1>1. SUFFICES ASSUME T # Windows PROVE FALSE OBVIOUS
<1>2. PICK v : v \in Windows /\ v \notin T BY <1>1
<1>3. Windows \ T \in SUBSET Nat /\ Windows \ T # {} BY <1>2, WindowFacts
<1>4. PICK x \in Windows \ T : \A y \in Windows \ T : x <= y BY <1>3, LeastNumber
<1>5. x \in Nat /\ x # 0 BY <1>4, WindowFacts
<1>6. x - 1 \in Windows /\ x - 1 < x /\ x - 1 \in Nat BY <1>4, <1>5, WindowFacts
<1>7. x - 1 \in T BY <1>4, <1>5, <1>6
<1>8. QED BY <1>4, <1>7

\* What such sums are, window by window.
LEMMA SumsAre ==
  ASSUME NEW h \in [Windows -> Nat], NEW g, Sums(h, g)
  PROVE  /\ DOMAIN g = Windows
         /\ \A w \in Windows : g[w] \in Nat /\ g[w] = h[w] + IF w = 0 THEN 0 ELSE g[w - 1]
<1>1. DOMAIN g = Windows BY DEF Sums
<1>2. \A w \in Windows : g[w] = h[w] + IF w = 0 THEN 0 ELSE g[w - 1]
  <2> DEFINE G == [w \in Windows |-> h[w] + IF w = 0 THEN 0 ELSE g[w - 1]]
  <2>1. \A w \in Windows : G[w] = h[w] + IF w = 0 THEN 0 ELSE g[w - 1] OBVIOUS
  <2>2. g = G BY DEF Sums
  <2> HIDE DEF G
  <2>3. QED BY <2>1, <2>2
<1> DEFINE T == {w \in Windows : g[w] \in Nat}
<1>3. \A w \in Windows : w = 0 \/ w - 1 \in T => w \in T
  BY <1>2
<1>4. T = Windows
  <2>1. T \in SUBSET Windows OBVIOUS
  <2> HIDE DEF T
  <2>2. QED BY <1>3, <2>1, EachWindow
<1>5. QED BY <1>1, <1>2, <1>4

\* There are such sums.
LEMMA SumsExist ==
  ASSUME NEW h \in [Windows -> Nat]
  PROVE  \E g : Sums(h, g)
<1> DEFINE Upto(m, g) == \A w \in 0..m : g[w] = h[w] + IF w = 0 THEN 0 ELSE g[w - 1]
           T == {m \in Windows : \E g : Upto(m, g)}
<1>1. \A m \in Windows : m = 0 \/ m - 1 \in T => m \in T
  <2>1. SUFFICES ASSUME NEW m \in Windows, m = 0 \/ m - 1 \in T PROVE \E g : Upto(m, g)
    OBVIOUS
  <2>2. m \in Nat BY WindowFacts
  <2>3. CASE m = 0
    <3> DEFINE g == [w \in {0} |-> h[0]]
    <3>1. h[0] \in Nat BY WindowFacts
    <3>2. \A w \in 0..m : w = 0 BY <2>3
    <3>3. g[0] = h[0] + 0 BY <3>1
    <3>4. Upto(m, g) BY <3>2, <3>3
    <3>5. QED BY <3>4
  <2>4. CASE m # 0
    <3>1. PICK f : Upto(m - 1, f) BY <2>1, <2>4
    <3> DEFINE g == [w \in 0..m |-> IF w = m THEN h[m] + f[m - 1] ELSE f[w]]
    <3>2. ASSUME NEW w \in 0..m
          PROVE  g[w] = h[w] + IF w = 0 THEN 0 ELSE g[w - 1]
      <4>1. w \in Nat /\ m - 1 \in 0..m BY <2>2, <2>4
      <4>2. CASE w = m
        <5>1. g[w] = h[m] + f[m - 1] BY <4>2
        <5>2. g[m - 1] = f[m - 1] BY <2>2, <4>1
        <5>3. QED BY <2>4, <4>2, <5>1, <5>2
      <4>3. CASE w # m
        <5>1. w \in 0..(m - 1) BY <2>2, <4>1, <4>3
        <5>2. g[w] = f[w] BY <4>3
        <5>3. f[w] = h[w] + IF w = 0 THEN 0 ELSE f[w - 1] BY <3>1, <5>1
        <5>4. w # 0 => w - 1 \in 0..m /\ w - 1 # m BY <2>2, <5>1
        <5>5. w # 0 => g[w - 1] = f[w - 1] BY <5>4
        <5>6. QED BY <5>2, <5>3, <5>5
      <4>4. QED BY <4>2, <4>3
    <3>3. Upto(m, g) BY <3>2
    <3>4. QED BY <3>3
  <2>5. QED BY <2>3, <2>4
<1>2. T = Windows
  <2>1. T \in SUBSET Windows OBVIOUS
  <2> HIDE DEF T
  <2>2. QED BY <1>1, <2>1, EachWindow
<1>3. MaxWindow \in T BY <1>2, WindowFacts
<1>4. PICK f : Upto(MaxWindow, f) BY <1>3
<1> DEFINE g == [w \in Windows |-> f[w]]
<1>5. ASSUME NEW w \in Windows
      PROVE  g[w] = h[w] + IF w = 0 THEN 0 ELSE g[w - 1]
  <2>1. f[w] = h[w] + IF w = 0 THEN 0 ELSE f[w - 1] BY <1>4 DEF Windows
  <2>2. w # 0 => g[w - 1] = f[w - 1] BY WindowFacts
  <2>3. QED BY <2>1, <2>2
<1>6. Sums(h, g)
  <2>1. g = [w \in Windows |-> g[w]] OBVIOUS
  <2> HIDE DEF g
  <2>2. QED BY <1>5, <2>1 DEF Sums
<1>7. QED BY <1>6

\* They are the same in the end for the same numbers.
LEMMA SumsSame ==
  ASSUME NEW h \in [Windows -> Nat], NEW g, NEW k, Sums(h, g), Sums(h, k)
  PROVE  g[MaxWindow] = k[MaxWindow]
<1> DEFINE T == {w \in Windows : g[w] = k[w]}
<1>1. \A w \in Windows : w = 0 \/ w - 1 \in T => w \in T
  BY SumsAre
<1>2. T = Windows
  <2>1. T \in SUBSET Windows OBVIOUS
  <2> HIDE DEF T
  <2>2. QED BY <1>1, <2>1, EachWindow
<1>3. QED BY <1>2, WindowFacts

\* One more of a number makes one more in the end.
LEMMA SumsMore ==
  ASSUME NEW h \in [Windows -> Nat], NEW l \in [Windows -> Nat], NEW v \in Windows,
         l[v] = h[v] + 1, \A w \in Windows \ {v} : l[w] = h[w],
         NEW g, NEW k, Sums(h, g), Sums(l, k)
  PROVE  k[MaxWindow] = g[MaxWindow] + 1
<1> DEFINE T == {w \in Windows : k[w] = g[w] + IF w < v THEN 0 ELSE 1}
<1>1. ASSUME NEW w \in Windows, w = 0 \/ w - 1 \in T PROVE w \in T
  <2>1. /\ w \in Nat /\ v \in Nat /\ h[w] \in Nat /\ l[w] \in Nat
        /\ w # 0 => w - 1 \in Windows
    BY WindowFacts
  <2>2. /\ g[w] = h[w] + IF w = 0 THEN 0 ELSE g[w - 1]
        /\ k[w] = l[w] + IF w = 0 THEN 0 ELSE k[w - 1]
        /\ g[w] \in Nat /\ k[w] \in Nat
        /\ w # 0 => g[w - 1] \in Nat /\ k[w - 1] \in Nat
    BY <2>1, SumsAre
  <2>3. CASE w = 0
    <3>1. g[w] = h[w] /\ k[w] = l[w] BY <2>1, <2>2, <2>3
    <3>2. CASE v = 0 BY <2>1, <2>3, <3>1, <3>2
    <3>3. CASE v # 0 BY <2>1, <2>3, <3>1, <3>3
    <3>4. QED BY <3>2, <3>3
  <2>4. CASE w # 0
    <3>1. k[w - 1] = g[w - 1] + IF w - 1 < v THEN 0 ELSE 1 BY <1>1, <2>4
    <3>2. g[w] = h[w] + g[w - 1] /\ k[w] = l[w] + k[w - 1] BY <2>2, <2>4
    <3>3. CASE w = v BY <2>1, <2>2, <2>4, <3>1, <3>2, <3>3
    <3>4. CASE w < v BY <2>1, <2>2, <2>4, <3>1, <3>2, <3>4
    <3>5. CASE w > v BY <2>1, <2>2, <2>4, <3>1, <3>2, <3>5
    <3>6. QED BY <2>1, <3>3, <3>4, <3>5
  <2>5. QED BY <2>3, <2>4
<1>2. T = Windows
  <2>1. T \in SUBSET Windows OBVIOUS
  <2> HIDE DEF T
  <2>2. QED BY <1>1, <2>1, EachWindow
<1>3. MaxWindow \in T /\ v <= MaxWindow /\ v \in Nat /\ MaxWindow \in Nat
  BY <1>2, WindowFacts, ConfigAssumption DEF Windows
<1>4. QED BY <1>3

\* Nothing adds up to nothing.
LEMMA SumsNone ==
  ASSUME NEW h \in [Windows -> Nat], \A w \in Windows : h[w] = 0, NEW g, Sums(h, g)
  PROVE  g[MaxWindow] = 0
<1> DEFINE T == {w \in Windows : g[w] = 0}
<1>1. \A w \in Windows : w = 0 \/ w - 1 \in T => w \in T
  BY SumsAre
<1>2. T = Windows
  <2>1. T \in SUBSET Windows OBVIOUS
  <2> HIDE DEF T
  <2>2. QED BY <1>1, <2>1, EachWindow
<1>3. QED BY <1>2, WindowFacts

-----------------------------------------------------------------------------
(* What passes a limiting block.                                           *)

\* The evaluation passes the runs K, which are of one key: it is counted in the
\* window of its tick and leaves over all edges.
Lets(f, K, k) ==
  LET s == f.step IN
  /\ Owned(f) /\ Type[s.node] = "limit"
  /\ k \in Keys /\ K # {} /\ K \subseteq f.runs
  /\ \A r \in K : KeyOf[s.node][r] = k
  /\ used[<<s.node, k, f.at>>] < GateCount
  /\ used' = [used EXCEPT ![<<s.node, k, f.at>>] = @ + 1]
  /\ \A d : d \in data' <=>
       d \in data \/ \E e \in Out(s.node) : \E r \in K : d = <<r, e.id, Onward(s, K)>>

\* A limiting block passes its unit that way, or counts and sends nothing.
LEMMA GateLets ==
  ASSUME TypeOK, NEW f \in flights, Gate(f)
  PROVE  UNCHANGED <<data, used>> \/ \E K, k : Lets(f, K, k)
<1> DEFINE s == f.step
<1>1. PICK K \in Kept(f), k \in Keys :
        /\ K # {} /\ \A r \in K : KeyOf[s.node][r] = k
        /\ \/ /\ used[<<s.node, k, f.at>>] < GateCount
              /\ used' = [used EXCEPT ![<<s.node, k, f.at>>] = @ + 1]
              /\ Emit(s, Finish(s, "complete"), [e \in Out(s.node) |-> K], f.runs)
           \/ UNCHANGED <<data, used>>
  BY ZenonT(60) DEF Gate
<1>2. CASE UNCHANGED <<data, used>> BY <1>2
<1>3. CASE ~UNCHANGED <<data, used>>
  <2> DEFINE sent == [e \in Out(s.node) |-> K]
  <2>1. /\ used[<<s.node, k, f.at>>] < GateCount
        /\ used' = [used EXCEPT ![<<s.node, k, f.at>>] = @ + 1]
        /\ Emit(s, Finish(s, "complete"), sent, f.runs)
    BY <1>1, <1>3
  <2>2. \A e \in Out(s.node) : sent[e] = K OBVIOUS
  <2> HIDE DEF sent
  <2>3. s \in DOMAIN steps BY FlightFields
  <2>4. \A d : d \in data' <=>
          d \in data \/ \E e \in Out(s.node) : \E r \in sent[e] :
                          d = <<r, e.id, Onward(s, sent[e])>>
    BY <2>1, <2>3, EmitMoves
  <2>5. \A d : d \in data' <=>
          d \in data \/ \E e \in Out(s.node) : \E r \in K : d = <<r, e.id, Onward(s, K)>>
    BY <2>2, <2>4
  <2>6. Owned(f) /\ Type[s.node] = "limit" BY DEF Gate
  <2>7. K \subseteq f.runs BY FlightFields
  <2>8. Lets(f, K, k) BY <1>1, <2>1, <2>5, <2>6, <2>7 DEF Lets
  <2>9. QED BY <2>8
<1>4. QED BY <1>2, <1>3

\* An evaluation of a limiting block that completes otherwise sends nothing on.
LEMMA SettleNothing ==
  ASSUME TypeOK, NEW f \in flights, Settle(f), Type[f.step.node] = "limit"
  PROVE  data' = data
<1> DEFINE s == f.step
<1>1. PICK K \in Kept(f) :
        /\ Type[s.node] \in Plain \/ K = {}
        /\ \E port \in [K -> PortsOf(s.node)] :
             LET sent == [e \in Out(s.node) |-> {r \in K : port[r] = e.port}] IN
             /\ \A e \in Out(s.node) : sent[e] \subseteq Eligible(s)
             /\ Emit(s, Finish(s, "complete"), sent, f.runs)
  BY Zenon DEF Settle
<1>2. K = {} BY <1>1 DEF Plain
<1>3. PICK port \in [K -> PortsOf(s.node)] :
        Emit(s, Finish(s, "complete"),
             [e \in Out(s.node) |-> {r \in K : port[r] = e.port}], f.runs)
  BY <1>1
<1> DEFINE sent == [e \in Out(s.node) |-> {r \in K : port[r] = e.port}]
<1>4. \A e \in Out(s.node) : sent[e] = {} BY <1>2
<1>5. Emit(s, Finish(s, "complete"), sent, f.runs) BY <1>3
<1> HIDE DEF sent
<1>6. s \in DOMAIN steps BY FlightFields
<1>7. \A d : d \in data' <=>
        d \in data \/ \E e \in Out(s.node) : \E r \in sent[e] :
                        d = <<r, e.id, Onward(s, sent[e])>>
  BY <1>5, <1>6, EmitMoves
<1>8. QED BY <1>4, <1>7

\* The receipts over the edges of a block.
FromOf(n) == {d \in data : \E e \in Out(n) : d[2] = e.id}
Passed(n, k) == {u \in {d[3] : d \in FromOf(n)} : \A r \in u.runs : KeyOf[n][r] = k}
Row(n, k) == [w \in Windows |-> used[<<n, k, w>>]]

\* A counter moves only with a unit that passes.
LEMMA LetOrNot ==
  ASSUME TypeOK, SegmentsNumbered, BatchNodes, [Next]_vars
  PROVE  \/ /\ used' = used
            /\ \A n \in Nodes : Type[n] = "limit" => FromOf(n)' = FromOf(n)
         \/ \E f \in flights : \E K, k : Lets(f, K, k)
<1>1. ASSUME NEW f \in flights, Conclude(f), ~\E K, k : Lets(f, K, k)
      PROVE  /\ used' = used
             /\ \A n \in Nodes : Type[n] = "limit" => FromOf(n)' = FromOf(n)
  <2>1. Gate(f) => UNCHANGED <<data, used>> BY <1>1, GateLets
  <2>2. (Gate(f) \/ UNCHANGED used) /\ (Settle(f) \/ Gate(f) \/ UNCHANGED data)
    BY <1>1, ConcludeLeaves DEF ConcludeFrame
  <2>3. ASSUME NEW n \in Nodes, Type[n] = "limit" PROVE FromOf(n)' = FromOf(n)
    <3>1. CASE data' = data BY <3>1 DEF FromOf
    <3>2. CASE Settle(f) /\ Type[f.step.node] # "limit"
      <4>1. PICK sent : Leaves(f, sent) BY <3>2, SettleLeaves
      <4>2. \A d \in data' \ data : d \notin FromOf(n)'
        <5>1. ASSUME NEW d \in data' \ data, NEW e \in Out(n), d[2] = e.id PROVE FALSE
          <6>1. PICK g \in Out(f.step.node) : d[2] = g.id BY <4>1, <5>1, LeavesAll
          <6>2. n = f.step.node BY <5>1, <6>1, EdgeFacts
          <6>3. QED BY <2>3, <3>2, <6>2
        <5>2. QED BY <5>1 DEF FromOf
      <4>3. data \subseteq data' BY ReceiptsStay
      <4>4. QED BY <4>2, <4>3 DEF FromOf
    <3>3. QED BY <2>1, <2>2, <3>1, <3>2, SettleNothing
  <2>4. QED BY <2>1, <2>2, <2>3
<1>2. ASSUME NEW b \in DOMAIN batches, NEW taken, Seals(b, taken)
      PROVE  /\ used' = used
             /\ \A n \in Nodes : Type[n] = "limit" => FromOf(n)' = FromOf(n)
  <2>1. ASSUME NEW n \in Nodes, Type[n] = "limit", NEW d \in data' \ data, NEW e \in Out(n),
               d[2] = e.id
        PROVE  FALSE
    <3>1. PICK g \in taken : d[2] = g.id BY <1>2, <2>1 DEF Seals
    <3>2. g \in Out(b.node) BY <1>2, <3>1 DEF Seals
    <3>3. n = b.node BY <2>1, <3>1, <3>2, EdgeFacts
    <3>4. QED BY <2>1, <3>3 DEF BatchNodes
  <2>2. data \subseteq data' BY ReceiptsStay
  <2>3. QED BY <1>2, <2>1, <2>2 DEF FromOf, Seals
<1>3. ASSUME NEW S \in syncs, NEW Away, Syncs(S, Away)
      PROVE  /\ used' = used
             /\ \A n \in Nodes : Type[n] = "limit" => FromOf(n)' = FromOf(n)
  <2>1. ASSUME NEW n \in Nodes, Type[n] = "limit", NEW d \in data' \ data, NEW e \in Out(n),
               d[2] = e.id
        PROVE  FALSE
    <3>1. PICK z \in LeavesNow(Away) : \E r \in z[2].runs : d = <<r, z[1].id, z[2]>>
      BY <1>3, <2>1 DEF Syncs
    <3>2. PICK m \in Merges : z[1] \in Out(m) BY <1>3, UnitsTyped
    <3>3. PICK g : g = z[1] OBVIOUS
    <3>4. g \in Out(m) /\ d[2] = g.id BY <3>1, <3>2, <3>3
    <3>5. n = m BY <2>1, <3>4, EdgeFacts
    <3>6. QED BY <2>1, <3>2, <3>5 DEF Merges
  <2>2. data \subseteq data' BY ReceiptsStay
  <2>3. QED BY <1>3, <2>1, <2>2 DEF FromOf, Syncs
<1>4. ASSUME UNCHANGED <<data, used>>
      PROVE  /\ used' = used
             /\ \A n \in Nodes : Type[n] = "limit" => FromOf(n)' = FromOf(n)
  BY <1>4 DEF FromOf
<1>5. QED BY <1>1, <1>2, <1>3, <1>4, NextMoves DEF Begins, Leases, Rests

\* One unit more, and one more in the books, for one key of one block.
LEMMA OneMore ==
  ASSUME UnitInv, [Next]_vars, NEW f \in flights, NEW K, NEW key, Lets(f, K, key),
         NEW n \in Nodes, NEW k \in Keys, Type[n] = "limit"
  PROVE  IF n = f.step.node /\ k = key
         THEN /\ Onward(f.step, K) \notin Passed(n, k)
              /\ Passed(n, k)' = Passed(n, k) \cup {Onward(f.step, K)}
         ELSE Passed(n, k)' = Passed(n, k)
<1> DEFINE s == f.step
<1> DEFINE u == Onward(f.step, K)
<1>1. /\ TypeOK /\ Members /\ Carried /\ Unsent
  BY SyncFacts DEF UnitInv
<1>2. /\ s \in DOMAIN steps /\ s \in StepIds /\ s.node \in Nodes
      /\ f.runs \subseteq s.unit.runs /\ K \subseteq f.runs
  BY <1>1, FlightFields DEF Lets, Members, FlightMembers
<1>3. Of(s, u) /\ u.runs = K BY <1>2, OnwardIs
<1> HIDE DEF u
<1>4. \A d : d \in data' <=>
        d \in data \/ \E e \in Out(s.node) : \E r \in K : d = <<r, e.id, u>>
  BY DEF Lets, u
<1>5. CASE n # s.node
  <2>1. ASSUME NEW d \in data' \ data, NEW e \in Out(n), d[2] = e.id PROVE FALSE
    <3>1. PICK g \in Out(s.node) : d[2] = g.id BY <1>4, <2>1
    <3>2. e \in Edges /\ e.from = n /\ g \in Edges /\ g.from = s.node
      BY <2>1, <3>1, EdgeFacts
    <3>3. e = g BY <2>1, <3>1, <3>2, GraphAssumption
    <3>4. QED BY <1>5, <3>2, <3>3
  <2>2. data \subseteq data' BY <1>4
  <2>3. FromOf(n)' = FromOf(n) BY <2>1, <2>2 DEF FromOf
  <2>4. Passed(n, k)' = Passed(n, k) BY <2>3 DEF Passed
  <2>5. QED BY <1>5, <2>4
<1>6. CASE n = s.node
  <2>1. \A x : x \in {d[3] : d \in FromOf(n)'} <=> x \in {d[3] : d \in FromOf(n)} \/ x = u
    <3>1. ASSUME NEW x, x \in {d[3] : d \in FromOf(n)'}
          PROVE  x \in {d[3] : d \in FromOf(n)} \/ x = u
      <4>1. PICK d \in FromOf(n)' : x = d[3] BY <3>1
      <4>2. d \in data' /\ \E e \in Out(n) : d[2] = e.id BY <4>1 DEF FromOf
      <4>3. CASE d \in data BY <4>1, <4>2, <4>3 DEF FromOf
      <4>4. CASE d \notin data
        <5>1. PICK e \in Out(s.node), r \in K : d = <<r, e.id, u>> BY <1>4, <4>2, <4>4
        <5>2. x = u BY <4>1, <5>1
        <5>3. QED BY <5>2
      <4>5. QED BY <4>3, <4>4
    <3>2. ASSUME NEW x, x \in {d[3] : d \in FromOf(n)} PROVE x \in {d[3] : d \in FromOf(n)'}
      <4>1. data \subseteq data' BY <1>4
      <4>2. FromOf(n) \subseteq FromOf(n)' BY <4>1 DEF FromOf
      <4>3. QED BY <3>2, <4>2
    <3>3. u \in {d[3] : d \in FromOf(n)'}
      <4>1. PICK e \in Edges : e.from = n
        <5>1. Type[n] \notin {"stop", "send"} OBVIOUS
        <5>2. QED BY <5>1, PlanAssumption
      <4>2. e \in Out(n) BY <4>1 DEF Out
      <4>3. PICK r : r \in K BY DEF Lets
      <4>4. <<r, e.id, u>> \in data' BY <1>4, <1>6, <4>2, <4>3
      <4>5. PICK d : d = <<r, e.id, u>> OBVIOUS
      <4>6. d \in data' /\ d[2] = e.id /\ d[3] = u BY <4>4, <4>5
      <4>7. d \in FromOf(n)' BY <4>2, <4>6 DEF FromOf
      <4>8. QED BY <4>6, <4>7
    <3>4. QED BY <3>1, <3>2, <3>3
  <2>2. (\A r \in u.runs : KeyOf[n][r] = k) <=> k = key
    <3>1. \A r \in K : KeyOf[n][r] = key BY <1>6 DEF Lets
    <3>2. PICK r : r \in K BY DEF Lets
    <3>3. QED BY <1>3, <3>1, <3>2
  <2>3. u \notin {d[3] : d \in FromOf(n)}
    <3>1. SUFFICES ASSUME NEW d \in FromOf(n), d[3] = u PROVE FALSE OBVIOUS
    <3>2. PICK e \in Out(n) : d[2] = e.id BY <3>1 DEF FromOf
    <3>3. d \in data /\ d[1] \in d[3].runs BY <1>1, <3>1 DEF FromOf, Carried
    <3>4. d[1] \in s.unit.runs BY <1>2, <1>3, <3>1, <3>3
    <3>5. s.node \in Ordinary BY <1>2, <1>6 DEF Ordinary
    <3>6. steps[s].state \notin Terminal BY DEF Lets, Owned, Terminal
    <3>7. ~Of(s, d[3]) BY <1>1, <1>2, <1>6, <3>2, <3>3, <3>4, <3>5, <3>6 DEF Unsent
    <3>8. QED BY <1>3, <3>1, <3>7
  <2>4. \A x : x \in Passed(n, k)' <=>
          x \in {d[3] : d \in FromOf(n)'} /\ \A r \in x.runs : KeyOf[n][r] = k
    BY DEF Passed
  <2>5. \A x : x \in Passed(n, k) <=>
          x \in {d[3] : d \in FromOf(n)} /\ \A r \in x.runs : KeyOf[n][r] = k
    BY DEF Passed
  <2>6. CASE k = key
    <3>1. \A x : x \in Passed(n, k)' <=> x \in Passed(n, k) \/ x = u
      BY <2>1, <2>2, <2>4, <2>5, <2>6
    <3>2. u \notin Passed(n, k) BY <2>3, <2>5
    <3>3. Passed(n, k)' = Passed(n, k) \cup {u} BY <3>1
    <3>4. QED BY <1>6, <2>6, <3>2, <3>3 DEF u
  <2>7. CASE k # key
    <3>1. \A x : x \in Passed(n, k)' <=> x \in Passed(n, k)
      BY <2>1, <2>2, <2>4, <2>5, <2>7
    <3>2. Passed(n, k)' = Passed(n, k) BY <3>1
    <3>3. QED BY <2>7, <3>2
  <2>8. QED BY <2>6, <2>7
<1>7. QED BY <1>5, <1>6

\* A counter of a limiting block.
Tally(n, k, w) == used[<<n, k, w>>]

\* The books of the limiting blocks: no window is overdrawn, and all that passed
\* for a key is counted.
InTime ==
  \A n \in Nodes, k \in Keys : \A w \in Windows : Tally(n, k, w) <= GateCount
Counted ==
  \A n \in Nodes, k \in Keys : Type[n] = "limit" =>
    /\ IsFiniteSet(Passed(n, k))
    /\ \A g : Sums(Row(n, k), g) => g[MaxWindow] = Cardinality(Passed(n, k))

\* The row of a key is a row of its counters.
LEMMA RowIs ==
  ASSUME TypeOK, NEW n \in Nodes, NEW k \in Keys
  PROVE  /\ Row(n, k) \in [Windows -> Nat]
         /\ \A w \in Windows : Row(n, k)[w] = Tally(n, k, w)
<1>1. \A w \in Windows : Tally(n, k, w) \in Nat BY DEF TypeOK, Windows, Tally
<1>2. QED BY <1>1 DEF Row, Tally

\* And it is after a step.
LEMMA RowIsNext == TypeOK' => \A n \in Nodes, k \in Keys :
  /\ Row(n, k)' \in [Windows -> Nat]
  /\ \A w \in Windows : Row(n, k)'[w] = Tally(n, k, w)'
<1>1. SUFFICES ASSUME TypeOK', NEW n \in Nodes, NEW k \in Keys
               PROVE  /\ Row(n, k)' \in [Windows -> Nat]
                      /\ \A w \in Windows : Row(n, k)'[w] = Tally(n, k, w)'
  OBVIOUS
<1>2. \A w \in Windows : Tally(n, k, w)' \in Nat BY <1>1 DEF TypeOK, Windows, Tally
<1>3. QED BY <1>2 DEF Row, Tally

\* What a unit that passes does to the counters.
LEMMA LetsCounts ==
  ASSUME TypeOK, Times, NEW f \in flights, NEW K, NEW key, Lets(f, K, key)
  PROVE  /\ f.at \in Windows /\ f.step.node \in Nodes /\ key \in Keys
         /\ Tally(f.step.node, key, f.at) < GateCount
         /\ Tally(f.step.node, key, f.at)' = Tally(f.step.node, key, f.at) + 1
         /\ \A n \in Nodes, k \in Keys : \A w \in Windows :
              n # f.step.node \/ k # key \/ w # f.at =>
                Tally(n, k, w)' = Tally(n, k, w)
<1>1. f.at \in Windows /\ f.step.node \in Nodes /\ key \in Keys
  BY FlightFields DEF Times, Lets, Windows
<1>2. PICK c : c = <<f.step.node, key, f.at>> OBVIOUS
<1>3. used \in [Nodes \X Keys \X Windows -> Nat] BY DEF TypeOK, Windows
<1>4. used' = [used EXCEPT ![c] = @ + 1] /\ used[c] < GateCount BY <1>2 DEF Lets
<1>5. c \in Nodes \X Keys \X Windows BY <1>1, <1>2
<1>6. used'[c] = used[c] + 1 BY <1>3, <1>4, <1>5
<1>7. ASSUME NEW n \in Nodes, NEW k \in Keys, NEW w \in Windows,
             n # f.step.node \/ k # key \/ w # f.at
      PROVE  Tally(n, k, w)' = Tally(n, k, w)
  <2>1. <<n, k, w>> # c BY <1>2, <1>7
  <2>2. <<n, k, w>> \in Nodes \X Keys \X Windows OBVIOUS
  <2>3. QED BY <1>3, <1>4, <2>1, <2>2 DEF Tally
<1>8. QED BY <1>1, <1>2, <1>4, <1>6, <1>7 DEF Tally

\* No step overdraws a window (Gate).
LEMMA InTimeStep ==
  ASSUME UnitInv, InTime, [Next]_vars
  PROVE  InTime'
<1>1. TypeOK /\ SegmentsNumbered /\ BatchNodes /\ Times
  BY SyncFacts DEF UnitInv
<1>2. CASE used' = used BY <1>2 DEF InTime, Tally
<1>3. ASSUME NEW f \in flights, NEW K, NEW key, Lets(f, K, key) PROVE InTime'
  <2>1. SUFFICES ASSUME NEW n \in Nodes, NEW k \in Keys, NEW w \in Windows
                 PROVE  Tally(n, k, w)' <= GateCount
    BY DEF InTime
  <2>2. Tally(n, k, w) <= GateCount BY DEF InTime
  <2>3. CASE n = f.step.node /\ k = key /\ w = f.at
    <3>1. Tally(n, k, w) \in Nat BY <1>1 DEF TypeOK, Windows, Tally
    <3>2. Tally(n, k, w) < GateCount /\ Tally(n, k, w)' = Tally(n, k, w) + 1
      BY <1>1, <1>3, <2>3, LetsCounts
    <3>3. GateCount \in Nat BY ConfigAssumption
    <3>4. QED BY <3>1, <3>2, <3>3
  <2>4. CASE ~(n = f.step.node /\ k = key /\ w = f.at)
    <3>1. Tally(n, k, w)' = Tally(n, k, w) BY <1>1, <1>3, <2>4, LetsCounts
    <3>2. QED BY <2>2, <3>1
  <2>5. QED BY <2>3, <2>4
<1>4. QED BY <1>1, <1>2, <1>3, LetOrNot

\* Every step keeps the books.
LEMMA CountedStep ==
  ASSUME UnitInv, TypeOK', Counted, [Next]_vars
  PROVE  Counted'
<1>1. TypeOK /\ SegmentsNumbered /\ BatchNodes /\ Times
  BY SyncFacts DEF UnitInv
<1>2. SUFFICES ASSUME NEW n \in Nodes, NEW k \in Keys, Type[n] = "limit"
               PROVE  /\ IsFiniteSet(Passed(n, k)')
                      /\ \A g : Sums(Row(n, k)', g) =>
                           g[MaxWindow] = Cardinality(Passed(n, k)')
  BY DEF Counted
<1>3. /\ IsFiniteSet(Passed(n, k))
      /\ \A g : Sums(Row(n, k), g) => g[MaxWindow] = Cardinality(Passed(n, k))
  BY <1>2 DEF Counted
<1>4. PICK h : h = Row(n, k) OBVIOUS
<1>5. PICK l : l = Row(n, k)' OBVIOUS
<1>6. /\ h \in [Windows -> Nat] /\ \A w \in Windows : h[w] = Tally(n, k, w)
      /\ l \in [Windows -> Nat] /\ \A w \in Windows : l[w] = Tally(n, k, w)'
  BY <1>1, <1>4, <1>5, RowIs, RowIsNext
<1>7. CASE (\A w \in Windows : Tally(n, k, w)' = Tally(n, k, w))
             /\ Passed(n, k)' = Passed(n, k)
  <2>1. \A w \in Windows : l[w] = h[w] BY <1>6, <1>7
  <2>2. l = h BY <1>6, <2>1
  <2>3. QED BY <1>3, <1>4, <1>5, <1>7, <2>2
<1>8. ASSUME NEW f \in flights, NEW K, NEW key, Lets(f, K, key)
      PROVE  /\ IsFiniteSet(Passed(n, k)')
             /\ \A g : Sums(l, g) => g[MaxWindow] = Cardinality(Passed(n, k)')
  <2>1. CASE ~(n = f.step.node /\ k = key)
    <3>1. \A w \in Windows : Tally(n, k, w)' = Tally(n, k, w)
      BY <1>1, <1>8, <2>1, LetsCounts
    <3>2. Passed(n, k)' = Passed(n, k) BY <1>2, <1>8, <2>1, OneMore
    <3>3. QED BY <1>7, <1>5, <3>1, <3>2
  <2>2. CASE n = f.step.node /\ k = key
    <3>1. PICK v : v = f.at OBVIOUS
    <3>2. v \in Windows /\ l[v] = h[v] + 1 BY <1>1, <1>6, <1>8, <2>2, <3>1, LetsCounts
    <3>3. \A w \in Windows \ {v} : l[w] = h[w] BY <1>1, <1>6, <1>8, <3>1, LetsCounts
    <3>4. PICK u : u = Onward(f.step, K) OBVIOUS
    <3>5. u \notin Passed(n, k) /\ Passed(n, k)' = Passed(n, k) \cup {u}
      BY <1>2, <1>8, <2>2, <3>4, OneMore
    <3>6. /\ IsFiniteSet(Passed(n, k)')
          /\ Cardinality(Passed(n, k)') = Cardinality(Passed(n, k)) + 1
      BY <1>3, <3>5, FS_AddElement
    <3>7. PICK g : Sums(h, g) BY <1>6, SumsExist
    <3>8. g[MaxWindow] = Cardinality(Passed(n, k)) BY <1>3, <1>4, <3>7
    <3>9. ASSUME NEW q, Sums(l, q) PROVE q[MaxWindow] = Cardinality(Passed(n, k)')
      <4>1. q[MaxWindow] = g[MaxWindow] + 1 BY <1>6, <3>2, <3>3, <3>7, <3>9, SumsMore
      <4>2. QED BY <3>6, <3>8, <4>1
    <3>10. QED BY <3>6, <3>9
  <2>3. QED BY <2>1, <2>2
<1>9. CASE used' = used /\ FromOf(n)' = FromOf(n)
  <2>1. Passed(n, k)' = Passed(n, k) BY <1>9 DEF Passed
  <2>2. QED BY <1>7, <1>9, <2>1 DEF Tally
<1>10. QED BY <1>1, <1>2, <1>5, <1>8, <1>9, LetOrNot

\* The inductive invariant of the limiting blocks.
GateInv == UnitInv /\ InTime /\ Counted

\* At the start nothing has passed.
LEMMA GateInit == Init => GateInv
<1>1. SUFFICES ASSUME Init PROVE GateInv OBVIOUS
<1>2. UnitInv BY <1>1, UnitInit
<1>3. TypeOK BY <1>2, SyncFacts DEF UnitInv
<1>4. \A n \in Nodes, k \in Keys : \A w \in Windows : Tally(n, k, w) = 0
  BY <1>1 DEF Init, Windows, Tally
<1>5. InTime BY <1>4, ConfigAssumption DEF InTime
<1>6. ASSUME NEW n \in Nodes, NEW k \in Keys
      PROVE  /\ IsFiniteSet(Passed(n, k))
             /\ \A g : Sums(Row(n, k), g) => g[MaxWindow] = Cardinality(Passed(n, k))
  <2>1. Passed(n, k) = {} BY <1>1 DEF Init, Passed, FromOf
  <2>2. IsFiniteSet(Passed(n, k)) /\ Cardinality(Passed(n, k)) = 0 BY <2>1, FS_EmptySet
  <2>3. PICK h : h = Row(n, k) OBVIOUS
  <2>4. h \in [Windows -> Nat] /\ \A w \in Windows : h[w] = 0
    BY <1>3, <1>4, <2>3, RowIs
  <2>5. \A g : Sums(h, g) => g[MaxWindow] = 0 BY <2>4, SumsNone
  <2>6. QED BY <2>2, <2>3, <2>5
<1>7. Counted BY <1>6 DEF Counted
<1>8. QED BY <1>2, <1>5, <1>7 DEF GateInv

\* Every operation keeps the books.
LEMMA GateStep == GateInv /\ [Next]_vars => GateInv'
<1>1. SUFFICES ASSUME GateInv, [Next]_vars PROVE GateInv' OBVIOUS
<1>2. UnitInv /\ InTime /\ Counted BY <1>1 DEF GateInv
<1>3. UnitInv' BY <1>1, <1>2, UnitStep
<1>4. TypeOK' BY <1>3 DEF UnitInv, SyncInv, GraphInv
<1>5. InTime' /\ Counted' BY <1>1, <1>2, <1>4, InTimeStep, CountedStep
<1>6. QED BY <1>3, <1>5 DEF GateInv

\* So they are right throughout.
LEMMA GateInvariant == Spec => []GateInv
<1>1. Init => GateInv BY GateInit
<1>2. GateInv /\ [Next]_vars => GateInv' BY GateStep
<1>3. QED BY <1>1, <1>2, PTL DEF Spec

\* The totals of GateHonest are such sums.
LEMMA GateHonestIs ==
  ASSUME TypeOK
  PROVE  GateHonest <=>
           \A n \in Nodes, k \in Keys :
             /\ \A w \in Windows : used[<<n, k, w>>] <= GateCount
             /\ Type[n] = "limit" =>
                  \E g : Sums(Row(n, k), g) /\ g[MaxWindow] = Cardinality(Passed(n, k))
<1> DEFINE Total(n, k) ==
      CHOOSE g : g = [w \in 0..MaxWindow |->
                        used[<<n, k, w>>] + IF w = 0 THEN 0 ELSE g[w - 1]]
<1>1. GateHonest <=>
        \A n \in Nodes, k \in Keys :
          /\ \A w \in Windows : used[<<n, k, w>>] <= GateCount
          /\ Type[n] = "limit" => Total(n, k)[MaxWindow] = Cardinality(Passed(n, k))
  BY Zenon DEF GateHonest, Passed, FromOf, Windows
<1>2. ASSUME NEW n \in Nodes, NEW k \in Keys PROVE Sums(Row(n, k), Total(n, k))
  <2>1. ASSUME NEW g
        PROVE  Sums(Row(n, k), g) <=>
                 g = [w \in 0..MaxWindow |->
                        used[<<n, k, w>>] + IF w = 0 THEN 0 ELSE g[w - 1]]
    BY DEF Sums, Row, Windows
  <2>2. PICK h : h = Row(n, k) OBVIOUS
  <2>3. h \in [Windows -> Nat] BY <2>2, RowIs
  <2>4. \E g : Sums(Row(n, k), g) BY <2>2, <2>3, SumsExist
  <2>5. QED BY <2>1, <2>4
<1> HIDE DEF Total
<1>3. ASSUME NEW n \in Nodes, NEW k \in Keys
      PROVE  Total(n, k)[MaxWindow] = Cardinality(Passed(n, k)) <=>
               \E g : Sums(Row(n, k), g) /\ g[MaxWindow] = Cardinality(Passed(n, k))
  <2>1. PICK h : h = Row(n, k) OBVIOUS
  <2>2. h \in [Windows -> Nat] /\ Sums(h, Total(n, k)) BY <1>2, <2>1, RowIs
  <2>3. \A g : Sums(h, g) => g[MaxWindow] = Total(n, k)[MaxWindow] BY <2>2, SumsSame
  <2>4. QED BY <2>1, <2>2, <2>3
<1>4. QED BY <1>1, <1>3

\* Every unit that passed a limiting block was counted once, in a window that had
\* room for it, however often its activation was leased.
THEOREM GatesHonest == Spec => []GateHonest
<1>1. GateInv => GateHonest
  <2>1. SUFFICES ASSUME GateInv PROVE GateHonest OBVIOUS
  <2>2. TypeOK /\ InTime /\ Counted BY <2>1, SyncFacts DEF GateInv, UnitInv
  <2>3. ASSUME NEW n \in Nodes, NEW k \in Keys
        PROVE  /\ \A w \in Windows : used[<<n, k, w>>] <= GateCount
               /\ Type[n] = "limit" =>
                    \E g : Sums(Row(n, k), g) /\ g[MaxWindow] = Cardinality(Passed(n, k))
    <3>1. PICK h : h = Row(n, k) OBVIOUS
    <3>2. h \in [Windows -> Nat] BY <2>2, <3>1, RowIs
    <3>3. \E g : Sums(Row(n, k), g) BY <3>1, <3>2, SumsExist
    <3>4. QED BY <2>2, <3>3 DEF InTime, Counted, Tally
  <2>4. QED BY <2>2, <2>3, GateHonestIs
<1>2. QED BY <1>1, GateInvariant, PTL
=============================================================================
