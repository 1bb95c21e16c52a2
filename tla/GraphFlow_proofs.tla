--------------------------- MODULE GraphFlow_proofs ---------------------------
(***************************************************************************)
(* Proofs about GraphFlow for any graph, any number of runs, workers,      *)
(* windows and faults, and every mode of its nodes.                        *)
(***************************************************************************)
EXTENDS GraphFlow, FiniteSetTheorems, TLAPS

-----------------------------------------------------------------------------
(* The inductive invariant, in parts.                                      *)

\* An activation that was put into a batch is collecting, or its batches are
\* closed: it is never evaluated again.
InputsHeld ==
  \A b \in DOMAIN batches : \A i \in DOMAIN batches[b].inputs :
    /\ batches[b].inputs[i].step \in DOMAIN steps
    /\ steps[batches[b].inputs[i].step].state \in {"aggregating", "complete"}

\* Batches belong to aggregating nodes.
BatchNodes == \A b \in DOMAIN batches : Type[b.node] = "aggregate"

\* The segments of a window are numbered without gaps from zero.
SegmentsNumbered ==
  \A b \in DOMAIN batches :
    /\ IsFiniteSet(Segments(b.node, b.key, b.window))
    /\ b.segment < Cardinality(Segments(b.node, b.key, b.window))

\* What left a merge was decided on.
LeftMeansDecided ==
  \A d \in data : \A m \in Merges : \A e \in Out(m) :
    d[2] = e.id => <<m, d[1]>> \in DOMAIN decisions

\* A run is in one of the units that left a merge over an edge at most.
LeavesAlone ==
  \A c, d \in data : \A m \in Merges : \A e \in Out(m) :
    c[1] = d[1] /\ c[2] = e.id /\ d[2] = e.id => c = d

GraphInv ==
  /\ TypeOK
  /\ InputsHeld /\ BatchNodes /\ SegmentsNumbered /\ BatchBooks
  /\ LeftMeansDecided /\ LeavesAlone

-----------------------------------------------------------------------------
(* Units and the table of steps.                                           *)

\* The edges of a node are edges, and an edge has one source.
LEMMA EdgeFacts ==
  /\ \A n : \A e \in Out(n) : e \in Edges /\ e.from = n /\ e.id \in EdgeIds
                             /\ e.from \in Nodes /\ e.to \in Nodes
  /\ \A n, m : \A e \in Out(n), g \in Out(m) : e.id = g.id => e = g /\ n = m
  /\ NoEdge \notin EdgeIds
BY GraphAssumption DEF Out, EdgeIds

\* A step that sends some runs on forms a unit of them.
LEMMA OnwardTyped ==
  ASSUME NEW s \in StepIds, NEW R \in SUBSET Runs
  PROVE  Onward(s, R) \in Units /\ Onward(s, R).runs = R
BY DEF Onward, StepIds, Units

\* The fields of an identity.
LEMMA StepFields ==
  ASSUME NEW s \in StepIds
  PROVE  /\ s.node \in Nodes /\ s.via \in EdgeIds \cup {NoEdge} /\ s.unit \in Units
         /\ s.unit.runs \in SUBSET Runs
BY DEF StepIds, Units

\* The successor of a unit over an edge is an identity.
LEMMA SuccessorTyped ==
  ASSUME NEW n, NEW e \in Out(n), NEW u \in Units
  PROVE  [node |-> e.to, via |-> e.id, unit |-> u] \in StepIds
BY EdgeFacts DEF StepIds

\* A table of steps.
IsTable(t) == DOMAIN t \subseteq StepIds /\ \A s \in DOMAIN t : t[s] \in Steps

\* What an activation begins with.
NewStep(s) == [state |-> "pending", runs |-> s.unit.runs, wake |-> 0,
               version |-> 1, live |-> FALSE]

\* Activating steps adds pending ones and leaves the others alone.
LEMMA Activated ==
  ASSUME NEW t, NEW ids
  PROVE  /\ DOMAIN Activate(t, ids) = DOMAIN t \cup ids
         /\ \A s \in DOMAIN t : Activate(t, ids)[s] = t[s]
         /\ \A s \in ids \ DOMAIN t : Activate(t, ids)[s] = NewStep(s)
BY DEF Activate, NewStep

\* A table with activated steps is a table.
LEMMA ActivatedTyped ==
  ASSUME NEW t, IsTable(t), NEW ids \in SUBSET StepIds
  PROVE  IsTable(Activate(t, ids))
<1>1. \A s \in ids \ DOMAIN t : Activate(t, ids)[s] \in Steps
  <2>1. TAKE s \in ids \ DOMAIN t
  <2>2. s.unit.runs \in SUBSET Runs BY StepFields
  <2>3. NewStep(s) \in Steps BY <2>2 DEF NewStep, Steps, StepStates
  <2>4. Activate(t, ids)[s] = NewStep(s) BY Activated
  <2>5. QED BY <2>3, <2>4
<1>2. \A s \in DOMAIN t : Activate(t, ids)[s] \in Steps BY Activated DEF IsTable
<1>3. DOMAIN Activate(t, ids) = DOMAIN t \cup ids BY Activated
<1>4. QED BY <1>1, <1>2, <1>3 DEF IsTable

\* Ending an activation changes its record alone.
LEMMA FinishedStep ==
  ASSUME TypeOK, NEW s \in DOMAIN steps, NEW state \in StepStates, NEW wake \in Nat
  PROVE  /\ IsTable(Finished(s, state, wake))
         /\ DOMAIN Finished(s, state, wake) = DOMAIN steps
         /\ Finished(s, state, wake)[s].state = state
         /\ Finished(s, state, wake)[s].runs = steps[s].runs
         /\ \A t \in DOMAIN steps \ {s} : Finished(s, state, wake)[t] = steps[t]
<1>1. steps[s] \in Steps BY DEF TypeOK
<1>2. Finished(s, state, wake)[s]
        = [steps[s] EXCEPT !.state = state, !.wake = wake, !.live = FALSE]
  BY DEF Finished
<1>3. \A t \in DOMAIN steps \ {s} : Finished(s, state, wake)[t] = steps[t]
  BY DEF Finished
<1>4. DOMAIN Finished(s, state, wake) = DOMAIN steps BY DEF Finished
<1>5. /\ Finished(s, state, wake)[s] \in Steps
      /\ Finished(s, state, wake)[s].state = state
      /\ Finished(s, state, wake)[s].runs = steps[s].runs
  BY <1>1, <1>2 DEF Steps
<1>6. QED BY <1>3, <1>4, <1>5 DEF TypeOK, IsTable

\* Finish keeps the time a step is due at.
LEMMA FinishIsFinished ==
  ASSUME TypeOK, NEW s \in DOMAIN steps, NEW state
  PROVE  Finish(s, state) = Finished(s, state, steps[s].wake) /\ steps[s].wake \in Nat
BY DEF Finish, TypeOK, Steps
-----------------------------------------------------------------------------
(* What the operations do to the table of steps.                           *)

\* No step disappears, and what is new is pending.
TableGrows ==
  /\ IsTable(steps') /\ DOMAIN steps \subseteq DOMAIN steps'
  /\ \A t \in DOMAIN steps' \ DOMAIN steps : steps'[t] = NewStep(t)

\* The activation of a leased step ends in one of the given states; the other
\* steps stay as they are.
Ends(s, states) ==
  /\ TableGrows
  /\ s \in DOMAIN steps /\ steps[s].state = "leased"
  /\ steps'[s].state \in states
  /\ \A t \in DOMAIN steps \ {s} : steps'[t] = steps[t]

\* What a worker holds of a step.
LEMMA FlightFields ==
  ASSUME TypeOK, NEW f \in flights
  PROVE  /\ f.step \in DOMAIN steps /\ f.step \in StepIds
         /\ f.runs \in SUBSET Runs /\ f.at \in Nat /\ f.step.node \in Nodes
         /\ f.step.unit.runs \in SUBSET Runs
         /\ steps[f.step] \in Steps /\ Eligible(f.step) \in SUBSET Runs
         /\ \A K \in Kept(f) : K \in SUBSET f.runs /\ K \in SUBSET Runs
<1>1. f.step \in DOMAIN steps /\ f \in Flights /\ f.step \in StepIds BY DEF TypeOK
<1>2. f.runs \in SUBSET Runs /\ f.at \in Nat BY <1>1 DEF Flights
<1>3. steps[f.step] \in Steps BY <1>1 DEF TypeOK
<1>4. Eligible(f.step) \in SUBSET Runs BY <1>3 DEF Steps, Eligible
<1>5. \A K \in Kept(f) : K \in SUBSET f.runs /\ K \in SUBSET Runs BY <1>2 DEF Kept
<1>6. QED BY <1>1, <1>2, <1>3, <1>4, <1>5, StepFields

\* Ending an activation without a successor.
LEMMA FinishEnds ==
  ASSUME TypeOK, NEW f \in flights, Owned(f), NEW state \in StepStates, NEW wake \in Nat,
         steps' = Finished(f.step, state, wake)
  PROVE  Ends(f.step, {state})
<1>1. f.step \in DOMAIN steps BY FlightFields
<1>2. QED BY <1>1, FinishedStep DEF Ends, TableGrows, Owned

\* Ending it with successors.
LEMMA FinishActivates ==
  ASSUME TypeOK, NEW f \in flights, Owned(f), NEW state \in StepStates, NEW wake \in Nat,
         NEW ids \in SUBSET StepIds,
         steps' = Activate(Finished(f.step, state, wake), ids)
  PROVE  Ends(f.step, {state})
<1>1. f.step \in DOMAIN steps BY FlightFields
<1> DEFINE T == Finished(f.step, state, wake)
<1>2. /\ IsTable(T) /\ DOMAIN T = DOMAIN steps /\ T[f.step].state = state
      /\ \A t \in DOMAIN steps \ {f.step} : T[t] = steps[t]
  BY <1>1, FinishedStep
<1> HIDE DEF T
<1>3. IsTable(Activate(T, ids)) BY <1>2, ActivatedTyped
<1>4. steps' = Activate(T, ids) BY DEF T
<1> DEFINE A == Activate(T, ids)
<1>5. /\ DOMAIN A = DOMAIN T \cup ids
      /\ \A s \in DOMAIN T : A[s] = T[s]
      /\ \A s \in ids \ DOMAIN T : A[s] = NewStep(s)
  BY Activated, Zenon
<1> HIDE DEF A
<1>6. IsTable(A) /\ steps' = A BY <1>3, <1>4 DEF A
<1>7. TableGrows BY <1>2, <1>5, <1>6 DEF TableGrows
<1>8. \A t \in DOMAIN steps \ {f.step} : steps'[t] = steps[t] BY <1>2, <1>5, <1>6
<1>9. steps'[f.step].state = state BY <1>1, <1>2, <1>5, <1>6
<1>10. QED BY <1>1, <1>7, <1>8, <1>9 DEF Ends, Owned

\* The receipts a successor gets are receipts.
LEMMA EmitTyped ==
  ASSUME NEW s \in StepIds, NEW table, NEW sent \in [Out(s.node) -> SUBSET Runs],
         NEW seen \in SUBSET Runs, Emit(s, table, sent, seen)
  PROVE  /\ \E ids \in SUBSET StepIds : steps' = Activate(table, ids)
         /\ data \subseteq data' /\ closed \subseteq closed'
         /\ \A d \in data' \ data : /\ d \in Runs \X EdgeIds \X Units
                                    /\ \E e \in Out(s.node) : sent[e] # {} /\ d[2] = e.id
         /\ \A c \in closed' \ closed : c \in Runs \X EdgeIds
<1> DEFINE taken == {e \in Out(s.node) : sent[e] # {}}
           ids == {[node |-> e.to, via |-> e.id, unit |-> Onward(s, sent[e])] : e \in taken}
<1>1. \A e \in Out(s.node) : sent[e] \in SUBSET Runs OBVIOUS
<1>2. ids \in SUBSET StepIds
  <2>1. \A e \in taken : [node |-> e.to, via |-> e.id, unit |-> Onward(s, sent[e])] \in StepIds
    BY <1>1, OnwardTyped, SuccessorTyped
  <2>2. QED BY <2>1
<1>3. /\ steps' = Activate(table, ids)
      /\ data' = data \cup UNION {{<<r, e.id, Onward(s, sent[e])>> : r \in sent[e]}
                                  : e \in taken}
      /\ closed' = closed \cup UNION {{<<r, e.id>> : r \in seen \ sent[e]}
                                      : e \in Out(s.node)}
  BY DEF Emit
<1>4. \A d \in data' \ data : /\ d \in Runs \X EdgeIds \X Units
                              /\ \E e \in Out(s.node) : sent[e] # {} /\ d[2] = e.id
  <2>1. TAKE d \in data' \ data
  <2>2. PICK e \in taken : \E r \in sent[e] : d = <<r, e.id, Onward(s, sent[e])>>
    BY <1>3
  <2>3. PICK r \in sent[e] : d = <<r, e.id, Onward(s, sent[e])>> BY <2>2
  <2>4. r \in Runs /\ Onward(s, sent[e]) \in Units /\ e.id \in EdgeIds
    BY <1>1, OnwardTyped, EdgeFacts
  <2>5. QED BY <2>2, <2>3, <2>4
<1>5. \A c \in closed' \ closed : c \in Runs \X EdgeIds
  <2>1. TAKE c \in closed' \ closed
  <2>2. PICK e \in Out(s.node) : \E r \in seen : c = <<r, e.id>> BY <1>3
  <2>3. QED BY <2>2, EdgeFacts
<1>6. (\E I \in SUBSET StepIds : steps' = Activate(table, I)) BY <1>2, <1>3
<1>7. QED BY <1>3, <1>4, <1>5, <1>6

\* Two ways to say how an activation ends.
LEMMA EndsWeaker ==
  ASSUME NEW s, NEW A, NEW B, A \subseteq B, Ends(s, A)
  PROVE  Ends(s, B)
BY DEF Ends

\* What an activation that has not to wait for others ends in.
Over == {"complete", "excluded", "pending", "joining"}

\* A completed evaluation, one whose members were withdrawn, and one that failed
\* end the activation.
LEMMA SettleEnds ==
  ASSUME TypeOK, NEW f \in flights, Settle(f) \/ SettleRevoked(f) \/ FailStep(f)
  PROVE  Ends(f.step, Over)
<1>1. f.step \in DOMAIN steps BY FlightFields
<1>2. CASE Settle(f)
  <2> DEFINE s == f.step
  <2>1. PICK K \in Kept(f) : \E port \in [K -> PortsOf(s.node)] :
          Emit(s, Finish(s, "complete"),
               [e \in Out(s.node) |-> {r \in K : port[r] = e.port}], f.runs)
    BY <1>2, Zenon DEF Settle
  <2>2. PICK port \in [K -> PortsOf(s.node)] :
          Emit(s, Finish(s, "complete"),
               [e \in Out(s.node) |-> {r \in K : port[r] = e.port}], f.runs)
    BY <2>1
  <2> DEFINE sent == [e \in Out(s.node) |-> {r \in K : port[r] = e.port}]
  <2>3. sent \in [Out(s.node) -> SUBSET Runs] BY FlightFields
  <2> HIDE DEF sent
  <2>4. Emit(s, Finish(s, "complete"), sent, f.runs) BY <2>2 DEF sent
  <2>5. PICK ids \in SUBSET StepIds : steps' = Activate(Finish(s, "complete"), ids)
    BY <2>3, <2>4, FlightFields, EmitTyped
  <2>6. Finish(s, "complete") = Finished(s, "complete", steps[s].wake) /\ steps[s].wake \in Nat
    BY <1>1, FinishIsFinished
  <2>7. Owned(f) BY <1>2 DEF Settle
  <2>8. Ends(s, {"complete"}) BY <2>5, <2>6, <2>7, FinishActivates DEF StepStates
  <2>9. QED BY <2>8, EndsWeaker DEF Over
<1>3. CASE SettleRevoked(f) \/ FailStep(f)
  <2> DEFINE s == f.step
  <2>1. Owned(f) /\ steps' = Finish(s, "excluded") BY <1>3 DEF SettleRevoked, FailStep
  <2>2. Finish(s, "excluded") = Finished(s, "excluded", steps[s].wake) /\ steps[s].wake \in Nat
    BY <1>1, FinishIsFinished
  <2>3. Ends(s, {"excluded"}) BY <2>1, <2>2, FinishEnds DEF StepStates
  <2>4. QED BY <2>3, EndsWeaker DEF Over
<1>4. QED BY <1>2, <1>3

\* A wait keeps the step for the members that remain.
LEMMA WaitEnds ==
  ASSUME TypeOK, NEW f \in flights, Wait(f)
  PROVE  Ends(f.step, Over)
<1> DEFINE s == f.step
<1>1. s \in DOMAIN steps /\ f.at \in Nat BY FlightFields
<1>2. PICK K \in Kept(f) :
        steps' = [Finished(s, "pending", f.at + 1) EXCEPT ![s].runs = K]
  BY DEF Wait
<1> DEFINE T == Finished(s, "pending", f.at + 1)
<1>3. /\ IsTable(T) /\ DOMAIN T = DOMAIN steps /\ T[s].state = "pending"
      /\ \A t \in DOMAIN steps \ {s} : T[t] = steps[t]
  BY <1>1, FinishedStep DEF StepStates
<1> HIDE DEF T
<1>4. steps' = [T EXCEPT ![s].runs = K] BY <1>2 DEF T
<1>5. K \in SUBSET Runs BY FlightFields
<1>6. /\ DOMAIN steps' = DOMAIN steps
      /\ \A t \in DOMAIN steps \ {s} : steps'[t] = steps[t]
      /\ steps'[s] = [T[s] EXCEPT !.runs = K]
  BY <1>1, <1>3, <1>4
<1>7. T[s] \in Steps BY <1>1, <1>3 DEF IsTable
<1>8. steps'[s] \in Steps /\ steps'[s].state = "pending"
  BY <1>3, <1>5, <1>6, <1>7 DEF Steps
<1>9. IsTable(steps') BY <1>3, <1>6, <1>8 DEF IsTable
<1>10. Owned(f) BY DEF Wait
<1>11. QED BY <1>1, <1>6, <1>8, <1>9, <1>10 DEF Ends, TableGrows, Over, Owned

\* A limiting node splits a unit, passes, drops or defers it.
LEMMA LimitEnds ==
  ASSUME TypeOK, NEW f \in flights, Partition(f) \/ Gate(f)
  PROVE  Ends(f.step, Over)
<1> DEFINE s == f.step
<1>1. s \in DOMAIN steps /\ f.at \in Nat BY FlightFields
<1>2. \A st : Finish(s, st) = Finished(s, st, steps[s].wake) /\ steps[s].wake \in Nat
  BY <1>1, FinishIsFinished
<1>3. Owned(f) BY DEF Partition, Gate
<1>4. CASE Partition(f)
  <2>1. PICK K \in Kept(f) :
          steps' = Activate(Finish(s, "complete"),
                     {[s EXCEPT !.unit = Onward(s, G)] : G \in Groups(s.node, K)})
    BY <1>4 DEF Partition
  <2>2. \A G \in Groups(s.node, K) : G \in SUBSET Runs
    BY FlightFields DEF Groups
  <2>3. \A G \in SUBSET Runs : [s EXCEPT !.unit = Onward(s, G)] \in StepIds
    <3>1. TAKE G \in SUBSET Runs
    <3>2. Onward(s, G) \in Units /\ s \in StepIds BY FlightFields, OnwardTyped
    <3>3. QED BY <3>2 DEF StepIds
  <2>4. {[s EXCEPT !.unit = Onward(s, G)] : G \in Groups(s.node, K)} \in SUBSET StepIds
    BY <2>2, <2>3
  <2>5. Ends(s, {"complete"})
    BY <1>2, <1>3, <2>1, <2>4, FinishActivates DEF StepStates
  <2>6. QED BY <2>5, EndsWeaker DEF Over
<1>5. CASE Gate(f)
  <2>1. PICK K \in Kept(f) : \E k \in Keys :
          \/ Emit(s, Finish(s, "complete"), [e \in Out(s.node) |-> K], f.runs)
          \/ steps' = IF Overflow = "drop" THEN Finish(s, "excluded")
                      ELSE Finished(s, "pending", f.at + 1)
    <3>1. \E K \in Kept(f) : \E k \in Keys :
             \/ Emit(s, Finish(s, "complete"), [e \in Out(s.node) |-> K], f.runs)
             \/ /\ used[<<s.node, k, f.at>>] >= GateCount
                /\ steps' = IF Overflow = "drop" THEN Finish(s, "excluded")
                            ELSE Finished(s, "pending", f.at + 1)
      BY <1>5, ZenonT(60) DEF Gate
    <3>2. QED BY <3>1
  <2>2. CASE Emit(s, Finish(s, "complete"), [e \in Out(s.node) |-> K], f.runs)
    <3> DEFINE sent == [e \in Out(s.node) |-> K]
    <3>1. sent \in [Out(s.node) -> SUBSET Runs] BY FlightFields
    <3> HIDE DEF sent
    <3>2. Emit(s, Finish(s, "complete"), sent, f.runs) BY <2>2 DEF sent
    <3>3. PICK ids \in SUBSET StepIds : steps' = Activate(Finish(s, "complete"), ids)
      BY <3>1, <3>2, FlightFields, EmitTyped
    <3>4. Ends(s, {"complete"}) BY <1>2, <1>3, <3>3, FinishActivates DEF StepStates
    <3>5. QED BY <3>4, EndsWeaker DEF Over
  <2>3. CASE steps' = Finish(s, "excluded")
    <3>1. Ends(s, {"excluded"}) BY <1>2, <1>3, <2>3, FinishEnds DEF StepStates
    <3>2. QED BY <3>1, EndsWeaker DEF Over
  <2>4. CASE steps' = Finished(s, "pending", f.at + 1)
    <3>1. Ends(s, {"pending"}) BY <1>1, <1>3, <2>4, FinishEnds DEF StepStates
    <3>2. QED BY <3>1, EndsWeaker DEF Over
  <2>5. \/ Emit(s, Finish(s, "complete"), [e \in Out(s.node) |-> K], f.runs)
        \/ steps' = Finish(s, "excluded")
        \/ steps' = Finished(s, "pending", f.at + 1)
    <3>1. CASE Overflow = "drop" BY <2>1, <3>1, Zenon
    <3>2. CASE Overflow # "drop" BY <2>1, <3>2, Zenon
    <3>3. QED BY <3>1, <3>2
  <2>6. QED BY <2>2, <2>3, <2>4, <2>5
<1>6. QED BY <1>4, <1>5

\* Admission, an arrival at a merge and an intent to send end it, too.
LEMMA StoreEnds ==
  ASSUME TypeOK, NEW f \in flights
  PROVE  /\ Admit(f) => Ends(f.step, {"aggregating"})
         /\ Park(f) \/ RecordSend(f) => Ends(f.step, Over)
<1> DEFINE s == f.step
<1>1. s \in DOMAIN steps BY FlightFields
<1>2. \A st : Finish(s, st) = Finished(s, st, steps[s].wake) /\ steps[s].wake \in Nat
  BY <1>1, FinishIsFinished
<1>3. ASSUME Admit(f) PROVE Ends(s, {"aggregating"})
  <2>1. Owned(f) /\ steps' = Finish(s, "aggregating") BY <1>3 DEF Admit
  <2>2. QED BY <1>2, <2>1, FinishEnds DEF StepStates
<1>4. ASSUME Park(f) PROVE Ends(s, Over)
  <2>1. Owned(f) /\ steps' = Finish(s, "joining") BY <1>4 DEF Park
  <2>2. Ends(s, {"joining"}) BY <1>2, <2>1, FinishEnds DEF StepStates
  <2>3. QED BY <2>2, EndsWeaker DEF Over
<1>5. ASSUME RecordSend(f) PROVE Ends(s, Over)
  <2>1. Owned(f) /\ steps' = Finish(s, "complete") BY <1>5 DEF RecordSend
  <2>2. Ends(s, {"complete"}) BY <1>2, <2>1, FinishEnds DEF StepStates
  <2>3. QED BY <2>2, EndsWeaker DEF Over
<1>6. QED BY <1>3, <1>4, <1>5

\* A step begins: an event enters, or a worker takes or loses a lease.
LEMMA LeaseSteps ==
  ASSUME TypeOK
  PROVE  /\ \A r \in Runs : StartRun(r) =>
              TableGrows /\ \A t \in DOMAIN steps : steps'[t] = steps[t]
         /\ \A s \in DOMAIN steps : Claim(s) \/ LeaseEnds(s) =>
              /\ TableGrows
              /\ steps[s].state \in {"pending", "leased"} /\ steps'[s].state = "leased"
              /\ \A t \in DOMAIN steps \ {s} : steps'[t] = steps[t]
<1>1. ASSUME NEW r \in Runs, StartRun(r)
      PROVE  TableGrows /\ \A t \in DOMAIN steps : steps'[t] = steps[t]
  <2> DEFINE unit == [origin |-> StartNode, path |-> {}, ancestry |-> {}, runs |-> {r}]
             ids == {[node |-> StartNode, via |-> NoEdge, unit |-> unit]}
  <2>1. unit \in Units BY GraphAssumption DEF Units
  <2>2. ids \in SUBSET StepIds BY <2>1, GraphAssumption DEF StepIds
  <2>3. steps' = Activate(steps, ids) BY <1>1 DEF StartRun
  <2> HIDE DEF ids
  <2>4. IsTable(steps) BY DEF IsTable, TypeOK
  <2>5. IsTable(steps') BY <2>2, <2>3, <2>4, ActivatedTyped
  <2>6. QED BY <2>3, <2>5, Activated DEF TableGrows
<1>2. ASSUME NEW s \in DOMAIN steps, Claim(s) \/ LeaseEnds(s)
      PROVE  /\ TableGrows
             /\ steps[s].state \in {"pending", "leased"} /\ steps'[s].state = "leased"
             /\ \A t \in DOMAIN steps \ {s} : steps'[t] = steps[t]
  <2>1. steps[s] \in Steps BY DEF TypeOK
  <2>2. steps[s].state \in {"pending", "leased"}
    BY <1>2 DEF Claim, Claimable, LeaseEnds
  <2>3. /\ DOMAIN steps' = DOMAIN steps
        /\ \A t \in DOMAIN steps \ {s} : steps'[t] = steps[t]
    BY <1>2 DEF Claim, LeaseEnds
  <2>4. steps'[s] \in Steps /\ steps'[s].state = "leased"
    <3>1. CASE Claim(s)
      <4>1. steps'[s] = [steps[s] EXCEPT !.state = "leased", !.live = TRUE,
                                         !.version = steps[s].version + 1]
        BY <3>1 DEF Claim
      <4>2. steps[s].version + 1 \in Nat BY <2>1 DEF Steps
      <4>3. QED BY <2>1, <4>1, <4>2 DEF Steps, StepStates
    <3>2. CASE LeaseEnds(s)
      <4>1. steps'[s] = [steps[s] EXCEPT !.live = FALSE] /\ steps[s].state = "leased"
        BY <3>2 DEF LeaseEnds
      <4>2. QED BY <2>1, <4>1 DEF Steps
    <3>3. QED BY <1>2, <3>1, <3>2
  <2>5. IsTable(steps')
    BY <2>3, <2>4 DEF IsTable, TypeOK
  <2>6. QED BY <2>2, <2>3, <2>4, <2>5 DEF TableGrows
<1>3. QED BY <1>1, <1>2

\* The inputs of a batch.
LEMMA InputFields ==
  ASSUME TypeOK, NEW b \in DOMAIN batches
  PROVE  /\ b \in BatchIds /\ b.node \in Nodes
         /\ batches[b] \in Batches /\ batches[b].inputs \in Seq(Inputs)
         /\ \A i \in DOMAIN batches[b].inputs :
              /\ batches[b].inputs[i] \in Inputs
              /\ batches[b].inputs[i].step \in StepIds
              /\ batches[b].inputs[i].runs \in SUBSET Runs
              /\ batches[b].inputs[i].step.unit.ancestry \in SUBSET BatchIds
<1>1. b \in BatchIds /\ batches[b] \in Batches BY DEF TypeOK
<1>2. batches[b].inputs \in Seq(Inputs) BY <1>1 DEF Batches
<1>3. \A i \in DOMAIN batches[b].inputs : batches[b].inputs[i] \in Inputs
  BY <1>2
<1>4. b.node \in Nodes BY <1>1 DEF BatchIds
<1>5. \A i \in DOMAIN batches[b].inputs :
        /\ batches[b].inputs[i].step \in StepIds
        /\ batches[b].inputs[i].runs \in SUBSET Runs
        /\ batches[b].inputs[i].step.unit.ancestry \in SUBSET BatchIds
  BY <1>3 DEF Inputs, StepIds, Units
<1>6. QED BY <1>1, <1>2, <1>3, <1>4, <1>5

\* The steps a batch completes: those whose last batch it is.
LastOf(b) ==
  {s \in {batches[b].inputs[i].step : i \in DOMAIN batches[b].inputs} : ~Awaited(s, b)}

\* Closing a batch completes these steps and activates its successors.
LEMMA CloseSteps ==
  ASSUME TypeOK, NEW b \in DOMAIN batches, CloseBatch(b)
  PROVE  /\ TableGrows
         /\ \A t \in DOMAIN steps :
              IF t \in LastOf(b) /\ steps[t].state = "aggregating"
              THEN steps'[t].state = "complete" ELSE steps'[t] = steps[t]
         /\ data \subseteq data'
         /\ \A d \in data' \ data : /\ d \in Runs \X EdgeIds \X Units
                                    /\ \E e \in Out(b.node) : d[2] = e.id
<1> DEFINE ins == batches[b].inputs
           Left(i) == ins[i].runs \ (revoked \cup expired)
           alive == {i \in DOMAIN ins : Left(i) # {}}
           chosen == IF BatchMode = "all" THEN alive
                     ELSE {i \in alive : \A j \in alive : j <= i}
           unit == [origin |-> b.node, path |-> {},
                    ancestry |-> {b} \cup UNION {ins[i].step.unit.ancestry : i \in chosen},
                    runs |-> UNION {Left(i) : i \in chosen}]
           done == [s \in DOMAIN steps |->
                      IF s \in LastOf(b) /\ steps[s].state = "aggregating"
                      THEN [steps[s] EXCEPT !.state = "complete"] ELSE steps[s]]
           Next1(taken) == {[node |-> e.to, via |-> e.id, unit |-> unit] : e \in taken}
<1>1. unit \in Units
  <2>1. chosen \subseteq DOMAIN ins OBVIOUS
  <2>2. \A i \in chosen : /\ ins[i].step.unit.ancestry \in SUBSET BatchIds
                          /\ Left(i) \in SUBSET Runs
    BY <2>1, InputFields
  <2> HIDE DEF chosen, Left
  <2>3. {b} \cup UNION {ins[i].step.unit.ancestry : i \in chosen} \in SUBSET BatchIds
    BY <2>2, InputFields
  <2>4. UNION {Left(i) : i \in chosen} \in SUBSET Runs BY <2>2
  <2>5. QED BY <2>3, <2>4, InputFields DEF Units
<1>2. unit.runs \in SUBSET Runs BY <1>1 DEF Units
<1> HIDE DEF unit
<1>3. PICK taken \in SUBSET Out(b.node) :
        /\ steps' = Activate(done, Next1(taken))
        /\ data' = data \cup UNION {{<<r, e.id, unit>> : r \in unit.runs} : e \in taken}
  <2>1. PICK outcome \in IF chosen = {} THEN {"empty"} ELSE {"sealed", "failed"} :
          LET taken == IF outcome = "sealed" THEN Out(b.node) ELSE {} IN
          /\ steps' = Activate(done, Next1(taken))
          /\ data' = data \cup UNION {{<<r, e.id, unit>> : r \in unit.runs} : e \in taken}
    BY Zenon DEF CloseBatch, LastOf, unit
  <2>2. CASE outcome = "sealed" BY <2>1, <2>2
  <2>3. CASE outcome # "sealed" BY <2>1, <2>3
  <2>4. QED BY <2>2, <2>3
<1>4. Next1(taken) \in SUBSET StepIds
  <2>1. \A e \in taken : [node |-> e.to, via |-> e.id, unit |-> unit] \in StepIds
    BY <1>1, SuccessorTyped
  <2>2. QED BY <2>1
<1>5. /\ IsTable(done) /\ DOMAIN done = DOMAIN steps
      /\ \A t \in DOMAIN steps :
           IF t \in LastOf(b) /\ steps[t].state = "aggregating"
           THEN done[t].state = "complete" ELSE done[t] = steps[t]
  <2>1. \A t \in DOMAIN steps : steps[t] \in Steps BY DEF TypeOK
  <2>2. \A t \in DOMAIN steps :
          [steps[t] EXCEPT !.state = "complete"] \in Steps
          /\ [steps[t] EXCEPT !.state = "complete"].state = "complete"
    BY <2>1 DEF Steps, StepStates
  <2>3. QED BY <2>1, <2>2 DEF IsTable, TypeOK
<1> HIDE DEF done, Next1
<1>6. IsTable(steps') BY <1>3, <1>4, <1>5, ActivatedTyped
<1>7. /\ DOMAIN Activate(done, Next1(taken)) = DOMAIN done \cup Next1(taken)
      /\ \A s \in DOMAIN done : Activate(done, Next1(taken))[s] = done[s]
      /\ \A s \in Next1(taken) \ DOMAIN done :
           Activate(done, Next1(taken))[s] = NewStep(s)
  BY Activated, Zenon
<1>8. TableGrows BY <1>3, <1>5, <1>6, <1>7 DEF TableGrows
<1>9. \A t \in DOMAIN steps : steps'[t] = done[t] BY <1>3, <1>5, <1>7
<1>10. \A d \in data' \ data : /\ d \in Runs \X EdgeIds \X Units
                               /\ \E e \in Out(b.node) : d[2] = e.id
  <2>1. TAKE d \in data' \ data
  <2>2. PICK e \in taken : \E r \in unit.runs : d = <<r, e.id, unit>> BY <1>3
  <2>3. QED BY <1>1, <1>2, <2>2, EdgeFacts
<1>11. QED BY <1>3, <1>5, <1>8, <1>9, <1>10

\* The units that leave a merge: they are units of the runs that leave, and a
\* run leaves in one of them only.
LEMMA JoinedUnits ==
  ASSUME TypeOK, NEW m \in Merges, NEW R \in SUBSET Runs
  PROVE  /\ Joined(m, R) \in SUBSET Units
         /\ \A u \in Joined(m, R) : u.runs \in SUBSET R
         /\ \A u, v \in Joined(m, R) : u.runs \cap v.runs # {} => u = v
<1> DEFINE Group(r) == {q \in R : \/ q = r
                                  \/ /\ Signature(m, r) # {}
                                     /\ Signature(m, q) = Signature(m, r)}
           Unit(G) == [origin |-> m, path |-> {}, runs |-> G,
                       ancestry |-> UNION {u.ancestry : u \in UNION {Arrivals(r, m) : r \in G}}]
<1>1. Joined(m, R) = {Unit(G) : G \in {Group(r) : r \in R}} BY Zenon DEF Joined
<1>2. \A r \in R : Group(r) \in SUBSET R OBVIOUS
<1>3. \A r : Arrivals(r, m) \in SUBSET Units BY DEF Arrivals, Data, TypeOK
<1>4. \A G \in SUBSET R : Unit(G) \in Units
  <2>1. TAKE G \in SUBSET R
  <2>2. \A u \in UNION {Arrivals(r, m) : r \in G} : u.ancestry \in SUBSET BatchIds
    BY <1>3 DEF Units
  <2>3. UNION {u.ancestry : u \in UNION {Arrivals(r, m) : r \in G}} \in SUBSET BatchIds
    BY <2>2
  <2>4. m \in Nodes BY DEF Merges
  <2>5. QED BY <2>3, <2>4 DEF Units
<1>5. \A G : Unit(G).runs = G OBVIOUS
<1>6. \A r, q \in R : Group(r) \cap Group(q) # {} => Group(r) = Group(q)
  <2>1. TAKE r, q \in R
  <2>2. HAVE Group(r) \cap Group(q) # {}
  <2>3. PICK x \in R : x \in Group(r) /\ x \in Group(q) BY <2>2
  <2>4. r = q \/ (Signature(m, r) # {} /\ Signature(m, r) = Signature(m, q))
    BY <2>3
  <2>5. QED BY <2>4
<1> HIDE DEF Group, Unit
<1>7. \A u \in Joined(m, R) : \E r \in R : u = Unit(Group(r)) /\ u.runs = Group(r)
  BY <1>1, <1>5
<1>8. Joined(m, R) \in SUBSET Units BY <1>2, <1>4, <1>7
<1>9. \A u \in Joined(m, R) : u.runs \in SUBSET R BY <1>2, <1>7
<1>10. ASSUME NEW u \in Joined(m, R), NEW v \in Joined(m, R), u.runs \cap v.runs # {}
       PROVE  u = v
  <2>1. PICK r \in R : u = Unit(Group(r)) /\ u.runs = Group(r) BY <1>7
  <2>2. PICK q \in R : v = Unit(Group(q)) /\ v.runs = Group(q) BY <1>7
  <2>3. Group(r) = Group(q) BY <1>6, <1>10, <2>1, <2>2
  <2>4. QED BY <2>1, <2>2, <2>3
<1>11. QED BY <1>8, <1>9, <1>10

\* What leaves merges in one synchronization.
LeavesNow(Away) == UNION {Out(m) \X Joined(m, Away[m]) : m \in Merges}

\* A synchronization completes activations of merges, and sends on runs that
\* their merge had not decided on before and has decided on now.
LEMMA SyncEffects ==
  ASSUME TypeOK, NEW S \in syncs, Synchronize(S)
  PROVE  \E Away \in [Merges -> SUBSET Runs] :
         /\ TableGrows
         /\ \A t \in DOMAIN steps :
              \/ steps'[t] = steps[t]
              \/ steps[t].state \in {"pending", "leased", "joining"}
                 /\ steps'[t].state = "complete"
         /\ \A m \in Merges : \A r \in Away[m] :
              <<m, r>> \notin DOMAIN decisions /\ <<m, r>> \in DOMAIN decisions'
         /\ DOMAIN decisions \subseteq DOMAIN decisions'
         /\ data' = data \cup UNION {{<<r, x[1].id, x[2]>> : r \in x[2].runs}
                                     : x \in LeavesNow(Away)}
<1> DEFINE closable == [r \in S \ revoked |-> Closable(r)]
           deciding == Deciding(closable)
           fresh == deciding \cup Withdrawn(S)
<1>1. S \in SUBSET Runs BY DEF TypeOK
<1>2. deciding \in SUBSET (Merges \X Runs)
  BY <1>1 DEF Deciding
<1>3. \A d \in deciding : ~Decided(d[1], d[2]) BY DEF Deciding
<1> HIDE DEF closable, deciding
<1>4. PICK failed \in SUBSET {d \in deciding : Accepts(d[1], d[2])} :
        LET accepted == {d \in deciding : Accepts(d[1], d[2])} \ failed
            RunsAt(m) == {r \in S : <<m, r>> \in accepted}
            decided == [d \in DOMAIN decisions \cup fresh |->
                          IF d \in DOMAIN decisions THEN decisions[d]
                          ELSE [state |-> IF d \in accepted THEN "emitted" ELSE "excluded",
                                arrivals |-> IF d \in deciding THEN Arrivals(d[2], d[1])
                                             ELSE {}]]
            over == {s \in DOMAIN steps :
                       /\ Type[s.node] = "merge"
                       /\ steps[s].state \in {"pending", "leased", "joining"}
                       /\ \A r \in steps[s].runs : <<s.node, r>> \in DOMAIN decided}
            ended == [s \in DOMAIN steps |->
                        IF s \in over
                        THEN [steps[s] EXCEPT !.state = "complete", !.live = FALSE]
                        ELSE steps[s]]
            out == UNION {Out(m) \X Joined(m, RunsAt(m)) : m \in Merges}
        IN
        /\ decisions' = decided
        /\ steps' = Activate(ended, {[node |-> x[1].to, via |-> x[1].id, unit |-> x[2]]
                                     : x \in out})
        /\ data' = data \cup UNION {{<<r, x[1].id, x[2]>> : r \in x[2].runs} : x \in out}
  BY Zenon DEF Synchronize, closable, deciding
<1> DEFINE accepted == {d \in deciding : Accepts(d[1], d[2])} \ failed
           Away == [m \in Merges |-> {r \in S : <<m, r>> \in accepted}]
           over == {s \in DOMAIN steps :
                       /\ Type[s.node] = "merge"
                       /\ steps[s].state \in {"pending", "leased", "joining"}
                       /\ \A r \in steps[s].runs : <<s.node, r>> \in DOMAIN decisions'}
           ended == [s \in DOMAIN steps |->
                       IF s \in over
                       THEN [steps[s] EXCEPT !.state = "complete", !.live = FALSE]
                       ELSE steps[s]]
           ids == {[node |-> x[1].to, via |-> x[1].id, unit |-> x[2]] : x \in LeavesNow(Away)}
<1>5. DOMAIN decisions' = DOMAIN decisions \cup fresh BY <1>4
<1>6. UNION {Out(m) \X Joined(m, {r \in S : <<m, r>> \in accepted}) : m \in Merges}
        = LeavesNow(Away)
  BY DEF LeavesNow
<1>7. /\ steps' = Activate(ended, ids)
      /\ data' = data \cup UNION {{<<r, x[1].id, x[2]>> : r \in x[2].runs}
                                  : x \in LeavesNow(Away)}
  BY <1>4, <1>6
<1>8. Away \in [Merges -> SUBSET Runs] BY <1>1
<1>9. \A m \in Merges : \A r \in Away[m] :
        <<m, r>> \notin DOMAIN decisions /\ <<m, r>> \in DOMAIN decisions'
  <2>1. TAKE m \in Merges
  <2>2. TAKE r \in Away[m]
  <2>3. <<m, r>> \in deciding OBVIOUS
  <2>4. ~Decided(m, r) BY <1>3, <2>3
  <2>5. QED BY <1>5, <2>3, <2>4 DEF Decided
<1> HIDE DEF Away
<1>10. ids \in SUBSET StepIds
  <2>1. \A x \in LeavesNow(Away) : [node |-> x[1].to, via |-> x[1].id, unit |-> x[2]] \in StepIds
    <3>1. TAKE x \in LeavesNow(Away)
    <3>2. PICK m \in Merges : x \in Out(m) \X Joined(m, Away[m]) BY DEF LeavesNow
    <3>3. x[1] \in Out(m) /\ x[2] \in Units BY <1>8, <3>2, JoinedUnits
    <3>4. QED BY <3>3, SuccessorTyped
  <2>2. QED BY <2>1
<1>11. /\ IsTable(ended) /\ DOMAIN ended = DOMAIN steps
       /\ \A t \in DOMAIN steps :
            \/ ended[t] = steps[t]
            \/ steps[t].state \in {"pending", "leased", "joining"}
               /\ ended[t].state = "complete"
  <2>1. \A t \in DOMAIN steps : steps[t] \in Steps BY DEF TypeOK
  <2>2. \A t \in DOMAIN steps :
          /\ [steps[t] EXCEPT !.state = "complete", !.live = FALSE] \in Steps
          /\ [steps[t] EXCEPT !.state = "complete", !.live = FALSE].state = "complete"
    BY <2>1 DEF Steps, StepStates
  <2>3. QED BY <2>1, <2>2 DEF IsTable, TypeOK
<1> HIDE DEF ended, ids
<1>12. IsTable(steps') BY <1>7, <1>10, <1>11, ActivatedTyped
<1>13. /\ DOMAIN Activate(ended, ids) = DOMAIN ended \cup ids
       /\ \A s \in DOMAIN ended : Activate(ended, ids)[s] = ended[s]
       /\ \A s \in ids \ DOMAIN ended : Activate(ended, ids)[s] = NewStep(s)
  BY Activated, Zenon
<1>14. TableGrows BY <1>7, <1>11, <1>12, <1>13 DEF TableGrows
<1>15. \A t \in DOMAIN steps : steps'[t] = ended[t] BY <1>7, <1>11, <1>13
<1>16. DOMAIN decisions \subseteq DOMAIN decisions' BY <1>5
<1>17. \A t \in DOMAIN steps :
         \/ steps'[t] = steps[t]
         \/ steps[t].state \in {"pending", "leased", "joining"}
            /\ steps'[t].state = "complete"
  BY <1>11, <1>15
<1>18. QED BY <1>7, <1>8, <1>9, <1>14, <1>16, <1>17

-----------------------------------------------------------------------------
(* What each step leaves alone.                                            *)

\* A worker that concludes an evaluation.
ConcludeFrame(f) ==
  /\ UNCHANGED <<clock, revoked, expired, decisions, jobs>>
  /\ flights' = flights \ {f}
  /\ syncs' \in {syncs, syncs \cup {f.step.unit.runs}}
  /\ needsSync' \in {needsSync, needsSync \cup f.step.unit.runs}
  /\ faults' \in {faults, faults + 1}
  /\ Admit(f) \/ UNCHANGED batches
  /\ Gate(f) \/ UNCHANGED used
  /\ RecordSend(f) \/ UNCHANGED sends
  /\ Settle(f) \/ Gate(f) \/ UNCHANGED data

\* Each way to conclude an evaluation leaves the rest alone.
LEMMA ConcludeLeaves ==
  ASSUME NEW f, Conclude(f)
  PROVE  ConcludeFrame(f)
<1>1. CASE SettleRevoked(f)
  BY <1>1 DEF SettleRevoked, Leave, Flag, world, ConcludeFrame
<1>2. CASE Settle(f)
  BY <1>2 DEF Settle, Leave, Flag, world, ConcludeFrame
<1>3. CASE Wait(f)
  BY <1>3 DEF Wait, Leave, Flag, world, ConcludeFrame
<1>4. CASE Partition(f)
  BY <1>4 DEF Partition, Leave, Flag, world, ConcludeFrame
<1>5. CASE Gate(f)
  BY <1>5 DEF Gate, Leave, Flag, world, ConcludeFrame
<1>6. CASE Admit(f)
  BY <1>6 DEF Admit, Leave, Flag, world, ConcludeFrame
<1>7. CASE Park(f)
  BY <1>7 DEF Park, Leave, Flag, world, ConcludeFrame
<1>8. CASE RecordSend(f)
  BY <1>8 DEF RecordSend, Leave, Flag, world, ConcludeFrame
<1>9. CASE FailStep(f)
  BY <1>9 DEF FailStep, Leave, Flag, world, ConcludeFrame
<1>10. CASE Late(f)
  BY <1>10 DEF Late, Leave, world, ConcludeFrame
<1>11. CASE Abandon(f)
  BY <1>11 DEF Abandon, world, ConcludeFrame
<1>12. QED
  BY <1>1, <1>2, <1>3, <1>4, <1>5, <1>6, <1>7, <1>8, <1>9, <1>10, <1>11 DEF Conclude

\* The table stays a table if nothing happens to it.
LEMMA TableStays ==
  ASSUME TypeOK, steps' = steps
  PROVE  TableGrows
BY DEF TypeOK, TableGrows, IsTable

\* A concluded evaluation leaves the steps, collects its activation in batches,
\* or ends it.
LEMMA ConcludeSteps ==
  ASSUME TypeOK, NEW f \in flights, Conclude(f)
  PROVE  \/ steps' = steps /\ UNCHANGED batches
         \/ Admit(f) /\ Ends(f.step, {"aggregating"})
         \/ Ends(f.step, Over) /\ UNCHANGED batches
<1>1. CASE Late(f) \/ Abandon(f)
  BY <1>1 DEF Late, Abandon
<1>2. CASE Settle(f) \/ SettleRevoked(f) \/ FailStep(f)
  <2>1. UNCHANGED batches BY <1>2 DEF Settle, SettleRevoked, FailStep
  <2>2. QED BY <1>2, <2>1, SettleEnds
<1>3. CASE Wait(f)
  <2>1. UNCHANGED batches BY <1>3 DEF Wait
  <2>2. QED BY <1>3, <2>1, WaitEnds
<1>4. CASE Partition(f) \/ Gate(f)
  <2>1. UNCHANGED batches BY <1>4 DEF Partition, Gate
  <2>2. QED BY <1>4, <2>1, LimitEnds
<1>5. CASE Park(f) \/ RecordSend(f)
  <2>1. UNCHANGED batches BY <1>5 DEF Park, RecordSend
  <2>2. QED BY <1>5, <2>1, StoreEnds
<1>6. CASE Admit(f)
  BY <1>6, StoreEnds
<1>7. QED BY <1>1, <1>2, <1>3, <1>4, <1>5, <1>6 DEF Conclude

\* The steps that leave the table of steps and the batches alone.
LEMMA StepsStay ==
  \/ \E r \in Runs : Revoke(r) \/ Expire(r)
  \/ Resync \/ Tick \/ UNCHANGED vars
  \/ \E S \in syncs : Skip(S)
  \/ \E s \in DOMAIN sends : Project(s)
  => UNCHANGED <<steps, batches, data, decisions, used>>
BY DEF Revoke, Expire, Resync, Tick, Skip, Project, vars

\* The table of steps grows in every step.
LEMMA StepsGrow ==
  ASSUME TypeOK, [Next]_vars
  PROVE  TableGrows
<1>1. CASE \E r \in Runs : StartRun(r) BY <1>1, LeaseSteps
<1>2. CASE \E s \in DOMAIN steps : Claim(s) \/ LeaseEnds(s) BY <1>2, LeaseSteps
<1>3. CASE \E f \in flights : Conclude(f)
  BY <1>3, ConcludeSteps, TableStays DEF Ends
<1>4. CASE \E b \in DOMAIN batches : CloseBatch(b) BY <1>4, CloseSteps
<1>5. CASE \E S \in syncs : Synchronize(S) BY <1>5, SyncEffects
<1>6. CASE UNCHANGED steps BY <1>6, TableStays
<1>7. QED BY <1>1, <1>2, <1>3, <1>4, <1>5, <1>6, StepsStay DEF Next

-----------------------------------------------------------------------------
(* Types.                                                                  *)

\* The initial state has its type.
LEMMA TypeInit == Init => TypeOK
<1> SUFFICES ASSUME Init PROVE TypeOK
  OBVIOUS
<1>1. clock \in 0..MaxWindow /\ faults \in Nat
  BY ConfigAssumption DEF Init
<1>2. used \in [Nodes \X Keys \X (0..MaxWindow) -> Nat] BY DEF Init
<1>3. /\ DOMAIN steps = {} /\ DOMAIN batches = {} /\ DOMAIN decisions = {}
      /\ DOMAIN sends = {}
  BY DEF Init
<1>4. /\ needsSync = {} /\ revoked = {} /\ expired = {} /\ flights = {} /\ syncs = {}
      /\ data = {} /\ closed = {} /\ jobs = {}
  BY DEF Init
<1>5. QED BY <1>1, <1>2, <1>3, <1>4 DEF TypeOK

\* The clock and the runs that were flagged, withdrawn or late.
LEMMA WorldTyped ==
  ASSUME TypeOK, [Next]_vars
  PROVE  /\ clock' \in 0..MaxWindow
         /\ needsSync' \subseteq Runs /\ revoked' \subseteq Runs /\ expired' \subseteq Runs
         /\ syncs' \subseteq SUBSET Runs
         /\ faults' \in Nat
<1> USE DEF world, Flag
<1>1. /\ clock \in 0..MaxWindow /\ needsSync \subseteq Runs /\ revoked \subseteq Runs
      /\ expired \subseteq Runs /\ syncs \subseteq SUBSET Runs /\ faults \in Nat
  BY DEF TypeOK
<1>2. ASSUME NEW f \in flights, Conclude(f)
      PROVE  /\ UNCHANGED <<clock, revoked, expired>> /\ needsSync' \subseteq Runs
             /\ syncs' \subseteq SUBSET Runs /\ faults' \in Nat
  <2>1. f.step.unit.runs \in SUBSET Runs BY FlightFields
  <2>2. ConcludeFrame(f) BY <1>2, ConcludeLeaves
  <2>3. QED BY <1>1, <2>1, <2>2 DEF ConcludeFrame
<1>3. ASSUME NEW b \in DOMAIN batches, CloseBatch(b)
      PROVE  /\ UNCHANGED <<clock, revoked, expired>> /\ needsSync' \subseteq Runs
             /\ syncs' \subseteq SUBSET Runs /\ faults' \in Nat
  <2>1. RunsOf(batches[b].inputs) \in SUBSET Runs BY InputFields DEF RunsOf
  <2>2. /\ UNCHANGED <<clock, revoked, expired>>
        /\ needsSync' = needsSync \cup RunsOf(batches[b].inputs)
        /\ syncs' = syncs \cup {RunsOf(batches[b].inputs)}
        /\ faults' \in {faults, faults + 1}
    BY <1>3 DEF CloseBatch
  <2>3. QED BY <1>1, <2>1, <2>2
<1>4. ASSUME NEW S \in syncs, Synchronize(S)
      PROVE  /\ UNCHANGED <<clock, revoked, expired>> /\ needsSync' \subseteq Runs
             /\ syncs' \subseteq SUBSET Runs /\ faults' \in Nat
  <2> DEFINE closable == [r \in S \ revoked |-> Closable(r)]
             deciding == Deciding(closable)
  <2>1. PICK failed \in SUBSET {d \in deciding : Accepts(d[1], d[2])} :
          /\ faults' = faults + Cardinality(failed)
          /\ needsSync' \in {needsSync, needsSync \ S}
          /\ syncs' = syncs \ {S}
          /\ UNCHANGED <<clock, revoked, expired>>
    BY <1>4 DEF Synchronize
  <2>2. failed \in SUBSET (Nodes \X Runs)
    BY <1>1 DEF Deciding, Merges
  <2>3. IsFiniteSet(failed)
    BY <2>2, GraphAssumption, FS_Product, FS_Subset
  <2>4. Cardinality(failed) \in Nat BY <2>3, FS_CardinalityType
  <2>5. QED BY <1>1, <2>1, <2>4
<1>5. CASE \E r \in Runs : StartRun(r) \/ Revoke(r) \/ Expire(r)
  BY <1>1, <1>5 DEF StartRun, Revoke, Expire
<1>6. CASE \E s \in DOMAIN steps : Claim(s) \/ LeaseEnds(s)
  BY <1>1, <1>6 DEF Claim, LeaseEnds
<1>7. CASE Resync \/ \E S \in syncs : Skip(S)
  BY <1>1, <1>7 DEF Resync, Skip
<1>8. CASE \E s \in DOMAIN sends : Project(s)
  BY <1>1, <1>8 DEF Project
<1>9. CASE Tick
  BY <1>1, <1>9, ConfigAssumption DEF Tick
<1>10. CASE UNCHANGED vars
  BY <1>1, <1>10 DEF vars
<1>11. QED
  BY <1>1, <1>2, <1>3, <1>4, <1>5, <1>6, <1>7, <1>8, <1>9, <1>10 DEF Next

\* Evaluations in progress.
LEMMA FlightsTyped ==
  ASSUME TypeOK, [Next]_vars
  PROVE  flights' \subseteq Flights /\ \A f \in flights' : f.step \in DOMAIN steps'
<1>1. DOMAIN steps \subseteq DOMAIN steps' BY StepsGrow DEF TableGrows
<1>2. flights \subseteq Flights /\ \A f \in flights : f.step \in DOMAIN steps
  BY DEF TypeOK
<1>3. CASE \E s \in DOMAIN steps : Claim(s)
  <2>1. PICK s \in DOMAIN steps : Claim(s) BY <1>3
  <2> DEFINE g == [step |-> s, version |-> steps[s].version + 1,
                   runs |-> steps[s].runs \ revoked, at |-> clock]
  <2>2. flights' = flights \cup {g} BY <2>1 DEF Claim
  <2>3. s \in StepIds /\ steps[s] \in Steps /\ clock \in Nat BY DEF TypeOK
  <2>4. steps[s].version + 1 \in Nat /\ steps[s].runs \ revoked \in SUBSET Runs
    BY <2>3 DEF Steps
  <2>5. g \in Flights /\ g.step = s BY <2>3, <2>4 DEF Flights
  <2>6. QED BY <1>1, <1>2, <2>2, <2>5
<1>4. CASE \E f \in flights : Conclude(f)
  BY <1>1, <1>2, <1>4, ConcludeLeaves DEF ConcludeFrame
<1>5. CASE UNCHANGED flights
  BY <1>1, <1>2, <1>5
<1>6. CASE \/ \E r \in Runs : StartRun(r) \/ Revoke(r) \/ Expire(r)
           \/ \E s \in DOMAIN steps : LeaseEnds(s)
           \/ \E s \in DOMAIN sends : Project(s)
           \/ Resync \/ Tick \/ UNCHANGED vars
           \/ \E S \in syncs : Skip(S)
  <2>1. UNCHANGED flights
    BY <1>6 DEF StartRun, Revoke, Expire, LeaseEnds, Project, Resync, Tick, Skip, vars
  <2>2. QED BY <1>5, <2>1
<1>7. CASE \E b \in DOMAIN batches : CloseBatch(b)
  <2>1. UNCHANGED flights BY <1>7 DEF CloseBatch
  <2>2. QED BY <1>5, <2>1
<1>8. CASE \E S \in syncs : Synchronize(S)
  <2>1. UNCHANGED flights BY <1>8 DEF Synchronize
  <2>2. QED BY <1>5, <2>1
<1>9. QED BY <1>3, <1>4, <1>6, <1>7, <1>8 DEF Next

\* Only the runs that leave a node over one of its edges get a data receipt.
\* At a merge that is a synchronization.
LEMMA DataMoves ==
  ASSUME TypeOK, [Next]_vars
  PROVE  \/ UNCHANGED data
         \/ \E n \in Nodes :
              /\ data \subseteq data'
              /\ \A d \in data' \ data :
                   /\ d \in Runs \X EdgeIds \X Units
                   /\ \E e \in Out(n) : d[2] = e.id
              /\ (\E f \in flights : n = f.step.node /\ Type[n] # "merge")
                 \/ (\E b \in DOMAIN batches : n = b.node)
         \/ \E S \in syncs : Synchronize(S)
<1> USE DEF world
<1>1. ASSUME NEW f \in flights, Conclude(f), data' # data
      PROVE  \E n \in Nodes :
               /\ data \subseteq data'
               /\ \A d \in data' \ data :
                    d \in Runs \X EdgeIds \X Units /\ \E e \in Out(n) : d[2] = e.id
               /\ n = f.step.node /\ Type[n] # "merge"
  <2> DEFINE s == f.step
  <2>1. Settle(f) \/ Gate(f) BY <1>1, ConcludeLeaves DEF ConcludeFrame
  <2>2. \E K \in Kept(f) : \E sent \in [Out(s.node) -> SUBSET K] :
           /\ Emit(s, Finish(s, "complete"), sent, f.runs)
           /\ Type[s.node] \in Plain \cup {"limit"} \/ K = {}
    <3>1. CASE Settle(f)
      <4>1. PICK K \in Kept(f) :
              /\ Type[s.node] \in Plain \/ K = {}
              /\ \E port \in [K -> PortsOf(s.node)] :
                   Emit(s, Finish(s, "complete"),
                        [e \in Out(s.node) |-> {r \in K : port[r] = e.port}], f.runs)
        BY <3>1, Zenon DEF Settle
      <4>2. PICK port \in [K -> PortsOf(s.node)] :
              Emit(s, Finish(s, "complete"),
                   [e \in Out(s.node) |-> {r \in K : port[r] = e.port}], f.runs)
        BY <4>1
      <4>3. [e \in Out(s.node) |-> {r \in K : port[r] = e.port}]
              \in [Out(s.node) -> SUBSET K]
        OBVIOUS
      <4>4. QED BY <4>1, <4>2, <4>3
    <3>2. CASE Gate(f)
      <4>1. PICK K \in Kept(f) : \E k \in Keys :
              \/ Emit(s, Finish(s, "complete"), [e \in Out(s.node) |-> K], f.runs)
              \/ data' = data
        BY <3>2, Zenon DEF Gate
      <4>2. Emit(s, Finish(s, "complete"), [e \in Out(s.node) |-> K], f.runs)
        BY <1>1, <4>1
      <4>3. [e \in Out(s.node) |-> K] \in [Out(s.node) -> SUBSET K] OBVIOUS
      <4>4. Type[s.node] = "limit" BY <3>2 DEF Gate
      <4>5. QED BY <4>2, <4>3, <4>4
    <3>3. QED BY <2>1, <3>1, <3>2
  <2>3. PICK K \in Kept(f), sent \in UNION {[Out(s.node) -> SUBSET J] : J \in Kept(f)} :
           /\ sent \in [Out(s.node) -> SUBSET K]
           /\ Emit(s, Finish(s, "complete"), sent, f.runs)
           /\ Type[s.node] \in Plain \cup {"limit"} \/ K = {}
    BY <2>2
  <2>4. sent \in [Out(s.node) -> SUBSET Runs] /\ s \in StepIds /\ s.node \in Nodes
        /\ f.runs \in SUBSET Runs
    BY <2>3, FlightFields
  <2>5. /\ data \subseteq data'
        /\ \A d \in data' \ data : /\ d \in Runs \X EdgeIds \X Units
                                   /\ \E e \in Out(s.node) : sent[e] # {} /\ d[2] = e.id
    BY <2>3, <2>4, EmitTyped
  <2>6. PICK d \in data' \ data : \E e \in Out(s.node) : sent[e] # {} BY <1>1, <2>5
  <2>7. K # {} BY <2>3, <2>6
  <2>8. Type[s.node] # "merge" BY <2>3, <2>7 DEF Plain
  <2>9. QED BY <2>4, <2>5, <2>8
<1>2. ASSUME NEW b \in DOMAIN batches, CloseBatch(b)
      PROVE  \E n \in Nodes :
               /\ data \subseteq data'
               /\ \A d \in data' \ data :
                    d \in Runs \X EdgeIds \X Units /\ \E e \in Out(n) : d[2] = e.id
               /\ n = b.node
  BY <1>2, CloseSteps, InputFields
<1>3. CASE \/ \E r \in Runs : StartRun(r)
           \/ \E s \in DOMAIN steps : Claim(s) \/ LeaseEnds(s)
  BY <1>3 DEF StartRun, Claim, LeaseEnds
<1>4. CASE \E f \in flights : Conclude(f) BY <1>1, <1>4
<1>5. CASE \E b \in DOMAIN batches : CloseBatch(b) BY <1>2, <1>5
<1>6. QED BY <1>3, <1>4, <1>5, StepsStay DEF Next

\* Data receipts keep their type.
LEMMA DataTyped ==
  ASSUME TypeOK, [Next]_vars
  PROVE  data' \subseteq Runs \X EdgeIds \X Units
<1>1. data \subseteq Runs \X EdgeIds \X Units BY DEF TypeOK
<1>2. ASSUME NEW S \in syncs, Synchronize(S)
      PROVE  data' \subseteq Runs \X EdgeIds \X Units
  <2>1. PICK Away \in [Merges -> SUBSET Runs] :
          data' = data \cup UNION {{<<r, x[1].id, x[2]>> : r \in x[2].runs}
                                   : x \in LeavesNow(Away)}
    BY <1>2, SyncEffects
  <2>2. SUFFICES ASSUME NEW x \in LeavesNow(Away), NEW r \in x[2].runs
                 PROVE  <<r, x[1].id, x[2]>> \in Runs \X EdgeIds \X Units
    BY <1>1, <2>1
  <2>3. PICK m \in Merges : x \in Out(m) \X Joined(m, Away[m]) BY DEF LeavesNow
  <2>4. x[1] \in Out(m) /\ x[2] \in Units BY <2>3, JoinedUnits
  <2>5. x[1].id \in EdgeIds /\ r \in Runs BY <2>4, EdgeFacts DEF Units
  <2>6. QED BY <2>4, <2>5
<1>3. QED BY <1>1, <1>2, DataMoves

\* The counters of limiting nodes.
LEMMA UsedTyped ==
  ASSUME TypeOK, [Next]_vars
  PROVE  used' \in [Nodes \X Keys \X (0..MaxWindow) -> Nat]
<1> USE DEF world
<1>1. used \in [Nodes \X Keys \X (0..MaxWindow) -> Nat] BY DEF TypeOK
<1>2. ASSUME NEW f \in flights, Gate(f)
      PROVE  used' \in [Nodes \X Keys \X (0..MaxWindow) -> Nat]
  <2>1. PICK K \in Kept(f) : \E k \in Keys :
          \/ used' = [used EXCEPT ![<<f.step.node, k, f.at>>] = @ + 1]
          \/ used' = used
    BY <1>2, Zenon DEF Gate
  <2>2. PICK k \in Keys : \/ used' = [used EXCEPT ![<<f.step.node, k, f.at>>] = @ + 1]
                          \/ used' = used
    BY <2>1
  <2>3. \A c \in Nodes \X Keys \X (0..MaxWindow) : used[c] + 1 \in Nat BY <1>1
  <2>4. QED BY <1>1, <2>2, <2>3
<1>3. CASE \E f \in flights : Conclude(f)
  BY <1>1, <1>2, <1>3, ConcludeLeaves DEF ConcludeFrame
<1>4. CASE UNCHANGED used BY <1>1, <1>4
<1>5. CASE \/ \E r \in Runs : StartRun(r)
           \/ \E s \in DOMAIN steps : Claim(s) \/ LeaseEnds(s)
  BY <1>4, <1>5 DEF StartRun, Claim, LeaseEnds
<1>6. CASE \E b \in DOMAIN batches : CloseBatch(b)
  <2>1. UNCHANGED used BY <1>6 DEF CloseBatch
  <2>2. QED BY <1>4, <2>1
<1>7. CASE \E S \in syncs : Synchronize(S)
  <2>1. UNCHANGED used BY <1>7 DEF Synchronize
  <2>2. QED BY <1>4, <2>1
<1>8. QED BY <1>3, <1>4, <1>5, <1>6, <1>7, StepsStay DEF Next

\* Closed receipts.
LEMMA ClosedTyped ==
  ASSUME TypeOK, InputsHeld, [Next]_vars
  PROVE  closed' \subseteq Runs \X EdgeIds
<1> USE DEF world
<1>1. closed \subseteq Runs \X EdgeIds BY DEF TypeOK
<1>2. \A R \in SUBSET Runs : \A n : NoPath(R, n) \in SUBSET (Runs \X EdgeIds)
  BY EdgeFacts DEF NoPath
<1>3. ASSUME NEW f \in flights, Conclude(f)
      PROVE  closed' \subseteq Runs \X EdgeIds
  <2> DEFINE s == f.step
  <2>1. /\ s \in DOMAIN steps /\ s \in StepIds /\ f.runs \in SUBSET Runs
        /\ steps[s].runs \in SUBSET Runs
    BY FlightFields DEF Steps
  <2>2. ASSUME NEW table, NEW sent \in [Out(s.node) -> SUBSET Runs],
               Emit(s, table, sent, f.runs)
        PROVE  closed' \subseteq Runs \X EdgeIds
    BY <1>1, <2>1, <2>2, EmitTyped
  <2>3. CASE Settle(f)
    <3>1. PICK K \in Kept(f) : \E port \in [K -> PortsOf(s.node)] :
            Emit(s, Finish(s, "complete"),
                 [e \in Out(s.node) |-> {r \in K : port[r] = e.port}], f.runs)
      BY <2>3, Zenon DEF Settle
    <3>2. PICK port \in [K -> PortsOf(s.node)] :
            Emit(s, Finish(s, "complete"),
                 [e \in Out(s.node) |-> {r \in K : port[r] = e.port}], f.runs)
      BY <3>1
    <3>3. [e \in Out(s.node) |-> {r \in K : port[r] = e.port}]
            \in [Out(s.node) -> SUBSET Runs]
      BY FlightFields
    <3>4. QED BY <2>2, <3>2, <3>3
  <2>4. CASE Gate(f)
    <3>1. PICK K \in Kept(f) : \E k \in Keys :
            \/ Emit(s, Finish(s, "complete"), [e \in Out(s.node) |-> K], f.runs)
            \/ closed' = IF Overflow = "drop" THEN closed \cup NoPath(f.runs \ K, s.node)
                         ELSE closed
      BY <2>4, Zenon DEF Gate
    <3>2. [e \in Out(s.node) |-> K] \in [Out(s.node) -> SUBSET Runs] BY FlightFields
    <3>3. NoPath(f.runs \ K, s.node) \in SUBSET (Runs \X EdgeIds) BY <1>2, <2>1
    <3>4. QED BY <1>1, <2>2, <3>1, <3>2, <3>3
  <2>5. CASE SettleRevoked(f)
    BY <1>1, <1>2, <2>1, <2>5 DEF SettleRevoked
  <2>6. CASE Wait(f)
    <3>1. PICK K \in Kept(f) : closed' = closed \cup NoPath(f.runs \ K, s.node)
      BY <2>6 DEF Wait
    <3>2. NoPath(f.runs \ K, s.node) \in SUBSET (Runs \X EdgeIds) BY <1>2, <2>1
    <3>3. QED BY <1>1, <3>1, <3>2
  <2>7. CASE FailStep(f)
    BY <1>1, <1>2, <2>1, <2>7 DEF FailStep
  <2>8. CASE Partition(f) \/ Admit(f) \/ Park(f) \/ RecordSend(f) \/ Late(f) \/ Abandon(f)
    BY <1>1, <2>8 DEF Partition, Admit, Park, RecordSend, Late, Abandon
  <2>9. QED BY <1>3, <2>3, <2>4, <2>5, <2>6, <2>7, <2>8 DEF Conclude
<1>4. ASSUME NEW b \in DOMAIN batches, CloseBatch(b)
      PROVE  closed' \subseteq Runs \X EdgeIds
  <2> DEFINE ins == batches[b].inputs
  <2>1. closed' = closed \cup UNION {NoPath(steps[s].runs, b.node) : s \in LastOf(b)}
    BY <1>4 DEF CloseBatch, LastOf
  <2>2. \A s \in DOMAIN steps : NoPath(steps[s].runs, b.node) \in SUBSET (Runs \X EdgeIds)
    BY <1>2 DEF TypeOK, Steps
  <2>3. LastOf(b) \subseteq DOMAIN steps
    BY DEF InputsHeld, LastOf
  <2>4. QED BY <1>1, <2>1, <2>2, <2>3
<1>5. ASSUME NEW S \in syncs, Synchronize(S)
      PROVE  closed' \subseteq Runs \X EdgeIds
  <2> DEFINE closable == [r \in S \ revoked |-> Closable(r)]
  <2>1. closed' = closed \cup UNION {{<<r, id>> : id \in closable[r]} : r \in S \ revoked}
    BY <1>5 DEF Synchronize
  <2>2. \A r : Closable(r) \subseteq EdgeIds
    BY DEF Closable, ClosedNow, EdgeIds
  <2>3. \A r \in S \ revoked : closable[r] \subseteq EdgeIds /\ r \in Runs
    BY <2>2 DEF TypeOK
  <2> HIDE DEF closable
  <2>4. QED BY <1>1, <2>1, <2>3
<1>6. CASE UNCHANGED closed BY <1>1, <1>6
<1>7. CASE \/ \E r \in Runs : StartRun(r) \/ Revoke(r) \/ Expire(r)
           \/ \E s \in DOMAIN steps : Claim(s) \/ LeaseEnds(s)
           \/ \E s \in DOMAIN sends : Project(s)
           \/ Resync \/ Tick \/ UNCHANGED vars
           \/ \E S \in syncs : Skip(S)
  <2>1. UNCHANGED closed
    BY <1>7 DEF StartRun, Revoke, Expire, Claim, LeaseEnds, Project, Resync, Tick,
                Skip, vars
  <2>2. QED BY <1>6, <2>1
<1>8. QED BY <1>3, <1>4, <1>5, <1>7 DEF Next

\* Decisions of merges.
LEMMA DecisionsTyped ==
  ASSUME TypeOK, [Next]_vars
  PROVE  /\ DOMAIN decisions' \subseteq Merges \X Runs
         /\ \A d \in DOMAIN decisions' : decisions'[d] \in Decisions
         /\ DOMAIN decisions \subseteq DOMAIN decisions'
<1> USE DEF world
<1>1. /\ DOMAIN decisions \subseteq Merges \X Runs
      /\ \A d \in DOMAIN decisions : decisions[d] \in Decisions
  BY DEF TypeOK
<1>2. ASSUME NEW S \in syncs, Synchronize(S)
      PROVE  /\ DOMAIN decisions' \subseteq Merges \X Runs
             /\ \A d \in DOMAIN decisions' : decisions'[d] \in Decisions
             /\ DOMAIN decisions \subseteq DOMAIN decisions'
  <2> DEFINE closable == [r \in S \ revoked |-> Closable(r)]
             deciding == Deciding(closable)
             fresh == deciding \cup Withdrawn(S)
  <2>1. S \in SUBSET Runs BY DEF TypeOK
  <2>2. fresh \in SUBSET (Merges \X Runs) BY <2>1 DEF Deciding, Withdrawn
  <2>3. PICK failed \in SUBSET {d \in deciding : Accepts(d[1], d[2])} :
          decisions' =
            [d \in DOMAIN decisions \cup fresh |->
               IF d \in DOMAIN decisions THEN decisions[d]
               ELSE [state |-> IF d \in {x \in deciding : Accepts(x[1], x[2])} \ failed
                               THEN "emitted" ELSE "excluded",
                     arrivals |-> IF d \in deciding THEN Arrivals(d[2], d[1]) ELSE {}]]
    BY <1>2, Zenon DEF Synchronize
  <2>4. \A r, m : Arrivals(r, m) \in SUBSET Units BY DEF Arrivals, Data, TypeOK
  <2> HIDE DEF fresh, deciding
  <2>5. DOMAIN decisions' = DOMAIN decisions \cup fresh BY <2>3
  <2>6. \A d \in DOMAIN decisions' : decisions'[d] \in Decisions
    <3>1. TAKE d \in DOMAIN decisions'
    <3>2. CASE d \in DOMAIN decisions BY <1>1, <2>3, <2>5, <3>2
    <3>3. CASE d \notin DOMAIN decisions
      <4> DEFINE st == IF d \in {x \in deciding : Accepts(x[1], x[2])} \ failed
                       THEN "emitted" ELSE "excluded"
                 ar == IF d \in deciding THEN Arrivals(d[2], d[1]) ELSE {}
      <4>1. st \in {"emitted", "excluded"} /\ ar \in SUBSET Units BY <2>4
      <4>2. decisions'[d] = [state |-> st, arrivals |-> ar] BY <2>3, <2>5, <3>3
      <4> HIDE DEF st, ar
      <4>3. QED BY <4>1, <4>2 DEF Decisions
    <3>4. QED BY <3>2, <3>3
  <2>7. QED BY <1>1, <2>2, <2>5, <2>6
<1>3. CASE UNCHANGED decisions BY <1>1, <1>3
<1>4. CASE \/ \E r \in Runs : StartRun(r)
           \/ \E s \in DOMAIN steps : Claim(s) \/ LeaseEnds(s)
  BY <1>3, <1>4 DEF StartRun, Claim, LeaseEnds
<1>5. CASE \E f \in flights : Conclude(f)
  BY <1>3, <1>5, ConcludeLeaves DEF ConcludeFrame
<1>6. CASE \E b \in DOMAIN batches : CloseBatch(b)
  <2>1. UNCHANGED decisions BY <1>6 DEF CloseBatch
  <2>2. QED BY <1>3, <2>1
<1>7. QED BY <1>2, <1>3, <1>4, <1>5, <1>6, StepsStay DEF Next

\* A projection makes jobs of the members that may still be sent.
LEMMA ProjectedJobs ==
  ASSUME NEW s, Project(s)
  PROVE  jobs' = jobs \cup {[send |-> s, dest |-> d,
                             runs |-> {r \in (sends[s].runs \ revoked) \ expired : Dest[r] = d}]
                            : d \in {Dest[r] : r \in (sends[s].runs \ revoked) \ expired}}
BY DEF Project

\* Intents to send, and the jobs made of them.
LEMMA SendsTyped ==
  ASSUME TypeOK, [Next]_vars
  PROVE  /\ DOMAIN sends' \subseteq DOMAIN steps'
         /\ \A s \in DOMAIN sends' : sends'[s] \in Sends
         /\ jobs' \subseteq [send : StepIds, dest : {Dest[r] : r \in Runs}, runs : SUBSET Runs]
<1> USE DEF world
<1> DEFINE J == [send : StepIds, dest : {Dest[r] : r \in Runs}, runs : SUBSET Runs]
<1>1. /\ DOMAIN sends \subseteq DOMAIN steps /\ \A s \in DOMAIN sends : sends[s] \in Sends
      /\ jobs \subseteq J /\ DOMAIN steps \subseteq StepIds
  BY DEF TypeOK
<1>2. DOMAIN steps \subseteq DOMAIN steps' BY StepsGrow DEF TableGrows
<1>3. CASE UNCHANGED <<sends, jobs>> BY <1>1, <1>2, <1>3
<1>4. ASSUME NEW f \in flights, RecordSend(f)
      PROVE  /\ DOMAIN sends' \subseteq DOMAIN steps'
             /\ \A s \in DOMAIN sends' : sends'[s] \in Sends
             /\ jobs' \subseteq J
  <2> DEFINE s == f.step
  <2>1. PICK K \in Kept(f) :
          sends' = [t \in DOMAIN sends \cup {s} |->
                      IF t = s THEN [runs |-> K, state |-> "unprojected"]
                      ELSE sends[t]]
    BY <1>4 DEF RecordSend
  <2>2. jobs' = jobs BY <1>4 DEF RecordSend
  <2>3. s \in DOMAIN steps /\ K \in SUBSET Runs BY FlightFields
  <2>4. [runs |-> K, state |-> "unprojected"] \in Sends BY <2>3 DEF Sends
  <2>5. DOMAIN sends' = DOMAIN sends \cup {s} BY <2>1
  <2>6. \A t \in DOMAIN sends' : sends'[t] \in Sends BY <1>1, <2>1, <2>4, <2>5
  <2>7. QED BY <1>1, <1>2, <2>2, <2>3, <2>5, <2>6
<1>5. ASSUME NEW s \in DOMAIN sends, Project(s)
      PROVE  /\ DOMAIN sends' \subseteq DOMAIN steps'
             /\ \A t \in DOMAIN sends' : sends'[t] \in Sends
             /\ jobs' \subseteq J
  <2> DEFINE R == (sends[s].runs \ revoked) \ expired
  <2>1. R \in SUBSET Runs BY <1>1 DEF Sends
  <2>2. \E st \in {"projected", "expired", "cancelled"} :
           sends' = [sends EXCEPT ![s].state = st]
    BY <1>5 DEF Project
  <2>3. PICK st \in {"projected", "expired", "cancelled"} :
           sends' = [sends EXCEPT ![s].state = st]
    BY <2>2
  <2>4. DOMAIN sends' = DOMAIN sends BY <2>3
  <2>5. \A t \in DOMAIN sends' : sends'[t] \in Sends
    <3>1. [sends[s] EXCEPT !.state = st] \in Sends BY <1>1 DEF Sends
    <3>2. QED BY <1>1, <2>3, <2>4, <3>1
  <2>6. jobs' = jobs \cup {[send |-> s, dest |-> d, runs |-> {r \in R : Dest[r] = d}]
                           : d \in {Dest[r] : r \in R}}
    BY <1>5, ProjectedJobs
  <2>7. s \in StepIds BY <1>1
  <2>8. \A d \in {Dest[r] : r \in R} :
           [send |-> s, dest |-> d, runs |-> {r \in R : Dest[r] = d}] \in J
    <3>1. TAKE d \in {Dest[r] : r \in R}
    <3>2. d \in {Dest[r] : r \in Runs} BY <2>1
    <3>3. {r \in R : Dest[r] = d} \in SUBSET Runs BY <2>1
    <3>4. QED BY <2>7, <3>2, <3>3
  <2>9. QED BY <1>1, <1>2, <2>4, <2>5, <2>6, <2>8
<1>6. ASSUME NEW f \in flights, Conclude(f)
      PROVE  /\ DOMAIN sends' \subseteq DOMAIN steps'
             /\ \A s \in DOMAIN sends' : sends'[s] \in Sends
             /\ jobs' \subseteq J
  <2>1. jobs' = jobs /\ (RecordSend(f) \/ sends' = sends)
    BY <1>6, ConcludeLeaves DEF ConcludeFrame
  <2>2. QED BY <1>3, <1>4, <2>1
<1>7. CASE \/ \E r \in Runs : StartRun(r) \/ Revoke(r) \/ Expire(r)
           \/ \E s \in DOMAIN steps : Claim(s) \/ LeaseEnds(s)
           \/ Resync \/ Tick \/ UNCHANGED vars
           \/ \E S \in syncs : Skip(S)
  <2>1. UNCHANGED <<sends, jobs>>
    BY <1>7 DEF StartRun, Revoke, Expire, Claim, LeaseEnds, Resync, Tick, Skip, vars
  <2>2. QED BY <1>3, <2>1
<1>8. CASE \E b \in DOMAIN batches : CloseBatch(b)
  <2>1. UNCHANGED <<sends, jobs>> BY <1>8 DEF CloseBatch
  <2>2. QED BY <1>3, <2>1
<1>9. CASE \E S \in syncs : Synchronize(S)
  <2>1. UNCHANGED <<sends, jobs>> BY <1>9 DEF Synchronize
  <2>2. QED BY <1>3, <2>1
<1>10. QED BY <1>5, <1>6, <1>7, <1>8, <1>9 DEF Next

-----------------------------------------------------------------------------
(* Batches.                                                                *)

\* Appending to a sequence.
LEMMA AppendFacts ==
  ASSUME NEW T, NEW q \in Seq(T), NEW x \in T
  PROVE  /\ Append(q, x) \in Seq(T) /\ DOMAIN q \subseteq DOMAIN Append(q, x)
         /\ DOMAIN Append(q, x) = DOMAIN q \cup {Len(q) + 1}
         /\ Len(q) + 1 \notin DOMAIN q
         /\ \A i \in DOMAIN q : Append(q, x)[i] = q[i]
         /\ Append(q, x)[Len(q) + 1] = x
OBVIOUS

\* The batch that takes an input is open, or new and numbered next.
LEMMA TakingFacts ==
  ASSUME TypeOK, SegmentsNumbered, NEW n \in Nodes, NEW k \in Keys, NEW w \in Nat
  PROVE  LET b == Taking(n, k, w) IN
         /\ b \in BatchIds /\ b.node = n /\ b.key = k /\ b.window = w
         /\ IsFiniteSet(Segments(n, k, w))
         /\ \/ b \in DOMAIN batches /\ batches[b].state = "open"
            \/ b \notin DOMAIN batches /\ b.segment = Cardinality(Segments(n, k, w))
<1> DEFINE T == Segments(n, k, w)
           fresh == [node |-> n, key |-> k, window |-> w, segment |-> Cardinality(T)]
           open == {b \in T : /\ b.segment + 1 = fresh.segment
                              /\ batches[b].state = "open"
                              /\ Len(batches[b].inputs) < MaxItems}
<1>1. IsFiniteSet(T)
  <2>1. CASE T = {} BY <2>1, FS_EmptySet
  <2>2. CASE T # {}
    <3>1. PICK b \in DOMAIN batches : b.node = n /\ b.key = k /\ b.window = w
      BY <2>2 DEF Segments
    <3>2. QED BY <3>1 DEF SegmentsNumbered
  <2>3. QED BY <2>1, <2>2
<1>2. Cardinality(T) \in Nat BY <1>1, FS_CardinalityType
<1>3. fresh \in BatchIds BY <1>2 DEF BatchIds
<1>4. fresh \notin DOMAIN batches
  <2>1. SUFFICES ASSUME fresh \in DOMAIN batches PROVE FALSE
    OBVIOUS
  <2>2. fresh.segment < Cardinality(Segments(fresh.node, fresh.key, fresh.window))
    BY <2>1 DEF SegmentsNumbered
  <2>3. fresh.segment = Cardinality(T) /\ fresh.node = n /\ fresh.key = k /\ fresh.window = w
    OBVIOUS
  <2>4. QED BY <1>2, <2>2, <2>3
<1>5. Taking(n, k, w) = IF open = {} THEN fresh ELSE CHOOSE b \in open : TRUE
  BY DEF Taking
<1>6. CASE open = {}
  BY <1>1, <1>3, <1>4, <1>5, <1>6
<1>7. CASE open # {}
  <2>1. Taking(n, k, w) \in open BY <1>5, <1>7
  <2>2. /\ Taking(n, k, w) \in DOMAIN batches /\ batches[Taking(n, k, w)].state = "open"
        /\ Taking(n, k, w).node = n /\ Taking(n, k, w).key = k /\ Taking(n, k, w).window = w
    BY <2>1 DEF Segments
  <2>3. QED BY <1>1, <2>2 DEF TypeOK
<1>8. QED BY <1>6, <1>7

\* What an activation adds to a batch.
Entry(s, K, b) == [step |-> s, runs |-> {r \in K : KeyOf[s.node][r] = b.key}]

\* The batches `into` take the groups of K, the others stay as they are.
Takes(s, K, into) ==
  /\ into # {} /\ Type[s.node] = "aggregate"
  /\ \A b \in into : b \in BatchIds /\ b.node = s.node
  /\ \A b, c \in into : b.key = c.key => b = c /\ b.window = c.window
  /\ DOMAIN batches' = DOMAIN batches \cup into
  /\ \A b \in DOMAIN batches :
       /\ batches'[b].state = batches[b].state
       /\ DOMAIN batches[b].inputs \subseteq DOMAIN batches'[b].inputs
       /\ \A i \in DOMAIN batches[b].inputs :
            batches'[b].inputs[i] = batches[b].inputs[i]
  /\ \A b \in into :
       /\ batches'[b] \in Batches /\ batches'[b].state = "open"
       /\ \E i \in DOMAIN batches'[b].inputs :
            /\ batches'[b].inputs[i] = Entry(s, K, b)
            /\ \A j \in DOMAIN batches'[b].inputs :
                 j # i => b \in DOMAIN batches /\ j \in DOMAIN batches[b].inputs
            /\ b \in DOMAIN batches => i \notin DOMAIN batches[b].inputs
  /\ \A b \in DOMAIN batches \ into : batches'[b] = batches[b]
  /\ \A b \in into \ DOMAIN batches :
       b.segment = Cardinality(Segments(b.node, b.key, b.window))

\* admitBatch does that, for members that were not withdrawn, all but those past
\* their deadline; every group has its batch, in the window of the tick.
LEMMA AdmitExactly ==
  ASSUME TypeOK, SegmentsNumbered, NEW f \in flights, Admit(f)
  PROVE  \E K \in SUBSET f.runs : \E into :
           /\ K \subseteq Eligible(f.step) /\ f.runs \ expired \subseteq K
           /\ Takes(f.step, K, into)
           /\ \A r \in K : \E b \in into : b.key = KeyOf[f.step.node][r]
           /\ \A b \in into : b.window = f.at /\ \E r \in K : b.key = KeyOf[f.step.node][r]
<1> DEFINE s == f.step
<1>1. /\ s \in StepIds /\ s.node \in Nodes /\ f.at \in Nat BY FlightFields
<1>2. PICK K \in Kept(f) \ {{}} :
        /\ K \subseteq Eligible(s)
        /\ batches' =
            [b \in DOMAIN batches \cup {Taking(s.node, k, f.at) : k \in {KeyOf[s.node][r] : r \in K}} |->
               IF b \in {Taking(s.node, k, f.at) : k \in {KeyOf[s.node][r] : r \in K}}
               THEN [(IF b \in DOMAIN batches THEN batches[b]
                      ELSE [state |-> "open", inputs |-> << >>])
                       EXCEPT !.inputs = Append(@, Entry(s, K, b))]
               ELSE batches[b]]
  BY Zenon DEF Admit, Entry
<1> DEFINE keys == {KeyOf[s.node][r] : r \in K}
           into == {Taking(s.node, k, f.at) : k \in keys}
           Old(b) == IF b \in DOMAIN batches THEN batches[b].inputs ELSE << >>
<1>3. K \in SUBSET Runs /\ K # {} BY FlightFields
<1>4. keys \in SUBSET Keys /\ keys # {} BY <1>1, <1>3, ConfigAssumption
<1>5. \A b \in into :
        /\ b \in BatchIds /\ b.node = s.node /\ b.window = f.at
        /\ b = Taking(s.node, b.key, f.at)
        /\ \/ b \in DOMAIN batches /\ batches[b].state = "open"
           \/ b \notin DOMAIN batches
              /\ b.segment = Cardinality(Segments(b.node, b.key, b.window))
  <2>1. TAKE b \in into
  <2>2. PICK k \in keys : b = Taking(s.node, k, f.at) OBVIOUS
  <2>3. QED BY <1>1, <1>4, <2>2, TakingFacts
<1>6. \A b, c \in into : b.key = c.key => b = c /\ b.window = c.window BY <1>5, Zenon
<1>7. into # {} BY <1>4
<1>8. /\ DOMAIN batches' = DOMAIN batches \cup into
      /\ \A b \in DOMAIN batches \ into : batches'[b] = batches[b]
  BY <1>2
<1>9. \A b \in into : /\ batches'[b].state = "open"
                      /\ batches'[b].inputs = Append(Old(b), Entry(s, K, b))
                      /\ batches'[b] = [state |-> "open",
                                        inputs |-> Append(Old(b), Entry(s, K, b))]
  <2>1. TAKE b \in into
  <2>2. CASE b \in DOMAIN batches
    <3>1. batches[b] \in Batches /\ batches[b].state = "open" BY <1>5, <2>2, InputFields
    <3>2. batches'[b] = [batches[b] EXCEPT !.inputs = Append(@, Entry(s, K, b))]
      BY <1>2, <2>2
    <3>3. batches[b] = [state |-> "open", inputs |-> batches[b].inputs]
      BY <3>1 DEF Batches
    <3>4. batches'[b] = [state |-> "open", inputs |-> Append(batches[b].inputs, Entry(s, K, b))]
      BY <3>2, <3>3
    <3>5. QED BY <2>2, <3>4
  <2>3. CASE b \notin DOMAIN batches
    <3>1. batches'[b] = [[state |-> "open", inputs |-> << >>]
                           EXCEPT !.inputs = Append(@, Entry(s, K, b))]
      BY <1>2, <2>3
    <3>2. batches'[b] = [state |-> "open", inputs |-> Append(<< >>, Entry(s, K, b))]
      BY <3>1
    <3>3. QED BY <2>3, <3>2
  <2>4. QED BY <2>2, <2>3
<1>10. \A b \in into : Old(b) \in Seq(Inputs) BY InputFields
<1>11. \A b : Entry(s, K, b) \in Inputs BY <1>1, <1>3 DEF Entry, Inputs
<1>12. Type[s.node] = "aggregate" BY DEF Admit
<1> HIDE DEF into, keys
<1>13. \A b \in into :
         /\ batches'[b].inputs \in Seq(Inputs)
         /\ DOMAIN batches'[b].inputs = DOMAIN Old(b) \cup {Len(Old(b)) + 1}
         /\ Len(Old(b)) + 1 \notin DOMAIN Old(b)
         /\ \A i \in DOMAIN Old(b) : batches'[b].inputs[i] = Old(b)[i]
         /\ batches'[b].inputs[Len(Old(b)) + 1] = Entry(s, K, b)
  <2>1. TAKE b \in into
  <2>2. Old(b) \in Seq(Inputs) /\ Entry(s, K, b) \in Inputs BY <1>10, <1>11
  <2>3. batches'[b].inputs = Append(Old(b), Entry(s, K, b)) BY <1>9
  <2> HIDE DEF Old
  <2>4. QED BY <2>2, <2>3, AppendFacts
<1>14. \A b \in into : b \notin DOMAIN batches => DOMAIN Old(b) = {} OBVIOUS
<1>15. \A b \in DOMAIN batches :
         /\ batches'[b].state = batches[b].state
         /\ DOMAIN batches[b].inputs \subseteq DOMAIN batches'[b].inputs
         /\ \A i \in DOMAIN batches[b].inputs :
              batches'[b].inputs[i] = batches[b].inputs[i]
  <2>1. TAKE b \in DOMAIN batches
  <2>2. CASE b \notin into BY <1>8, <2>2
  <2>3. CASE b \in into
    <3>1. Old(b) = batches[b].inputs /\ batches[b].state = "open" BY <1>5, <2>3
    <3>2. QED BY <1>9, <1>13, <2>3, <3>1
  <2>4. QED BY <2>2, <2>3
<1>16. \A b \in into :
         /\ batches'[b] \in Batches
         /\ \E i \in DOMAIN batches'[b].inputs :
              /\ batches'[b].inputs[i] = Entry(s, K, b)
              /\ \A j \in DOMAIN batches'[b].inputs :
                   j # i => b \in DOMAIN batches /\ j \in DOMAIN batches[b].inputs
              /\ b \in DOMAIN batches => i \notin DOMAIN batches[b].inputs
  <2>1. TAKE b \in into
  <2>2. batches'[b] \in Batches
    <3> DEFINE q == Append(Old(b), Entry(s, K, b))
    <3>1. batches'[b] = [state |-> "open", inputs |-> q] /\ batches'[b].inputs = q
      BY <1>9
    <3>2. q \in Seq(Inputs) BY <1>13, <3>1
    <3> HIDE DEF q
    <3>3. QED BY <3>1, <3>2 DEF Batches
  <2> DEFINE i == Len(Old(b)) + 1
  <2>3. i \in DOMAIN batches'[b].inputs /\ batches'[b].inputs[i] = Entry(s, K, b)
    BY <1>13
  <2>4. \A j \in DOMAIN batches'[b].inputs :
          j # i => b \in DOMAIN batches /\ j \in DOMAIN batches[b].inputs
    BY <1>13, <1>14
  <2>5. b \in DOMAIN batches => i \notin DOMAIN batches[b].inputs BY <1>13
  <2> HIDE DEF i
  <2>6. QED BY <2>2, <2>3, <2>4, <2>5
<1>17. Takes(s, K, into)
  BY <1>5, <1>6, <1>7, <1>8, <1>9, <1>12, <1>15, <1>16 DEF Takes
<1>18. K \in SUBSET f.runs /\ f.runs \ expired \subseteq K
  <2>1. Type[s.node] \notin {"start", "delay"} BY <1>12
  <2>2. QED BY <1>2, <2>1 DEF Kept
<1>19. \A r \in K : \E b \in into : b.key = KeyOf[s.node][r]
  <2>1. TAKE r \in K
  <2> DEFINE k == KeyOf[s.node][r]
  <2>2. k \in keys /\ Taking(s.node, k, f.at) \in into BY DEF keys, into
  <2>3. k \in Keys BY <1>1, <1>3, ConfigAssumption
  <2>4. Taking(s.node, k, f.at).key = k BY <1>1, <2>3, TakingFacts
  <2>5. QED BY <2>2, <2>4
<1>20. \A b \in into : \E r \in K : b.key = KeyOf[s.node][r]
  <2>1. TAKE b \in into
  <2>2. PICK k \in keys : b = Taking(s.node, k, f.at) BY DEF into
  <2>3. PICK r \in K : k = KeyOf[s.node][r] BY DEF keys
  <2>4. b.key = k BY <1>1, <1>4, <2>2, TakingFacts
  <2>5. QED BY <2>3, <2>4
<1>21. QED BY <1>2, <1>5, <1>17, <1>18, <1>19, <1>20

\* As far as the books of the batches are concerned.
LEMMA AdmitTakes ==
  ASSUME TypeOK, SegmentsNumbered, NEW f \in flights, Admit(f)
  PROVE  \E K \in SUBSET Runs : \E into : Takes(f.step, K, into)
<1>1. PICK K \in SUBSET f.runs : \E into : Takes(f.step, K, into) BY AdmitExactly
<1>2. f.runs \in SUBSET Runs BY FlightFields
<1>3. QED BY <1>1, <1>2

\* Closing a batch changes its state alone.
LEMMA CloseBooks ==
  ASSUME TypeOK, NEW b \in DOMAIN batches, CloseBatch(b)
  PROVE  /\ batches[b].state = "open"
         /\ DOMAIN batches' = DOMAIN batches
         /\ \A c \in DOMAIN batches \ {b} : batches'[c] = batches[c]
         /\ batches'[b].inputs = batches[b].inputs
         /\ batches'[b].state # "open"
         /\ batches'[b] \in Batches
<1> DEFINE ins == batches[b].inputs
           alive == {i \in DOMAIN ins : ins[i].runs \ (revoked \cup expired) # {}}
           chosen == IF BatchMode = "all" THEN alive
                     ELSE {i \in alive : \A j \in alive : j <= i}
<1>1. PICK outcome \in IF chosen = {} THEN {"empty"} ELSE {"sealed", "failed"} :
        batches' = [batches EXCEPT ![b].state = outcome]
  BY Zenon DEF CloseBatch
<1>2. outcome \in {"sealed", "empty", "failed"}
  <2>1. CASE chosen = {} BY <1>1, <2>1
  <2>2. CASE chosen # {} BY <1>1, <2>2
  <2>3. QED BY <2>1, <2>2
<1>3. batches[b].state = "open" BY DEF CloseBatch, Due
<1>4. batches[b] \in Batches BY InputFields
<1>5. /\ DOMAIN batches' = DOMAIN batches
      /\ \A c \in DOMAIN batches \ {b} : batches'[c] = batches[c]
      /\ batches'[b] = [batches[b] EXCEPT !.state = outcome]
  BY <1>1
<1>6. QED BY <1>2, <1>3, <1>4, <1>5 DEF Batches

\* The batches change when an activation is admitted or a batch closed.
LEMMA BatchMoves ==
  ASSUME TypeOK, SegmentsNumbered, [Next]_vars
  PROVE  \/ UNCHANGED batches
         \/ \E f \in flights : Admit(f)
         \/ \E b \in DOMAIN batches : CloseBatch(b)
<1>1. CASE \/ \E r \in Runs : StartRun(r)
           \/ \E s \in DOMAIN steps : Claim(s) \/ LeaseEnds(s)
  BY <1>1 DEF StartRun, Claim, LeaseEnds
<1>2. CASE \E f \in flights : Conclude(f)
  BY <1>2, ConcludeLeaves DEF ConcludeFrame
<1>3. CASE \E S \in syncs : Synchronize(S)
  BY <1>3 DEF Synchronize
<1>4. QED BY <1>1, <1>2, <1>3, StepsStay DEF Next

\* Batches keep their type, and belong to aggregating nodes.
LEMMA BatchesTyped ==
  ASSUME TypeOK, SegmentsNumbered, BatchNodes, [Next]_vars
  PROVE  /\ DOMAIN batches' \subseteq BatchIds
         /\ \A b \in DOMAIN batches' : batches'[b] \in Batches
         /\ BatchNodes'
<1>1. /\ DOMAIN batches \subseteq BatchIds
      /\ \A b \in DOMAIN batches : batches[b] \in Batches
  BY DEF TypeOK
<1>2. CASE UNCHANGED batches BY <1>1, <1>2 DEF BatchNodes
<1>3. ASSUME NEW f \in flights, Admit(f)
      PROVE  /\ DOMAIN batches' \subseteq BatchIds
             /\ \A b \in DOMAIN batches' : batches'[b] \in Batches
             /\ BatchNodes'
  <2>1. PICK K \in SUBSET Runs : \E into : Takes(f.step, K, into) BY <1>3, AdmitTakes
  <2>2. PICK into : Takes(f.step, K, into) BY <2>1
  <2>3. QED BY <1>1, <2>2 DEF Takes, BatchNodes
<1>4. ASSUME NEW b \in DOMAIN batches, CloseBatch(b)
      PROVE  /\ DOMAIN batches' \subseteq BatchIds
             /\ \A c \in DOMAIN batches' : batches'[c] \in Batches
             /\ BatchNodes'
  BY <1>1, <1>4, CloseBooks DEF BatchNodes
<1>5. QED BY <1>2, <1>3, <1>4, BatchMoves

\* Every variable keeps its type.
LEMMA TypeStep ==
  ASSUME TypeOK, SegmentsNumbered, InputsHeld, BatchNodes, [Next]_vars
  PROVE  TypeOK'
<1>1. IsTable(steps') BY StepsGrow DEF TableGrows
<1>2. /\ clock' \in 0..MaxWindow
      /\ needsSync' \subseteq Runs /\ revoked' \subseteq Runs /\ expired' \subseteq Runs
      /\ syncs' \subseteq SUBSET Runs
      /\ faults' \in Nat
  BY WorldTyped
<1>3. flights' \subseteq Flights /\ \A f \in flights' : f.step \in DOMAIN steps'
  BY FlightsTyped
<1>4. data' \subseteq Runs \X EdgeIds \X Units BY DataTyped
<1>5. closed' \subseteq Runs \X EdgeIds BY ClosedTyped
<1>6. /\ DOMAIN batches' \subseteq BatchIds
      /\ \A b \in DOMAIN batches' : batches'[b] \in Batches
  BY BatchesTyped
<1>7. used' \in [Nodes \X Keys \X (0..MaxWindow) -> Nat] BY UsedTyped
<1>8. /\ DOMAIN decisions' \subseteq Merges \X Runs
      /\ \A d \in DOMAIN decisions' : decisions'[d] \in Decisions
  BY DecisionsTyped
<1>9. /\ DOMAIN sends' \subseteq DOMAIN steps'
      /\ \A s \in DOMAIN sends' : sends'[s] \in Sends
      /\ jobs' \subseteq [send : StepIds, dest : {Dest[r] : r \in Runs}, runs : SUBSET Runs]
  BY SendsTyped
<1>10. QED
  BY <1>1, <1>2, <1>3, <1>4, <1>5, <1>6, <1>7, <1>8, <1>9, Zenon DEF TypeOK, IsTable

-----------------------------------------------------------------------------
(* Every activation collects while a batch holds it, and no longer.        *)

\* No step begins or ends to collect, and none that is complete goes on.
QuietSteps ==
  /\ TableGrows
  /\ \A t \in DOMAIN steps :
       /\ steps'[t].state = "aggregating" <=> steps[t].state = "aggregating"
       /\ steps[t].state = "complete" => steps'[t].state = "complete"

\* Only admissions and closed batches begin and end to collect.
LEMMA StepsQuiet ==
  ASSUME TypeOK, SegmentsNumbered, [Next]_vars
  PROVE  \/ QuietSteps /\ UNCHANGED batches
         \/ \E f \in flights : Admit(f)
         \/ \E b \in DOMAIN batches : CloseBatch(b)
<1>1. ASSUME NEW r \in Runs, StartRun(r) PROVE QuietSteps
  BY <1>1, LeaseSteps DEF QuietSteps
<1>2. ASSUME NEW s \in DOMAIN steps, Claim(s) \/ LeaseEnds(s) PROVE QuietSteps
  BY <1>2, LeaseSteps DEF QuietSteps
<1>3. ASSUME NEW f \in flights, Conclude(f), ~Admit(f) PROVE QuietSteps
  <2>1. CASE steps' = steps BY <2>1, TableStays DEF QuietSteps
  <2>2. CASE Ends(f.step, Over) BY <2>2 DEF QuietSteps, Ends, Over
  <2>3. QED BY <1>3, <2>1, <2>2, ConcludeSteps
<1>4. ASSUME NEW S \in syncs, Synchronize(S) PROVE QuietSteps
  BY <1>4, SyncEffects DEF QuietSteps
<1>5. ASSUME steps' = steps PROVE QuietSteps
  BY <1>5, TableStays DEF QuietSteps
<1>6. QED
  BY <1>1, <1>2, <1>3, <1>4, <1>5, BatchMoves, StepsStay DEF Next

\* The steps of inputs are collecting or complete.
LEMMA InputsHeldStep ==
  ASSUME TypeOK, SegmentsNumbered, InputsHeld, [Next]_vars
  PROVE  InputsHeld'
<1>1. CASE QuietSteps /\ UNCHANGED batches
  BY <1>1 DEF QuietSteps, TableGrows, InputsHeld
<1>2. ASSUME NEW f \in flights, Admit(f) PROVE InputsHeld'
  <2>1. PICK K \in SUBSET Runs : \E into : Takes(f.step, K, into) BY <1>2, AdmitTakes
  <2>2. PICK into : Takes(f.step, K, into) BY <2>1
  <2>3. Ends(f.step, {"aggregating"}) BY <1>2, StoreEnds
  <2>4. \A t \in DOMAIN steps : t \in DOMAIN steps' /\ (t # f.step => steps'[t] = steps[t])
    BY <2>3 DEF Ends, TableGrows
  <2>5. f.step \in DOMAIN steps /\ steps'[f.step].state = "aggregating"
    BY <2>3 DEF Ends
  <2>6. SUFFICES ASSUME NEW b \in DOMAIN batches', NEW i \in DOMAIN batches'[b].inputs
                 PROVE  /\ batches'[b].inputs[i].step \in DOMAIN steps'
                        /\ steps'[batches'[b].inputs[i].step].state
                             \in {"aggregating", "complete"}
    BY DEF InputsHeld
  <2>7. CASE b \in DOMAIN batches /\ i \in DOMAIN batches[b].inputs
    <3>1. batches'[b].inputs[i] = batches[b].inputs[i] BY <2>2, <2>7 DEF Takes
    <3>2. /\ batches[b].inputs[i].step \in DOMAIN steps
          /\ steps[batches[b].inputs[i].step].state \in {"aggregating", "complete"}
      BY <2>7 DEF InputsHeld
    <3>3. QED BY <2>4, <2>5, <3>1, <3>2
  <2>8. CASE ~(b \in DOMAIN batches /\ i \in DOMAIN batches[b].inputs)
    <3>1. b \in into
      <4>1. b \notin into => b \in DOMAIN batches /\ batches'[b] = batches[b]
        BY <2>2 DEF Takes
      <4>2. QED BY <2>8, <4>1
    <3>2. batches'[b].inputs[i] = Entry(f.step, K, b) BY <2>2, <2>8, <3>1 DEF Takes
    <3>3. batches'[b].inputs[i].step = f.step BY <3>2 DEF Entry
    <3>4. QED BY <2>4, <2>5, <3>3
  <2>9. QED BY <2>7, <2>8
<1>3. ASSUME NEW b \in DOMAIN batches, CloseBatch(b) PROVE InputsHeld'
  <2>1. /\ DOMAIN batches' = DOMAIN batches
        /\ \A c \in DOMAIN batches : batches'[c].inputs = batches[c].inputs
    BY <1>3, CloseBooks
  <2>2. /\ DOMAIN steps \subseteq DOMAIN steps'
        /\ \A t \in DOMAIN steps : steps'[t].state = "complete" \/ steps'[t] = steps[t]
    BY <1>3, CloseSteps DEF TableGrows
  <2>3. QED BY <2>1, <2>2 DEF InputsHeld
<1>4. QED BY <1>1, <1>2, <1>3, StepsQuiet

\* Segments stay numbered without gaps.
LEMMA SegmentsStep ==
  ASSUME TypeOK, SegmentsNumbered, [Next]_vars
  PROVE  SegmentsNumbered'
<1>1. CASE DOMAIN batches' = DOMAIN batches
  <2>1. \A n, k, w : Segments(n, k, w)' = Segments(n, k, w) BY <1>1 DEF Segments
  <2>2. QED BY <1>1, <2>1 DEF SegmentsNumbered
<1>2. ASSUME NEW f \in flights, Admit(f) PROVE SegmentsNumbered'
  <2>1. PICK K \in SUBSET Runs : \E into : Takes(f.step, K, into) BY <1>2, AdmitTakes
  <2>2. PICK into : Takes(f.step, K, into) BY <2>1
  <2> DEFINE fresh == into \ DOMAIN batches
             Same(b) == Segments(b.node, b.key, b.window)
  <2>3. DOMAIN batches' = DOMAIN batches \cup fresh BY <2>2 DEF Takes
  <2>4. \A b \in DOMAIN batches' : b \in BatchIds BY <2>2 DEF Takes, TypeOK
  <2>5. \A b \in DOMAIN batches' : IsFiniteSet(Same(b)) /\ Cardinality(Same(b)) \in Nat
    <3>1. TAKE b \in DOMAIN batches'
    <3>2. IsFiniteSet(Same(b))
      <4>1. CASE Same(b) = {} BY <4>1, FS_EmptySet
      <4>2. CASE Same(b) # {}
        <5>1. PICK c \in DOMAIN batches : c.node = b.node /\ c.key = b.key /\ c.window = b.window
          BY <4>2 DEF Segments
        <5>2. QED BY <5>1 DEF SegmentsNumbered
      <4>3. QED BY <4>1, <4>2
    <3>3. QED BY <3>2, FS_CardinalityType
  <2>6. ASSUME NEW b \in DOMAIN batches', NEW c \in fresh,
               c.node = b.node, c.key = b.key, c.window = b.window
        PROVE  /\ Same(b)' = Same(b) \cup {c} /\ c \notin Same(b)
               /\ c.segment = Cardinality(Same(b))
    <3>1. \A d \in fresh : d.key = b.key => d = c BY <2>2, <2>6 DEF Takes
    <3>2. Same(b)' = Same(b) \cup {d \in fresh : d.node = b.node /\ d.key = b.key
                                                 /\ d.window = b.window}
      BY <2>3 DEF Segments
    <3>3. Same(b)' = Same(b) \cup {c} BY <2>6, <3>1, <3>2
    <3>4. c \notin Same(b) BY DEF Segments
    <3>5. c.segment = Cardinality(Same(b)) BY <2>2, <2>6 DEF Takes
    <3>6. QED BY <3>3, <3>4, <3>5
  <2>7. ASSUME NEW b \in DOMAIN batches'
        PROVE  /\ IsFiniteSet(Same(b)') /\ b.segment < Cardinality(Same(b)')
    <3>1. CASE \E c \in fresh : c.node = b.node /\ c.key = b.key /\ c.window = b.window
      <4>1. PICK c \in fresh : c.node = b.node /\ c.key = b.key /\ c.window = b.window
        BY <3>1
      <4>2. /\ Same(b)' = Same(b) \cup {c} /\ c \notin Same(b)
            /\ c.segment = Cardinality(Same(b))
        BY <2>6, <4>1
      <4>3. /\ IsFiniteSet(Same(b)')
            /\ Cardinality(Same(b)') = Cardinality(Same(b)) + 1
        BY <2>5, <4>2, FS_AddElement
      <4>4. CASE b \in DOMAIN batches
        <5>1. b.segment < Cardinality(Same(b)) BY <4>4 DEF SegmentsNumbered
        <5>2. b.segment \in Nat BY <2>4 DEF BatchIds
        <5>3. QED BY <2>5, <4>3, <5>1, <5>2
      <4>5. CASE b \notin DOMAIN batches
        <5>1. b \in fresh BY <2>3, <4>5
        <5>2. b.segment = Cardinality(Same(b)) BY <2>6, <5>1
        <5>3. QED BY <2>5, <4>3, <5>2
      <4>6. QED BY <4>4, <4>5
    <3>2. CASE ~\E c \in fresh : c.node = b.node /\ c.key = b.key /\ c.window = b.window
      <4>1. Same(b)' = Same(b) BY <2>3, <3>2 DEF Segments
      <4>2. b \in DOMAIN batches BY <2>3, <3>2
      <4>3. QED BY <2>5, <4>1, <4>2 DEF SegmentsNumbered
    <3>3. QED BY <3>1, <3>2
  <2>8. QED BY <2>7 DEF SegmentsNumbered
<1>3. ASSUME NEW b \in DOMAIN batches, CloseBatch(b) PROVE SegmentsNumbered'
  BY <1>1, <1>3, CloseBooks
<1>4. CASE UNCHANGED batches BY <1>1, <1>4
<1>5. QED BY <1>2, <1>3, <1>4, BatchMoves

\* A step collects exactly as long as an open batch holds part of it.
Holds(b, s) == \E i \in DOMAIN batches[b].inputs : batches[b].inputs[i].step = s
Collecting ==
  \A s \in DOMAIN steps :
    steps[s].state = "aggregating" <=>
      \E b \in DOMAIN batches : batches[b].state = "open" /\ Holds(b, s)

\* No two inputs share a run of a step.
HeldOnce ==
  \A b, c \in DOMAIN batches : \A i \in DOMAIN batches[b].inputs :
    \A j \in DOMAIN batches[c].inputs :
      /\ batches[b].inputs[i].step = batches[c].inputs[j].step
      /\ batches[b].inputs[i].runs \cap batches[c].inputs[j].runs # {}
      => b = c /\ i = j

\* The two halves of BatchBooks.
LEMMA BooksAre == BatchBooks <=> Collecting /\ HeldOnce
BY DEF BatchBooks, Collecting, HeldOnce, Holds

\* Steps collect as long as an open batch holds them, after every step.
LEMMA CollectingStep ==
  ASSUME TypeOK, SegmentsNumbered, InputsHeld, Collecting, [Next]_vars
  PROVE  Collecting'
<1>1. TableGrows BY StepsGrow
<1>2. \A t \in DOMAIN steps' \ DOMAIN steps : steps'[t].state # "aggregating"
  BY <1>1 DEF TableGrows, NewStep
<1>3. \A b \in DOMAIN batches : \A t : Holds(b, t) => t \in DOMAIN steps
  BY DEF InputsHeld, Holds
<1>4. CASE QuietSteps /\ UNCHANGED batches
  <2>1. \A b, t : Holds(b, t)' <=> Holds(b, t) BY <1>4 DEF Holds
  <2>2. QED BY <1>2, <1>3, <1>4, <2>1 DEF QuietSteps, Collecting
<1>5. ASSUME NEW f \in flights, Admit(f) PROVE Collecting'
  <2>1. PICK K \in SUBSET Runs : \E into : Takes(f.step, K, into) BY <1>5, AdmitTakes
  <2>2. PICK into : Takes(f.step, K, into) BY <2>1
  <2> DEFINE s == f.step
  <2>3. /\ s \in DOMAIN steps /\ steps[s].state = "leased"
        /\ steps'[s].state = "aggregating"
        /\ \A t \in DOMAIN steps \ {s} : steps'[t] = steps[t]
    BY <1>5, StoreEnds DEF Ends
  <2>4. \A b \in DOMAIN batches : \A t : Holds(b, t) => Holds(b, t)'
    BY <2>2 DEF Takes, Holds
  <2>5. \A b \in DOMAIN batches' : \A t :
          Holds(b, t)' /\ t # s => b \in DOMAIN batches /\ Holds(b, t)
    <3>1. SUFFICES ASSUME NEW b \in DOMAIN batches', NEW t, Holds(b, t)', t # s
                   PROVE  b \in DOMAIN batches /\ Holds(b, t)
      OBVIOUS
    <3>2. PICK i \in DOMAIN batches'[b].inputs : batches'[b].inputs[i].step = t
      BY <3>1 DEF Holds
    <3>3. CASE b \notin into
      <4>1. b \in DOMAIN batches /\ batches'[b] = batches[b] BY <2>2, <3>3 DEF Takes
      <4>2. QED BY <3>2, <4>1 DEF Holds
    <3>4. CASE b \in into
      <4>1. PICK j \in DOMAIN batches'[b].inputs :
              /\ batches'[b].inputs[j] = Entry(s, K, b)
              /\ \A k \in DOMAIN batches'[b].inputs :
                   k # j => b \in DOMAIN batches /\ k \in DOMAIN batches[b].inputs
        BY <2>2, <3>4 DEF Takes
      <4>2. i # j BY <3>1, <3>2, <4>1 DEF Entry
      <4>3. b \in DOMAIN batches /\ i \in DOMAIN batches[b].inputs BY <4>1, <4>2
      <4>4. batches'[b].inputs[i] = batches[b].inputs[i] BY <2>2, <4>3 DEF Takes
      <4>5. QED BY <3>2, <4>3, <4>4 DEF Holds
    <3>5. QED BY <3>3, <3>4
  <2>6. PICK b \in into : TRUE BY <2>2 DEF Takes
  <2>7. b \in DOMAIN batches' /\ batches'[b].state = "open" /\ Holds(b, s)'
    <3>1. PICK i \in DOMAIN batches'[b].inputs : batches'[b].inputs[i] = Entry(s, K, b)
      BY <2>2 DEF Takes
    <3>2. batches'[b].inputs[i].step = s BY <3>1 DEF Entry
    <3>3. Holds(b, s)' BY <3>2 DEF Holds
    <3>4. QED BY <2>2, <3>3 DEF Takes
  <2>8. \A c \in DOMAIN batches : c \in DOMAIN batches' /\ batches'[c].state = batches[c].state
    BY <2>2 DEF Takes
  <2>9. ASSUME NEW t \in DOMAIN steps', t # s
        PROVE  steps'[t].state = "aggregating" <=>
                 \E c \in DOMAIN batches' : batches'[c].state = "open" /\ Holds(c, t)'
    <3>1. CASE t \in DOMAIN steps
      <4>1. steps'[t] = steps[t] BY <2>3, <2>9, <3>1
      <4>2. (\E c \in DOMAIN batches' : batches'[c].state = "open" /\ Holds(c, t)')
              <=> \E c \in DOMAIN batches : batches[c].state = "open" /\ Holds(c, t)
        BY <2>4, <2>5, <2>8, <2>9
      <4>3. QED BY <3>1, <4>1, <4>2 DEF Collecting
    <3>2. CASE t \notin DOMAIN steps
      BY <1>2, <1>3, <2>5, <2>9, <3>2
    <3>3. QED BY <3>1, <3>2
  <2>10. QED BY <2>3, <2>7, <2>9 DEF Collecting
<1>6. ASSUME NEW b \in DOMAIN batches, CloseBatch(b) PROVE Collecting'
  <2>1. /\ batches[b].state = "open" /\ DOMAIN batches' = DOMAIN batches
        /\ batches'[b].state # "open"
        /\ \A c \in DOMAIN batches \ {b} : batches'[c].state = batches[c].state
        /\ \A c \in DOMAIN batches : \A t : Holds(c, t)' <=> Holds(c, t)
    BY <1>6, CloseBooks DEF Holds
  <2>2. \A t : t \in LastOf(b) <=>
               /\ Holds(b, t)
               /\ ~\E c \in DOMAIN batches \ {b} : batches[c].state = "open" /\ Holds(c, t)
    BY DEF LastOf, Awaited, Holds
  <2>3. \A t \in DOMAIN steps :
          IF t \in LastOf(b) /\ steps[t].state = "aggregating"
          THEN steps'[t].state = "complete" ELSE steps'[t] = steps[t]
    BY <1>6, CloseSteps
  <2>4. SUFFICES ASSUME NEW t \in DOMAIN steps'
                 PROVE  steps'[t].state = "aggregating" <=>
                          \E c \in DOMAIN batches' : batches'[c].state = "open" /\ Holds(c, t)'
    BY DEF Collecting
  <2>5. (\E c \in DOMAIN batches' : batches'[c].state = "open" /\ Holds(c, t)')
          <=> \E c \in DOMAIN batches \ {b} : batches[c].state = "open" /\ Holds(c, t)
    BY <2>1
  <2>6. CASE t \notin DOMAIN steps
    BY <1>2, <1>3, <2>4, <2>5, <2>6
  <2>7. CASE t \in DOMAIN steps
    <3>1. steps[t].state = "aggregating" <=>
            \E c \in DOMAIN batches : batches[c].state = "open" /\ Holds(c, t)
      BY <2>7 DEF Collecting
    <3>2. CASE t \in LastOf(b) /\ steps[t].state = "aggregating"
      BY <2>2, <2>3, <2>5, <2>7, <3>2
    <3>3. CASE ~(t \in LastOf(b) /\ steps[t].state = "aggregating")
      <4>1. steps'[t] = steps[t] BY <2>3, <2>7, <3>3
      <4>2. QED BY <2>1, <2>2, <2>5, <3>1, <3>3, <4>1
    <3>4. QED BY <3>2, <3>3
  <2>8. QED BY <2>6, <2>7
<1>7. QED BY <1>4, <1>5, <1>6, StepsQuiet

\* No step lets two inputs share a run.
LEMMA HeldOnceStep ==
  ASSUME TypeOK, SegmentsNumbered, InputsHeld, HeldOnce, [Next]_vars
  PROVE  HeldOnce'
<1>1. CASE UNCHANGED batches BY <1>1 DEF HeldOnce
<1>2. ASSUME NEW b \in DOMAIN batches, CloseBatch(b) PROVE HeldOnce'
  <2>1. /\ DOMAIN batches' = DOMAIN batches
        /\ \A c \in DOMAIN batches : batches'[c].inputs = batches[c].inputs
    BY <1>2, CloseBooks
  <2>2. QED BY <2>1 DEF HeldOnce
<1>3. ASSUME NEW f \in flights, Admit(f) PROVE HeldOnce'
  <2>1. PICK K \in SUBSET Runs : \E into : Takes(f.step, K, into) BY <1>3, AdmitTakes
  <2>2. PICK into : Takes(f.step, K, into) BY <2>1
  <2> DEFINE s == f.step
             IsOld(b, i) == b \in DOMAIN batches /\ i \in DOMAIN batches[b].inputs
  <2>3. s \in DOMAIN steps /\ steps[s].state = "leased"
    BY <1>3, StoreEnds DEF Ends
  <2>4. \A b, i : IsOld(b, i) => /\ batches'[b].inputs[i] = batches[b].inputs[i]
                                 /\ batches'[b].inputs[i].step # s
    <3>1. SUFFICES ASSUME NEW b, NEW i, IsOld(b, i)
                   PROVE  /\ batches'[b].inputs[i] = batches[b].inputs[i]
                          /\ batches'[b].inputs[i].step # s
      OBVIOUS
    <3>2. batches'[b].inputs[i] = batches[b].inputs[i] BY <2>2, <3>1 DEF Takes
    <3>3. steps[batches[b].inputs[i].step].state \in {"aggregating", "complete"}
      BY <3>1 DEF InputsHeld
    <3>4. QED BY <2>3, <3>2, <3>3
  <2>5. \A b \in DOMAIN batches' : \A i \in DOMAIN batches'[b].inputs :
          ~IsOld(b, i) =>
            /\ b \in into /\ batches'[b].inputs[i] = Entry(s, K, b)
            /\ \A j \in DOMAIN batches'[b].inputs : ~IsOld(b, j) => j = i
    <3>1. SUFFICES ASSUME NEW b \in DOMAIN batches', NEW i \in DOMAIN batches'[b].inputs,
                          ~IsOld(b, i)
                   PROVE  /\ b \in into /\ batches'[b].inputs[i] = Entry(s, K, b)
                          /\ \A j \in DOMAIN batches'[b].inputs : ~IsOld(b, j) => j = i
      OBVIOUS
    <3>2. b \in into
      <4>1. b \notin into => b \in DOMAIN batches /\ batches'[b] = batches[b]
        BY <2>2 DEF Takes
      <4>2. QED BY <3>1, <4>1
    <3>3. PICK k \in DOMAIN batches'[b].inputs :
            /\ batches'[b].inputs[k] = Entry(s, K, b)
            /\ \A j \in DOMAIN batches'[b].inputs : j # k => IsOld(b, j)
      BY <2>2, <3>2 DEF Takes
    <3>4. QED BY <3>1, <3>2, <3>3
  <2>6. SUFFICES ASSUME NEW b \in DOMAIN batches', NEW c \in DOMAIN batches',
                        NEW i \in DOMAIN batches'[b].inputs,
                        NEW j \in DOMAIN batches'[c].inputs,
                        batches'[b].inputs[i].step = batches'[c].inputs[j].step,
                        batches'[b].inputs[i].runs \cap batches'[c].inputs[j].runs # {}
                 PROVE  b = c /\ i = j
    BY DEF HeldOnce
  <2> HIDE DEF IsOld
  <2>7. CASE IsOld(b, i) /\ IsOld(c, j)
    BY <2>4, <2>6, <2>7 DEF HeldOnce, IsOld
  <2>8. CASE ~IsOld(b, i) /\ ~IsOld(c, j)
    <3>1. /\ b \in into /\ batches'[b].inputs[i] = Entry(s, K, b)
          /\ c \in into /\ batches'[c].inputs[j] = Entry(s, K, c)
      BY <2>5, <2>8
    <3>2. b.key = c.key BY <2>6, <3>1 DEF Entry
    <3>3. b = c BY <2>2, <3>1, <3>2 DEF Takes
    <3>4. QED BY <2>5, <2>8, <3>3
  <2>9. CASE IsOld(b, i) /\ ~IsOld(c, j)
    <3>1. batches'[c].inputs[j] = Entry(s, K, c) BY <2>5, <2>9
    <3>2. batches'[c].inputs[j].step = s BY <3>1 DEF Entry
    <3>3. QED BY <2>4, <2>6, <2>9, <3>2
  <2>10. CASE ~IsOld(b, i) /\ IsOld(c, j)
    <3>1. batches'[b].inputs[i] = Entry(s, K, b) BY <2>5, <2>10
    <3>2. batches'[b].inputs[i].step = s BY <3>1 DEF Entry
    <3>3. QED BY <2>4, <2>6, <2>10, <3>2
  <2>11. QED BY <2>7, <2>8, <2>9, <2>10
<1>4. QED BY <1>1, <1>2, <1>3, BatchMoves

-----------------------------------------------------------------------------
(* A merge decides before it sends on, and sends a run on once.            *)

\* What a synchronization sends on.
LEMMA SyncData ==
  ASSUME TypeOK, NEW S \in syncs, Synchronize(S)
  PROVE  /\ data \subseteq data'
         /\ \A c \in data' \ data : \A m \in Merges : \A e \in Out(m) :
              c[2] = e.id => <<m, c[1]>> \in DOMAIN decisions'
                             /\ <<m, c[1]>> \notin DOMAIN decisions
         /\ \A c, d \in data' \ data : \A m \in Merges : \A e \in Out(m) :
              c[1] = d[1] /\ c[2] = e.id /\ d[2] = e.id => c = d
<1>1. PICK Away \in [Merges -> SUBSET Runs] :
        /\ \A m \in Merges : \A r \in Away[m] :
             <<m, r>> \notin DOMAIN decisions /\ <<m, r>> \in DOMAIN decisions'
        /\ data' = data \cup UNION {{<<r, x[1].id, x[2]>> : r \in x[2].runs}
                                    : x \in LeavesNow(Away)}
  BY SyncEffects
<1>2. \A c \in data' \ data : \E x \in LeavesNow(Away) : \E r \in x[2].runs :
         c = <<r, x[1].id, x[2]>>
  BY <1>1
<1>3. \A x \in LeavesNow(Away) : \E m \in Merges :
         x[1] \in Out(m) /\ x[2] \in Joined(m, Away[m])
  BY DEF LeavesNow
<1>4. ASSUME NEW c \in data' \ data, NEW m \in Merges, NEW e \in Out(m), c[2] = e.id
      PROVE  \E u \in Joined(m, Away[m]) :
               /\ c = <<c[1], e.id, u>> /\ c[1] \in u.runs /\ c[1] \in Away[m]
  <2>1. PICK x \in LeavesNow(Away) : \E r \in x[2].runs : c = <<r, x[1].id, x[2]>>
    BY <1>2
  <2>2. c[1] \in x[2].runs /\ c = <<c[1], x[1].id, x[2]>> /\ c[2] = x[1].id BY <2>1
  <2>3. PICK n \in Merges : x[1] \in Out(n) /\ x[2] \in Joined(n, Away[n]) BY <1>3
  <2>4. n = m /\ x[1] = e
    <3> DEFINE g == x[1]
    <3>1. g \in Out(n) /\ g.id = e.id BY <1>4, <2>2, <2>3
    <3> HIDE DEF g
    <3>2. n = m /\ g = e BY <3>1, EdgeFacts
    <3>3. QED BY <3>2 DEF g
  <2>5. Away[m] \in SUBSET Runs BY <1>1
  <2>6. x[2].runs \in SUBSET Away[m] BY <2>3, <2>4, <2>5, JoinedUnits
  <2>7. QED BY <2>2, <2>3, <2>4, <2>6
<1>5. ASSUME NEW c \in data' \ data, NEW d \in data' \ data, NEW m \in Merges,
             NEW e \in Out(m), c[1] = d[1], c[2] = e.id, d[2] = e.id
      PROVE  c = d
  <2>1. PICK u \in Joined(m, Away[m]) : c = <<c[1], e.id, u>> /\ c[1] \in u.runs
    BY <1>4, <1>5
  <2>2. PICK v \in Joined(m, Away[m]) : d = <<d[1], e.id, v>> /\ d[1] \in v.runs
    BY <1>4, <1>5
  <2>3. u.runs \cap v.runs # {} BY <1>5, <2>1, <2>2
  <2>4. Away[m] \in SUBSET Runs BY <1>1
  <2>5. u = v BY <2>3, <2>4, JoinedUnits
  <2>6. QED BY <1>5, <2>1, <2>2, <2>5
<1>6. QED BY <1>1, <1>4, <1>5

\* Other steps send nothing on from a merge.
LEMMA DataQuiet ==
  ASSUME TypeOK, BatchNodes, [Next]_vars, ~\E S \in syncs : Synchronize(S)
  PROVE  /\ data \subseteq data'
         /\ \A d \in data' \ data : \A m \in Merges : \A e \in Out(m) : d[2] # e.id
<1>1. CASE UNCHANGED data BY <1>1
<1>2. ASSUME NEW n \in Nodes, Type[n] # "merge",
             data \subseteq data', \A d \in data' \ data : \E e \in Out(n) : d[2] = e.id
      PROVE  \A d \in data' \ data : \A m \in Merges : \A e \in Out(m) : d[2] # e.id
  <2>1. SUFFICES ASSUME NEW d \in data' \ data, NEW m \in Merges, NEW e \in Out(m),
                        d[2] = e.id
                 PROVE  FALSE
    OBVIOUS
  <2>2. PICK g \in Out(n) : d[2] = g.id BY <1>2
  <2>3. n = m BY <2>1, <2>2, EdgeFacts
  <2>4. QED BY <1>2, <2>3 DEF Merges
<1>3. \A b \in DOMAIN batches : Type[b.node] # "merge" BY DEF BatchNodes
<1>4. QED BY <1>1, <1>2, <1>3, DataMoves

\* Decisions come first, and a run leaves a merge once.
LEMMA LeavesStep ==
  ASSUME TypeOK, BatchNodes, LeftMeansDecided, LeavesAlone, [Next]_vars
  PROVE  LeftMeansDecided' /\ LeavesAlone'
<1>1. DOMAIN decisions \subseteq DOMAIN decisions' BY DecisionsTyped
<1>2. CASE \E S \in syncs : Synchronize(S)
  <2>1. PICK S \in syncs : Synchronize(S) BY <1>2
  <2>2. /\ data \subseteq data'
        /\ \A c \in data' \ data : \A m \in Merges : \A e \in Out(m) :
             c[2] = e.id => <<m, c[1]>> \in DOMAIN decisions'
                            /\ <<m, c[1]>> \notin DOMAIN decisions
        /\ \A c, d \in data' \ data : \A m \in Merges : \A e \in Out(m) :
             c[1] = d[1] /\ c[2] = e.id /\ d[2] = e.id => c = d
    BY <2>1, SyncData
  <2>3. LeftMeansDecided' BY <1>1, <2>2 DEF LeftMeansDecided
  <2>4. ASSUME NEW c \in data', NEW d \in data', NEW m \in Merges, NEW e \in Out(m),
               c[1] = d[1], c[2] = e.id, d[2] = e.id
        PROVE  c = d
    <3>1. CASE c \in data /\ d \in data BY <2>4, <3>1 DEF LeavesAlone
    <3>2. CASE c \notin data /\ d \notin data BY <2>2, <2>4, <3>2
    <3>3. CASE c \in data /\ d \notin data
      <4>1. <<m, c[1]>> \in DOMAIN decisions BY <2>4, <3>3 DEF LeftMeansDecided
      <4>2. <<m, d[1]>> \notin DOMAIN decisions BY <2>2, <2>4, <3>3
      <4>3. QED BY <2>4, <4>1, <4>2
    <3>4. CASE c \notin data /\ d \in data
      <4>1. <<m, d[1]>> \in DOMAIN decisions BY <2>4, <3>4 DEF LeftMeansDecided
      <4>2. <<m, c[1]>> \notin DOMAIN decisions BY <2>2, <2>4, <3>4
      <4>3. QED BY <2>4, <4>1, <4>2
    <3>5. QED BY <3>1, <3>2, <3>3, <3>4
  <2>5. QED BY <2>3, <2>4 DEF LeavesAlone
<1>3. CASE ~\E S \in syncs : Synchronize(S)
  <2>1. /\ data \subseteq data'
        /\ \A d \in data' \ data : \A m \in Merges : \A e \in Out(m) : d[2] # e.id
    BY <1>3, DataQuiet
  <2>2. \A d \in data' : \A m \in Merges : \A e \in Out(m) : d[2] = e.id => d \in data
    BY <2>1
  <2>3. LeftMeansDecided' BY <1>1, <2>2 DEF LeftMeansDecided
  <2>4. LeavesAlone' BY <2>2 DEF LeavesAlone
  <2>5. QED BY <2>3, <2>4
<1>4. QED BY <1>2, <1>3

-----------------------------------------------------------------------------
(* The theorems.                                                           *)

\* The invariant holds at first.
LEMMA GraphInit == Init => GraphInv
<1> SUFFICES ASSUME Init PROVE GraphInv
  OBVIOUS
<1>1. DOMAIN steps = {} /\ DOMAIN batches = {} /\ data = {} BY DEF Init
<1>2. TypeOK BY TypeInit
<1>3. QED
  BY <1>1, <1>2 DEF GraphInv, InputsHeld, BatchNodes, SegmentsNumbered, BatchBooks,
                    LeftMeansDecided, LeavesAlone

\* The invariant is inductive.
LEMMA GraphStep == GraphInv /\ [Next]_vars => GraphInv'
<1> SUFFICES ASSUME GraphInv, [Next]_vars PROVE GraphInv'
  OBVIOUS
<1>1. /\ TypeOK /\ InputsHeld /\ BatchNodes /\ SegmentsNumbered /\ Collecting /\ HeldOnce
      /\ LeftMeansDecided /\ LeavesAlone
  BY BooksAre DEF GraphInv
<1>2. TypeOK' BY <1>1, TypeStep
<1>3. InputsHeld' BY <1>1, InputsHeldStep
<1>4. BatchNodes' BY <1>1, BatchesTyped
<1>5. SegmentsNumbered' BY <1>1, SegmentsStep
<1>6. Collecting' /\ HeldOnce' BY <1>1, CollectingStep, HeldOnceStep
<1>7. BatchBooks' BY <1>6, BooksAre, PTL
<1>8. LeftMeansDecided' /\ LeavesAlone' BY <1>1, LeavesStep
<1>9. QED BY <1>2, <1>3, <1>4, <1>5, <1>7, <1>8 DEF GraphInv

\* Receipts that are all the same are one at most.
LEMMA LeavesOnce == GraphInv => LeavesMergeOnce
<1> SUFFICES ASSUME GraphInv, NEW m \in Merges, NEW r \in Runs, NEW e \in Out(m)
             PROVE  Cardinality({d \in data : d[1] = r /\ d[2] = e.id}) <= 1
  BY DEF LeavesMergeOnce
<1> DEFINE D == {d \in data : d[1] = r /\ d[2] = e.id}
<1>1. \A c, d \in D : c = d BY DEF GraphInv, LeavesAlone
<1>2. CASE D = {} BY <1>2, FS_EmptySet
<1>3. CASE D # {}
  <2>1. PICK d \in D : TRUE BY <1>3
  <2>2. D = {d} BY <1>1, <2>1
  <2>3. Cardinality(D) = 1 BY <2>2, FS_Singleton
  <2>4. QED BY <2>3
<1>4. QED BY <1>2, <1>3

\* The strengthened invariant holds in every reachable state, for any graph.
THEOREM GraphInvariant == Spec => []GraphInv
<1>1. Init => GraphInv BY GraphInit
<1>2. GraphInv /\ [Next]_vars => GraphInv' BY GraphStep
<1>3. QED BY <1>1, <1>2, PTL DEF Spec

\* The state of the executor always has its type.
THEOREM TypeCorrect == Spec => []TypeOK
<1>1. GraphInv => TypeOK BY DEF GraphInv
<1>2. QED BY <1>1, GraphInvariant, PTL

\* An activation collects exactly as long as an open batch holds part of it,
\* and no run of it is held twice.
THEOREM BooksOfBatches == Spec => []BatchBooks
<1>1. GraphInv => BatchBooks BY DEF GraphInv
<1>2. QED BY <1>1, GraphInvariant, PTL

\* A run leaves a merge in one unit, however often it is synchronized.
THEOREM RunLeavesOnce == Spec => []LeavesMergeOnce
BY LeavesOnce, GraphInvariant, PTL

==============================================================================
