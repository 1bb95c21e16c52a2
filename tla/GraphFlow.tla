------------------------------ MODULE GraphFlow ------------------------------
(***************************************************************************)
(* The executor of a published flow graph (graph-store.js,                 *)
(* graph-join-store.js, graph-driver.js, flow-projector.js).               *)
(*                                                                         *)
(* A run is one event that entered the flow.  A unit is an immutable group *)
(* of runs that travels the graph together; a step is one activation of a  *)
(* node with a unit.  Workers lease steps, evaluate them outside the       *)
(* database and settle the result in one transaction.  Aggregating nodes   *)
(* collect units in batches that are sealed when their window is over, a   *)
(* merge waits until every path into it is closed for a run, and send      *)
(* nodes leave intents that become jobs of the delivery queue.             *)
(*                                                                         *)
(* Each operation of the store is one transaction under the lock of the    *)
(* flow and therefore one action.  Time is counted in windows of the       *)
(* aggregating and limiting nodes; a lease may end at any moment.          *)
(***************************************************************************)
EXTENDS Naturals, FiniteSets, Sequences

CONSTANTS
  Runs,        \* events that enter the flow
  Keys,        \* values of the grouping fields
  Nodes,       \* blocks of the graph
  Edges,       \* its connections: [id, from, port, to]
  StartNode,
  Type,        \* [Nodes -> NodeTypes]
  KeyOf,       \* [Nodes -> [Runs -> Keys]]: the group of a run at a node
  MergeMode,   \* "any" | "all"
  BatchMode,   \* "all" | "latest"
  MaxItems,    \* inputs of one segment of a batch
  GateCount,   \* units a limiting node passes per window
  Overflow,    \* "drop" | "defer"
  Dest,        \* [Runs -> destinations]
  Perishable,  \* runs whose deadline may pass
  Revocable,   \* runs whose monitor or rule may be withdrawn
  Workers,     \* how many evaluations are in progress at once
  MaxFaults,   \* bound on crashes and on leases that end under a slow worker
  MaxWindow    \* bound on the clock

Plain == {"start", "condition", "transform", "delay", "stop"}
NodeTypes == Plain \cup {"limit", "aggregate", "merge", "send"}
EdgeIds == {e.id : e \in Edges}
NoEdge == "none"

ASSUME GraphAssumption ==
  /\ IsFiniteSet(Runs) /\ IsFiniteSet(Nodes)
  /\ StartNode \in Nodes /\ Type \in [Nodes -> NodeTypes]
  /\ \A e \in Edges : e.from \in Nodes /\ e.to \in Nodes
  /\ \A e, g \in Edges : e.id = g.id => e = g
  /\ \A e \in Edges : e.id # NoEdge

\* A flow is published only if it has no cycle, nothing leads back to its start
\* and every block that can send something on is connected (validateWorkflow).
ASSUME PlanAssumption ==
  /\ \E rank \in [Nodes -> 0..Cardinality(Nodes)] :
       \A e \in Edges : rank[e.from] < rank[e.to]
  /\ Type[StartNode] = "start" /\ \A e \in Edges : e.to # StartNode
  /\ \A n \in Nodes : Type[n] \in {"stop", "send"} \/ \E e \in Edges : e.from = n

ASSUME ConfigAssumption ==
  /\ KeyOf \in [Nodes -> [Runs -> Keys]]
  /\ MergeMode \in {"any", "all"} /\ BatchMode \in {"all", "latest"}
  /\ Overflow \in {"drop", "defer"}
  /\ MaxItems \in Nat \ {0} /\ GateCount \in Nat \ {0}
  /\ Workers \in Nat /\ MaxFaults \in Nat /\ MaxWindow \in Nat

VARIABLES
  clock,      \* the current window
  needsSync,  \* runs whose needs_sync flag is set
  revoked,    \* runs with revoked_at_ms
  expired,    \* runs whose deadline has passed
  steps,      \* automation_flow_steps, by identity
  flights,    \* evaluations in progress, with the time of their tick
  syncs,      \* synchronizations a worker is about to make
  data,       \* data receipts: <<run, edge id, unit>>
  closed,     \* closed receipts: <<run, edge id>>
  batches,    \* automation_flow_batches with their inputs, by identity
  used,       \* counters of the limiting nodes, by <<node, key, window>>
  decisions,  \* automation_flow_merge_decisions, by <<merge, run>>
  sends,      \* automation_flow_sends, by step
  jobs,       \* jobs the projector created
  faults      \* faults so far

world == <<clock, revoked, expired>>
vars == <<world, needsSync, steps, flights, syncs, data, closed, batches,
          used, decisions, sends, jobs, faults>>

-----------------------------------------------------------------------------
(* The graph *)

Out(n) == {e \in Edges : e.from = n}
In(n) == {e \in Edges : e.to = n}
Merges == {n \in Nodes : Type[n] = "merge"}

-----------------------------------------------------------------------------
(* Units, steps and batches.  An identity is what the store derives it from: *)
(* the node that last formed a new unit, the way taken since and the runs.   *)

BatchIds == [node : Nodes, key : Keys, window : Nat, segment : Nat]
Units == [origin : Nodes, path : SUBSET EdgeIds, ancestry : SUBSET BatchIds,
          runs : SUBSET Runs]
StepIds == [node : Nodes, via : EdgeIds \cup {NoEdge}, unit : Units]
StepStates ==
  {"pending", "leased", "aggregating", "joining", "complete", "excluded"}
Terminal == {"complete", "excluded"}

\* `runs` is the membership of the continuation, or of the input unit.
Steps == [state : StepStates, runs : SUBSET Runs, wake : Nat,
          version : Nat, live : BOOLEAN]
Flights == [step : StepIds, version : Nat, runs : SUBSET Runs, at : Nat]
Inputs == [step : StepIds, runs : SUBSET Runs]
Batches == [state : {"open", "sealed", "empty", "failed"}, inputs : Seq(Inputs)]
Decisions == [state : {"emitted", "excluded"}, arrivals : SUBSET Units]
Sends == [runs : SUBSET Runs,
          state : {"unprojected", "projected", "expired", "cancelled"}]

Started == {r \in Runs : \E s \in DOMAIN steps : r \in s.unit.runs}

\* Fault: the activation of the event counts as an edge as well.
OnwardFromNowhere(s, R) == [s.unit EXCEPT !.path = @ \cup {s.via}, !.runs = R]

\* A new unit for part of the runs of a step, sent on from its node.
Onward(s, R) == [s.unit EXCEPT !.path = @ \cup ({s.via} \ {NoEdge}), !.runs = R]

\* putStep inserts activations that do not exist yet, due at once.
Activate(table, ids) ==
  [s \in DOMAIN table \cup ids |->
     IF s \in DOMAIN table THEN table[s]
     ELSE [state |-> "pending", runs |-> s.unit.runs, wake |-> 0,
           version |-> 1, live |-> FALSE]]

\* finish: the lease is given up and the runs of the input unit need a
\* synchronization.
Finished(s, state, wake) ==
  [steps EXCEPT ![s].state = state, ![s].wake = wake, ![s].live = FALSE]
Finish(s, state) == Finished(s, state, steps[s].wake)
Flag(R) == needsSync' = needsSync \cup R

Init ==
  /\ clock = 0
  /\ needsSync = {} /\ revoked = {} /\ expired = {}
  /\ steps = << >> /\ flights = {} /\ syncs = {} /\ data = {} /\ closed = {}
  /\ batches = << >>
  /\ used = [c \in Nodes \X Keys \X (0..MaxWindow) |-> 0]
  /\ decisions = << >> /\ sends = << >> /\ jobs = {}
  /\ faults = 0

\* initializeInTransaction: a routed event enters at the start node.
StartRun(r) ==
  LET unit == [origin |-> StartNode, path |-> {}, ancestry |-> {}, runs |-> {r}]
  IN
  /\ r \notin Started
  /\ steps' = Activate(steps, {[node |-> StartNode, via |-> NoEdge, unit |-> unit]})
  /\ Flag({r})
  /\ UNCHANGED <<world, flights, syncs, data, closed, batches, used, decisions,
                 sends, jobs, faults>>

-----------------------------------------------------------------------------
(* Leases *)

\* Fault: the step of a dead worker stays leased.
ClaimablePending(s) == steps[s].state = "pending" /\ steps[s].wake <= clock

Claimable(s) == \/ steps[s].state = "pending" /\ steps[s].wake <= clock
                \/ steps[s].state = "leased" /\ ~steps[s].live

\* A worker is free.
Idle == Cardinality(flights) + Cardinality(syncs) < Workers

\* dueBatch: an open batch whose window is over.
Due(b) == batches[b].state = "open" /\ b.window < clock

\* tick looks for a due batch first; only when there is none does it claim a
\* step, and only when there is no step either does it synchronize.
NoneDue == \A b \in DOMAIN batches : ~Due(b)

\* claim: a due step, or one whose lease is over, under a new token; the
\* worker gets the members that are not revoked.
Claim(s) ==
  /\ Idle /\ NoneDue
  /\ Claimable(s)
  /\ steps' = [steps EXCEPT ![s].state = "leased", ![s].live = TRUE,
                            ![s].version = @ + 1]
  /\ flights' = flights \cup {[step |-> s, version |-> steps[s].version + 1,
                               runs |-> steps[s].runs \ revoked, at |-> clock]}
  /\ UNCHANGED <<world, needsSync, syncs, data, closed, batches, used, decisions,
                 sends, jobs, faults>>

\* The lease of a dead worker ends after its time, that of a slow one may.
LeaseEnds(s) ==
  /\ steps[s].state = "leased" /\ steps[s].live
  /\ IF \E f \in flights : f.step = s /\ f.version = steps[s].version
     THEN faults < MaxFaults /\ faults' = faults + 1
     ELSE faults' = faults
  /\ steps' = [steps EXCEPT ![s].live = FALSE]
  /\ UNCHANGED <<world, needsSync, flights, syncs, data, closed, batches, used,
                 decisions, sends, jobs>>

\* Fault: settles without a look at the lease.
OwnedAny(f) == f.step \in DOMAIN steps

\* owned: nobody else has leased the step.  The worker compares the end of its
\* lease with the time its tick began, so that a lease that has run out counts
\* as held until another worker takes it.
Owned(f) == /\ steps[f.step].state = "leased"
            /\ steps[f.step].version = f.version

\* The worker is done with its evaluation and synchronizes next.
Leave(f) == /\ flights' = flights \ {f}
            /\ syncs' = syncs \cup {f.step.unit.runs}

\* A worker that no longer owns its step changes nothing.
Late(f) ==
  /\ ~Owned(f)
  /\ Leave(f)
  /\ UNCHANGED <<world, needsSync, steps, data, closed, batches, used,
                 decisions, sends, jobs, faults>>

\* The worker crashes, or its transaction is refused because a member was
\* revoked in the meantime (FLOW_STALE_MEMBERSHIP): the lease runs out.
Abandon(f) ==
  /\ flights' = flights \ {f}
  /\ IF f.runs \cap revoked # {} THEN faults' = faults
     ELSE faults < MaxFaults /\ faults' = faults + 1
  /\ UNCHANGED <<world, needsSync, steps, syncs, data, closed, batches, used,
                 decisions, sends, jobs>>

-----------------------------------------------------------------------------
(* Evaluation and settlement.  stepNode drops members past their deadline as *)
(* of the moment of evaluation, which lies before that of the settlement;    *)
(* start rejects events of other kinds, a delay those without its anchor.    *)

Eligible(s) == steps[s].runs \ revoked
Kept(f) == {R \in SUBSET f.runs : \/ f.runs \ expired \subseteq R
                                   \/ Type[f.step.node] \in {"start", "delay"}}
PortsOf(n) == IF Type[n] = "condition" THEN {"yes", "no", "unknown"} ELSE {"out"}
Groups(n, R) == {{r \in R : KeyOf[n][r] = k} : k \in {KeyOf[n][r] : r \in R}}

\* The receipts that close every edge of a node for some runs.
NoPath(R, n) == {<<r, e.id>> : r \in R, e \in Out(n)}

\* successors: a unit on every edge that takes runs, and closed receipts of
\* every other run the worker saw (closedEdges of the driver).
Emit(s, table, sent, seen) ==
  LET taken == {e \in Out(s.node) : sent[e] # {}} IN
  /\ steps' = Activate(table, {[node |-> e.to, via |-> e.id,
                                unit |-> Onward(s, sent[e])] : e \in taken})
  /\ data' = data \cup UNION {{<<r, e.id, Onward(s, sent[e])>> : r \in sent[e]}
                              : e \in taken}
  /\ closed' = closed \cup UNION {{<<r, e.id>> : r \in seen \ sent[e]}
                                  : e \in Out(s.node)}

\* settle, when every member was revoked meanwhile: whatever paths the
\* evaluation did not take are closed.
SettleRevoked(f) ==
  LET s == f.step IN
  /\ Owned(f) /\ Eligible(s) = {}
  /\ Type[s.node] \in {"merge", "aggregate", "send"} => {} \in Kept(f)
  /\ steps' = Finish(s, "excluded")
  /\ \E untaken \in SUBSET NoPath(f.runs, s.node) : closed' = closed \cup untaken
  /\ Leave(f)
  /\ Flag(s.unit.runs)
  /\ UNCHANGED <<world, data, batches, used, decisions, sends, jobs, faults>>

\* settle of a completed evaluation: each kept run leaves through one port.
\* The stateful nodes complete only when no member was kept.
Settle(f) ==
  LET s == f.step IN
  /\ Owned(f) /\ Eligible(s) # {}
  /\ \E K \in Kept(f) :
       /\ Type[s.node] \in Plain \/ K = {}
       /\ \E port \in [K -> PortsOf(s.node)] :
            LET sent == [e \in Out(s.node) |-> {r \in K : port[r] = e.port}] IN
            /\ \A e \in Out(s.node) : sent[e] \subseteq Eligible(s)
            /\ Emit(s, Finish(s, "complete"), sent, f.runs)
  /\ Leave(f)
  /\ Flag(s.unit.runs)
  /\ UNCHANGED <<world, batches, used, decisions, sends, jobs, faults>>

\* settle of a wait: the remaining members continue in a later window, the
\* paths of the others are closed.
Wait(f) ==
  LET s == f.step IN
  /\ Owned(f) /\ Type[s.node] = "delay"
  /\ \E K \in Kept(f) \ {{}} :
       /\ K \subseteq Eligible(s)
       /\ steps' = [Finished(s, "pending", f.at + 1) EXCEPT ![s].runs = K]
       /\ closed' = closed \cup NoPath(f.runs \ K, s.node)
  /\ Leave(f)
  /\ Flag(s.unit.runs)
  /\ UNCHANGED <<world, data, batches, used, decisions, sends, jobs, faults>>

\* settle of a limiting node with several groups: one activation of the same
\* node for each.
Partition(f) ==
  LET s == f.step IN
  /\ Owned(f) /\ Type[s.node] = "limit"
  /\ \E K \in Kept(f) :
       /\ Cardinality(Groups(s.node, K)) > 1
       /\ K \subseteq Eligible(s)
       /\ steps' = Activate(Finish(s, "complete"),
            {[s EXCEPT !.unit = Onward(s, G)] : G \in Groups(s.node, K)})
  /\ Leave(f)
  /\ Flag(s.unit.runs)
  /\ UNCHANGED <<world, data, closed, batches, used, decisions, sends, jobs,
                 faults>>

\* settle of a limiting node: the unit passes while the counter of its group
\* and window allows it; otherwise it is dropped, or waits for the next window.
\* A drop leaves its own edges open; Synchronize closes them.
Gate(f) ==
  LET s == f.step IN
  /\ Owned(f) /\ Type[s.node] = "limit"
  /\ \E K \in Kept(f) : \E k \in Keys :
       LET counter == <<s.node, k, f.at>>
           rest == NoPath(f.runs \ K, s.node)
       IN
       /\ K # {} /\ K \subseteq Eligible(s)
       /\ \A r \in K : KeyOf[s.node][r] = k
       /\ \/ /\ used[counter] < GateCount
             /\ used' = [used EXCEPT ![counter] = @ + 1]
             /\ Emit(s, Finish(s, "complete"), [e \in Out(s.node) |-> K], f.runs)
          \/ /\ used[counter] >= GateCount
             /\ steps' = IF Overflow = "drop" THEN Finish(s, "excluded")
                         ELSE Finished(s, "pending", f.at + 1)
             /\ closed' = IF Overflow = "drop" THEN closed \cup rest ELSE closed
             /\ UNCHANGED <<data, used>>
  /\ Leave(f)
  /\ Flag(s.unit.runs)
  /\ UNCHANGED <<world, batches, decisions, sends, jobs, faults>>

\* The batch that takes the next input of a group: its newest segment, or a
\* new one when that is full or no longer open.
Segments(n, k, w) ==
  {b \in DOMAIN batches : b.node = n /\ b.key = k /\ b.window = w}
Taking(n, k, w) ==
  LET fresh == [node |-> n, key |-> k, window |-> w,
                segment |-> Cardinality(Segments(n, k, w))]
      open == {b \in Segments(n, k, w) : /\ b.segment + 1 = fresh.segment
                                         /\ batches[b].state = "open"
                                         /\ Len(batches[b].inputs) < MaxItems}
  IN IF open = {} THEN fresh ELSE CHOOSE b \in open : TRUE

\* admitBatch: every group of the unit becomes an input of one batch.
Admit(f) ==
  LET s == f.step IN
  /\ Owned(f) /\ Type[s.node] = "aggregate"
  /\ \E K \in Kept(f) \ {{}} :
       LET keys == {KeyOf[s.node][r] : r \in K}
           into == {Taking(s.node, k, f.at) : k \in keys}
           Input(b) == [step |-> s, runs |-> {r \in K : KeyOf[s.node][r] = b.key}]
           Before(b) == IF b \in DOMAIN batches THEN batches[b]
                        ELSE [state |-> "open", inputs |-> << >>]
       IN
       /\ K \subseteq Eligible(s)
       /\ batches' = [b \in DOMAIN batches \cup into |->
                        IF b \in into
                        THEN [Before(b) EXCEPT !.inputs = Append(@, Input(b))]
                        ELSE batches[b]]
  /\ steps' = Finish(s, "aggregating")
  /\ Leave(f)
  /\ Flag(s.unit.runs)
  /\ UNCHANGED <<world, data, closed, used, decisions, sends, jobs, faults>>

\* parkMerge: an arrival at a merge waits for the decision.
Park(f) ==
  LET s == f.step IN
  /\ Owned(f) /\ Type[s.node] = "merge"
  /\ Kept(f) # {{}}
  /\ steps' = Finish(s, "joining")
  /\ Leave(f)
  /\ Flag(s.unit.runs)
  /\ UNCHANGED <<world, data, closed, batches, used, decisions, sends, jobs,
                 faults>>

\* recordSend: the intent to send the unit.
RecordSend(f) ==
  LET s == f.step IN
  /\ Owned(f) /\ Type[s.node] = "send"
  /\ \E K \in Kept(f) \ {{}} :
       /\ K \subseteq Eligible(s)
       /\ sends' = [t \in DOMAIN sends \cup {s} |->
                      IF t = s THEN [runs |-> K, state |-> "unprojected"]
                      ELSE sends[t]]
  /\ steps' = Finish(s, "complete")
  /\ Leave(f)
  /\ Flag(s.unit.runs)
  /\ UNCHANGED <<world, data, closed, batches, used, decisions, jobs, faults>>

\* failStep: a permanent failure of the evaluation or of its storage closes
\* the paths of all members of the step.  A merge only parks its arrival: it
\* evaluates and stores nothing that could exceed a limit.
FailStep(f) ==
  LET s == f.step IN
  /\ Owned(f) /\ f.runs # {} /\ Type[s.node] # "merge"
  /\ faults < MaxFaults /\ faults' = faults + 1
  /\ steps' = Finish(s, "excluded")
  /\ closed' = closed \cup NoPath(steps[s].runs, s.node)
  /\ Leave(f)
  /\ Flag(s.unit.runs)
  /\ UNCHANGED <<world, data, batches, used, decisions, sends, jobs>>

-----------------------------------------------------------------------------
(* Batches *)

\* Fault: only the first input of the batch.
RunsOfFirst(ins) == IF ins = << >> THEN {} ELSE ins[1].runs
RunsOf(ins) == UNION {ins[i].runs : i \in DOMAIN ins}

\* Another batch of the step is still open.
Awaited(s, b) ==
  \E o \in DOMAIN batches \ {b} :
    /\ batches[o].state = "open"
    /\ \E i \in DOMAIN batches[o].inputs : batches[o].inputs[i].step = s

\* closeBatch, when the window is over: revoked and expired members are left
\* out, the newest input or all of them form one unit, unless that turns out
\* too large to store; the steps whose last batch this was are complete, and
\* only then are their edges closed.
CloseBatch(b) ==
  LET ins == batches[b].inputs
      Left(i) == ins[i].runs \ (revoked \cup expired)
      alive == {i \in DOMAIN ins : Left(i) # {}}
      chosen == IF BatchMode = "all" THEN alive
                ELSE {i \in alive : \A j \in alive : j <= i}
      unit == [origin |-> b.node, path |-> {},
               ancestry |-> {b} \cup UNION {ins[i].step.unit.ancestry : i \in chosen},
               runs |-> UNION {Left(i) : i \in chosen}]
      ended == {s \in {ins[i].step : i \in DOMAIN ins} : ~Awaited(s, b)}
      done == [s \in DOMAIN steps |->
                 IF s \in ended /\ steps[s].state = "aggregating"
                 THEN [steps[s] EXCEPT !.state = "complete"] ELSE steps[s]]
  IN
  /\ Idle /\ Due(b)
  /\ \E outcome \in IF chosen = {} THEN {"empty"} ELSE {"sealed", "failed"} :
       LET taken == IF outcome = "sealed" THEN Out(b.node) ELSE {} IN
       /\ outcome = "failed" => faults < MaxFaults
       /\ faults' = IF outcome = "failed" THEN faults + 1 ELSE faults
       /\ batches' = [batches EXCEPT ![b].state = outcome]
       /\ steps' = Activate(done, {[node |-> e.to, via |-> e.id, unit |-> unit]
                                   : e \in taken})
       /\ data' = data \cup UNION {{<<r, e.id, unit>> : r \in unit.runs} : e \in taken}
  /\ closed' = closed \cup UNION {NoPath(steps[s].runs, b.node) : s \in ended}
  /\ Flag(RunsOf(ins))
  /\ syncs' = syncs \cup {RunsOf(ins)}
  /\ UNCHANGED <<world, flights, used, decisions, sends, jobs>>

-----------------------------------------------------------------------------
(* Merges.  synchronize brings the closed receipts and the decisions of some *)
(* runs up to date in one transaction.                                       *)

Decided(m, r) == <<m, r>> \in DOMAIN decisions
At(n, r) == {s \in DOMAIN steps : s.node = n /\ r \in steps[s].runs}
Data(r, n) == {d \in data : d[1] = r /\ \E e \in In(n) : e.id = d[2]}
Arrivals(r, n) == {d[3] : d \in Data(r, n)}

\* Fault: a branch that collects counts as over.
ExhaustedCollecting(r, n) ==
  IF Type[n] = "merge" /\ Arrivals(r, n) # {} THEN Decided(n, r)
  ELSE /\ \A s \in At(n, r) : steps[s].state \in Terminal \cup {"aggregating"}
       /\ At(n, r) = {} => Type[n] # "start" /\ Arrivals(r, n) = {}

\* The node has nothing left to send for the run, given that its incoming
\* edges are closed.
Exhausted(r, n) ==
  IF Type[n] = "merge" /\ Arrivals(r, n) # {} THEN Decided(n, r)
  ELSE /\ \A s \in At(n, r) : steps[s].state \in Terminal
       /\ At(n, r) = {} => Type[n] # "start" /\ Arrivals(r, n) = {}

\* propagateClosures: edges closed for the run, in the order of the graph.
ClosedNow(r) ==
  LET closes[n \in Nodes] ==
        /\ \A e \in In(n) : (<<r, e.id>> \in closed \/ closes[e.from])
        /\ Exhausted(r, n)
  IN {e.id : e \in {g \in Edges : <<r, g.id>> \in closed \/ closes[g.from]}}

\* A run without any current activation was pruned; its edges stay as they are.
Present(r) == \E s \in DOMAIN steps : r \in steps[s].runs
Closable(r) == IF Present(r) THEN ClosedNow(r)
               ELSE {e.id : e \in {g \in Edges : <<r, g.id>> \in closed}}

\* Faults of Deciding: one closed edge is enough; a decision may be made anew.
DecidingAny(closable) ==
  {d \in Merges \X DOMAIN closable :
     ~Decided(d[1], d[2]) /\ \E e \in In(d[1]) : e.id \in closable[d[2]]}
DecidingAgain(closable) ==
  {d \in Merges \X DOMAIN closable : \A e \in In(d[1]) : e.id \in closable[d[2]]}

\* Merges that can decide: all incoming edges closed and no decision yet.
Deciding(closable) ==
  {d \in Merges \X DOMAIN closable :
     ~Decided(d[1], d[2]) /\ \A e \in In(d[1]) : e.id \in closable[d[2]]}
Withdrawn(S) == {d \in Merges \X (S \cap revoked) : ~Decided(d[1], d[2])}

\* mergeLineage: the mode of the merge.
Accepts(m, r) ==
  /\ Arrivals(r, m) # {}
  /\ MergeMode = "all" => \A e \in In(m) : \E d \in Data(r, m) : d[2] = e.id

\* Accepted runs that came out of the same batches leave in one unit.
Signature(m, r) == {u \in Arrivals(r, m) : u.ancestry # {}}
Joined(m, R) ==
  {[origin |-> m, path |-> {}, runs |-> G,
    ancestry |-> UNION {u.ancestry : u \in UNION {Arrivals(r, m) : r \in G}}]
   : G \in {{q \in R : q = r \/ (Signature(m, r) # {} /\ Signature(m, q) = Signature(m, r))}
            : r \in R}}

\* synchronize: `failed` are excluded for a conflict of their displays or a
\* limit of storage.
Synchronize(S) ==
  LET closable == [r \in S \ revoked |-> Closable(r)]
      deciding == Deciding(closable)
      closing == UNION {{<<r, id>> : id \in closable[r]} : r \in S \ revoked}
  IN
  \E failed \in SUBSET {d \in deciding : Accepts(d[1], d[2])} :
    LET accepted == {d \in deciding : Accepts(d[1], d[2])} \ failed
        RunsAt(m) == {r \in S : <<m, r>> \in accepted}
        fresh == deciding \cup Withdrawn(S)
        decided == [d \in DOMAIN decisions \cup fresh |->
                      IF d \in DOMAIN decisions THEN decisions[d]
                      ELSE [state |-> IF d \in accepted THEN "emitted" ELSE "excluded",
                            arrivals |-> IF d \in deciding THEN Arrivals(d[2], d[1])
                                         ELSE {}]]
        over == {s \in DOMAIN steps :
                   /\ Type[s.node] = "merge"
                   /\ steps[s].state \in {"pending", "leased", "joining"}
                   /\ \A r \in steps[s].runs : <<s.node, r>> \in DOMAIN decided}
        ended == [s \in DOMAIN steps |->
                    IF s \in over
                    THEN [steps[s] EXCEPT !.state = "complete", !.live = FALSE]
                    ELSE steps[s]]
        out == UNION {Out(m) \X Joined(m, RunsAt(m)) : m \in Merges}
    IN
    /\ faults + Cardinality(failed) <= MaxFaults
    /\ faults' = faults + Cardinality(failed)
    /\ decisions' = decided
    /\ closed' = closed \cup closing
    /\ steps' = Activate(ended, {[node |-> x[1].to, via |-> x[1].id, unit |-> x[2]]
                                 : x \in out})
    /\ data' = data \cup UNION {{<<r, x[1].id, x[2]>> : r \in x[2].runs} : x \in out}
    /\ needsSync' = IF closing \subseteq closed /\ fresh = {} /\ over = {}
                    THEN needsSync \ S ELSE needsSync
    /\ syncs' = syncs \ {S}
    /\ UNCHANGED <<world, flights, batches, used, sends, jobs>>

\* synchronizationBatch: a worker that finds neither a step nor a batch to work
\* on takes up the flagged runs.
Resync ==
  /\ Idle
  /\ needsSync # {}
  /\ \A s \in DOMAIN steps : ~Claimable(s)
  /\ NoneDue
  /\ syncs' = syncs \cup {needsSync}
  /\ UNCHANGED <<world, needsSync, steps, flights, data, closed, batches, used,
                 decisions, sends, jobs, faults>>

\* The worker dies between its transaction and the synchronization.
Skip(S) ==
  /\ faults < MaxFaults /\ faults' = faults + 1
  /\ syncs' = syncs \ {S}
  /\ UNCHANGED <<world, needsSync, steps, flights, data, closed, batches, used,
                 decisions, sends, jobs>>

-----------------------------------------------------------------------------
(* Projection and the environment *)

\* projectOne: jobs of the members that may still be sent, one for each
\* destination.
Project(s) ==
  LET live == sends[s].runs \ revoked
      R == live \ expired
  IN
  /\ sends[s].state = "unprojected"
  /\ sends' = [sends EXCEPT ![s].state = IF R # {} THEN "projected"
                ELSE IF live # {} THEN "expired" ELSE "cancelled"]
  /\ jobs' = jobs \cup {[send |-> s, dest |-> d, runs |-> {r \in R : Dest[r] = d}]
                        : d \in {Dest[r] : r \in R}}
  /\ UNCHANGED <<world, needsSync, steps, flights, syncs, data, closed, batches,
                 used, decisions, faults>>

\* revokeRun and the withdrawals of monitors and rules.
Revoke(r) ==
  /\ r \in (Started \cap Revocable) \ revoked
  /\ revoked' = revoked \cup {r}
  /\ Flag({r})
  /\ UNCHANGED <<clock, expired, steps, flights, syncs, data, closed, batches, used,
                 decisions, sends, jobs, faults>>

Expire(r) ==
  /\ r \in (Started \cap Perishable) \ expired
  /\ expired' = expired \cup {r}
  /\ UNCHANGED <<clock, revoked, needsSync, steps, flights, syncs, data, closed,
                 batches, used, decisions, sends, jobs, faults>>

Tick ==
  /\ clock < MaxWindow
  /\ clock' = clock + 1
  /\ UNCHANGED <<revoked, expired, needsSync, steps, flights, syncs, data, closed,
                 batches, used, decisions, sends, jobs, faults>>

\* What a worker does with its evaluation.
Conclude(f) ==
  \/ SettleRevoked(f) \/ Settle(f) \/ Wait(f) \/ Partition(f) \/ Gate(f)
  \/ Admit(f) \/ Park(f) \/ RecordSend(f) \/ FailStep(f)
  \/ Late(f) \/ Abandon(f)

Next ==
  \/ \E r \in Runs : StartRun(r) \/ Revoke(r) \/ Expire(r)
  \/ \E s \in DOMAIN steps : Claim(s) \/ LeaseEnds(s)
  \/ \E f \in flights : Conclude(f)
  \/ \E b \in DOMAIN batches : CloseBatch(b)
  \/ Resync
  \/ \E S \in syncs : Synchronize(S) \/ Skip(S)
  \/ \E s \in DOMAIN sends : Project(s)
  \/ Tick

Spec == Init /\ [][Next]_vars

-----------------------------------------------------------------------------
TypeOK ==
  /\ clock \in 0..MaxWindow
  /\ needsSync \subseteq Runs /\ revoked \subseteq Runs /\ expired \subseteq Runs
  /\ DOMAIN steps \subseteq StepIds /\ \A s \in DOMAIN steps : steps[s] \in Steps
  /\ flights \subseteq Flights /\ \A f \in flights : f.step \in DOMAIN steps
  /\ syncs \subseteq SUBSET Runs
  /\ data \subseteq Runs \X EdgeIds \X Units
  /\ closed \subseteq Runs \X EdgeIds
  /\ DOMAIN batches \subseteq BatchIds
  /\ \A b \in DOMAIN batches : batches[b] \in Batches
  /\ used \in [Nodes \X Keys \X (0..MaxWindow) -> Nat]
  /\ DOMAIN decisions \subseteq Merges \X Runs
  /\ \A d \in DOMAIN decisions : decisions[d] \in Decisions
  /\ DOMAIN sends \subseteq DOMAIN steps /\ \A s \in DOMAIN sends : sends[s] \in Sends
  /\ jobs \subseteq [send : StepIds, dest : {Dest[r] : r \in Runs}, runs : SUBSET Runs]
  /\ faults \in Nat

-----------------------------------------------------------------------------
(* What the executor promises *)

\* Runs whose branches still count: nothing ended them from outside.
Sound(r) == r \notin revoked \cup expired

\* The nodes from which a run can still reach a node.
Upstream(n) ==
  LET up[m \in Nodes] == {m} \cup UNION {up[e.from] : e \in In(m)} IN up[n]

\* The activation may still send the run on: it is not settled, and one that
\* collects holds the run in a batch that is open.
Goes(s, r) ==
  \/ steps[s].state \notin Terminal \cup {"aggregating"}
  \/ \E b \in DOMAIN batches : \E i \in DOMAIN batches[b].inputs :
       /\ batches[b].state = "open"
       /\ batches[b].inputs[i].step = s /\ r \in batches[b].inputs[i].runs

\* A branch that is queued, deferred, collecting or joining never counts as
\* absent: an edge is closed for a run only when no activation that could still
\* lead the run to it is unsettled (graph-join.js, propagateClosures).
AbsentMeansAbsent ==
  \A c \in closed : \A e \in Edges : \A s \in DOMAIN steps :
    /\ c[2] = e.id /\ Sound(c[1])
    /\ c[1] \in steps[s].runs /\ s.node \in Upstream(e.from)
    /\ Goes(s, c[1])
    => Decided(s.node, c[1])

\* A merge decides over everything that ever arrives for a run; nothing comes
\* after the decision and is silently dropped (graph-join-store.js).
MergeSawEverything ==
  \A d \in DOMAIN decisions :
    Sound(d[2]) => decisions[d].arrivals = Arrivals(d[2], d[1])

\* Whatever is retried or synchronized again, a run that was joined leaves
\* through a merge once (graph-join-store.js).
LeavesMergeOnce ==
  \A m \in Merges, r \in Runs : \A e \in Out(m) :
    Cardinality({d \in data : d[1] = r /\ d[2] = e.id}) <= 1

\* A run leaves each merge once, and a send node that is reached through a
\* merge alone notifies once.
OneNotification ==
  LET behind[n \in Nodes] ==
        \E e \in Edges : In(n) = {e} /\ (e.from \in Merges \/ behind[e.from])
  IN
  /\ LeavesMergeOnce
  /\ \A n \in Nodes, r \in Runs : behind[n] =>
       Cardinality({j \in jobs : j.send.node = n /\ r \in j.runs}) <= 1

\* Every unit that passed a limiting node was counted exactly once, in a window
\* that had room for it, however often its activation was leased.
GateHonest ==
  \A n \in Nodes, k \in Keys :
    LET total[w \in 0..MaxWindow] ==
          used[<<n, k, w>>] + IF w = 0 THEN 0 ELSE total[w - 1]
        passed == {d[3] : d \in {x \in data : \E e \in Out(n) : x[2] = e.id}}
    IN
    /\ \A w \in 0..MaxWindow : used[<<n, k, w>>] <= GateCount
    /\ Type[n] = "limit" =>
         total[MaxWindow] =
           Cardinality({u \in passed : \A r \in u.runs : KeyOf[n][r] = k})

\* An activation collects exactly as long as a batch that holds part of it is
\* open, and no run of it is held by two batches.
BatchBooks ==
  /\ \A s \in DOMAIN steps :
       steps[s].state = "aggregating" <=>
         \E b \in DOMAIN batches :
           /\ batches[b].state = "open"
           /\ \E i \in DOMAIN batches[b].inputs : batches[b].inputs[i].step = s
  /\ \A b, c \in DOMAIN batches : \A i \in DOMAIN batches[b].inputs :
     \A j \in DOMAIN batches[c].inputs :
       /\ batches[b].inputs[i].step = batches[c].inputs[j].step
       /\ batches[b].inputs[i].runs \cap batches[c].inputs[j].runs # {}
       => b = c /\ i = j

\* A run whose flag is not set has nothing to be synchronized: no edge to close
\* and no merge to decide.
SyncNotForgotten ==
  \A r \in Started \ needsSync :
    IF r \in revoked THEN Withdrawn({r}) = {}
    ELSE /\ \A id \in Closable(r) : <<r, id>> \in closed
         /\ Deciding([q \in {r} |-> Closable(q)]) = {}

\* "Its removed members are terminal for this activation and must not keep a
\* merge open merely because they remain in the original snapshot"
\* (graph-join-store.js): a run whose last way to a merge has ended, and that
\* nobody is told to synchronize, has no activation left joining there.
MergeNotLeftOpen ==
  \A r \in Started \ needsSync :
    LET mine == {s \in DOMAIN steps : r \in steps[s].runs} IN
    (\A s \in mine : steps[s].state \in Terminal \cup {"joining"})
      => \A s \in mine : steps[s].state # "joining"

-----------------------------------------------------------------------------
(* Progress.  Workers keep ticking, every tick ends, a lease that nobody     *)
(* holds runs out and time goes on.                                          *)

Fairness ==
  /\ WF_vars(\E s \in DOMAIN steps : Claim(s))
  /\ WF_vars(\E s \in DOMAIN steps : LeaseEnds(s))
  /\ WF_vars(\E f \in flights : Conclude(f))
  /\ WF_vars(\E b \in DOMAIN batches : CloseBatch(b))
  /\ WF_vars(Resync)
  /\ WF_vars(\E S \in syncs : Synchronize(S))
  /\ WF_vars(Tick)
FairSpec == Spec /\ Fairness

\* Nothing is left to do for the run.
Settled(r) ==
  /\ r \notin needsSync
  /\ \A s \in DOMAIN steps : r \in steps[s].runs => steps[s].state \in Terminal

\* Work that only a later window than the last could take up.
Beyond ==
  \/ \E s \in DOMAIN steps : steps[s].state = "pending" /\ steps[s].wake > MaxWindow
  \/ \E b \in DOMAIN batches : batches[b].state = "open" /\ b.window = MaxWindow

\* Every run that enters the flow is settled: all its activations end and all
\* its merges are decided.
FlowSettles == \A r \in Runs : (r \in Started) ~> (Settled(r) \/ Beyond)
=============================================================================
