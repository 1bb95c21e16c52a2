------------------------------- MODULE XPush -------------------------------
(***************************************************************************)
(* The reception of X notifications for one subscription: x-push-gateway   *)
(* .js (the connection), x-push-store.js (receiver lease and inbox),       *)
(* x-push-runtime.js (the drain) and x-event-router.js, up to the          *)
(* hand-over to each monitor in queue.js (routeX).                         *)
(*                                                                         *)
(* The push service repeats a notification until it is acknowledged.  A    *)
(* process stores it under a lease of the subscription, acknowledges it,   *)
(* and hands the stored receipts to the monitors bound to the subscription:*)
(* at once to those in realtime, in windows of the plan's interval to all. *)
(* Each transaction is an action; between two anything may happen.  The    *)
(* lease fences every transaction on receiver and inbox, but not the       *)
(* hand-over itself, which is unique by monitor and post.                  *)
(***************************************************************************)
EXTENDS Naturals, FiniteSets, Sequences

CONSTANTS
  Messages,     \* versions the push service has for the subscription
  Posts,        \* posts that notifications are about
  PostOf,       \* [Messages -> Posts]
  Monitors,     \* monitors of the owner that are bound to the subscription
  Watches,      \* [Monitors -> SUBSET Posts]: accounts a monitor is about
  InitialMode,  \* [Monitors -> Modes]
  Processes,    \* processes that run the receiver
  Understands,  \* [Processes -> SUBSET Messages]: formats a release knows
  PageSize,     \* receipts that listInbox returns at once
  MaxDisturbances  \* bound on crashes, failures, leases that end too early, and
                   \* on what the owner and the plan change

Modes == {"realtime", "batch"}
\* waiting: the rule is paused; barred: excluded by plan or rollout; paused: disabled
\* by the owner, or suspended.
Enabled == {"active", "waiting", "barred"}
Present == Enabled \cup {"paused"}

ASSUME PushAssumption ==
  /\ PostOf \in [Messages -> Posts] /\ Watches \in [Monitors -> SUBSET Posts]
  /\ InitialMode \in [Monitors -> Modes]
  /\ Understands \in [Processes -> SUBSET Messages]
  /\ PageSize \in Nat \ {0} /\ MaxDisturbances \in Nat

VARIABLES
  service,   \* notifications not acknowledged yet
  inbox,     \* rows of automation_x_push_inbox in the order of their ids
  receiver,  \* the row of automation_x_push_receivers
  due,       \* whether the interval since the last window is over
  monitor,   \* what the router and the hand-over find of each monitor
  mode,      \* effective processing mode of each monitor
  runs,      \* automation_runs of X posts, by their dedupe key
  refused,   \* history: hand-overs that found the monitor paused or barred
  session,   \* the connection of each process
  drain,     \* the drain of each process
  memory,    \* what a process remembers between two drains
  issued,    \* number of leases issued so far
  disturbed  \* number of disturbances so far

rows == <<inbox, receiver, due>>
owner == <<monitor, mode>>
queue == <<runs, refused>>
counters == <<issued, disturbed>>
vars == <<service, rows, owner, queue, session, drain, memory, counters>>

NoSession == [at |-> "off", token |-> 0, row |-> 0, msg |-> {}]
Idle == [at |-> "idle", token |-> 0, tick |-> FALSE, for |-> "none", page |-> {},
         full |-> FALSE, hints |-> {}, todo |-> {}, later |-> FALSE, found |-> FALSE]
Blank == [hints |-> {}, again |-> FALSE, scan |-> 0, seen |-> 0]

Init ==
  /\ service = Messages /\ inbox = <<>>
  /\ receiver = [token |-> 0, live |-> FALSE, open |-> FALSE, window |-> 0, cursor |-> 0]
  /\ due = TRUE
  /\ monitor = [m \in Monitors |-> "active"] /\ mode = InitialMode
  /\ runs = {} /\ refused = {}
  /\ session = [p \in Processes |-> NoSession]
  /\ drain = [p \in Processes |-> Idle]
  /\ memory = [p \in Processes |-> Blank]
  /\ issued = 0 /\ disturbed = 0

Fence(t) == receiver.live /\ receiver.token = t
Rows == DOMAIN inbox
Received(i) == inbox[i].status = "received"
Least(S) == CHOOSE i \in S : \A j \in S : i <= j

\* A bound monitor that the notification is about (boundTargets, matchesXMonitor).
Concerns(m, x) == monitor[m] \in Present /\ PostOf[x] \in Watches[m]

Disturbance == disturbed < MaxDisturbances /\ disturbed' = disturbed + 1

-----------------------------------------------------------------------------
(* The connection (gateway.run)                                            *)

Connected(p) == session[p].at \in {"open", "stored"}

\* claim, and the greeting of the push service; candidates have an enabled monitor.
Connect(p) ==
  /\ session[p].at = "off" /\ ~receiver.live /\ \E m \in Monitors : monitor[m] \in Enabled
  /\ issued' = issued + 1
  /\ receiver' = [receiver EXCEPT !.token = issued + 1, !.live = TRUE]
  /\ session' = [session EXCEPT ![p] = [NoSession EXCEPT !.at = "open", !.token = issued + 1]]
  /\ UNCHANGED <<service, inbox, due, owner, queue, drain, memory, disturbed>>

\* A notification arrives and is stored (recordFrame); a version that is there
\* already is not stored again.
Receive(p, x) ==
  LET known == \E i \in Rows : inbox[i].msg = x
      row == [msg |-> x, status |-> "received", owed |-> {m \in Monitors : Concerns(m, x)}]
  IN
  /\ session[p].at = "open" /\ x \in service /\ Fence(session[p].token)
  /\ inbox' = IF known THEN inbox ELSE Append(inbox, row)
  /\ session' = [session EXCEPT ![p] =
       [@ EXCEPT !.at = "stored", !.row = IF known THEN 0 ELSE Len(inbox) + 1, !.msg = {x}]]
  /\ UNCHANGED <<service, receiver, due, owner, queue, drain, memory, counters>>

\* drain: a second call while one is in progress only leaves its hint.
Starting(p, tick) ==
  [Idle EXCEPT !.at = "recover", !.token = session[p].token, !.tick = tick]

\* The lease is asserted once more before the acknowledgement; a new receipt
\* wakes the drain (onReceived).
Acknowledge(p) ==
  LET s == session[p] IN
  /\ s.at = "stored" /\ Fence(s.token)
  /\ service' = service \ s.msg
  /\ session' = [session EXCEPT ![p] = [NoSession EXCEPT !.at = "open", !.token = s.token]]
  /\ IF s.row = 0 THEN UNCHANGED <<memory, drain>>
     ELSE /\ memory' = [memory EXCEPT ![p].again = TRUE, ![p].hints = @ \cup {s.row}]
          /\ drain' = IF drain[p].at = "idle"
                        THEN [drain EXCEPT ![p] = Starting(p, FALSE)] ELSE drain
  /\ UNCHANGED <<rows, owner, queue, counters>>

\* What the end of a session leaves of the row: release is fenced.
Released(t) ==
  IF Fence(t) THEN [receiver EXCEPT !.token = 0, !.live = FALSE] ELSE receiver

\* The connection fails, or its watchdog or renewal finds that the lease is lost.
\* How long the process waits before it claims again is left open.
Disconnect(p) ==
  /\ Connected(p)
  /\ IF Fence(session[p].token) THEN Disturbance ELSE UNCHANGED disturbed
  /\ receiver' = Released(session[p].token)
  /\ session' = [session EXCEPT ![p] = NoSession]
  /\ UNCHANGED <<service, inbox, due, owner, queue, drain, memory, issued>>

\* reconcileSessions closes a connection that no enabled monitor needs.
Reconcile(p) ==
  /\ Connected(p) /\ \A m \in Monitors : monitor[m] \notin Enabled
  /\ receiver' = Released(session[p].token)
  /\ session' = [session EXCEPT ![p] = NoSession]
  /\ UNCHANGED <<service, inbox, due, owner, queue, drain, memory, counters>>

-----------------------------------------------------------------------------
(* The drain                                                               *)

Fenced(p) == Fence(drain[p].token)
Goes(p, d) == drain' = [drain EXCEPT ![p] = d]
HasTargets(k) == \E m \in Monitors : monitor[m] \in Enabled /\ mode[m] = k

\* The drain ends, or makes another realtime pass for receipts that came meanwhile.
Over(p) == IF memory[p].again
           THEN [Idle EXCEPT !.at = "pass", !.token = drain[p].token] ELSE Idle

Tick(p) ==
  /\ Connected(p) /\ drain[p].at = "idle" /\ Goes(p, Starting(p, TRUE))
  /\ UNCHANGED <<service, rows, owner, queue, session, memory, counters>>

\* Receipts of formats that an earlier release did not understand.
PutBack(p) == {i \in Rows : inbox[i].status = "unsupported" /\ i > memory[p].seen}

\* recoverQuarantined tries each of them once in the life of a process.
Recover(p) ==
  LET i == Least(PutBack(p)) IN
  /\ drain[p].at = "recover" /\ Fenced(p) /\ PutBack(p) # {}
  /\ inbox' = IF inbox[i].msg \in Understands[p]
                THEN [inbox EXCEPT ![i].status = "received"] ELSE inbox
  /\ memory' = [memory EXCEPT ![p].seen = i]
  /\ UNCHANGED <<service, receiver, due, owner, queue, session, drain, counters>>

\* realtimePass takes the hints that were left, if a monitor wants them.
Pass(p) ==
  LET hints == memory[p].hints IN
  /\ drain[p].at = "pass" \/ (drain[p].at = "recover" /\ Fenced(p) /\ PutBack(p) = {})
  /\ memory' = [memory EXCEPT ![p].again = FALSE, ![p].hints = {}]
  /\ Goes(p, IF HasTargets("realtime")
               THEN [drain[p] EXCEPT !.at = "page", !.for = "hint", !.hints = hints,
                                     !.page = hints]
               ELSE [drain[p] EXCEPT !.at = "page"])
  /\ UNCHANGED <<service, rows, owner, queue, session, counters>>

\* listInbox
Page(cursor) ==
  LET waiting == {i \in Rows : Received(i) /\ i > cursor} IN
  {i \in waiting : Cardinality({j \in waiting : j <= i}) <= PageSize}
Reading(d, kind, page) ==
  [d EXCEPT !.for = kind, !.page = page, !.full = Cardinality(page) = PageSize]
PageDone(p) == drain[p].at = "page" /\ drain[p].page = {}

\* After the hints comes the scan, page by page.
Scan(p) ==
  LET d == drain[p] IN
  /\ PageDone(p) /\ (d.for = "hint" \/ (d.for = "scan" /\ d.full))
  /\ Goes(p, Reading(d, "scan", Page(memory[p].scan)))
  /\ UNCHANGED <<service, rows, owner, queue, session, memory, counters>>

\* The scan wraps.  Then, in the drain of a tick and when a monitor is in batch,
\* beginProcessing: an open window goes on, a new one begins when the interval
\* is over.
Window(p) ==
  LET d == [drain[p] EXCEPT !.hints = {}]
      began == IF receiver.open THEN receiver
               ELSE [receiver EXCEPT !.open = TRUE, !.window = Len(inbox), !.cursor = 0]
  IN
  /\ PageDone(p) /\ (d.for = "none" \/ (d.for = "scan" /\ ~d.full))
  /\ memory' = IF d.for = "scan" THEN [memory EXCEPT ![p].scan = 0] ELSE memory
  /\ IF d.tick /\ HasTargets("batch")
       THEN /\ Fenced(p)
            /\ IF receiver.open \/ due
                 THEN receiver' = began /\ Goes(p, Reading(d, "batch", Page(began.cursor)))
                 ELSE UNCHANGED receiver /\ Goes(p, Over(p))
       ELSE UNCHANGED receiver /\ Goes(p, Over(p))
  /\ UNCHANGED <<service, inbox, due, owner, queue, session, counters>>

\* A full page of the window goes on with the next tick; after its last page the
\* window is complete, which sets its cursor back (completeProcessing).
Complete(p) ==
  LET d == drain[p] IN
  /\ PageDone(p) /\ d.for = "batch"
  /\ IF d.full THEN UNCHANGED <<receiver, due>>
     ELSE /\ Fenced(p) /\ due' = FALSE
          /\ receiver' = [receiver EXCEPT !.open = FALSE, !.window = 0, !.cursor = 0]
  /\ Goes(p, Over(p))
  /\ UNCHANGED <<service, inbox, owner, queue, session, memory, counters>>

\* The lowest row of a page, and the page without it.
Row(p) == Least(drain[p].page)
Without(d, i) == [d EXCEPT !.page = @ \ {i}]

\* Fault: a window that has reached its end still counts as unfinished.
PastWindowGoesOn(d) == [d EXCEPT !.page = {}]

\* reachedCutoff: receipts behind the window are left to the next one.
PastWindow(d) == [d EXCEPT !.page = {}, !.full = FALSE]

\* Hints that were dealt with in the meantime are passed over.
Skip(p) ==
  LET d == drain[p] IN
  /\ d.at = "page" /\ d.page # {}
  /\ \/ d.for = "batch" /\ Row(p) > receiver.window
        /\ Goes(p, PastWindow(d))
     \/ d.for = "hint" /\ ~Received(Row(p)) /\ Goes(p, Without(d, Row(p)))
  /\ UNCHANGED <<service, rows, owner, queue, session, memory, counters>>

Taken(p) ==
  LET d == drain[p] IN
  /\ d.at = "page" /\ d.page # {} /\ Fenced(p)
  /\ d.for = "batch" => Row(p) <= receiver.window
  /\ d.for = "hint" => Received(Row(p))

\* The row is dealt with.  The scan remembers it at once; the cursor of the
\* window takes a transaction of its own.
Dealt(p) ==
  LET d == [drain[p] EXCEPT !.todo = {}, !.later = FALSE, !.found = FALSE] IN
  /\ Goes(p, IF d.for = "batch" THEN [d EXCEPT !.at = "step"]
                                ELSE [Without(d, Row(p)) EXCEPT !.at = "page"])
  /\ memory' = IF d.for = "scan" THEN [memory EXCEPT ![p].scan = Row(p)] ELSE memory
Marked(i, status) ==
  inbox' = IF Received(i) THEN [inbox EXCEPT ![i].status = status] ELSE inbox

\* A format this release does not know is put aside (markUnsupported).
PutAside(p) ==
  /\ Taken(p) /\ inbox[Row(p)].msg \notin Understands[p]
  /\ Marked(Row(p), "unsupported") /\ Dealt(p)
  /\ UNCHANGED <<service, receiver, due, owner, queue, session, counters>>

\* Fault: a monitor that is paused does not keep a receipt open.
LeftOver(found, todo) == found # {} /\ todo = {}

\* A monitor that is paused keeps the receipt open for it (pending).
Left(found, todo) == todo # found

\* routeReceived reads the monitors, outside of any transaction.
Open(p) ==
  LET found == {m \in Monitors : Concerns(m, inbox[Row(p)].msg)}
      todo == {m \in found : monitor[m] \in Enabled}
  IN
  /\ Taken(p) /\ inbox[Row(p)].msg \in Understands[p]
  /\ Goes(p, [drain[p] EXCEPT !.at = "hand", !.todo = todo, !.later = Left(found, todo),
                              !.found = found # {}])
  /\ UNCHANGED <<service, rows, owner, queue, session, memory, counters>>

\* What the router and routeX decide on a monitor, from what they find.
Verdict(i, m, kind) ==
  IF inbox[i].status \notin {"received", "routed"} \/ monitor[m] = "deleted" THEN "cancelled"
  ELSE IF kind # "batch" /\ mode[m] # "realtime" THEN "pending"
  ELSE IF monitor[m] \in {"paused", "barred"} THEN "refused"
  ELSE IF monitor[m] = "waiting" THEN "pending" ELSE "routed"

\* routeX: one transaction, not fenced by the lease.  A rule that is edited
\* between its two reads makes it wait.
HandOver(p, m) ==
  LET d == drain[p]
      i == Row(p)
      verdict == Verdict(i, m, d.for)
  IN
  /\ d.at = "hand" /\ m \in d.todo
  /\ \E v \in {verdict, "pending"} :
       /\ IF v = verdict THEN UNCHANGED disturbed ELSE Disturbance
       /\ Goes(p, [d EXCEPT !.todo = @ \ {m}, !.later = @ \/ v = "pending"])
       /\ runs' = IF v = "routed" THEN runs \cup {<<m, PostOf[inbox[i].msg]>>} ELSE runs
       /\ refused' = IF v = "refused" THEN refused \cup {<<m, i>>} ELSE refused
  /\ UNCHANGED <<service, rows, owner, session, memory, issued>>

\* markRouted or markUnmatched, unless the receipt stays as it is.
Close(p) ==
  LET d == drain[p] IN
  /\ d.at = "hand" /\ d.todo = {}
  /\ IF d.later THEN UNCHANGED inbox
     ELSE Fenced(p) /\ Marked(Row(p), IF d.found THEN "routed" ELSE "unmatched")
  /\ Dealt(p)
  /\ UNCHANGED <<service, receiver, due, owner, queue, session, counters>>

\* advanceProcessing: the durable cursor of the window moves on.
Advance(p) ==
  /\ drain[p].at = "step" /\ Fenced(p)
  /\ receiver' = [receiver EXCEPT !.cursor = Row(p)]
  /\ Goes(p, [Without(drain[p], Row(p)) EXCEPT !.at = "page"])
  /\ UNCHANGED <<service, inbox, due, owner, queue, session, memory, counters>>

\* A step finds the lease lost, or fails: the receipts stay as they are, and
\* the hints of a realtime pass are left for the next drain, unless its session
\* was closed, which ends it quietly (halted).
Break(p) ==
  LET d == drain[p] IN
  /\ d.at # "idle"
  /\ IF Fenced(p) \/ (d.at = "hand" /\ (d.todo # {} \/ d.later))
       THEN Disturbance ELSE UNCHANGED disturbed
  /\ Goes(p, Idle)
  /\ \/ memory' = memory /\ (d.hints = {} \/ session[p].token # d.token)
     \/ /\ d.hints # {}
        /\ memory' = [memory EXCEPT ![p].hints = @ \cup d.hints, ![p].again = TRUE]
  /\ UNCHANGED <<service, rows, owner, queue, session, issued>>

-----------------------------------------------------------------------------
(* The environment                                                         *)

Crash(p) ==
  /\ Disturbance /\ session[p].at # "off"
  /\ session' = [session EXCEPT ![p] = NoSession]
  /\ drain' = [drain EXCEPT ![p] = Idle]
  /\ memory' = [memory EXCEPT ![p] = Blank]
  /\ UNCHANGED <<service, rows, owner, queue, issued>>

\* A lease that nobody renews runs out; one that is renewed too late is a disturbance.
LeaseEnds ==
  /\ receiver.live /\ receiver' = [receiver EXCEPT !.live = FALSE]
  /\ IF \E p \in Processes : Connected(p) /\ Fence(session[p].token)
       THEN Disturbance ELSE UNCHANGED disturbed
  /\ UNCHANGED <<service, inbox, due, owner, queue, session, drain, memory, issued>>

IntervalPasses ==
  /\ ~due /\ due' = TRUE
  /\ UNCHANGED <<service, inbox, receiver, owner, queue, session, drain, memory, counters>>

\* The owner pauses, resumes and deletes monitors; the rule of one is paused; the
\* plan has fewer slots.
Becomes(m, s) ==
  /\ Disturbance /\ monitor[m] \notin {s, "deleted"}
  /\ monitor' = [monitor EXCEPT ![m] = s]
  /\ UNCHANGED <<service, rows, mode, queue, session, drain, memory, issued>>

\* reconcileRows: the plan has lapsed, and all monitors are suspended at once, which
\* also ends their realtime processing.
Suspend ==
  /\ Disturbance /\ \E m \in Monitors : monitor[m] \in Enabled
  /\ monitor' = [m \in Monitors |-> IF monitor[m] \in Enabled THEN "paused" ELSE monitor[m]]
  /\ mode' = [m \in Monitors |-> IF monitor[m] \in Enabled THEN "batch" ELSE mode[m]]
  /\ UNCHANGED <<service, rows, queue, session, drain, memory, issued>>

\* The owner or the plan changes the effective mode of a monitor.
Switch(m, k) ==
  /\ Disturbance /\ monitor[m] \in Present /\ mode[m] # k /\ mode' = [mode EXCEPT ![m] = k]
  /\ UNCHANGED <<service, rows, monitor, queue, session, drain, memory, issued>>

-----------------------------------------------------------------------------
SessionStep(p) ==
  \/ Connect(p) \/ Acknowledge(p) \/ Disconnect(p) \/ Reconcile(p)
  \/ \E x \in Messages : Receive(p, x)
DrainStep(p) ==
  \/ Tick(p) \/ Recover(p) \/ Pass(p) \/ Scan(p) \/ Window(p) \/ Complete(p) \/ Skip(p)
  \/ PutAside(p) \/ Open(p) \/ (\E m \in Monitors : HandOver(p, m)) \/ Close(p)
  \/ Advance(p) \/ Break(p)
Next ==
  \/ \E p \in Processes : SessionStep(p) \/ DrainStep(p) \/ Crash(p)
  \/ LeaseEnds \/ IntervalPasses \/ Suspend
  \/ \E m \in Monitors : \/ \E s \in Present \cup {"deleted"} : Becomes(m, s)
                         \/ \E k \in Modes : Switch(m, k)

Spec == Init /\ [][Next]_vars

\* Processes go on with what they can do, leases and intervals end; nothing has
\* to fail and nobody has to change anything.
Fairness ==
  /\ \A p \in Processes :
       /\ WF_vars(disturbed' = disturbed /\ SessionStep(p))
       /\ WF_vars(disturbed' = disturbed /\ DrainStep(p))
  /\ WF_vars(disturbed' = disturbed /\ LeaseEnds) /\ WF_vars(IntervalPasses)
FairSpec == Spec /\ Fairness

-----------------------------------------------------------------------------
Statuses == {"received", "unsupported", "unmatched", "routed"}
RowIds == Nat \ {0}
Receipts == [msg : Messages, status : Statuses, owed : SUBSET Monitors]
Receivers == [token : Nat, live : BOOLEAN, open : BOOLEAN, window : Nat, cursor : Nat]
Sessions == [at : {"off", "open", "stored"}, token : Nat, row : Nat, msg : SUBSET Messages]
Drains == [at : {"idle", "recover", "pass", "page", "hand", "step"}, token : Nat,
           tick : BOOLEAN, for : {"none", "hint", "scan", "batch"}, page : SUBSET RowIds,
           full : BOOLEAN, hints : SUBSET RowIds, todo : SUBSET Monitors,
           later : BOOLEAN, found : BOOLEAN]
Memories == [hints : SUBSET RowIds, again : BOOLEAN, scan : Nat, seen : Nat]

\* The rows and what the processes keep have their types.
TypeOK ==
  /\ service \subseteq Messages
  /\ inbox \in Seq(Receipts) /\ receiver \in Receivers
  /\ due \in BOOLEAN
  /\ monitor \in [Monitors -> Present \cup {"deleted"}]
  /\ mode \in [Monitors -> Modes]
  /\ runs \subseteq Monitors \X Posts /\ refused \subseteq Monitors \X RowIds
  /\ session \in [Processes -> Sessions] /\ drain \in [Processes -> Drains]
  /\ memory \in [Processes -> Memories]
  /\ issued \in Nat /\ disturbed \in 0..MaxDisturbances

\* A notification that was acknowledged is stored.  A receipt is closed only
\* when every monitor that was bound to the subscription as it arrived has got
\* its post, is gone, or was refused at the hand-over: neither the mode of the
\* pass, nor a pause, nor a process that lost its lease closes it early.
Served(m, i) ==
  <<m, PostOf[inbox[i].msg]>> \in runs \/ <<m, i>> \in refused \/ monitor[m] = "deleted"
AckedIsStored == \A x \in Messages \ service : \E i \in Rows : inbox[i].msg = x
ClosedIsServed ==
  \A i \in Rows : inbox[i].status \in {"routed", "unmatched"} =>
    \A m \in inbox[i].owed : Served(m, i)
NothingLost == AckedIsStored /\ ClosedIsServed

\* Each receipt reaches the monitors that wait for it, whatever other receipts
\* and other monitors stay pending: again and again no active monitor waits for
\* a receipt (one that the process at work does not know is put aside).
Awaited ==
  {i \in Rows : Received(i) /\ \E m \in inbox[i].owed : monitor[m] = "active" /\ ~Served(m, i)}
BacklogClears == []<>(Awaited = {})
============================================================================
