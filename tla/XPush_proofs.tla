---------------------------- MODULE XPush_proofs ----------------------------
(***************************************************************************)
(* Proofs about XPush for any sets of notifications, monitors and          *)
(* processes, any page size and any number of disturbances.                *)
(***************************************************************************)
EXTENDS XPush, SequenceTheorems, WellFoundedInduction, TLAPS

-----------------------------------------------------------------------------
(* The inductive invariant, in parts.                                      *)

\* A lease belongs to one process, and the receiver's is one that was issued.
OwnTokens ==
  /\ receiver.token <= issued /\ (receiver.live => receiver.token # 0)
  /\ \A p \in Processes : session[p].token <= issued /\ drain[p].token <= issued
  /\ \A p, q \in Processes : p # q =>
       /\ session[p].token # 0 => session[p].token # session[q].token
       /\ session[p].token # 0 => session[p].token # drain[q].token
       /\ drain[p].token # 0 => drain[p].token # drain[q].token

\* What processes remember of receipts is about receipts that are there.
KnownRows ==
  \A p \in Processes :
    /\ drain[p].page \subseteq Rows /\ drain[p].hints \subseteq Rows
    /\ memory[p].hints \subseteq Rows /\ session[p].row \in Rows \cup {0}
    /\ drain[p].at \in {"hand", "step"} => drain[p].page # {}
    /\ drain[p].for = "none" => drain[p].page = {}

\* A notification that a process is about to acknowledge is stored, and a receipt
\* is owed to monitors that watch its post.
StoredRows ==
  /\ \A p \in Processes : session[p].at = "stored" =>
       \A x \in session[p].msg : \E i \in Rows : inbox[i].msg = x
  /\ \A i \in Rows : \A m \in inbox[i].owed : PostOf[inbox[i].msg] \in Watches[m]

\* Under the lease nobody else closes the receipts of a page.
PageIsOpen ==
  \A p \in Processes : Fenced(p) /\ drain[p].for \in {"scan", "batch"} =>
    \A i \in drain[p].page : Received(i) \/ (drain[p].at = "step" /\ i = Row(p))

\* A process that hands a receipt over under its lease has dealt with every
\* monitor it is owed to, has it still to do, or keeps the receipt open.
HandIsTrue ==
  \A p \in Processes : Fenced(p) /\ drain[p].at = "hand" =>
    /\ Received(Row(p))
    /\ \A m \in inbox[Row(p)].owed : Served(m, Row(p)) \/ m \in drain[p].todo \/ drain[p].later

PushInv ==
  /\ TypeOK /\ OwnTokens /\ KnownRows /\ StoredRows /\ PageIsOpen /\ HandIsTrue
  /\ AckedIsStored /\ ClosedIsServed

-----------------------------------------------------------------------------
(* Rows and pages.                                                         *)

\* A set of row numbers that is not empty has a least member.
LEMMA LeastIsIn ==
  ASSUME NEW S, S \subseteq Nat, S # {}
  PROVE  Least(S) \in S /\ \A j \in S : Least(S) <= j
<1>1. PICK i \in S : \A j \in S : <<j, i>> \notin OpToRel(<, Nat)
  BY NatLessThanWellFounded, WFMin, Zenon
<1>2. \A j \in S : i <= j
  <2> SUFFICES ASSUME NEW j \in S PROVE i <= j
    OBVIOUS
  <2>1. i \in Nat /\ j \in Nat
    OBVIOUS
  <2>2. ~(j < i)
    BY <1>1, <2>1 DEF OpToRel
  <2> QED BY <2>1, <2>2
<1> QED BY <1>2 DEF Least

\* The rows are numbered from 1, and each is well typed.
LEMMA RowsAre ==
  ASSUME TypeOK
  PROVE  /\ Rows = 1..Len(inbox) /\ Len(inbox) \in Nat /\ Rows \subseteq RowIds
         /\ \A i \in Rows : inbox[i] \in Receipts
<1>1. inbox \in Seq(Receipts)
  BY DEF TypeOK
<1>2. Len(inbox) \in Nat /\ inbox \in [1..Len(inbox) -> Receipts]
  BY <1>1
<1> QED BY <1>2 DEF Rows, RowIds

\* The row that a process deals with is there.
LEMMA RowIsThere ==
  ASSUME TypeOK, KnownRows, NEW p \in Processes, drain[p].page # {}
  PROVE  Row(p) \in drain[p].page /\ Row(p) \in Rows /\ Row(p) \in RowIds
<1>1. drain[p].page \subseteq Rows /\ Rows \subseteq RowIds
  BY RowsAre DEF KnownRows
<1>2. drain[p].page \subseteq Nat
  BY <1>1 DEF RowIds
<1> QED BY <1>1, <1>2, LeastIsIn DEF Row

\* A new status changes nothing else of the inbox.
LEMMA StatusChange ==
  ASSUME TypeOK, NEW k \in Rows, NEW status \in Statuses,
         inbox' = [inbox EXCEPT ![k].status = status]
  PROVE  /\ inbox' \in Seq(Receipts) /\ Rows' = Rows
         /\ \A i \in Rows : /\ inbox'[i].msg = inbox[i].msg /\ inbox'[i].owed = inbox[i].owed
                            /\ inbox'[i].status = IF i = k THEN status ELSE inbox[i].status
<1>1. inbox \in [1..Len(inbox) -> Receipts] /\ Len(inbox) \in Nat /\ Rows = 1..Len(inbox)
  <2>1. inbox \in Seq(Receipts)
    BY DEF TypeOK
  <2> QED BY <2>1, RowsAre
<1>2. inbox' \in [1..Len(inbox) -> Receipts]
  BY <1>1 DEF Receipts
<1>3. inbox' \in Seq(Receipts)
  BY <1>1, <1>2
<1>4. Rows' = Rows
  BY <1>1, <1>2 DEF Rows
<1>5. \A i \in Rows : /\ inbox'[i].msg = inbox[i].msg /\ inbox'[i].owed = inbox[i].owed
                      /\ inbox'[i].status = IF i = k THEN status ELSE inbox[i].status
  BY <1>1 DEF Receipts
<1> QED BY <1>3, <1>4, <1>5

\* A new row is added behind all others.
LEMMA RowAdded ==
  ASSUME TypeOK, NEW row \in Receipts, inbox' = Append(inbox, row)
  PROVE  /\ inbox' \in Seq(Receipts) /\ Len(inbox) + 1 \in RowIds
         /\ Rows' = Rows \cup {Len(inbox) + 1} /\ Len(inbox) + 1 \notin Rows
         /\ inbox'[Len(inbox) + 1] = row /\ \A i \in Rows : inbox'[i] = inbox[i]
<1>1. inbox \in Seq(Receipts) /\ Rows = 1..Len(inbox) /\ Len(inbox) \in Nat
  BY RowsAre DEF TypeOK, Receipts
<1>2. /\ inbox' \in Seq(Receipts) /\ Len(inbox') = Len(inbox) + 1
      /\ \A i \in 1..Len(inbox) : inbox'[i] = inbox[i]
      /\ inbox'[Len(inbox) + 1] = row
  BY <1>1, AppendProperties
<1>3. Rows' = 1..(Len(inbox) + 1)
  BY <1>2 DEF Rows
<1> QED BY <1>1, <1>2, <1>3 DEF RowIds

-----------------------------------------------------------------------------
(* Drains.                                                                 *)

\* What a step of its drain makes of what a process remembers: it keeps to the
\* rows that are there, and to leases that were its own.
DrainMoves(p) ==
  /\ drain' = [drain EXCEPT ![p] = drain'[p]] /\ drain'[p] \in Drains
  /\ memory' = [memory EXCEPT ![p] = memory'[p]] /\ memory'[p] \in Memories
  /\ drain'[p].token \in {0, drain[p].token, session[p].token}
  /\ drain'[p].page \subseteq Rows /\ drain'[p].hints \subseteq Rows
  /\ memory'[p].hints \subseteq Rows
  /\ drain'[p].at \in {"hand", "step"} => drain'[p].page # {}
  /\ drain'[p].for = "none" => drain'[p].page = {}
  /\ drain'[p].page # {} => drain'[p].token = drain[p].token

\* What holds of the drain and the memory of a process before a step.
LEMMA DrainIs ==
  ASSUME TypeOK, KnownRows, NEW p \in Processes
  PROVE  /\ drain[p] \in Drains /\ memory[p] \in Memories /\ session[p] \in Sessions
         /\ drain \in [Processes -> Drains] /\ memory \in [Processes -> Memories]
         /\ drain[p].page \subseteq Rows /\ drain[p].hints \subseteq Rows
         /\ memory[p].hints \subseteq Rows /\ Rows \subseteq RowIds
         /\ drain[p].at \in {"hand", "step"} => drain[p].page # {}
         /\ drain[p].for = "none" => drain[p].page = {}
         /\ drain[p].page # {} => Row(p) \in drain[p].page /\ Row(p) \in RowIds
<1>1. Rows \subseteq RowIds
  BY RowsAre
<1>2. drain[p].page # {} => Row(p) \in drain[p].page /\ Row(p) \in RowIds
  BY RowIsThere
<1>3. /\ drain \in [Processes -> Drains] /\ memory \in [Processes -> Memories]
      /\ session \in [Processes -> Sessions]
  BY DEF TypeOK
<1> QED BY <1>1, <1>2, <1>3 DEF KnownRows

\* A drain that is idle, or starts, remembers nothing yet.
LEMMA IdleIs ==
  ASSUME TypeOK, NEW p \in Processes, NEW tick \in BOOLEAN
  PROVE  /\ Idle \in Drains /\ Idle.token = 0 /\ Idle.page = {} /\ Idle.hints = {}
         /\ Idle.at = "idle" /\ Idle.for = "none"
         /\ Starting(p, tick) \in Drains /\ Starting(p, tick).token = session[p].token
         /\ Starting(p, tick).page = {} /\ Starting(p, tick).hints = {}
         /\ Starting(p, tick).at = "recover" /\ Starting(p, tick).for = "none"
<1>1. session[p].token \in Nat
  BY DEF TypeOK, Sessions
<1> QED BY <1>1 DEF Idle, Drains, Starting

LEMMA OverIs ==
  ASSUME TypeOK, KnownRows, NEW p \in Processes
  PROVE  /\ Over(p) \in Drains /\ Over(p).token \in {0, drain[p].token}
         /\ Over(p).page = {} /\ Over(p).hints = {} /\ Over(p).at \in {"idle", "pass"}
         /\ Over(p).for = "none"
<1>1. drain[p].token \in Nat
  BY DrainIs DEF Drains
<1> QED BY <1>1 DEF Over, Idle, Drains

\* A page has rows that are there.
LEMMA PageIs ==
  ASSUME NEW cursor PROVE Page(cursor) \subseteq Rows /\ \A i \in Page(cursor) : Received(i)
BY DEF Page

LEMMA TickMoves ==
  ASSUME TypeOK, KnownRows, NEW p \in Processes, Tick(p)
  PROVE  DrainMoves(p) /\ drain'[p].page = {} /\ drain'[p].at # "hand"
<1>1. drain' = [drain EXCEPT ![p] = Starting(p, TRUE)] /\ memory' = memory
  BY DEF Tick, Goes
<1>2. drain'[p] = Starting(p, TRUE) /\ memory'[p] = memory[p]
  BY <1>1, DrainIs
<1> QED BY <1>1, <1>2, DrainIs, IdleIs DEF DrainMoves

LEMMA RecoverMoves ==
  ASSUME TypeOK, KnownRows, NEW p \in Processes, Recover(p)
  PROVE  DrainMoves(p) /\ Least(PutBack(p)) \in PutBack(p)
<1>1. PutBack(p) \subseteq Rows /\ PutBack(p) # {} /\ Rows \subseteq Nat
  BY RowsAre DEF PutBack, RowIds, Recover
<1>2. Least(PutBack(p)) \in PutBack(p) /\ Least(PutBack(p)) \in Nat
  BY <1>1, LeastIsIn
<1>3. drain' = drain /\ memory' = [memory EXCEPT ![p].seen = Least(PutBack(p))]
  BY DEF Recover
<1>4. memory'[p] = [memory[p] EXCEPT !.seen = Least(PutBack(p))] /\ drain'[p] = drain[p]
  BY <1>3, DrainIs
<1>5. memory'[p] \in Memories /\ memory'[p].hints = memory[p].hints
  BY <1>2, <1>4, DrainIs DEF Memories
<1>6. memory' = [memory EXCEPT ![p] = memory'[p]] /\ drain' = [drain EXCEPT ![p] = drain'[p]]
  BY <1>3, <1>4, DrainIs
<1> QED BY <1>2, <1>3, <1>4, <1>5, <1>6, DrainIs DEF DrainMoves

LEMMA PassMoves ==
  ASSUME TypeOK, KnownRows, NEW p \in Processes, Pass(p)
  PROVE  /\ DrainMoves(p) /\ drain'[p].at = "page" /\ drain[p].at \in {"recover", "pass"}
         /\ drain'[p].for # "hint" => drain'[p].page = drain[p].page /\ drain'[p].for = drain[p].for
<1>1. /\ memory' = [memory EXCEPT ![p].again = FALSE, ![p].hints = {}]
      /\ \/ drain' = [drain EXCEPT ![p] = [drain[p] EXCEPT !.at = "page", !.for = "hint",
                        !.hints = memory[p].hints, !.page = memory[p].hints]]
         \/ drain' = [drain EXCEPT ![p] = [drain[p] EXCEPT !.at = "page"]]
      /\ drain[p].at \in {"recover", "pass"}
  BY DEF Pass, Goes
<1>2. /\ memory'[p] \in Memories /\ memory'[p].hints = {}
      /\ memory' = [memory EXCEPT ![p] = memory'[p]]
  BY <1>1, DrainIs DEF Memories
<1>3. \/ drain'[p] = [drain[p] EXCEPT !.at = "page", !.for = "hint",
                        !.hints = memory[p].hints, !.page = memory[p].hints]
      \/ drain'[p] = [drain[p] EXCEPT !.at = "page"]
  BY <1>1, DrainIs
<1>4. drain' = [drain EXCEPT ![p] = drain'[p]]
  BY <1>1, DrainIs
<1>5. memory[p].hints \in SUBSET RowIds
  BY DrainIs
<1>6. drain'[p] \in Drains /\ drain'[p].token = drain[p].token /\ drain'[p].at = "page"
  BY <1>3, <1>5, DrainIs DEF Drains
<1>7. /\ drain'[p].page \subseteq Rows /\ drain'[p].hints \subseteq Rows
      /\ drain'[p].for = "none" => drain'[p].page = {}
      /\ drain'[p].for # "hint" => drain'[p].page = drain[p].page /\ drain'[p].for = drain[p].for
  BY <1>3, DrainIs DEF Drains
<1> QED BY <1>1, <1>2, <1>4, <1>6, <1>7, DrainIs DEF DrainMoves

\* The drain reads a page.
LEMMA ReadingIs ==
  ASSUME TypeOK, KnownRows, NEW p \in Processes, NEW d \in Drains, NEW cursor,
         NEW kind \in {"scan", "batch"}
  PROVE  LET r == Reading(d, kind, Page(cursor)) IN
         /\ r \in Drains /\ r.token = d.token /\ r.at = d.at /\ r.hints = d.hints
         /\ r.for = kind /\ r.page \subseteq Rows /\ \A i \in r.page : Received(i)
<1>1. Page(cursor) \in SUBSET RowIds
  BY PageIs, RowsAre
<1> QED BY <1>1, PageIs DEF Reading, Drains

LEMMA ScanMoves ==
  ASSUME TypeOK, KnownRows, NEW p \in Processes, Scan(p)
  PROVE  /\ DrainMoves(p) /\ \A i \in drain'[p].page : Received(i)
         /\ drain'[p].at = "page"
<1> DEFINE r == Reading(drain[p], "scan", Page(memory[p].scan))
<1>1. drain' = [drain EXCEPT ![p] = r] /\ memory' = memory /\ drain[p].at = "page"
  BY DEF Scan, Goes, PageDone
<1>2. drain'[p] = r /\ memory'[p] = memory[p]
  BY <1>1, DrainIs
<1>3. /\ r \in Drains /\ r.token = drain[p].token /\ r.at = drain[p].at /\ r.for = "scan"
      /\ r.hints = drain[p].hints /\ r.page \subseteq Rows /\ \A i \in r.page : Received(i)
  BY ReadingIs, DrainIs
<1> HIDE DEF r
<1> QED BY <1>1, <1>2, <1>3, DrainIs DEF DrainMoves

LEMMA WindowMoves ==
  ASSUME TypeOK, KnownRows, NEW p \in Processes, Window(p)
  PROVE  /\ DrainMoves(p) /\ \A i \in drain'[p].page : Received(i)
         /\ drain'[p].at # "hand" /\ receiver' \in Receivers
         /\ receiver'.token = receiver.token /\ receiver'.live = receiver.live
<1> DEFINE d == [drain[p] EXCEPT !.hints = {}]
           began == IF receiver.open THEN receiver
                    ELSE [receiver EXCEPT !.open = TRUE, !.window = Len(inbox), !.cursor = 0]
           r == Reading(d, "batch", Page(began.cursor))
<1>1. /\ memory' = memory \/ memory' = [memory EXCEPT ![p].scan = 0]
      /\ \/ drain' = [drain EXCEPT ![p] = r] /\ receiver' = began
         \/ drain' = [drain EXCEPT ![p] = Over(p)] /\ receiver' = receiver
      /\ drain[p].at = "page"
  BY DEF Window, Goes, PageDone
<1>2. /\ memory'[p] \in Memories /\ memory'[p].hints = memory[p].hints
      /\ memory' = [memory EXCEPT ![p] = memory'[p]]
  BY <1>1, DrainIs DEF Memories
<1>3. drain' = [drain EXCEPT ![p] = drain'[p]] /\ (drain'[p] = r \/ drain'[p] = Over(p))
  BY <1>1, DrainIs
<1>4. d \in Drains /\ d.token = drain[p].token /\ d.hints = {} /\ d.at = drain[p].at
  BY DrainIs DEF Drains
<1>5. /\ r \in Drains /\ r.token = drain[p].token /\ r.at = drain[p].at /\ r.for = "batch"
      /\ r.hints = {} /\ r.page \subseteq Rows /\ \A i \in r.page : Received(i)
  BY <1>4, ReadingIs
<1>6. Len(inbox) \in Nat /\ receiver \in Receivers
  BY RowsAre DEF TypeOK
<1>7. began \in Receivers /\ began.token = receiver.token /\ began.live = receiver.live
  BY <1>6 DEF Receivers
<1>8. /\ receiver' \in Receivers
      /\ receiver'.token = receiver.token /\ receiver'.live = receiver.live
  BY <1>1, <1>6, <1>7
<1> HIDE DEF r, d, began
<1> QED BY <1>1, <1>2, <1>3, <1>5, <1>8, DrainIs, OverIs DEF DrainMoves

LEMMA CompleteMoves ==
  ASSUME TypeOK, KnownRows, NEW p \in Processes, Complete(p)
  PROVE  /\ DrainMoves(p) /\ drain'[p].page = {}
         /\ drain'[p].at # "hand" /\ receiver' \in Receivers
         /\ receiver'.token = receiver.token /\ receiver'.live = receiver.live
         /\ due' \in BOOLEAN
<1>1. /\ drain' = [drain EXCEPT ![p] = Over(p)] /\ memory' = memory
      /\ \/ receiver' = receiver
         \/ receiver' = [receiver EXCEPT !.open = FALSE, !.window = 0, !.cursor = 0]
      /\ due' = due \/ due' = FALSE
  BY DEF Complete, Goes
<1>2. drain'[p] = Over(p) /\ memory'[p] = memory[p] /\ drain' = [drain EXCEPT ![p] = drain'[p]]
  BY <1>1, DrainIs
<1>3. receiver \in Receivers /\ due \in BOOLEAN
  BY DEF TypeOK
<1>4. receiver' \in Receivers
  <2>1. CASE receiver' = receiver
    BY <1>3, <2>1
  <2>2. CASE receiver' = [receiver EXCEPT !.open = FALSE, !.window = 0, !.cursor = 0]
    BY <1>3, <2>2 DEF Receivers
  <2> QED BY <1>1, <2>1, <2>2
<1>5. receiver'.token = receiver.token /\ receiver'.live = receiver.live
  BY <1>1, <1>3 DEF Receivers
<1>6. due' \in BOOLEAN
  BY <1>1, <1>3
<1> QED BY <1>1, <1>2, <1>4, <1>5, <1>6, DrainIs, OverIs DEF DrainMoves

\* A hint that was dealt with, and a receipt behind the window, are passed over.
LEMMA SkipMoves ==
  ASSUME TypeOK, KnownRows, NEW p \in Processes, Skip(p)
  PROVE  /\ DrainMoves(p) /\ drain'[p].for = drain[p].for
         /\ drain'[p].page \subseteq drain[p].page /\ drain'[p].at = "page"
<1>1. /\ \/ drain' = [drain EXCEPT ![p] = PastWindow(drain[p])]
         \/ drain' = [drain EXCEPT ![p] = Without(drain[p], Row(p))]
      /\ memory' = memory /\ drain[p].at = "page"
  BY DEF Skip, Goes
<1>2. /\ drain'[p] = PastWindow(drain[p]) \/ drain'[p] = Without(drain[p], Row(p))
      /\ memory'[p] = memory[p] /\ drain' = [drain EXCEPT ![p] = drain'[p]]
  BY <1>1, DrainIs
<1>3. /\ drain'[p].for = drain[p].for /\ drain'[p].page \subseteq drain[p].page
      /\ drain'[p].at = "page" /\ drain'[p].token = drain[p].token
      /\ drain'[p].hints = drain[p].hints /\ drain'[p] \in Drains
  <2>1. CASE drain'[p] = PastWindow(drain[p])
    BY <1>1, <2>1, DrainIs DEF PastWindow, Drains
  <2>2. CASE drain'[p] = Without(drain[p], Row(p))
    BY <1>1, <2>2, DrainIs DEF Without, Drains
  <2> QED BY <1>2, <2>1, <2>2
<1> QED BY <1>1, <1>2, <1>3, DrainIs DEF DrainMoves

\* A row that is dealt with leaves the page of a realtime pass or of a scan.
LEMMA DealtMoves ==
  ASSUME TypeOK, KnownRows, NEW p \in Processes, Dealt(p), drain[p].page # {}
  PROVE  /\ DrainMoves(p) /\ drain'[p].for = drain[p].for
         /\ \/ /\ drain[p].for # "batch" /\ drain'[p].at = "page"
               /\ drain'[p].page = drain[p].page \ {Row(p)}
            \/ drain'[p].at = "step" /\ drain'[p].page = drain[p].page
<1> DEFINE d == [drain[p] EXCEPT !.todo = {}, !.later = FALSE, !.found = FALSE]
           e == IF d.for = "batch" THEN [d EXCEPT !.at = "step"]
                                   ELSE [Without(d, Row(p)) EXCEPT !.at = "page"]
<1>1. /\ drain' = [drain EXCEPT ![p] = e]
      /\ memory' = memory \/ memory' = [memory EXCEPT ![p].scan = Row(p)]
  BY DEF Dealt, Goes
<1>2. drain'[p] = e /\ drain' = [drain EXCEPT ![p] = drain'[p]]
  BY <1>1, DrainIs
<1>3. /\ d \in Drains /\ d.for = drain[p].for /\ d.page = drain[p].page
      /\ d.token = drain[p].token /\ d.hints = drain[p].hints
  BY DrainIs DEF Drains
<1>6. /\ memory'[p] \in Memories /\ memory'[p].hints = memory[p].hints
      /\ memory' = [memory EXCEPT ![p] = memory'[p]]
  <2>1. Row(p) \in Nat
    BY DrainIs DEF RowIds
  <2> QED BY <1>1, <2>1, DrainIs DEF Memories
<1>7. /\ e \in Drains /\ e.for = drain[p].for /\ e.token = drain[p].token
      /\ e.hints = drain[p].hints /\ e.page \subseteq drain[p].page
      /\ \/ drain[p].for # "batch" /\ e.at = "page" /\ e.page = drain[p].page \ {Row(p)}
         \/ e.at = "step" /\ e.page = drain[p].page
  <2>1. CASE drain[p].for = "batch"
    <3>1. e = [d EXCEPT !.at = "step"]
      BY <1>3, <2>1
    <3> HIDE DEF e
    <3>2. /\ e \in Drains /\ e.for = d.for /\ e.page = d.page /\ e.at = "step"
          /\ e.token = d.token /\ e.hints = d.hints
      BY <1>3, <3>1 DEF Drains
    <3> QED BY <1>3, <3>2
  <2>2. CASE drain[p].for # "batch"
    <3>1. e = [[d EXCEPT !.page = @ \ {Row(p)}] EXCEPT !.at = "page"]
      BY <1>3, <2>2 DEF Without
    <3> HIDE DEF e
    <3>2. /\ e \in Drains /\ e.for = d.for /\ e.page = d.page \ {Row(p)} /\ e.at = "page"
          /\ e.token = d.token /\ e.hints = d.hints
      BY <1>3, <3>1 DEF Drains
    <3> QED BY <1>3, <2>2, <3>2
  <2> QED BY <2>1, <2>2
<1> HIDE DEF d, e
<1> QED BY <1>2, <1>6, <1>7, DrainIs DEF DrainMoves

\* A row is taken when its page has one, and put aside or closed under the lease.
LEMMA PutAsideMoves ==
  ASSUME TypeOK, KnownRows, NEW p \in Processes, PutAside(p)
  PROVE  DrainMoves(p) /\ Dealt(p) /\ drain[p].page # {} /\ Fenced(p)
BY DealtMoves DEF PutAside, Taken

LEMMA CloseMoves ==
  ASSUME TypeOK, KnownRows, NEW p \in Processes, Close(p)
  PROVE  DrainMoves(p) /\ Dealt(p) /\ drain[p].page # {}
<1>1. Dealt(p) /\ drain[p].at = "hand"
  BY DEF Close
<1>2. drain[p].page # {}
  BY <1>1, DrainIs
<1> QED BY <1>1, <1>2, DealtMoves

LEMMA OpenMoves ==
  ASSUME TypeOK, KnownRows, NEW p \in Processes, Open(p)
  PROVE  LET found == {m \in Monitors : Concerns(m, inbox[Row(p)].msg)}
             todo == {m \in found : monitor[m] \in Enabled}
         IN
         /\ DrainMoves(p) /\ Fenced(p) /\ drain[p].at = "page"
         /\ drain'[p].for = drain[p].for /\ drain'[p].page = drain[p].page
         /\ drain'[p].at = "hand" /\ drain'[p].todo = todo
         /\ drain'[p].later = (todo # found)
<1> DEFINE found == {m \in Monitors : Concerns(m, inbox[Row(p)].msg)}
           todo == {m \in found : monitor[m] \in Enabled}
           later == todo # found
           some == found # {}
           e == [drain[p] EXCEPT !.at = "hand", !.todo = todo, !.later = later, !.found = some]
<1>1. /\ drain' = [drain EXCEPT ![p] = e] /\ memory' = memory
      /\ drain[p].page # {} /\ Fenced(p) /\ drain[p].at = "page"
  BY DEF Open, Goes, Taken, Left
<1>2. drain'[p] = e /\ memory'[p] = memory[p] /\ drain' = [drain EXCEPT ![p] = drain'[p]]
  BY <1>1, DrainIs
<1>3. todo \in SUBSET Monitors /\ later \in BOOLEAN /\ some \in BOOLEAN
  OBVIOUS
<1>4. /\ e \in Drains /\ e.for = drain[p].for /\ e.page = drain[p].page
      /\ e.at = "hand" /\ e.todo = todo /\ e.later = later /\ e.token = drain[p].token
      /\ e.hints = drain[p].hints
  <2> HIDE DEF todo, later, some
  <2> QED BY <1>3, DrainIs DEF Drains
<1>5. /\ drain'[p] \in Drains /\ drain'[p].for = drain[p].for
      /\ drain'[p].page = drain[p].page /\ drain'[p].at = "hand"
      /\ drain'[p].todo = todo /\ drain'[p].later = later
      /\ drain'[p].token = drain[p].token /\ drain'[p].hints = drain[p].hints
  <2> HIDE DEF e, todo, later
  <2> QED BY <1>2, <1>4
<1>6. DrainMoves(p)
  <2> HIDE DEF e, todo, later
  <2> QED BY <1>1, <1>2, <1>5, DrainIs DEF DrainMoves
<1> QED BY <1>1, <1>5, <1>6

LEMMA HandOverMoves ==
  ASSUME TypeOK, KnownRows, NEW p \in Processes, NEW m \in Monitors, HandOver(p, m)
  PROVE  /\ DrainMoves(p) /\ drain[p].at = "hand"
         /\ drain'[p].for = drain[p].for /\ drain'[p].page = drain[p].page
         /\ drain'[p].at = "hand" /\ drain'[p].token = drain[p].token
         /\ drain'[p].todo = drain[p].todo \ {m}
         /\ drain[p].later => drain'[p].later
         /\ \/ runs' = runs \cup {<<m, PostOf[inbox[Row(p)].msg]>>} /\ refused' = refused
            \/ refused' = refused \cup {<<m, Row(p)>>} /\ runs' = runs
            \/ drain'[p].later /\ runs' = runs /\ refused' = refused
            \/ /\ inbox[Row(p)].status \notin {"received", "routed"} \/ monitor[m] = "deleted"
               /\ runs' = runs /\ refused' = refused
         /\ disturbed' = disturbed \/ Disturbance
<1>1. PICK v \in {Verdict(Row(p), m, drain[p].for), "pending"} :
        /\ drain' = [drain EXCEPT ![p] =
                       [drain[p] EXCEPT !.todo = @ \ {m}, !.later = @ \/ v = "pending"]]
        /\ runs' = IF v = "routed" THEN runs \cup {<<m, PostOf[inbox[Row(p)].msg]>>} ELSE runs
        /\ refused' = IF v = "refused" THEN refused \cup {<<m, Row(p)>>} ELSE refused
        /\ disturbed' = disturbed \/ Disturbance
  BY DEF HandOver, Goes
<1>2. memory' = memory /\ drain[p].at = "hand" /\ m \in drain[p].todo
  BY DEF HandOver
<1> DEFINE later == drain[p].later \/ v = "pending"
           todo == drain[p].todo \ {m}
           e == [drain[p] EXCEPT !.todo = todo, !.later = later]
<1>3. drain' = [drain EXCEPT ![p] = e]
  BY <1>1
<1>4. drain'[p] = e /\ memory'[p] = memory[p] /\ drain' = [drain EXCEPT ![p] = drain'[p]]
  BY <1>2, <1>3, DrainIs
<1>5. todo \in SUBSET Monitors /\ later \in BOOLEAN
  BY DrainIs DEF Drains
<1>6. /\ e \in Drains /\ e.for = drain[p].for /\ e.page = drain[p].page
      /\ e.at = drain[p].at /\ e.todo = todo /\ e.later = later /\ e.token = drain[p].token
      /\ e.hints = drain[p].hints
  <2> HIDE DEF todo, later
  <2> QED BY <1>5, DrainIs DEF Drains
<1>7. DrainMoves(p)
  <2> HIDE DEF e, todo, later
  <2> QED BY <1>2, <1>4, <1>6, DrainIs DEF DrainMoves
<1>8. v \in {"routed", "refused", "pending"} \/ v = "cancelled"
  BY <1>1 DEF Verdict
<1>9. v = "cancelled" =>
        inbox[Row(p)].status \notin {"received", "routed"} \/ monitor[m] = "deleted"
  BY <1>1 DEF Verdict
<1> HIDE DEF e
<1> QED BY <1>1, <1>2, <1>4, <1>6, <1>7, <1>8, <1>9

LEMMA AdvanceMoves ==
  ASSUME TypeOK, KnownRows, NEW p \in Processes, Advance(p)
  PROVE  /\ DrainMoves(p) /\ drain'[p].at = "page" /\ drain[p].at = "step"
         /\ drain'[p].for = drain[p].for /\ drain'[p].page = drain[p].page \ {Row(p)}
         /\ receiver' \in Receivers
         /\ receiver'.token = receiver.token /\ receiver'.live = receiver.live
<1> DEFINE e == [Without(drain[p], Row(p)) EXCEPT !.at = "page"]
<1>1. /\ drain' = [drain EXCEPT ![p] = e] /\ memory' = memory /\ drain[p].at = "step"
      /\ receiver' = [receiver EXCEPT !.cursor = Row(p)]
  BY DEF Advance, Goes
<1>2. drain'[p] = e /\ memory'[p] = memory[p] /\ drain' = [drain EXCEPT ![p] = drain'[p]]
  BY <1>1, DrainIs
<1>3. e = [[drain[p] EXCEPT !.page = @ \ {Row(p)}] EXCEPT !.at = "page"]
  BY DEF Without
<1> HIDE DEF e
<1>4. /\ e \in Drains /\ e.page = drain[p].page \ {Row(p)} /\ e.at = "page"
      /\ e.token = drain[p].token /\ e.hints = drain[p].hints /\ e.for = drain[p].for
  BY <1>3, DrainIs DEF Drains
<1>5. DrainMoves(p)
  BY <1>1, <1>2, <1>4, DrainIs DEF DrainMoves
<1>6. Row(p) \in Nat
  BY <1>1, DrainIs DEF RowIds
<1>7. receiver' \in Receivers
  BY <1>1, <1>6 DEF TypeOK, Receivers
<1>8. receiver'.token = receiver.token /\ receiver'.live = receiver.live
  BY <1>1 DEF TypeOK, Receivers
<1> QED BY <1>1, <1>2, <1>4, <1>5, <1>7, <1>8

LEMMA BreakMoves ==
  ASSUME TypeOK, KnownRows, NEW p \in Processes, Break(p)
  PROVE  /\ DrainMoves(p) /\ drain'[p].page = {} /\ drain'[p].at # "hand"
         /\ disturbed' = disturbed \/ Disturbance
<1>1. /\ drain' = [drain EXCEPT ![p] = Idle]
      /\ \/ memory' = memory
         \/ memory' = [memory EXCEPT ![p].hints = @ \cup drain[p].hints, ![p].again = TRUE]
      /\ disturbed' = disturbed \/ Disturbance
  BY DEF Break, Goes
<1>2. drain'[p] = Idle /\ drain' = [drain EXCEPT ![p] = drain'[p]]
  BY <1>1, DrainIs
<1>3. /\ memory'[p] \in Memories /\ memory'[p].hints \subseteq Rows
      /\ memory' = [memory EXCEPT ![p] = memory'[p]]
  <2>1. CASE memory' = memory
    BY <2>1, DrainIs
  <2>2. CASE memory' = [memory EXCEPT ![p].hints = @ \cup drain[p].hints, ![p].again = TRUE]
    <3>1. memory[p].hints \cup drain[p].hints \in SUBSET RowIds
      BY DrainIs
    <3>2. memory'[p] = [memory[p] EXCEPT !.hints = @ \cup drain[p].hints, !.again = TRUE]
      BY <2>2, DrainIs
    <3>3. memory'[p] \in Memories /\ memory'[p].hints = memory[p].hints \cup drain[p].hints
      BY <3>1, <3>2, DrainIs DEF Memories
    <3>4. memory' = [memory EXCEPT ![p] = memory'[p]]
      BY <2>2, <3>2, DrainIs
    <3> QED BY <3>3, <3>4, DrainIs
  <2> QED BY <1>1, <2>1, <2>2
<1> QED BY <1>1, <1>2, <1>3, IdleIs, DrainIs DEF DrainMoves

-----------------------------------------------------------------------------
(* What the steps of a drain leave as it is.                               *)

\* Only what is put back, put aside or closed under the lease gets a new status.
Restated(p) ==
  \/ inbox' = inbox
  \/ /\ Fenced(p)
     /\ \E k \in Rows : /\ inbox[k].status = "unsupported"
                        /\ inbox' = [inbox EXCEPT ![k].status = "received"]
  \/ /\ Fenced(p) /\ drain[p].page # {} /\ Dealt(p)
     /\ \E status \in Statuses : inbox' = [inbox EXCEPT ![Row(p)].status = status]

DrainKeeps(p) ==
  /\ DrainMoves(p) /\ Restated(p)
  /\ session' = session /\ service' = service /\ monitor' = monitor /\ mode' = mode
  /\ issued' = issued /\ receiver' \in Receivers
  /\ receiver'.token = receiver.token /\ receiver'.live = receiver.live
  /\ due' \in BOOLEAN /\ disturbed' \in 0..MaxDisturbances
  /\ runs \subseteq runs' /\ runs' \subseteq Monitors \X Posts
  /\ refused \subseteq refused' /\ refused' \subseteq Monitors \X RowIds

\* A disturbance stays within its bound.
LEMMA DisturbanceIs ==
  ASSUME TypeOK, Disturbance \/ disturbed' = disturbed
  PROVE  disturbed' \in 0..MaxDisturbances
BY PushAssumption DEF TypeOK, Disturbance

LEMMA MarkedIs ==
  ASSUME TypeOK, KnownRows, NEW p \in Processes, NEW status \in Statuses,
         Marked(Row(p), status), Fenced(p), drain[p].page # {}, Dealt(p)
  PROVE  Restated(p)
BY DEF Marked, Restated

LEMMA DrainStepKeeps ==
  ASSUME TypeOK, KnownRows, NEW p \in Processes, DrainStep(p)
  PROVE  DrainKeeps(p)
<1> USE DEF rows, owner, queue, counters
<1>0. /\ receiver \in Receivers /\ due \in BOOLEAN /\ disturbed \in 0..MaxDisturbances
      /\ runs \subseteq Monitors \X Posts /\ refused \subseteq Monitors \X RowIds
  BY DEF TypeOK
<1>1. CASE Tick(p)
  BY <1>0, <1>1, TickMoves DEF DrainKeeps, Tick, Restated
<1>2. CASE Recover(p)
  <2>1. Restated(p)
    BY <1>2, RecoverMoves DEF Recover, Restated, PutBack
  <2> QED BY <1>0, <1>2, <2>1, RecoverMoves DEF DrainKeeps, Recover
<1>3. CASE Pass(p)
  BY <1>0, <1>3, PassMoves DEF DrainKeeps, Pass, Restated
<1>4. CASE Scan(p)
  BY <1>0, <1>4, ScanMoves DEF DrainKeeps, Scan, Restated
<1>5. CASE Window(p)
  <2>1. UNCHANGED <<service, inbox, due, owner, queue, session, counters>>
    BY <1>5 DEF Window
  <2> QED BY <1>0, <1>5, <2>1, WindowMoves DEF DrainKeeps, Restated
<1>6. CASE Complete(p)
  <2>1. UNCHANGED <<service, inbox, owner, queue, session, counters>>
    BY <1>6 DEF Complete
  <2> QED BY <1>0, <1>6, <2>1, CompleteMoves DEF DrainKeeps, Restated
<1>7. CASE Skip(p)
  BY <1>0, <1>7, SkipMoves DEF DrainKeeps, Skip, Restated
<1>8. CASE PutAside(p)
  <2>1. UNCHANGED <<service, receiver, due, owner, queue, session, counters>>
    BY <1>8 DEF PutAside
  <2>2. Restated(p)
    BY <1>8, PutAsideMoves, MarkedIs DEF PutAside, Statuses
  <2> QED BY <1>0, <1>8, <2>1, <2>2, PutAsideMoves DEF DrainKeeps
<1>9. CASE Open(p)
  <2>1. UNCHANGED <<service, rows, owner, queue, session, memory, counters>>
    BY <1>9 DEF Open
  <2>2. DrainMoves(p)
    BY <1>9, OpenMoves
  <2> QED BY <1>0, <2>1, <2>2 DEF DrainKeeps, Restated
<1>10. CASE \E m \in Monitors : HandOver(p, m)
  <2>1. PICK m \in Monitors : HandOver(p, m)
    BY <1>10
  <2>2. UNCHANGED <<service, rows, owner, session, memory, issued>>
    BY <2>1 DEF HandOver
  <2>3. drain[p].page # {} /\ Row(p) \in Rows /\ Row(p) \in RowIds
    BY <2>1, HandOverMoves, DrainIs, RowIsThere
  <2>4. PostOf[inbox[Row(p)].msg] \in Posts
    BY <2>3, RowsAre, PushAssumption DEF Receipts
  <2>5. /\ runs' = runs \/ runs' = runs \cup {<<m, PostOf[inbox[Row(p)].msg]>>}
        /\ refused' = refused \/ refused' = refused \cup {<<m, Row(p)>>}
        /\ DrainMoves(p) /\ disturbed' \in 0..MaxDisturbances
    BY <2>1, HandOverMoves, DisturbanceIs
  <2> QED BY <1>0, <2>2, <2>3, <2>4, <2>5 DEF DrainKeeps, Restated
<1>11. CASE Close(p)
  <2>1. UNCHANGED <<service, receiver, due, owner, queue, session, counters>>
    BY <1>11 DEF Close
  <2>2. Restated(p)
    <3>1. CASE drain[p].later
      BY <1>11, <3>1 DEF Close, Restated
    <3>2. CASE ~drain[p].later
      <4>1. Fenced(p) /\ Marked(Row(p), IF drain[p].found THEN "routed" ELSE "unmatched")
        BY <1>11, <3>2 DEF Close
      <4> QED BY <1>11, <4>1, CloseMoves, MarkedIs DEF Statuses
    <3> QED BY <3>1, <3>2
  <2> QED BY <1>0, <1>11, <2>1, <2>2, CloseMoves DEF DrainKeeps
<1>12. CASE Advance(p)
  <2>1. UNCHANGED <<service, inbox, due, owner, queue, session, memory, counters>>
    BY <1>12 DEF Advance
  <2> QED BY <1>0, <1>12, <2>1, AdvanceMoves DEF DrainKeeps, Restated
<1>13. CASE Break(p)
  <2>1. UNCHANGED <<service, rows, owner, queue, session, issued>>
    BY <1>13 DEF Break
  <2> QED BY <1>0, <1>13, <2>1, BreakMoves, DisturbanceIs DEF DrainKeeps, Restated
<1> QED BY <1>1, <1>2, <1>3, <1>4, <1>5, <1>6, <1>7, <1>8, <1>9, <1>10, <1>11, <1>12, <1>13
        DEF DrainStep

LEMMA RestatedRows ==
  ASSUME TypeOK, KnownRows, NEW p \in Processes, Restated(p)
  PROVE  /\ inbox' \in Seq(Receipts) /\ Rows' = Rows
         /\ \A i \in Rows : inbox'[i].msg = inbox[i].msg /\ inbox'[i].owed = inbox[i].owed
<1>1. CASE inbox' = inbox
  BY <1>1 DEF TypeOK, Rows
<1>2. CASE \E k \in Rows : /\ inbox[k].status = "unsupported"
                           /\ inbox' = [inbox EXCEPT ![k].status = "received"]
  BY <1>2, StatusChange DEF Statuses
<1>3. CASE /\ drain[p].page # {}
           /\ \E status \in Statuses : inbox' = [inbox EXCEPT ![Row(p)].status = status]
  BY <1>3, RowIsThere, StatusChange
<1> QED BY <1>1, <1>2, <1>3 DEF Restated

\* A drain keeps the types and to the rows that are there.
LEMMA DrainStepTyped ==
  ASSUME TypeOK, KnownRows, NEW p \in Processes, DrainStep(p)
  PROVE  TypeOK' /\ KnownRows'
<1>1. DrainKeeps(p)
  BY DrainStepKeeps
<1>2. inbox' \in Seq(Receipts) /\ Rows' = Rows
  BY <1>1, RestatedRows DEF DrainKeeps
<1>3. /\ drain' = [drain EXCEPT ![p] = drain'[p]] /\ drain'[p] \in Drains
      /\ memory' = [memory EXCEPT ![p] = memory'[p]] /\ memory'[p] \in Memories
  BY <1>1 DEF DrainKeeps, DrainMoves
<1>4. drain' \in [Processes -> Drains] /\ memory' \in [Processes -> Memories]
  BY <1>3, DrainIs
<1>5. TypeOK'
  <2>1. /\ service' = service /\ monitor' = monitor /\ mode' = mode /\ session' = session
        /\ issued' = issued /\ receiver' \in Receivers /\ due' \in BOOLEAN
        /\ disturbed' \in 0..MaxDisturbances /\ runs' \subseteq Monitors \X Posts
        /\ refused' \subseteq Monitors \X RowIds
    BY <1>1 DEF DrainKeeps
  <2> QED BY <1>2, <1>4, <2>1 DEF TypeOK
<1>6. KnownRows'
  <2> SUFFICES ASSUME NEW q \in Processes
               PROVE  /\ drain'[q].page \subseteq Rows' /\ drain'[q].hints \subseteq Rows'
                      /\ memory'[q].hints \subseteq Rows' /\ session'[q].row \in Rows' \cup {0}
                      /\ drain'[q].at \in {"hand", "step"} => drain'[q].page # {}
                      /\ drain'[q].for = "none" => drain'[q].page = {}
    BY DEF KnownRows
  <2>1. session'[q].row \in Rows' \cup {0}
    BY <1>1, <1>2 DEF DrainKeeps, KnownRows
  <2>2. CASE q = p
    BY <1>1, <1>2, <2>1, <2>2 DEF DrainKeeps, DrainMoves
  <2>3. CASE q # p
    <3>1. drain'[q] = drain[q] /\ memory'[q] = memory[q]
      BY <1>3, <2>3, DrainIs
    <3> QED BY <1>2, <2>1, <3>1 DEF KnownRows
  <2> QED BY <2>2, <2>3
<1> QED BY <1>5, <1>6

-----------------------------------------------------------------------------
(* Leases.                                                                 *)

\* All steps but a new connection keep to the leases there are.
TokensKept ==
  /\ issued' = issued
  /\ receiver'.token \in {0, receiver.token}
  /\ receiver'.live => receiver.live /\ receiver'.token = receiver.token
  /\ \A p \in Processes : /\ session'[p].token \in {0, session[p].token}
                          /\ drain'[p].token \in {0, drain[p].token, session[p].token}

LEMMA OwnTokensStay ==
  ASSUME TypeOK, OwnTokens, TokensKept
  PROVE  OwnTokens'
<1>1. /\ issued \in Nat /\ receiver.token \in Nat
      /\ \A p \in Processes : session[p].token \in Nat /\ drain[p].token \in Nat
  BY DEF TypeOK, Receivers, Sessions, Drains
<1>2. receiver'.token <= issued' /\ (receiver'.live => receiver'.token # 0)
  BY <1>1 DEF TokensKept, OwnTokens
<1>3. \A p \in Processes : session'[p].token <= issued' /\ drain'[p].token <= issued'
  BY <1>1 DEF TokensKept, OwnTokens
<1>4. ASSUME NEW p \in Processes, NEW q \in Processes, p # q
      PROVE  /\ session'[p].token # 0 => session'[p].token # session'[q].token
             /\ session'[p].token # 0 => session'[p].token # drain'[q].token
             /\ drain'[p].token # 0 => drain'[p].token # drain'[q].token
  <2>1. /\ session[p].token # 0 => session[p].token # session[q].token
        /\ session[p].token # 0 => session[p].token # drain[q].token
        /\ drain[p].token # 0 => drain[p].token # drain[q].token
        /\ session[q].token # 0 => session[q].token # drain[p].token
    BY <1>4 DEF OwnTokens
  <2>2. /\ session'[p].token \in {0, session[p].token}
        /\ session'[q].token \in {0, session[q].token}
        /\ drain'[p].token \in {0, drain[p].token, session[p].token}
        /\ drain'[q].token \in {0, drain[q].token, session[q].token}
    BY DEF TokensKept
  <2> QED BY <2>1, <2>2
<1> QED BY <1>2, <1>3, <1>4 DEF OwnTokens

\* Two processes never both hold the lease, and nobody comes by it unawares.
LEMMA OneIsFenced ==
  ASSUME OwnTokens, NEW p \in Processes, NEW q \in Processes, Fenced(p), Fenced(q)
  PROVE  p = q
BY DEF OwnTokens, Fenced, Fence

LEMMA FencedWas ==
  ASSUME TokensKept, NEW q \in Processes, Fenced(q)', drain'[q] = drain[q]
  PROVE  Fenced(q)
BY DEF TokensKept, Fenced, Fence

LEMMA DrainStepOwn ==
  ASSUME TypeOK, OwnTokens, KnownRows, NEW p \in Processes, DrainStep(p)
  PROVE  TokensKept /\ OwnTokens'
<1>1. DrainKeeps(p)
  BY DrainStepKeeps
<1>2. ASSUME NEW q \in Processes
      PROVE  drain'[q].token \in {0, drain[q].token, session[q].token}
  <2>1. CASE q = p
    BY <1>1, <2>1 DEF DrainKeeps, DrainMoves
  <2>2. CASE q # p
    BY <1>1, <2>2, DrainIs DEF DrainKeeps, DrainMoves
  <2> QED BY <2>1, <2>2
<1>3. TokensKept
  BY <1>1, <1>2 DEF DrainKeeps, TokensKept
<1> QED BY <1>3, OwnTokensStay

-----------------------------------------------------------------------------
(* The connection and the environment.                                     *)

\* What the other steps leave as it is: receipts are added, never changed, and
\* a drain starts empty or ends.
OtherKeeps ==
  /\ Rows \subseteq Rows' /\ \A i \in Rows : inbox'[i] = inbox[i]
  /\ \A i \in Rows' \ Rows :
       /\ inbox'[i].status = "received"
       /\ \A m \in inbox'[i].owed : PostOf[inbox'[i].msg] \in Watches[m]
  /\ runs' = runs /\ refused' = refused
  /\ \A m \in Monitors : monitor[m] = "deleted" => monitor'[m] = "deleted"
  /\ \A q \in Processes :
       \/ drain'[q] = drain[q]
       \/ /\ drain'[q].page = {} /\ drain'[q].hints = {}
          /\ drain'[q].at \notin {"hand", "step"} /\ drain'[q].for = "none"

\* Their inbox is that of before, unless a notification is received.
LEMMA InboxSame ==
  ASSUME inbox' = inbox, runs' = runs, refused' = refused,
         \A m \in Monitors : monitor[m] = "deleted" => monitor'[m] = "deleted",
         \A q \in Processes :
           \/ drain'[q] = drain[q]
           \/ /\ drain'[q].page = {} /\ drain'[q].hints = {}
              /\ drain'[q].at \notin {"hand", "step"} /\ drain'[q].for = "none"
  PROVE  OtherKeeps
BY DEF OtherKeeps, Rows

\* They keep to the rows that are there.
LEMMA OtherKnown ==
  ASSUME KnownRows, OtherKeeps,
         \A q \in Processes : memory'[q].hints \subseteq Rows',
         \A q \in Processes : session'[q].row \in Rows' \cup {0}
  PROVE  KnownRows'
<1> SUFFICES ASSUME NEW q \in Processes
             PROVE  /\ drain'[q].page \subseteq Rows' /\ drain'[q].hints \subseteq Rows'
                    /\ drain'[q].at \in {"hand", "step"} => drain'[q].page # {}
                    /\ drain'[q].for = "none" => drain'[q].page = {}
  BY DEF KnownRows
<1>1. /\ drain[q].page \subseteq Rows /\ drain[q].hints \subseteq Rows
      /\ drain[q].at \in {"hand", "step"} => drain[q].page # {}
      /\ drain[q].for = "none" => drain[q].page = {}
  BY DEF KnownRows
<1>2. Rows \subseteq Rows'
  BY DEF OtherKeeps
<1>3. CASE drain'[q] = drain[q]
  BY <1>1, <1>2, <1>3
<1>4. CASE /\ drain'[q].page = {} /\ drain'[q].hints = {}
           /\ drain'[q].at \notin {"hand", "step"} /\ drain'[q].for = "none"
  BY <1>4
<1> QED BY <1>3, <1>4 DEF OtherKeeps

\* What holds of a session, of the receiver and of the rest before a step.
LEMMA PartsAre ==
  ASSUME TypeOK
  PROVE  /\ session \in [Processes -> Sessions] /\ receiver \in Receivers
         /\ drain \in [Processes -> Drains] /\ memory \in [Processes -> Memories]
         /\ issued \in Nat /\ disturbed \in 0..MaxDisturbances /\ due \in BOOLEAN
         /\ service \subseteq Messages /\ inbox \in Seq(Receipts)
         /\ monitor \in [Monitors -> Present \cup {"deleted"}]
         /\ mode \in [Monitors -> Modes]
         /\ runs \subseteq Monitors \X Posts /\ refused \subseteq Monitors \X RowIds
         /\ NoSession \in Sessions /\ NoSession.token = 0 /\ NoSession.row = 0
         /\ NoSession.at = "off" /\ NoSession.msg = {}
         /\ Blank \in Memories /\ Blank.hints = {}
BY DEF TypeOK, NoSession, Sessions, Blank, Memories

LEMMA ConnectOpens ==
  ASSUME TypeOK, OwnTokens, KnownRows, NEW p \in Processes, Connect(p)
  PROVE  /\ TypeOK' /\ KnownRows' /\ OwnTokens' /\ OtherKeeps
         /\ \A q \in Processes : ~Fenced(q)'
         /\ \A q \in Processes : session'[q].at = "stored" =>
              session'[q] = session[q]
<1> DEFINE e == [NoSession EXCEPT !.at = "open", !.token = issued + 1]
           r == [receiver EXCEPT !.token = issued + 1, !.live = TRUE]
<1>1. /\ issued' = issued + 1 /\ receiver' = r /\ session' = [session EXCEPT ![p] = e]
      /\ UNCHANGED <<service, inbox, due, monitor, mode, runs, refused, drain, memory, disturbed>>
  BY DEF Connect, owner, queue
<1>2. e \in Sessions /\ e.token = issued + 1 /\ e.row = 0 /\ e.at = "open"
  <2>1. issued + 1 \in Nat
    BY PartsAre
  <2> QED BY <2>1 DEF Sessions, NoSession
<1>3. r \in Receivers /\ r.token = issued + 1
  <2>1. issued + 1 \in Nat /\ receiver \in Receivers
    BY PartsAre
  <2>2. r \in Receivers
    BY <2>1 DEF Receivers
  <2> QED BY <2>1 DEF Receivers
<1>4. session'[p] = e /\ \A q \in Processes \ {p} : session'[q] = session[q]
  BY <1>1, PartsAre
<1>5. session' \in [Processes -> Sessions] /\ issued' \in Nat
  BY <1>1, <1>2, PartsAre
<1> HIDE DEF e, r
<1>6. TypeOK'
  BY <1>1, <1>3, <1>5 DEF TypeOK
<1>7. OtherKeeps
  BY <1>1, InboxSame
<1>8. KnownRows'
  <2>1. \A q \in Processes : session'[q].row \in Rows' \cup {0}
    BY <1>1, <1>2, <1>4 DEF KnownRows, Rows
  <2>2. \A q \in Processes : memory'[q].hints \subseteq Rows'
    BY <1>1 DEF KnownRows, Rows
  <2> QED BY <1>7, <2>1, <2>2, OtherKnown
<1>9. OwnTokens'
  <2>1. /\ \A q \in Processes : session[q].token \in Nat /\ drain[q].token \in Nat
        /\ issued \in Nat
    BY PartsAre DEF Sessions, Drains
  <2>2. \A q \in Processes : session[q].token <= issued /\ drain[q].token <= issued
    BY DEF OwnTokens
  <2>3. receiver'.token <= issued' /\ (receiver'.live => receiver'.token # 0)
    BY <1>1, <1>3, <2>1
  <2>4. \A q \in Processes : session'[q].token <= issued' /\ drain'[q].token <= issued'
    BY <1>1, <1>2, <1>4, <2>1, <2>2
  <2>5. ASSUME NEW a \in Processes, NEW b \in Processes, a # b
        PROVE  /\ session'[a].token # 0 => session'[a].token # session'[b].token
               /\ session'[a].token # 0 => session'[a].token # drain'[b].token
               /\ drain'[a].token # 0 => drain'[a].token # drain'[b].token
    <3>1. /\ session[a].token # 0 => session[a].token # session[b].token
          /\ session[a].token # 0 => session[a].token # drain[b].token
          /\ drain[a].token # 0 => drain[a].token # drain[b].token
      BY <2>5 DEF OwnTokens
    <3>2. CASE a = p
      BY <1>1, <1>2, <1>4, <2>1, <2>2, <2>5, <3>1, <3>2
    <3>3. CASE a # p
      BY <1>1, <1>2, <1>4, <2>1, <2>2, <2>5, <3>1, <3>3
    <3> QED BY <3>2, <3>3
  <2> QED BY <2>3, <2>4, <2>5 DEF OwnTokens
<1>10. ASSUME NEW q \in Processes PROVE ~Fenced(q)'
  <2>1. drain'[q].token <= issued /\ drain'[q].token \in Nat /\ issued \in Nat
    BY <1>1, PartsAre DEF OwnTokens, Drains
  <2> QED BY <1>1, <1>3, <2>1 DEF Fenced, Fence
<1>11. \A q \in Processes : session'[q].at = "stored" => session'[q] = session[q]
  BY <1>2, <1>4
<1> QED BY <1>6, <1>7, <1>8, <1>9, <1>10, <1>11

LEMMA ReceiveStores ==
  ASSUME TypeOK, KnownRows, NEW p \in Processes, NEW x \in Messages, Receive(p, x)
  PROVE  /\ TypeOK' /\ KnownRows' /\ TokensKept /\ OtherKeeps
         /\ \E i \in Rows' : inbox'[i].msg = x
         /\ session'[p].msg = {x} /\ \A q \in Processes \ {p} : session'[q] = session[q]
<1> DEFINE row == [msg |-> x, status |-> "received", owed |-> {m \in Monitors : Concerns(m, x)}]
           known == \E i \in Rows : inbox[i].msg = x
           n == IF known THEN 0 ELSE Len(inbox) + 1
           e == [session[p] EXCEPT !.at = "stored", !.row = n, !.msg = {x}]
<1>1. /\ session' = [session EXCEPT ![p] = e]
      /\ inbox' = IF known THEN inbox ELSE Append(inbox, row)
      /\ UNCHANGED <<service, receiver, due, monitor, mode, runs, refused, drain, memory,
                     issued, disturbed>>
  BY DEF Receive, owner, queue, counters
<1>2. row \in Receipts /\ row.msg = x /\ row.status = "received"
      /\ \A m \in row.owed : PostOf[x] \in Watches[m]
  BY DEF Receipts, Statuses, Concerns
<1>3. /\ inbox' \in Seq(Receipts) /\ Rows \subseteq Rows'
      /\ \A i \in Rows : inbox'[i] = inbox[i]
      /\ \A i \in Rows' \ Rows : inbox'[i] = row
      /\ \E i \in Rows' : inbox'[i].msg = x
      /\ n \in Rows' \cup {0} /\ n \in Nat
  <2>1. CASE known
    <3>1. inbox' = inbox /\ Rows' = Rows
      BY <1>1, <2>1 DEF Rows
    <3>2. inbox' \in Seq(Receipts)
      BY <3>1, PartsAre
    <3>3. \E i \in Rows' : inbox'[i].msg = x
      BY <2>1, <3>1
    <3>4. n = 0
      BY <2>1
    <3>5. n \in Rows' \cup {0} /\ n \in Nat
      BY <3>4
    <3> HIDE DEF row, n
    <3> QED BY <3>1, <3>2, <3>3, <3>5, Zenon
  <2>2. CASE ~known
    <3>1. inbox' = Append(inbox, row)
      BY <1>1, <2>2
    <3> HIDE DEF row
    <3>2. /\ inbox' \in Seq(Receipts) /\ Len(inbox) + 1 \in RowIds
          /\ Rows' = Rows \cup {Len(inbox) + 1}
          /\ inbox'[Len(inbox) + 1] = row /\ \A i \in Rows : inbox'[i] = inbox[i]
      BY <1>2, <3>1, RowAdded
    <3>3. Len(inbox) + 1 \in Nat
      BY <3>2 DEF RowIds
    <3> QED BY <1>2, <2>2, <3>2, <3>3
  <2> QED BY <2>1, <2>2
<1>4. /\ e \in Sessions /\ e.token = session[p].token /\ e.row \in Rows' \cup {0}
      /\ e.msg = {x}
  <2>1. n \in Nat /\ n \in Rows' \cup {0} /\ session[p] \in Sessions
    BY <1>3, PartsAre
  <2> HIDE DEF n
  <2> QED BY <2>1 DEF Sessions
<1>5. session'[p] = e /\ \A q \in Processes \ {p} : session'[q] = session[q]
  BY <1>1, PartsAre
<1> HIDE DEF e, row, n
<1>6. session' \in [Processes -> Sessions]
  BY <1>1, <1>4, PartsAre
<1>7. TypeOK'
  BY <1>1, <1>3, <1>6 DEF TypeOK
<1>8. OtherKeeps
  BY <1>1, <1>2, <1>3 DEF OtherKeeps
<1>9. KnownRows'
  <2>1. \A q \in Processes : session'[q].row \in Rows' \cup {0}
    BY <1>3, <1>4, <1>5 DEF KnownRows
  <2>2. \A q \in Processes : memory'[q].hints \subseteq Rows'
    BY <1>1, <1>3 DEF KnownRows
  <2> QED BY <1>8, <2>1, <2>2, OtherKnown
<1>10. TokensKept
  BY <1>1, <1>4, <1>5 DEF TokensKept
<1> QED BY <1>3, <1>4, <1>5, <1>7, <1>8, <1>9, <1>10

LEMMA AcknowledgeWakes ==
  ASSUME TypeOK, KnownRows, NEW p \in Processes, Acknowledge(p)
  PROVE  /\ TypeOK' /\ KnownRows' /\ TokensKept /\ OtherKeeps
         /\ session[p].at = "stored" /\ service' = service \ session[p].msg
         /\ inbox' = inbox
         /\ \A q \in Processes : session'[q].at = "stored" => session'[q] = session[q]
<1> DEFINE e == [NoSession EXCEPT !.at = "open", !.token = session[p].token]
<1>1. /\ session' = [session EXCEPT ![p] = e] /\ session[p].at = "stored"
      /\ service' = service \ session[p].msg
      /\ UNCHANGED <<inbox, receiver, due, monitor, mode, runs, refused, issued, disturbed>>
      /\ \/ memory' = memory /\ drain' = drain
         \/ /\ session[p].row # 0
            /\ memory' = [memory EXCEPT ![p].again = TRUE, ![p].hints = @ \cup {session[p].row}]
            /\ drain' = drain \/ drain' = [drain EXCEPT ![p] = Starting(p, FALSE)]
  BY DEF Acknowledge, rows, owner, queue, counters
<1>2. e \in Sessions /\ e.token = session[p].token /\ e.row = 0 /\ e.at = "open"
  <2>1. session[p].token \in Nat
    BY PartsAre DEF Sessions
  <2> QED BY <2>1 DEF Sessions, NoSession
<1>3. session'[p] = e /\ \A q \in Processes \ {p} : session'[q] = session[q]
  BY <1>1, PartsAre
<1> HIDE DEF e
<1>4. session' \in [Processes -> Sessions]
  BY <1>1, <1>2, PartsAre
<1>5. /\ memory' \in [Processes -> Memories]
      /\ \A q \in Processes : memory'[q].hints \subseteq Rows
  <2>1. CASE memory' = memory
    BY <2>1, PartsAre DEF KnownRows
  <2>2. CASE /\ session[p].row # 0
             /\ memory' = [memory EXCEPT ![p].again = TRUE, ![p].hints = @ \cup {session[p].row}]
    <3>1. session[p].row \in Rows /\ Rows \subseteq RowIds
      BY <2>2, RowsAre DEF KnownRows
    <3>2. memory[p].hints \cup {session[p].row} \in SUBSET RowIds
      BY <3>1, DrainIs
    <3> DEFINE n == [memory[p] EXCEPT !.again = TRUE, !.hints = @ \cup {session[p].row}]
    <3>3. memory' = [memory EXCEPT ![p] = n]
      BY <2>2
    <3>4. n \in Memories /\ n.hints = memory[p].hints \cup {session[p].row}
      BY <3>2, DrainIs DEF Memories
    <3> HIDE DEF n
    <3>5. memory' \in [Processes -> Memories]
      BY <3>3, <3>4, PartsAre
    <3>6. memory'[p] = n /\ \A q \in Processes \ {p} : memory'[q] = memory[q]
      BY <3>3, PartsAre
    <3> QED BY <3>1, <3>4, <3>5, <3>6 DEF KnownRows
  <2> QED BY <1>1, <2>1, <2>2
<1>6. /\ drain' \in [Processes -> Drains]
      /\ \A q \in Processes : drain'[q] = drain[q] \/ (q = p /\ drain'[q] = Starting(p, FALSE))
  <2>0. Starting(p, FALSE) \in Drains /\ drain \in [Processes -> Drains]
    <3>1. FALSE \in BOOLEAN
      OBVIOUS
    <3> QED BY <3>1, PartsAre, IdleIs, Zenon
  <2> DEFINE s == Starting(p, FALSE)
  <2> HIDE DEF s
  <2>1. CASE drain' = drain
    BY <2>0, <2>1
  <2>2. CASE drain' = [drain EXCEPT ![p] = Starting(p, FALSE)]
    BY <2>0, <2>2
  <2> QED BY <1>1, <2>1, <2>2
<1>7. TypeOK'
  <2>1. service' \subseteq Messages
    BY <1>1, PartsAre
  <2> QED BY <1>1, <1>4, <1>5, <1>6, <2>1 DEF TypeOK
<1>8. OtherKeeps
  BY <1>1, <1>6, IdleIs, InboxSame
<1>9. KnownRows'
  <2>1. \A q \in Processes : session'[q].row \in Rows' \cup {0}
    BY <1>1, <1>2, <1>3 DEF KnownRows, Rows
  <2>2. \A q \in Processes : memory'[q].hints \subseteq Rows'
    BY <1>1, <1>5 DEF Rows
  <2> QED BY <1>8, <2>1, <2>2, OtherKnown
<1>10. TokensKept
  BY <1>1, <1>2, <1>3, <1>6, IdleIs DEF TokensKept
<1> QED BY <1>1, <1>2, <1>3, <1>7, <1>8, <1>9, <1>10

\* A connection ends, with or without its process.
LEMMA SessionEnds ==
  ASSUME TypeOK, KnownRows, NEW p \in Processes,
         session' = [session EXCEPT ![p] = NoSession],
         receiver' = receiver \/ receiver' = Released(session[p].token),
         \/ drain' = drain /\ memory' = memory
         \/ drain' = [drain EXCEPT ![p] = Idle] /\ memory' = [memory EXCEPT ![p] = Blank],
         UNCHANGED <<service, inbox, due, monitor, mode, runs, refused, issued>>,
         Disturbance \/ disturbed' = disturbed
  PROVE  /\ TypeOK' /\ KnownRows' /\ TokensKept /\ OtherKeeps
         /\ \A q \in Processes : session'[q].at = "stored" => session'[q] = session[q]
<1>1. /\ session' \in [Processes -> Sessions] /\ session'[p] = NoSession
      /\ \A q \in Processes \ {p} : session'[q] = session[q]
  BY PartsAre
<1>2. /\ receiver' \in Receivers /\ receiver'.token \in {0, receiver.token}
      /\ receiver'.live => receiver.live /\ receiver'.token = receiver.token
  <2>1. CASE receiver' = receiver
    BY <2>1, PartsAre
  <2>2. CASE receiver' = [receiver EXCEPT !.token = 0, !.live = FALSE]
    BY <2>2, PartsAre DEF Receivers
  <2> QED BY <2>1, <2>2 DEF Released
<1>3. /\ drain' \in [Processes -> Drains] /\ memory' \in [Processes -> Memories]
      /\ \A q \in Processes : /\ drain'[q] = drain[q] \/ drain'[q] = Idle
                             /\ memory'[q].hints \subseteq Rows
  <2>1. CASE drain' = drain /\ memory' = memory
    BY <2>1, PartsAre DEF KnownRows
  <2>2. CASE drain' = [drain EXCEPT ![p] = Idle] /\ memory' = [memory EXCEPT ![p] = Blank]
    BY <2>2, PartsAre, IdleIs DEF KnownRows
  <2> QED BY <2>1, <2>2
<1>4. TypeOK'
  BY <1>1, <1>2, <1>3, DisturbanceIs DEF TypeOK
<1>5. OtherKeeps
  BY <1>3, IdleIs, InboxSame
<1>6. KnownRows'
  <2>1. \A q \in Processes : session'[q].row \in Rows' \cup {0}
    BY <1>1, PartsAre DEF KnownRows, Rows
  <2>2. \A q \in Processes : memory'[q].hints \subseteq Rows'
    BY <1>3 DEF Rows
  <2> QED BY <1>5, <2>1, <2>2, OtherKnown
<1>7. TokensKept
  BY <1>1, <1>2, <1>3, PartsAre, IdleIs DEF TokensKept
<1> QED BY <1>1, <1>4, <1>5, <1>6, <1>7, PartsAre

\* What the environment does touches neither receipts nor processes.
Environment ==
  LeaseEnds \/ IntervalPasses \/ Suspend
  \/ \E m \in Monitors : \/ \E s \in Present \cup {"deleted"} : Becomes(m, s)
                         \/ \E k \in Modes : Switch(m, k)

LEMMA EnvironmentKeeps ==
  ASSUME TypeOK, KnownRows, Environment
  PROVE  /\ TypeOK' /\ KnownRows' /\ TokensKept /\ OtherKeeps
         /\ inbox' = inbox /\ service' = service /\ session' = session
<1> USE DEF rows, owner, queue, counters
<1>1. UNCHANGED <<service, inbox, runs, refused, session, drain, memory, issued>>
  BY DEF Environment, LeaseEnds, IntervalPasses, Suspend, Becomes, Switch
<1>2. Disturbance \/ disturbed' = disturbed
  BY DEF Environment, LeaseEnds, IntervalPasses, Suspend, Becomes, Switch
<1>3. receiver' = receiver \/ receiver' = [receiver EXCEPT !.live = FALSE]
  BY DEF Environment, LeaseEnds, IntervalPasses, Suspend, Becomes, Switch
<1>4. /\ receiver' \in Receivers /\ receiver'.token = receiver.token
      /\ receiver'.live => receiver.live
  <2>1. CASE receiver' = receiver
    BY <2>1, PartsAre
  <2>2. CASE receiver' = [receiver EXCEPT !.live = FALSE]
    BY <2>2, PartsAre DEF Receivers
  <2> QED BY <1>3, <2>1, <2>2
<1>5. due' \in BOOLEAN
  BY PartsAre DEF Environment, LeaseEnds, IntervalPasses, Suspend, Becomes, Switch
<1>6. /\ monitor' \in [Monitors -> Present \cup {"deleted"}]
      /\ mode' \in [Monitors -> Modes]
      /\ \A m \in Monitors : monitor[m] = "deleted" => monitor'[m] = "deleted"
  <2>0. monitor \in [Monitors -> Present \cup {"deleted"}] /\ mode \in [Monitors -> Modes]
    BY PartsAre
  <2>1. CASE LeaseEnds \/ IntervalPasses
    BY <2>0, <2>1 DEF LeaseEnds, IntervalPasses
  <2>2. CASE Suspend
    BY <2>0, <2>2 DEF Suspend, Present, Enabled, Modes
  <2>3. ASSUME NEW m \in Monitors, NEW s \in Present \cup {"deleted"}, Becomes(m, s)
        PROVE  <1>6!1 /\ <1>6!2 /\ <1>6!3
    BY <2>0, <2>3 DEF Becomes
  <2>4. ASSUME NEW m \in Monitors, NEW k \in Modes, Switch(m, k)
        PROVE  <1>6!1 /\ <1>6!2 /\ <1>6!3
    BY <2>0, <2>4 DEF Switch
  <2> QED BY <2>1, <2>2, <2>3, <2>4 DEF Environment
<1>7. TypeOK'
  BY <1>1, <1>2, <1>4, <1>5, <1>6, DisturbanceIs DEF TypeOK
<1>8. OtherKeeps
  BY <1>1, <1>6, InboxSame
<1>9. KnownRows'
  <2>1. Rows' = Rows
    BY <1>1 DEF Rows
  <2> QED BY <1>1, <1>8, <2>1, OtherKnown DEF KnownRows
<1>10. TokensKept
  BY <1>1, <1>4 DEF TokensKept
<1> QED BY <1>1, <1>7, <1>8, <1>9, <1>10

-----------------------------------------------------------------------------
(* What is served stays served.                                            *)

Grows ==
  /\ Rows \subseteq Rows'
  /\ \A i \in Rows : inbox'[i].msg = inbox[i].msg /\ inbox'[i].owed = inbox[i].owed
  /\ runs \subseteq runs' /\ refused \subseteq refused'
  /\ \A m \in Monitors : monitor[m] = "deleted" => monitor'[m] = "deleted"

LEMMA ServedStays ==
  ASSUME Grows, NEW i \in Rows, NEW m \in Monitors, Served(m, i)
  PROVE  Served(m, i)'
BY DEF Grows, Served

LEMMA DrainStepGrows ==
  ASSUME TypeOK, KnownRows, NEW p \in Processes, DrainStep(p)
  PROVE  Grows /\ Rows' = Rows
<1>1. DrainKeeps(p)
  BY DrainStepKeeps
<1>2. Rows' = Rows /\ \A i \in Rows : inbox'[i].msg = inbox[i].msg /\ inbox'[i].owed = inbox[i].owed
  BY <1>1, RestatedRows DEF DrainKeeps
<1> QED BY <1>1, <1>2 DEF DrainKeeps, Grows

LEMMA OtherGrows ==
  ASSUME OtherKeeps PROVE Grows
BY DEF OtherKeeps, Grows

\* A step of another drain leaves the receipts of the one that has the lease alone.
LEMMA AnotherDrain ==
  ASSUME TypeOK, OwnTokens, KnownRows, NEW p \in Processes, DrainStep(p),
         NEW q \in Processes, q # p, Fenced(q)'
  PROVE  Fenced(q) /\ drain'[q] = drain[q] /\ inbox' = inbox
<1>1. DrainKeeps(p) /\ TokensKept
  BY DrainStepKeeps, DrainStepOwn
<1>2. drain'[q] = drain[q]
  BY <1>1, DrainIs DEF DrainKeeps, DrainMoves
<1>3. Fenced(q)
  BY <1>1, <1>2, FencedWas
<1>4. ~Fenced(p)
  BY <1>3, OneIsFenced
<1> QED BY <1>1, <1>2, <1>3, <1>4 DEF DrainKeeps, Restated

\* Its own steps keep its lease, as long as it has receipts to deal with.
LEMMA OwnDrain ==
  ASSUME TypeOK, OwnTokens, KnownRows, NEW p \in Processes, DrainStep(p),
         Fenced(p)', drain'[p].page # {}
  PROVE  Fenced(p)
BY DrainStepKeeps DEF DrainKeeps, DrainMoves, Fenced, Fence

\* A receipt gets its new status, and no other one does.
LEMMA MarkedRow ==
  ASSUME TypeOK, KnownRows, NEW p \in Processes, NEW status \in Statuses,
         Marked(Row(p), status), drain[p].page # {}
  PROVE  /\ Row(p) \in Rows /\ \A i \in Rows \ {Row(p)} : Received(i)' = Received(i)
         /\ \A i \in Rows : inbox'[i].status # inbox[i].status =>
              i = Row(p) /\ inbox'[i].status = status
<1>1. Row(p) \in Rows
  BY RowIsThere
<1>2. CASE inbox' = inbox
  BY <1>1, <1>2 DEF Received
<1>3. CASE inbox' = [inbox EXCEPT ![Row(p)].status = status]
  BY <1>1, <1>3, StatusChange DEF Received
<1> QED BY <1>2, <1>3 DEF Marked

\* Under the lease, a step of the drain keeps the rest of its page open.
LEMMA OwnPage ==
  ASSUME PushInv, NEW p \in Processes, DrainStep(p), Fenced(p)',
         drain'[p].for \in {"scan", "batch"}, NEW i \in drain'[p].page
  PROVE  Received(i)' \/ (drain'[p].at = "step" /\ i = Row(p)')
<1> USE DEF rows
<1>1. TypeOK /\ OwnTokens /\ KnownRows /\ PageIsOpen
  BY DEF PushInv
<1>2. Fenced(p)
  BY <1>1, OwnDrain
<1>3. drain[p].for \in {"scan", "batch"} =>
        \A j \in drain[p].page : Received(j) \/ (drain[p].at = "step" /\ j = Row(p))
  BY <1>1, <1>2 DEF PageIsOpen
<1>4. drain'[p].page \subseteq Rows /\ drain[p].page \subseteq Rows
  BY <1>1, DrainStepKeeps, DrainIs DEF DrainKeeps, DrainMoves
<1>5. inbox' = inbox => Received(i)' = Received(i)
  BY DEF Received
<1>6. CASE Tick(p) \/ Complete(p) \/ Break(p)
  BY <1>1, <1>6, TickMoves, CompleteMoves, BreakMoves
<1>7. CASE Recover(p)
  <2>1. drain'[p] = drain[p] /\ drain[p].at = "recover"
    BY <1>7 DEF Recover
  <2>2. Received(i)
    BY <1>3, <2>1
  <2>3. inbox' = inbox \/ inbox' = [inbox EXCEPT ![Least(PutBack(p))].status = "received"]
    BY <1>7 DEF Recover
  <2>4. Least(PutBack(p)) \in Rows
    BY <1>1, <1>7, RecoverMoves DEF PutBack
  <2>5. CASE inbox' = [inbox EXCEPT ![Least(PutBack(p))].status = "received"]
    BY <1>1, <1>4, <2>2, <2>4, <2>5, StatusChange DEF Received, Statuses
  <2> QED BY <1>5, <2>2, <2>3, <2>5
<1>8. CASE Pass(p)
  BY <1>1, <1>3, <1>5, <1>8, PassMoves DEF Pass
<1>9. CASE Scan(p)
  BY <1>1, <1>5, <1>9, ScanMoves DEF Scan
<1>10. CASE Window(p)
  <2>1. inbox' = inbox
    BY <1>10 DEF Window
  <2> QED BY <1>1, <1>5, <1>10, <2>1, WindowMoves
<1>11. CASE Skip(p)
  <2>1. inbox' = inbox /\ drain[p].at = "page"
    BY <1>11 DEF Skip
  <2> QED BY <1>1, <1>3, <1>5, <1>11, <2>1, SkipMoves
<1>12. ASSUME Dealt(p), drain[p].page # {}, drain[p].at \in {"page", "hand"},
              \A j \in Rows \ {Row(p)} : Received(j)' = Received(j)
       PROVE  Received(i)' \/ (drain'[p].at = "step" /\ i = Row(p)')
  <2>1. /\ drain'[p].for = drain[p].for
        /\ \/ drain'[p].at = "page" /\ drain'[p].page = drain[p].page \ {Row(p)}
           \/ drain'[p].at = "step" /\ drain'[p].page = drain[p].page
    BY <1>1, <1>12, DealtMoves
  <2>2. CASE drain'[p].at = "page" /\ drain'[p].page = drain[p].page \ {Row(p)}
    BY <1>3, <1>4, <1>12, <2>1, <2>2
  <2>3. CASE drain'[p].at = "step" /\ drain'[p].page = drain[p].page
    <3>1. Row(p)' = Row(p)
      BY <2>3 DEF Row
    <3> QED BY <1>3, <1>4, <1>12, <2>1, <2>3, <3>1
  <2> QED BY <2>1, <2>2, <2>3
<1>13. CASE PutAside(p)
  <2>1. /\ Dealt(p) /\ drain[p].page # {} /\ drain[p].at = "page"
        /\ Marked(Row(p), "unsupported")
    BY <1>13 DEF PutAside, Taken
  <2>2. \A j \in Rows \ {Row(p)} : Received(j)' = Received(j)
    BY <1>1, <2>1, MarkedRow DEF Statuses
  <2> QED BY <1>12, <2>1, <2>2
<1>14. CASE Open(p)
  <2>1. inbox' = inbox
    BY <1>14 DEF Open
  <2> QED BY <1>1, <1>3, <1>5, <1>14, <2>1, OpenMoves
<1>15. CASE \E m \in Monitors : HandOver(p, m)
  <2>1. PICK m \in Monitors : HandOver(p, m)
    BY <1>15
  <2>2. inbox' = inbox
    BY <2>1 DEF HandOver
  <2>3. /\ drain[p].at = "hand" /\ drain'[p].for = drain[p].for
        /\ drain'[p].page = drain[p].page
    BY <1>1, <2>1, HandOverMoves
  <2> QED BY <1>3, <1>5, <2>2, <2>3
<1>16. CASE Close(p)
  <2>1. Dealt(p) /\ drain[p].page # {} /\ drain[p].at = "hand"
    BY <1>1, <1>16, CloseMoves DEF Close
  <2>2. \A j \in Rows \ {Row(p)} : Received(j)' = Received(j)
    <3>1. CASE drain[p].later
      BY <1>16, <3>1 DEF Close, Received
    <3>2. CASE ~drain[p].later
      <4>1. Marked(Row(p), IF drain[p].found THEN "routed" ELSE "unmatched")
        BY <1>16, <3>2 DEF Close
      <4> QED BY <1>1, <2>1, <4>1, MarkedRow DEF Statuses
    <3> QED BY <3>1, <3>2
  <2> QED BY <1>12, <2>1, <2>2
<1>17. CASE Advance(p)
  <2>1. inbox' = inbox
    BY <1>17 DEF Advance
  <2>2. drain'[p].page = drain[p].page \ {Row(p)} /\ drain'[p].for = drain[p].for
    BY <1>1, <1>17, AdvanceMoves
  <2> QED BY <1>3, <1>5, <2>1, <2>2
<1> QED BY <1>6, <1>7, <1>8, <1>9, <1>10, <1>11, <1>13, <1>14, <1>15, <1>16, <1>17
        DEF DrainStep

\* Under the lease, a step of the drain keeps count of what it has handed over:
\* the router's monitors are all that the receipt is owed to, but for deleted
\* ones, and each verdict serves its monitor or keeps the receipt open.
LEMMA OwnHand ==
  ASSUME PushInv, NEW p \in Processes, DrainStep(p), Fenced(p)', drain'[p].at = "hand"
  PROVE  /\ Received(Row(p))'
         /\ \A m \in (inbox[Row(p)].owed)' :
              Served(m, Row(p))' \/ m \in drain'[p].todo \/ drain'[p].later
<1> USE DEF rows
<1>1. TypeOK /\ OwnTokens /\ KnownRows /\ PageIsOpen /\ HandIsTrue /\ StoredRows
  BY DEF PushInv
<1>2. Grows /\ DrainMoves(p)
  BY <1>1, DrainStepGrows, DrainStepKeeps DEF DrainKeeps
<1>3. Fenced(p)
  BY <1>1, <1>2, OwnDrain DEF DrainMoves
<1>4. CASE Open(p)
  <2> DEFINE found == {m \in Monitors : Concerns(m, inbox[Row(p)].msg)}
             todo == {m \in found : monitor[m] \in Enabled}
  <2>1. /\ drain[p].at = "page" /\ drain'[p].page = drain[p].page
        /\ drain'[p].todo = todo /\ drain'[p].later = (todo # found)
    BY <1>1, <1>4, OpenMoves
  <2>2. /\ inbox' = inbox /\ drain[p].page # {}
        /\ drain[p].for = "hint" => Received(Row(p))
    BY <1>4 DEF Open, Taken
  <2>3. Row(p)' = Row(p)
    BY <2>1 DEF Row
  <2>4. Row(p) \in drain[p].page /\ Row(p) \in Rows
    BY <1>1, <2>2, RowIsThere
  <2>5. Received(Row(p))
    <3>1. CASE drain[p].for \in {"scan", "batch"}
      BY <1>1, <1>3, <2>1, <2>4, <3>1 DEF PageIsOpen
    <3>2. CASE drain[p].for = "hint"
      BY <2>2, <3>2
    <3>3. drain[p].for # "none"
      BY <1>1, <2>2 DEF KnownRows
    <3>4. drain[p].for \in {"none", "hint", "scan", "batch"}
      BY <1>1, DrainIs DEF Drains
    <3> QED BY <3>1, <3>2, <3>3, <3>4
  <2>6. ASSUME NEW m \in inbox[Row(p)].owed
        PROVE  Served(m, Row(p))' \/ m \in todo \/ todo # found
    <3>1. m \in Monitors /\ PostOf[inbox[Row(p)].msg] \in Watches[m]
      BY <1>1, <2>4, RowsAre DEF StoredRows, Receipts
    <3>2. monitor[m] \in Present \/ monitor[m] = "deleted"
      BY <1>1, <3>1, PartsAre
    <3>3. CASE monitor[m] \in Present
      <4>1. m \in found
        BY <3>1, <3>3 DEF Concerns
      <4> QED BY <4>1
    <3>4. CASE monitor[m] = "deleted"
      <4>1. Served(m, Row(p))
        BY <3>4 DEF Served
      <4>2. Served(m, Row(p))'
        BY <1>2, <2>3, <2>4, <3>1, <4>1, ServedStays
      <4> QED BY <4>2
    <3> QED BY <3>2, <3>3, <3>4
  <2> HIDE DEF todo, found
  <2>7. Received(Row(p))'
    BY <2>2, <2>3, <2>5 DEF Received
  <2> QED BY <2>1, <2>2, <2>3, <2>6, <2>7
<1>5. CASE \E m \in Monitors : HandOver(p, m)
  <2>1. PICK n \in Monitors : HandOver(p, n)
    BY <1>5
  <2>2. inbox' = inbox /\ monitor' = monitor
    BY <2>1 DEF HandOver, owner
  <2>3. /\ drain[p].at = "hand" /\ drain'[p].page = drain[p].page
        /\ drain'[p].todo = drain[p].todo \ {n}
        /\ drain[p].later => drain'[p].later
    BY <1>1, <2>1, HandOverMoves
  <2>4. Row(p)' = Row(p)
    BY <2>3 DEF Row
  <2>5. Row(p) \in Rows
    BY <1>1, <2>3, DrainIs, RowIsThere
  <2>6. /\ Received(Row(p))
        /\ \A m \in inbox[Row(p)].owed :
             Served(m, Row(p)) \/ m \in drain[p].todo \/ drain[p].later
    BY <1>1, <1>3, <2>3 DEF HandIsTrue
  <2>7. Served(n, Row(p))' \/ drain'[p].later
    <3>1. \/ runs' = runs \cup {<<n, PostOf[inbox[Row(p)].msg]>>}
          \/ refused' = refused \cup {<<n, Row(p)>>}
          \/ drain'[p].later
          \/ inbox[Row(p)].status \notin {"received", "routed"}
          \/ monitor[n] = "deleted"
      BY <1>1, <2>1, HandOverMoves
    <3>2. inbox[Row(p)].status = "received"
      BY <2>6 DEF Received
    <3> QED BY <2>2, <2>4, <3>1, <3>2 DEF Served
  <2>8. ASSUME NEW m \in inbox[Row(p)].owed
        PROVE  Served(m, Row(p))' \/ m \in drain'[p].todo \/ drain'[p].later
    <3>1. m \in Monitors
      BY <1>1, <2>5, RowsAre DEF Receipts
    <3>2. CASE Served(m, Row(p))
      <4>1. Served(m, Row(p))'
        BY <1>2, <2>4, <2>5, <3>1, <3>2, ServedStays
      <4> QED BY <4>1
    <3> QED BY <2>3, <2>6, <2>7, <3>2
  <2>9. Received(Row(p))'
    BY <2>2, <2>4, <2>6 DEF Received
  <2> QED BY <2>2, <2>4, <2>8, <2>9
<1>6. ASSUME ~Open(p), ~\E m \in Monitors : HandOver(p, m)
      PROVE  FALSE
  <2>1. CASE Tick(p) \/ Complete(p) \/ Break(p) \/ Pass(p) \/ Scan(p) \/ Window(p)
    BY <1>1, <2>1, TickMoves, CompleteMoves, BreakMoves, PassMoves, ScanMoves, WindowMoves
  <2>2. CASE Skip(p) \/ Advance(p)
    BY <1>1, <2>2, SkipMoves, AdvanceMoves
  <2>3. CASE Recover(p)
    BY <2>3 DEF Recover
  <2>4. CASE PutAside(p) \/ Close(p)
    <3>1. Dealt(p) /\ drain[p].page # {}
      BY <1>1, <2>4, PutAsideMoves, CloseMoves
    <3> QED BY <1>1, <3>1, DealtMoves
  <2> QED BY <1>6, <2>1, <2>2, <2>3, <2>4 DEF DrainStep
<1> QED BY <1>4, <1>5, <1>6

\* A step of a drain closes a receipt only when it is served.
LEMMA OwnClosing ==
  ASSUME PushInv, NEW p \in Processes, DrainStep(p), NEW i \in Rows,
         inbox'[i].status \in {"routed", "unmatched"}, NEW m \in inbox[i].owed
  PROVE  Served(m, i)'
<1> USE DEF rows
<1>1. TypeOK /\ KnownRows /\ HandIsTrue /\ ClosedIsServed
  BY DEF PushInv
<1>2. Grows /\ m \in Monitors
  BY <1>1, DrainStepGrows, RowsAre DEF Receipts
<1>3. CASE inbox'[i].status = inbox[i].status
  BY <1>1, <1>2, <1>3, ServedStays DEF ClosedIsServed
<1>4. CASE inbox'[i].status # inbox[i].status
  <2>1. CASE Recover(p)
    <3>1. Least(PutBack(p)) \in Rows /\ "received" \in Statuses
      BY <1>1, <2>1, RecoverMoves DEF PutBack, Statuses
    <3>2. inbox' = [inbox EXCEPT ![Least(PutBack(p))].status = "received"]
      BY <1>4, <2>1 DEF Recover
    <3>3. inbox'[i].status \in {"received", inbox[i].status}
      BY <1>1, <3>1, <3>2, StatusChange
    <3> QED BY <1>4, <3>3
  <2>2. CASE PutAside(p)
    <3>1. Marked(Row(p), "unsupported") /\ drain[p].page # {} /\ "unsupported" \in Statuses
      BY <2>2 DEF PutAside, Taken, Statuses
    <3>2. inbox'[i].status = "unsupported"
      BY <1>1, <1>4, <3>1, MarkedRow
    <3> QED BY <3>2
  <2>3. CASE Close(p)
    <3>1. ~drain[p].later /\ Fenced(p) /\ drain[p].at = "hand" /\ drain[p].todo = {}
          /\ Marked(Row(p), IF drain[p].found THEN "routed" ELSE "unmatched")
      BY <1>4, <2>3 DEF Close
    <3>2. i = Row(p)
      BY <1>1, <1>4, <2>3, <3>1, CloseMoves, MarkedRow DEF Statuses
    <3>3. Served(m, i)
      BY <1>1, <3>1, <3>2 DEF HandIsTrue
    <3> QED BY <1>2, <3>3, ServedStays
  <2>4. CASE inbox' = inbox
    BY <1>4, <2>4
  <2>5. inbox' = inbox \/ Recover(p) \/ PutAside(p) \/ Close(p)
    BY DEF DrainStep, Tick, Pass, Scan, Window, Complete, Skip, Open, HandOver, Advance, Break
  <2> QED BY <2>1, <2>2, <2>3, <2>4, <2>5
<1> QED BY <1>3, <1>4

-----------------------------------------------------------------------------
(* The invariant.                                                          *)

\* What is not a step of a drain.
OtherStep ==
  \/ \E p \in Processes : SessionStep(p) \/ Crash(p)
  \/ Environment \/ UNCHANGED vars

\* Notifications that are stored stay stored.
LEMMA StoredStay ==
  ASSUME AckedIsStored, StoredRows, Grows, service' = service,
         \A q \in Processes : session'[q].at = "stored" => session'[q] = session[q],
         \A i \in Rows' \ Rows :
           \A m \in inbox'[i].owed : PostOf[inbox'[i].msg] \in Watches[m]
  PROVE  AckedIsStored' /\ StoredRows'
<1>1. \A x \in Messages : (\E i \in Rows : inbox[i].msg = x) => \E i \in Rows' : inbox'[i].msg = x
  BY DEF Grows
<1>2. AckedIsStored'
  BY <1>1 DEF AckedIsStored
<1>3. \A i \in Rows' : \A m \in inbox'[i].owed : PostOf[inbox'[i].msg] \in Watches[m]
  BY DEF Grows, StoredRows
<1>4. ASSUME NEW q \in Processes, session'[q].at = "stored", NEW x \in session'[q].msg
      PROVE  \E i \in Rows' : inbox'[i].msg = x
  <2>1. session'[q] = session[q]
    BY <1>4
  <2>2. PICK i \in Rows : inbox[i].msg = x
    BY <1>4, <2>1 DEF StoredRows
  <2>3. i \in Rows' /\ inbox'[i].msg = x
    BY <2>2 DEF Grows
  <2> QED BY <2>3
<1> QED BY <1>2, <1>3, <1>4 DEF StoredRows

LEMMA OtherStepKeeps ==
  ASSUME PushInv, OtherStep
  PROVE  /\ TypeOK' /\ OwnTokens' /\ KnownRows' /\ OtherKeeps
         /\ AckedIsStored' /\ StoredRows'
         /\ \A q \in Processes : Fenced(q)' /\ drain'[q] = drain[q] => Fenced(q)
<1> USE DEF rows, owner, queue, counters
<1>1. TypeOK /\ OwnTokens /\ KnownRows /\ AckedIsStored /\ StoredRows
  BY DEF PushInv
<1>2. TokensKept =>
        OwnTokens' /\ \A q \in Processes : Fenced(q)' /\ drain'[q] = drain[q] => Fenced(q)
  BY <1>1, OwnTokensStay, FencedWas
<1>3. ASSUME OtherKeeps, service' = service,
             \A q \in Processes : session'[q].at = "stored" => session'[q] = session[q]
      PROVE  AckedIsStored' /\ StoredRows'
  BY <1>1, <1>3, OtherGrows, StoredStay DEF OtherKeeps
<1>4. ASSUME NEW p \in Processes, Connect(p)
      PROVE  /\ TypeOK' /\ OwnTokens' /\ KnownRows' /\ OtherKeeps
             /\ AckedIsStored' /\ StoredRows'
             /\ \A q \in Processes : ~Fenced(q)'
  <2>1. service' = service
    BY <1>4 DEF Connect
  <2> QED BY <1>1, <1>3, <1>4, <2>1, ConnectOpens
<1>5. ASSUME NEW p \in Processes, NEW x \in Messages, Receive(p, x)
      PROVE  TypeOK' /\ KnownRows' /\ TokensKept /\ OtherKeeps /\ AckedIsStored' /\ StoredRows'
  <2>1. /\ TypeOK' /\ KnownRows' /\ TokensKept /\ OtherKeeps
        /\ \E i \in Rows' : inbox'[i].msg = x
        /\ session'[p].msg = {x} /\ \A q \in Processes \ {p} : session'[q] = session[q]
    BY <1>1, <1>5, ReceiveStores
  <2>2. service' = service
    BY <1>5 DEF Receive
  <2>3. Grows
    BY <2>1, OtherGrows
  <2>4. AckedIsStored'
    BY <1>1, <2>2, <2>3 DEF AckedIsStored, Grows
  <2>5. \A i \in Rows' : \A m \in inbox'[i].owed : PostOf[inbox'[i].msg] \in Watches[m]
    BY <1>1, <2>1 DEF OtherKeeps, StoredRows
  <2>6. ASSUME NEW q \in Processes, session'[q].at = "stored", NEW y \in session'[q].msg
        PROVE  \E i \in Rows' : inbox'[i].msg = y
    <3>1. CASE q = p
      BY <2>1, <2>6, <3>1
    <3>2. CASE q # p
      <4>1. PICK i \in Rows : inbox[i].msg = y
        BY <1>1, <2>1, <2>6, <3>2 DEF StoredRows
      <4>2. i \in Rows' /\ inbox'[i].msg = y
        BY <2>3, <4>1 DEF Grows
      <4> QED BY <4>2
    <3> QED BY <3>1, <3>2
  <2> QED BY <2>1, <2>4, <2>5, <2>6 DEF StoredRows
<1>6. ASSUME NEW p \in Processes, Acknowledge(p)
      PROVE  TypeOK' /\ KnownRows' /\ TokensKept /\ OtherKeeps /\ AckedIsStored' /\ StoredRows'
  <2>1. /\ TypeOK' /\ KnownRows' /\ TokensKept /\ OtherKeeps
        /\ session[p].at = "stored" /\ service' = service \ session[p].msg
        /\ inbox' = inbox
        /\ \A q \in Processes : session'[q].at = "stored" => session'[q] = session[q]
    BY <1>1, <1>6, AcknowledgeWakes
  <2>2. Rows' = Rows
    BY <2>1 DEF Rows
  <2>3. AckedIsStored'
    BY <1>1, <2>1, <2>2 DEF AckedIsStored, StoredRows
  <2>4. StoredRows'
    BY <1>1, <2>1, <2>2 DEF StoredRows
  <2> QED BY <2>1, <2>3, <2>4
<1>7. ASSUME NEW p \in Processes, Disconnect(p) \/ Reconcile(p) \/ Crash(p)
      PROVE  TypeOK' /\ KnownRows' /\ TokensKept /\ OtherKeeps /\ AckedIsStored' /\ StoredRows'
  <2>1. /\ session' = [session EXCEPT ![p] = NoSession]
        /\ receiver' = receiver \/ receiver' = Released(session[p].token)
        /\ \/ drain' = drain /\ memory' = memory
           \/ drain' = [drain EXCEPT ![p] = Idle] /\ memory' = [memory EXCEPT ![p] = Blank]
        /\ UNCHANGED <<service, inbox, due, monitor, mode, runs, refused, issued>>
        /\ Disturbance \/ disturbed' = disturbed
    BY <1>7 DEF Disconnect, Reconcile, Crash
  <2>2. /\ TypeOK' /\ KnownRows' /\ TokensKept /\ OtherKeeps
        /\ \A q \in Processes : session'[q].at = "stored" => session'[q] = session[q]
    BY <1>1, <2>1, SessionEnds
  <2> QED BY <1>3, <2>1, <2>2
<1>8. ASSUME Environment
      PROVE  TypeOK' /\ KnownRows' /\ TokensKept /\ OtherKeeps /\ AckedIsStored' /\ StoredRows'
  BY <1>1, <1>3, <1>8, EnvironmentKeeps
<1>9. ASSUME UNCHANGED vars
      PROVE  TypeOK' /\ KnownRows' /\ TokensKept /\ OtherKeeps /\ AckedIsStored' /\ StoredRows'
  <2> USE DEF vars
  <2>1. TypeOK' /\ KnownRows'
    BY <1>1, <1>9 DEF TypeOK, KnownRows, Rows
  <2>2. TokensKept /\ OtherKeeps
    BY <1>9 DEF TokensKept, OtherKeeps, Rows
  <2> QED BY <1>3, <1>9, <2>1, <2>2
<1> QED BY <1>2, <1>4, <1>5, <1>6, <1>7, <1>8, <1>9 DEF OtherStep, SessionStep

LEMMA OtherStepInv ==
  ASSUME PushInv, OtherStep
  PROVE  PushInv'
<1>1. /\ TypeOK' /\ OwnTokens' /\ KnownRows' /\ AckedIsStored' /\ StoredRows'
      /\ OtherKeeps /\ Grows /\ TypeOK /\ KnownRows
  BY OtherStepKeeps, OtherGrows DEF PushInv
<1>2. ASSUME NEW q \in Processes, Fenced(q)', drain'[q].page # {} \/ drain'[q].at = "hand"
      PROVE  Fenced(q) /\ drain'[q] = drain[q] /\ Row(q)' = Row(q)
  <2>1. drain'[q] = drain[q]
    BY <1>1, <1>2 DEF OtherKeeps
  <2> QED BY <1>2, <2>1, OtherStepKeeps DEF Row
<1>3. \A i \in Rows : Received(i)' = Received(i) /\ inbox'[i] = inbox[i]
  BY <1>1 DEF OtherKeeps, Received
<1>4. PageIsOpen'
  <2> SUFFICES ASSUME NEW q \in Processes, Fenced(q)', drain'[q].for \in {"scan", "batch"},
                      NEW i \in drain'[q].page
               PROVE  Received(i)' \/ (drain'[q].at = "step" /\ i = Row(q)')
    BY DEF PageIsOpen
  <2>1. Fenced(q) /\ drain'[q] = drain[q] /\ Row(q)' = Row(q)
    BY <1>2
  <2>2. i \in Rows
    BY <1>1, <2>1 DEF KnownRows
  <2> QED BY <1>3, <2>1, <2>2 DEF PushInv, PageIsOpen
<1>5. HandIsTrue'
  <2> SUFFICES ASSUME NEW q \in Processes, Fenced(q)', drain'[q].at = "hand"
               PROVE  /\ Received(Row(q))'
                      /\ \A m \in (inbox[Row(q)].owed)' :
                           Served(m, Row(q))' \/ m \in drain'[q].todo \/ drain'[q].later
    BY DEF HandIsTrue
  <2>1. Fenced(q) /\ drain'[q] = drain[q] /\ Row(q)' = Row(q)
    BY <1>2
  <2>2. Row(q) \in Rows
    BY <1>1, <2>1, DrainIs, RowIsThere
  <2>3. /\ Received(Row(q))
        /\ \A m \in inbox[Row(q)].owed :
             Served(m, Row(q)) \/ m \in drain[q].todo \/ drain[q].later
    BY <2>1 DEF PushInv, HandIsTrue
  <2>4. ASSUME NEW m \in inbox[Row(q)].owed
        PROVE  Served(m, Row(q))' \/ m \in drain'[q].todo \/ drain'[q].later
    <3>1. m \in Monitors
      BY <1>1, <2>2, RowsAre DEF Receipts
    <3>2. Served(m, Row(q)) => Served(m, Row(q))'
      <4>1. ASSUME Served(m, Row(q)) PROVE Served(m, Row(q))'
        BY <1>1, <2>1, <2>2, <3>1, <4>1 DEF Grows, Served
      <4> QED BY <4>1
    <3> QED BY <2>1, <2>3, <3>2
  <2>5. (inbox[Row(q)].owed)' = inbox[Row(q)].owed
    BY <1>3, <2>1, <2>2
  <2>6. Received(Row(q))'
    BY <1>3, <2>1, <2>2, <2>3 DEF Received
  <2> QED BY <2>4, <2>5, <2>6
<1>6. ClosedIsServed'
  <2> SUFFICES ASSUME NEW i \in Rows', inbox'[i].status \in {"routed", "unmatched"},
                      NEW m \in inbox'[i].owed
               PROVE  Served(m, i)'
    BY DEF ClosedIsServed
  <2>1. i \in Rows
    BY <1>1 DEF OtherKeeps
  <2>2. m \in Monitors /\ Served(m, i)
    BY <1>1, <1>3, <2>1, RowsAre DEF PushInv, ClosedIsServed, Receipts
  <2> QED BY <1>1, <2>1, <2>2, ServedStays
<1> QED BY <1>1, <1>4, <1>5, <1>6 DEF PushInv

LEMMA DrainStepInv ==
  ASSUME PushInv, NEW p \in Processes, DrainStep(p)
  PROVE  PushInv'
<1>1. TypeOK /\ OwnTokens /\ KnownRows /\ AckedIsStored /\ StoredRows
  BY DEF PushInv
<1>2. /\ TypeOK' /\ KnownRows' /\ OwnTokens' /\ Grows /\ Rows' = Rows /\ DrainKeeps(p)
  BY <1>1, DrainStepTyped, DrainStepOwn, DrainStepGrows, DrainStepKeeps
<1>3. AckedIsStored' /\ StoredRows'
  BY <1>1, <1>2, StoredStay DEF DrainKeeps
<1>4. PageIsOpen'
  <2> SUFFICES ASSUME NEW q \in Processes, Fenced(q)', drain'[q].for \in {"scan", "batch"},
                      NEW i \in drain'[q].page
               PROVE  Received(i)' \/ (drain'[q].at = "step" /\ i = Row(q)')
    BY DEF PageIsOpen
  <2>1. CASE q = p
    BY <2>1, OwnPage
  <2>2. CASE q # p
    <3>1. Fenced(q) /\ drain'[q] = drain[q] /\ inbox' = inbox
      BY <1>1, <2>2, AnotherDrain
    <3>2. Row(q)' = Row(q)
      BY <3>1 DEF Row
    <3> QED BY <3>1, <3>2 DEF PushInv, PageIsOpen, Received
  <2> QED BY <2>1, <2>2
<1>5. HandIsTrue'
  <2> SUFFICES ASSUME NEW q \in Processes, Fenced(q)', drain'[q].at = "hand"
               PROVE  /\ Received(Row(q))'
                      /\ \A m \in (inbox[Row(q)].owed)' :
                           Served(m, Row(q))' \/ m \in drain'[q].todo \/ drain'[q].later
    BY DEF HandIsTrue
  <2>1. CASE q = p
    BY <2>1, OwnHand
  <2>2. CASE q # p
    <3>1. Fenced(q) /\ drain'[q] = drain[q] /\ inbox' = inbox
      BY <1>1, <2>2, AnotherDrain
    <3>2. Row(q)' = Row(q)
      BY <3>1 DEF Row
    <3>3. Row(q) \in Rows
      BY <1>1, <3>1, DrainIs, RowIsThere
    <3>4. /\ Received(Row(q))
          /\ \A m \in inbox[Row(q)].owed :
               Served(m, Row(q)) \/ m \in drain[q].todo \/ drain[q].later
      BY <3>1 DEF PushInv, HandIsTrue
    <3>5. ASSUME NEW m \in inbox[Row(q)].owed
          PROVE  Served(m, Row(q))' \/ m \in drain'[q].todo \/ drain'[q].later
      <4>1. m \in Monitors
        BY <1>1, <3>3, RowsAre DEF Receipts
      <4>2. ASSUME Served(m, Row(q)) PROVE Served(m, Row(q))'
        BY <1>2, <3>1, <3>2, <3>3, <4>1, <4>2 DEF Grows, Served
      <4> QED BY <3>1, <3>4, <4>2
    <3>6. Received(Row(q))' /\ (inbox[Row(q)].owed)' = inbox[Row(q)].owed
      BY <3>1, <3>2, <3>4 DEF Received
    <3> QED BY <3>5, <3>6
  <2> QED BY <2>1, <2>2
<1>6. ClosedIsServed'
  <2> SUFFICES ASSUME NEW i \in Rows', inbox'[i].status \in {"routed", "unmatched"},
                      NEW m \in inbox'[i].owed
               PROVE  Served(m, i)'
    BY DEF ClosedIsServed
  <2>1. i \in Rows /\ inbox'[i].owed = inbox[i].owed
    BY <1>2 DEF Grows
  <2> QED BY <2>1, OwnClosing
<1> QED BY <1>2, <1>3, <1>4, <1>5, <1>6 DEF PushInv

LEMMA InitInv ==
  ASSUME Init PROVE PushInv
<1> USE DEF Init
<1>1. NoSession \in Sessions /\ Idle \in Drains /\ Blank \in Memories
  BY DEF NoSession, Sessions, Idle, Drains, Blank, Memories
<1>2. receiver \in Receivers /\ inbox \in Seq(Receipts) /\ disturbed \in 0..MaxDisturbances
  BY PushAssumption DEF Receivers
<1>3. TypeOK
  BY <1>1, <1>2, PushAssumption DEF TypeOK, Present, Enabled
<1>4. Rows = {}
  BY DEF Rows
<1>5. OwnTokens
  BY DEF OwnTokens, NoSession, Idle
<1>6. KnownRows
  BY <1>4 DEF KnownRows, NoSession, Idle, Blank
<1>7. StoredRows /\ PageIsOpen /\ HandIsTrue
  BY <1>4 DEF StoredRows, PageIsOpen, HandIsTrue, NoSession, Idle
<1>8. AckedIsStored /\ ClosedIsServed
  BY <1>4 DEF AckedIsStored, ClosedIsServed
<1> QED BY <1>3, <1>5, <1>6, <1>7, <1>8 DEF PushInv

\* What the subscription's rows and the processes know of each other holds after
\* every step, whoever fails, crashes or loses its lease: the receipts of a page
\* are open under the lease, and what is handed over is accounted for.
THEOREM PushInvariant == Spec => []PushInv
<1>1. Init => PushInv
  BY InitInv
<1>2. PushInv /\ [Next]_vars => PushInv'
  <2> SUFFICES ASSUME PushInv, [Next]_vars PROVE PushInv'
    OBVIOUS
  <2>1. OtherStep \/ \E p \in Processes : DrainStep(p)
    BY DEF Next, OtherStep, Environment
  <2> QED BY <2>1, OtherStepInv, DrainStepInv
<1> QED BY <1>1, <1>2, PTL DEF Spec

\* The rows of a subscription and what the processes keep have their types.
THEOREM PushTyped == Spec => []TypeOK
<1>1. PushInv => TypeOK
  BY DEF PushInv
<1> QED BY <1>1, PushInvariant, PTL

\* A notification that was acknowledged is stored, and no receipt is closed
\* before each of its monitors was served, refused or deleted.
THEOREM PushLosesNothing == Spec => []NothingLost
<1>1. PushInv => NothingLost
  BY DEF PushInv, NothingLost
<1> QED BY <1>1, PushInvariant, PTL
=============================================================================
