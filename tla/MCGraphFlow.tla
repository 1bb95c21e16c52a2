----------------------------- MODULE MCGraphFlow -----------------------------
(* Small graphs for TLC. *)
EXTENDS GraphFlow

Edge(i, f, p, t) == [id |-> i, from |-> f, port |-> p, to |-> t]

\* A batch joined with a branch that waits; what leaves the join is limited by
\* key before it is sent.
JoinNodes == {"start", "batch", "later", "join", "gate", "send"}
JoinEdges == {Edge("sb", "start", "out", "batch"), Edge("bj", "batch", "out", "join"),
              Edge("sl", "start", "out", "later"), Edge("lj", "later", "out", "join"),
              Edge("jg", "join", "out", "gate"), Edge("gs", "gate", "out", "send")}

\* A batch and a branch that waits pass the same limit before a join.
WaitEdges == {Edge("sb", "start", "out", "batch"), Edge("bg", "batch", "out", "gate"),
              Edge("sl", "start", "out", "later"), Edge("lg", "later", "out", "gate"),
              Edge("gj", "gate", "out", "join"), Edge("js", "join", "out", "send")}

\* Limits count the events by their own key.
ByKey == [n \in Nodes |-> [r \in Runs |->
            IF Type[n] = "limit" /\ r # "r1" THEN "k2" ELSE "k1"]]
SameDest == [r \in Runs |-> "d"]

\* Two ways into the batch, one of which may wait, and a direct one to the join.
TwiceNodes == {"start", "later", "batch", "join", "send"}
TwiceEdges == {Edge("sb", "start", "out", "batch"), Edge("sl", "start", "out", "later"),
               Edge("lb", "later", "out", "batch"), Edge("bj", "batch", "out", "join"),
               Edge("sj", "start", "out", "join"), Edge("js", "join", "out", "send")}

\* A batch of batches next to a direct way to the join.
NestedNodes == {"start", "batch", "again", "join", "send"}
NestedEdges == {Edge("sb", "start", "out", "batch"), Edge("ba", "batch", "out", "again"),
                Edge("aj", "again", "out", "join"), Edge("sj", "start", "out", "join"),
                Edge("js", "join", "out", "send")}

ByName == [n \in Nodes |->
  CASE n = "start" -> "start" [] n \in {"batch", "again"} -> "aggregate"
    [] n = "gate" -> "limit" [] n = "later" -> "delay"
    [] n = "join" -> "merge" [] OTHER -> "send"]
==============================================================================
