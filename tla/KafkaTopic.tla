----------------------------- MODULE KafkaTopic -----------------------------
(***************************************************************************)
(* The topic a service consumes and the commit of the consumer it shares   *)
(* with the other service (pkg/kafka/consumer.go): records are partitions  *)
(* and offsets, and CommitRecords turns a batch of records into offsets.   *)
(***************************************************************************)
EXTENDS Integers, FiniteSetsExt

CONSTANTS
    Partitions,     \* the partitions of device.metrics
    MaxOffset       \* bound: the records a partition ever holds

ASSUME TopicAssumption == IsFiniteSet(Partitions) /\ MaxOffset \in Nat

Offsets == 0 .. MaxOffset
Records == Partitions \X (0 .. MaxOffset - 1)

(* The records of every partition whose offset is below limit.             *)
Below(limit) == {r \in Records : r[2] < limit[r[1]]}

(* No partition of low is ahead of the same partition of high.             *)
NoneAbove(low, high) == \A p \in Partitions : low[p] <= high[p]

(* r is the first record of its partition in S.                            *)
IsFirst(r, S) == \A s \in S : s[1] = r[1] => r[2] <= s[2]

(* The offsets the client sends to commit the records of S in the          *)
(* partitions of parts, when old are committed: one past the last record.  *)
OffsetsIn(S, p) == {r[2] : r \in {q \in S : q[1] = p}}
CommitPast(S, old, parts) ==    \* mutant: the caller adds the one again
    [p \in Partitions |-> IF p \in parts /\ OffsetsIn(S, p) # {}
                          THEN 2 + Max(OffsetsIn(S, p))
                          ELSE old[p]]
CommitTarget(S, old, parts) ==
    [p \in Partitions |-> IF p \in parts /\ OffsetsIn(S, p) # {}
                          THEN 1 + Max(OffsetsIn(S, p))
                          ELSE old[p]]
=============================================================================
