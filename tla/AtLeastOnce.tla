---------------------------- MODULE AtLeastOnce ----------------------------
(***************************************************************************)
(* What a consumer with manual offset commits promises, whatever it does   *)
(* with the records (ADR-002 as the code states it, pkg/kafka/consumer.go  *)
(* lines 13-25): a record is handled only after it was delivered, the      *)
(* committed offset of a partition never goes back and never passes a      *)
(* record that was not handled, and a restart delivers again from the      *)
(* committed offset.  A record may be handled any number of times.         *)
(***************************************************************************)
EXTENDS KafkaTopic

VARIABLES
    produced,       \* [Partitions -> Offsets]: the log end of each partition,
                    \* which may hold records from the start
    position,       \* [Partitions -> Offsets]: the next offset to deliver
    committed,      \* [Partitions -> Offsets]: the group's committed offset
    handled         \* the records handled at least once

vars == <<produced, position, committed, handled>>

TypeOK == /\ produced \in [Partitions -> Offsets]
          /\ position \in [Partitions -> Offsets]
          /\ committed \in [Partitions -> Offsets]
          /\ handled \subseteq Records

Init == /\ produced \in [Partitions -> Offsets]
        /\ position = [p \in Partitions |-> 0]
        /\ committed = [p \in Partitions |-> 0]
        /\ handled = {}

Append == /\ produced' \in [Partitions -> Offsets]
          /\ NoneAbove(produced, produced')
          /\ UNCHANGED <<position, committed, handled>>

Deliver == /\ position' \in [Partitions -> Offsets]
           /\ NoneAbove(position, position')
           /\ NoneAbove(position', produced)
           /\ UNCHANGED <<produced, committed, handled>>

Handle == /\ handled \subseteq handled'
          /\ handled' \subseteq handled \union Below(position)
          /\ UNCHANGED <<produced, position, committed>>

Commit == /\ committed' \in [Partitions -> Offsets]
          /\ NoneAbove(committed, committed')
          /\ NoneAbove(committed', position)
          /\ Below(committed') \subseteq handled
          /\ UNCHANGED <<produced, position, handled>>

Rewind == /\ position' = committed
          /\ UNCHANGED <<produced, committed, handled>>

Next == Append \/ Deliver \/ Handle \/ Commit \/ Rewind

Spec == Init /\ [][Next]_vars
=============================================================================
