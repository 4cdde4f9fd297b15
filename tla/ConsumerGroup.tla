---------------------------- MODULE ConsumerGroup ----------------------------
(***************************************************************************)
(* Several instances of one service in its consumer group: joining,        *)
(* rebalances and the gate that blocks them (pkg/kafka/consumer.go),       *)
(* timeouts of the coordinator, crashes, and instances the group has       *)
(* dropped that go on polling.                                             *)
(*                                                                         *)
(* An instance is one process: a restart is another instance.  Its loop is *)
(* reduced to what both services do: poll, handle the records in order,    *)
(* commit what was handled.  The ingestor may poll again before it commits,*)
(* the processor does not; here any instance may.  Module Ingestor has the *)
(* loop in full, Processor the other one.                                  *)
(*                                                                         *)
(* Abstractions.  The topic is full from the start and a poll returns some *)
(* of it.  The rounds of a cooperative rebalance are one step, which may   *)
(* assign any partition to any instance of the group.  An instance that    *)
(* hangs in Close heartbeats and does nothing else: it is one that is up   *)
(* and takes no step.                                                      *)
(***************************************************************************)
EXTENDS KafkaTopic

CONSTANTS
    Instances,      \* the processes ever started
    None            \* the owner of a partition nobody owns

ASSUME GroupAssumption ==
    /\ IsFiniteSet(Instances) /\ Instances # {}
    /\ None \notin Instances

VARIABLES
    \* the coordinator
    committed,      \* [Partitions -> Offsets]
    standing,       \* [Instances -> {"out", "joining", "member"}]
    assignment,     \* [Partitions -> Instances \union {None}]
    \* the processes
    process,        \* [Instances -> {"new", "up", "down"}]
    owned,          \* [Instances -> SUBSET Partitions]: as the client sees it
    position,       \* [Instances -> [Partitions -> Offsets]]: next to fetch
    fetched,        \* [Instances -> SUBSET Records]: polled, not handled yet
    toCommit,       \* [Instances -> SUBSET Records]: handled since the commit
    gate,           \* [Instances -> BOOLEAN]: a poll blocks rebalances
    \* history
    windows         \* [Instances -> SUBSET Records]: handled by that process

coordinator == <<committed, standing, assignment>>
client == <<owned, position>>
hands == <<fetched, toCommit, windows>>
vars == <<coordinator, process, client, hands, gate>>

TypeOK ==
    /\ committed \in [Partitions -> Offsets]
    /\ standing \in [Instances -> {"out", "joining", "member"}]
    /\ assignment \in [Partitions -> Instances \union {None}]
    /\ process \in [Instances -> {"new", "up", "down"}]
    /\ owned \in [Instances -> SUBSET Partitions]
    /\ position \in [Instances -> [Partitions -> Offsets]]
    /\ fetched \in [Instances -> SUBSET Records]
    /\ toCommit \in [Instances -> SUBSET Records]
    /\ gate \in [Instances -> BOOLEAN]
    /\ windows \in [Instances -> SUBSET Records]

Group == {i \in Instances : standing[i] # "out"}
Up(i) == process[i] = "up"

-----------------------------------------------------------------------------
(* NewConsumer: the client joins the group in the background at once.      *)
Start(i) ==
    /\ process[i] = "new"
    /\ process' = [process EXCEPT ![i] = "up"]
    /\ standing' = [standing EXCEPT ![i] = "joining"]
    /\ UNCHANGED <<committed, assignment, client, hands, gate>>

(* i is out of the group, and what it owned is free.                       *)
Drop(i) ==
    /\ standing' = [standing EXCEPT ![i] = "out"]
    /\ assignment' = [p \in Partitions |->
                        IF assignment[p] = i THEN None ELSE assignment[p]]
    /\ UNCHANGED committed

Vanish(i) ==
    /\ process' = [process EXCEPT ![i] = "down"]
    /\ owned' = [owned EXCEPT ![i] = {}]
    /\ fetched' = [fetched EXCEPT ![i] = {}]
    /\ toCommit' = [toCommit EXCEPT ![i] = {}]
    /\ UNCHANGED <<position, gate, windows>>

(* A crash, or os.Exit(1) when a later step of main's startup fails: the   *)
(* coordinator notices only when the session times out.                    *)
Crash(i) ==
    /\ Up(i)
    /\ Vanish(i)
    /\ UNCHANGED coordinator

(* Close leaves the group, once no poll blocks rebalances.                 *)
Close(i) ==
    /\ Up(i) /\ fetched[i] = {} /\ ~gate[i]
    /\ Vanish(i)
    /\ Drop(i)

-----------------------------------------------------------------------------
(* A rebalance is due when somebody joins or a partition is nobody's.      *)
RebalanceDue ==
    \/ \E i \in Group : standing[i] = "joining"
    \/ Group # {} /\ \E p \in Partitions : assignment[p] = None

(* A member joins again when its client hears of the rebalance, unless a   *)
(* poll blocks it.                                                         *)
Rejoins(i) == standing[i] = "joining" \/ (Up(i) /\ ~gate[i])

(* A partition that is new to an instance is fetched from the offset the   *)
(* group has committed; one it keeps is fetched on.                        *)
ResumeAtFetched(p) ==   \* mutant: as if polls committed what they return
    Max({position[i][p] : i \in Instances})
ResumePoint(p) == committed[p]
Rebalance ==
    /\ RebalanceDue
    /\ \A i \in Group : Rejoins(i)
    /\ assignment' \in [Partitions -> Group]
    /\ standing' = [i \in Instances |->
                      IF i \in Group THEN "member" ELSE "out"]
    /\ owned' = [i \in Instances |->
                   IF i \in Group /\ Up(i)
                   THEN {p \in Partitions : assignment'[p] = i} ELSE owned[i]]
    /\ position' = [i \in Instances |-> [p \in Partitions |->
                      IF p \in owned'[i] \ owned[i] THEN ResumePoint(p)
                                                    ELSE position[i][p]]]
    /\ UNCHANGED <<committed, process, hands, gate>>

(* NewConsumer leaves the rebalance timeout at its default: a member that  *)
(* has not joined again by then is dropped.                                *)
NeverOverdue(i) == FALSE    \* mutant: the coordinator waits
Overdue(i) == RebalanceDue /\ ~Rejoins(i)
RebalanceTimeout(i) ==
    /\ standing[i] = "member" /\ Overdue(i)
    /\ Drop(i)
    /\ UNCHANGED <<process, client, hands, gate>>

(* No heartbeat for a session: the process is gone, or frozen or cut off   *)
(* long enough.                                                            *)
SessionTimeout(i) ==
    /\ standing[i] = "member"
    /\ Drop(i)
    /\ UNCHANGED <<process, client, hands, gate>>

(* The client of a dropped instance finds out, gives up what it owned and  *)
(* joins again, both only when no poll blocks rebalances.                  *)
Rejoin(i) ==
    /\ Up(i) /\ standing[i] = "out" /\ ~gate[i]
    /\ standing' = [standing EXCEPT ![i] = "joining"]
    /\ owned' = [owned EXCEPT ![i] = {}]
    /\ UNCHANGED <<committed, assignment, process, position, hands, gate>>

-----------------------------------------------------------------------------
(* A poll that returns anything blocks rebalances until AllowRebalance,    *)
(* which nothing calls.                                                    *)
AllowEachCycle(i) == UNCHANGED gate     \* mutant: AllowRebalance every cycle
BlockRebalance(i) == gate' = [gate EXCEPT ![i] = TRUE]

(* The brokers serve whoever fetches, also an instance that was dropped.   *)
Poll(i) ==
    /\ Up(i) /\ fetched[i] = {}
    /\ \E upTo \in [Partitions -> Offsets] :
        /\ \A p \in Partitions :
             upTo[p] \in position[i][p] .. IF p \in owned[i] THEN MaxOffset
                                           ELSE position[i][p]
        /\ upTo # position[i]
        /\ position' = [position EXCEPT ![i] = upTo]
        /\ fetched' = [fetched EXCEPT
                         ![i] = Below(upTo) \ Below(position[i])]
    /\ BlockRebalance(i)
    /\ UNCHANGED <<coordinator, process, owned, toCommit, windows>>

PollError(i) ==
    /\ Up(i) /\ fetched[i] = {} /\ owned[i] # {}
    /\ BlockRebalance(i)
    /\ UNCHANGED <<coordinator, process, client, hands>>

(* The record is stored, aggregated or dead-lettered, and tracked.         *)
Handle(i, r) ==
    /\ Up(i) /\ r \in fetched[i] /\ IsFirst(r, fetched[i])
    /\ fetched' = [fetched EXCEPT ![i] = @ \ {r}]
    /\ toCommit' = [toCommit EXCEPT ![i] = @ \union {r}]
    /\ windows' = [windows EXCEPT ![i] = @ \union {r}]
    /\ UNCHANGED <<coordinator, process, client, gate>>

(* The coordinator takes commits from members only, and does not look at   *)
(* the partitions.  A commit that fails may have reached some of them; the *)
(* records are not committed again either way.                             *)
CommitReaches(i) ==
    IF standing[i] = "member" THEN SUBSET Partitions ELSE {{}}
Commit(i) ==
    /\ Up(i) /\ fetched[i] = {} /\ toCommit[i] # {}
    /\ \E parts \in CommitReaches(i) :
         committed' = CommitTarget(toCommit[i], committed, parts)
    /\ toCommit' = [toCommit EXCEPT ![i] = {}]
    /\ UNCHANGED <<standing, assignment, process, client, fetched, windows,
                   gate>>

Init ==
    /\ committed = [p \in Partitions |-> 0]
    /\ standing = [i \in Instances |-> "out"]
    /\ assignment = [p \in Partitions |-> None]
    /\ process = [i \in Instances |-> "new"]
    /\ owned = [i \in Instances |-> {}]
    /\ position = [i \in Instances |-> [p \in Partitions |-> 0]]
    /\ fetched = [i \in Instances |-> {}]
    /\ toCommit = [i \in Instances |-> {}]
    /\ gate = [i \in Instances |-> FALSE]
    /\ windows = [i \in Instances |-> {}]

Next ==
    \/ Rebalance
    \/ \E i \in Instances :
         \/ Start(i) \/ Crash(i) \/ Close(i)
         \/ RebalanceTimeout(i) \/ SessionTimeout(i) \/ Rejoin(i)
         \/ Poll(i) \/ PollError(i) \/ Commit(i)
         \/ \E r \in Records : Handle(i, r)

Spec == Init /\ [][Next]_vars

(* The coordinator's timers run, and it ends a rebalance all have joined.  *)
FairSpec ==
    /\ Spec
    /\ WF_vars(Rebalance)
    /\ \A i \in Instances :
         /\ WF_vars(RebalanceTimeout(i))
         /\ WF_vars(~Up(i) /\ SessionTimeout(i))

-----------------------------------------------------------------------------
(* "A rebalance cannot steal partitions between Poll and Commit"           *)
(* (pkg/kafka/consumer.go 18-21), for as long as the coordinator keeps the *)
(* instance: what a member holds, and what it has handled since it started,*)
(* is from partitions that are its own.  No two members keep state about   *)
(* one device, though nothing is handed over or discarded.                 *)
MembersHoldTheirOwn ==
    \A i \in Instances : Up(i) /\ standing[i] = "member" =>
        \A r \in fetched[i] \union toCommit[i] \union windows[i] :
            assignment[r[1]] = i


(* A process that has a partition and state about it, such as the windows  *)
(* of the processor, has seen every record up to the next one it fetches:  *)
(* no code discards the state of a lost partition (processor/main.go 14-16)*)
(* and none needs to, because the gate keeps it from coming back.  Nor does*)
(* it see a record twice, which would be in a window twice: who starts over*)
(* at the committed offset is another process.                             *)
SeesNoGap(i) ==
    \A p \in owned[i] :
      LET seen == OffsetsIn(windows[i] \union fetched[i], p)
      IN \A a \in seen : a .. position[i][p] - 1 \subseteq seen
SeesNoneTwice(i) == fetched[i] \intersect windows[i] = {}
WindowsAreCurrent == \A i \in Instances : SeesNoGap(i) /\ SeesNoneTwice(i)

(* The group as one consumer that delivers at least once: whatever is      *)
(* committed was handled by some instance, also when partitions move, a    *)
(* dropped instance goes on and commits late, and members crash.           *)
Furthest == [p \in Partitions |-> Max({position[i][p] : i \in Instances})]
ALO == INSTANCE AtLeastOnce
         WITH produced <- [p \in Partitions |-> MaxOffset],
              position <- Furthest,
              handled <- UNION {windows[i] : i \in Instances}
GroupDeliversAtLeastOnce == ALO!Spec

(* An instance that joins gets into the group, whoever blocks rebalances   *)
(* or is gone: the coordinator waits no longer than the rebalance timeout. *)
JoinersGetIn ==
    \A i \in Instances :
        standing[i] = "joining" ~> standing[i] = "member" \/ process[i] = "down"

-----------------------------------------------------------------------------
(* The inductive invariant, part by part.                                  *)

(* The coordinator's view of the group and the clients'.                   *)
MembersAgree ==
    /\ \A p \in Partitions :
         assignment[p] # None => standing[assignment[p]] = "member"
    /\ \A i \in Instances :
         /\ process[i] = "new" => standing[i] = "out" /\ ~gate[i]
         /\ standing[i] = "joining" => ~gate[i]
         /\ ~Up(i) \/ standing[i] = "joining" => owned[i] = {}
         /\ Up(i) /\ standing[i] = "member" =>
              owned[i] = {p \in Partitions : assignment[p] = i}

(* Nothing is in hand that was not polled, and a poll closes the gate.     *)
HandsAgree ==
    \A i \in Instances :
      /\ \A r \in fetched[i] \union toCommit[i] : r[1] \in owned[i]
      /\ Up(i) => \A r \in windows[i] : r[1] \in owned[i]
      /\ toCommit[i] \subseteq windows[i]
      /\ fetched[i] \union windows[i] \subseteq Below(position[i])
      /\ ~gate[i] => /\ fetched[i] \union windows[i] = {}
                     /\ NoneAbove(position[i], committed)

(* What a member has of its partitions is what was delivered to it and is  *)
(* not committed, so its commits neither go back nor leave a record out.   *)
MembersHoldTheUncommitted ==
    \A i \in Instances : Up(i) /\ standing[i] = "member" =>
      /\ \A p \in owned[i] : committed[p] <= position[i][p]
      /\ \A r \in Below(position[i]) \ Below(committed) :
            r[1] \in owned[i] => r \in fetched[i] \union windows[i]
      /\ (fetched[i] \union toCommit[i]) \intersect Below(committed) = {}

CommittedIsHandled ==
    /\ Below(committed) \subseteq UNION {windows[i] : i \in Instances}
    /\ \A p \in Partitions : \E i \in Instances : committed[p] <= position[i][p]

GroupInv ==
    /\ TypeOK
    /\ MembersAgree
    /\ HandsAgree
    /\ MembersHoldTheUncommitted
    /\ CommittedIsHandled
    /\ MembersHoldTheirOwn
    /\ WindowsAreCurrent
=============================================================================
