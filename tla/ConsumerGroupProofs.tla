------------------------- MODULE ConsumerGroupProofs -------------------------
(***************************************************************************)
(* Proofs about ConsumerGroup for any partitions and any finite number of  *)
(* instances.  The invariant of the argument is GroupInv; a lemma per part *)
(* says that every step keeps it, with one step per action.                *)
(***************************************************************************)
EXTENDS ConsumerGroup, KafkaTopicProofs

(* What a poll returns lies between the old and the new position.          *)
LEMMA PollFacts ==
    ASSUME TypeOK, NEW i \in Instances, Poll(i)
    PROVE  /\ position' \in [Instances -> [Partitions -> Offsets]]
           /\ \A j \in Instances : j # i =>
                position'[j] = position[j] /\ fetched'[j] = fetched[j]
           /\ NoneAbove(position[i], position'[i])
           /\ \A p \in Partitions : p \notin owned[i] =>
                position'[i][p] = position[i][p]
           /\ fetched'[i] = Below(position'[i]) \ Below(position[i])
           /\ \A r \in fetched'[i] : r[1] \in owned[i]
<1> USE TopicAssumption, GroupAssumption DEF TopicAssumption, GroupAssumption
<1>1. PICK upTo \in [Partitions -> Offsets] :
        /\ \A p \in Partitions :
             upTo[p] \in position[i][p] .. IF p \in owned[i] THEN MaxOffset
                                           ELSE position[i][p]
        /\ position' = [position EXCEPT ![i] = upTo]
        /\ fetched' = [fetched EXCEPT
                         ![i] = Below(upTo) \ Below(position[i])]
  BY DEF Poll
<1>2. /\ position'[i] = upTo
      /\ fetched'[i] = Below(upTo) \ Below(position[i])
      /\ position' \in [Instances -> [Partitions -> Offsets]]
      /\ \A j \in Instances : j # i =>
           position'[j] = position[j] /\ fetched'[j] = fetched[j]
  BY <1>1 DEF TypeOK
<1>3. \A p \in Partitions : /\ position[i][p] \in Offsets
                            /\ upTo[p] \in Offsets
  BY DEF TypeOK
<1>4. /\ NoneAbove(position[i], upTo)
      /\ \A p \in Partitions : p \notin owned[i] => upTo[p] = position[i][p]
  BY <1>1, <1>3 DEF NoneAbove, Offsets
<1>5. \A r \in Below(upTo) \ Below(position[i]) : r[1] \in owned[i]
  BY <1>3, <1>4 DEF Below, Records
<1> QED
  BY <1>2, <1>4, <1>5

(* What a commit of a member sends: offsets that do not go back, do not    *)
(* pass what was delivered to it, and stay as they are in the partitions   *)
(* of other instances.  A dropped instance commits nothing.                *)
LEMMA CommitFacts ==
    ASSUME GroupInv, NEW i \in Instances, Commit(i)
    PROVE  /\ committed' \in [Partitions -> Offsets]
           /\ NoneAbove(committed, committed')
           /\ standing[i] # "member" => committed' = committed
           /\ \A p \in Partitions : p \notin owned[i] =>
                committed'[p] = committed[p]
           /\ standing[i] = "member" =>
                \A p \in owned[i] : committed'[p] <= position[i][p]
<1> USE TopicAssumption, GroupAssumption DEF TopicAssumption, GroupAssumption
<1> DEFINE S == toCommit[i]
           limit == [p \in Partitions |-> IF p \in owned[i] THEN position[i][p]
                                                            ELSE committed[p]]
<1>1. PICK parts \in CommitReaches(i) :
        committed' = CommitTarget(S, committed, parts)
  BY DEF Commit
<1>2. parts \in SUBSET Partitions
  BY DEF CommitReaches
<1>3. /\ S \in SUBSET Records
      /\ committed \in [Partitions -> Offsets]
      /\ position[i] \in [Partitions -> Offsets]
      /\ Up(i)
  BY DEF GroupInv, TypeOK, Commit
<1>4. CASE standing[i] = "member"
  <2>1. limit \in [Partitions -> Offsets]
    BY <1>3
  <2>2. NoneAbove(committed, limit)
    BY <1>3, <1>4 DEF NoneAbove, GroupInv, MembersHoldTheUncommitted, Offsets
  <2>3. S \subseteq Below(limit) \ Below(committed)
    <3>1. S \subseteq Below(position[i])
      BY DEF GroupInv, HandsAgree
    <3>2. \A r \in S : r[1] \in owned[i] /\ r[1] \in Partitions
      BY <1>3 DEF GroupInv, HandsAgree, Records
    <3>3. S \intersect Below(committed) = {}
      BY <1>3, <1>4 DEF GroupInv, MembersHoldTheUncommitted
    <3> QED
      BY <3>1, <3>2, <3>3 DEF Below
  <2>4. /\ committed' \in [Partitions -> Offsets]
        /\ NoneAbove(committed, committed')
        /\ NoneAbove(committed', limit)
    <3> HIDE DEF limit, S
    <3> QED
      BY <1>1, <1>2, <1>3, <2>1, <2>2, <2>3, CommitTargetFacts
  <2>5. \A p \in Partitions : p \notin owned[i] => committed'[p] = committed[p]
    BY <1>3, <2>4 DEF NoneAbove, Offsets
  <2> QED
    BY <1>4, <2>4, <2>5 DEF NoneAbove, GroupInv, TypeOK
<1>5. CASE standing[i] # "member"
  <2>1. parts = {}
    BY <1>5 DEF CommitReaches
  <2>2. committed' = committed
    BY <1>1, <1>3, <2>1 DEF CommitTarget
  <2> QED
    BY <1>3, <1>5, <2>2 DEF NoneAbove, Offsets
<1> QED
  BY <1>4, <1>5

(* Every step keeps the types.                                             *)
LEMMA TypeStep == GroupInv /\ [Next]_vars => TypeOK'
<1> SUFFICES ASSUME GroupInv, [Next]_vars PROVE TypeOK'
  OBVIOUS
<1> USE TopicAssumption, GroupAssumption DEF TopicAssumption, GroupAssumption
<1>0. TypeOK
  BY DEF GroupInv
<1> USE <1>0 DEF TypeOK, coordinator, client, hands
<1>1. CASE Rebalance
  <2>1. /\ assignment' \in [Partitions -> Group]
        /\ standing' = [i \in Instances |->
                          IF i \in Group THEN "member" ELSE "out"]
        /\ owned' = [i \in Instances |->
              IF i \in Group /\ Up(i)
              THEN {p \in Partitions : assignment'[p] = i} ELSE owned[i]]
        /\ position' = [i \in Instances |-> [p \in Partitions |->
              IF p \in owned'[i] \ owned[i] THEN ResumePoint(p)
                                            ELSE position[i][p]]]
        /\ UNCHANGED <<committed, process, hands, gate>>
    BY <1>1 DEF Rebalance
  <2>2. position' \in [Instances -> [Partitions -> Offsets]]
    BY <2>1 DEF ResumePoint
  <2>3. assignment' \in [Partitions -> Instances \union {None}]
    BY <2>1 DEF Group
  <2>4. owned' \in [Instances -> SUBSET Partitions]
    BY <2>1
  <2>5. standing' \in [Instances -> {"out", "joining", "member"}]
    BY <2>1
  <2> QED
    BY <2>1, <2>2, <2>3, <2>4, <2>5
<1>2. ASSUME NEW i \in Instances,
             \/ Start(i) \/ Crash(i) \/ Close(i) \/ RebalanceTimeout(i)
             \/ SessionTimeout(i) \/ Rejoin(i) \/ PollError(i)
      PROVE  TypeOK'
  BY <1>2 DEF Start, Crash, Close, RebalanceTimeout, SessionTimeout, Rejoin,
     PollError, Drop, Vanish, BlockRebalance
<1>3. ASSUME NEW i \in Instances, Poll(i) PROVE TypeOK'
  <2>1. fetched' \in [Instances -> SUBSET Records]
    BY <1>3 DEF Poll, Below
  <2>2. position' \in [Instances -> [Partitions -> Offsets]]
    BY <1>3, PollFacts
  <2> QED
    BY <1>3, <2>1, <2>2 DEF Poll, BlockRebalance
<1>4. ASSUME NEW i \in Instances, NEW r \in Records, Handle(i, r)
      PROVE  TypeOK'
  BY <1>4 DEF Handle
<1>5. ASSUME NEW i \in Instances, Commit(i) PROVE TypeOK'
  <2>1. committed' \in [Partitions -> Offsets]
    BY <1>5, CommitFacts
  <2> QED
    BY <1>5, <2>1 DEF Commit
<1>6. CASE UNCHANGED vars
  BY <1>6 DEF vars
<1> QED
  BY <1>1, <1>2, <1>3, <1>4, <1>5, <1>6 DEF Next

(* The coordinator and the clients keep agreeing.                          *)
LEMMA MembersStep == GroupInv /\ [Next]_vars => MembersAgree'
<1> SUFFICES ASSUME GroupInv, [Next]_vars PROVE MembersAgree'
  OBVIOUS
<1> USE TopicAssumption, GroupAssumption DEF TopicAssumption, GroupAssumption
<1>0. TypeOK /\ MembersAgree
  BY DEF GroupInv
<1> USE <1>0 DEF TypeOK, MembersAgree, coordinator, client, hands, Up
<1>1. CASE Rebalance
  <2>1. \A p \in Partitions :
          assignment'[p] \in Group /\ standing'[assignment'[p]] = "member"
    BY <1>1 DEF Rebalance, Group
  <2>2. ASSUME NEW i \in Instances
        PROVE  /\ process'[i] = "new" => standing'[i] = "out" /\ ~gate'[i]
               /\ standing'[i] # "joining"
               /\ ~Up(i)' => owned'[i] = {}
               /\ Up(i)' /\ standing'[i] = "member" =>
                    owned'[i] = {p \in Partitions : assignment'[p] = i}
    <3>1. /\ process'[i] = process[i] /\ gate'[i] = gate[i]
          /\ standing'[i] = IF i \in Group THEN "member" ELSE "out"
          /\ owned'[i] = IF i \in Group /\ Up(i)
                         THEN {p \in Partitions : assignment'[p] = i}
                         ELSE owned[i]
      BY <1>1 DEF Rebalance
    <3> QED
      BY <3>1 DEF Group
  <2> QED
    BY <2>1, <2>2
<1>2. ASSUME NEW i \in Instances, Start(i) PROVE MembersAgree'
  BY <1>2 DEF Start
<1>9. ASSUME NEW i \in Instances, Crash(i) PROVE MembersAgree'
  BY <1>9 DEF Crash, Vanish
<1>10. ASSUME NEW i \in Instances, Close(i) PROVE MembersAgree'
  <2>1. \A p \in Partitions : assignment'[p] # None =>
          assignment'[p] = assignment[p] /\ assignment[p] # i
    BY <1>10 DEF Close, Drop
  <2> QED
    BY <1>10, <2>1 DEF Close, Drop, Vanish
<1>3. ASSUME NEW i \in Instances,
             RebalanceTimeout(i) \/ SessionTimeout(i) \/ Rejoin(i)
      PROVE  MembersAgree'
  BY <1>3 DEF RebalanceTimeout, SessionTimeout, Rejoin, Drop
<1>4. ASSUME NEW i \in Instances, Poll(i) PROVE MembersAgree'
  <2>1. owned[i] # {}
    <3>1. SUFFICES ASSUME owned[i] = {} PROVE FALSE
      OBVIOUS
    <3>2. /\ position' \in [Instances -> [Partitions -> Offsets]]
          /\ \A p \in Partitions : position'[i][p] = position[i][p]
      BY <1>4, <3>1, PollFacts
    <3>3. position'[i] = position[i]
      BY <3>2
    <3> QED
      BY <1>4, <3>3 DEF Poll
  <2> QED
    BY <1>4, <2>1 DEF Poll, BlockRebalance
<1>5. ASSUME NEW i \in Instances, PollError(i) PROVE MembersAgree'
  BY <1>5 DEF PollError, BlockRebalance
<1>6. ASSUME NEW i \in Instances, NEW r \in Records, Handle(i, r)
      PROVE  MembersAgree'
  BY <1>6 DEF Handle
<1>7. ASSUME NEW i \in Instances, Commit(i) PROVE MembersAgree'
  BY <1>7 DEF Commit
<1>8. CASE UNCHANGED vars
  BY <1>8 DEF vars
<1> QED
  BY <1>1, <1>2, <1>3, <1>4, <1>5, <1>6, <1>7, <1>8, <1>9, <1>10 DEF Next

(* Positions and hands stay within what was polled; an instance that has   *)
(* polled nothing is not ahead of the committed offsets.                   *)
LEMMA HandsStep == GroupInv /\ [Next]_vars => HandsAgree'
<1> SUFFICES ASSUME GroupInv, [Next]_vars PROVE HandsAgree'
  OBVIOUS
<1> USE TopicAssumption, GroupAssumption DEF TopicAssumption, GroupAssumption
<1>0. TypeOK /\ HandsAgree
  BY DEF GroupInv
<1> USE <1>0 DEF TypeOK, HandsAgree, coordinator, client, hands, Up
<1>1. CASE Rebalance
  <2>1. SUFFICES ASSUME NEW i \in Instances
                 PROVE  /\ \A r \in fetched[i] \union toCommit[i] :
                             r[1] \in owned'[i]
                        /\ Up(i) => \A r \in windows[i] : r[1] \in owned'[i]
                        /\ fetched[i] \union windows[i]
                             \subseteq Below(position'[i])
                        /\ ~gate[i] => NoneAbove(position'[i], committed)
    BY <1>1 DEF Rebalance, Below, NoneAbove
  <2>2. /\ owned'[i] = IF i \in Group /\ Up(i)
                       THEN {p \in Partitions : assignment'[p] = i}
                       ELSE owned[i]
        /\ position'[i] = [p \in Partitions |->
               IF p \in owned'[i] \ owned[i] THEN committed[p]
                                             ELSE position[i][p]]
    BY <1>1 DEF Rebalance, ResumePoint
  <2>3. CASE i \in Group /\ Up(i)
    <3>1. ~gate[i]
      BY <1>1, <2>3 DEF Rebalance, Rejoins, GroupInv, MembersAgree
    <3>2. \A p \in Partitions : position'[i][p] <= committed[p]
      BY <2>2, <3>1 DEF NoneAbove, Offsets
    <3> QED
      BY <3>1, <3>2 DEF NoneAbove
  <2>4. CASE ~(i \in Group /\ Up(i))
    <3>1. owned'[i] = owned[i] /\ position'[i] = position[i]
      BY <2>2, <2>4
    <3> QED
      BY <3>1
  <2> QED
    BY <2>3, <2>4
<1>2. ASSUME NEW i \in Instances, Start(i) PROVE HandsAgree'
  <2>1. ~gate[i]
    BY <1>2 DEF Start, GroupInv, MembersAgree
  <2> QED
    BY <1>2, <2>1 DEF Start, Below, NoneAbove
<1>3. ASSUME NEW i \in Instances, Crash(i) \/ Close(i) PROVE HandsAgree'
  BY <1>3 DEF Crash, Close, Vanish, Drop, Below, NoneAbove
<1>4. ASSUME NEW i \in Instances, RebalanceTimeout(i) \/ SessionTimeout(i)
      PROVE  HandsAgree'
  BY <1>4 DEF RebalanceTimeout, SessionTimeout, Drop, Below, NoneAbove
<1>5. ASSUME NEW i \in Instances, Rejoin(i) PROVE HandsAgree'
  BY <1>5 DEF Rejoin, Below, NoneAbove
<1>6. ASSUME NEW i \in Instances, Poll(i) PROVE HandsAgree'
  <2>1. /\ gate'[i] /\ \A j \in Instances : j # i => gate'[j] = gate[j]
        /\ UNCHANGED <<committed, process, owned, toCommit, windows>>
        /\ \A r \in toCommit[i] : r[1] \in owned[i]
    BY <1>6 DEF Poll, BlockRebalance
  <2>2. Below(position[i]) \subseteq Below(position'[i])
    BY <1>6, PollFacts, BelowMonotone
  <2>3. \A j \in Instances : j # i =>
          position'[j] = position[j] /\ fetched'[j] = fetched[j]
    BY <1>6, PollFacts
  <2>4. /\ fetched'[i] = Below(position'[i]) \ Below(position[i])
        /\ \A r \in fetched'[i] : r[1] \in owned[i]
    BY <1>6, PollFacts
  <2> QED
    BY <2>1, <2>2, <2>3, <2>4 DEF Below, NoneAbove
<1>7. ASSUME NEW i \in Instances, PollError(i) PROVE HandsAgree'
  BY <1>7 DEF PollError, BlockRebalance, Below, NoneAbove
<1>8. ASSUME NEW i \in Instances, NEW r \in Records, Handle(i, r)
      PROVE  HandsAgree'
  BY <1>8 DEF Handle, Below, NoneAbove
<1>9. ASSUME NEW i \in Instances, Commit(i) PROVE HandsAgree'
  <2>1. /\ committed' \in [Partitions -> Offsets]
        /\ NoneAbove(committed, committed')
    BY <1>9, CommitFacts
  <2>2. ASSUME NEW j \in Instances, NoneAbove(position[j], committed)
        PROVE  NoneAbove(position[j], committed')
    BY <2>1, <2>2 DEF NoneAbove, Offsets
  <2> QED
    BY <1>9, <2>2 DEF Commit, Below, NoneAbove
<1>10. CASE UNCHANGED vars
  BY <1>10 DEF vars, Below, NoneAbove
<1> QED
  BY <1>1, <1>2, <1>3, <1>4, <1>5, <1>6, <1>7, <1>8, <1>9, <1>10 DEF Next

(* A member keeps what it has to commit, from the first offset the group   *)
(* has not committed on.                                                   *)
LEMMA HoldStep == GroupInv /\ [Next]_vars => MembersHoldTheUncommitted'
<1> SUFFICES ASSUME GroupInv, [Next]_vars PROVE MembersHoldTheUncommitted'
  OBVIOUS
<1> USE TopicAssumption, GroupAssumption DEF TopicAssumption, GroupAssumption
<1>0. TypeOK /\ MembersAgree /\ HandsAgree /\ MembersHoldTheUncommitted
  BY DEF GroupInv
<1> USE <1>0 DEF TypeOK, MembersHoldTheUncommitted, coordinator, client, hands,
    Up
<1>1. CASE Rebalance
  <2>1. SUFFICES ASSUME NEW i \in Instances, Up(i), standing'[i] = "member"
                 PROVE  /\ \A p \in owned'[i] :
                             committed[p] <= position'[i][p]
                        /\ \A r \in Below(position'[i]) \ Below(committed) :
                             r[1] \in owned'[i] =>
                               r \in fetched[i] \union windows[i]
                        /\ (fetched[i] \union toCommit[i])
                             \intersect Below(committed) = {}
    BY <1>1 DEF Rebalance, Below
  <2>2. i \in Group /\ ~gate[i]
    BY <1>1, <2>1 DEF Rebalance, Rejoins, MembersAgree
  <2>3. /\ owned'[i] \subseteq Partitions
        /\ position'[i] = [p \in Partitions |->
               IF p \in owned'[i] \ owned[i] THEN committed[p]
                                             ELSE position[i][p]]
    BY <1>1, <2>1, <2>2 DEF Rebalance, ResumePoint
  <2>4. fetched[i] \union toCommit[i] = {}
    BY <2>2 DEF HandsAgree
  <2>5. ASSUME NEW p \in owned'[i] PROVE position'[i][p] = committed[p]
    <3>1. CASE p \in owned[i]
      <4>1. standing[i] = "member"
        BY <2>2, <3>1 DEF Group, MembersAgree
      <4>2. committed[p] <= position[i][p]
        BY <2>1, <3>1, <4>1
      <4>3. position[i][p] <= committed[p]
        BY <2>2, <3>1 DEF HandsAgree, NoneAbove
      <4>4. committed[p] \in Int /\ position[i][p] \in Int
        BY <3>1 DEF Offsets
      <4>5. position'[i][p] = position[i][p]
        BY <2>3, <3>1
      <4>6. position[i][p] = committed[p]
        BY ONLY <4>2, <4>3, <4>4
      <4> QED
        BY ONLY <4>5, <4>6
    <3>2. CASE p \notin owned[i]
      BY <2>3, <3>2
    <3> QED
      BY <3>1, <3>2
  <2>6. ASSUME NEW r \in Below(position'[i]) \ Below(committed),
               r[1] \in owned'[i]
        PROVE  FALSE
    BY <2>3, <2>5, <2>6 DEF Below
  <2>7. \A p \in owned'[i] : committed[p] <= position'[i][p]
    <3>1. \A p \in owned'[i] : committed[p] \in Int
      BY <2>3 DEF Offsets
    <3> QED
      BY <2>5, <3>1
  <2> QED
    BY <2>4, <2>6, <2>7
<1>2. ASSUME NEW i \in Instances, Start(i) PROVE MembersHoldTheUncommitted'
  <2>1. UNCHANGED <<committed, position, owned, fetched, toCommit, windows>>
    BY <1>2 DEF Start
  <2>2. SUFFICES ASSUME NEW j \in Instances, Up(j)', standing'[j] = "member"
                 PROVE  /\ \A p \in owned[j] : committed[p] <= position[j][p]
                        /\ \A r \in Below(position[j]) \ Below(committed) :
                             r[1] \in owned[j] =>
                               r \in fetched[j] \union windows[j]
                        /\ (fetched[j] \union toCommit[j])
                             \intersect Below(committed) = {}
    BY <2>1 DEF Below
  <2>3. Up(j) /\ standing[j] = "member"
    BY <1>2, <2>2 DEF Start
  <2> QED
    BY <2>3
<1>3. ASSUME NEW i \in Instances, Crash(i) \/ Close(i)
      PROVE  MembersHoldTheUncommitted'
  <2>1. SUFFICES ASSUME NEW j \in Instances, Up(j)', standing'[j] = "member"
                 PROVE  /\ Up(j) /\ standing[j] = "member"
                        /\ owned'[j] = owned[j] /\ fetched'[j] = fetched[j]
                        /\ toCommit'[j] = toCommit[j]
    <3>1. UNCHANGED <<committed, position, windows>>
      BY <1>3 DEF Crash, Close, Vanish, Drop
    <3> QED
      BY <3>1 DEF Below
  <2>2. j # i
    BY <1>3, <2>1 DEF Crash, Close, Vanish
  <2> QED
    BY <1>3, <2>1, <2>2 DEF Crash, Close, Vanish, Drop
<1>4. ASSUME NEW i \in Instances,
             RebalanceTimeout(i) \/ SessionTimeout(i) \/ Rejoin(i)
      PROVE  MembersHoldTheUncommitted'
  BY <1>4 DEF RebalanceTimeout, SessionTimeout, Rejoin, Drop, Below
<1>5. ASSUME NEW i \in Instances, Poll(i) PROVE MembersHoldTheUncommitted'
  <2>1. /\ fetched[i] = {}
        /\ UNCHANGED <<committed, standing, process, owned, toCommit, windows>>
    BY <1>5 DEF Poll
  <2>2. \A j \in Instances : j # i =>
          position'[j] = position[j] /\ fetched'[j] = fetched[j]
    BY <1>5, PollFacts
  <2>3. /\ NoneAbove(position[i], position'[i])
        /\ position'[i] \in [Partitions -> Offsets]
        /\ fetched'[i] = Below(position'[i]) \ Below(position[i])
        /\ \A r \in fetched'[i] : r[1] \in owned[i]
    BY <1>5, PollFacts
  <2>4. CASE Up(i) /\ standing[i] = "member"
    <3>1. \A p \in owned[i] : committed[p] <= position[i][p]
                             /\ position[i][p] <= position'[i][p]
      BY <2>3, <2>4 DEF NoneAbove
    <3>2. \A p \in owned[i] : committed[p] <= position'[i][p]
      BY <2>3, <3>1 DEF Offsets
    <3>3. \A r \in Below(position'[i]) \ Below(committed) :
            r[1] \in owned[i] => r \in fetched'[i] \union windows[i]
      BY <2>1, <2>3, <2>4
    <3>4. fetched'[i] \intersect Below(committed) = {}
      <4>1. SUFFICES ASSUME NEW r \in fetched'[i], r \in Below(committed)
                     PROVE  FALSE
        OBVIOUS
      <4>2. /\ r[1] \in owned[i] /\ r[1] \in Partitions /\ r[2] \in Int
            /\ ~(r[2] < position[i][r[1]]) /\ r[2] < committed[r[1]]
        BY <2>3, <4>1 DEF Below, Records
      <4> QED
        BY <3>1, <4>2 DEF Offsets
    <3> QED
      BY <2>1, <2>2, <2>4, <3>2, <3>3, <3>4 DEF Below
  <2>5. CASE ~(Up(i) /\ standing[i] = "member")
    BY <2>1, <2>2, <2>5 DEF Below
  <2> QED
    BY <2>4, <2>5
<1>6. ASSUME NEW i \in Instances, PollError(i)
      PROVE  MembersHoldTheUncommitted'
  BY <1>6 DEF PollError, Below
<1>7. ASSUME NEW i \in Instances, NEW r \in Records, Handle(i, r)
      PROVE  MembersHoldTheUncommitted'
  BY <1>7 DEF Handle, Below
<1>8. ASSUME NEW i \in Instances, Commit(i) PROVE MembersHoldTheUncommitted'
  <2>1. /\ committed' \in [Partitions -> Offsets]
        /\ NoneAbove(committed, committed')
        /\ \A p \in Partitions : p \notin owned[i] =>
             committed'[p] = committed[p]
        /\ standing[i] = "member" =>
             \A p \in owned[i] : committed'[p] <= position[i][p]
        /\ standing[i] # "member" => committed' = committed
    BY <1>8, CommitFacts
  <2>2. /\ fetched[i] = {} /\ toCommit'[i] = {} /\ Up(i)
        /\ \A j \in Instances : j # i => toCommit'[j] = toCommit[j]
        /\ UNCHANGED <<standing, assignment, process, client, fetched, windows,
                        gate>>
    BY <1>8 DEF Commit
  <2>3. Below(committed) \subseteq Below(committed')
    BY <2>1, BelowMonotone
  <2>4. ASSUME NEW j \in Instances, Up(j), standing[j] = "member", j # i,
               NEW p \in owned[j]
        PROVE  committed'[p] = committed[p]
    BY <2>1, <2>2, <2>4 DEF MembersAgree
  <2>5. ASSUME NEW j \in Instances, Up(j), standing[j] = "member", j # i
        PROVE  (fetched[j] \union toCommit[j]) \intersect Below(committed') = {}
    BY <2>4, <2>5 DEF HandsAgree, Below
  <2> QED
    BY <2>1, <2>2, <2>3, <2>4, <2>5
<1>9. CASE UNCHANGED vars
  BY <1>9 DEF vars, Below
<1> QED
  BY <1>1, <1>2, <1>3, <1>4, <1>5, <1>6, <1>7, <1>8, <1>9 DEF Next

(* The offsets a set of records has in a partition, record by record.      *)
LEMMA OffsetsInFacts ==
    ASSUME NEW S \in SUBSET Records, NEW p \in Partitions, NEW o
    PROVE  o \in OffsetsIn(S, p) <=> <<p, o>> \in S
<1>1. ASSUME o \in OffsetsIn(S, p) PROVE <<p, o>> \in S
  <2>1. PICK r \in S : r[1] = p /\ r[2] = o
    BY <1>1 DEF OffsetsIn
  <2>2. r = <<p, o>>
    BY <2>1 DEF Records
  <2> QED
    BY <2>2
<1>2. ASSUME <<p, o>> \in S PROVE o \in OffsetsIn(S, p)
  <2>1. <<p, o>> \in {q \in S : q[1] = p} /\ <<p, o>>[2] = o
    BY <1>2
  <2> QED
    BY <2>1 DEF OffsetsIn
<1> QED
  BY <1>1, <1>2

(* A process never gets back a partition whose state it has kept.          *)
LEMMA NoGapStep ==
    GroupInv /\ [Next]_vars => \A i \in Instances : SeesNoGap(i)'
<1> SUFFICES ASSUME GroupInv, [Next]_vars,
                    NEW i \in Instances, NEW p \in owned'[i],
                    NEW a \in OffsetsIn(windows'[i] \union fetched'[i], p)
             PROVE  a .. position'[i][p] - 1
                      \subseteq OffsetsIn(windows'[i] \union fetched'[i], p)
  BY DEF SeesNoGap, OffsetsIn
<1> USE TopicAssumption, GroupAssumption DEF TopicAssumption, GroupAssumption
<1>0. TypeOK /\ MembersAgree /\ HandsAgree
  BY DEF GroupInv
<1> USE <1>0 DEF TypeOK, coordinator, client, hands
<1>a. ASSUME windows'[i] \union fetched'[i] = windows[i] \union fetched[i],
             p \in owned[i], position'[i][p] = position[i][p]
      PROVE  a .. position'[i][p] - 1
               \subseteq OffsetsIn(windows'[i] \union fetched'[i], p)
  BY <1>a DEF GroupInv, WindowsAreCurrent, SeesNoGap
<1>1. CASE Rebalance
  <2>1. windows'[i] = windows[i] /\ fetched'[i] = fetched[i]
    BY <1>1 DEF Rebalance
  <2>2. windows[i] \union fetched[i] # {}
    BY <2>1 DEF OffsetsIn
  <2>3. gate[i]
    BY <2>2 DEF HandsAgree
  <2>4. owned'[i] = owned[i]
    BY <1>1, <2>3 DEF Rebalance, Rejoins, MembersAgree
  <2>5. position'[i][p] = position[i][p]
    BY <1>1, <2>4 DEF Rebalance
  <2> QED
    BY <2>1, <2>4, <2>5, <1>a
<1>2. ASSUME NEW j \in Instances, Poll(j)
      PROVE  a .. position'[i][p] - 1
               \subseteq OffsetsIn(windows'[i] \union fetched'[i], p)
  <2>1. UNCHANGED <<owned, windows>> /\ fetched[j] = {}
    BY <1>2 DEF Poll
  <2>2. CASE i # j
    BY <2>1, <2>2, <1>2, <1>a, PollFacts
  <2>3. CASE i = j
    <3>1. /\ position'[i] \in [Partitions -> Offsets]
          /\ position[i] \in [Partitions -> Offsets]
          /\ position[i][p] <= position'[i][p]
          /\ fetched'[i] = Below(position'[i]) \ Below(position[i])
          /\ p \in Partitions
      BY <1>2, <2>1, <2>3, PollFacts DEF NoneAbove
    <3>a. /\ windows'[i] \union fetched'[i] \in SUBSET Records
          /\ windows[i] \union fetched[i] \in SUBSET Records
      BY <2>1, <3>1 DEF Below
    <3>2. SUFFICES ASSUME NEW o \in a .. position'[i][p] - 1
                   PROVE  <<p, o>> \in windows'[i] \union fetched'[i]
      BY <3>1, <3>a, OffsetsInFacts
    <3>3. a \in 0 .. MaxOffset - 1 /\ <<p, a>> \in windows'[i] \union fetched'[i]
      <4>1. <<p, a>> \in windows'[i] \union fetched'[i]
        BY <3>1, <3>a, OffsetsInFacts
      <4> QED
        BY <3>a, <4>1 DEF Records
    <3>4. o \in 0 .. MaxOffset - 1 /\ <<p, o>> \in Records
      BY <3>1, <3>3 DEF Offsets, Records
    <3>5. CASE o < position[i][p]
      <4>1. a < position[i][p]
        BY <3>1, <3>3, <3>4, <3>5 DEF Offsets
      <4>2. <<p, a>> \in windows[i] \union fetched'[i] /\ <<p, a>> \in Records
        BY <2>1, <3>3, <3>a
      <4>3. <<p, a>> \in windows[i]
        BY <3>1, <4>1, <4>2 DEF Below
      <4>4. a \in OffsetsIn(windows[i] \union fetched[i], p)
        BY <3>1, <3>a, <4>3, OffsetsInFacts
      <4>5. o \in a .. position[i][p] - 1
        BY <3>1, <3>3, <3>4, <3>5 DEF Offsets
      <4>6. o \in OffsetsIn(windows[i] \union fetched[i], p)
        BY <2>1, <4>4, <4>5 DEF GroupInv, WindowsAreCurrent, SeesNoGap
      <4>7. <<p, o>> \in windows[i] \union fetched[i]
        BY <3>1, <3>a, <4>6, OffsetsInFacts
      <4> QED
        BY <2>1, <2>3, <4>7
    <3>6. CASE ~(o < position[i][p])
      <4>1. o < position'[i][p]
        BY <3>1, <3>3, <3>4 DEF Offsets
      <4> QED
        BY <3>1, <3>4, <3>6, <4>1 DEF Below
    <3> QED
      BY <3>5, <3>6
  <2> QED
    BY <2>2, <2>3
<1>3. ASSUME NEW j \in Instances, NEW r \in Records, Handle(j, r)
      PROVE  a .. position'[i][p] - 1
               \subseteq OffsetsIn(windows'[i] \union fetched'[i], p)
  <2>1. windows'[i] \union fetched'[i] = windows[i] \union fetched[i]
    BY <1>3 DEF Handle
  <2> QED
    BY <1>3, <2>1, <1>a DEF Handle
<1>4. ASSUME NEW j \in Instances, Crash(j) \/ Close(j)
      PROVE  a .. position'[i][p] - 1
               \subseteq OffsetsIn(windows'[i] \union fetched'[i], p)
  <2>1. i # j
    BY <1>4 DEF Crash, Close, Vanish
  <2> QED
    BY <1>4, <2>1, <1>a DEF Crash, Close, Vanish
<1>5. ASSUME NEW j \in Instances,
             \/ Start(j) \/ RebalanceTimeout(j) \/ SessionTimeout(j)
             \/ Rejoin(j) \/ PollError(j) \/ Commit(j)
      PROVE  a .. position'[i][p] - 1
               \subseteq OffsetsIn(windows'[i] \union fetched'[i], p)
  BY <1>5, <1>a DEF Start, RebalanceTimeout, SessionTimeout, Rejoin, PollError,
     Commit
<1>6. CASE UNCHANGED vars
  BY <1>6, <1>a DEF vars
<1> QED
  BY <1>1, <1>2, <1>3, <1>4, <1>5, <1>6 DEF Next

(* Commits cover only what some process has handled.                       *)
LEMMA HandledStep == GroupInv /\ [Next]_vars => CommittedIsHandled'
<1> SUFFICES ASSUME GroupInv, [Next]_vars PROVE CommittedIsHandled'
  OBVIOUS
<1> USE TopicAssumption, GroupAssumption DEF TopicAssumption, GroupAssumption
<1>0. TypeOK /\ HandsAgree /\ CommittedIsHandled
  BY DEF GroupInv
<1> USE <1>0 DEF TypeOK, CommittedIsHandled, coordinator, client, hands
<1>1. CASE Rebalance
  <2>1. \A i \in Instances, p \in Partitions :
          position'[i][p] = position[i][p] \/ position'[i][p] = committed[p]
    BY <1>1 DEF Rebalance, ResumePoint
  <2>2. \A p \in Partitions : \E i \in Instances :
          committed[p] <= position'[i][p]
    <3>1. SUFFICES ASSUME NEW p \in Partitions
                   PROVE  \E i \in Instances : committed[p] <= position'[i][p]
      OBVIOUS
    <3>2. PICK i \in Instances : committed[p] <= position[i][p]
      OBVIOUS
    <3>3. committed[p] <= committed[p]
      BY DEF Offsets
    <3> QED
      BY <2>1, <3>2, <3>3
  <2> QED
    BY <1>1, <2>2 DEF Rebalance, Below
<1>2. ASSUME NEW i \in Instances, Poll(i) PROVE CommittedIsHandled'
  <2>1. UNCHANGED <<committed, windows>>
    BY <1>2 DEF Poll
  <2>2. ASSUME NEW p \in Partitions
        PROVE  \E j \in Instances : committed[p] <= position'[j][p]
    <3>1. PICK j \in Instances : committed[p] <= position[j][p]
      OBVIOUS
    <3>2. position[j][p] <= position'[j][p]
      <4>1. CASE i = j
        BY <1>2, <4>1, PollFacts DEF NoneAbove
      <4>2. CASE i # j
        BY <1>2, <4>2, PollFacts DEF Offsets
      <4> QED
        BY <4>1, <4>2
    <3>3. committed[p] \in Int /\ position[j][p] \in Int /\ position'[j][p] \in Int
      BY <1>2, PollFacts DEF Offsets
    <3> QED
      BY <3>1, <3>2, <3>3
  <2> QED
    BY <2>1, <2>2 DEF Below
<1>3. ASSUME NEW i \in Instances, NEW r \in Records, Handle(i, r)
      PROVE  CommittedIsHandled'
  <2>1. \A j \in Instances : windows[j] \subseteq windows'[j]
    BY <1>3 DEF Handle
  <2>2. UNION {windows[j] : j \in Instances}
          \subseteq UNION {windows'[j] : j \in Instances}
    BY <2>1
  <2> QED
    BY <1>3, <2>2 DEF Handle, Below
<1>4. ASSUME NEW i \in Instances, Commit(i) PROVE CommittedIsHandled'
  <2>1. UNCHANGED <<position, windows>> /\ fetched[i] = {} /\ Up(i)
    BY <1>4 DEF Commit
  <2>2. CASE standing[i] # "member"
    BY <1>4, <2>1, <2>2, CommitFacts DEF Below
  <2>3. CASE standing[i] = "member"
    <3>1. /\ committed' \in [Partitions -> Offsets]
          /\ NoneAbove(committed, committed')
          /\ \A p \in Partitions : p \notin owned[i] =>
               committed'[p] = committed[p]
          /\ \A p \in owned[i] : committed'[p] <= position[i][p]
      BY <1>4, <2>3, CommitFacts
    <3>2. Below(committed') \subseteq Below(committed) \union windows[i]
      <4>1. SUFFICES ASSUME NEW r \in Below(committed'), r \notin Below(committed)
                     PROVE  r \in windows[i]
        OBVIOUS
      <4>2. /\ r \in Records /\ r[1] \in Partitions /\ r[2] \in Int
            /\ r[2] < committed'[r[1]] /\ ~(r[2] < committed[r[1]])
        BY <4>1 DEF Below, Records
      <4>3. r[1] \in owned[i]
        BY <3>1, <4>2
      <4>4. r \in Below(position[i])
        BY <3>1, <4>2, <4>3 DEF Below, Offsets
      <4> QED
        BY <2>1, <2>3, <4>1, <4>3, <4>4 DEF GroupInv, MembersHoldTheUncommitted
    <3>3. \A p \in Partitions : \E j \in Instances :
            committed'[p] <= position[j][p]
      BY <3>1
    <3> QED
      BY <2>1, <3>2, <3>3 DEF Below
  <2> QED
    BY <2>2, <2>3
<1>5. ASSUME NEW i \in Instances,
             \/ Start(i) \/ Crash(i) \/ Close(i) \/ RebalanceTimeout(i)
             \/ SessionTimeout(i) \/ Rejoin(i) \/ PollError(i)
      PROVE  CommittedIsHandled'
  <2>1. UNCHANGED <<committed, position, windows>>
    BY <1>5 DEF Start, Crash, Close, Vanish, Drop, RebalanceTimeout,
       SessionTimeout, Rejoin, PollError
  <2> QED
    BY <2>1 DEF Below
<1>6. CASE UNCHANGED vars
  BY <1>6 DEF vars, Below
<1> QED
  BY <1>1, <1>2, <1>3, <1>4, <1>5, <1>6 DEF Next

(* What a member holds and has handled is from partitions of its own.      *)
LEMMA MembersOwn == TypeOK /\ MembersAgree /\ HandsAgree => MembersHoldTheirOwn
<1> SUFFICES ASSUME TypeOK, MembersAgree, HandsAgree,
                    NEW i \in Instances, Up(i), standing[i] = "member",
                    NEW r \in fetched[i] \union toCommit[i] \union windows[i]
             PROVE  assignment[r[1]] = i
  BY DEF MembersHoldTheirOwn
<1>1. r[1] \in owned[i]
  BY DEF HandsAgree
<1> QED
  BY <1>1 DEF TypeOK, MembersAgree

(* A poll returns what is beyond everything the process has handled.       *)
LEMMA OnceStep ==
    GroupInv /\ [Next]_vars => \A i \in Instances : SeesNoneTwice(i)'
<1> SUFFICES ASSUME GroupInv, [Next]_vars, NEW i \in Instances
             PROVE  fetched'[i] \intersect windows'[i] = {}
  BY DEF SeesNoneTwice
<1> USE TopicAssumption, GroupAssumption DEF TopicAssumption, GroupAssumption
<1>0. /\ TypeOK /\ HandsAgree
      /\ fetched[i] \intersect windows[i] = {}
  BY DEF GroupInv, WindowsAreCurrent, SeesNoneTwice
<1> USE <1>0 DEF TypeOK, hands
<1>1. ASSUME NEW j \in Instances, Poll(j)
      PROVE  fetched'[i] \intersect windows'[i] = {}
  <2>1. windows' = windows
    BY <1>1 DEF Poll
  <2>2. CASE i # j
    BY <1>1, <2>1, <2>2, PollFacts
  <2>3. CASE i = j
    <3>1. fetched'[i] = Below(position'[i]) \ Below(position[i])
      BY <1>1, <2>3, PollFacts
    <3>2. windows[i] \subseteq Below(position[i])
      BY DEF HandsAgree
    <3> QED
      BY <2>1, <3>1, <3>2
  <2> QED
    BY <2>2, <2>3
<1>2. ASSUME NEW j \in Instances, NEW r \in Records, Handle(j, r)
      PROVE  fetched'[i] \intersect windows'[i] = {}
  BY <1>2 DEF Handle
<1>3. ASSUME NEW j \in Instances, Crash(j) \/ Close(j)
      PROVE  fetched'[i] \intersect windows'[i] = {}
  BY <1>3 DEF Crash, Close, Vanish
<1>4. ASSUME NEW j \in Instances,
             \/ Start(j) \/ RebalanceTimeout(j) \/ SessionTimeout(j)
             \/ Rejoin(j) \/ PollError(j) \/ Commit(j)
      PROVE  fetched'[i] \intersect windows'[i] = {}
  BY <1>4 DEF Start, RebalanceTimeout, SessionTimeout, Rejoin, PollError, Commit
<1>5. CASE Rebalance \/ UNCHANGED vars
  BY <1>5 DEF Rebalance, vars
<1> QED
  BY <1>1, <1>2, <1>3, <1>4, <1>5 DEF Next

(* The group starts in the invariant.                                      *)
LEMMA InvInit == Init => GroupInv
<1> SUFFICES ASSUME Init PROVE GroupInv
  OBVIOUS
<1> USE TopicAssumption, GroupAssumption DEF TopicAssumption, GroupAssumption
<1>1. TypeOK
  <2>1. 0 \in Offsets
    BY DEF Offsets
  <2> QED
    BY <2>1 DEF Init, TypeOK
<1>2. MembersAgree /\ HandsAgree
  BY DEF Init, MembersAgree, HandsAgree, Up, NoneAbove
<1>3. MembersHoldTheUncommitted /\ WindowsAreCurrent
  BY DEF Init, MembersHoldTheUncommitted, WindowsAreCurrent, SeesNoGap,
     SeesNoneTwice, Up
<1>4. CommittedIsHandled
  <2>1. Below(committed) = {}
    BY DEF Init, Below, Records
  <2> QED
    BY <2>1 DEF Init, CommittedIsHandled
<1> QED
  BY <1>1, <1>2, <1>3, <1>4, MembersOwn DEF GroupInv

(* The lemmas above, put together.                                         *)
LEMMA InvStep == GroupInv /\ [Next]_vars => GroupInv'
<1> SUFFICES ASSUME GroupInv, [Next]_vars PROVE GroupInv'
  OBVIOUS
<1>1. TypeOK' /\ MembersAgree' /\ HandsAgree' /\ MembersHoldTheUncommitted'
  BY TypeStep, MembersStep, HandsStep, HoldStep
<1>2. CommittedIsHandled' /\ WindowsAreCurrent'
  BY HandledStep, NoGapStep, OnceStep DEF WindowsAreCurrent
<1>3. MembersHoldTheirOwn'
  BY <1>1, MembersOwn, PTL
<1> QED
  BY <1>1, <1>2, <1>3 DEF GroupInv

(* The inductive invariant holds in every reachable state.                 *)
THEOREM GroupInvariant == Spec => []GroupInv
  BY InvInit, InvStep, PTL DEF Spec

(* Every variable keeps its type.                                          *)
THEOREM GroupTypes == Spec => []TypeOK
<1>1. GroupInv => TypeOK
  BY DEF GroupInv
<1> QED
  BY <1>1, GroupInvariant, PTL

(* No partition is taken from an instance that the coordinator keeps, from *)
(* the first record on that it polled (pkg/kafka/consumer.go 18-21).       *)
THEOREM NothingStolen == Spec => []MembersHoldTheirOwn
<1>1. GroupInv => MembersHoldTheirOwn
  BY DEF GroupInv
<1> QED
  BY <1>1, GroupInvariant, PTL

(* State about a partition that a process has kept is never behind the     *)
(* records it fetches and has none of them twice (processor/main.go 14-16).*)
THEOREM StateIsCurrent == Spec => []WindowsAreCurrent
<1>1. GroupInv => WindowsAreCurrent
  BY DEF GroupInv
<1> QED
  BY <1>1, GroupInvariant, PTL

-----------------------------------------------------------------------------
(* Both modules mean the same records below an offset.                     *)
LEMMA SameBelow == ASSUME NEW limit PROVE ALO!Below(limit) = Below(limit)
  BY DEF ALO!Below, Below, ALO!Records, Records

(* The furthest position of a partition is that of some instance.          *)
FurthestIsReached ==
    /\ Furthest \in [Partitions -> Offsets]
    /\ \A p \in Partitions :
         /\ \A i \in Instances : position[i][p] <= Furthest[p]
         /\ \E i \in Instances : Furthest[p] = position[i][p]

LEMMA FurthestFacts == TypeOK => FurthestIsReached
<1> SUFFICES ASSUME TypeOK PROVE FurthestIsReached
  OBVIOUS
<1> USE TopicAssumption, GroupAssumption DEF TopicAssumption, GroupAssumption
<1>1. ASSUME NEW p \in Partitions
      PROVE  /\ Furthest[p] \in Offsets
             /\ \A i \in Instances : position[i][p] <= Furthest[p]
             /\ \E i \in Instances : Furthest[p] = position[i][p]
  <2> DEFINE S == {position[i][p] : i \in Instances}
  <2>1. S \subseteq 0 .. MaxOffset /\ S # {}
    BY DEF TypeOK, Offsets
  <2>2. Max(S) \in S /\ \A y \in S : y <= Max(S)
    <3> HIDE DEF S
    <3> QED
      BY <2>1, MaxOfOffsets
  <2>3. Furthest[p] = Max(S)
    BY DEF Furthest
  <2> QED
    BY <2>1, <2>2, <2>3 DEF Offsets
<1> QED
  BY <1>1 DEF Furthest, FurthestIsReached

(* Every step of the group is a step of one consumer that delivers at      *)
(* least once, or changes nothing such a consumer shows.                   *)
LEMMA RefinementStep ==
    ASSUME GroupInv, [Next]_vars
    PROVE  [ALO!Next]_(ALO!vars)
<1> USE TopicAssumption, GroupAssumption DEF TopicAssumption, GroupAssumption
<1> DEFINE handled == UNION {windows[i] : i \in Instances}
<1>0. TypeOK /\ TypeOK' /\ HandsAgree /\ CommittedIsHandled /\ CommittedIsHandled'
  BY InvStep DEF GroupInv
<1>a. /\ Furthest \in [Partitions -> Offsets]
      /\ \A p \in Partitions :
           /\ \A i \in Instances : position[i][p] <= Furthest[p]
           /\ \E i \in Instances : Furthest[p] = position[i][p]
  BY <1>0, FurthestFacts DEF FurthestIsReached
<1>b. /\ Furthest' \in [Partitions -> Offsets]
      /\ \A p \in Partitions :
           /\ \A i \in Instances : position'[i][p] <= Furthest'[p]
           /\ \E i \in Instances : Furthest'[p] = position'[i][p]
  <2>1. FurthestIsReached'
    BY <1>0, FurthestFacts, PTL
  <2> QED
    BY <2>1 DEF FurthestIsReached
<1>1. CASE Rebalance
  <2>1. ASSUME NEW p \in Partitions PROVE Furthest'[p] = Furthest[p]
    <3>1. \A i \in Instances :
            /\ position[i][p] \in Int /\ position'[i][p] \in Int
            /\ committed[p] \in Int
      BY <1>0 DEF TypeOK, Offsets
    <3>2. ASSUME NEW i \in Instances
          PROVE  position[i][p] <= position'[i][p]
      <4>1. position'[i] = [q \in Partitions |->
               IF q \in owned'[i] \ owned[i] THEN committed[q]
                                             ELSE position[i][q]]
        BY <1>1 DEF Rebalance, ResumePoint
      <4>2. CASE p \in owned'[i] \ owned[i]
        <5>1. i \in Group /\ Up(i)
          BY <1>1, <4>2 DEF Rebalance
        <5>2. ~gate[i]
          BY <1>1, <5>1 DEF Rebalance, Rejoins, GroupInv, MembersAgree
        <5>3. position[i][p] <= committed[p]
          BY <1>0, <5>2 DEF HandsAgree, NoneAbove
        <5> QED
          BY <4>1, <4>2, <5>3
      <4>3. CASE p \notin owned'[i] \ owned[i]
        BY <3>1, <4>1, <4>3
      <4> QED
        BY <4>2, <4>3
    <3>3. ASSUME NEW i \in Instances
          PROVE  position'[i][p] = position[i][p] \/ position'[i][p] = committed[p]
      BY <1>1 DEF Rebalance, ResumePoint
    <3>4. PICK j \in Instances : committed[p] <= position[j][p]
      BY <1>0 DEF CommittedIsHandled
    <3>5. PICK f \in Instances : Furthest[p] = position[f][p]
      BY <1>a
    <3>6. PICK g \in Instances : Furthest'[p] = position'[g][p]
      BY <1>b
    <3>7. Furthest[p] <= Furthest'[p]
      <4>1. position'[f][p] <= Furthest'[p]
        BY <1>b
      <4> QED
        BY <3>1, <3>2, <3>5, <3>6, <4>1
    <3>8. Furthest'[p] <= Furthest[p]
      <4>1. position[g][p] <= Furthest[p] /\ position[j][p] <= Furthest[p]
        BY <1>a
      <4> QED
        BY <3>1, <3>3, <3>4, <3>5, <3>6, <4>1
    <3> QED
      BY <3>1, <3>5, <3>6, <3>7, <3>8
  <2>2. Furthest' = Furthest
    BY <1>a, <1>b, <2>1
  <2>3. UNCHANGED <<committed, windows>>
    BY <1>1 DEF Rebalance, hands
  <2> QED
    BY <2>2, <2>3 DEF ALO!vars
<1>2. ASSUME NEW i \in Instances, Poll(i) PROVE ALO!Next
  <2>1. UNCHANGED <<committed, windows>>
    BY <1>2 DEF Poll, coordinator
  <2>2. NoneAbove(Furthest, Furthest')
    <3>1. SUFFICES ASSUME NEW p \in Partitions
                   PROVE  Furthest[p] <= Furthest'[p]
      BY DEF NoneAbove
    <3>2. PICK f \in Instances : Furthest[p] = position[f][p]
      BY <1>a
    <3>3. position[f][p] <= position'[f][p]
      <4>1. CASE f = i
        BY <1>0, <1>2, <4>1, PollFacts DEF NoneAbove
      <4>2. CASE f # i
        BY <1>0, <1>2, <4>2, PollFacts DEF TypeOK, Offsets
      <4> QED
        BY <4>1, <4>2
    <3>4. position'[f][p] <= Furthest'[p]
      BY <1>b
    <3>5. /\ position[f][p] \in Int /\ position'[f][p] \in Int
          /\ Furthest'[p] \in Int
      BY <1>0, <1>b DEF TypeOK, Offsets
    <3> QED
      BY <3>2, <3>3, <3>4, <3>5
  <2>3. NoneAbove(Furthest', [p \in Partitions |-> MaxOffset])
    BY <1>b DEF NoneAbove, Offsets
  <2> QED
    BY <1>b, <2>1, <2>2, <2>3
    DEF ALO!Next, ALO!Deliver, NoneAbove, ALO!NoneAbove, Offsets, ALO!Offsets
<1>3. ASSUME NEW i \in Instances, NEW r \in Records, Handle(i, r)
      PROVE  ALO!Next
  <2>1. UNCHANGED <<committed, position>> /\ Furthest' = Furthest
    BY <1>3 DEF Handle, coordinator, client, Furthest
  <2>2. handled \subseteq handled' /\ handled' \subseteq handled \union {r}
    BY <1>0, <1>3 DEF Handle, TypeOK
  <2>3. r \in Below(Furthest)
    <3>1. r \in Below(position[i]) /\ r[1] \in Partitions /\ r[2] \in Int
      BY <1>0, <1>3 DEF Handle, HandsAgree, Records
    <3>2. /\ r[2] < position[i][r[1]] /\ position[i][r[1]] <= Furthest[r[1]]
          /\ position[i][r[1]] \in Int /\ Furthest[r[1]] \in Int
      BY <1>0, <1>a, <3>1 DEF Below, TypeOK, Offsets
    <3> QED
      BY <3>1, <3>2 DEF Below
  <2> QED
    BY <2>1, <2>2, <2>3, SameBelow DEF ALO!Next, ALO!Handle
<1>4. ASSUME NEW i \in Instances, Commit(i) PROVE ALO!Next
  <2>1. UNCHANGED <<position, windows>> /\ Furthest' = Furthest
    BY <1>4 DEF Commit, client, Furthest
  <2>2. committed' \in [Partitions -> Offsets] /\ NoneAbove(committed, committed')
    BY <1>4, CommitFacts
  <2>3. NoneAbove(committed', Furthest)
    <3>1. SUFFICES ASSUME NEW p \in Partitions
                   PROVE  committed'[p] <= Furthest[p]
      BY DEF NoneAbove
    <3>2. PICK j \in Instances : committed'[p] <= position[j][p]
      BY <1>0, <2>1 DEF CommittedIsHandled
    <3>3. /\ position[j][p] <= Furthest[p] /\ committed'[p] \in Int
          /\ position[j][p] \in Int /\ Furthest[p] \in Int
      BY <1>0, <1>a, <2>2 DEF TypeOK, Offsets
    <3> QED
      BY <3>2, <3>3
  <2>4. Below(committed') \subseteq handled
    BY <1>0, <2>1 DEF CommittedIsHandled, Below
  <2> QED
    BY <2>1, <2>2, <2>3, <2>4, SameBelow
    DEF ALO!Next, ALO!Commit, NoneAbove, ALO!NoneAbove, Offsets, ALO!Offsets
<1>5. ASSUME NEW i \in Instances,
             \/ Start(i) \/ Crash(i) \/ Close(i) \/ RebalanceTimeout(i)
             \/ SessionTimeout(i) \/ Rejoin(i) \/ PollError(i)
      PROVE  UNCHANGED ALO!vars
  <2>1. UNCHANGED <<committed, position, windows>>
    BY <1>5 DEF Start, Crash, Close, Vanish, Drop, RebalanceTimeout,
       SessionTimeout, Rejoin, PollError, coordinator, client, hands
  <2> QED
    BY <2>1 DEF ALO!vars, Furthest
<1>6. CASE UNCHANGED vars
  BY <1>6 DEF vars, coordinator, client, hands, ALO!vars, Furthest
<1> QED
  BY <1>1, <1>2, <1>3, <1>4, <1>5, <1>6 DEF Next

(* Nothing is delivered or handled at the start.                           *)
LEMMA RefinementInit == Init => ALO!Init
<1> SUFFICES ASSUME Init PROVE ALO!Init
  OBVIOUS
<1> USE TopicAssumption, GroupAssumption DEF TopicAssumption, GroupAssumption
<1>1. TypeOK
  BY InvInit DEF GroupInv
<1>2. Furthest = [p \in Partitions |-> 0]
  BY <1>1, FurthestFacts DEF Init, FurthestIsReached
<1>3. UNION {windows[i] : i \in Instances} = {}
  BY DEF Init
<1> QED
  BY <1>2, <1>3 DEF Init, ALO!Init, ALO!Offsets

(* The group as a whole delivers at least once: what it commits was        *)
(* handled by some instance, however partitions and instances move, and a  *)
(* dropped instance's late commit changes nothing.                         *)
THEOREM GroupRefines == Spec => GroupDeliversAtLeastOnce
<1>1. GroupInv /\ [Next]_vars => [ALO!Next]_(ALO!vars)
  BY RefinementStep
<1> QED
  BY <1>1, RefinementInit, GroupInvariant, PTL
  DEF Spec, GroupDeliversAtLeastOnce, ALO!Spec
=============================================================================
