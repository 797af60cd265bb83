----------------------- MODULE ClusterMembershipProofs -----------------------
(***************************************************************************)
(* What the voters keep of a node id and when that node serves, for any    *)
(* number of voters, membership changes, crashes and lost answers, with    *)
(* and without TLS.                                                        *)
(***************************************************************************)
EXTENDS ClusterMembership, TLAPS

-----------------------------------------------------------------------------
(* The inductive invariant, in named parts.                                *)

\* The part of TypeOK that a membership change touches.
RaftOK ==
    /\ config \in Seq({"out", "learner", "voter"})
    /\ leader \in Voters
    /\ view \in [Nodes -> Nat] /\ seen \in [Voters -> Nat]
    /\ \A n \in Nodes : view[n] <= Len(config)
    /\ \A n \in Voters : seen[n] <= view[n]

\* The joining node has applied a membership in which it is a voter.
WasVoter == \E k \in 1..view[Joiner] : config[k] = "voter"

\* A decision to serve that is not stored yet outlives what it was made from:
\* it, too, is only ever taken by a node that was a voter.
Serves == local \in {"Ready", "Draining"} \/ store # "none" => WasVoter

\* The prune can find the id until it forgets it; after that the handler it
\* overtook keeps no counts, or is recorded as stray.
CountsKnown ==
    Tls => \A n \in Voters :
               /\ beat[n] = "noted" => meta[n]
               /\ counts[n] => meta[n] \/ stray[n] \/ Cleaning(n)

\* A join that is being recorded has its address or lost it to a prune or a
\* removal; a prune that is going to forget an address and is not late found
\* no hold, and there is none yet.
HoldsKnown ==
    /\ JoinHeld
    /\ \A n \in Voters : Recording(n) => meta[n] \/ torn[n]
    /\ \A n \in Voters, w \in Loops : prune[n][w] = "forget" => ~awaiting[n]

\* A node that has let the join pass has not spent its proof: the leader from
\* the time it accepts, the follower from the time it forwards.
ProofGood ==
    /\ join.at \notin {"none", "asked"} => ~spent[join.to]
    /\ join.at # "none" /\ (join.at # "asked" \/ join.to # join.via) => ~spent[join.via]

MembershipInv == TypeOK /\ Serves /\ CountsKnown /\ HoldsKnown /\ ProofGood

-----------------------------------------------------------------------------
\* An event moves the counter of events by one.
LEMMA EventTyped == ASSUME TypeOK, Event PROVE events' \in Nat
  BY DEF TypeOK, Event

\* A committed membership change leaves Raft's part well typed: the leader's
\* own membership is the new end of the log.
LEMMA ChangeTyped ==
    ASSUME TypeOK, NEW place \in {"out", "learner", "voter"}, Change(place)
    PROVE  RaftOK'
<1> USE DEF TypeOK, RaftOK, Change, Nodes
<1>1. config' \in Seq({"out", "learner", "voter"}) /\ Len(config') = Len(config) + 1
  OBVIOUS
<1>2. view' \in [Nodes -> Nat] /\ \A n \in Nodes : view[n] <= view'[n] /\ view'[n] <= Len(config')
  BY <1>1
<1>3. seen' = seen /\ leader' = leader
  OBVIOUS
<1> QED
  BY <1>1, <1>2, <1>3

\* Every action keeps the types.
LEMMA TypeStep == TypeOK /\ [Next]_vars => TypeOK'
<1> SUFFICES ASSUME TypeOK, [Next]_vars PROVE TypeOK'
  OBVIOUS
<1> USE MembershipAssumption DEF TypeOK, Flags, Nodes, Up, Place, maps, proofs, own, raft, hist, Loops
<1>1. CASE RefuseJoin
  BY <1>1 DEF RefuseJoin, Refuse, NoJoin
<1>2. CASE ForwardJoin
  BY <1>2 DEF ForwardJoin, Admissible, ProofValid
<1>3. CASE AcceptRejoin
  BY <1>3 DEF AcceptRejoin, Admissible, ProofValid
<1>4. CASE AddLearner
  <2>1. RaftOK'
    BY <1>4, ChangeTyped DEF AddLearner, RaftOK
  <2> QED
    BY <1>4, <2>1 DEF AddLearner, Admissible, RaftOK
<1>5. CASE CaughtUp
  BY <1>5 DEF CaughtUp
<1>6. CASE CatchUpTimesOut
  <2>1. RaftOK'
    BY <1>6, ChangeTyped DEF CatchUpTimesOut, RaftOK
  <2>2. events' \in Nat
    BY <1>6, EventTyped DEF CatchUpTimesOut
  <2> QED
    BY <1>6, <2>1, <2>2 DEF CatchUpTimesOut, Refuse, NoJoin, RaftOK
<1>7. CASE JoinAccepted
  BY <1>7 DEF JoinAccepted, Hold, defer_join_proof_burn
<1>8. CASE JoinRelayed
  BY <1>8 DEF JoinRelayed, Hold, defer_join_proof_burn
<1>9. CASE JoinAnswered
  BY <1>9 DEF JoinAnswered, NoJoin
<1>10. CASE JoinLost
  BY <1>10 DEF JoinLost, Refuse, NoJoin, Event
<1>11. CASE Promote
  BY <1>11 DEF Promote, Change
<1>12. CASE RemoveNode
  <2>1. RaftOK'
    BY <1>12, ChangeTyped DEF RemoveNode, RaftOK
  <2>2. events' \in Nat
    BY <1>12, EventTyped DEF RemoveNode
  <2> QED
    BY <1>12, <2>1, <2>2 DEF RemoveNode, RaftOK
<1>13. CASE RemovalCleans
  BY <1>13 DEF RemovalCleans, NoRemoval, DropCounts
<1>14. CASE Promoted
  BY <1>14 DEF Promoted
<1>15. CASE Leaves
  BY <1>15 DEF Leaves, Up
<1>16. CASE Isolates
  BY <1>16 DEF Isolates, Up
<1>17. CASE Recovers
  BY <1>17 DEF Recovers, Restored
<1>18. CASE QuorumChanges
  <2>2. events' \in Nat
    BY <1>18, EventTyped DEF QuorumChanges
  <2> QED
    BY <1>18, <2>2 DEF QuorumChanges
<1>19. CASE LoadHigh
  BY <1>19 DEF LoadHigh, Decide, Event
<1>20. CASE LoadLow
  BY <1>20 DEF LoadLow, Decide
<1>21. CASE force_drain
  BY <1>21 DEF force_drain, Decide, Event
<1>22. CASE force_resume
  BY <1>22 DEF force_resume, Decide
<1>23. CASE SetLocal
  BY <1>23 DEF SetLocal, Up
<1>24. ASSUME NEW r \in BOOLEAN, Crash(r) PROVE TypeOK'
  <2>1. view' \in [Nodes -> Nat] /\ \A i \in Nodes : view'[i] <= Len(config) /\ (i # Joiner => view'[i] = view[i])
    BY <1>24 DEF Crash
  <2>2. events' \in Nat
    BY <1>24, EventTyped DEF Crash
  <2> QED
    BY <1>24, <2>1, <2>2 DEF Crash
<1>25. ASSUME NEW n \in Nodes, Replicate(n) PROVE TypeOK'
  <2>1. view' \in [Nodes -> Nat] /\ \A i \in Nodes : view[i] <= view'[i] /\ view'[i] <= Len(config)
    BY <1>25 DEF Replicate
  <2>2. seen' = seen /\ config' = config /\ leader' = leader
    BY <1>25 DEF Replicate
  <2>a. ASSUME NEW i \in Voters PROVE seen'[i] <= view'[i]
    <3>1. seen[i] \in Nat /\ view[i] \in Nat /\ view'[i] \in Nat /\ seen[i] <= view[i] /\ view[i] <= view'[i]
      BY <2>1
    <3> QED
      BY <3>1, <2>2
  <2>3. RaftOK'
    BY <2>a, <2>1, <2>2 DEF RaftOK
  <2>4. UNCHANGED <<peer, maps, prune, proofs, beat, join, removal, own, hist, events>>
    BY <1>25 DEF Replicate
  <2> HIDE DEF Flags
  <2>5. join' \in [at : {"none", "asked", "catchup", "accepted", "noting", "relay", "relaying", "answer"}, via : Voters, to : Voters] /\ (local' = "Joining") = (join'.at # "none")
    BY <2>4
  <2> QED
    BY <2>3, <2>4, <2>5 DEF RaftOK
<1>26. ASSUME NEW n \in Voters, Resume(n) PROVE TypeOK'
  BY <1>26 DEF Resume
<1>27. ASSUME NEW n \in Voters, Ask(n) PROVE TypeOK'
  BY <1>27 DEF Ask
<1>28. ASSUME NEW n \in Voters, RemoveVoter(n) PROVE TypeOK'
  <2>1. RaftOK'
    BY <1>28, ChangeTyped DEF RemoveVoter, RaftOK
  <2> QED
    BY <1>28, <2>1 DEF RemoveVoter, RaftOK
<1>29. ASSUME NEW n \in Voters, MetricsChange(n) PROVE TypeOK'
  <2>1. seen' \in [Voters -> Nat] /\ \A i \in Voters : seen'[i] <= view[i]
    BY <1>29 DEF MetricsChange
  <2>2. awaiting' \in Flags /\ torn' \in Flags
    BY <1>29, Zenon DEF MetricsChange, Prune
  <2>3. prune' \in [Voters -> [Loops -> {"idle", "out", "forget", "late"}]]
    BY <1>29 DEF MetricsChange, Prune
  <2> QED
    BY <1>29, <2>1, <2>2, <2>3 DEF MetricsChange
<1>30. ASSUME NEW n \in Voters, HoldExpires(n) PROVE TypeOK'
  BY <1>30 DEF HoldExpires, Event
<1>31. ASSUME NEW n \in Voters, HeartbeatArrives(n) PROVE TypeOK'
  BY <1>31 DEF HeartbeatArrives
<1>32. ASSUME NEW n \in Voters, HeartbeatCounts(n) PROVE TypeOK'
  BY <1>32 DEF HeartbeatCounts, CountsKept, Member
<1>33. ASSUME NEW n \in Voters, Sweep(n) PROVE TypeOK'
  <2>2. events' \in Nat
    BY <1>33, EventTyped DEF Sweep
  <2> QED
    BY <1>33, <2>2 DEF Sweep
<1>34. ASSUME NEW n \in Voters, DownReleased(n) PROVE TypeOK'
  BY <1>34 DEF DownReleased
<1>35. ASSUME NEW n \in Voters, ProofExpires(n) PROVE TypeOK'
  <2>2. events' \in Nat
    BY <1>35, EventTyped DEF ProofExpires
  <2> QED
    BY <1>35, <2>2 DEF ProofExpires
<1>36. ASSUME NEW n \in Voters, ProofPurged(n) PROVE TypeOK'
  <2>2. events' \in Nat
    BY <1>36, EventTyped DEF ProofPurged
  <2> QED
    BY <1>36, <2>2 DEF ProofPurged
<1>37. ASSUME NEW n \in Voters, LeaderMoves(n) PROVE TypeOK'
  <2>2. events' \in Nat
    BY <1>37, EventTyped DEF LeaderMoves
  <2> QED
    BY <1>37, <2>2 DEF LeaderMoves
<1>39. CASE RecordAddrs
  BY <1>39 DEF RecordAddrs, Recorder
<1>40. CASE RemovalForgets
  BY <1>40 DEF RemovalForgets, ForgetAddrs
<1>41. ASSUME NEW n \in Voters, HealthTick(n) PROVE TypeOK'
  <2>1. seen' \in [Voters -> Nat] /\ \A i \in Voters : seen'[i] <= view[i]
    BY <1>41 DEF HealthTick
  <2>2. awaiting' \in Flags /\ torn' \in Flags
    BY <1>41, Zenon DEF HealthTick, Prune
  <2>3. prune' \in [Voters -> [Loops -> {"idle", "out", "forget", "late"}]]
    BY <1>41 DEF HealthTick, Prune
  <2> QED
    BY <1>41, <2>1, <2>2, <2>3 DEF HealthTick
<1>42. ASSUME NEW n \in Voters, NEW w \in Loops, PruneLooks(n, w) PROVE TypeOK'
  BY <1>42 DEF PruneLooks
<1>43. ASSUME NEW n \in Voters, NEW w \in Loops, PruneForgets(n, w) PROVE TypeOK'
  BY <1>43 DEF PruneForgets, ForgetAddrs, DropCounts
<1>38. CASE UNCHANGED vars
  BY <1>38 DEF vars
<1> HIDE DEF TypeOK, Flags, Nodes, Up, Place, maps, proofs, own, raft, hist, Loops
<1> QED
  BY <1>1, <1>2, <1>3, <1>4, <1>5, <1>6, <1>7, <1>8, <1>9, <1>10, <1>11, <1>12, <1>13, <1>14,
     <1>15, <1>16, <1>17, <1>18, <1>19, <1>20, <1>21, <1>22, <1>23, <1>24, <1>25, <1>26, <1>27,
     <1>28, <1>29, <1>30, <1>31, <1>32, <1>33, <1>34, <1>35, <1>36, <1>37, <1>38, <1>39, <1>40, <1>41, <1>42, <1>43 DEF Next

\* A membership change does not take a promotion back that was applied.
LEMMA ChangeKeepsVoter ==
    ASSUME TypeOK, NEW place \in {"out", "learner", "voter"}, Change(place), WasVoter
    PROVE  WasVoter'
<1> USE MembershipAssumption DEF TypeOK, Nodes, Change
<1>1. PICK k \in 1..view[Joiner] : config[k] = "voter"
  BY DEF WasVoter
<1>2. view'[Joiner] = view[Joiner] /\ view[Joiner] \in Nat /\ view[Joiner] <= Len(config)
  OBVIOUS
<1>3. k \in 1..Len(config) /\ config'[k] = config[k]
  BY <1>2
<1> QED
  BY <1>1, <1>2, <1>3 DEF WasVoter

\* Only a crash that loses the database takes the promotion from a node.
LEMMA VoterKept ==
    ASSUME TypeOK, [Next]_vars, WasVoter, \A r \in BOOLEAN : ~Crash(r)
    PROVE  WasVoter'
<1>1. CASE RefuseJoin
  BY <1>1 DEF RefuseJoin, raft, WasVoter
<1>2. CASE ForwardJoin
  BY <1>2 DEF ForwardJoin, raft, WasVoter
<1>3. CASE AcceptRejoin
  BY <1>3 DEF AcceptRejoin, raft, WasVoter
<1>4. CASE AddLearner
  BY <1>4, ChangeKeepsVoter DEF AddLearner, raft, WasVoter
<1>5. CASE CaughtUp
  BY <1>5 DEF CaughtUp, raft, WasVoter
<1>6. CASE CatchUpTimesOut
  BY <1>6, ChangeKeepsVoter DEF CatchUpTimesOut, raft, WasVoter
<1>7. CASE JoinAccepted
  BY <1>7 DEF JoinAccepted, raft, WasVoter
<1>8. CASE JoinRelayed
  BY <1>8 DEF JoinRelayed, raft, WasVoter
<1>9. CASE JoinAnswered
  BY <1>9 DEF JoinAnswered, raft, WasVoter
<1>10. CASE JoinLost
  BY <1>10 DEF JoinLost, raft, WasVoter
<1>11. CASE Promote
  BY <1>11, ChangeKeepsVoter DEF Promote, raft, WasVoter
<1>12. CASE RemoveNode
  BY <1>12, ChangeKeepsVoter DEF RemoveNode, raft, WasVoter
<1>13. CASE RemovalCleans
  BY <1>13 DEF RemovalCleans, raft, WasVoter
<1>14. CASE Promoted
  BY <1>14 DEF Promoted, raft, WasVoter
<1>15. CASE Leaves
  BY <1>15 DEF Leaves, raft, WasVoter
<1>16. CASE Isolates
  BY <1>16 DEF Isolates, raft, WasVoter
<1>17. CASE Recovers
  BY <1>17 DEF Recovers, raft, WasVoter
<1>18. CASE QuorumChanges
  BY <1>18 DEF QuorumChanges, raft, WasVoter
<1>19. CASE LoadHigh
  BY <1>19 DEF LoadHigh, raft, WasVoter
<1>20. CASE LoadLow
  BY <1>20 DEF LoadLow, raft, WasVoter
<1>21. CASE force_drain
  BY <1>21 DEF force_drain, raft, WasVoter
<1>22. CASE force_resume
  BY <1>22 DEF force_resume, raft, WasVoter
<1>23. CASE SetLocal
  BY <1>23 DEF SetLocal, raft, WasVoter
<1>24. ASSUME NEW r \in BOOLEAN, Crash(r) PROVE WasVoter'
  BY <1>24
<1>25. ASSUME NEW n \in Nodes, Replicate(n) PROVE WasVoter'
  <2>1. view'[Joiner] \in Nat /\ view[Joiner] \in Nat /\ view[Joiner] <= view'[Joiner]
    BY <1>25 DEF Replicate, TypeOK, Nodes
  <2>2. config' = config
    BY <1>25 DEF Replicate
  <2> QED
    BY <2>1, <2>2 DEF WasVoter
<1>26. ASSUME NEW n \in Voters, Resume(n) PROVE WasVoter'
  BY <1>26 DEF Resume, raft, WasVoter
<1>27. ASSUME NEW n \in Voters, Ask(n) PROVE WasVoter'
  BY <1>27 DEF Ask, raft, WasVoter
<1>28. ASSUME NEW n \in Voters, RemoveVoter(n) PROVE WasVoter'
  BY <1>28, ChangeKeepsVoter DEF RemoveVoter, raft, WasVoter
<1>29. ASSUME NEW n \in Voters, MetricsChange(n) PROVE WasVoter'
  BY <1>29 DEF MetricsChange, raft, WasVoter
<1>30. ASSUME NEW n \in Voters, HoldExpires(n) PROVE WasVoter'
  BY <1>30 DEF HoldExpires, raft, WasVoter
<1>31. ASSUME NEW n \in Voters, HeartbeatArrives(n) PROVE WasVoter'
  BY <1>31 DEF HeartbeatArrives, raft, WasVoter
<1>32. ASSUME NEW n \in Voters, HeartbeatCounts(n) PROVE WasVoter'
  BY <1>32 DEF HeartbeatCounts, raft, WasVoter
<1>33. ASSUME NEW n \in Voters, Sweep(n) PROVE WasVoter'
  BY <1>33 DEF Sweep, raft, WasVoter
<1>34. ASSUME NEW n \in Voters, DownReleased(n) PROVE WasVoter'
  BY <1>34 DEF DownReleased, raft, WasVoter
<1>35. ASSUME NEW n \in Voters, ProofExpires(n) PROVE WasVoter'
  BY <1>35 DEF ProofExpires, raft, WasVoter
<1>36. ASSUME NEW n \in Voters, ProofPurged(n) PROVE WasVoter'
  BY <1>36 DEF ProofPurged, raft, WasVoter
<1>37. ASSUME NEW n \in Voters, LeaderMoves(n) PROVE WasVoter'
  BY <1>37 DEF LeaderMoves, raft, WasVoter
<1>39. CASE RecordAddrs
  BY <1>39 DEF RecordAddrs, Recorder, raft, WasVoter
<1>40. CASE RemovalForgets
  BY <1>40 DEF RemovalForgets, ForgetAddrs, raft, WasVoter
<1>41. ASSUME NEW n \in Voters, HealthTick(n) PROVE WasVoter'
  BY <1>41 DEF HealthTick, Prune, raft, WasVoter
<1>42. ASSUME NEW n \in Voters, NEW w \in Loops, PruneLooks(n, w) PROVE WasVoter'
  BY <1>42 DEF PruneLooks, raft, WasVoter
<1>43. ASSUME NEW n \in Voters, NEW w \in Loops, PruneForgets(n, w) PROVE WasVoter'
  BY <1>43 DEF PruneForgets, ForgetAddrs, DropCounts, raft, WasVoter
<1>38. CASE UNCHANGED vars
  BY <1>38 DEF vars, raft, WasVoter
<1> QED
  BY <1>1, <1>2, <1>3, <1>4, <1>5, <1>6, <1>7, <1>8, <1>9, <1>10, <1>11, <1>12, <1>13, <1>14,
     <1>15, <1>16, <1>17, <1>18, <1>19, <1>20, <1>21, <1>22, <1>23, <1>24, <1>25, <1>26, <1>27,
     <1>28, <1>29, <1>30, <1>31, <1>32, <1>33, <1>34, <1>35, <1>36, <1>37, <1>38, <1>39, <1>40, <1>41, <1>42, <1>43 DEF Next

\* A node serves, or has decided to, only after it was a voter.
LEMMA ServesStep == TypeOK /\ Serves /\ [Next]_vars => Serves'
<1> SUFFICES ASSUME TypeOK, Serves, [Next]_vars PROVE Serves'
  OBVIOUS
<1>c. CASE \E r \in BOOLEAN : Crash(r)
  BY <1>c DEF Crash, Serves
<1> SUFFICES ASSUME \A r \in BOOLEAN : ~Crash(r) PROVE Serves'
  BY <1>c
<1>k. WasVoter => WasVoter'
  BY VoterKept
<1>p. ASSUME Place(view[Joiner]) = "voter" PROVE WasVoter
  BY <1>p DEF Place, WasVoter, TypeOK, Nodes
<1> USE DEF Serves, Up, own
<1>1. CASE RefuseJoin
  BY <1>1, <1>k DEF RefuseJoin, Refuse, NoJoin
<1>2. CASE ForwardJoin
  BY <1>2, <1>k DEF ForwardJoin, Admissible, ProofValid
<1>3. CASE AcceptRejoin
  BY <1>3, <1>k DEF AcceptRejoin, Admissible, ProofValid
<1>4. CASE AddLearner
  BY <1>4, <1>k DEF AddLearner, Admissible, ProofValid, Change
<1>5. CASE CaughtUp
  BY <1>5, <1>k DEF CaughtUp
<1>6. CASE CatchUpTimesOut
  BY <1>6, <1>k DEF CatchUpTimesOut, Refuse, NoJoin, Change, Event
<1>7. CASE JoinAccepted
  BY <1>7, <1>k DEF JoinAccepted, Hold, defer_join_proof_burn
<1>8. CASE JoinRelayed
  BY <1>8, <1>k DEF JoinRelayed, Hold, defer_join_proof_burn
<1>9. CASE JoinAnswered
  BY <1>9, <1>k DEF JoinAnswered, NoJoin
<1>10. CASE JoinLost
  BY <1>10, <1>k DEF JoinLost, Refuse, NoJoin, Event
<1>11. CASE Promote
  BY <1>11, <1>k DEF Promote, Change
<1>12. CASE RemoveNode
  BY <1>12, <1>k DEF RemoveNode, Change, Event
<1>13. CASE RemovalCleans
  BY <1>13, <1>k DEF RemovalCleans, NoRemoval, DropCounts
<1>14. CASE Promoted
  BY <1>14, <1>k, <1>p DEF Promoted
<1>15. CASE Leaves
  BY <1>15, <1>k DEF Leaves, Up
<1>16. CASE Isolates
  BY <1>16, <1>k DEF Isolates, Up
<1>17. CASE Recovers
  BY <1>17, <1>k, <1>p DEF Recovers, Restored
<1>18. CASE QuorumChanges
  BY <1>18, <1>k DEF QuorumChanges, Event
<1>19. CASE LoadHigh
  BY <1>19, <1>k DEF LoadHigh, Decide, Event
<1>20. CASE LoadLow
  BY <1>20, <1>k DEF LoadLow, Decide
<1>21. CASE force_drain
  BY <1>21, <1>k DEF force_drain, Decide, Event
<1>22. CASE force_resume
  BY <1>22, <1>k DEF force_resume, Decide
<1>23. CASE SetLocal
  BY <1>23, <1>k DEF SetLocal, Up
<1>24. ASSUME NEW r \in BOOLEAN, Crash(r) PROVE Serves'
  BY <1>24
<1>25. ASSUME NEW n \in Nodes, Replicate(n) PROVE Serves'
  BY <1>25, <1>k DEF Replicate, Nodes
<1>26. ASSUME NEW n \in Voters, Resume(n) PROVE Serves'
  BY <1>26, <1>k, <1>p DEF Resume
<1>27. ASSUME NEW n \in Voters, Ask(n) PROVE Serves'
  BY <1>27, <1>k DEF Ask
<1>28. ASSUME NEW n \in Voters, RemoveVoter(n) PROVE Serves'
  BY <1>28, <1>k DEF RemoveVoter, Change
<1>29. ASSUME NEW n \in Voters, MetricsChange(n) PROVE Serves'
  BY <1>29, <1>k DEF MetricsChange, Prune, Nodes
<1>30. ASSUME NEW n \in Voters, HoldExpires(n) PROVE Serves'
  BY <1>30, <1>k DEF HoldExpires, Event
<1>31. ASSUME NEW n \in Voters, HeartbeatArrives(n) PROVE Serves'
  BY <1>31, <1>k DEF HeartbeatArrives
<1>32. ASSUME NEW n \in Voters, HeartbeatCounts(n) PROVE Serves'
  BY <1>32, <1>k DEF HeartbeatCounts, CountsKept, Member
<1>33. ASSUME NEW n \in Voters, Sweep(n) PROVE Serves'
  BY <1>33, <1>k DEF Sweep, Event
<1>34. ASSUME NEW n \in Voters, DownReleased(n) PROVE Serves'
  BY <1>34, <1>k DEF DownReleased
<1>35. ASSUME NEW n \in Voters, ProofExpires(n) PROVE Serves'
  BY <1>35, <1>k DEF ProofExpires, Event
<1>36. ASSUME NEW n \in Voters, ProofPurged(n) PROVE Serves'
  BY <1>36, <1>k DEF ProofPurged, Event
<1>37. ASSUME NEW n \in Voters, LeaderMoves(n) PROVE Serves'
  BY <1>37, <1>k DEF LeaderMoves, Event
<1>39. CASE RecordAddrs
  BY <1>39, <1>k DEF RecordAddrs, Recorder
<1>40. CASE RemovalForgets
  BY <1>40, <1>k DEF RemovalForgets, ForgetAddrs
<1>41. ASSUME NEW n \in Voters, HealthTick(n) PROVE Serves'
  BY <1>41, <1>k DEF HealthTick, Prune
<1>42. ASSUME NEW n \in Voters, NEW w \in Loops, PruneLooks(n, w) PROVE Serves'
  BY <1>42, <1>k DEF PruneLooks
<1>43. ASSUME NEW n \in Voters, NEW w \in Loops, PruneForgets(n, w) PROVE Serves'
  BY <1>43, <1>k DEF PruneForgets, ForgetAddrs, DropCounts
<1>38. CASE UNCHANGED vars
  BY <1>38 DEF vars, raft, WasVoter
<1> QED
  BY <1>1, <1>2, <1>3, <1>4, <1>5, <1>6, <1>7, <1>8, <1>9, <1>10, <1>11, <1>12, <1>13, <1>14,
     <1>15, <1>16, <1>17, <1>18, <1>19, <1>20, <1>21, <1>22, <1>23, <1>24, <1>25, <1>26, <1>27,
     <1>28, <1>29, <1>30, <1>31, <1>32, <1>33, <1>34, <1>35, <1>36, <1>37, <1>38, <1>39, <1>40, <1>41, <1>42, <1>43 DEF Next

\* The counts of an id stay where the prune finds them.
LEMMA CountsStep == TypeOK /\ CountsKnown /\ [Next]_vars => CountsKnown'
<1> SUFFICES ASSUME TypeOK, CountsKnown, [Next]_vars PROVE CountsKnown'
  OBVIOUS
<1> USE DEF TypeOK, Flags, CountsKnown, maps, hist, Cleaning
<1>1. CASE RefuseJoin
  BY <1>1 DEF RefuseJoin, Refuse, NoJoin
<1>2. CASE ForwardJoin
  BY <1>2 DEF ForwardJoin, Admissible, ProofValid
<1>3. CASE AcceptRejoin
  BY <1>3 DEF AcceptRejoin, Admissible, ProofValid
<1>4. CASE AddLearner
  BY <1>4 DEF AddLearner, Admissible, ProofValid, Change
<1>5. CASE CaughtUp
  BY <1>5 DEF CaughtUp
<1>6. CASE CatchUpTimesOut
  BY <1>6 DEF CatchUpTimesOut, Refuse, NoJoin, Change, Event
<1>7. CASE JoinAccepted
  BY <1>7 DEF JoinAccepted, Hold, defer_join_proof_burn
<1>8. CASE JoinRelayed
  BY <1>8 DEF JoinRelayed, Hold, defer_join_proof_burn
<1>9. CASE JoinAnswered
  BY <1>9 DEF JoinAnswered, NoJoin
<1>10. CASE JoinLost
  BY <1>10 DEF JoinLost, Refuse, NoJoin, Event
<1>11. CASE Promote
  BY <1>11 DEF Promote, Change
<1>12. CASE RemoveNode
  BY <1>12 DEF RemoveNode, Change, Event
<1>13. CASE RemovalCleans
  BY <1>13 DEF RemovalCleans, NoRemoval, DropCounts
<1>14. CASE Promoted
  BY <1>14 DEF Promoted
<1>15. CASE Leaves
  BY <1>15 DEF Leaves, Up
<1>16. CASE Isolates
  BY <1>16 DEF Isolates, Up
<1>17. CASE Recovers
  BY <1>17 DEF Recovers, Restored
<1>18. CASE QuorumChanges
  BY <1>18 DEF QuorumChanges, Event
<1>19. CASE LoadHigh
  BY <1>19 DEF LoadHigh, Decide, Event
<1>20. CASE LoadLow
  BY <1>20 DEF LoadLow, Decide
<1>21. CASE force_drain
  BY <1>21 DEF force_drain, Decide, Event
<1>22. CASE force_resume
  BY <1>22 DEF force_resume, Decide
<1>23. CASE SetLocal
  BY <1>23 DEF SetLocal, Up
<1>24. ASSUME NEW r \in BOOLEAN, Crash(r) PROVE CountsKnown'
  BY <1>24 DEF Crash, Up, Event
<1>25. ASSUME NEW n \in Nodes, Replicate(n) PROVE CountsKnown'
  BY <1>25 DEF Replicate, Nodes
<1>26. ASSUME NEW n \in Voters, Resume(n) PROVE CountsKnown'
  BY <1>26 DEF Resume
<1>27. ASSUME NEW n \in Voters, Ask(n) PROVE CountsKnown'
  BY <1>27 DEF Ask
<1>28. ASSUME NEW n \in Voters, RemoveVoter(n) PROVE CountsKnown'
  BY <1>28 DEF RemoveVoter, Change
<1>29. ASSUME NEW n \in Voters, MetricsChange(n) PROVE CountsKnown'
  BY <1>29 DEF MetricsChange, Prune
<1>30. ASSUME NEW n \in Voters, HoldExpires(n) PROVE CountsKnown'
  BY <1>30 DEF HoldExpires, Event
<1>31. ASSUME NEW n \in Voters, HeartbeatArrives(n) PROVE CountsKnown'
  BY <1>31 DEF HeartbeatArrives
<1>32. ASSUME NEW n \in Voters, HeartbeatCounts(n) PROVE CountsKnown'
  BY <1>32 DEF HeartbeatCounts, CountsKept, Member
<1>33. ASSUME NEW n \in Voters, Sweep(n) PROVE CountsKnown'
  BY <1>33 DEF Sweep, Event
<1>34. ASSUME NEW n \in Voters, DownReleased(n) PROVE CountsKnown'
  BY <1>34 DEF DownReleased
<1>35. ASSUME NEW n \in Voters, ProofExpires(n) PROVE CountsKnown'
  BY <1>35 DEF ProofExpires, Event
<1>36. ASSUME NEW n \in Voters, ProofPurged(n) PROVE CountsKnown'
  BY <1>36 DEF ProofPurged, Event
<1>37. ASSUME NEW n \in Voters, LeaderMoves(n) PROVE CountsKnown'
  BY <1>37 DEF LeaderMoves, Event
<1>39. CASE RecordAddrs
  BY <1>39 DEF RecordAddrs, Recorder
<1>40. CASE RemovalForgets
  BY <1>40 DEF RemovalForgets, ForgetAddrs
<1>41. ASSUME NEW n \in Voters, HealthTick(n) PROVE CountsKnown'
  BY <1>41 DEF HealthTick, Prune
<1>42. ASSUME NEW n \in Voters, NEW w \in Loops, PruneLooks(n, w) PROVE CountsKnown'
  BY <1>42 DEF PruneLooks
<1>43. ASSUME NEW n \in Voters, NEW w \in Loops, PruneForgets(n, w) PROVE CountsKnown'
  BY <1>43 DEF PruneForgets, ForgetAddrs, DropCounts
<1>38. CASE UNCHANGED vars
  BY <1>38 DEF vars
<1> QED
  BY <1>1, <1>2, <1>3, <1>4, <1>5, <1>6, <1>7, <1>8, <1>9, <1>10, <1>11, <1>12, <1>13, <1>14,
     <1>15, <1>16, <1>17, <1>18, <1>19, <1>20, <1>21, <1>22, <1>23, <1>24, <1>25, <1>26, <1>27,
     <1>28, <1>29, <1>30, <1>31, <1>32, <1>33, <1>34, <1>35, <1>36, <1>37, <1>38, <1>39, <1>40, <1>41, <1>42, <1>43 DEF Next

\* An address on hold is not forgotten.
LEMMA HeldStep == TypeOK /\ HoldsKnown /\ [Next]_vars => HoldsKnown'
<1> SUFFICES ASSUME TypeOK, HoldsKnown, [Next]_vars PROVE HoldsKnown'
  OBVIOUS
<1> USE DEF TypeOK, Flags, HoldsKnown, JoinHeld, maps, hist, Recording, Recorder, Cleaning
<1>1. CASE RefuseJoin
  BY <1>1 DEF RefuseJoin, Refuse, NoJoin
<1>2. CASE ForwardJoin
  BY <1>2 DEF ForwardJoin, Admissible, ProofValid
<1>3. CASE AcceptRejoin
  BY <1>3 DEF AcceptRejoin, Admissible, ProofValid
<1>4. CASE AddLearner
  BY <1>4 DEF AddLearner, Admissible, ProofValid, Change
<1>5. CASE CaughtUp
  BY <1>5 DEF CaughtUp
<1>6. CASE CatchUpTimesOut
  BY <1>6 DEF CatchUpTimesOut, Refuse, NoJoin, Change, Event
<1>7. CASE JoinAccepted
  BY <1>7 DEF JoinAccepted, Hold, defer_join_proof_burn
<1>8. CASE JoinRelayed
  BY <1>8 DEF JoinRelayed, Hold, defer_join_proof_burn
<1>9. CASE JoinAnswered
  BY <1>9 DEF JoinAnswered, NoJoin
<1>10. CASE JoinLost
  BY <1>10 DEF JoinLost, Refuse, NoJoin, Event
<1>11. CASE Promote
  BY <1>11 DEF Promote, Change
<1>12. CASE RemoveNode
  BY <1>12 DEF RemoveNode, Change, Event
<1>13. CASE RemovalCleans
  BY <1>13 DEF RemovalCleans, NoRemoval, DropCounts
<1>14. CASE Promoted
  BY <1>14 DEF Promoted
<1>15. CASE Leaves
  BY <1>15 DEF Leaves, Up
<1>16. CASE Isolates
  BY <1>16 DEF Isolates, Up
<1>17. CASE Recovers
  BY <1>17 DEF Recovers, Restored
<1>18. CASE QuorumChanges
  BY <1>18 DEF QuorumChanges, Event
<1>19. CASE LoadHigh
  BY <1>19 DEF LoadHigh, Decide, Event
<1>20. CASE LoadLow
  BY <1>20 DEF LoadLow, Decide
<1>21. CASE force_drain
  BY <1>21 DEF force_drain, Decide, Event
<1>22. CASE force_resume
  BY <1>22 DEF force_resume, Decide
<1>23. CASE SetLocal
  BY <1>23 DEF SetLocal, Up
<1>24. ASSUME NEW r \in BOOLEAN, Crash(r) PROVE HoldsKnown'
  BY <1>24 DEF Crash, Up, Event
<1>25. ASSUME NEW n \in Nodes, Replicate(n) PROVE HoldsKnown'
  BY <1>25 DEF Replicate, Nodes
<1>26. ASSUME NEW n \in Voters, Resume(n) PROVE HoldsKnown'
  BY <1>26 DEF Resume
<1>27. ASSUME NEW n \in Voters, Ask(n) PROVE HoldsKnown'
  BY <1>27 DEF Ask
<1>28. ASSUME NEW n \in Voters, RemoveVoter(n) PROVE HoldsKnown'
  BY <1>28 DEF RemoveVoter, Change
<1>29. ASSUME NEW n \in Voters, MetricsChange(n) PROVE HoldsKnown'
  BY <1>29 DEF MetricsChange, Prune, Nodes
<1>30. ASSUME NEW n \in Voters, HoldExpires(n) PROVE HoldsKnown'
  BY <1>30 DEF HoldExpires, Event
<1>31. ASSUME NEW n \in Voters, HeartbeatArrives(n) PROVE HoldsKnown'
  BY <1>31 DEF HeartbeatArrives
<1>32. ASSUME NEW n \in Voters, HeartbeatCounts(n) PROVE HoldsKnown'
  BY <1>32 DEF HeartbeatCounts, CountsKept, Member
<1>33. ASSUME NEW n \in Voters, Sweep(n) PROVE HoldsKnown'
  BY <1>33 DEF Sweep, Event
<1>34. ASSUME NEW n \in Voters, DownReleased(n) PROVE HoldsKnown'
  BY <1>34 DEF DownReleased
<1>35. ASSUME NEW n \in Voters, ProofExpires(n) PROVE HoldsKnown'
  BY <1>35 DEF ProofExpires, Event
<1>36. ASSUME NEW n \in Voters, ProofPurged(n) PROVE HoldsKnown'
  BY <1>36 DEF ProofPurged, Event
<1>37. ASSUME NEW n \in Voters, LeaderMoves(n) PROVE HoldsKnown'
  BY <1>37 DEF LeaderMoves, Event
<1>39. CASE RecordAddrs
  BY <1>39 DEF RecordAddrs, Recorder
<1>40. CASE RemovalForgets
  BY <1>40 DEF RemovalForgets, ForgetAddrs
<1>41. ASSUME NEW n \in Voters, HealthTick(n) PROVE HoldsKnown'
  BY <1>41 DEF HealthTick, Prune
<1>42. ASSUME NEW n \in Voters, NEW w \in Loops, PruneLooks(n, w) PROVE HoldsKnown'
  <2>1. \A i \in Voters, v \in Loops : prune'[i][v] = "forget" => prune[i][v] = "forget" \/ (i = n /\ ~awaiting[n])
    BY <1>42 DEF PruneLooks, Prunable
  <2>2. UNCHANGED <<meta, awaiting, torn, removal, join>>
    BY <1>42 DEF PruneLooks
  <2> QED
    BY <2>1, <2>2
<1>43. ASSUME NEW n \in Voters, NEW w \in Loops, PruneForgets(n, w) PROVE HoldsKnown'
  BY <1>43 DEF PruneForgets, ForgetAddrs, DropCounts
<1>38. CASE UNCHANGED vars
  BY <1>38 DEF vars
<1> QED
  BY <1>1, <1>2, <1>3, <1>4, <1>5, <1>6, <1>7, <1>8, <1>9, <1>10, <1>11, <1>12, <1>13, <1>14,
     <1>15, <1>16, <1>17, <1>18, <1>19, <1>20, <1>21, <1>22, <1>23, <1>24, <1>25, <1>26, <1>27,
     <1>28, <1>29, <1>30, <1>31, <1>32, <1>33, <1>34, <1>35, <1>36, <1>37, <1>38, <1>39, <1>40, <1>41, <1>42, <1>43 DEF Next

\* The proof stays good on the nodes that let the join pass.
LEMMA ProofStep == TypeOK /\ ProofGood /\ [Next]_vars => ProofGood'
<1> SUFFICES ASSUME TypeOK, ProofGood, [Next]_vars PROVE ProofGood'
  OBVIOUS
<1> USE DEF TypeOK, Flags, ProofGood, proofs, Up
<1>1. CASE RefuseJoin
  BY <1>1 DEF RefuseJoin, Refuse, NoJoin
<1>2. CASE ForwardJoin
  BY <1>2 DEF ForwardJoin, Admissible, ProofValid
<1>3. CASE AcceptRejoin
  BY <1>3 DEF AcceptRejoin, Admissible, ProofValid
<1>4. CASE AddLearner
  BY <1>4 DEF AddLearner, Admissible, ProofValid, Change
<1>5. CASE CaughtUp
  BY <1>5 DEF CaughtUp
<1>6. CASE CatchUpTimesOut
  BY <1>6 DEF CatchUpTimesOut, Refuse, NoJoin, Change, Event
<1>7. CASE JoinAccepted
  BY <1>7 DEF JoinAccepted, Hold, defer_join_proof_burn
<1>8. CASE JoinRelayed
  BY <1>8 DEF JoinRelayed, Hold, defer_join_proof_burn
<1>9. CASE JoinAnswered
  BY <1>9 DEF JoinAnswered, NoJoin
<1>10. CASE JoinLost
  BY <1>10 DEF JoinLost, Refuse, NoJoin, Event
<1>11. CASE Promote
  BY <1>11 DEF Promote, Change
<1>12. CASE RemoveNode
  BY <1>12 DEF RemoveNode, Change, Event
<1>13. CASE RemovalCleans
  BY <1>13 DEF RemovalCleans, NoRemoval, DropCounts
<1>14. CASE Promoted
  BY <1>14 DEF Promoted
<1>15. CASE Leaves
  BY <1>15 DEF Leaves, Up
<1>16. CASE Isolates
  BY <1>16 DEF Isolates, Up
<1>17. CASE Recovers
  BY <1>17 DEF Recovers, Restored
<1>18. CASE QuorumChanges
  BY <1>18 DEF QuorumChanges, Event
<1>19. CASE LoadHigh
  BY <1>19 DEF LoadHigh, Decide, Event
<1>20. CASE LoadLow
  BY <1>20 DEF LoadLow, Decide
<1>21. CASE force_drain
  BY <1>21 DEF force_drain, Decide, Event
<1>22. CASE force_resume
  BY <1>22 DEF force_resume, Decide
<1>23. CASE SetLocal
  BY <1>23 DEF SetLocal, Up
<1>24. ASSUME NEW r \in BOOLEAN, Crash(r) PROVE ProofGood'
  BY <1>24 DEF Crash, Up, Event
<1>25. ASSUME NEW n \in Nodes, Replicate(n) PROVE ProofGood'
  BY <1>25 DEF Replicate, Nodes
<1>26. ASSUME NEW n \in Voters, Resume(n) PROVE ProofGood'
  BY <1>26 DEF Resume
<1>27. ASSUME NEW n \in Voters, Ask(n) PROVE ProofGood'
  BY <1>27 DEF Ask
<1>28. ASSUME NEW n \in Voters, RemoveVoter(n) PROVE ProofGood'
  BY <1>28 DEF RemoveVoter, Change
<1>29. ASSUME NEW n \in Voters, MetricsChange(n) PROVE ProofGood'
  BY <1>29 DEF MetricsChange, Prune, Nodes
<1>30. ASSUME NEW n \in Voters, HoldExpires(n) PROVE ProofGood'
  BY <1>30 DEF HoldExpires, Event
<1>31. ASSUME NEW n \in Voters, HeartbeatArrives(n) PROVE ProofGood'
  BY <1>31 DEF HeartbeatArrives
<1>32. ASSUME NEW n \in Voters, HeartbeatCounts(n) PROVE ProofGood'
  BY <1>32 DEF HeartbeatCounts, CountsKept, Member
<1>33. ASSUME NEW n \in Voters, Sweep(n) PROVE ProofGood'
  BY <1>33 DEF Sweep, Event
<1>34. ASSUME NEW n \in Voters, DownReleased(n) PROVE ProofGood'
  BY <1>34 DEF DownReleased
<1>35. ASSUME NEW n \in Voters, ProofExpires(n) PROVE ProofGood'
  BY <1>35 DEF ProofExpires, Event
<1>36. ASSUME NEW n \in Voters, ProofPurged(n) PROVE ProofGood'
  BY <1>36 DEF ProofPurged, Event
<1>37. ASSUME NEW n \in Voters, LeaderMoves(n) PROVE ProofGood'
  BY <1>37 DEF LeaderMoves, Event
<1>39. CASE RecordAddrs
  BY <1>39 DEF RecordAddrs, Recorder
<1>40. CASE RemovalForgets
  BY <1>40 DEF RemovalForgets, ForgetAddrs
<1>41. ASSUME NEW n \in Voters, HealthTick(n) PROVE ProofGood'
  BY <1>41 DEF HealthTick, Prune
<1>42. ASSUME NEW n \in Voters, NEW w \in Loops, PruneLooks(n, w) PROVE ProofGood'
  BY <1>42 DEF PruneLooks
<1>43. ASSUME NEW n \in Voters, NEW w \in Loops, PruneForgets(n, w) PROVE ProofGood'
  BY <1>43 DEF PruneForgets, ForgetAddrs, DropCounts
<1>38. CASE UNCHANGED vars
  BY <1>38 DEF vars
<1> QED
  BY <1>1, <1>2, <1>3, <1>4, <1>5, <1>6, <1>7, <1>8, <1>9, <1>10, <1>11, <1>12, <1>13, <1>14,
     <1>15, <1>16, <1>17, <1>18, <1>19, <1>20, <1>21, <1>22, <1>23, <1>24, <1>25, <1>26, <1>27,
     <1>28, <1>29, <1>30, <1>31, <1>32, <1>33, <1>34, <1>35, <1>36, <1>37, <1>38, <1>39, <1>40, <1>41, <1>42, <1>43 DEF Next

-----------------------------------------------------------------------------
\* The invariant holds initially and every step keeps it.
THEOREM MembershipInvariant == Spec => []MembershipInv
<1>1. Init => MembershipInv
  <2> SUFFICES ASSUME Init PROVE MembershipInv
    OBVIOUS
  <2> USE MembershipAssumption DEF Init
  <2>1. TypeOK
    <3>1. RaftOK
      BY DEF RaftOK, Nodes
    <3>2. meta \in Flags /\ counts \in Flags /\ awaiting \in Flags /\ unspent \in Flags /\ spent \in Flags /\ stray \in Flags /\ torn \in Flags
      BY DEF Flags
    <3>3. join \in [at : {"none"}, via : Voters, to : Voters] /\ removal \in [at : {"none"}, by : Voters]
      BY DEF NoJoin, NoRemoval
    <3> QED
      BY <3>1, <3>2, <3>3 DEF RaftOK, TypeOK
  <2>2. Serves /\ CountsKnown
    BY DEF Serves, CountsKnown
  <2>4. HoldsKnown
    BY DEF HoldsKnown, JoinHeld, Recording, NoJoin
  <2>3. ProofGood
    BY DEF ProofGood, NoJoin
  <2> QED
    BY <2>1, <2>2, <2>3, <2>4 DEF MembershipInv
<1>2. MembershipInv /\ [Next]_vars => MembershipInv'
  BY TypeStep, ServesStep, CountsStep, HeldStep, ProofStep DEF MembershipInv
<1> QED
  BY <1>1, <1>2, PTL DEF Spec

\* Every variable of the membership model keeps its type; no node is ahead of
\* the membership log, and a process is joining exactly while its request is
\* under way (accept_join, remove_peer, the metrics and health loops).
THEOREM MembershipTypes == Spec => []TypeOK
<1>1. MembershipInv => TypeOK
  BY DEF MembershipInv
<1> QED
  BY <1>1, MembershipInvariant, PTL

\* A node serves publishers only after it applied its promotion to voter,
\* whatever the load probe, the drain handler, the health loop and restarts
\* do in between (admission.rs, health_loop, prune_topology_to_membership).
THEOREM MembershipLearnerWaits == Spec => []LearnerWaits
<1>1. MembershipInv => LearnerWaits
  BY DEF MembershipInv, Serves, WasVoter, LearnerWaits
<1> QED
  BY <1>1, MembershipInvariant, PTL

\* What the voters remember of a node follows its membership, with two loops
\* that prune step by step: counts of a removed id can be pruned (but for
\* strays), the address of an accepted join is there while its hold is in
\* force (but for one torn out while it was recorded) and its proof is not
\* spent before it has the answer (note_peer_heartbeat,
\* record_joined_peer_addresses, prune_topology_to_membership,
\* defer_join_proof_burn).
THEOREM MembershipCachesFollow == Spec => []CachesFollowMembership
<1>1. MembershipInv => CountsPruned
  BY DEF MembershipInv, CountsKnown, CountsPruned
<1>2. MembershipInv => JoinHeld /\ RetryPossible
  BY DEF MembershipInv, HoldsKnown, ProofGood, RetryPossible
<1>3. MembershipInv => CachesFollowMembership
  BY <1>1, <1>2 DEF CachesFollowMembership
<1> QED
  BY <1>3, MembershipInvariant, PTL
=============================================================================
