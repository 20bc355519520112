--------------------------- MODULE ElectionProofs ---------------------------
(***************************************************************************)
(* Proofs about Election, for every cluster and every bound.               *)
(***************************************************************************)
EXTENDS Election, FiniteSetTheorems, TLAPS

-----------------------------------------------------------------------------
(***************************************************************************)
(* Type correctness. TypeOK alone is not inductive: that the last entry of *)
(* a leader's log has a term above 0 rests on the leader's own term being  *)
(* above 0, which its recorded victory shows.                              *)
(***************************************************************************)

LeaderRecorded ==
    \A n \in Node : role[n] = Leader => [node |-> n, term |-> currentTerm[n]] \in leaders

TypeInv == TypeOK /\ LeaderRecorded

USE DEF Term

\* The election starts with every node a follower in term 0.
LEMMA TypeInit == Init => TypeInv
  BY BoundAssumption, NodeAssumption
     DEF Init, TypeInv, TypeOK, LeaderRecorded, Pos, HardState, Follower, Leader

\* What persistHardState leaves on stable storage is a term and a vote.
LEMMA PersistType ==
    ASSUME NEW n \in Node, NEW t \in Term, NEW v \in Node \cup {None},
           NEW earlier \in SUBSET HardState,
           hardState \in [Node -> HardState],
           persistHardState(n, t, v, earlier)
    PROVE  hardState' \in [Node -> HardState]
  BY DEF persistHardState, HardState

\* stepDown keeps the types.
LEMMA StepDownType ==
    ASSUME TypeInv, NEW n \in Node, NEW t \in Term, stepDown(n, t)
    PROVE  /\ currentTerm' \in [Node -> Term]
           /\ votedFor' \in [Node -> Node \cup {None}]
           /\ hardState' \in [Node -> HardState]
           /\ role' \in [Node -> {Follower, Candidate, Leader}]
           /\ preVotes' \in [Node -> SUBSET Round]
           /\ votes' \in [Node -> SUBSET Node]
           /\ \A p \in Node : role'[p] = Leader =>
                 role[p] = Leader /\ currentTerm'[p] = currentTerm[p]
  <1>1. hardState' \in [Node -> HardState]
    <2>1. persistHardState(n, t, None, {}) /\ hardState \in [Node -> HardState]
      BY DEF stepDown, TypeInv, TypeOK
    <2> QED
      BY <2>1, PersistType
  <1> QED
    BY <1>1 DEF stepDown, TypeInv, TypeOK, Follower, Leader

\* The no-op of a new leader has an index and a term above 0.
LEMMA BecomeLeaderType ==
    ASSUME NEW n \in Node, NEW t \in 1..MaxTerm, becomeLeader(n, t),
           lastPos \in [Node -> Pos],
           leaderID \in [Node -> Node \cup {None}],
           role \in [Node -> {Follower, Candidate, Leader}],
           leaders \subseteq Victory
    PROVE  /\ lastPos' \in [Node -> Pos]
           /\ leaderID' \in [Node -> Node \cup {None}]
           /\ role' \in [Node -> {Follower, Candidate, Leader}]
           /\ leaders' \subseteq Victory
  <1>1. [term |-> t, index |-> lastPos[n].index + 1] \in Pos
    BY BoundAssumption DEF becomeLeader, Pos
  <1>2. lastPos' = [lastPos EXCEPT ![n] = [term |-> t, index |-> lastPos[n].index + 1]]
    BY DEF becomeLeader
  <1>3. lastPos' \in [Node -> Pos]
    BY <1>1, <1>2
  <1>4. [node |-> n, term |-> t] \in Victory
    BY DEF Victory
  <1> QED
    BY <1>3, <1>4 DEF becomeLeader

\* A real election keeps the types, whatever log position it claims.
LEMMA RealElectionType ==
    ASSUME TypeInv, NEW n \in Node, NEW pos \in Pos, startRealElection(n, pos)
    PROVE  TypeInv'
  <1> DEFINE t == currentTerm[n] + 1
  <1>0. TypeOK /\ LeaderRecorded
    BY DEF TypeInv
  <1>1. t \in 1..MaxTerm
    BY <1>0, BoundAssumption DEF startRealElection, TypeOK
  <1>2. hardState' \in [Node -> HardState]
    <2>1. persistHardState(n, t, n, {})
      BY DEF startRealElection
    <2> QED
      BY <1>0, <1>1, <2>1, PersistType DEF TypeOK
  <1>3. /\ currentTerm' = [currentTerm EXCEPT ![n] = t]
        /\ votedFor' = [votedFor EXCEPT ![n] = n]
        /\ preVotes' = [preVotes EXCEPT ![n] = {}]
        /\ votes' = [votes EXCEPT ![n] = {n}]
        /\ heard' = heard
    BY DEF startRealElection
  <1>4. voteMsgs' \subseteq VoteMsg
    <2>1. PICK kept \in SUBSET voteMsgs :
            voteMsgs' = kept \cup
               {[type |-> "request", from |-> n, to |-> p, term |-> t,
                 pos |-> pos, live |-> TRUE] : p \in Node \ {n}}
      BY DEF startRealElection
    <2>2. \A p \in Node \ {n} :
            [type |-> "request", from |-> n, to |-> p, term |-> t,
             pos |-> pos, live |-> TRUE] \in VoteMsg
      BY <1>1 DEF VoteMsg, VoteRequest
    <2> QED
      BY <1>0, <2>1, <2>2 DEF TypeOK
  <1>5. /\ lastPos' \in [Node -> Pos]
        /\ leaderID' \in [Node -> Node \cup {None}]
        /\ role' \in [Node -> {Follower, Candidate, Leader}]
        /\ leaders' \subseteq Victory
        /\ LeaderRecorded'
    <2>1. CASE IsQuorum({n})
      <3>1. becomeLeader(n, t)
        BY <2>1 DEF startRealElection
      <3>2. LeaderRecorded'
        BY <1>0, <1>3, <3>1 DEF becomeLeader, LeaderRecorded, TypeOK
      <3> QED
        BY <1>0, <1>1, <3>1, <3>2, BecomeLeaderType DEF TypeOK
    <2>2. CASE ~IsQuorum({n})
      <3>1. /\ role' = [role EXCEPT ![n] = Candidate]
            /\ leaderID' = [leaderID EXCEPT ![n] = None]
            /\ UNCHANGED <<lastPos, leaders>>
        BY <2>2 DEF startRealElection
      <3>2. LeaderRecorded'
        BY <1>0, <1>3, <3>1 DEF LeaderRecorded, TypeOK, Candidate, Leader
      <3> QED
        BY <1>0, <3>1, <3>2 DEF TypeOK
    <2> QED
      BY <2>1, <2>2
  <1>6. /\ currentTerm' \in [Node -> Term]
        /\ votedFor' \in [Node -> Node \cup {None}]
        /\ preVotes' \in [Node -> SUBSET Round]
        /\ votes' \in [Node -> SUBSET Node]
        /\ heard' \in [Node -> BOOLEAN]
    BY <1>0, <1>1, <1>3 DEF TypeOK
  <1> QED
    BY <1>2, <1>4, <1>5, <1>6 DEF TypeInv, TypeOK

\* Campaigns keep the types.
LEMMA CampaignType ==
    ASSUME TypeInv, NEW n \in Node, Campaign(n)
    PROVE  TypeInv'
  <1>0. TypeOK /\ LeaderRecorded
    BY DEF TypeInv
  <1>1. CASE BeginPreVote(n)
    <2>1. [pos |-> lastPos[n], granted |-> {n}] \in Round
      BY <1>0 DEF TypeOK, Round
    <2>2. PICK kept \in SUBSET preVotes[n] :
            preVotes' = [preVotes EXCEPT ![n] =
                           kept \cup {[pos |-> lastPos[n], granted |-> {n}]}]
      BY <1>1 DEF BeginPreVote
    <2>3. preVotes' \in [Node -> SUBSET Round]
      BY <1>0, <2>1, <2>2 DEF TypeOK
    <2>4. LeaderRecorded'
      BY <1>0, <1>1 DEF BeginPreVote, LeaderRecorded, TypeOK, Candidate, Leader
    <2> QED
      BY <1>0, <1>1, <2>3, <2>4 DEF BeginPreVote, TypeInv, TypeOK
  <1>2. CASE BeginElection(n)
    <2>1. lastPos[n] \in Pos /\ startRealElection(n, lastPos[n])
      BY <1>0, <1>2 DEF BeginElection, TypeOK
    <2> QED
      BY <2>1, RealElectionType
  <1>3. ASSUME NEW r \in preVotes[n], NEW p \in Node, PreVoteGranted(n, r, p)
        PROVE  TypeInv'
    <2>1. r \in Round
      BY <1>0 DEF TypeOK
    <2>2. [r EXCEPT !.granted = @ \cup {p}] \in Round
      BY <2>1 DEF Round
    <2>3. preVotes' \in [Node -> SUBSET Round]
      BY <1>0, <1>3, <2>2 DEF PreVoteGranted, TypeOK
    <2> QED
      BY <1>0, <1>3, <2>3 DEF PreVoteGranted, TypeInv, TypeOK, LeaderRecorded
  <1>4. ASSUME NEW r \in preVotes[n], CampaignWon(n, r)
        PROVE  TypeInv'
    <2>1. r.pos \in Pos /\ startRealElection(n, r.pos)
      BY <1>0, <1>4 DEF CampaignWon, TypeOK, Round
    <2> QED
      BY <2>1, RealElectionType
  <1> QED
    BY <1>1, <1>2, <1>3, <1>4 DEF Campaign

\* RequestVote keeps the types.
LEMMA HandleRequestVoteType ==
    ASSUME TypeInv, NEW m \in voteMsgs, HandleRequestVote(m)
    PROVE  TypeInv'
  <1> DEFINE p     == m.to
             newer == m.term > currentTerm[p]
             t     == IF newer THEN m.term ELSE currentTerm[p]
             v     == IF Grants(m) THEN m.from ELSE VoteIn(p, m.term)
  <1>0. TypeOK /\ LeaderRecorded
    BY DEF TypeInv
  <1>1. m \in VoteRequest
    BY <1>0 DEF TypeOK, HandleRequestVote, VoteMsg, VoteRequest, VoteReply
  <1>2. /\ p \in Node /\ m.from \in Node /\ m.term \in 1..MaxTerm
        /\ t \in Term /\ v \in Node \cup {None}
    BY <1>0, <1>1, BoundAssumption DEF VoteRequest, TypeOK, VoteIn
  <1>3. hardState' \in [Node -> HardState]
    <2>1. CASE newer \/ Grants(m)
      <3> DEFINE earlier == IF newer THEN {[term |-> t, votedFor |-> None]} ELSE {}
      <3>1. earlier \in SUBSET HardState
        BY <1>2 DEF HardState
      <3>2. persistHardState(p, t, v, earlier)
        BY <2>1 DEF HandleRequestVote
      <3> HIDE DEF earlier, t, v, p
      <3> QED
        BY <1>0, <1>2, <3>1, <3>2, PersistType DEF TypeOK
    <2>2. CASE ~(newer \/ Grants(m))
      BY <1>0, <2>2 DEF HandleRequestVote, TypeOK
    <2> QED
      BY <2>1, <2>2
  <1>4. VoteReplyTo(m, t, Grants(m)) \subseteq VoteMsg
    <2>1. Grants(m) \in BOOLEAN
      BY <1>2 DEF Grants
    <2>2. Grants(m) \/ t > m.term => t \in 1..MaxTerm
      BY <1>0, <1>2, BoundAssumption DEF Grants, TypeOK
    <2> HIDE DEF t
    <2>3. CASE m.live /\ (Grants(m) \/ t > m.term)
      BY <1>2, <2>1, <2>2, <2>3 DEF VoteReplyTo, VoteMsg, VoteReply
    <2>4. CASE ~(m.live /\ (Grants(m) \/ t > m.term))
      BY <2>4 DEF VoteReplyTo
    <2> QED
      BY <2>3, <2>4
  <1>5. voteMsgs' \subseteq VoteMsg
    <2>1. voteMsgs' = (voteMsgs \ {m}) \cup VoteReplyTo(m, t, Grants(m))
      BY DEF HandleRequestVote
    <2> QED
      BY <1>0, <1>4, <2>1 DEF TypeOK
  <1>6. /\ currentTerm' = [currentTerm EXCEPT ![p] = t]
        /\ votedFor' = [votedFor EXCEPT ![p] = v]
        /\ role'     = [role EXCEPT ![p] = IF newer THEN Follower ELSE @]
        /\ preVotes' = [preVotes EXCEPT ![p] = IF newer THEN {} ELSE @]
        /\ votes'    = [votes EXCEPT ![p] = IF newer THEN {} ELSE @]
        /\ UNCHANGED <<leaderID, heard, lastPos, leaders>>
    BY DEF HandleRequestVote
  <1>7. LeaderRecorded'
    BY <1>0, <1>2, <1>6 DEF LeaderRecorded, TypeOK, Follower, Leader
  <1>8. /\ currentTerm' \in [Node -> Term]
        /\ votedFor' \in [Node -> Node \cup {None}]
        /\ role' \in [Node -> {Follower, Candidate, Leader}]
        /\ preVotes' \in [Node -> SUBSET Round]
        /\ votes' \in [Node -> SUBSET Node]
    BY <1>0, <1>2, <1>6 DEF TypeOK
  <1> QED
    BY <1>0, <1>3, <1>5, <1>6, <1>7, <1>8 DEF TypeInv, TypeOK

\* A step that gives n a newer term by stepDown and changes no other type.
LEMMA StepDownTypeInv ==
    ASSUME TypeInv, NEW n \in Node, NEW t \in Term, stepDown(n, t),
           lastPos' \in [Node -> Pos],
           leaderID' \in [Node -> Node \cup {None}],
           heard' \in [Node -> BOOLEAN],
           voteMsgs' \subseteq VoteMsg,
           leaders' = leaders
    PROVE  TypeInv'
  <1>1. LeaderRecorded'
    BY StepDownType DEF LeaderRecorded, TypeInv
  <1> QED
    BY StepDownType, <1>1 DEF TypeInv, TypeOK

\* Vote replies keep the types.
LEMMA VotingType ==
    ASSUME TypeInv, NEW m \in voteMsgs, Voting(m)
    PROVE  TypeInv'
  <1>0. TypeOK /\ LeaderRecorded
    BY DEF TypeInv
  <1>1. CASE HandleRequestVote(m)
    BY <1>1, HandleRequestVoteType
  <1>2. m.type = "reply" => m \in VoteReply
    BY <1>0 DEF TypeOK, VoteMsg, VoteRequest, VoteReply
  <1>3. CASE VoteReplyNewer(m)
    <2>1. m.to \in Node /\ m.term \in Term /\ stepDown(m.to, m.term)
      BY <1>2, <1>3, BoundAssumption DEF VoteReplyNewer, VoteReply
    <2>2. /\ voteMsgs' \subseteq VoteMsg
          /\ UNCHANGED <<leaderID, heard, lastPos, leaders>>
      BY <1>0, <1>3 DEF VoteReplyNewer, TypeOK
    <2> QED
      BY <1>0, <2>1, <2>2, StepDownTypeInv DEF TypeOK
  <1>4. CASE VoteCounted(m)
    <2> DEFINE n == m.to
               granted == votes[n] \cup {m.from}
    <2>1. n \in Node /\ m.from \in Node /\ currentTerm[n] \in 1..MaxTerm
      BY <1>2, <1>4 DEF VoteCounted, VoteReply, ReplyCurrent
    <2>2. /\ votes' = [votes EXCEPT ![n] = granted]
          /\ voteMsgs' = voteMsgs \ {m}
          /\ UNCHANGED <<currentTerm, votedFor, hardState, heard, preVotes>>
      BY <1>4 DEF VoteCounted
    <2>3. votes' \in [Node -> SUBSET Node] /\ voteMsgs' \subseteq VoteMsg
      BY <1>0, <2>1, <2>2 DEF TypeOK
    <2>4. /\ lastPos' \in [Node -> Pos]
          /\ leaderID' \in [Node -> Node \cup {None}]
          /\ role' \in [Node -> {Follower, Candidate, Leader}]
          /\ leaders' \subseteq Victory
          /\ LeaderRecorded'
      <3>1. CASE IsQuorum(granted)
        <4>1. becomeLeader(n, currentTerm[n])
          BY <1>4, <3>1 DEF VoteCounted
        <4>2. LeaderRecorded'
          BY <1>0, <2>2, <4>1 DEF becomeLeader, LeaderRecorded, TypeOK
        <4> QED
          BY <1>0, <2>1, <4>1, <4>2, BecomeLeaderType DEF TypeOK
      <3>2. CASE ~IsQuorum(granted)
        <4>1. UNCHANGED <<role, leaderID, lastPos, leaders>>
          BY <1>4, <3>2 DEF VoteCounted
        <4> QED
          BY <1>0, <2>2, <4>1 DEF TypeOK, LeaderRecorded
      <3> QED
        BY <3>1, <3>2
    <2> QED
      BY <1>0, <2>2, <2>3, <2>4 DEF TypeInv, TypeOK
  <1>5. CASE VoteReplyIgnored(m)
    BY <1>0, <1>5 DEF VoteReplyIgnored, TypeInv, TypeOK, LeaderRecorded
  <1> QED
    BY <1>1, <1>3, <1>4, <1>5 DEF Voting

\* A crash orphans requests and takes replies away; the types stay.
LEMMA OrphanedType ==
    ASSUME TypeInv, NEW n \in Node
    PROVE  Orphaned(n) \subseteq VoteMsg
  <1>1. SUFFICES ASSUME NEW m \in voteMsgs, m.type = "request"
                 PROVE  [m EXCEPT !.live = FALSE] \in VoteMsg
    BY DEF TypeInv, TypeOK, Orphaned
  <1>2. m \in VoteRequest
    BY <1>1 DEF TypeInv, TypeOK, VoteMsg, VoteRequest, VoteReply
  <1> QED
    BY <1>2 DEF VoteRequest, VoteMsg

\* What the rest of the node does keeps the types.
LEMMA EnvironmentType ==
    ASSUME TypeInv, NEW n \in Node, Environment(n)
    PROVE  TypeInv'
  <1>0. TypeOK /\ LeaderRecorded
    BY DEF TypeInv
  <1>1. ASSUME NEW l \in Node, NEW t \in Term, LeaderContact(n, l, t)
        PROVE  TypeInv'
    <2>1. PICK pos \in Pos : lastPos' = [lastPos EXCEPT ![n] = pos]
      BY <1>1 DEF LeaderContact
    <2>2. /\ leaderID' \in [Node -> Node \cup {None}]
          /\ heard' \in [Node -> BOOLEAN]
          /\ lastPos' \in [Node -> Pos]
          /\ UNCHANGED <<voteMsgs, leaders>>
      BY <1>0, <1>1, <2>1, FlagAssumption DEF LeaderContact, FollowLeader, TypeOK
    <2>3. CASE t > currentTerm[n]
      <3>1. stepDown(n, t)
        BY <1>1, <2>3 DEF LeaderContact, FollowLeader
      <3> QED
        BY <1>0, <2>2, <3>1, StepDownTypeInv DEF TypeOK
    <2>4. CASE ~(t > currentTerm[n])
      <3>1. /\ role' = [role EXCEPT ![n] = Follower]
            /\ UNCHANGED <<currentTerm, votedFor, hardState, preVotes, votes>>
        BY <1>1, <2>4 DEF LeaderContact, FollowLeader
      <3>2. LeaderRecorded'
        BY <1>0, <2>2, <3>1 DEF LeaderRecorded, TypeOK, Follower, Leader
      <3> QED
        BY <1>0, <2>2, <3>1, <3>2 DEF TypeInv, TypeOK
    <2> QED
      BY <2>3, <2>4
  <1>2. ASSUME NEW l \in Node, NEW t \in Term, CrashInHandler(n, l, t)
        PROVE  TypeInv'
    <2>1. PICK pos \in Pos : lastPos' = [lastPos EXCEPT ![n] = pos]
      BY <1>2 DEF CrashInHandler
    <2>2. /\ leaderID' \in [Node -> Node \cup {None}]
          /\ heard' \in [Node -> BOOLEAN]
          /\ lastPos' \in [Node -> Pos]
          /\ voteMsgs' \subseteq VoteMsg
          /\ leaders' = leaders
      BY <1>0, <1>2, <2>1, OrphanedType DEF CrashInHandler, DieFollowing, TypeOK
    <2>3. CASE t > currentTerm[n]
      <3>1. stepDown(n, t)
        BY <1>2, <2>3 DEF CrashInHandler, DieFollowing
      <3> QED
        BY <1>0, <2>2, <3>1, StepDownTypeInv DEF TypeOK
    <2>4. CASE ~(t > currentTerm[n])
      <3>1. /\ role' = [role EXCEPT ![n] = Follower]
            /\ preVotes' = [preVotes EXCEPT ![n] = {}]
            /\ votes' = [votes EXCEPT ![n] = {}]
            /\ UNCHANGED <<currentTerm, votedFor, hardState>>
        BY <1>2, <2>4 DEF CrashInHandler, DieFollowing
      <3>2. LeaderRecorded'
        BY <1>0, <2>2, <3>1 DEF LeaderRecorded, TypeOK, Follower, Leader
      <3> QED
        BY <1>0, <2>2, <3>1, <3>2 DEF TypeInv, TypeOK
    <2> QED
      BY <2>3, <2>4
  <1>3. CASE LeaderSilent(n)
    BY <1>0, <1>3 DEF LeaderSilent, TypeInv, TypeOK, LeaderRecorded
  <1>4. ASSUME NEW t \in Term, LearnTerm(n, t)
        PROVE  TypeInv'
    <2>1. /\ stepDown(n, t)
          /\ UNCHANGED <<leaderID, heard, lastPos, voteMsgs, leaders>>
      BY <1>4 DEF LearnTerm
    <2> QED
      BY <1>0, <2>1, StepDownTypeInv DEF TypeOK
  <1>5. CASE LeaderAppend(n)
    <2>1. currentTerm[n] \in 1..MaxTerm
      BY <1>0, <1>5 DEF LeaderAppend, LeaderRecorded, TypeOK, Victory
    <2>2. [term |-> currentTerm[n], index |-> lastPos[n].index + 1] \in Pos
      BY <1>0, <1>5, <2>1, BoundAssumption DEF LeaderAppend, TypeOK, Pos
    <2>3. lastPos' \in [Node -> Pos]
      BY <1>0, <1>5, <2>2 DEF LeaderAppend, TypeOK
    <2> QED
      BY <1>0, <1>5, <2>3 DEF LeaderAppend, TypeInv, TypeOK, LeaderRecorded
  <1>6. CASE Restart(n)
    <2>1. voteMsgs' \subseteq VoteMsg
      BY <1>6, OrphanedType DEF Restart, Reboot
    <2>2. /\ currentTerm' = [currentTerm EXCEPT ![n] = hardState[n].term]
          /\ votedFor' = [votedFor EXCEPT ![n] = hardState[n].votedFor]
          /\ role' = [role EXCEPT ![n] = Follower]
          /\ leaderID' = [leaderID EXCEPT ![n] = None]
          /\ heard' = [heard EXCEPT ![n] = FALSE]
          /\ preVotes' = [preVotes EXCEPT ![n] = {}]
          /\ votes' = [votes EXCEPT ![n] = {}]
          /\ UNCHANGED <<hardState, leaders, lastPos>>
      BY <1>6 DEF Restart, Reboot
    <2>3. hardState[n].term \in Term /\ hardState[n].votedFor \in Node \cup {None}
      BY <1>0 DEF TypeOK, HardState
    <2>4. LeaderRecorded'
      BY <1>0, <2>2 DEF LeaderRecorded, TypeOK, Follower, Leader
    <2>5. /\ currentTerm' \in [Node -> Term]
          /\ votedFor' \in [Node -> Node \cup {None}]
          /\ role' \in [Node -> {Follower, Candidate, Leader}]
          /\ leaderID' \in [Node -> Node \cup {None}]
          /\ heard' \in [Node -> BOOLEAN]
          /\ preVotes' \in [Node -> SUBSET Round]
          /\ votes' \in [Node -> SUBSET Node]
      BY <1>0, <2>2, <2>3 DEF TypeOK
    <2> QED
      BY <1>0, <2>1, <2>2, <2>4, <2>5 DEF TypeInv, TypeOK
  <1> QED
    BY <1>1, <1>2, <1>3, <1>4, <1>5, <1>6 DEF Environment

\* Every step keeps the types.
LEMMA TypeNext == TypeInv /\ [Next]_electionVars => TypeInv'
  <1> SUFFICES ASSUME TypeInv, [Next]_electionVars PROVE TypeInv'
    OBVIOUS
  <1>1. CASE UNCHANGED electionVars
    BY <1>1 DEF electionVars, TypeInv, TypeOK, LeaderRecorded
  <1>2. CASE Next
    BY <1>2, CampaignType, EnvironmentType, VotingType DEF Next
  <1> QED
    BY <1>1, <1>2

\* Type correctness of the election: terms, votes, roles, log positions and
\* messages always have the types the code gives them, whether or not the store
\* fails.
THEOREM TypeCorrect == Spec => []TypeOK
  <1>1. Spec => []TypeInv
    BY TypeInit, TypeNext, PTL DEF Spec
  <1> QED
    BY <1>1, PTL DEF TypeInv

-----------------------------------------------------------------------------
(***************************************************************************)
(* Election safety, when the store works. A vote is held for a candidate   *)
(* as long as the candidate has counted it or its reply is in flight.      *)
(* Three facts make up the inductive invariant: a held vote is pledged on  *)
(* the voter's side, no vote is held for two candidates of one term, and a *)
(* majority behind every leader is pledged to it and held for nobody else. *)
(* The last is what survives when the leader has long stepped down and its *)
(* voters have moved on.                                                   *)
(***************************************************************************)

\* v can vote for nobody but c in term t any more.
Pledged(v, t, c) ==
    \/ currentTerm[v] > t
    \/ currentTerm[v] = t /\ votedFor[v] = c

\* The vote of v in term t is counted by c, or on its way to c.
Held(v, t, c) ==
    \/ currentTerm[c] = t /\ v \in votes[c]
    \/ \E m \in voteMsgs : /\ m.type = "reply" /\ m.granted
                           /\ m.from = v /\ m.to = c /\ m.forTerm = t

Synced ==
    \A n \in Node : hardState[n] = [term |-> currentTerm[n], votedFor |-> votedFor[n]]

HeldIsPledged ==
    \A v, c \in Node, t \in Term : Held(v, t, c) => Pledged(v, t, c)

HeldByOne ==
    \A v, c, d \in Node, t \in Term : Held(v, t, c) /\ Held(v, t, d) => c = d

\* The nodes of Q are pledged to the winner e and their votes held for no other.
Behind(Q, e) ==
    \A v \in Q : /\ Pledged(v, e.term, e.node)
                 /\ \A c \in Node : Held(v, e.term, c) => c = e.node

LeaderBacked ==
    \A e \in leaders : \E Q \in SUBSET Node : IsQuorum(Q) /\ Behind(Q, e)

SafetyInv ==
    TypeInv /\ Synced /\ HeldIsPledged /\ HeldByOne /\ LeaderBacked /\ ElectionSafety

(***************************************************************************)
(* None of this depends on what the log positions are: what a node may do  *)
(* with its vote is restricted by terms and votes alone. The same facts    *)
(* over types that say nothing of positions carry over to compositions     *)
(* whose logs are not known to be sound, as under module RaftReads.        *)
(***************************************************************************)

\* A vote request with whatever position it claims, or a reply.
VoteMsgTyped(m) ==
    \/ m \in [type : {"request"}, from : Node, to : Node, term : 1..MaxTerm,
              pos : {m.pos}, live : BOOLEAN]
    \/ m \in VoteReply

VoteTypes ==
    /\ currentTerm \in [Node -> Term]
    /\ votedFor \in [Node -> Node \cup {None}]
    /\ hardState \in [Node -> HardState]
    /\ votes \in [Node -> SUBSET Node]
    /\ \A m \in voteMsgs : VoteMsgTyped(m)
    /\ leaders \subseteq Victory

VotesInv ==
    VoteTypes /\ Synced /\ HeldIsPledged /\ HeldByOne /\ LeaderBacked /\ ElectionSafety

\* A typed message is typed without its position.
LEMMA VoteMsgIsTyped == \A m \in VoteMsg : VoteMsgTyped(m)
  <1> SUFFICES ASSUME NEW m \in VoteRequest PROVE VoteMsgTyped(m)
    BY DEF VoteMsg, VoteMsgTyped
  <1> QED
    BY DEF VoteRequest, VoteMsgTyped

\* The invariant of the election contains the invariant of the votes.
LEMMA SafetyIsVotes == SafetyInv => VotesInv
  BY VoteMsgIsTyped DEF SafetyInv, VotesInv, TypeInv, TypeOK, VoteTypes

\* Two majorities share a node.
LEMMA QuorumsIntersect ==
    ASSUME NEW P \in SUBSET Node, NEW Q \in SUBSET Node, IsQuorum(P), IsQuorum(Q)
    PROVE  \E v \in Node : v \in P /\ v \in Q
  <1>1. IsFiniteSet(Node) /\ Cardinality(Node) \in Nat
    BY NodeAssumption, FS_CardinalityType
  <1>2. Cardinality(P) \in Nat /\ Cardinality(Q) \in Nat
    BY <1>1, FS_Subset, FS_CardinalityType
  <1>3. Cardinality(P) + Cardinality(Q) > Cardinality(Node)
    BY <1>1, <1>2 DEF IsQuorum, Quorum
  <1> QED
    BY <1>1, <1>3, FS_MajoritiesIntersect

(***************************************************************************)
(* What a step may do to votes, in the terms of the invariant.             *)
(***************************************************************************)

\* v gives its vote of term t to c in this step, and was free to.
Fresh(v, t, c) ==
    /\ currentTerm'[v] = t
    /\ votedFor'[v] = c
    /\ \A d \in Node : Pledged(v, t, d) => d = c

\* A pledge is for ever.
LEMMA PledgesKept ==
    ASSUME VoteTypes, VoteTypes', VotesKept
    PROVE  \A v, c \in Node, t \in Term : Pledged(v, t, c) => Pledged(v, t, c)'
  BY NodeAssumption DEF VoteTypes, VotesKept, Pledged

\* A vote that is held now was held before or has just been given.
VotesTraced ==
    \A v, c \in Node, t \in Term : Held(v, t, c)' => Held(v, t, c) \/ Fresh(v, t, c)

\* A new leader has a majority of votes, held before or just given.
LeadersVoted ==
    \A e \in leaders' \ leaders : \E Q \in SUBSET Node :
        IsQuorum(Q) /\ \A v \in Q : Held(v, e.term, e.node) \/ Fresh(v, e.term, e.node)

\* These three facts about a step carry the invariant over it.
LEMMA SafetyStep ==
    ASSUME VotesInv, VoteTypes', Synced', VotesKept, VotesTraced, LeadersVoted
    PROVE  VotesInv'
  <1> USE DEF Fresh
  <1>0. /\ HeldIsPledged /\ HeldByOne /\ LeaderBacked /\ ElectionSafety
        /\ leaders' \subseteq Victory /\ VoteTypes
    BY DEF VotesInv, VoteTypes
  <1>1. HeldIsPledged'
    BY <1>0, PledgesKept DEF HeldIsPledged, VotesTraced, Pledged
  <1>2. HeldByOne'
    BY <1>0 DEF HeldIsPledged, HeldByOne, VotesTraced
  <1>3. ASSUME NEW e \in leaders', NEW Q \in SUBSET Node, NEW v \in Q,
               Held(v, e.term, e.node) \/ Fresh(v, e.term, e.node)
        PROVE  /\ Pledged(v, e.term, e.node)'
               /\ \A c \in Node : Held(v, e.term, c)' => c = e.node
    <2>1. e.node \in Node /\ e.term \in Term /\ v \in Node
      BY <1>0, BoundAssumption DEF Victory
    <2>2. Pledged(v, e.term, e.node)'
      BY <1>0, <1>3, <2>1, PledgesKept DEF HeldIsPledged, Pledged
    <2>3. ASSUME NEW c \in Node, Held(v, e.term, c)' PROVE c = e.node
      <3>1. Held(v, e.term, c) \/ Fresh(v, e.term, c)
        BY <2>1, <2>3 DEF VotesTraced
      <3> QED
        BY <1>0, <1>3, <2>1, <3>1 DEF HeldIsPledged, HeldByOne
    <2> QED
      BY <2>2, <2>3
  <1>4. LeaderBacked'
    <2> SUFFICES ASSUME NEW e \in leaders'
                 PROVE  \E Q \in SUBSET Node : IsQuorum(Q) /\ Behind(Q, e)'
      BY DEF LeaderBacked
    <2>1. CASE e \in leaders
      <3>1. PICK Q \in SUBSET Node : IsQuorum(Q) /\ Behind(Q, e)
        BY <1>0, <2>1 DEF LeaderBacked
      <3>2. e.node \in Node /\ e.term \in Term
        BY <1>0, BoundAssumption DEF Victory
      <3>3. ASSUME NEW v \in Q
            PROVE  /\ Pledged(v, e.term, e.node)'
                   /\ \A c \in Node : Held(v, e.term, c)' => c = e.node
        BY <1>0, <3>1, <3>2, <3>3, PledgesKept DEF Behind, VotesTraced
      <3> QED
        BY <3>1, <3>3 DEF Behind
    <2>2. CASE e \notin leaders
      <3>1. PICK Q \in SUBSET Node :
              /\ IsQuorum(Q)
              /\ \A v \in Q : Held(v, e.term, e.node) \/ Fresh(v, e.term, e.node)
        BY <2>2 DEF LeadersVoted
      <3> QED
        BY <1>3, <3>1 DEF Behind
    <2> QED
      BY <2>1, <2>2
  <1>5. ElectionSafety'
    <2>1. ASSUME NEW e \in leaders' \ leaders, NEW f \in leaders', e.term = f.term
          PROVE  e.node = f.node
      <3>0. /\ e.node \in Node /\ e.term \in Term
            /\ f.node \in Node /\ f.term \in Term
        BY <1>0, BoundAssumption DEF Victory
      <3>1. PICK P \in SUBSET Node :
              /\ IsQuorum(P)
              /\ \A v \in P : Held(v, e.term, e.node) \/ Fresh(v, e.term, e.node)
        BY DEF LeadersVoted
      <3>2. CASE f \in leaders
        <4>1. PICK Q \in SUBSET Node : IsQuorum(Q) /\ Behind(Q, f)
          BY <1>0, <3>2 DEF LeaderBacked
        <4>2. PICK v \in Node : v \in P /\ v \in Q
          BY <3>1, <4>1, QuorumsIntersect
        <4> QED
          BY <2>1, <3>0, <3>1, <4>1, <4>2 DEF Behind
      <3>3. CASE f \notin leaders
        <4>1. PICK Q \in SUBSET Node :
                /\ IsQuorum(Q)
                /\ \A v \in Q : Held(v, f.term, f.node) \/ Fresh(v, f.term, f.node)
          BY <3>3 DEF LeadersVoted
        <4>2. PICK v \in Node : v \in P /\ v \in Q
          BY <3>1, <4>1, QuorumsIntersect
        <4> QED
          BY <1>0, <2>1, <3>0, <3>1, <4>1, <4>2 DEF HeldIsPledged, HeldByOne
      <3> QED
        BY <3>2, <3>3
    <2> QED
      BY <1>0, <2>1 DEF ElectionSafety
  <1> QED
    BY <1>1, <1>2, <1>4, <1>5 DEF VotesInv

-----------------------------------------------------------------------------
(***************************************************************************)
(* Every action does no more than that to votes.                           *)
(***************************************************************************)

VoteStep == VoteTypes' /\ Synced' /\ VotesKept /\ VotesTraced /\ LeadersVoted

\* No reply comes into flight.
NoNewReply == \A m \in voteMsgs' : m.type = "reply" => m \in voteMsgs

\* A store that works holds what was written last.
LEMMA Persisted ==
    ASSUME ~StorageMayFail, NEW n \in Node, NEW t, NEW v, NEW earlier,
           persistHardState(n, t, v, earlier)
    PROVE  hardState' = [hardState EXCEPT ![n] = [term |-> t, votedFor |-> v]]
  BY DEF persistHardState

\* A step that touches neither terms nor votes cast, and makes no leader.
LEMMA QuietStep ==
    ASSUME VotesInv, UNCHANGED <<currentTerm, votedFor, hardState, leaders>>,
           votes' \in [Node -> SUBSET Node],
           \A c \in Node : votes'[c] \subseteq votes[c],
           \A m \in voteMsgs' : VoteMsgTyped(m), NoNewReply
    PROVE  VoteStep
  <1>1. VoteTypes' /\ Synced'
    BY DEF VotesInv, VoteTypes, Synced
  <1> QED
    BY <1>1 DEF VotesInv, VoteTypes, VoteStep, VotesKept, VotesTraced, Held,
                LeadersVoted, NoNewReply

\* The same for a step that leaves the votes and their messages alone.
LEMMA VotesUntouched ==
    ASSUME VotesInv,
           UNCHANGED <<currentTerm, votedFor, hardState, leaders, votes, voteMsgs>>
    PROVE  VoteStep
  BY QuietStep DEF NoNewReply, VotesInv, VoteTypes

\* A node that learns of a newer term gives up its votes, its own included.
LEMMA StepDownStep ==
    ASSUME VotesInv, ~StorageMayFail, NEW n \in Node, NEW t \in Term,
           t > currentTerm[n], stepDown(n, t), leaders' = leaders,
           \A m \in voteMsgs' : VoteMsgTyped(m), NoNewReply
    PROVE  VoteStep
  <1>0. VoteTypes /\ Synced
    BY DEF VotesInv
  <1>1. persistHardState(n, t, None, {})
    BY DEF stepDown
  <1>2. hardState' = [hardState EXCEPT ![n] = [term |-> t, votedFor |-> None]]
    BY <1>1, Persisted
  <1>3. /\ currentTerm' = [currentTerm EXCEPT ![n] = t]
        /\ votedFor' = [votedFor EXCEPT ![n] = None]
        /\ votes' = [votes EXCEPT ![n] = {}]
    BY DEF stepDown
  <1>4. VoteTypes'
    BY <1>0, <1>2, <1>3 DEF VoteTypes, HardState
  <1>5. Synced'
    BY <1>0, <1>2, <1>3 DEF Synced, VoteTypes
  <1>6. VotesKept
    BY <1>0, <1>3 DEF VotesKept, VoteTypes
  <1>7. VotesTraced
    BY <1>0, <1>3 DEF VotesTraced, Held, NoNewReply, VoteTypes
  <1> QED
    BY <1>4, <1>5, <1>6, <1>7 DEF VoteStep, LeadersVoted

\* A crash leaves requests as they were, but for live, and takes replies away.
LEMMA OrphanedVotes ==
    ASSUME VoteTypes, NEW n \in Node
    PROVE  \A m \in Orphaned(n) : VoteMsgTyped(m) /\ (m.type = "reply" => m \in voteMsgs)
  <1>1. ASSUME NEW x \in voteMsgs, x.type = "request"
        PROVE  /\ VoteMsgTyped([x EXCEPT !.live = FALSE])
               /\ [x EXCEPT !.live = FALSE].type # "reply"
    <2>1. x \in [type : {"request"}, from : Node, to : Node, term : 1..MaxTerm,
                pos : {x.pos}, live : BOOLEAN]
      BY <1>1 DEF VoteTypes, VoteMsgTyped, VoteReply
    <2>2. [x EXCEPT !.live = FALSE].pos = x.pos
      BY <2>1
    <2> QED
      BY <2>1, <2>2 DEF VoteMsgTyped
  <1> QED
    BY <1>1 DEF Orphaned, VoteTypes

\* Leader contact costs a node its votes of older terms at most.
LEMMA FollowLeaderStep ==
    ASSUME VotesInv, ~StorageMayFail, NEW n \in Node, NEW l, NEW t \in Term,
           FollowLeader(n, l, t)
    PROVE  VoteStep
  <1>1. UNCHANGED <<voteMsgs, leaders>>
    BY DEF FollowLeader
  <1>2. (\A m \in voteMsgs' : VoteMsgTyped(m)) /\ NoNewReply
    BY <1>1 DEF NoNewReply, VotesInv, VoteTypes
  <1>3. CASE t > currentTerm[n]
    BY <1>1, <1>2, <1>3, StepDownStep DEF FollowLeader
  <1>4. CASE ~(t > currentTerm[n])
    BY <1>1, <1>4, VotesUntouched DEF FollowLeader
  <1> QED
    BY <1>3, <1>4

\* A reply of a newer term costs a node its votes.
LEMMA LearnTermStep ==
    ASSUME VotesInv, ~StorageMayFail, NEW n \in Node, NEW t \in Term, LearnTerm(n, t)
    PROVE  VoteStep
  <1>1. UNCHANGED <<voteMsgs, leaders>>
    BY DEF LearnTerm
  <1>2. (\A m \in voteMsgs' : VoteMsgTyped(m)) /\ NoNewReply
    BY <1>1 DEF NoNewReply, VotesInv, VoteTypes
  <1> QED
    BY <1>1, <1>2, StepDownStep DEF LearnTerm

\* So does dying in a handler of a leader's call.
LEMMA DieFollowingStep ==
    ASSUME VotesInv, ~StorageMayFail, NEW n \in Node, NEW l, NEW t \in Term,
           DieFollowing(n, l, t)
    PROVE  VoteStep
  <1>0. VoteTypes
    BY DEF VotesInv
  <1>1. /\ leaders' = leaders /\ NoNewReply
        /\ \A m \in voteMsgs' : VoteMsgTyped(m)
    BY <1>0, OrphanedVotes DEF DieFollowing, NoNewReply
  <1>2. CASE t > currentTerm[n]
    BY <1>1, <1>2, StepDownStep DEF DieFollowing
  <1>3. CASE ~(t > currentTerm[n])
    <2>1. /\ UNCHANGED <<currentTerm, votedFor, hardState>>
          /\ votes' = [votes EXCEPT ![n] = {}]
      BY <1>3 DEF DieFollowing
    <2>2. votes' \in [Node -> SUBSET Node] /\ \A c \in Node : votes'[c] \subseteq votes[c]
      BY <1>0, <2>1 DEF VoteTypes
    <2> QED
      BY <1>1, <2>1, <2>2, QuietStep
  <1> QED
    BY <1>2, <1>3

\* A restart finds the term and the vote where they were.
LEMMA RebootStep ==
    ASSUME VotesInv, NEW n \in Node, Reboot(n)
    PROVE  VoteStep
  <1>0. VoteTypes /\ Synced
    BY DEF VotesInv
  <1>1. /\ UNCHANGED <<hardState, leaders>> /\ NoNewReply
        /\ \A m \in voteMsgs' : VoteMsgTyped(m)
    BY <1>0, OrphanedVotes DEF Reboot, NoNewReply
  <1>2. currentTerm' = currentTerm /\ votedFor' = votedFor
    BY <1>0 DEF Reboot, Synced, VoteTypes
  <1>3. votes' \in [Node -> SUBSET Node] /\ \A c \in Node : votes'[c] \subseteq votes[c]
    BY <1>0 DEF Reboot, VoteTypes
  <1> QED
    BY <1>1, <1>2, <1>3, QuietStep

\* A candidate votes for itself in a term nobody can have pledged it away in.
LEMMA RealElectionStep ==
    ASSUME VotesInv, ~StorageMayFail, NEW n \in Node, NEW pos,
           startRealElection(n, pos)
    PROVE  VoteStep
  <1> DEFINE t == currentTerm[n] + 1
  <1>0. VoteTypes /\ Synced
    BY DEF VotesInv
  <1>1. persistHardState(n, t, n, {})
    BY DEF startRealElection
  <1>2. hardState' = [hardState EXCEPT ![n] = [term |-> t, votedFor |-> n]]
    BY <1>1, Persisted
  <1>3. /\ currentTerm' = [currentTerm EXCEPT ![n] = t]
        /\ votedFor' = [votedFor EXCEPT ![n] = n]
        /\ votes' = [votes EXCEPT ![n] = {n}]
    BY DEF startRealElection
  <1>t. t \in 1..MaxTerm
    BY <1>0, BoundAssumption DEF startRealElection, VoteTypes
  <1>4. NoNewReply /\ \A m \in voteMsgs' : VoteMsgTyped(m)
    <2>1. PICK kept \in SUBSET voteMsgs :
            voteMsgs' = kept \cup
               {[type |-> "request", from |-> n, to |-> p, term |-> t,
                 pos |-> pos, live |-> TRUE] : p \in Node \ {n}}
      BY DEF startRealElection
    <2>2. \A p \in Node \ {n} :
            VoteMsgTyped([type |-> "request", from |-> n, to |-> p, term |-> t,
                          pos |-> pos, live |-> TRUE])
      BY <1>t DEF VoteMsgTyped
    <2> QED
      BY <1>0, <2>1, <2>2 DEF NoNewReply, VoteTypes
  <1>5. Synced'
    BY <1>0, <1>2, <1>3 DEF Synced, VoteTypes
  <1>6. VotesKept
    BY <1>0, <1>3 DEF VotesKept, VoteTypes
  <1>7. Fresh(n, t, n)
    BY <1>0, <1>3 DEF Fresh, Pledged, VoteTypes
  <1>8. VotesTraced
    <2> SUFFICES ASSUME NEW v \in Node, NEW c \in Node, NEW u \in Term, Held(v, u, c)'
                 PROVE  Held(v, u, c) \/ Fresh(v, u, c)
      BY DEF VotesTraced
    <2>1. CASE currentTerm'[c] = u /\ v \in votes'[c]
      <3>1. CASE c = n
        BY <1>0, <1>3, <1>7, <2>1, <3>1 DEF VoteTypes
      <3>2. CASE c # n
        BY <1>0, <1>3, <2>1, <3>2 DEF VoteTypes, Held
      <3> QED
        BY <3>1, <3>2
    <2>2. CASE \E m \in voteMsgs' : /\ m.type = "reply" /\ m.granted
                                    /\ m.from = v /\ m.to = c /\ m.forTerm = u
      BY <1>4, <2>2 DEF Held, NoNewReply
    <2> QED
      BY <2>1, <2>2 DEF Held
  <1>9. LeadersVoted
    <2>1. CASE IsQuorum({n})
      <3>1. leaders' = leaders \cup {[node |-> n, term |-> t]}
        BY <2>1 DEF startRealElection, becomeLeader
      <3> QED
        BY <1>7, <2>1, <3>1 DEF LeadersVoted
    <2>2. CASE ~IsQuorum({n})
      BY <2>2 DEF startRealElection, LeadersVoted
    <2> QED
      BY <2>1, <2>2
  <1>10. VoteTypes'
    <2>1. [term |-> t, votedFor |-> n] \in HardState /\ [node |-> n, term |-> t] \in Victory
      BY <1>t, BoundAssumption DEF HardState, Victory
    <2>2. leaders' \subseteq leaders \cup {[node |-> n, term |-> t]}
      BY DEF startRealElection, becomeLeader
    <2>3. currentTerm' \in [Node -> Term] /\ leaders' \subseteq Victory
      BY <1>0, <1>3, <1>t, <2>1, <2>2, BoundAssumption DEF VoteTypes
    <2> QED
      BY <1>0, <1>2, <1>3, <1>4, <2>1, <2>3 DEF VoteTypes
  <1> QED
    BY <1>5, <1>6, <1>8, <1>9, <1>10 DEF VoteStep

\* RequestVote gives a vote only to a node it may still vote for.
LEMMA HandleRequestVoteStep ==
    ASSUME VotesInv, ~StorageMayFail, NEW m \in voteMsgs, HandleRequestVote(m)
    PROVE  VoteStep
  <1> DEFINE p     == m.to
             newer == m.term > currentTerm[p]
             t     == IF newer THEN m.term ELSE currentTerm[p]
             v     == IF Grants(m) THEN m.from ELSE VoteIn(p, m.term)
  <1>0. VoteTypes /\ Synced /\ HeldIsPledged
    BY DEF VotesInv
  <1>1. m \in [type : {"request"}, from : Node, to : Node, term : 1..MaxTerm,
              pos : {m.pos}, live : BOOLEAN]
    BY <1>0 DEF VoteTypes, HandleRequestVote, VoteMsgTyped, VoteReply
  <1>2. /\ p \in Node /\ m.from \in Node /\ m.term \in Term /\ m.term \in 1..MaxTerm
        /\ currentTerm[p] \in Term /\ votedFor[p] \in Node \cup {None}
    BY <1>0, <1>1, BoundAssumption DEF VoteTypes
  <1>3. /\ currentTerm' = [currentTerm EXCEPT ![p] = t]
        /\ votedFor' = [votedFor EXCEPT ![p] = v]
        /\ votes'    = [votes EXCEPT ![p] = IF newer THEN {} ELSE @]
        /\ voteMsgs' = (voteMsgs \ {m}) \cup VoteReplyTo(m, t, Grants(m))
        /\ leaders' = leaders
    BY DEF HandleRequestVote
  <1>4. Synced'
    <2>1. CASE newer \/ Grants(m)
      <3>1. persistHardState(p, t, v, IF newer THEN {[term |-> t, votedFor |-> None]} ELSE {})
        BY <2>1 DEF HandleRequestVote
      <3>2. hardState' = [hardState EXCEPT ![p] = [term |-> t, votedFor |-> v]]
        BY <1>2, <3>1, Persisted
      <3> HIDE DEF t, v, p
      <3> QED
        BY <1>0, <1>2, <1>3, <3>2 DEF Synced, VoteTypes
    <2>2. CASE ~(newer \/ Grants(m))
      <3>1. hardState' = hardState /\ t = currentTerm[p] /\ v = votedFor[p]
        BY <1>2, <2>2 DEF HandleRequestVote, VoteIn
      <3> HIDE DEF t, v, p
      <3> QED
        BY <1>0, <1>2, <1>3, <3>1 DEF Synced, VoteTypes
    <2> QED
      BY <2>1, <2>2
  <1>5. VotesKept
    <2>1. ~newer /\ votedFor[p] # None => v = votedFor[p]
      BY <1>2 DEF Grants, VoteIn
    <2> HIDE DEF v
    <2> QED
      BY <1>0, <1>2, <1>3, <2>1 DEF VotesKept, VoteTypes
  <1>6. Grants(m) => Fresh(p, m.term, m.from)
    <2> SUFFICES ASSUME Grants(m) PROVE Fresh(p, m.term, m.from)
      OBVIOUS
    <2>1. t = m.term /\ v = m.from
      BY <1>2 DEF Grants
    <2>2. \A d \in Node : Pledged(p, m.term, d) => d = m.from
      BY <1>2, NodeAssumption DEF Grants, VoteIn, Pledged
    <2> QED
      BY <1>0, <1>2, <1>3, <2>1, <2>2 DEF Fresh, VoteTypes
  <1>7. VotesTraced
    <2> SUFFICES ASSUME NEW w \in Node, NEW c \in Node, NEW u \in Term, Held(w, u, c)'
                 PROVE  Held(w, u, c) \/ Fresh(w, u, c)
      BY DEF VotesTraced
    <2>1. CASE currentTerm'[c] = u /\ w \in votes'[c]
      <3>1. currentTerm'[c] = currentTerm[c] /\ votes'[c] = votes[c]
        BY <1>0, <1>2, <1>3, <2>1 DEF VoteTypes
      <3> QED
        BY <2>1, <3>1 DEF Held
    <2>2. ASSUME NEW r \in voteMsgs', r.type = "reply", r.granted,
                 r.from = w, r.to = c, r.forTerm = u
          PROVE  Held(w, u, c) \/ Fresh(w, u, c)
      <3>1. CASE r \in voteMsgs
        BY <2>2, <3>1 DEF Held
      <3>2. CASE r \in VoteReplyTo(m, t, Grants(m))
        <4>1. /\ r.from = p /\ r.to = m.from /\ r.forTerm = m.term
              /\ r.granted = Grants(m)
          BY <3>2 DEF VoteReplyTo
        <4> QED
          BY <1>6, <2>2, <4>1
      <3> QED
        BY <1>3, <3>1, <3>2
    <2> QED
      BY <2>1, <2>2 DEF Held
  <1>8. VoteTypes'
    <2>1. t \in Term /\ v \in Node \cup {None}
      BY <1>2 DEF VoteIn
    <2>2. VoteReplyTo(m, t, Grants(m)) \subseteq VoteReply
      <3>1. Grants(m) \in BOOLEAN
        BY DEF Grants
      <3>2. Grants(m) \/ t > m.term => t \in 1..MaxTerm
        BY <1>2, <2>1, BoundAssumption DEF Grants
      <3> HIDE DEF t
      <3>3. CASE m.live /\ (Grants(m) \/ t > m.term)
        BY <1>2, <3>1, <3>2, <3>3 DEF VoteReplyTo, VoteReply
      <3>4. CASE ~(m.live /\ (Grants(m) \/ t > m.term))
        BY <3>4 DEF VoteReplyTo
      <3> QED
        BY <3>3, <3>4
    <2>3. \A x \in voteMsgs' : VoteMsgTyped(x)
      BY <1>0, <1>3, <2>2 DEF VoteTypes, VoteMsgTyped
    <2>4. currentTerm' \in [Node -> Term] /\ votedFor' \in [Node -> Node \cup {None}]
      <3> HIDE DEF t, v
      <3> QED
        BY <1>0, <1>3, <2>1 DEF VoteTypes
    <2>5. hardState' \in [Node -> HardState]
      <3>1. \/ hardState' = hardState
            \/ \E hs : hardState' = [hardState EXCEPT ![p] = hs]
        BY DEF HandleRequestVote, persistHardState
      <3>2. hardState' = [n \in Node |-> hardState'[n]]
        BY <1>0, <3>1 DEF VoteTypes
      <3> QED
        BY <1>4, <2>4, <3>2 DEF Synced, HardState
    <2>6. votes' \in [Node -> SUBSET Node]
      BY <1>0, <1>3 DEF VoteTypes
    <2> QED
      BY <1>0, <1>3, <2>3, <2>4, <2>5, <2>6 DEF VoteTypes
  <1> QED
    BY <1>3, <1>4, <1>5, <1>7, <1>8 DEF VoteStep, LeadersVoted

\* Counting a vote moves it from the network to the candidate; a leader's votes
\* were all held before.
LEMMA VoteCountedStep ==
    ASSUME VotesInv, NEW m \in voteMsgs, VoteCounted(m)
    PROVE  VoteStep
  <1> DEFINE n == m.to
             granted == votes[n] \cup {m.from}
  <1>0. VoteTypes /\ Synced
    BY DEF VotesInv
  <1>1. m \in VoteReply
    BY <1>0 DEF VoteTypes, VoteCounted, VoteMsgTyped
  <1>2. /\ n \in Node /\ m.from \in Node /\ m.type = "reply" /\ m.granted
        /\ m.forTerm = currentTerm[n]
    BY <1>1 DEF VoteReply, VoteCounted, ReplyCurrent
  <1>3. /\ votes' = [votes EXCEPT ![n] = granted]
        /\ voteMsgs' = voteMsgs \ {m}
        /\ UNCHANGED <<currentTerm, votedFor, hardState>>
    BY DEF VoteCounted
  <1>4. \A w \in granted : Held(w, currentTerm[n], n)
    BY <1>2 DEF Held
  <1>5. VotesTraced
    BY <1>0, <1>2, <1>3, <1>4 DEF VotesTraced, Held, VoteTypes
  <1>6. LeadersVoted
    <2>1. CASE IsQuorum(granted)
      <3>1. leaders' = leaders \cup {[node |-> n, term |-> currentTerm[n]]}
        BY <2>1 DEF VoteCounted, becomeLeader
      <3>2. granted \in SUBSET Node
        BY <1>0, <1>2 DEF VoteTypes
      <3> QED
        BY <1>4, <2>1, <3>1, <3>2 DEF LeadersVoted
    <2>2. CASE ~IsQuorum(granted)
      BY <2>2 DEF VoteCounted, LeadersVoted
    <2> QED
      BY <2>1, <2>2
  <1>7. VoteTypes'
    <2>1. leaders' \subseteq leaders \cup {[node |-> n, term |-> currentTerm[n]]}
      BY DEF VoteCounted, becomeLeader
    <2>2. currentTerm[n] \in 1..MaxTerm
      BY <1>1, <1>2 DEF VoteReply
    <2>3. leaders' \subseteq Victory
      BY <1>0, <1>2, <2>1, <2>2 DEF VoteTypes, Victory
    <2> QED
      BY <1>0, <1>2, <1>3, <2>3 DEF VoteTypes
  <1>8. Synced' /\ VotesKept
    BY <1>0, <1>3 DEF Synced, VotesKept, VoteTypes
  <1> QED
    BY <1>5, <1>6, <1>7, <1>8 DEF VoteStep

\* gatherVotes takes a reply of a newer term.
LEMMA VoteReplyNewerStep ==
    ASSUME VotesInv, ~StorageMayFail, NEW m \in voteMsgs, VoteReplyNewer(m)
    PROVE  VoteStep
  <1>0. VoteTypes
    BY DEF VotesInv
  <1>1. m.to \in Node /\ m.term \in Term
    BY <1>0, BoundAssumption DEF VoteReplyNewer, VoteTypes, VoteMsgTyped, VoteReply
  <1>2. /\ stepDown(m.to, m.term) /\ m.term > currentTerm[m.to]
        /\ leaders' = leaders /\ NoNewReply /\ \A x \in voteMsgs' : VoteMsgTyped(x)
    BY <1>0 DEF VoteReplyNewer, NoNewReply, VoteTypes
  <1> QED
    BY <1>1, <1>2, StepDownStep

\* gatherVotes ignores a reply.
LEMMA VoteReplyIgnoredStep ==
    ASSUME VotesInv, NEW m \in voteMsgs, VoteReplyIgnored(m)
    PROVE  VoteStep
  <1>1. (\A x \in voteMsgs' : VoteMsgTyped(x)) /\ NoNewReply
    BY DEF VoteReplyIgnored, NoNewReply, VotesInv, VoteTypes
  <1> QED
    BY <1>1, QuietStep DEF VoteReplyIgnored, VotesInv, VoteTypes

\* Every step does no more than VoteStep.
LEMMA NextStep ==
    ASSUME VotesInv, ~StorageMayFail, [Next]_electionVars
    PROVE  VoteStep
  <1>1. CASE UNCHANGED electionVars
    BY <1>1, VotesUntouched DEF electionVars
  <1>2. ASSUME NEW n \in Node, Campaign(n) PROVE VoteStep
    <2>1. CASE BeginPreVote(n)
      BY <2>1, VotesUntouched DEF BeginPreVote
    <2>2. CASE BeginElection(n)
      BY <2>2, RealElectionStep DEF BeginElection
    <2>3. ASSUME NEW r \in preVotes[n], NEW p \in Node, PreVoteGranted(n, r, p)
          PROVE  VoteStep
      BY <2>3, VotesUntouched DEF PreVoteGranted
    <2>4. ASSUME NEW r \in preVotes[n], CampaignWon(n, r)
          PROVE  VoteStep
      BY <2>4, RealElectionStep DEF CampaignWon
    <2> QED
      BY <1>2, <2>1, <2>2, <2>3, <2>4 DEF Campaign
  <1>3. ASSUME NEW m \in voteMsgs, Voting(m) PROVE VoteStep
    BY <1>3, HandleRequestVoteStep, VoteReplyNewerStep, VoteCountedStep,
       VoteReplyIgnoredStep DEF Voting
  <1>4. ASSUME NEW n \in Node, Environment(n) PROVE VoteStep
    <2>1. CASE LeaderSilent(n)
      BY <2>1, VotesUntouched DEF LeaderSilent
    <2>2. CASE LeaderAppend(n)
      BY <2>2, VotesUntouched DEF LeaderAppend
    <2> QED
      BY <1>4, <2>1, <2>2, FollowLeaderStep, DieFollowingStep, LearnTermStep, RebootStep
         DEF Environment, LeaderContact, CrashInHandler, Restart
  <1> QED
    BY <1>1, <1>2, <1>3, <1>4 DEF Next

\* Nobody has voted at the start.
LEMMA SafetyInit == Init => SafetyInv
  <1> SUFFICES ASSUME Init PROVE SafetyInv
    OBVIOUS
  <1>1. \A v, c \in Node, t \in Term : ~Held(v, t, c)
    BY DEF Init, Held
  <1>2. Synced /\ LeaderBacked /\ ElectionSafety
    BY DEF Init, Synced, LeaderBacked, ElectionSafety
  <1> QED
    BY <1>1, <1>2, TypeInit DEF SafetyInv, HeldIsPledged, HeldByOne

\* The inductive invariant of the election, when the store works.
LEMMA SafetyInvariant ==
    ASSUME ~StorageMayFail
    PROVE  Spec => []SafetyInv
  <1>1. SafetyInv /\ [Next]_electionVars => SafetyInv'
    <2> SUFFICES ASSUME SafetyInv, [Next]_electionVars PROVE SafetyInv'
      OBVIOUS
    <2>1. TypeInv'
      BY TypeNext DEF SafetyInv
    <2>2. VoteStep
      BY NextStep, SafetyIsVotes
    <2>3. VotesInv'
      BY <2>2, SafetyStep, SafetyIsVotes DEF VoteStep
    <2> QED
      BY <2>1, <2>3 DEF SafetyInv, VotesInv
  <1> QED
    BY <1>1, SafetyInit, PTL DEF Spec

\* At most one leader per term (becomeLeaderLocked), at any two moments, in a
\* cluster of any size with any number of crashes, lost, late and overlapping
\* votes, as long as SaveHardState does not fail.
THEOREM AtMostOneLeader ==
    ASSUME ~StorageMayFail
    PROVE  Spec => []ElectionSafety
  <1>1. SafetyInv => ElectionSafety
    BY DEF SafetyInv
  <1> QED
    BY <1>1, SafetyInvariant, PTL

\* Every vote that a candidate or leader counts, or that is on its way to it, is
\* on the voter's stable storage (RequestVote, startRealElectionLocked).
THEOREM VotesAreDurable ==
    ASSUME ~StorageMayFail
    PROVE  Spec => []VoteDurable
  <1>1. SafetyInv => VoteDurable
    <2> SUFFICES ASSUME SafetyInv PROVE VoteDurable
      OBVIOUS
    <2>0. TypeOK /\ Synced /\ HeldIsPledged
      BY DEF SafetyInv, TypeInv
    <2>1. \A v, c \in Node, t \in Term : Held(v, t, c) => Committed(v, t, c)
      BY <2>0 DEF HeldIsPledged, Pledged, Committed, Synced, TypeOK
    <2>2. ASSUME NEW m \in voteMsgs, m.type = "reply", m.granted
          PROVE  Committed(m.from, m.forTerm, m.to)
      <3>1. m.from \in Node /\ m.to \in Node /\ m.forTerm \in Term
        BY <2>0, <2>2, BoundAssumption DEF TypeOK, VoteMsg, VoteRequest, VoteReply
      <3>2. Held(m.from, m.forTerm, m.to)
        BY <2>2 DEF Held
      <3> QED
        BY <2>1, <3>1, <3>2
    <2>3. ASSUME NEW n \in Node, NEW v \in votes[n]
          PROVE  Committed(v, currentTerm[n], n)
      <3>1. v \in Node /\ currentTerm[n] \in Term
        BY <2>0 DEF TypeOK
      <3>2. Held(v, currentTerm[n], n)
        BY DEF Held
      <3> QED
        BY <2>1, <3>1, <3>2
    <2> QED
      BY <2>2, <2>3 DEF VoteDurable
  <1> QED
    BY <1>1, SafetyInvariant, PTL

\* No step, a restart included, takes a node back in its term or changes a vote
\* it has given (loadFromStorage after persistHardState).
THEOREM VotesAreStable ==
    ASSUME ~StorageMayFail
    PROVE  Spec => VoteStable
  <1>1. SafetyInv /\ [Next]_electionVars => [VotesKept]_electionVars
    BY NextStep, SafetyIsVotes DEF VoteStep
  <1> QED
    BY <1>1, SafetyInvariant, PTL DEF Spec, VoteStable

-----------------------------------------------------------------------------
(***************************************************************************)
(* What the log positions say. The replicating cluster of module Raft      *)
(* needs more of an election than that nobody else wins its term: whoever  *)
(* holds the vote of v claimed a log at least as up to date as v's, and    *)
(* has it still.                                                           *)
(***************************************************************************)

\* An election of term t has been won.
Won(t) == \E v \in leaders : v.term = t

\* Nobody asks for votes with a log better than the one it has.
ClaimsInv ==
    /\ \A n \in Node : \A r \in preVotes[n] : UpToDate(lastPos[n], r.pos)
    /\ \A m \in voteMsgs :
         /\ m.type = "request" =>
              /\ m.term <= currentTerm[m.from]
              /\ m.term = currentTerm[m.from] /\ ~Won(m.term) =>
                    UpToDate(lastPos[m.from], m.pos)
         /\ m.type = "reply" => m.forTerm <= currentTerm[m.to]
    /\ \A e \in leaders : e.term <= currentTerm[e.node]

\* No log gets worse, except under a newer leader, whose contact ends the node's
\* campaigns.
PositionKept ==
    \A n \in Node : \/ UpToDate(lastPos'[n], lastPos[n])
                    \/ preVotes'[n] = {} /\ \E v \in leaders : v.term = currentTerm'[n]

\* A pre-vote round claims the log of now or of an earlier round.
RoundsTraced ==
    \A n \in Node : \A r \in preVotes'[n] :
        r.pos = lastPos[n] \/ \E q \in preVotes[n] : q.pos = r.pos

\* m is x, or makes the same request.
SameClaim(x, m) ==
    \/ m = x
    \/ /\ m.type = "request" /\ x.type = "request"
       /\ m.from = x.from /\ m.term = x.term /\ m.pos = x.pos

\* A vote request in flight was there before or asks for the term just begun.
MessagesTraced ==
    \A m \in voteMsgs' :
        \/ \E x \in voteMsgs : SameClaim(x, m)
        \/ m.type = "request" /\ m.term = currentTerm'[m.from] /\ UpToDate(lastPos[m.from], m.pos)
        \/ m.type = "reply" /\ m.forTerm <= currentTerm[m.to]

\* A vote just given in a term nobody has won goes to a log as good as the
\* voter's.
VoteSound ==
    \A v, c \in Node, t \in Term :
        Held(v, t, c)' /\ ~Held(v, t, c) /\ currentTerm'[c] = t /\ ~Won(t) =>
            currentTerm[v] <= t /\ UpToDate(lastPos[c], lastPos[v])

\* Behind a new leader is a majority whose votes it held, itself included.
WinSound ==
    \A e \in leaders' \ leaders : \E Q \in SUBSET Node :
        /\ IsQuorum(Q)
        /\ \A v \in Q : \/ Held(v, e.term, e.node) /\ currentTerm[e.node] = e.term
                        \/ v = e.node /\ currentTerm[v] < e.term

\* A node wins the term it is in.
WinnersReached == \A e \in leaders' \ leaders : currentTerm'[e.node] = e.term

\* Log positions are ordered.
LEMMA UpToDateOrder ==
    /\ \A p \in Pos : UpToDate(p, p)
    /\ \A p, q, r \in Pos : UpToDate(p, q) /\ UpToDate(q, r) => UpToDate(p, r)
  <1>1. \A p \in Pos : p.term \in Int /\ p.index \in Int
    BY BoundAssumption DEF Pos
  <1>2. \A p \in Pos : UpToDate(p, p)
    BY <1>1 DEF UpToDate
  <1>3. ASSUME NEW p \in Pos, NEW q \in Pos, NEW r \in Pos, UpToDate(p, q), UpToDate(q, r)
        PROVE  UpToDate(p, r)
    <2>1. /\ p.term \in Int /\ q.term \in Int /\ r.term \in Int
          /\ p.index \in Int /\ q.index \in Int /\ r.index \in Int
      BY <1>1
    <2> QED
      BY <1>3, <2>1 DEF UpToDate
  <1> QED
    BY <1>2, <1>3

\* The claims stay honest.
LEMMA ClaimsKept ==
    ASSUME TypeOK, TypeOK', ClaimsInv, VotesKept, leaders \subseteq leaders',
           PositionKept, RoundsTraced, MessagesTraced, WinnersReached
    PROVE  ClaimsInv'
  <1>a. /\ lastPos \in [Node -> Pos] /\ lastPos' \in [Node -> Pos]
        /\ currentTerm \in [Node -> Nat] /\ currentTerm' \in [Node -> Nat]
    BY BoundAssumption DEF TypeOK
  <1>0. \A n \in Node : /\ lastPos[n] \in Pos /\ lastPos'[n] \in Pos
                        /\ currentTerm[n] \in Nat /\ currentTerm'[n] \in Nat
                        /\ currentTerm[n] <= currentTerm'[n]
    BY <1>a DEF VotesKept
  <1>1. ASSUME NEW n \in Node, NEW r \in preVotes'[n]
        PROVE  UpToDate(lastPos'[n], r.pos)
    <2>1. r.pos \in Pos
      BY DEF TypeOK, Round
    <2>2. UpToDate(lastPos[n], r.pos)
      BY <1>0, UpToDateOrder DEF RoundsTraced, ClaimsInv
    <2>3. UpToDate(lastPos'[n], lastPos[n])
      BY DEF PositionKept
    <2> QED
      BY <1>0, <2>1, <2>2, <2>3, UpToDateOrder
  <1>2. ASSUME NEW m \in voteMsgs', m.type = "request"
        PROVE  /\ m.term <= currentTerm'[m.from]
               /\ m.term = currentTerm'[m.from] /\ ~Won(m.term)' =>
                     UpToDate(lastPos'[m.from], m.pos)
    <2>0. m \in VoteRequest /\ m.from \in Node /\ m.pos \in Pos /\ m.term \in Nat
      BY <1>2 DEF TypeOK, VoteMsg, VoteRequest, VoteReply
    <2>1. /\ m.term <= currentTerm'[m.from]
          /\ m.term = currentTerm'[m.from] /\ ~Won(m.term) => UpToDate(lastPos[m.from], m.pos)
      <3>1. CASE \E x \in voteMsgs : SameClaim(x, m)
        <4>1. PICK x \in voteMsgs : SameClaim(x, m)
          BY <3>1
        <4>2. x.type = "request" /\ m.from = x.from /\ m.term = x.term /\ m.pos = x.pos
          BY <1>2, <4>1 DEF SameClaim
        <4>3. /\ x.term <= currentTerm[x.from]
              /\ x.term = currentTerm[x.from] /\ ~Won(x.term) => UpToDate(lastPos[x.from], x.pos)
          BY <4>2 DEF ClaimsInv
        <4> QED
          BY <1>0, <2>0, <4>2, <4>3
      <3>2. CASE m.term = currentTerm'[m.from] /\ UpToDate(lastPos[m.from], m.pos)
        BY <1>0, <2>0, <3>2
      <3> QED
        BY <1>2, <3>1, <3>2 DEF MessagesTraced
    <2>2. ASSUME m.term = currentTerm'[m.from], ~Won(m.term)'
          PROVE  UpToDate(lastPos'[m.from], m.pos)
      <3>1. ~\E v \in leaders : v.term = currentTerm'[m.from]
        BY <2>2 DEF Won
      <3>2. UpToDate(lastPos[m.from], m.pos)
        BY <2>1, <2>2, <3>1 DEF Won
      <3>3. UpToDate(lastPos'[m.from], lastPos[m.from])
        BY <2>0, <3>1 DEF PositionKept
      <3> QED
        BY <1>0, <2>0, <3>2, <3>3, UpToDateOrder
    <2> QED
      BY <2>1, <2>2
  <1>3. ASSUME NEW m \in voteMsgs', m.type = "reply"
        PROVE  m.forTerm <= currentTerm'[m.to]
    <2>0. m \in VoteReply /\ m.to \in Node /\ m.forTerm \in Nat
      BY <1>3 DEF TypeOK, VoteMsg, VoteRequest, VoteReply
    <2>1. m.forTerm <= currentTerm[m.to]
      BY <1>3 DEF MessagesTraced, SameClaim, ClaimsInv
    <2> QED
      BY <1>0, <2>0, <2>1
  <1>4. ASSUME NEW e \in leaders' PROVE e.term <= currentTerm'[e.node]
    <2>1. e.node \in Node /\ e.term \in Nat
      BY BoundAssumption DEF TypeOK, Victory
    <2> QED
      BY <1>0, <2>1 DEF WinnersReached, ClaimsInv
  <1> QED
    BY <1>1, <1>2, <1>3, <1>4 DEF ClaimsInv

\* What every step does to votes and claims.
ClaimStep == WinnersReached /\ RoundsTraced /\ MessagesTraced /\ VoteSound /\ WinSound

\* A step that gives no vote and makes no leader.
LEMMA QuietClaims ==
    ASSUME TypeOK, leaders' = leaders, RoundsTraced,
           \A m \in voteMsgs' : \E x \in voteMsgs : SameClaim(x, m),
           \A v, c \in Node, t \in Term : Held(v, t, c)' => Held(v, t, c)
    PROVE  ClaimStep
  BY DEF ClaimStep, MessagesTraced, VoteSound, WinSound, WinnersReached

\* A step that leaves replies and votes alone or forgets them.
LEMMA VotesForgotten ==
    ASSUME TypeOK, NoNewReply,
           \A c \in Node : votes'[c] = {} \/ (votes'[c] = votes[c] /\ currentTerm'[c] = currentTerm[c])
    PROVE  \A v, c \in Node, t \in Term : Held(v, t, c)' => Held(v, t, c)
  BY DEF Held, NoNewReply

\* A real election asks with the position of the campaign.
LEMMA RealElectionClaims ==
    ASSUME SafetyInv, ClaimsInv, NEW n \in Node, NEW pos \in Pos, UpToDate(lastPos[n], pos),
           startRealElection(n, pos)
    PROVE  ClaimStep
  <1> DEFINE t == currentTerm[n] + 1
  <1>0. TypeOK
    BY DEF SafetyInv, TypeInv
  <1>1. /\ currentTerm' = [currentTerm EXCEPT ![n] = t]
        /\ preVotes' = [preVotes EXCEPT ![n] = {}]
        /\ votes' = [votes EXCEPT ![n] = {n}]
    BY DEF startRealElection
  <1>2. PICK kept \in SUBSET voteMsgs :
            voteMsgs' = kept \cup
               {[type |-> "request", from |-> n, to |-> p, term |-> t,
                 pos |-> pos, live |-> TRUE] : p \in Node \ {n}}
    BY DEF startRealElection
  <1>3. RoundsTraced
    BY <1>0, <1>1 DEF RoundsTraced, TypeOK
  <1>4. MessagesTraced
    <2>1. currentTerm'[n] = t
      BY <1>0, <1>1 DEF TypeOK
    <2> SUFFICES ASSUME NEW m \in voteMsgs', m \notin voteMsgs
                 PROVE  /\ m.type = "request" /\ m.term = currentTerm'[m.from]
                        /\ UpToDate(lastPos[m.from], m.pos)
      BY DEF MessagesTraced, SameClaim
    <2>2. PICK p \in Node \ {n} : m = [type |-> "request", from |-> n, to |-> p, term |-> t,
                                       pos |-> pos, live |-> TRUE]
      BY <1>2
    <2>3. m.type = "request" /\ m.from = n /\ m.term = t /\ m.pos = pos
      BY <2>2
    <2> QED
      BY <2>1, <2>3
  <1>5. NoNewReply
    BY <1>2 DEF NoNewReply
  <1>6. VoteSound
    <2> SUFFICES ASSUME NEW v \in Node, NEW c \in Node, NEW u \in Term,
                        Held(v, u, c)', ~Held(v, u, c), currentTerm'[c] = u
                 PROVE  currentTerm[v] <= u /\ UpToDate(lastPos[c], lastPos[v])
      BY DEF VoteSound
    <2>1. v \in votes'[c]
      BY <1>5 DEF Held, NoNewReply
    <2>2. c = n /\ v = n
      BY <1>0, <1>1, <2>1 DEF Held, TypeOK
    <2> QED
      BY <1>0, <1>1, <2>2, UpToDateOrder DEF TypeOK
  <1>7. WinSound
    <2>1. CASE IsQuorum({n})
      <3>1. leaders' = leaders \cup {[node |-> n, term |-> t]}
        BY <2>1 DEF startRealElection, becomeLeader
      <3>2. currentTerm[n] < t
        BY <1>0 DEF TypeOK
      <3> QED
        BY <2>1, <3>1, <3>2 DEF WinSound
    <2>2. CASE ~IsQuorum({n})
      BY <2>2 DEF startRealElection, WinSound
    <2> QED
      BY <2>1, <2>2
  <1>8. WinnersReached
    <2>1. leaders' = leaders \/ leaders' = leaders \cup {[node |-> n, term |-> t]}
      BY DEF startRealElection, becomeLeader
    <2>2. currentTerm'[n] = t
      BY <1>0, <1>1 DEF TypeOK
    <2> QED
      BY <2>1, <2>2 DEF WinnersReached
  <1> QED
    BY <1>3, <1>4, <1>6, <1>7, <1>8 DEF ClaimStep

\* A vote is given after a comparison with the voter's own log.
LEMMA HandleRequestVoteClaims ==
    ASSUME SafetyInv, ClaimsInv, NEW m \in voteMsgs, HandleRequestVote(m)
    PROVE  ClaimStep
  <1> DEFINE p     == m.to
             newer == m.term > currentTerm[p]
             t     == IF newer THEN m.term ELSE currentTerm[p]
  <1>0. TypeOK
    BY DEF SafetyInv, TypeInv
  <1>1. m \in VoteRequest /\ m.type = "request"
    BY <1>0 DEF TypeOK, HandleRequestVote, VoteMsg, VoteRequest, VoteReply
  <1>2. /\ p \in Node /\ m.from \in Node /\ m.term \in Term /\ currentTerm[p] \in Term
        /\ m.pos \in Pos
    BY <1>0, <1>1, BoundAssumption DEF VoteRequest, TypeOK
  <1>3. /\ currentTerm' = [currentTerm EXCEPT ![p] = t]
        /\ votes'    = [votes EXCEPT ![p] = IF newer THEN {} ELSE @]
        /\ preVotes' = [preVotes EXCEPT ![p] = IF newer THEN {} ELSE @]
        /\ voteMsgs' = (voteMsgs \ {m}) \cup VoteReplyTo(m, t, Grants(m))
        /\ leaders' = leaders /\ lastPos' = lastPos
    BY DEF HandleRequestVote
  <1>4. RoundsTraced
    BY <1>0, <1>2, <1>3 DEF RoundsTraced, TypeOK
  <1>5. \A r \in VoteReplyTo(m, t, Grants(m)) :
            /\ r.type = "reply" /\ r.from = p /\ r.to = m.from /\ r.forTerm = m.term
            /\ r.granted = Grants(m)
    BY DEF VoteReplyTo
  <1>6. m.term <= currentTerm[m.from] /\
        (m.term = currentTerm[m.from] /\ ~Won(m.term) => UpToDate(lastPos[m.from], m.pos))
    BY <1>1 DEF ClaimsInv
  <1>7. MessagesTraced
    BY <1>3, <1>5, <1>6 DEF MessagesTraced, SameClaim
  <1>8. VoteSound
    <2> SUFFICES ASSUME NEW v \in Node, NEW c \in Node, NEW u \in Term,
                        Held(v, u, c)', ~Held(v, u, c), currentTerm'[c] = u, ~Won(u)
                 PROVE  currentTerm[v] <= u /\ UpToDate(lastPos[c], lastPos[v])
      BY DEF VoteSound
    <2>1. ~(currentTerm'[c] = u /\ v \in votes'[c])
      <3>1. SUFFICES ASSUME v \in votes'[c] PROVE FALSE
        OBVIOUS
      <3>2. currentTerm'[c] = currentTerm[c] /\ votes'[c] = votes[c]
        BY <1>0, <1>2, <1>3, <3>1 DEF TypeOK
      <3> QED
        BY <3>1, <3>2 DEF Held
    <2>2. PICK r \in voteMsgs' : /\ r.type = "reply" /\ r.granted
                                 /\ r.from = v /\ r.to = c /\ r.forTerm = u
      BY <2>1 DEF Held
    <2>3. r \notin voteMsgs
      BY <2>2 DEF Held
    <2>4. Grants(m) /\ v = p /\ c = m.from /\ u = m.term
      BY <1>3, <1>5, <2>2, <2>3
    <2>5. CASE c = p
      <3>1. m.term >= currentTerm[v] /\ currentTerm[v] \in Int /\ m.term \in Int
        BY <1>2, <2>4, BoundAssumption DEF Grants
      <3>2. UpToDate(lastPos[c], lastPos[v])
        BY <1>0, <2>4, <2>5, UpToDateOrder DEF TypeOK
      <3> QED
        BY <2>4, <3>1, <3>2
    <2>6. CASE c # p
      <3>1. currentTerm[c] = u
        BY <1>0, <1>2, <1>3, <2>6 DEF TypeOK
      <3>2. UpToDate(lastPos[c], m.pos) /\ UpToDate(m.pos, lastPos[v]) /\ m.term >= currentTerm[v]
        BY <1>6, <2>4, <3>1 DEF Grants
      <3>3. UpToDate(lastPos[c], lastPos[v])
        BY <1>0, <1>2, <2>4, <3>2, UpToDateOrder DEF TypeOK
      <3>4. currentTerm[v] \in Int /\ u \in Int /\ currentTerm[v] <= u
        BY <1>0, <1>2, <2>4, <3>2, BoundAssumption DEF TypeOK
      <3> QED
        BY <3>3, <3>4
    <2> QED
      BY <2>5, <2>6
  <1> QED
    BY <1>3, <1>4, <1>7, <1>8 DEF ClaimStep, WinSound, WinnersReached

\* A vote that is counted was held already.
LEMMA VoteCountedClaims ==
    ASSUME SafetyInv, NEW m \in voteMsgs, VoteCounted(m)
    PROVE  ClaimStep
  <1> DEFINE n == m.to
             granted == votes[n] \cup {m.from}
  <1>0. TypeOK
    BY DEF SafetyInv, TypeInv
  <1>1. m \in VoteReply
    BY <1>0 DEF TypeOK, VoteCounted, VoteMsg, VoteRequest, VoteReply
  <1>2. /\ n \in Node /\ m.from \in Node /\ m.type = "reply" /\ m.granted
        /\ m.forTerm = currentTerm[n]
    BY <1>1 DEF VoteReply, VoteCounted, ReplyCurrent
  <1>3. /\ votes' = [votes EXCEPT ![n] = granted]
        /\ voteMsgs' = voteMsgs \ {m}
        /\ UNCHANGED <<currentTerm, preVotes>>
    BY DEF VoteCounted
  <1>4. \A w \in granted : Held(w, currentTerm[n], n)
    BY <1>2 DEF Held
  <1>5. \A v, c \in Node, t \in Term : Held(v, t, c)' => Held(v, t, c)
    BY <1>0, <1>2, <1>3, <1>4 DEF Held, TypeOK
  <1>6. WinSound
    <2>1. CASE IsQuorum(granted)
      <3>1. leaders' = leaders \cup {[node |-> n, term |-> currentTerm[n]]}
        BY <2>1 DEF VoteCounted, becomeLeader
      <3>2. granted \in SUBSET Node
        BY <1>0, <1>2 DEF TypeOK
      <3> QED
        BY <1>4, <2>1, <3>1, <3>2 DEF WinSound
    <2>2. CASE ~IsQuorum(granted)
      BY <2>2 DEF VoteCounted, WinSound
    <2> QED
      BY <2>1, <2>2
  <1>7. WinnersReached
    <2>1. leaders' = leaders \/ leaders' = leaders \cup {[node |-> n, term |-> currentTerm[n]]}
      BY DEF VoteCounted, becomeLeader
    <2> QED
      BY <1>3, <2>1 DEF WinnersReached
  <1> QED
    BY <1>3, <1>5, <1>6, <1>7 DEF ClaimStep, RoundsTraced, MessagesTraced, SameClaim, VoteSound

\* A crash leaves requests as they were, but for live.
LEMMA OrphanedClaims ==
    ASSUME TypeOK, NEW n \in Node
    PROVE  /\ \A m \in Orphaned(n) : \E x \in voteMsgs : SameClaim(x, m)
           /\ \A m \in Orphaned(n) : m.type = "reply" => m \in voteMsgs
  <1>1. \A x \in voteMsgs : x.type = "request" =>
           /\ [x EXCEPT !.live = FALSE].type = "request"
           /\ [x EXCEPT !.live = FALSE].from = x.from
           /\ [x EXCEPT !.live = FALSE].term = x.term
           /\ [x EXCEPT !.live = FALSE].pos = x.pos
    BY DEF TypeOK, VoteMsg, VoteRequest, VoteReply
  <1> QED
    BY <1>1 DEF Orphaned, SameClaim

\* Every step keeps to ClaimStep.
LEMMA NextClaims ==
    ASSUME SafetyInv, ClaimsInv, ~StorageMayFail, [Next]_electionVars
    PROVE  ClaimStep
  <1> USE DEF NoNewReply, RoundsTraced, SameClaim
  <1>0. TypeOK /\ Synced
    BY DEF SafetyInv, TypeInv
  <1>1. CASE UNCHANGED electionVars
    BY <1>0, <1>1, QuietClaims, VotesForgotten DEF electionVars
  <1>2. ASSUME NEW n \in Node, Campaign(n) PROVE ClaimStep
    <2>1. CASE BeginPreVote(n)
      <3>1. \A c \in Node : votes'[c] = votes[c] /\ currentTerm'[c] = currentTerm[c]
        BY <2>1 DEF BeginPreVote
      <3>2. RoundsTraced
        BY <1>0, <2>1 DEF BeginPreVote, TypeOK
      <3> QED
        BY <1>0, <2>1, <3>1, <3>2, QuietClaims, VotesForgotten DEF BeginPreVote
    <2>2. CASE BeginElection(n)
      <3>1. lastPos[n] \in Pos /\ startRealElection(n, lastPos[n])
        BY <1>0, <2>2 DEF BeginElection, TypeOK
      <3> QED
        BY <3>1, RealElectionClaims, UpToDateOrder
    <2>3. ASSUME NEW r \in preVotes[n], NEW p \in Node, PreVoteGranted(n, r, p)
          PROVE  ClaimStep
      <3>1. \A c \in Node : votes'[c] = votes[c] /\ currentTerm'[c] = currentTerm[c]
        BY <2>3 DEF PreVoteGranted
      <3>2. [r EXCEPT !.granted = @ \cup {p}].pos = r.pos
        BY <1>0 DEF TypeOK, Round
      <3>3. RoundsTraced
        BY <1>0, <2>3, <3>2 DEF PreVoteGranted, TypeOK
      <3> QED
        BY <1>0, <2>3, <3>1, <3>3, QuietClaims, VotesForgotten DEF PreVoteGranted
    <2>4. ASSUME NEW r \in preVotes[n], CampaignWon(n, r)
          PROVE  ClaimStep
      <3>1. r.pos \in Pos /\ startRealElection(n, r.pos) /\ UpToDate(lastPos[n], r.pos)
        BY <1>0, <2>4 DEF CampaignWon, TypeOK, Round, ClaimsInv
      <3> QED
        BY <3>1, RealElectionClaims
    <2> QED
      BY <1>2, <2>1, <2>2, <2>3, <2>4 DEF Campaign
  <1>3. ASSUME NEW n \in Node, NEW t, stepDown(n, t)
        PROVE  /\ \A c \in Node : votes'[c] = {} \/ (votes'[c] = votes[c] /\ currentTerm'[c] = currentTerm[c])
               /\ RoundsTraced
    BY <1>0, <1>3 DEF stepDown, TypeOK
  <1>4. ASSUME NEW m \in voteMsgs, Voting(m) PROVE ClaimStep
    <2>1. CASE HandleRequestVote(m)
      BY <2>1, HandleRequestVoteClaims
    <2>2. CASE VoteReplyNewer(m)
      <3>1. m.to \in Node
        BY <1>0, <2>2 DEF TypeOK, VoteMsg, VoteRequest, VoteReply
      <3>2. /\ stepDown(m.to, m.term)
            /\ leaders' = leaders /\ voteMsgs' \subseteq voteMsgs
        BY <2>2 DEF VoteReplyNewer
      <3> QED
        BY <1>0, <1>3, <3>1, <3>2, QuietClaims, VotesForgotten
    <2>3. CASE VoteCounted(m)
      BY <2>3, VoteCountedClaims
    <2>4. CASE VoteReplyIgnored(m)
      <3>1. /\ UNCHANGED <<votes, currentTerm, preVotes, leaders>>
            /\ voteMsgs' \subseteq voteMsgs
        BY <2>4 DEF VoteReplyIgnored
      <3> QED
        BY <1>0, <3>1, QuietClaims, VotesForgotten
    <2> QED
      BY <1>4, <2>1, <2>2, <2>3, <2>4 DEF Voting
  <1>5. ASSUME NEW n \in Node, Environment(n) PROVE ClaimStep
    <2>0. /\ \A m \in Orphaned(n) : \E x \in voteMsgs : SameClaim(x, m)
          /\ \A m \in Orphaned(n) : m.type = "reply" => m \in voteMsgs
      BY <1>0, OrphanedClaims
    <2>1. ASSUME NEW l \in Node, NEW t \in Term, LeaderContact(n, l, t)
          PROVE  ClaimStep
      <3>1. leaders' = leaders /\ voteMsgs' = voteMsgs
        BY <2>1 DEF LeaderContact, FollowLeader
      <3>2. CASE t > currentTerm[n]
        <4>1. stepDown(n, t)
          BY <2>1, <3>2 DEF LeaderContact, FollowLeader
        <4> QED
          BY <1>0, <1>3, <3>1, <4>1, QuietClaims, VotesForgotten
      <3>3. CASE ~(t > currentTerm[n])
        <4>1. UNCHANGED <<currentTerm, preVotes, votes>>
          BY <2>1, <3>3 DEF LeaderContact, FollowLeader
        <4> QED
          BY <1>0, <3>1, <4>1, QuietClaims, VotesForgotten
      <3> QED
        BY <3>2, <3>3
    <2>2. ASSUME NEW l \in Node, NEW t \in Term, CrashInHandler(n, l, t)
          PROVE  ClaimStep
      <3>1. leaders' = leaders /\ voteMsgs' = Orphaned(n)
        BY <2>2 DEF CrashInHandler, DieFollowing
      <3>2. CASE t > currentTerm[n]
        <4>1. stepDown(n, t)
          BY <2>2, <3>2 DEF CrashInHandler, DieFollowing
        <4> QED
          BY <1>0, <1>3, <2>0, <3>1, <4>1, QuietClaims, VotesForgotten
      <3>3. CASE ~(t > currentTerm[n])
        <4>1. /\ currentTerm' = currentTerm
              /\ votes' = [votes EXCEPT ![n] = {}]
              /\ preVotes' = [preVotes EXCEPT ![n] = {}]
          BY <2>2, <3>3 DEF CrashInHandler, DieFollowing
        <4>2. \A c \in Node : votes'[c] = {} \/ (votes'[c] = votes[c] /\ currentTerm'[c] = currentTerm[c])
          BY <1>0, <4>1 DEF TypeOK
        <4>3. RoundsTraced
          BY <1>0, <4>1 DEF TypeOK
        <4> QED
          BY <1>0, <2>0, <3>1, <4>2, <4>3, QuietClaims, VotesForgotten
      <3> QED
        BY <3>2, <3>3
    <2>3. CASE LeaderSilent(n)
      <3>1. UNCHANGED <<votes, currentTerm, preVotes, leaders, voteMsgs>>
        BY <2>3 DEF LeaderSilent
      <3> QED
        BY <1>0, <3>1, QuietClaims, VotesForgotten
    <2>4. ASSUME NEW t \in Term, LearnTerm(n, t)
          PROVE  ClaimStep
      <3>1. leaders' = leaders /\ voteMsgs' = voteMsgs /\ stepDown(n, t)
        BY <2>4 DEF LearnTerm
      <3> QED
        BY <1>0, <1>3, <3>1, QuietClaims, VotesForgotten
    <2>5. CASE LeaderAppend(n)
      <3>1. UNCHANGED <<votes, currentTerm, preVotes, leaders, voteMsgs>>
        BY <2>5 DEF LeaderAppend
      <3> QED
        BY <1>0, <3>1, QuietClaims, VotesForgotten
    <2>6. CASE Restart(n)
      <3>1. leaders' = leaders /\ voteMsgs' = Orphaned(n)
        BY <2>6 DEF Restart, Reboot
      <3>2. currentTerm' = currentTerm
        BY <1>0, <2>6 DEF Restart, Reboot, Synced, TypeOK
      <3>3. /\ votes' = [votes EXCEPT ![n] = {}]
            /\ preVotes' = [preVotes EXCEPT ![n] = {}]
        BY <2>6 DEF Restart, Reboot
      <3>4. \A c \in Node : votes'[c] = {} \/ (votes'[c] = votes[c] /\ currentTerm'[c] = currentTerm[c])
        BY <1>0, <3>2, <3>3 DEF TypeOK
      <3>5. RoundsTraced
        BY <1>0, <3>3 DEF TypeOK
      <3> QED
        BY <1>0, <2>0, <3>1, <3>4, <3>5, QuietClaims, VotesForgotten
    <2> QED
      BY <1>5, <2>1, <2>2, <2>3, <2>4, <2>5, <2>6 DEF Environment
  <1> QED
    BY <1>1, <1>2, <1>4, <1>5 DEF Next


\* What a step of the election gives to whoever composes it with logs.
LEMMA SafetyPreserved ==
    ASSUME SafetyInv, ~StorageMayFail, [Next]_electionVars
    PROVE  SafetyInv' /\ VotesKept /\ leaders \subseteq leaders'
  <1>1. TypeInv'
    BY TypeNext DEF SafetyInv
  <1>2. VoteStep
    BY NextStep, SafetyIsVotes
  <1>3. VotesInv' /\ VotesKept
    BY <1>2, SafetyStep, SafetyIsVotes DEF VoteStep
  <1>4. leaders \subseteq leaders'
    <2> USE DEF startRealElection, becomeLeader
    <2>1. CASE UNCHANGED electionVars
      BY <2>1 DEF electionVars
    <2>2. ASSUME NEW n \in Node, Campaign(n) PROVE leaders \subseteq leaders'
      BY <2>2 DEF Campaign, BeginPreVote, BeginElection, PreVoteGranted, CampaignWon
    <2>3. ASSUME NEW n \in Node, Environment(n) PROVE leaders \subseteq leaders'
      BY <2>3 DEF Environment, LeaderContact, FollowLeader, CrashInHandler, DieFollowing,
                  LeaderSilent, LearnTerm, LeaderAppend, Restart, Reboot
    <2>4. ASSUME NEW m \in voteMsgs, Voting(m) PROVE leaders \subseteq leaders'
      BY <2>4 DEF Voting, HandleRequestVote, VoteReplyNewer, VoteCounted, VoteReplyIgnored
    <2> QED
      BY <2>1, <2>2, <2>3, <2>4 DEF Next
  <1> QED
    BY <1>1, <1>3, <1>4 DEF SafetyInv, VotesInv

\* At the start nobody asks for anything.
LEMMA ClaimsInit == Init => ClaimsInv
  BY DEF Init, ClaimsInv

=============================================================================
