---------------------------- MODULE RoutingProofs ---------------------------
(***************************************************************************)
(* Proofs about Routing, for every cluster and every bound, on top of the  *)
(* election safety that ElectionProofs establishes.                        *)
(***************************************************************************)
EXTENDS Routing, ElectionProofs, WellFoundedInduction

USE DEF Term

-----------------------------------------------------------------------------
(***************************************************************************)
(* The inductive invariant. Leader ids alone say little: an id may be many *)
(* elections old. What orders them is the leadership behind the id: it is  *)
(* at least as new as any the naming node has had itself.                  *)
(***************************************************************************)

\* A node is never behind a term it has won.
WinsReached == \A v \in leaders : v.term <= currentTerm[v.node]

\* Whom a node names as leader has won an election, no later than the node's
\* term and no earlier than the node's own elections.
NamesWinner ==
    \A n \in Node : leaderID[n] # None =>
        \E v \in leaders : /\ v.node = leaderID[n]
                           /\ v.term <= currentTerm[n]
                           /\ \A w \in leaders : w.node = n => w.term <= v.term

\* A node that still names itself after it was deposed has a newer term than
\* any it has won.
DeposedKnows ==
    \A n \in Node : leaderID[n] = n /\ role[n] # Leader =>
        \A v \in leaders : v.node = n => v.term < currentTerm[n]

NamesInv == WinsReached /\ NamesWinner /\ DeposedKnows

\* Node n knows of a leadership of term k or newer.
Knows(n, k) == currentTerm[n] >= k /\ (leaderID[n] # None => Named(n) >= k)

Open == {"arrived", "forwarding", "submitting"}

\* Where a request is, its newest leadership so far is known.
RequestFits ==
    /\ req \in Request
    /\ req.phase \in Open =>
          /\ req.at \in Node
          /\ \A n \in Node, k \in Term : req.at = n /\ req.knows = k => Knows(n, k)
    /\ req.phase = "served" => req.term >= req.knows

RoutingInv == SafetyInv /\ NamesInv /\ RequestFits

-----------------------------------------------------------------------------
(***************************************************************************)
(* The newest leadership behind a leader id.                               *)
(***************************************************************************)

\* A non-empty set of bounded naturals has a maximum: the natural numbers are
\* well founded.
LEMMA MaxOfBounded ==
    ASSUME NEW m \in Nat, NEW S \in SUBSET (0..m), S # {}
    PROVE  Max(S) \in S /\ \A x \in S : x <= Max(S)
  <1> DEFINE T == {m - x : x \in S}
             R == OpToRel(<, Nat)
  <1>1. T \subseteq Nat /\ T # {}
    <2>1. PICK x \in S : TRUE
      OBVIOUS
    <2>2. m - x \in T
      OBVIOUS
    <2>3. \A z \in S : m - z \in Nat
      OBVIOUS
    <2> QED
      BY <2>2, <2>3
  <1>2. IsWellFoundedOn(R, Nat)
    BY NatLessThanWellFounded
  <1>3. \A x, y \in Nat : <<x, y>> \in R <=> x < y
    BY DEF OpToRel
  <1> HIDE DEF R, T
  <1>4. PICK y \in T : \A z \in T : ~(<<z, y>> \in R)
    BY <1>1, <1>2, WFMin
  <1>5. \A z \in T : y <= z
    <2> SUFFICES ASSUME NEW z \in T PROVE y <= z
      OBVIOUS
    <2>1. z \in Nat /\ y \in Nat
      BY <1>1
    <2>2. ~(z < y)
      BY <1>3, <1>4, <2>1
    <2> QED
      BY <2>1, <2>2
  <1>6. PICK x \in S : y = m - x
    BY DEF T
  <1>7. \A z \in S : z <= x
    BY <1>5, <1>6 DEF T
  <1> QED
    BY <1>7 DEF Max

\* Named(n) is the newest victory of the named node within n's term, or 0.
NamedIsNewest ==
    \A n \in Node :
        /\ Named(n) \in Nat
        /\ \/ Named(n) = 0
           \/ /\ [node |-> leaderID[n], term |-> Named(n)] \in leaders
              /\ Named(n) <= currentTerm[n]
        /\ \A v \in leaders : v.node = leaderID[n] /\ v.term <= currentTerm[n]
              => v.term <= Named(n)

LEMMA NamedFacts == TypeOK => NamedIsNewest
  <1> SUFFICES ASSUME TypeOK, NEW n \in Node
               PROVE  /\ Named(n) \in Nat
                      /\ \/ Named(n) = 0
                         \/ /\ [node |-> leaderID[n], term |-> Named(n)] \in leaders
                            /\ Named(n) <= currentTerm[n]
                      /\ \A v \in leaders : v.node = leaderID[n] /\ v.term <= currentTerm[n]
                            => v.term <= Named(n)
    BY DEF NamedIsNewest
  <1> DEFINE W == {x \in leaders : x.node = leaderID[n] /\ x.term <= currentTerm[n]}
             S == {0} \cup {v.term : v \in W}
  <1>1. \A x \in leaders : x \in Victory /\ x.term \in 1..MaxTerm
    BY DEF TypeOK, Victory
  <1>2. S \in SUBSET (0..MaxTerm) /\ S \subseteq Nat /\ S # {} /\ MaxTerm \in Nat
    BY <1>1, BoundAssumption
  <1>3. Named(n) = Max(S)
    BY DEF Named
  <1> HIDE DEF S
  <1>4. Named(n) \in S /\ \A x \in S : x <= Named(n)
    BY <1>2, <1>3, MaxOfBounded
  <1>5. \A v \in W : v.term <= Named(n)
    BY <1>4 DEF S
  <1>6. ASSUME Named(n) # 0
        PROVE  /\ [node |-> leaderID[n], term |-> Named(n)] \in leaders
               /\ Named(n) <= currentTerm[n]
    <2>1. PICK v \in W : Named(n) = v.term
      BY <1>4, <1>6 DEF S
    <2>2. v = [node |-> leaderID[n], term |-> Named(n)]
      BY <1>1, <2>1 DEF Victory
    <2> QED
      BY <2>1, <2>2
  <1>7. Named(n) \in Nat
    BY <1>2, <1>4
  <1> QED
    BY <1>5, <1>6, <1>7

-----------------------------------------------------------------------------
(***************************************************************************)
(* What a step of the election does to leader ids.                         *)
(***************************************************************************)

\* The leader id of n stays, is forgotten, or names the leader of n's new term.
NameMoves(n) ==
    \/ leaderID'[n] = leaderID[n]
    \/ leaderID'[n] = None
    \/ [node |-> leaderID'[n], term |-> currentTerm'[n]] \in leaders'

\* A node comes to name itself only as leader, and is deposed only by a newer
\* term or by a leader whose name it takes.
SelfMoves(n) ==
    leaderID'[n] = n /\ role'[n] # Leader =>
        leaderID[n] = n /\ (currentTerm'[n] > currentTerm[n] \/ role[n] # Leader)

\* New victories are of the winner's current term, and the winner names itself.
WinsMove ==
    /\ leaders \subseteq leaders'
    /\ \A v \in leaders' \ leaders : /\ v.term = currentTerm'[v.node]
                                     /\ leaderID'[v.node] = v.node
                                     /\ role'[v.node] = Leader

NameStep == WinsMove /\ \A n \in Node : NameMoves(n) /\ SelfMoves(n)

\* A step of one node n that makes no leader.
LEMMA FollowerNames ==
    ASSUME TypeOK, NEW n \in Node, leaders' = leaders,
           \A p \in Node \ {n} : leaderID'[p] = leaderID[p] /\ role'[p] = role[p],
           NameMoves(n), SelfMoves(n)
    PROVE  NameStep
  BY DEF NameStep, WinsMove, NameMoves, SelfMoves

\* A new leader names itself.
LEMMA WinnerNames ==
    ASSUME TypeOK, NEW n \in Node, NEW t, becomeLeader(n, t), currentTerm'[n] = t
    PROVE  NameStep
  <1>1. /\ role' = [role EXCEPT ![n] = Leader]
        /\ leaderID' = [leaderID EXCEPT ![n] = n]
        /\ leaders' = leaders \cup {[node |-> n, term |-> t]}
    BY DEF becomeLeader
  <1>2. /\ leaderID'[n] = n /\ role'[n] = Leader
        /\ \A p \in Node \ {n} : leaderID'[p] = leaderID[p] /\ role'[p] = role[p]
    BY <1>1 DEF TypeOK
  <1> QED
    BY <1>1, <1>2 DEF NameStep, WinsMove, NameMoves, SelfMoves

LEMMA RealElectionNames ==
    ASSUME TypeOK, NEW n \in Node, NEW pos, startRealElection(n, pos)
    PROVE  NameStep
  <1>1. currentTerm'[n] = currentTerm[n] + 1
    BY DEF startRealElection, TypeOK
  <1>2. CASE IsQuorum({n})
    BY <1>1, <1>2, WinnerNames DEF startRealElection
  <1>3. CASE ~IsQuorum({n})
    <2>1. /\ leaders' = leaders
          /\ leaderID' = [leaderID EXCEPT ![n] = None]
          /\ role' = [role EXCEPT ![n] = Candidate]
      BY <1>3 DEF startRealElection
    <2>2. leaderID'[n] = None
      BY <2>1 DEF TypeOK
    <2> QED
      BY <2>1, <2>2, FollowerNames, NodeAssumption DEF NameMoves, SelfMoves, TypeOK
  <1> QED
    BY <1>2, <1>3

LEMMA CampaignNames ==
    ASSUME TypeOK, NEW n \in Node, Campaign(n)
    PROVE  NameStep
  <1>1. CASE BeginPreVote(n)
    <2>1. /\ leaders' = leaders
          /\ leaderID' = [leaderID EXCEPT ![n] = None]
          /\ role' = [role EXCEPT ![n] = Candidate]
      BY <1>1 DEF BeginPreVote
    <2>2. leaderID'[n] = None
      BY <2>1 DEF TypeOK
    <2> QED
      BY <2>1, <2>2, FollowerNames, NodeAssumption DEF NameMoves, SelfMoves, TypeOK
  <1>2. CASE BeginElection(n)
    BY <1>2, RealElectionNames DEF BeginElection
  <1>3. ASSUME NEW r \in preVotes[n], NEW p \in Node, PreVoteGranted(n, r, p)
        PROVE  NameStep
    BY <1>3 DEF PreVoteGranted, NameStep, WinsMove, NameMoves, SelfMoves
  <1>4. ASSUME NEW r \in preVotes[n], CampaignWon(n, r)
        PROVE  NameStep
    BY <1>4, RealElectionNames DEF CampaignWon
  <1> QED
    BY <1>1, <1>2, <1>3, <1>4 DEF Campaign

\* stepDown leaves the leader id alone, for a newer term.
LEMMA StepDownNames ==
    ASSUME TypeOK, NEW n \in Node, NEW t \in Term, t > currentTerm[n], stepDown(n, t)
    PROVE  /\ currentTerm'[n] = t
           /\ \A p \in Node \ {n} : role'[p] = role[p]
           /\ leaderID'[n] = leaderID[n] => SelfMoves(n)
  BY DEF stepDown, TypeOK, SelfMoves

LEMMA VotingNames ==
    ASSUME TypeOK, NEW m \in voteMsgs, Voting(m)
    PROVE  NameStep
  <1>0. /\ m.to \in Node /\ m.term \in Term
        /\ currentTerm[m.to] \in Nat
    BY BoundAssumption DEF TypeOK, VoteMsg, VoteRequest, VoteReply
  <1>1. CASE HandleRequestVote(m)
    <2>1. /\ UNCHANGED <<leaderID, leaders>>
          /\ currentTerm' = [currentTerm EXCEPT ![m.to] =
                                IF m.term > currentTerm[m.to] THEN m.term ELSE currentTerm[m.to]]
          /\ role' = [role EXCEPT ![m.to] =
                                IF m.term > currentTerm[m.to] THEN Follower ELSE role[m.to]]
      BY <1>1 DEF HandleRequestVote
    <2>2. NameMoves(m.to) /\ SelfMoves(m.to)
      BY <1>0, <2>1 DEF NameMoves, SelfMoves, TypeOK
    <2>3. \A p \in Node \ {m.to} : leaderID'[p] = leaderID[p] /\ role'[p] = role[p]
      BY <1>0, <2>1 DEF TypeOK
    <2> QED
      BY <1>0, <2>1, <2>2, <2>3, FollowerNames
  <1>2. CASE VoteReplyNewer(m)
    <2>1. /\ stepDown(m.to, m.term) /\ m.term > currentTerm[m.to]
          /\ UNCHANGED <<leaderID, leaders>>
      BY <1>2 DEF VoteReplyNewer
    <2>2. SelfMoves(m.to) /\ \A p \in Node \ {m.to} : role'[p] = role[p]
      BY <1>0, <2>1, StepDownNames
    <2> QED
      BY <1>0, <2>1, <2>2, FollowerNames DEF NameMoves
  <1>3. CASE VoteCounted(m)
    <2>1. CASE IsQuorum(votes[m.to] \cup {m.from})
      <3>1. becomeLeader(m.to, currentTerm[m.to]) /\ currentTerm' = currentTerm
        BY <1>3, <2>1 DEF VoteCounted
      <3> QED
        BY <1>0, <3>1, WinnerNames
    <2>2. CASE ~IsQuorum(votes[m.to] \cup {m.from})
      BY <1>3, <2>2 DEF VoteCounted, NameStep, WinsMove, NameMoves, SelfMoves
    <2> QED
      BY <2>1, <2>2
  <1>4. CASE VoteReplyIgnored(m)
    BY <1>4 DEF VoteReplyIgnored, NameStep, WinsMove, NameMoves, SelfMoves
  <1> QED
    BY <1>1, <1>2, <1>3, <1>4 DEF Voting

LEMMA EnvironmentNames ==
    ASSUME TypeOK, NEW n \in Node, Environment(n)
    PROVE  NameStep
  <1>1. ASSUME NEW l \in Node, NEW t \in Term, LeaderContact(n, l, t)
        PROVE  NameStep
    <2>1. /\ t >= currentTerm[n] /\ l # n
          /\ [node |-> l, term |-> t] \in leaders
          /\ leaderID' = [leaderID EXCEPT ![n] = l]
          /\ leaders' = leaders
      BY <1>1 DEF LeaderContact, FollowLeader
    <2>2. currentTerm'[n] = t /\ \A p \in Node \ {n} : role'[p] = role[p]
      <3>1. CASE t > currentTerm[n]
        BY <1>1, <3>1, StepDownNames DEF LeaderContact, FollowLeader
      <3>2. CASE ~(t > currentTerm[n])
        BY <1>1, <2>1, <3>2 DEF LeaderContact, FollowLeader, TypeOK
      <3> QED
        BY <3>1, <3>2
    <2>3. /\ leaderID'[n] = l
          /\ \A p \in Node \ {n} : leaderID'[p] = leaderID[p]
      BY <2>1 DEF TypeOK
    <2> QED
      BY <2>1, <2>2, <2>3, FollowerNames DEF NameMoves, SelfMoves
  <1>2. ASSUME NEW l \in Node, NEW t \in Term, CrashInHandler(n, l, t)
        PROVE  NameStep
    <2>1. leaderID' = [leaderID EXCEPT ![n] = None] /\ leaders' = leaders
      BY <1>2 DEF CrashInHandler, DieFollowing
    <2>2. \A p \in Node \ {n} : role'[p] = role[p]
      BY <1>2 DEF CrashInHandler, DieFollowing, stepDown, TypeOK
    <2>3. /\ leaderID'[n] = None
          /\ \A p \in Node \ {n} : leaderID'[p] = leaderID[p]
      BY <2>1 DEF TypeOK
    <2> QED
      BY <2>1, <2>2, <2>3, FollowerNames, NodeAssumption DEF NameMoves, SelfMoves
  <1>3. CASE LeaderSilent(n) \/ LeaderAppend(n)
    BY <1>3 DEF LeaderSilent, LeaderAppend, NameStep, WinsMove, NameMoves, SelfMoves
  <1>4. ASSUME NEW t \in Term, LearnTerm(n, t)
        PROVE  NameStep
    <2>1. stepDown(n, t) /\ t > currentTerm[n] /\ UNCHANGED <<leaderID, leaders>>
      BY <1>4 DEF LearnTerm
    <2>2. SelfMoves(n) /\ \A p \in Node \ {n} : role'[p] = role[p]
      BY <2>1, StepDownNames
    <2> QED
      BY <2>1, <2>2, FollowerNames DEF NameMoves
  <1>5. CASE Restart(n)
    <2>1. /\ leaderID' = [leaderID EXCEPT ![n] = None] /\ leaders' = leaders
          /\ role' = [role EXCEPT ![n] = Follower]
      BY <1>5 DEF Restart, Reboot
    <2>2. leaderID'[n] = None
      BY <2>1 DEF TypeOK
    <2> QED
      BY <2>1, <2>2, FollowerNames, NodeAssumption DEF NameMoves, SelfMoves, TypeOK
  <1> QED
    BY <1>1, <1>2, <1>3, <1>4, <1>5 DEF Environment

\* Every step of the election does no more than that to leader ids.
LEMMA NextNames ==
    ASSUME TypeOK, [Next]_electionVars
    PROVE  NameStep
  <1>1. CASE UNCHANGED electionVars
    BY <1>1 DEF electionVars, NameStep, WinsMove, NameMoves, SelfMoves
  <1> QED
    BY <1>1, CampaignNames, VotingNames, EnvironmentNames DEF Next

-----------------------------------------------------------------------------
(***************************************************************************)
(* The invariant is inductive.                                             *)
(***************************************************************************)

\* The invariant of the election and that of the leader ids, over one of its
\* steps.
LEMMA NamesStep ==
    ASSUME SafetyInv, NamesInv, ~StorageMayFail, [Next]_electionVars
    PROVE  SafetyInv' /\ NamesInv' /\ NameStep /\ VotesKept
  <1>1. TypeInv'
    BY TypeNext DEF SafetyInv
  <1>2. VoteStep
    BY NextStep, SafetyIsVotes
  <1>3. SafetyInv' /\ VotesKept
    BY <1>1, <1>2, SafetyStep, SafetyIsVotes DEF VoteStep, SafetyInv, VotesInv
  <1>4. TypeOK /\ TypeOK'
    BY <1>1 DEF SafetyInv, TypeInv
  <1>5. NameStep
    BY <1>4, NextNames
  <1>6. /\ \A n \in Node : /\ currentTerm[n] \in Nat /\ currentTerm'[n] \in Nat
                          /\ currentTerm[n] <= currentTerm'[n]
        /\ \A v \in leaders' : v.node \in Node /\ v.term \in Nat
        /\ \A v \in leaders' : v = [node |-> v.node, term |-> v.term]
        /\ leaders \subseteq leaders'
    BY <1>3, <1>4, <1>5 DEF TypeOK, VotesKept, Victory, NameStep, WinsMove
  <1>7. WinsReached'
    BY <1>5, <1>6 DEF NamesInv, WinsReached, NameStep, WinsMove
  <1>8. NamesWinner'
    <2> SUFFICES ASSUME NEW n \in Node, leaderID'[n] # None
                 PROVE  \E v \in leaders' : /\ v.node = leaderID'[n]
                                            /\ v.term <= currentTerm'[n]
                                            /\ \A w \in leaders' : w.node = n => w.term <= v.term
      BY DEF NamesWinner
    <2>1. CASE [node |-> leaderID'[n], term |-> currentTerm'[n]] \in leaders'
      <3> DEFINE e == [node |-> leaderID'[n], term |-> currentTerm'[n]]
      <3>1. \A w \in leaders' : w.node = n => w.term <= e.term
        BY <1>7 DEF WinsReached
      <3>2. e \in leaders' /\ e.node = leaderID'[n] /\ e.term <= currentTerm'[n]
        BY <1>6, <2>1
      <3> QED
        BY <3>1, <3>2
    <2>2. CASE [node |-> leaderID'[n], term |-> currentTerm'[n]] \notin leaders'
      <3>1. leaderID'[n] = leaderID[n]
        BY <1>5, <2>2 DEF NameStep, NameMoves
      <3>2. \A w \in leaders' : w.node = n => w \in leaders
        BY <1>5, <1>6, <2>2 DEF NameStep, WinsMove
      <3>3. PICK v \in leaders : /\ v.node = leaderID[n]
                                 /\ v.term <= currentTerm[n]
                                 /\ \A w \in leaders : w.node = n => w.term <= v.term
        BY <3>1 DEF NamesInv, NamesWinner
      <3>4. v \in leaders' /\ v.term <= currentTerm'[n]
        BY <1>6, <3>3
      <3> QED
        BY <3>1, <3>2, <3>3, <3>4
    <2> QED
      BY <2>1, <2>2
  <1>9. DeposedKnows'
    <2> SUFFICES ASSUME NEW n \in Node, leaderID'[n] = n, role'[n] # Leader,
                        NEW v \in leaders', v.node = n
                 PROVE  v.term < currentTerm'[n]
      BY DEF DeposedKnows
    <2>1. v \in leaders
      BY <1>5 DEF NameStep, WinsMove
    <2>2. leaderID[n] = n /\ (currentTerm'[n] > currentTerm[n] \/ role[n] # Leader)
      BY <1>5 DEF NameStep, SelfMoves
    <2>3. v.term <= currentTerm[n] /\ (role[n] # Leader => v.term < currentTerm[n])
      BY <2>1, <2>2 DEF NamesInv, WinsReached, DeposedKnows
    <2> QED
      BY <1>6, <2>2, <2>3
  <1> QED
    BY <1>3, <1>5, <1>7, <1>8, <1>9 DEF NamesInv

\* What a node knows of the leadership it does not forget.
LEMMA KnowsKept ==
    ASSUME TypeOK, TypeOK', NameStep, VotesKept, NEW n \in Node, NEW k \in Nat, Knows(n, k)
    PROVE  Knows(n, k)'
  <1>1. NamedIsNewest
    BY NamedFacts
  <1>2. NamedIsNewest'
    BY NamedFacts, PTL
  <1>3. /\ currentTerm[n] \in Nat /\ currentTerm'[n] \in Nat
        /\ currentTerm[n] <= currentTerm'[n] /\ k <= currentTerm[n]
        /\ leaders \subseteq leaders'
        /\ Named(n) \in Nat /\ Named(n)' \in Nat
    <2>1. Named(n) \in Nat
      BY <1>1 DEF NamedIsNewest
    <2>2. Named(n)' \in Nat
      BY <1>2 DEF NamedIsNewest
    <2> QED
      BY <2>1, <2>2 DEF TypeOK, VotesKept, Knows, NameStep, WinsMove
  <1>4. ASSUME leaderID'[n] # None
        PROVE  Named(n)' >= k
    <2>1. CASE [node |-> leaderID'[n], term |-> currentTerm'[n]] \in leaders'
      <3> DEFINE e == [node |-> leaderID'[n], term |-> currentTerm'[n]]
      <3>1. e.node = leaderID'[n] /\ e.term = currentTerm'[n] /\ e.term <= currentTerm'[n]
        BY <1>3
      <3>2. e.term <= Named(n)'
        BY <1>2, <2>1, <3>1 DEF NamedIsNewest
      <3> QED
        BY <1>3, <3>1, <3>2
    <2>2. CASE [node |-> leaderID'[n], term |-> currentTerm'[n]] \notin leaders'
      <3>1. leaderID'[n] = leaderID[n] /\ Named(n) >= k
        BY <1>4, <2>2 DEF NameStep, NameMoves, Knows
      <3>2. CASE Named(n) = 0
        BY <1>3, <3>1, <3>2
      <3>3. CASE Named(n) # 0
        <4>1. /\ [node |-> leaderID'[n], term |-> Named(n)] \in leaders'
              /\ Named(n) <= currentTerm[n]
          BY <1>1, <1>3, <3>1, <3>3 DEF NamedIsNewest
        <4>2. Named(n) <= currentTerm'[n]
          BY <1>3, <4>1
        <4>3. Named(n) <= Named(n)'
          BY <1>2, <4>1, <4>2 DEF NamedIsNewest
        <4> QED
          BY <1>3, <3>1, <4>3
      <3> QED
        BY <3>2, <3>3
    <2> QED
      BY <2>1, <2>2
  <1> QED
    BY <1>3, <1>4 DEF Knows

\* The node that n names as leader knows of a leadership no older than n does,
\* and of a newer one unless it names itself.
LEMMA NamedKnowsMore ==
    ASSUME SafetyInv, NamesInv, NEW n \in Node, NEW l \in Node, leaderID[n] = l
    PROVE  /\ Knows(l, Named(n))
           /\ leaderID[l] # None /\ leaderID[l] # l => Named(l) > Named(n)
  <1>0. TypeOK /\ NamedIsNewest /\ ElectionSafety
    BY NamedFacts DEF SafetyInv, TypeInv
  <1>1. /\ currentTerm[l] \in Nat /\ Named(n) \in Nat /\ Named(l) \in Nat
        /\ \A v \in leaders : v.term \in Nat /\ v.term > 0
    <2>1. Named(n) \in Nat /\ Named(l) \in Nat
      BY <1>0 DEF NamedIsNewest
    <2> QED
      BY <1>0, <2>1 DEF TypeOK, Victory
  <1>2. Named(n) # 0 => [node |-> l, term |-> Named(n)] \in leaders
    BY <1>0 DEF NamedIsNewest
  <1>3. currentTerm[l] >= Named(n)
    BY <1>1, <1>2 DEF NamesInv, WinsReached
  <1>4. ASSUME leaderID[l] # None
        PROVE  Named(l) >= Named(n) /\ (leaderID[l] # l => Named(l) > Named(n))
    <2>1. PICK v \in leaders : /\ v.node = leaderID[l]
                               /\ v.term <= currentTerm[l]
                               /\ \A w \in leaders : w.node = l => w.term <= v.term
      BY <1>4 DEF NamesInv, NamesWinner
    <2>2. v.term <= Named(l) /\ v.term \in Nat /\ v.term > 0
      BY <1>0, <1>1, <2>1 DEF NamedIsNewest
    <2>3. CASE Named(n) = 0
      BY <1>1, <2>2, <2>3
    <2>4. CASE Named(n) # 0
      <3>1. Named(n) <= v.term
        BY <1>2, <2>1, <2>4
      <3>2. ASSUME leaderID[l] # l PROVE Named(n) # v.term
        BY <1>0, <1>2, <2>1, <2>4, <3>2 DEF ElectionSafety
      <3> QED
        BY <1>1, <2>2, <3>1, <3>2
    <2> QED
      BY <2>3, <2>4
  <1> QED
    BY <1>3, <1>4 DEF Knows

-----------------------------------------------------------------------------
\* A step of the request is a step of the election or leaves it alone.
LEMMA RequestStepElects ==
    ASSUME RequestFits, [RoutingNext]_routingVars
    PROVE  [Next]_electionVars
  <1>1. CASE ServeWrite
    <2>1. req.at \in Node /\ LeaderAppend(req.at)
      BY <1>1 DEF RequestFits, ServeWrite, Open
    <2> QED
      BY <2>1 DEF Next, Environment
  <1>2. CASE RequestStep /\ ~ServeWrite
    BY <1>2 DEF RequestStep, ClientCalls, HandlerChecks, Forward, GiveUp, ServeRead, NotServed
  <1> QED
    BY <1>1, <1>2 DEF RoutingNext, routingVars

\* What a request still under way says of the node it is at.
LEMMA OpenRequest ==
    ASSUME RequestFits, req.phase \in Open
    PROVE  /\ req.at \in Node /\ req.knows \in Term /\ req.knows \in Nat
           /\ Knows(req.at, req.knows)
  BY BoundAssumption DEF RequestFits, Request

\* A request that stays where it is keeps its fit.
LEMMA RequestStays ==
    ASSUME TypeOK, TypeOK', NameStep, VotesKept, RequestFits, req' \in Request,
           req.phase \in Open,
           req'.at = req.at, req'.knows = req.knows, req'.phase # "served"
    PROVE  RequestFits'
  <1>1. req.at \in Node /\ req.knows \in Nat /\ Knows(req.at, req.knows)
    BY OpenRequest
  <1>2. \A n \in Node, k \in Nat : Knows(n, k) => Knows(n, k)'
    BY KnowsKept
  <1>3. \A n \in Node, k \in Term : req'.at = n /\ req'.knows = k => Knows(n, k)'
    BY <1>1, <1>2
  <1>4. req'.at \in Node
    BY <1>1
  <1> QED
    BY <1>3, <1>4 DEF RequestFits

\* A request that is forwarded arrives where more is known.
LEMMA ForwardFits ==
    ASSUME SafetyInv, NamesInv, RequestFits, TypeOK', NameStep, VotesKept, Forward
    PROVE  RequestFits'
  <1> DEFINE a == req.at
             l == leaderID[req.at]
  <1>0. TypeOK /\ NamedIsNewest
    BY NamedFacts DEF SafetyInv, TypeInv
  <1>1. a \in Node /\ req.knows \in Nat /\ Knows(a, req.knows)
    BY OpenRequest DEF Forward, Open
  <1>2. /\ l \in Node /\ l # None
        /\ req' = [req EXCEPT !.phase = "arrived", !.at = l,
                              !.knows = Max({req.knows, Named(a)})]
    BY DEF Forward, ForwardTo
  <1>3. Named(a) \in Nat /\ req.knows <= Named(a) /\ Named(a) \in Term
    <2>1. Named(a) \in Nat /\ (Named(a) = 0 \/ Named(a) <= currentTerm[a])
      BY <1>0, <1>1 DEF NamedIsNewest
    <2>2. req.knows <= Named(a)
      BY <1>1, <1>2 DEF Knows
    <2>3. currentTerm[a] \in Term
      BY <1>0, <1>1 DEF TypeOK
    <2> QED
      BY <2>1, <2>2, <2>3, BoundAssumption
  <1>4. Max({req.knows, Named(a)}) = Named(a)
    <2> DEFINE M == {req.knows, Named(a)}
    <2>1. M \in SUBSET (0..Named(a)) /\ M # {} /\ Named(a) \in M
      BY <1>1, <1>3
    <2>2. Max(M) \in M /\ \A x \in M : x <= Max(M)
      BY <1>3, <2>1, MaxOfBounded
    <2>3. Max(M) \in 0..Named(a) /\ Named(a) <= Max(M)
      BY <2>1, <2>2
    <2> QED
      BY <1>3, <2>3
  <1>5. Knows(l, Named(a))
    BY <1>1, <1>2, NamedKnowsMore
  <1> HIDE DEF a, l
  <1>6. req' = [req EXCEPT !.phase = "arrived", !.at = l, !.knows = Named(a)]
    BY <1>2, <1>4
  <1>7. req' \in Request /\ req'.at = l /\ req'.knows = Named(a) /\ req'.phase = "arrived"
    BY <1>2, <1>3, <1>6 DEF RequestFits, Request
  <1>8. \A n \in Node, k \in Nat : Knows(n, k) => Knows(n, k)'
    BY <1>0, KnowsKept
  <1>9. \A n \in Node, k \in Term : req'.at = n /\ req'.knows = k => Knows(n, k)'
    BY <1>2, <1>3, <1>5, <1>7, <1>8
  <1> QED
    BY <1>2, <1>7, <1>9 DEF RequestFits

LEMMA NextRequest ==
    ASSUME RoutingInv, TypeOK', NameStep, VotesKept, [RoutingNext]_routingVars
    PROVE  RequestFits'
  <1>0. /\ TypeOK /\ RequestFits /\ req \in Request
        /\ \A n \in Node : currentTerm[n] \in Term
    BY DEF RoutingInv, SafetyInv, TypeInv, RequestFits, TypeOK
  <1>1. CASE UNCHANGED req
    <2>1. CASE req.phase \in Open
      <3>1. req.phase # "served"
        BY <2>1 DEF Open
      <3> QED
        BY <1>0, <1>1, <2>1, <3>1, RequestStays
    <2>2. CASE req.phase \notin Open
      BY <1>0, <1>1, <2>2 DEF RequestFits
    <2> QED
      BY <2>1, <2>2
  <1>2. ASSUME NEW n \in Node, ClientCalls(n)
        PROVE  RequestFits'
    <2>1. req' = [NoRequest EXCEPT !.phase = "arrived", !.at = n]
      BY <1>2 DEF ClientCalls
    <2>2. /\ req' \in Request /\ req'.at = n /\ req'.knows = 0 /\ req'.phase = "arrived"
      <3>1. req' = [phase |-> "arrived", at |-> n, knows |-> 0, term |-> 0]
        BY <2>1 DEF NoRequest
      <3>2. 0 \in Term
        BY BoundAssumption
      <3> QED
        BY <3>1, <3>2 DEF Request
    <2>3. NamedIsNewest'
      BY NamedFacts, PTL
    <2>4. currentTerm'[n] \in Nat /\ Named(n)' \in Nat
      <3>1. Named(n)' \in Nat
        BY <2>3 DEF NamedIsNewest
      <3> QED
        BY <3>1 DEF TypeOK
    <2>5. Knows(n, 0)'
      BY <2>4 DEF Knows
    <2>6. \A p \in Node, k \in Term : req'.at = p /\ req'.knows = k => Knows(p, k)'
      BY <2>2, <2>5
    <2> QED
      BY <2>2, <2>6 DEF RequestFits
  <1>3. CASE HandlerChecks \/ NotServed
    <2>1. PICK h \in {"submitting", "forwarding"} : req' = [req EXCEPT !.phase = h]
      BY <1>3 DEF HandlerChecks, NotServed
    <2>2. /\ req' \in Request /\ req'.at = req.at /\ req'.knows = req.knows
          /\ req'.phase # "served"
      BY <1>0, <2>1 DEF Request
    <2>3. req.phase \in Open
      BY <1>3 DEF HandlerChecks, NotServed, Open
    <2> QED
      BY <1>0, <2>2, <2>3, RequestStays
  <1>4. CASE Forward
    BY <1>0, <1>4, ForwardFits DEF RoutingInv
  <1>5. CASE GiveUp
    BY <1>5, BoundAssumption DEF GiveUp, NoRequest, Request, RequestFits, Open
  <1>6. CASE ServeWrite \/ ServeRead
    <2>1. /\ req' = [req EXCEPT !.phase = "served", !.term = currentTerm[req.at]]
          /\ req.phase \in Open
      BY <1>6 DEF ServeWrite, ServeRead, Open
    <2>2. req.at \in Node /\ req.knows <= currentTerm[req.at]
      BY <1>0, <2>1, OpenRequest DEF Knows
    <2> QED
      BY <1>0, <2>1, <2>2 DEF RequestFits, Request, Open
  <1> QED
    BY <1>1, <1>2, <1>3, <1>4, <1>5, <1>6 DEF RoutingNext, RequestStep, routingVars

LEMMA RoutingInvInit == RoutingInit => RoutingInv
  <1> SUFFICES ASSUME RoutingInit PROVE RoutingInv
    OBVIOUS
  <1>1. SafetyInv
    BY SafetyInit DEF RoutingInit
  <1>2. NamesInv
    BY DEF RoutingInit, Init, NamesInv, WinsReached, NamesWinner, DeposedKnows
  <1>3. RequestFits
    BY BoundAssumption DEF RoutingInit, NoRequest, Request, RequestFits, Open
  <1> QED
    BY <1>1, <1>2, <1>3 DEF RoutingInv

LEMMA RoutingInvariant ==
    ASSUME ~StorageMayFail
    PROVE  RoutingSpec => []RoutingInv
  <1>1. RoutingInv /\ [RoutingNext]_routingVars => RoutingInv'
    <2> SUFFICES ASSUME RoutingInv, [RoutingNext]_routingVars PROVE RoutingInv'
      OBVIOUS
    <2>1. [Next]_electionVars
      BY RequestStepElects DEF RoutingInv
    <2>2. SafetyInv' /\ NamesInv' /\ NameStep /\ VotesKept
      BY <2>1, NamesStep DEF RoutingInv
    <2>3. TypeOK'
      BY <2>2 DEF SafetyInv, TypeInv
    <2>4. RequestFits'
      BY <2>2, <2>3, NextRequest
    <2> QED
      BY <2>2, <2>4 DEF RoutingInv
  <1> QED
    BY <1>1, RoutingInvInit, PTL DEF RoutingSpec

-----------------------------------------------------------------------------
(***************************************************************************)
(* The theorems.                                                           *)
(***************************************************************************)

\* Requests are not passed round in circles: following leader ids from node to
\* node, the leadership behind them is newer at every hop, so no set of nodes
\* name only one another; and a node that names itself leads or knows of a term
\* newer than any it has won.
THEOREM RequestsDoNotCircle ==
    ASSUME ~StorageMayFail
    PROVE  RoutingSpec => []NoForwardingCycle
  <1>1. RoutingInv => NoForwardingCycle
    <2> SUFFICES ASSUME RoutingInv PROVE NoForwardingCycle
      OBVIOUS
    <2>0. /\ SafetyInv /\ NamesInv /\ TypeOK /\ NamedIsNewest
          /\ \A n \in Node : currentTerm[n] \in Term
      BY NamedFacts DEF RoutingInv, SafetyInv, TypeInv, TypeOK
    <2>1. ASSUME NEW S \in SUBSET Node, \A n \in S : leaderID[n] \in S \ {n}, S # {}
          PROVE  FALSE
      <3> DEFINE T == {Named(n) : n \in S}
      <3>1. \A n \in S : Named(n) \in 0..MaxTerm
        <4> SUFFICES ASSUME NEW n \in S PROVE Named(n) \in 0..MaxTerm
          OBVIOUS
        <4>1. Named(n) \in Nat /\ (Named(n) = 0 \/ Named(n) <= currentTerm[n])
          BY <2>0 DEF NamedIsNewest
        <4>2. currentTerm[n] \in 0..MaxTerm
          BY <2>0
        <4> QED
          BY <4>1, <4>2, BoundAssumption
      <3>2. T \in SUBSET (0..MaxTerm) /\ T # {} /\ MaxTerm \in Nat
        BY <2>1, <3>1, BoundAssumption
      <3> HIDE DEF T
      <3>3. Max(T) \in T /\ \A x \in T : x <= Max(T)
        BY <3>2, MaxOfBounded
      <3>4. PICK n \in S : \A p \in S : Named(p) <= Named(n)
        BY <3>3 DEF T
      <3>5. PICK l \in S : leaderID[n] = l
        BY <2>1
      <3>6. leaderID[l] \in Node /\ leaderID[l] # l /\ leaderID[l] # None
        BY <2>1, NodeAssumption
      <3>7. Named(l) > Named(n)
        BY <2>0, <3>5, <3>6, NamedKnowsMore
      <3>8. Named(l) <= Named(n) /\ Named(l) \in Nat /\ Named(n) \in Nat
        BY <2>0, <3>4 DEF NamedIsNewest
      <3> QED
        BY <3>7, <3>8
    <2>2. ASSUME NEW n \in Node, leaderID[n] = n, role[n] # Leader
          PROVE  Named(n) < currentTerm[n]
      <3>1. \A v \in leaders : v.node = n => v.term < currentTerm[n]
        BY <2>0, <2>2 DEF NamesInv, DeposedKnows
      <3>2. PICK v \in leaders : v.node = n
        BY <2>0, <2>2, NodeAssumption DEF NamesInv, NamesWinner
      <3>3. v.term \in Nat /\ currentTerm[n] \in Nat /\ Named(n) \in Nat
        <4>1. Named(n) \in Nat
          BY <2>0 DEF NamedIsNewest
        <4> QED
          BY <2>0, <4>1 DEF TypeOK, Victory
      <3>4. Named(n) # 0 => Named(n) < currentTerm[n]
        BY <2>0, <2>2, <3>1 DEF NamedIsNewest
      <3> QED
        BY <3>1, <3>2, <3>3, <3>4
    <2> QED
      BY <2>1, <2>2 DEF NoForwardingCycle
  <1> QED
    BY <1>1, RoutingInvariant, PTL

\* A request never travels back in time: a node it was forwarded to names a
\* leadership no older than any node that forwarded it did, and so does the
\* leader that serves it.
THEOREM RequestsMoveForward ==
    ASSUME ~StorageMayFail
    PROVE  RoutingSpec => []NeverBackwards
  <1>1. RoutingInv => NeverBackwards
    <2> SUFFICES ASSUME RoutingInv PROVE NeverBackwards
      OBVIOUS
    <2>1. RequestFits
      BY DEF RoutingInv
    <2>2. req.phase = "arrived" => Knows(req.at, req.knows)
      BY <2>1, OpenRequest DEF Open
    <2> QED
      BY <2>1, <2>2 DEF NeverBackwards, RequestFits, Knows
  <1> QED
    BY <1>1, RoutingInvariant, PTL

=============================================================================
