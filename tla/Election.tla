------------------------------ MODULE Election ------------------------------
(***************************************************************************)
(* Leader election of a jamraft node (internal/raft/election.go and the    *)
(* hard-state part of internal/raft/node.go): election timeouts, the       *)
(* pre-vote round, the real vote, stepping down, and recovery of the term  *)
(* and the vote from stable storage.                                       *)
(*                                                                         *)
(* The log is abstracted to the position of its last entry (lastPos); the  *)
(* module Raft supplies the real log and is shown to refine this module.   *)
(* Time is abstracted: an election deadline may pass at any moment, and    *)
(* heard[n] says that n's lastLeaderContact is less than                   *)
(* ElectionTimeoutMin ago.                                                 *)
(***************************************************************************)
EXTENDS Integers, FiniteSets

CONSTANTS
    Node,            \* the cluster: Config.Peers, this node included
    None,            \* the empty string of votedFor and leaderID
    MaxTerm,         \* bound: no node campaigns beyond this term
    MaxIndex,        \* bound: no log grows beyond this index
    MaxRounds,       \* bound: overlapping pre-vote rounds of one node
    MaxVoteMsgs,     \* bound: real RequestVote messages in flight at once
    DisablePreVote,  \* Config.DisablePreVote
    StorageMayFail   \* SaveHardState may return an error (logged, ignored)

ASSUME NodeAssumption == IsFiniteSet(Node) /\ Node # {} /\ None \notin Node
ASSUME BoundAssumption ==
    /\ MaxTerm \in Nat
    /\ MaxIndex \in Nat
    /\ MaxRounds \in Nat
    /\ MaxVoteMsgs \in Nat
ASSUME FlagAssumption == DisablePreVote \in BOOLEAN /\ StorageMayFail \in BOOLEAN

VARIABLES
    currentTerm,  \* per node
    votedFor,     \* per node: whom it voted for in currentTerm
    hardState,    \* per node: the term and the vote on stable storage
    role,         \* per node
    leaderID,     \* per node: whom it believes to be the leader
    heard,        \* per node: heard from a leader within ElectionTimeoutMin
    lastPos,      \* per node: index and term of the last log entry
    preVotes,     \* per node: pre-vote rounds under way for currentTerm
    votes,        \* per node: who granted the real vote of currentTerm
    voteMsgs,     \* real RequestVote requests and replies in flight
    leaders       \* history: every election won

electionVars == <<currentTerm, votedFor, hardState, role, leaderID, heard,
                  lastPos, preVotes, votes, voteMsgs, leaders>>

-----------------------------------------------------------------------------
Follower  == "follower"
Candidate == "candidate"
Leader    == "leader"

Term == 0..MaxTerm
\* The sentinel of an empty log is index 0, term 0; entries have both above 0.
Pos  == {p \in [term : Term, index : 0..MaxIndex] : p.term = 0 <=> p.index = 0}

HardState == [term : Term, votedFor : Node \cup {None}]

\* A pre-vote round: the log position it claims and the nodes that said yes.
Round == [pos : Pos, granted : SUBSET Node]

\* live: the goroutine that sent the request still exists to take the reply.
VoteRequest == [type : {"request"}, from : Node, to : Node, term : 1..MaxTerm,
                pos : Pos, live : BOOLEAN]
\* forTerm: the term of the request, known to the waiting goroutine.
VoteReply   == [type : {"reply"}, from : Node, to : Node, term : 1..MaxTerm,
                forTerm : 1..MaxTerm, granted : BOOLEAN]
VoteMsg     == VoteRequest \cup VoteReply

Victory == [node : Node, term : 1..MaxTerm]

\* n.quorum = len(Peers)/2 + 1
Quorum == Cardinality(Node) \div 2 + 1

Bug_MinorityWins(S) == Cardinality(S) >= Cardinality(Node) \div 2
IsQuorum(S) == Cardinality(S) >= Quorum

\* candidateUpToDate: higher last term wins; on a tie, the longer log.
UpToDate(claim, mine) ==
    IF claim.term # mine.term THEN claim.term > mine.term
                              ELSE claim.index >= mine.index

-----------------------------------------------------------------------------
Init ==
    /\ currentTerm = [n \in Node |-> 0]
    /\ votedFor    = [n \in Node |-> None]
    /\ hardState   = [n \in Node |-> [term |-> 0, votedFor |-> None]]
    /\ role        = [n \in Node |-> Follower]
    /\ leaderID    = [n \in Node |-> None]
    /\ heard       = [n \in Node |-> FALSE]
    /\ lastPos     = [n \in Node |-> [term |-> 0, index |-> 0]]
    /\ preVotes    = [n \in Node |-> {}]
    /\ votes       = [n \in Node |-> {}]
    /\ voteMsgs    = {}
    /\ leaders     = {}

(***************************************************************************)
(* persistHardState: an error is logged and the node carries on, so a      *)
(* failing store leaves the old record behind the new in-memory state, or  *)
(* what an earlier write of the same handler stored.                       *)
(***************************************************************************)
Bug_SkipPersist(n, t, v, earlier) == UNCHANGED hardState
persistHardState(n, t, v, earlier) ==
    \E hs \in {[term |-> t, votedFor |-> v]} \cup
              (IF StorageMayFail THEN {hardState[n]} \cup earlier ELSE {}) :
        hardState' = [hardState EXCEPT ![n] = hs]

\* stepDown(term) on its newer-term path: adopt the term, forget the vote,
\* persist both, become follower. leaderID keeps its old value.
stepDown(n, t) ==
    /\ currentTerm' = [currentTerm EXCEPT ![n] = t]
    /\ votedFor'    = [votedFor EXCEPT ![n] = None]
    /\ persistHardState(n, t, None, {})
    /\ role'        = [role EXCEPT ![n] = Follower]
    /\ preVotes'    = [preVotes EXCEPT ![n] = {}]
    /\ votes'       = [votes EXCEPT ![n] = {}]

\* becomeLeaderLocked, seen from the election: the role, the leader id and the
\* no-op that moves the last log position into the new term.
Bug_NoopWithoutTerm(n, t) ==
    /\ lastPos[n].index < MaxIndex
    /\ role'     = [role EXCEPT ![n] = Leader]
    /\ leaderID' = [leaderID EXCEPT ![n] = n]
    /\ lastPos'  = [lastPos EXCEPT ![n].index = @ + 1]
    /\ leaders'  = leaders \cup {[node |-> n, term |-> t]}
becomeLeader(n, t) ==
    /\ lastPos[n].index < MaxIndex
    /\ role'     = [role EXCEPT ![n] = Leader]
    /\ leaderID' = [leaderID EXCEPT ![n] = n]
    /\ lastPos'  = [lastPos EXCEPT ![n] = [term |-> t, index |-> @.index + 1]]
    /\ leaders'  = leaders \cup {[node |-> n, term |-> t]}

-----------------------------------------------------------------------------
(***************************************************************************)
(* Campaigns.                                                              *)
(***************************************************************************)

\* How many older messages may stay in flight beside a new election's requests.
Room == MaxVoteMsgs - (Cardinality(Node) - 1)

\* startRealElectionLocked: bump the term, vote for self, persist, ask.
\* pos is the log position captured when the campaign began. Any message may
\* be lost (canDeliver, the RPC deadline): a message that is never handled is
\* lost, and messages past the bound are dropped to make room.
startRealElection(n, pos) ==
    LET t == currentTerm[n] + 1 IN
    /\ t <= MaxTerm
    /\ currentTerm' = [currentTerm EXCEPT ![n] = t]
    /\ votedFor'    = [votedFor EXCEPT ![n] = n]
    /\ persistHardState(n, t, n, {})
    /\ preVotes'    = [preVotes EXCEPT ![n] = {}]
    /\ votes'       = [votes EXCEPT ![n] = {n}]
    /\ IF IsQuorum({n})
       THEN becomeLeader(n, t)
       ELSE /\ role'     = [role EXCEPT ![n] = Candidate]
            /\ leaderID' = [leaderID EXCEPT ![n] = None]
            /\ UNCHANGED <<lastPos, leaders>>
    /\ \E kept \in SUBSET voteMsgs :
          /\ kept = voteMsgs \/ Cardinality(kept) = Room
          /\ Cardinality(kept) <= Room
          /\ voteMsgs' = kept \cup
               {[type |-> "request", from |-> n, to |-> p, term |-> t,
                 pos |-> pos, live |-> TRUE] : p \in Node \ {n}}
    /\ UNCHANGED heard

\* electionLoop finds the deadline passed. Every leader contact moves the
\* deadline at least ElectionTimeoutMin ahead, hence ~heard[n].
ElectionTimeout(n) == role[n] # Leader /\ ~heard[n]

\* beginCampaignLocked with pre-vote: a round that does not touch the term. A
\* round that is never won has failed; rounds past the bound are dropped.
BeginPreVote(n) ==
    /\ ~DisablePreVote
    /\ ElectionTimeout(n)
    /\ role'     = [role EXCEPT ![n] = Candidate]
    /\ leaderID' = [leaderID EXCEPT ![n] = None]
    /\ \E kept \in SUBSET preVotes[n] :
          /\ Cardinality(kept) < MaxRounds
          /\ preVotes' = [preVotes EXCEPT ![n] =
               kept \cup {[pos |-> lastPos[n], granted |-> {n}]}]
    /\ UNCHANGED <<currentTerm, votedFor, hardState, heard, lastPos, votes,
                   voteMsgs, leaders>>

\* beginCampaignLocked with pre-vote disabled.
BeginElection(n) ==
    /\ DisablePreVote
    /\ ElectionTimeout(n)
    /\ startRealElection(n, lastPos[n])

\* What the pre-vote branch of RequestVote answers at p for the round r of n.
WouldGrant(n, r, p) ==
    /\ currentTerm[n] + 1 >= currentTerm[p]
    /\ UpToDate(r.pos, lastPos[p])
    /\ ~heard[p]

\* Peer p answers yes. The handler changes nothing at p and the reply only
\* adds to a counter of the round, so request and reply are one step. Yes
\* answers past the quorum change nothing.
PreVoteGranted(n, r, p) ==
    /\ p \notin r.granted
    /\ ~IsQuorum(r.granted)
    /\ WouldGrant(n, r, p)
    /\ preVotes' = [preVotes EXCEPT ![n] =
                      (@ \ {r}) \cup {[r EXCEPT !.granted = @ \cup {p}]}]
    /\ UNCHANGED <<currentTerm, votedFor, hardState, role, leaderID, heard,
                   lastPos, votes, voteMsgs, leaders>>

\* campaign after a won round: still Candidate, still in the base term (a term
\* change discards the node's rounds). Otherwise campaign returns.
CampaignWon(n, r) ==
    /\ IsQuorum(r.granted)
    /\ role[n] = Candidate
    /\ startRealElection(n, r.pos)

-----------------------------------------------------------------------------
(***************************************************************************)
(* The real vote.                                                          *)
(***************************************************************************)

\* Whom p counts as voted for when it looks at a request of term t: a newer
\* term has just been adopted by stepDown, which forgets the vote.
VoteIn(p, t) == IF t > currentTerm[p] THEN None ELSE votedFor[p]

\* The condition under which RequestVote grants a real vote.
Bug_GrantsTwice(m) ==
    /\ m.term >= currentTerm[m.to]
    /\ UpToDate(m.pos, lastPos[m.to])
Grants(m) ==
    /\ m.term >= currentTerm[m.to]
    /\ VoteIn(m.to, m.term) \in {None, m.from}
    /\ UpToDate(m.pos, lastPos[m.to])

\* The reply to a caller that still exists. A refusal in the request's own term
\* is left out: gatherVotes ignores it in every state the caller can be in.
VoteReplyTo(m, t, granted) ==
    IF m.live /\ (granted \/ t > m.term)
    THEN {[type |-> "reply", from |-> m.to, to |-> m.from, term |-> t,
           forTerm |-> m.term, granted |-> granted]}
    ELSE {}

\* RequestVote at m.to, real vote.
HandleRequestVote(m) ==
    LET p     == m.to
        newer == m.term > currentTerm[p]
        t     == IF newer THEN m.term ELSE currentTerm[p]
        v     == IF Grants(m) THEN m.from ELSE VoteIn(p, m.term)
    IN
    /\ m.type = "request"
    /\ currentTerm' = [currentTerm EXCEPT ![p] = t]
    /\ votedFor'    = [votedFor EXCEPT ![p] = v]
    /\ IF newer \/ Grants(m)
       THEN persistHardState(p, t, v,
              IF newer THEN {[term |-> t, votedFor |-> None]} ELSE {})
       ELSE UNCHANGED hardState
    /\ role'     = [role EXCEPT ![p] = IF newer THEN Follower ELSE @]
    /\ preVotes' = [preVotes EXCEPT ![p] = IF newer THEN {} ELSE @]
    /\ votes'    = [votes EXCEPT ![p] = IF newer THEN {} ELSE @]
    /\ voteMsgs' = (voteMsgs \ {m}) \cup VoteReplyTo(m, t, Grants(m))
    /\ UNCHANGED <<leaderID, heard, lastPos, leaders>>

\* gatherVotes takes a reply of a newer term: step down.
VoteReplyNewer(m) ==
    /\ m.type = "reply"
    /\ m.term > currentTerm[m.to]
    /\ stepDown(m.to, m.term)
    /\ voteMsgs' = voteMsgs \ {m}
    /\ UNCHANGED <<leaderID, heard, lastPos, leaders>>

\* gatherVotes: the reply is still wanted.
Bug_CountsStaleReply(m) == role[m.to] = Candidate
ReplyCurrent(m) == role[m.to] = Candidate /\ currentTerm[m.to] = m.forTerm

\* gatherVotes takes a granted vote; the vote that completes the quorum makes
\* the node leader in the same critical section.
VoteCounted(m) ==
    LET n       == m.to
        granted == votes[n] \cup {m.from}
    IN
    /\ m.type = "reply"
    /\ m.term <= currentTerm[n]
    /\ ReplyCurrent(m)
    /\ m.granted
    /\ votes' = [votes EXCEPT ![n] = granted]
    /\ IF IsQuorum(granted)
       THEN becomeLeader(n, currentTerm[n])
       ELSE UNCHANGED <<role, leaderID, lastPos, leaders>>
    /\ voteMsgs' = voteMsgs \ {m}
    /\ UNCHANGED <<currentTerm, votedFor, hardState, heard, preVotes>>

\* gatherVotes ignores a reply that is no longer wanted.
VoteReplyIgnored(m) ==
    /\ m.type = "reply"
    /\ m.term <= currentTerm[m.to]
    /\ ~(ReplyCurrent(m) /\ m.granted)
    /\ voteMsgs' = voteMsgs \ {m}
    /\ UNCHANGED <<currentTerm, votedFor, hardState, role, leaderID, heard,
                   lastPos, preVotes, votes, leaders>>

-----------------------------------------------------------------------------
(***************************************************************************)
(* What the rest of the node does to the election state.                   *)
(***************************************************************************)

\* The common head of AppendEntries and InstallSnapshot for a request of the
\* leader l of term t that is not stale.
Bug_FollowsStaleLeader(n, l, t) ==
    /\ l # n
    /\ [node |-> l, term |-> t] \in leaders
    /\ IF t > currentTerm[n]
       THEN stepDown(n, t)
       ELSE /\ role' = [role EXCEPT ![n] = Follower]
            /\ UNCHANGED <<currentTerm, votedFor, hardState, preVotes, votes>>
    /\ leaderID' = [leaderID EXCEPT ![n] = l]
    /\ heard'    = [heard EXCEPT ![n] = ~DisablePreVote]
    /\ UNCHANGED <<voteMsgs, leaders>>
FollowLeader(n, l, t) ==
    /\ t >= currentTerm[n]
    /\ l # n
    /\ [node |-> l, term |-> t] \in leaders
    /\ IF t > currentTerm[n]
       THEN stepDown(n, t)
       ELSE /\ role' = [role EXCEPT ![n] = Follower]
            /\ UNCHANGED <<currentTerm, votedFor, hardState, preVotes, votes>>
    /\ leaderID' = [leaderID EXCEPT ![n] = l]
    /\ heard'    = [heard EXCEPT ![n] = ~DisablePreVote]
    /\ UNCHANGED <<voteMsgs, leaders>>

\* What the rest of the handler does to the log: it is left alone or ends with
\* an entry of term t or an earlier one afterwards.
LeaderContact(n, l, t) ==
    /\ FollowLeader(n, l, t)
    /\ \E pos \in Pos :
          /\ pos = lastPos[n] \/ pos.term \in 1..t
          /\ lastPos' = [lastPos EXCEPT ![n] = pos]

\* ElectionTimeoutMin passes without leader contact. Only the pre-vote code
\* reads lastLeaderContact, so it is not tracked when pre-vote is disabled.
LeaderSilent(n) ==
    /\ heard[n]
    /\ heard' = [heard EXCEPT ![n] = FALSE]
    /\ UNCHANGED <<currentTerm, votedFor, hardState, role, leaderID, lastPos,
                   preVotes, votes, voteMsgs, leaders>>

\* A reply to some other RPC of n carries a newer term.
LearnTerm(n, t) ==
    /\ t > currentTerm[n]
    /\ \E p \in Node : currentTerm[p] >= t
    /\ stepDown(n, t)
    /\ UNCHANGED <<leaderID, heard, lastPos, voteMsgs, leaders>>

\* Propose and Submit: a leader's log grows by an entry of its term.
LeaderAppend(n) ==
    /\ role[n] = Leader
    /\ lastPos[n].index < MaxIndex
    /\ lastPos' = [lastPos EXCEPT ![n] =
                     [term |-> currentTerm[n], index |-> @.index + 1]]
    /\ UNCHANGED <<currentTerm, votedFor, hardState, role, leaderID, heard,
                   preVotes, votes, voteMsgs, leaders>>

\* The process dies and comes back: New and loadFromStorage. Its calls are
\* gone; requests already sent may still be handled, nobody takes the reply.
Orphaned(n) ==
    {IF m.type = "request" /\ m.from = n THEN [m EXCEPT !.live = FALSE] ELSE m :
        m \in {x \in voteMsgs : ~(x.type = "reply" /\ x.to = n)}}

Reboot(n) ==
    /\ currentTerm' = [currentTerm EXCEPT ![n] = hardState[n].term]
    /\ votedFor'    = [votedFor EXCEPT ![n] = hardState[n].votedFor]
    /\ role'        = [role EXCEPT ![n] = Follower]
    /\ leaderID'    = [leaderID EXCEPT ![n] = None]
    /\ heard'       = [heard EXCEPT ![n] = FALSE]
    /\ preVotes'    = [preVotes EXCEPT ![n] = {}]
    /\ votes'       = [votes EXCEPT ![n] = {}]
    /\ voteMsgs'    = Orphaned(n)
    /\ UNCHANGED <<hardState, leaders>>

\* Between two handlers: the whole log is on stable storage.
Restart(n) == Reboot(n) /\ UNCHANGED lastPos

\* The process dies inside AppendEntries or InstallSnapshot of the leader l of
\* term t: the term is already persisted; the caller gets no reply.
DieFollowing(n, l, t) ==
    /\ t >= currentTerm[n]
    /\ l # n
    /\ [node |-> l, term |-> t] \in leaders
    /\ IF t > currentTerm[n]
       THEN stepDown(n, t)
       ELSE /\ role'     = [role EXCEPT ![n] = Follower]
            /\ preVotes' = [preVotes EXCEPT ![n] = {}]
            /\ votes'    = [votes EXCEPT ![n] = {}]
            /\ UNCHANGED <<currentTerm, votedFor, hardState>>
    /\ leaderID' = [leaderID EXCEPT ![n] = None]
    /\ heard'    = [heard EXCEPT ![n] = FALSE]
    /\ voteMsgs' = Orphaned(n)
    /\ UNCHANGED leaders

\* The log is left as the crash found it, perhaps half rewritten.
CrashInHandler(n, l, t) ==
    /\ DieFollowing(n, l, t)
    /\ \E pos \in Pos : lastPos' = [lastPos EXCEPT ![n] = pos]

-----------------------------------------------------------------------------
Campaign(n) ==
    \/ BeginPreVote(n)
    \/ BeginElection(n)
    \/ \E r \in preVotes[n] : \/ \E p \in Node : PreVoteGranted(n, r, p)
                              \/ CampaignWon(n, r)

Voting(m) ==
    \/ HandleRequestVote(m)
    \/ VoteReplyNewer(m)
    \/ VoteCounted(m)
    \/ VoteReplyIgnored(m)

Environment(n) ==
    \/ \E l \in Node, t \in Term : LeaderContact(n, l, t)
    \/ \E l \in Node, t \in Term : CrashInHandler(n, l, t)
    \/ LeaderSilent(n)
    \/ \E t \in Term : LearnTerm(n, t)
    \/ LeaderAppend(n)
    \/ Restart(n)

Next ==
    \/ \E n \in Node : Campaign(n) \/ Environment(n)
    \/ \E m \in voteMsgs : Voting(m)

Spec == Init /\ [][Next]_electionVars

-----------------------------------------------------------------------------
(***************************************************************************)
(* Properties.                                                             *)
(***************************************************************************)

\* Every variable has the type the code gives it.
TypeOK ==
    /\ currentTerm \in [Node -> Term]
    /\ votedFor \in [Node -> Node \cup {None}]
    /\ hardState \in [Node -> HardState]
    /\ role \in [Node -> {Follower, Candidate, Leader}]
    /\ leaderID \in [Node -> Node \cup {None}]
    /\ heard \in [Node -> BOOLEAN]
    /\ lastPos \in [Node -> Pos]
    /\ preVotes \in [Node -> SUBSET Round]
    /\ votes \in [Node -> SUBSET Node]
    /\ voteMsgs \subseteq VoteMsg
    /\ leaders \subseteq Victory

\* Election safety: becomeLeaderLocked never runs on two different nodes for
\* the same term, at any two moments of the history, whatever crashes, late
\* replies and overlapping campaigns lie in between.
ElectionSafety ==
    \A a, b \in leaders : a.term = b.term => a.node = b.node

\* The stable storage of v shows that v can no longer vote in term t for
\* anyone but c.
Committed(v, t, c) ==
    \/ hardState[v].term > t
    \/ hardState[v].term = t /\ hardState[v].votedFor = c

\* Persist before you reply (RequestVote, startRealElectionLocked): a vote on
\* its way to a candidate, or counted by a candidate or a leader, is on the
\* voter's stable storage, so a crash cannot make the voter vote again.
VoteDurable ==
    /\ \A m \in voteMsgs : m.type = "reply" /\ m.granted =>
          Committed(m.from, m.forTerm, m.to)
    /\ \A n \in Node : role[n] # Follower => \A v \in votes[n] :
          Committed(v, currentTerm[n], n)

\* A step takes no node back in its term and changes no vote once given.
VotesKept ==
    \A n \in Node :
        /\ currentTerm'[n] >= currentTerm[n]
        /\ (currentTerm'[n] = currentTerm[n] /\ votedFor[n] # None)
              => votedFor'[n] = votedFor[n]

\* Across every step, Restart included, a node's term never goes back and its
\* vote within a term never changes once given (loadFromStorage after
\* persistHardState).
VoteStable == [][VotesKept]_electionVars

\* Leader l is live and a majority, l included, hears it.
Healthy(l) ==
    /\ role[l] = Leader
    /\ IsQuorum({l} \cup {f \in Node : heard[f] /\ currentTerm[f] = currentTerm[l]})

\* Leader stickiness (the pre-vote branch of RequestVote): while a leader is
\* live and heard by a majority, no candidate's pre-vote round reaches its
\* majority.
PreVoteProtectsLeader ==
    [][(\E l \in Node : Healthy(l)) =>
         \A n \in Node : role[n] = Candidate =>
             \A r \in preVotes'[n] \ preVotes[n] : ~IsQuorum(r.granted)]_electionVars

=============================================================================
