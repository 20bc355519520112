-------------------------- MODULE RaftReadsProofs ---------------------------
(***************************************************************************)
(* The theorems on RaftReads. RaftInv does not hold beside a read: its     *)
(* heartbeats carry a commit index that the reader's peers need not hold.  *)
(* What it takes to see that no deposed leader answers is less: terms and  *)
(* votes, which reads leave alone whatever becomes of the logs.            *)
(***************************************************************************)
EXTENDS RaftReads, RaftInvariant

-----------------------------------------------------------------------------
(***************************************************************************)
(* Terms and votes.                                                        *)
(***************************************************************************)

\* Campaigns and votes of Raft are those of Election.
LEMMA CampaignVotes ==
    ASSUME EP!VotesInv, ~StorageMayFail,
           \/ \E n \in Node : \/ BeginPreVote(n) \/ BeginElection(n) \/ LeaderSilent(n)
                              \/ \E r \in preVotes[n] : \/ CampaignWon(n, r)
                                                        \/ \E p \in Node : PreVoteGranted(n, r, p)
           \/ \E m \in voteMsgs : VoteCounted(m) \/ OtherVoting(m)
    PROVE  EP!VoteStep
  <1> USE NodeFinite, NodeAssumption, BoundAssumption, FlagAssumption
  <1> USE DEF E!Follower, EP!Follower, E!Candidate, EP!Candidate, E!Leader, EP!Leader, E!Term, EP!Term
  <1>1. ASSUME NEW n \in Node, NEW pos, E!startRealElection(n, pos) PROVE EP!VoteStep
    <2>1. EP!startRealElection(n, pos)
      BY <1>1 DEF E!startRealElection, EP!startRealElection, E!becomeLeader, EP!becomeLeader,
         E!persistHardState, EP!persistHardState, E!IsQuorum, EP!IsQuorum, E!Quorum, EP!Quorum,
         E!Room, EP!Room, E!Cardinality, EP!Cardinality
    <2> QED
      BY <2>1, EP!RealElectionStep
  <1>2. ASSUME NEW n \in Node, BeginPreVote(n) \/ LeaderSilent(n) PROVE EP!VoteStep
    <2>1. UNCHANGED <<currentTerm, votedFor, hardState, leaders, votes, voteMsgs>>
      BY <1>2 DEF BeginPreVote, LeaderSilent, E!BeginPreVote, E!LeaderSilent
    <2> QED
      BY <2>1, EP!VotesUntouched
  <1>3. ASSUME NEW n \in Node, NEW r \in preVotes[n], NEW p \in Node, PreVoteGranted(n, r, p)
        PROVE  EP!VoteStep
    <2>1. UNCHANGED <<currentTerm, votedFor, hardState, leaders, votes, voteMsgs>>
      BY <1>3 DEF PreVoteGranted, E!PreVoteGranted
    <2> QED
      BY <2>1, EP!VotesUntouched
  <1>4. ASSUME NEW n \in Node, BeginElection(n) PROVE EP!VoteStep
    BY <1>1, <1>4 DEF BeginElection, E!BeginElection
  <1>5. ASSUME NEW n \in Node, NEW r \in preVotes[n], CampaignWon(n, r) PROVE EP!VoteStep
    BY <1>1, <1>5 DEF CampaignWon, E!CampaignWon
  <1>6. ASSUME NEW m \in voteMsgs, VoteCounted(m) PROVE EP!VoteStep
    <2>1. EP!VoteCounted(m)
      BY <1>6, SameQuorum DEF VoteCounted, E!VoteCounted, EP!VoteCounted, E!ReplyCurrent, EP!ReplyCurrent,
         E!becomeLeader, EP!becomeLeader
    <2> QED
      BY <2>1, EP!VoteCountedStep
  <1>7. ASSUME NEW m \in voteMsgs, OtherVoting(m) PROVE EP!VoteStep
    <2>1. E!HandleRequestVote(m) => EP!HandleRequestVote(m)
      BY DEF E!HandleRequestVote, EP!HandleRequestVote, E!Grants, EP!Grants, E!VoteIn, EP!VoteIn,
         E!VoteReplyTo, EP!VoteReplyTo, E!UpToDate, EP!UpToDate, E!persistHardState, EP!persistHardState
    <2>2. E!VoteReplyNewer(m) => EP!VoteReplyNewer(m)
      BY DEF E!VoteReplyNewer, EP!VoteReplyNewer, E!stepDown, EP!stepDown, E!persistHardState, EP!persistHardState
    <2>3. E!VoteReplyIgnored(m) => EP!VoteReplyIgnored(m)
      BY DEF E!VoteReplyIgnored, EP!VoteReplyIgnored, E!ReplyCurrent, EP!ReplyCurrent
    <2> QED
      BY <1>7, <2>1, <2>2, <2>3, EP!HandleRequestVoteStep, EP!VoteReplyNewerStep, EP!VoteReplyIgnoredStep
         DEF OtherVoting
  <1> QED
    BY <1>2, <1>3, <1>4, <1>5, <1>6, <1>7

\* Leader contact, crashes and replies of newer terms are what Election allows.
LEMMA ContactVotes ==
    ASSUME EP!VotesInv, ~StorageMayFail, NEW p \in Node, NEW l, NEW t \in E!Term,
           E!FollowLeader(p, l, t) \/ E!DieFollowing(p, l, t) \/ E!LearnTerm(p, t) \/ E!Reboot(p)
    PROVE  EP!VoteStep
  <1> USE NodeFinite, NodeAssumption, BoundAssumption, FlagAssumption
  <1> USE DEF E!Follower, EP!Follower, E!Term, EP!Term
  <1>1. E!FollowLeader(p, l, t) => EP!FollowLeader(p, l, t)
    BY DEF E!FollowLeader, EP!FollowLeader, E!stepDown, EP!stepDown, E!persistHardState, EP!persistHardState
  <1>2. E!DieFollowing(p, l, t) => EP!DieFollowing(p, l, t)
    BY DEF E!DieFollowing, EP!DieFollowing, E!stepDown, EP!stepDown, E!persistHardState, EP!persistHardState,
       E!Orphaned, EP!Orphaned
  <1>3. E!LearnTerm(p, t) => EP!LearnTerm(p, t)
    BY DEF E!LearnTerm, EP!LearnTerm, E!stepDown, EP!stepDown, E!persistHardState, EP!persistHardState
  <1>4. E!Reboot(p) => EP!Reboot(p)
    BY DEF E!Reboot, EP!Reboot, E!Orphaned, EP!Orphaned
  <1> QED
    BY <1>1, <1>2, <1>3, <1>4, EP!FollowLeaderStep, EP!DieFollowingStep, EP!LearnTermStep, EP!RebootStep

\* The fields that tell calls and replies apart.
IsRequest(m) == m.type \in {"AE", "IS"}
CallFields == {"type", "call", "from", "to", "term", "live", "answered"}

\* x answers the request m.
Answers(x, m) ==
    /\ x.type \in {"AEReply", "ISReply", "TermReply"}
    /\ x.call = m.call /\ x.from = m.to /\ x.to = m.from
    /\ x.term \in E!Term
    /\ x.type = "ISReply" => m.type = "IS"

\* p says yes to a call in x.
Acks(x, p) == x.type = "AEReply" /\ x.success /\ x.from = p

\* A message of a call.
CallTyped(m) ==
    /\ m.to \in Node /\ m.from \in Node /\ m.term \in E!Term
    /\ IsRequest(m) => CallFields \subseteq DOMAIN m /\ \A x \in m.answered : Answers(x, m)

\* A message of the read.
ReadTyped(m) ==
    m.call = "read" => /\ m.type \in {"AE", "AEReply", "TermReply"}
                       /\ m.type = "AE" => m.term = read.term
                       /\ read.phase # "idle"

\* p's yes to the read is under way.
AckUnderWay(p) ==
    \E m \in msgs : /\ m.call = "read"
                    /\ Acks(m, p) \/ (m.type = "AE" /\ \E x \in m.answered : Acks(x, p))

\* A majority that has left the term of the read and says no more to it.
GivenUp(Q) ==
    /\ E!IsQuorum(Q)
    /\ \A p \in Q : currentTerm[p] > read.term /\ p \notin read.acks /\ ~AckUnderWay(p)

\* The invariant of a read: once a newer leader has been elected before it began,
\* some majority has gone over to newer terms for good. Whether that is so of the
\* reader's term is known from the votes.
ReadInv ==
    /\ \A m \in msgs : CallTyped(m) /\ ReadTyped(m)
    /\ DOMAIN read = DOMAIN NoRead
    /\ read.term \in E!Term /\ read.acks \subseteq Node
    /\ read.phase # "idle" => read.node \in Node
    /\ read.phase = "idle" => read = NoRead
    /\ read.phase \in {"started", "confirming"} /\ read.superseded =>
          \E Q \in SUBSET Node : GivenUp(Q)
    /\ read.phase \in {"waiting", "done"} => ~read.superseded

-----------------------------------------------------------------------------
(***************************************************************************)
(* What a step may do to the messages of calls: y was there, is what is    *)
(* left of a request or answers one, or is a new request.                  *)
(***************************************************************************)

\* y is the receiver's answer to m: a success only if m is not of an older term.
Reacts(y, m) ==
    /\ Answers(y, m)
    /\ y.type = "AEReply" /\ y.success => m.term >= currentTerm[m.to]
\* y is m abandoned or answered, or an answer to m.
Follows(y, m) ==
    \/ y = [m EXCEPT !.live = FALSE]
    \/ y \in m.answered
    \/ Reacts(y, m)
    \/ \E x : Reacts(x, m) /\ y = [m EXCEPT !.answered = {x}]
\* y is a request that a call of kind c has just sent.
NewRequest(y, c) ==
    /\ CallTyped(y) /\ IsRequest(y) /\ y.answered = {} /\ y.call = c
    /\ c = "read" => y.type = "AE" /\ y.term = read.term /\ read.phase # "idle"
\* Where a message comes from when calls of kind c send.
Comes(y, c) ==
    \/ y \in msgs
    \/ \E m \in msgs : IsRequest(m) /\ Follows(y, m)
    \/ NewRequest(y, c)
CallsMoved(c) == \A y \in msgs' : Comes(y, c)

\* The answer to a request.
LEMMA AnswerMoves ==
    ASSUME NEW m \in msgs, IsRequest(m), NEW x, Reacts(x, m), Answer(m, x)
    PROVE  \A y \in msgs' : Comes(y, "replicate")
  BY DEF Answer, Comes, Follows

\* A request goes out, the call before it is abandoned.
LEMMA SendMoves ==
    ASSUME NEW n, NEW p, NEW q, NewRequest(q, "replicate"), Send(n, p, q)
    PROVE  CallsMoved("replicate")
  <1>1. \A y \in Abandon(CallUnderWay(n, p)) : Comes(y, "replicate")
    BY DEF Abandon, CallUnderWay, Comes, Follows, IsRequest
  <1>2. \A y \in msgs' : y = q \/ y \in msgs \/ y \in Abandon(CallUnderWay(n, p))
    BY DEF Send, Enqueue
  <1> QED
    BY <1>1, <1>2 DEF CallsMoved, Comes

\* A crash.
LEMMA OrphanedMoves ==
    ASSUME NEW n, NEW S \in SUBSET msgs, msgs' = Orphaned(S, n)
    PROVE  CallsMoved("replicate")
  BY DEF Orphaned, CallsMoved, Comes, Follows, IsRequest

\* What a step of replication does to votes and calls.
Moved == EP!VoteStep /\ CallsMoved("replicate")

\* Handlers of calls.
LEMMA DeliverMoves ==
    ASSUME ReadInv, EP!VotesInv, ~StorageMayFail, NEW m \in msgs, Deliver(m)
    PROVE  Moved
  <1>0. CallTyped(m)
    BY DEF ReadInv
  <1>1. m.to \in Node /\ m.from \in Node /\ m.term \in E!Term
    BY <1>0 DEF CallTyped
  <1>2. currentTerm \in [Node -> E!Term]
    BY DEF EP!VotesInv, EP!VoteTypes, EP!Term, E!Term
  <1>q. ASSUME UNCHANGED electionVars PROVE EP!VoteStep
    BY <1>q, EP!VotesUntouched, NodeFinite, NodeAssumption, BoundAssumption, FlagAssumption DEF electionVars
  <1>3. CASE StaleLeader(m)
    <2> DEFINE x == [type |-> "TermReply", call |-> m.call, from |-> m.to, to |-> m.from,
                     term |-> currentTerm[m.to], forTerm |-> m.term, live |-> TRUE]
    <2>1. IsRequest(m) /\ Answer(m, x)
      BY <1>3 DEF StaleLeader, IsRequest
    <2>2. Reacts(x, m)
      BY <1>1, <1>2 DEF Reacts, Answers, IsRequest
    <2> HIDE DEF x
    <2>3. EP!VoteStep
      BY <1>3, <1>q DEF StaleLeader
    <2> QED
      BY <2>1, <2>2, <2>3, AnswerMoves DEF Moved, CallsMoved
  <1>4. ASSUME NEW x, Reacts(x, m), Answer(m, x), IsRequest(m), E!FollowLeader(m.to, m.from, m.term)
        PROVE  Moved
    <2>1. EP!VoteStep
      BY <1>1, <1>4, ContactVotes
    <2> QED
      BY <1>4, <2>1, AnswerMoves DEF Moved, CallsMoved
  <1>5. CASE RejectAppend(m)
    <2>1. PICK ci, ct : Answer(m, AEReply(m, m.term, FALSE, ci, ct))
      BY <1>5 DEF RejectAppend
    <2>2. Reacts(AEReply(m, m.term, FALSE, ci, ct), m)
      BY <1>1 DEF Reacts, Answers, IsRequest, AEReply
    <2> QED
      BY <1>4, <1>5, <2>1, <2>2 DEF RejectAppend, IsRequest
  <1>6. CASE AcceptAppend(m)
    <2>1. Reacts(AEReply(m, m.term, TRUE, 0, 0), m)
      BY <1>1, <1>6 DEF AcceptAppend, Reacts, Answers, IsRequest, AEReply
    <2> QED
      BY <1>4, <1>6, <2>1 DEF AcceptAppend, IsRequest
  <1>7. CASE SkipSnapshot(m) \/ InstallSnapshot(m)
    <2>1. /\ IsRequest(m) /\ m.type = "IS" /\ E!FollowLeader(m.to, m.from, m.term)
          /\ Answer(m, ISReply(m))
      BY <1>7 DEF SkipSnapshot, InstallSnapshot, IsRequest
    <2>2. Reacts(ISReply(m), m)
      BY <1>1, <2>1 DEF Reacts, Answers, IsRequest, ISReply
    <2> QED
      BY <1>4, <2>1, <2>2
  <1>8. CASE ReplyNewerTerm(m)
    <2>1. E!LearnTerm(m.to, m.term) /\ msgs' = msgs \ {m}
      BY <1>8 DEF ReplyNewerTerm
    <2>2. EP!VoteStep
      BY <1>1, <2>1, ContactVotes
    <2> QED
      BY <2>1, <2>2 DEF Moved, CallsMoved, Comes
  <1>9. CASE ReplyStale(m) \/ AppendAcked(m) \/ SnapshotAcked(m) \/ AppendRejected(m)
    <2>1. UNCHANGED electionVars /\ msgs' = msgs \ {m}
      BY <1>9 DEF ReplyStale, AppendAcked, SnapshotAcked, AppendRejected
    <2> QED
      BY <1>q, <2>1 DEF Moved, CallsMoved, Comes
  <1> QED
    BY <1>3, <1>5, <1>6, <1>7, <1>8, <1>9 DEF Deliver

\* The steps of one node.
LEMMA NodeMoves ==
    ASSUME ReadInv, EP!VotesInv, ~StorageMayFail, NEW n \in Node, NodeStep(n) \/ PreVoting(n)
    PROVE  Moved
  <1>2. currentTerm \in [Node -> E!Term]
    BY DEF EP!VotesInv, EP!VoteTypes, EP!Term, E!Term
  <1>q. ASSUME UNCHANGED electionVars PROVE EP!VoteStep
    BY <1>q, EP!VotesUntouched, NodeFinite, NodeAssumption, BoundAssumption, FlagAssumption DEF electionVars
  <1>s. ASSUME UNCHANGED msgs PROVE CallsMoved("replicate")
    BY <1>s DEF CallsMoved, Comes
  <1>3. CASE PreVoting(n) \/ BeginElection(n)
    <2>1. EP!VoteStep
      BY <1>3, CampaignVotes DEF PreVoting
    <2>2. UNCHANGED msgs
      BY <1>3 DEF PreVoting, BeginElection, BeginPreVote, CampaignWon, PreVoteGranted, LeaderSilent
    <2> QED
      BY <1>s, <2>1, <2>2 DEF Moved
  <1>4. CASE Propose(n)
    <2>1. UNCHANGED <<currentTerm, votedFor, hardState, leaders, votes, voteMsgs, msgs>>
      BY <1>4 DEF Propose, E!LeaderAppend
    <2>2. EP!VoteStep
      BY <2>1, EP!VotesUntouched, NodeFinite, NodeAssumption, BoundAssumption, FlagAssumption
    <2> QED
      BY <1>s, <2>1, <2>2 DEF Moved
  <1>5. CASE ApplyReady(n)
    BY <1>5, <1>q, <1>s DEF ApplyReady, Moved
  <1>6. ASSUME NEW p \in Node, SendAppendEntries(n, p) PROVE Moved
    <2> DEFINE q == [type |-> "AE", call |-> "replicate", from |-> n, to |-> p,
                   term |-> currentTerm[n], prevIndex |-> nextIndex[n][p] - 1,
                   prevTerm |-> termAt(n, nextIndex[n][p] - 1), ents |-> sliceFrom(n, nextIndex[n][p]),
                   commit |-> commitIndex[n], live |-> TRUE, answered |-> {}]
    <2>1. Send(n, p, q) /\ UNCHANGED electionVars
      BY <1>6 DEF SendAppendEntries
    <2>2. NewRequest(q, "replicate")
      BY <1>2 DEF NewRequest, CallTyped, IsRequest, CallFields
    <2> HIDE DEF q
    <2> QED
      BY <1>q, <2>1, <2>2, SendMoves DEF Moved
  <1>7. ASSUME NEW p \in Node, SendSnapshot(n, p) PROVE Moved
    <2> DEFINE q == [type |-> "IS", call |-> "replicate", from |-> n, to |-> p,
                   term |-> currentTerm[n], snap |-> snap[n], live |-> TRUE,
                   answered |-> {}]
    <2>1. Send(n, p, q) /\ UNCHANGED electionVars
      BY <1>7 DEF SendSnapshot
    <2>2. NewRequest(q, "replicate")
      BY <1>2 DEF NewRequest, CallTyped, IsRequest, CallFields
    <2> HIDE DEF q
    <2> QED
      BY <1>q, <2>1, <2>2, SendMoves DEF Moved
  <1> QED
    BY <1>3, <1>4, <1>5, <1>6, <1>7 DEF NodeStep

\* Crashes.
LEMMA CrashMoves ==
    ASSUME ReadInv, EP!VotesInv, ~StorageMayFail, NEW n \in Node, Crash(n)
    PROVE  Moved
  <1>1. CASE Restart(n) \/ CrashInCompaction(n)
    <2>1. E!Reboot(n) /\ msgs' = Orphaned(msgs, n)
      BY <1>1 DEF Restart, CrashInCompaction
    <2>2. 0 \in E!Term
      BY BoundAssumption DEF E!Term
    <2>3. EP!VoteStep
      BY <2>1, <2>2, ContactVotes
    <2> QED
      BY <2>1, <2>3, OrphanedMoves DEF Moved
  <1>2. ASSUME NEW m \in msgs, CrashInAppend(m) \/ CrashInInstall(m) PROVE Moved
    <2>1. E!DieFollowing(m.to, m.from, m.term) /\ msgs' = Orphaned(msgs \ {m}, m.to)
      BY <1>2 DEF CrashInAppend, CrashInInstall
    <2>2. m.to \in Node /\ m.term \in E!Term
      BY DEF ReadInv, CallTyped
    <2>3. EP!VoteStep
      BY <2>1, <2>2, ContactVotes
    <2> QED
      BY <2>1, <2>3, OrphanedMoves DEF Moved
  <1> QED
    BY <1>1, <1>2 DEF Crash

\* Every step of Raft.
LEMMA RaftMoves ==
    ASSUME ReadInv, EP!VotesInv, ~StorageMayFail, Next
    PROVE  Moved
  <1>1. ASSUME NEW m \in voteMsgs, VoteCounted(m) \/ OtherVoting(m) PROVE Moved
    <2>1. UNCHANGED msgs
      BY <1>1 DEF VoteCounted, OtherVoting
    <2> QED
      BY <1>1, <2>1, CampaignVotes DEF Moved, CallsMoved, Comes
  <1> QED
    BY <1>1, DeliverMoves, NodeMoves, CrashMoves DEF Next, Step, DirectStep

\* What is left of a request.
LEMMA RequestKept ==
    ASSUME NEW m, IsRequest(m), CallTyped(m), NEW y,
           y = [m EXCEPT !.live = FALSE] \/ \E x : y = [m EXCEPT !.answered = {x}]
    PROVE  /\ y.type = m.type /\ y.call = m.call /\ y.from = m.from /\ y.to = m.to
           /\ y.term = m.term /\ DOMAIN y = DOMAIN m /\ IsRequest(y)
  BY DEF CallTyped, CallFields, IsRequest

\* What an abandoned or duplicated request holds of its answer.
LEMMA RequestAnswered ==
    ASSUME NEW m, IsRequest(m), CallTyped(m)
    PROVE  /\ [m EXCEPT !.live = FALSE].answered = m.answered
           /\ \A x : [m EXCEPT !.answered = {x}].answered = {x}
  BY DEF CallTyped, CallFields, IsRequest

\* Messages keep their types.
LEMMA CallsStayTyped ==
    ASSUME ReadInv, NEW c \in {"replicate", "read"}, CallsMoved(c), NEW y \in msgs'
    PROVE  CallTyped(y) /\ ReadTyped(y)
  <1>1. Comes(y, c)
    BY DEF CallsMoved
  <1>2. \A m \in msgs : CallTyped(m) /\ ReadTyped(m)
    BY DEF ReadInv
  <1>3. ASSUME NEW m \in msgs, IsRequest(m), NEW x, Answers(x, m)
        PROVE  CallTyped(x) /\ ReadTyped(x)
    <2>1. CallTyped(m) /\ ReadTyped(m)
      BY <1>2
    <2>2. CallTyped(x)
      BY <1>3, <2>1 DEF Answers, CallTyped, IsRequest
    <2> QED
      BY <1>3, <2>1, <2>2 DEF Answers, ReadTyped, IsRequest, CallTyped
  <1>4. ASSUME NEW m \in msgs, IsRequest(m), y = [m EXCEPT !.live = FALSE]
        PROVE  CallTyped(y) /\ ReadTyped(y)
    BY <1>2, <1>4, RequestKept, RequestAnswered DEF CallTyped, ReadTyped, Answers
  <1>5. ASSUME NEW m \in msgs, IsRequest(m), NEW x, Answers(x, m), y = [m EXCEPT !.answered = {x}]
        PROVE  CallTyped(y) /\ ReadTyped(y)
    BY <1>2, <1>5, RequestKept, RequestAnswered DEF CallTyped, ReadTyped, Answers
  <1>6. ASSUME NewRequest(y, c) PROVE CallTyped(y) /\ ReadTyped(y)
    BY <1>6 DEF NewRequest, ReadTyped
  <1>7. ASSUME NEW m \in msgs, IsRequest(m), Follows(y, m)
        PROVE  CallTyped(y) /\ ReadTyped(y)
    <2>1. \A x \in m.answered : Answers(x, m)
      BY <1>2, <1>7 DEF CallTyped
    <2> QED
      BY <1>3, <1>4, <1>5, <1>7, <2>1 DEF Follows, Reacts
  <1> QED
    BY <1>1, <1>2, <1>6, <1>7 DEF Comes

\* Who has left the term of the read does not start to say yes to it.
LEMMA NoNewAck ==
    ASSUME ReadInv, NEW c, CallsMoved(c), NEW p \in Node, currentTerm[p] \in Nat,
           currentTerm[p] > read.term, ~AckUnderWay(p)
    PROVE  ~AckUnderWay(p)'
  <1> SUFFICES ASSUME NEW y \in msgs', y.call = "read",
                      Acks(y, p) \/ (y.type = "AE" /\ \E x \in y.answered : Acks(x, p))
               PROVE  FALSE
    BY DEF AckUnderWay
  <1>1. Comes(y, c)
    BY DEF CallsMoved
  <1>2. \A m \in msgs : CallTyped(m) /\ ReadTyped(m)
    BY DEF ReadInv
  <1>3. ASSUME NEW m \in msgs, IsRequest(m), m.call = "read"
        PROVE  /\ m.type = "AE" /\ m.term = read.term /\ \A x \in m.answered : ~Acks(x, p)
               /\ \A x : Reacts(x, m) => ~Acks(x, p)
    <2>1. m.type = "AE" /\ m.term = read.term
      BY <1>2, <1>3 DEF ReadTyped, IsRequest
    <2>2. \A x \in m.answered : ~Acks(x, p)
      BY <1>3, <2>1 DEF AckUnderWay
    <2>3. read.term \in Nat
      BY BoundAssumption DEF ReadInv, E!Term
    <2>4. \A x : Reacts(x, m) => ~Acks(x, p)
      BY <2>1, <2>3 DEF Reacts, Answers, Acks
    <2> QED
      BY <2>1, <2>2, <2>4
  <1>4. CASE y \in msgs
    BY <1>4 DEF AckUnderWay
  <1>5. CASE NewRequest(y, c)
    BY <1>5 DEF NewRequest, IsRequest, Acks
  <1>6. ASSUME NEW m \in msgs, IsRequest(m), Follows(y, m) PROVE FALSE
    <2>0. CallTyped(m) /\ \A x \in m.answered : Answers(x, m)
      BY <1>2, <1>6 DEF CallTyped
    <2>1. CASE y = [m EXCEPT !.live = FALSE]
      BY <1>3, <1>6, <2>0, <2>1, RequestKept, RequestAnswered DEF Acks, IsRequest
    <2>2. CASE y \in m.answered \/ Reacts(y, m)
      BY <1>3, <1>6, <2>0, <2>2 DEF Answers, Reacts, IsRequest
    <2>3. ASSUME NEW x, Reacts(x, m), y = [m EXCEPT !.answered = {x}] PROVE FALSE
      BY <1>3, <1>6, <2>0, <2>3, RequestKept, RequestAnswered DEF Acks, IsRequest
    <2> QED
      BY <1>6, <2>1, <2>2, <2>3 DEF Follows
  <1> QED
    BY <1>1, <1>4, <1>5, <1>6 DEF Comes

\* A majority that has given the read up stays away from it.
LEMMA GivenUpStays ==
    ASSUME ReadInv, EP!VotesInv, EP!VoteStep, NEW c, CallsMoved(c), NEW Q \in SUBSET Node, GivenUp(Q),
           read.term' = read.term, read'.acks \cap Q = {}
    PROVE  GivenUp(Q)'
  <1>1. /\ currentTerm \in [Node -> E!Term] /\ currentTerm' \in [Node -> E!Term]
        /\ \A p \in Node : currentTerm'[p] >= currentTerm[p]
    BY DEF EP!VotesInv, EP!VoteStep, EP!VoteTypes, EP!VotesKept, E!Term, EP!Term
  <1>2. \A p \in Q : currentTerm[p] \in Nat /\ currentTerm'[p] \in Nat /\ read.term \in Nat
    BY <1>1, BoundAssumption DEF ReadInv, E!Term
  <1>3. \A p \in Q : ~AckUnderWay(p)'
    BY <1>2, NoNewAck DEF GivenUp
  <1> QED
    BY <1>1, <1>2, <1>3 DEF GivenUp

\* Who can have been superseded has a majority against it.
LEMMA SupersededHasLost ==
    ASSUME EP!VotesInv, NEW t \in E!Term, NEW v \in leaders, v.term > t
    PROVE  \E Q \in SUBSET Node : E!IsQuorum(Q) /\ \A p \in Q : currentTerm[p] > t
  <1>1. PICK Q \in SUBSET Node : EP!IsQuorum(Q) /\ EP!Behind(Q, v)
    BY DEF EP!VotesInv, EP!LeaderBacked
  <1>2. v.term \in Nat /\ \A p \in Node : currentTerm[p] \in Nat
    BY BoundAssumption DEF EP!VotesInv, EP!VoteTypes, EP!Victory, EP!Term
  <1>3. \A p \in Q : currentTerm[p] >= v.term
    BY <1>1, <1>2 DEF EP!Behind, EP!Pledged
  <1>4. t \in Nat
    BY BoundAssumption DEF E!Term
  <1> QED
    BY <1>1, <1>2, <1>3, <1>4, SameQuorum

\* The fields of the read, which its steps update one by one.
LEMMA ReadFields ==
    DOMAIN NoRead = {"phase", "node", "term", "index", "commit", "asked", "acks", "seen",
                     "superseded", "result"}
  BY DEF NoRead

\* A step that keeps the read's term and node, and never takes it back to idle.
LEMMA ReadMoves ==
    ASSUME ReadInv, EP!VotesInv, EP!VoteStep, NEW c \in {"replicate", "read"}, CallsMoved(c),
           DOMAIN read' = DOMAIN read, read'.term = read.term, read'.node = read.node,
           read'.superseded = read.superseded,
           read'.acks \subseteq Node,
           read' = read \/ (read.phase # "idle" /\ read'.phase # "idle"),
           read'.phase \in {"started", "confirming"} /\ read.superseded =>
               /\ read.phase \in {"started", "confirming"}
               /\ \A p \in Node : p \in read'.acks /\ p \notin read.acks =>
                      currentTerm[p] <= read.term \/ AckUnderWay(p),
           read'.phase \in {"waiting", "done"} => ~read.superseded
    PROVE  ReadInv'
  <1>1. \A y \in msgs' : CallTyped(y) /\ ReadTyped(y)'
    <2>1. \A y \in msgs' : CallTyped(y) /\ ReadTyped(y)
      BY CallsStayTyped
    <2>2. \A y : ReadTyped(y) => ReadTyped(y)'
      BY DEF ReadTyped
    <2> QED
      BY <2>1, <2>2
  <1>2. /\ DOMAIN read' = DOMAIN NoRead /\ read'.term \in E!Term
        /\ read'.phase # "idle" => read'.node \in Node
        /\ read'.phase = "idle" => read' = NoRead
    BY DEF ReadInv
  <1>3. ASSUME read'.phase \in {"started", "confirming"}, read'.superseded
        PROVE  \E Q \in SUBSET Node : GivenUp(Q)'
    <2>1. PICK Q \in SUBSET Node : GivenUp(Q)
      BY <1>3 DEF ReadInv
    <2>2. \A p \in Node : currentTerm[p] \in Nat /\ read.term \in Nat
      BY BoundAssumption DEF ReadInv, EP!VotesInv, EP!VoteTypes, E!Term, EP!Term
    <2>3. read'.acks \cap Q = {}
      BY <1>3, <2>1, <2>2 DEF GivenUp
    <2> QED
      BY <2>1, <2>3, GivenUpStays
  <1> QED
    BY <1>1, <1>2, <1>3 DEF ReadInv

\* A step of Raft beside the read, and a crash, which may end it.
LEMMA StepKeepsRead ==
    ASSUME ReadInv, EP!VotesInv, ~StorageMayFail, Next,
           read' = read \/ (read.node \in Node /\ read' = [read EXCEPT !.phase = "lost"])
    PROVE  ReadInv' /\ EP!VoteStep
  <1>1. EP!VoteStep /\ CallsMoved("replicate")
    BY RaftMoves DEF Moved
  <1>2. /\ DOMAIN read' = DOMAIN read /\ read'.term = read.term /\ read'.node = read.node
        /\ read'.superseded = read.superseded /\ read'.acks = read.acks
        /\ read' = read \/ (read.node \in Node /\ read'.phase = "lost")
    BY ReadFields DEF ReadInv
  <1>3. read.node \in Node => read.phase # "idle"
    BY NodeAssumption DEF ReadInv, NoRead
  <1> QED
    BY <1>1, <1>2, <1>3, ReadMoves DEF ReadInv

\* The read's own steps: only confirmLeadership could let it through, and its
\* majority would meet the one that has given it up.
LEMMA ReadStepKeeps ==
    ASSUME ReadInv, EP!VotesInv, ~StorageMayFail, ReadStep
    PROVE  ReadInv' /\ EP!VoteStep
  <1>0. /\ DOMAIN read = DOMAIN NoRead /\ read.acks \subseteq Node
        /\ currentTerm \in [Node -> E!Term]
    BY DEF ReadInv, EP!VotesInv, EP!VoteTypes, EP!Term, E!Term
  <1>q. ASSUME UNCHANGED electionVars PROVE EP!VoteStep
    BY <1>q, EP!VotesUntouched, NodeFinite, NodeAssumption, BoundAssumption, FlagAssumption DEF electionVars
  <1>s. ASSUME msgs' \subseteq msgs PROVE CallsMoved("replicate")
    BY <1>s DEF CallsMoved, Comes
  <1>1. ASSUME NEW n \in Node, StartRead(n) PROVE ReadInv' /\ EP!VoteStep
    <2>1. /\ read.phase = "idle" /\ read = NoRead /\ UNCHANGED <<electionVars, msgs>>
          /\ read' = [NoRead EXCEPT !.phase = "started", !.node = n,
                  !.term = currentTerm[n], !.index = commitIndex[n],
                  !.seen = applied,
                  !.superseded = \E v \in leaders : v.term > currentTerm[n]]
      BY <1>1 DEF StartRead, ReadInv, vars
    <2>2. /\ read'.phase = "started" /\ read'.node = n /\ read'.term = currentTerm[n]
          /\ read'.acks = {} /\ DOMAIN read' = DOMAIN NoRead
          /\ read'.superseded = (\E v \in leaders : v.term > currentTerm[n])
      BY <2>1 DEF NoRead
    <2>3. \A y \in msgs' : y.call # "read"
      BY <2>1 DEF ReadInv, ReadTyped
    <2>4. EP!VoteStep
      BY <1>q, <2>1
    <2>5. ASSUME read'.superseded PROVE \E Q \in SUBSET Node : GivenUp(Q)'
      <3>1. PICK Q \in SUBSET Node : E!IsQuorum(Q) /\ \A p \in Q : currentTerm[p] > currentTerm[n]
        BY <1>0, <2>2, <2>5, SupersededHasLost
      <3>2. \A p \in Q : ~AckUnderWay(p)'
        BY <2>3 DEF AckUnderWay
      <3>3. currentTerm' = currentTerm
        BY <2>1 DEF electionVars
      <3> QED
        BY <2>2, <3>1, <3>2, <3>3 DEF GivenUp
    <2>6. \A y \in msgs' : CallTyped(y) /\ ReadTyped(y)'
      BY <2>1, <2>3 DEF ReadInv, ReadTyped
    <2> QED
      BY <1>0, <2>2, <2>4, <2>5, <2>6 DEF ReadInv
  <1>2. CASE BeginConfirm
    <2>1. /\ read.phase = "started" /\ StillLeads /\ UNCHANGED <<electionVars, msgs>>
          /\ read' = [read EXCEPT !.phase = "confirming", !.acks = {read.node},
                            !.commit = commitIndex[read.node]]
      BY <1>2 DEF BeginConfirm, vars
    <2>2. /\ read'.phase = "confirming" /\ read'.acks = {read.node} /\ DOMAIN read' = DOMAIN read
          /\ read'.term = read.term /\ read'.node = read.node /\ read'.superseded = read.superseded
      BY <1>0, <2>1, ReadFields
    <2>3. read.node \in Node /\ currentTerm[read.node] = read.term /\ read.term \in Nat
      BY <2>1, BoundAssumption DEF ReadInv, StillLeads, E!Term
    <2>4. EP!VoteStep /\ CallsMoved("replicate")
      BY <1>q, <1>s, <2>1
    <2> QED
      BY <2>1, <2>2, <2>3, <2>4, ReadMoves
  <1>3. ASSUME NEW p \in Node, SendHeartbeat(p) PROVE ReadInv' /\ EP!VoteStep
    <2>1. /\ read.phase = "confirming" /\ UNCHANGED electionVars
          /\ read' = [read EXCEPT !.asked = @ \cup {p}]
      BY <1>3 DEF SendHeartbeat
    <2>2. /\ read'.phase = "confirming" /\ read'.acks = read.acks /\ DOMAIN read' = DOMAIN read
          /\ read'.term = read.term /\ read'.node = read.node /\ read'.superseded = read.superseded
      BY <1>0, <2>1, ReadFields
    <2>3. PICK pi, pt : Enqueue(msgs, [type |-> "AE", call |-> "read", from |-> read.node, to |-> p,
                      term |-> read.term, prevIndex |-> pi, prevTerm |-> pt,
                      ents |-> <<>>, commit |-> read.commit, live |-> TRUE,
                      answered |-> {}])
      BY <1>3 DEF SendHeartbeat
    <2>4. EP!VoteStep
      BY <1>q, <2>1
    <2> DEFINE q == [type |-> "AE", call |-> "read", from |-> read.node, to |-> p,
                      term |-> read.term, prevIndex |-> pi, prevTerm |-> pt,
                      ents |-> <<>>, commit |-> read.commit, live |-> TRUE,
                      answered |-> {}]
    <2>5. NewRequest(q, "read")
      BY <2>1 DEF NewRequest, CallTyped, IsRequest, CallFields, ReadInv
    <2> HIDE DEF q
    <2>6. CallsMoved("read")
      BY <2>3, <2>5 DEF q, Enqueue, CallsMoved, Comes
    <2> QED
      BY <1>0, <2>1, <2>2, <2>4, <2>6, ReadMoves
  <1>4. ASSUME NEW m \in msgs, HeartbeatRefused(m) PROVE ReadInv' /\ EP!VoteStep
    <2>1. read' = read /\ msgs' = msgs \ {m}
      BY <1>4 DEF HeartbeatRefused
    <2>2. m.to \in Node /\ m.term \in E!Term
      BY DEF ReadInv, CallTyped
    <2>3. EP!VoteStep
      <3>1. CASE E!LearnTerm(m.to, m.term)
        BY <2>2, <3>1, ContactVotes
      <3> QED
        BY <1>4, <1>q, <3>1 DEF HeartbeatRefused
    <2> QED
      BY <1>0, <1>s, <2>1, <2>3, ReadMoves DEF ReadInv
  <1>5. ASSUME NEW m \in msgs, HeartbeatAnswered(m) PROVE ReadInv' /\ EP!VoteStep
    <2>1. /\ ReadReply(m) /\ read' = [read EXCEPT !.acks = @ \cup AckedBy(m)]
          /\ msgs' = msgs \ {m} /\ UNCHANGED electionVars
      BY <1>5 DEF HeartbeatAnswered
    <2>2. /\ read'.phase = read.phase /\ read'.acks = read.acks \cup AckedBy(m)
          /\ DOMAIN read' = DOMAIN read
          /\ read'.term = read.term /\ read'.node = read.node /\ read'.superseded = read.superseded
      BY <1>0, <2>1, ReadFields
    <2>3. \A p \in AckedBy(m) : p \in Node /\ AckUnderWay(p)
      BY <2>1 DEF AckedBy, ReadReply, AckUnderWay, Acks, ReadInv, CallTyped
    <2>4. read.phase # "idle"
      BY <2>1 DEF ReadInv, ReadTyped, ReadReply
    <2>5. EP!VoteStep /\ CallsMoved("replicate")
      BY <1>q, <1>s, <2>1
    <2>6. read.phase \in {"waiting", "done"} => ~read.superseded
      BY DEF ReadInv
    <2> QED
      BY <1>0, <2>2, <2>3, <2>4, <2>5, <2>6, ReadMoves
  <1>6. CASE LeadershipConfirmed
    <2>1. /\ read.phase = "confirming" /\ Confirmed /\ UNCHANGED electionVars
          /\ read' = [read EXCEPT !.phase = "waiting"]
      BY <1>6 DEF LeadershipConfirmed
    <2>2. /\ read'.phase = "waiting" /\ read'.acks = read.acks /\ DOMAIN read' = DOMAIN read
          /\ read'.term = read.term /\ read'.node = read.node /\ read'.superseded = read.superseded
      BY <1>0, <2>1, ReadFields
    <2>3. ~read.superseded
      <3> SUFFICES ASSUME read.superseded PROVE FALSE
        OBVIOUS
      <3>1. PICK Q \in SUBSET Node : GivenUp(Q)
        BY <2>1 DEF ReadInv
      <3>2. EP!IsQuorum(Q) /\ EP!IsQuorum(read.acks)
        BY <2>1, <3>1, SameQuorum DEF GivenUp, Confirmed
      <3>3. \E p \in Node : p \in Q /\ p \in read.acks
        BY <1>0, <3>2, QuorumsMeet
      <3> QED
        BY <3>1, <3>3 DEF GivenUp
    <2>4. CallsMoved("replicate")
      BY <1>6 DEF LeadershipConfirmed, CallsMoved, Comes, Follows, Abandon, IsRequest
    <2> QED
      BY <1>0, <1>q, <2>1, <2>2, <2>3, <2>4, ReadMoves
  <1>7. CASE FinishRead
    <2>1. /\ read.phase = "waiting" /\ UNCHANGED <<electionVars, msgs>>
          /\ read' = [read EXCEPT !.phase = "done", !.result = sm[read.node]]
      BY <1>7 DEF FinishRead, vars
    <2>2. /\ read'.phase = "done" /\ read'.acks = read.acks /\ DOMAIN read' = DOMAIN read
          /\ read'.term = read.term /\ read'.node = read.node /\ read'.superseded = read.superseded
      BY <1>0, <2>1, ReadFields
    <2>3. EP!VoteStep /\ CallsMoved("replicate") /\ ~read.superseded
      BY <1>q, <1>s, <2>1 DEF ReadInv
    <2> QED
      BY <1>0, <2>1, <2>2, <2>3, ReadMoves
  <1> QED
    BY <1>1, <1>2, <1>3, <1>4, <1>5, <1>6, <1>7 DEF ReadStep

\* Every step of the cluster with the read keeps the invariant.
LEMMA ReadNextKeeps ==
    ASSUME ReadInv, EP!VotesInv, ~StorageMayFail, [ReadNext]_readVars
    PROVE  ReadInv' /\ EP!VotesInv'
  <1>1. CASE UNCHANGED readVars
    <2>1. UNCHANGED <<electionVars, msgs, read>>
      BY <1>1 DEF readVars, vars
    <2>2. EP!VoteStep
      BY <2>1, EP!VotesUntouched, NodeFinite, NodeAssumption, BoundAssumption, FlagAssumption DEF electionVars
    <2>3. CallsMoved("replicate") /\ read' = read
      BY <2>1 DEF CallsMoved, Comes
    <2>4. ReadInv'
      BY <2>2, <2>3, ReadMoves DEF ReadInv
    <2> QED
      BY <2>2, <2>4, EP!SafetyStep, NodeFinite, NodeAssumption, BoundAssumption, FlagAssumption DEF EP!VoteStep
  <1>2. CASE ReadNext
    <2>1. ASSUME Step, UNCHANGED read PROVE ReadInv' /\ EP!VoteStep
      BY <2>1, StepKeepsRead DEF Next
    <2>2. ASSUME NEW n \in Node, Crash(n), LoseRead(n) PROVE ReadInv' /\ EP!VoteStep
      BY <2>2, StepKeepsRead DEF Next, LoseRead
    <2>3. ReadInv' /\ EP!VoteStep
      BY <1>2, <2>1, <2>2, ReadStepKeeps DEF ReadNext
    <2>4. EP!VotesInv'
      BY <2>3, EP!SafetyStep, NodeFinite, NodeAssumption, BoundAssumption, FlagAssumption DEF EP!VoteStep
    <2> QED
      BY <2>3, <2>4
  <1> QED
    BY <1>1, <1>2

\* Nobody has a vote yet, nothing is in flight, no read has begun.
LEMMA ReadStarts == Init /\ InitRead => ReadInv /\ EP!VotesInv
  <1> SUFFICES ASSUME Init, InitRead PROVE ReadInv /\ EP!VotesInv
    OBVIOUS
  <1>1. EP!Init
    BY DEF Init, E!Init, EP!Init, E!Follower, EP!Follower
  <1>2. EP!SafetyInv
    BY <1>1, EP!SafetyInit, NodeFinite, NodeAssumption, BoundAssumption, FlagAssumption
  <1>3. EP!VotesInv
    BY <1>2, EP!SafetyIsVotes, NodeFinite, NodeAssumption, BoundAssumption, FlagAssumption
  <1>4. ReadInv
    BY BoundAssumption DEF Init, InitRead, ReadInv, NoRead, E!Term
  <1> QED
    BY <1>3, <1>4

-----------------------------------------------------------------------------
(***************************************************************************)
(* The theorems.                                                           *)
(***************************************************************************)

\* A deposed leader never answers a read: when LinearizableRead succeeds, no leader
\* of a newer term had been elected before it began. The majority that confirmed
\* (confirmLeadership) meets the majority that had voted for the newer leader, and
\* nobody says yes to a heartbeat of a term older than its own. Whether the logs
\* are sound does not matter.
THEOREM NoDeposedReader ==
    ASSUME ~StorageMayFail
    PROVE  ReadSpec => []NoReadByDeposedLeader
  <1>1. Init /\ InitRead => ReadInv /\ EP!VotesInv
    BY ReadStarts
  <1>2. ReadInv /\ EP!VotesInv /\ [ReadNext]_readVars => (ReadInv /\ EP!VotesInv)'
    BY ReadNextKeeps
  <1>3. ReadInv => NoReadByDeposedLeader
    BY DEF ReadInv, NoReadByDeposedLeader
  <1> QED
    BY <1>1, <1>2, <1>3, PTL DEF ReadSpec

\* Elections stay safe whatever the heartbeats of a read do to commit indices and
\* logs (confirmLeadership): one leader per term.
THEOREM ElectionsSafeBesideReads ==
    ASSUME ~StorageMayFail
    PROVE  ReadSpec => []E!ElectionSafety
  <1>1. Init /\ InitRead => ReadInv /\ EP!VotesInv
    BY ReadStarts
  <1>2. ReadInv /\ EP!VotesInv /\ [ReadNext]_readVars => (ReadInv /\ EP!VotesInv)'
    BY ReadNextKeeps
  <1>3. EP!VotesInv => E!ElectionSafety
    BY DEF EP!VotesInv, EP!ElectionSafety, E!ElectionSafety
  <1> QED
    BY <1>1, <1>2, <1>3, PTL DEF ReadSpec

=============================================================================
