-------------------------------- MODULE Raft --------------------------------
(***************************************************************************)
(* A cluster of jamraft nodes (internal/raft): the elections of module     *)
(* Election with the real log, replication, commitment, application to the *)
(* state machine, compaction into snapshots and their installation,        *)
(* crashes and recovery from stable storage.                               *)
(*                                                                         *)
(* A log entry is its term: at most one leader creates entries in a term,  *)
(* so index and term identify the command. The state machine is the        *)
(* sequence of entries it has applied.                                     *)
(*                                                                         *)
(* An RPC is a request and a reply in flight. live says that the caller    *)
(* still waits; the reply to an abandoned call goes nowhere, its request   *)
(* may still be handled late. A message that is never handled is lost.     *)
(* answered holds the reply of a request that is delivered once more.      *)
(***************************************************************************)
EXTENDS Integers, Sequences, FiniteSets, FiniteSetsExt, Functions

CONSTANTS
    Node, None, MaxTerm, MaxIndex, MaxRounds, MaxVoteMsgs, DisablePreVote,
    StorageMayFail,
    MaxMsgs,            \* bound: AppendEntries and InstallSnapshot messages in flight
    MaxFaults,          \* bound: crashes and election timeouts in a whole behaviour
    SnapshotThreshold,  \* Config.SnapshotThreshold; 0 stands for one no log reaches
    MayDuplicate        \* the network may deliver an AppendEntries twice

ASSUME NodeAssumption == IsFiniteSet(Node) /\ Node # {} /\ None \notin Node
ASSUME BoundAssumption ==
    /\ {MaxTerm, MaxIndex, MaxRounds, MaxVoteMsgs, MaxMsgs, MaxFaults} \subseteq Nat
    /\ SnapshotThreshold \in Nat
ASSUME FlagAssumption == DisablePreVote \in BOOLEAN /\ StorageMayFail \in BOOLEAN

VARIABLES
    currentTerm, votedFor, hardState, role, leaderID, heard, preVotes, votes,
    voteMsgs, leaders,
    log,          \* per node: the entries above the snapshot (entries[1:])
    snap,         \* per node: snapshotIndex, snapshotTerm, snapshotData
    disk,         \* per node: the log and the snapshot on stable storage
    sm,           \* per node: the state machine, as the entries it has applied
    commitIndex,
    lastApplied,
    nextIndex,    \* per leader and peer
    matchIndex,   \* per leader and peer
    msgs,         \* AppendEntries and InstallSnapshot messages in flight
    applied,      \* history: every entry some node has applied, with its index
    faults        \* how many crashes and election timeouts there have been

Store == INSTANCE Store

-----------------------------------------------------------------------------
(***************************************************************************)
(* Log helpers of node.go.                                                 *)
(***************************************************************************)
lastIndex(n) == snap[n].index + Len(log[n])
lastTerm(n)  == IF log[n] = <<>> THEN snap[n].term ELSE log[n][Len(log[n])]

\* termAt: the sentinel answers for the snapshot index itself.
HasIndex(n, i) == i >= snap[n].index /\ i <= lastIndex(n)
entryAt(n, i)  == log[n][i - snap[n].index]
termAt(n, i)   == IF i = snap[n].index THEN snap[n].term ELSE entryAt(n, i)

sliceFrom(n, from) == SubSeq(log[n], from - snap[n].index, Len(log[n]))

\* The sentinel counts as an entry of its term.
IndicesOfTerm(n, t) == {i \in snap[n].index..lastIndex(n) : termAt(n, i) = t}

firstIndexOfTerm(n, t) ==
    IF IndicesOfTerm(n, t) = {} THEN snap[n].index + 1 ELSE Min(IndicesOfTerm(n, t))

LastPos == [n \in Node |-> [term |-> lastTerm(n), index |-> lastIndex(n)]]

E == INSTANCE Election WITH lastPos <- LastPos

electionVars == <<currentTerm, votedFor, hardState, role, leaderID, heard,
                  preVotes, votes, voteMsgs, leaders>>
logVars      == <<log, snap, disk>>
applyVars    == <<sm, commitIndex, lastApplied, applied>>
leaderVars   == <<nextIndex, matchIndex>>
vars         == <<electionVars, logVars, applyVars, leaderVars, msgs, faults>>

Index == 0..MaxIndex
Log   == Seq(1..MaxTerm)
Snap  == [index : Index, term : E!Term, data : Log]

Init ==
    /\ log         = [n \in Node |-> <<>>]
    /\ snap        = [n \in Node |-> Store!NoSnapshot]
    /\ disk        = [n \in Node |-> Store!EmptyStore]
    /\ sm          = [n \in Node |-> <<>>]
    /\ commitIndex = [n \in Node |-> 0]
    /\ lastApplied = [n \in Node |-> 0]
    /\ nextIndex   = [n \in Node |-> [p \in Node |-> 1]]
    /\ matchIndex  = [n \in Node |-> [p \in Node |-> 0]]
    /\ msgs        = {}
    /\ applied     = {}
    /\ faults      = 0
    /\ E!Init

-----------------------------------------------------------------------------
(***************************************************************************)
(* The leader's log and its commit index.                                  *)
(***************************************************************************)

\* advanceCommitLocked when the log is l and the match indices are mi: the
\* highest entry of the current term t that a majority holds.
Bug_CommitsUnreplicated(n, t, l, mi) == snap[n].index + Len(l)
advanceCommit(n, t, l, mi) ==
    Max({commitIndex[n]} \cup
        {i \in commitIndex[n] + 1 .. snap[n].index + Len(l) :
            /\ l[i - snap[n].index] = t
            /\ E!IsQuorum({n} \cup {p \in Node \ {n} : mi[p] >= i})})

\* A leader of term t appends one entry, persists it and, alone in its cluster,
\* commits it; mi are its match indices.
AppendOwn(n, t, mi) ==
    LET i  == lastIndex(n) + 1
        l2 == Append(log[n], t)
    IN
    /\ i <= MaxIndex
    /\ log'  = [log EXCEPT ![n] = l2]
    /\ disk' = [disk EXCEPT ![n] = Store!AppendLog(@, [j \in {i} |-> t])]
    /\ commitIndex' = [commitIndex EXCEPT ![n] = advanceCommit(n, t, l2, mi)]
    /\ UNCHANGED <<snap, sm, lastApplied, applied>>

\* becomeLeaderLocked for term t: the leader's bookkeeping and the no-op.
BecomeLeader(n, t) ==
    LET mi == [p \in Node |-> 0] IN
    /\ AppendOwn(n, t, mi)
    /\ nextIndex'  = [nextIndex EXCEPT ![n] = [p \in Node |-> lastIndex(n) + 1]]
    /\ matchIndex' = [matchIndex EXCEPT ![n] = mi]

\* A crash or an election timeout uses up the bound on them.
Fault == faults < MaxFaults /\ faults' = faults + 1

\* Propose, and the log part of Submit.
Propose(n) ==
    /\ role[n] = E!Leader
    /\ AppendOwn(n, currentTerm[n], matchIndex[n])
    /\ E!LeaderAppend(n)
    /\ UNCHANGED <<leaderVars, msgs, faults>>

-----------------------------------------------------------------------------
(***************************************************************************)
(* Elections: the steps of Election, with what winning one does to the log.*)
(***************************************************************************)
BeginPreVote(n) ==
    /\ Fault
    /\ UNCHANGED <<logVars, applyVars, leaderVars, msgs>>
    /\ E!BeginPreVote(n)

PreVoteGranted(n, r, p) ==
    /\ UNCHANGED <<logVars, applyVars, leaderVars, msgs, faults>>
    /\ E!PreVoteGranted(n, r, p)

\* startRealElectionLocked, which wins on the spot in a single-node cluster.
ElectionLog(n) ==
    IF E!IsQuorum({n})
    THEN BecomeLeader(n, currentTerm[n] + 1)
    ELSE UNCHANGED <<logVars, applyVars, leaderVars>>

BeginElection(n) ==
    /\ Fault
    /\ ElectionLog(n)
    /\ E!BeginElection(n)
    /\ UNCHANGED msgs

CampaignWon(n, r) ==
    /\ ElectionLog(n)
    /\ E!CampaignWon(n, r)
    /\ UNCHANGED <<msgs, faults>>

VoteCounted(m) ==
    /\ m.type = "reply"
    /\ IF E!IsQuorum(votes[m.to] \cup {m.from})
       THEN BecomeLeader(m.to, currentTerm[m.to])
       ELSE UNCHANGED <<logVars, applyVars, leaderVars>>
    /\ E!VoteCounted(m)
    /\ UNCHANGED <<msgs, faults>>

OtherVoting(m) ==
    /\ UNCHANGED <<logVars, applyVars, leaderVars, msgs, faults>>
    /\ \/ E!HandleRequestVote(m)
       \/ E!VoteReplyNewer(m)
       \/ E!VoteReplyIgnored(m)

LeaderSilent(n) ==
    /\ UNCHANGED <<logVars, applyVars, leaderVars, msgs, faults>>
    /\ E!LeaderSilent(n)

-----------------------------------------------------------------------------
(***************************************************************************)
(* Replication: replicationLoop keeps one call per peer under way.         *)
(***************************************************************************)

\* The messages of the call that replicationLoop(n, p) waits for.
CallUnderWay(n, p) ==
    {m \in msgs : /\ m.call = "replicate" /\ m.live
                  /\ \/ m.type \in {"AE", "IS"} /\ m.from = n /\ m.to = p
                     \/ m.type \in {"AEReply", "ISReply", "TermReply"} /\ m.from = p /\ m.to = n}

Abandon(S) == {[m EXCEPT !.live = FALSE] : m \in {x \in S : x.type \in {"AE", "IS"}}}

\* A new request goes out beside the older messages; some of them are lost when
\* there are too many.
Enqueue(older, req) ==
    \E kept \in SUBSET older :
        /\ kept = older \/ Cardinality(kept) = MaxMsgs - 1
        /\ Cardinality(kept) < MaxMsgs
        /\ msgs' = kept \cup {req}

\* The next call of a replication loop; the one before, if still under way, has
\* timed out.
Send(n, p, req) ==
    Enqueue((msgs \ CallUnderWay(n, p)) \cup Abandon(CallUnderWay(n, p)), req)

\* sendAppendEntries, first half: everything from nextIndex on.
SendAppendEntries(n, p) ==
    LET ni == nextIndex[n][p] IN
    /\ role[n] = E!Leader
    /\ p # n
    /\ ni > snap[n].index /\ HasIndex(n, ni - 1)
    /\ Send(n, p, [type |-> "AE", call |-> "replicate", from |-> n, to |-> p,
                   term |-> currentTerm[n], prevIndex |-> ni - 1,
                   prevTerm |-> termAt(n, ni - 1), ents |-> sliceFrom(n, ni),
                   commit |-> commitIndex[n], live |-> TRUE, answered |-> {}])
    /\ UNCHANGED <<electionVars, logVars, applyVars, leaderVars, faults>>

\* sendSnapshot: the peer needs entries that are already compacted.
SendSnapshot(n, p) ==
    LET ni == nextIndex[n][p] IN
    /\ role[n] = E!Leader
    /\ p # n
    /\ ~(ni > snap[n].index /\ HasIndex(n, ni - 1))
    /\ Send(n, p, [type |-> "IS", call |-> "replicate", from |-> n, to |-> p,
                   term |-> currentTerm[n], snap |-> snap[n], live |-> TRUE,
                   answered |-> {}])
    /\ UNCHANGED <<electionVars, logVars, applyVars, leaderVars, faults>>

-----------------------------------------------------------------------------
(***************************************************************************)
(* AppendEntries at the follower.                                          *)
(***************************************************************************)

\* The reply, if the caller still waits. match is what the caller will take
\* the peer to hold on success: it computes that from its own request.
AEReply(m, t, ok, ci, ct) ==
    [type |-> "AEReply", call |-> m.call, from |-> m.to, to |-> m.from,
     term |-> t, forTerm |-> m.term, success |-> ok,
     match |-> m.prevIndex + Len(m.ents),
     conflictIndex |-> ci, conflictTerm |-> ct, live |-> TRUE]

\* The request is answered, if the caller still waits. The simulated network may
\* first call AppendEntries a second time; the caller gets the first reply.
Answer(m, reply) ==
    LET first == IF m.answered = {} THEN {reply} ELSE m.answered
        rest  == msgs \ {m}
    IN
    \/ msgs' = rest \cup (IF m.live THEN first ELSE {})
    \/ /\ MayDuplicate
       /\ m.type = "AE" /\ m.answered = {}
       /\ msgs' = rest \cup {[m EXCEPT !.answered = {reply}]}

\* AppendEntries or InstallSnapshot from an older term: only a reply.
StaleLeader(m) ==
    /\ m.type \in {"AE", "IS"}
    /\ m.term < currentTerm[m.to]
    /\ Answer(m, [type |-> "TermReply", call |-> m.call, from |-> m.to, to |-> m.from,
                  term |-> currentTerm[m.to], forTerm |-> m.term, live |-> TRUE])
    /\ UNCHANGED <<electionVars, logVars, applyVars, leaderVars, faults>>

\* The consistency check on prevLogIndex and prevLogTerm.
TooShort(m) == m.prevIndex > lastIndex(m.to)
Mismatch(m) ==
    /\ ~TooShort(m)
    /\ m.prevIndex >= snap[m.to].index
    /\ termAt(m.to, m.prevIndex) # m.prevTerm

RejectAppend(m) ==
    LET p == m.to IN
    /\ m.type = "AE"
    /\ m.term >= currentTerm[p]
    /\ TooShort(m) \/ Mismatch(m)
    /\ UNCHANGED <<logVars, applyVars, leaderVars, faults>>
    /\ E!FollowLeader(p, m.from, m.term)
    /\ LET ct == IF TooShort(m) THEN 0 ELSE termAt(p, m.prevIndex)
           ci == IF TooShort(m) THEN lastIndex(p) + 1 ELSE firstIndexOfTerm(p, ct)
       IN  Answer(m, AEReply(m, m.term, FALSE, ci, ct))

\* The merge: entries the snapshot covers are skipped, matching entries kept,
\* the first conflict deletes its suffix, the rest is appended.
LastNew(m)   == m.prevIndex + Len(m.ents)
Conflicts(m) ==
    LET p == m.to IN
    {i \in Max({m.prevIndex, snap[p].index}) + 1 .. Min({LastNew(m), lastIndex(p)}) :
        entryAt(p, i) # m.ents[i - m.prevIndex]}

\* The index up to which the follower's own log survives.
Bug_KeepsSuffix(m) == lastIndex(m.to)
Bug_TruncatesToPrev(m) == Max({m.prevIndex, snap[m.to].index})
KeptTo(m) == IF Conflicts(m) = {} THEN lastIndex(m.to) ELSE Min(Conflicts(m)) - 1

Merged(m) == SubSeq(log[m.to], 1, KeptTo(m) - snap[m.to].index)
               \o SubSeq(m.ents, KeptTo(m) - m.prevIndex + 1, Len(m.ents))

\* The two writes of the merge.
Truncated(m, d) ==
    IF Conflicts(m) = {} THEN d ELSE Store!TruncateSuffix(d, KeptTo(m) + 1)
Bug_ForgetsAppend(m, d) == Truncated(m, d)
Persisted(m, d) ==
    Store!AppendLog(Truncated(m, d),
                    [i \in KeptTo(m) + 1 .. LastNew(m) |-> m.ents[i - m.prevIndex]])

\* min64(LeaderCommit, lastIndex), never backwards.
FollowerCommit(m) ==
    IF m.commit <= commitIndex[m.to] THEN commitIndex[m.to]
    ELSE Min({m.commit, Max({KeptTo(m), LastNew(m)})})

AcceptAppend(m) ==
    LET p == m.to IN
    /\ m.type = "AE"
    /\ m.term >= currentTerm[p]
    /\ ~TooShort(m) /\ ~Mismatch(m)
    /\ log'  = [log EXCEPT ![p] = Merged(m)]
    /\ disk' = [disk EXCEPT ![p] = Persisted(m, @)]
    /\ commitIndex' = [commitIndex EXCEPT ![p] = FollowerCommit(m)]
    /\ UNCHANGED <<snap, sm, lastApplied, applied, leaderVars, faults>>
    /\ E!FollowLeader(p, m.from, m.term)
    /\ Answer(m, AEReply(m, m.term, TRUE, 0, 0))

-----------------------------------------------------------------------------
(***************************************************************************)
(* InstallSnapshot at the follower.                                        *)
(***************************************************************************)
ISReply(m) ==
    [type |-> "ISReply", call |-> m.call, from |-> m.to, to |-> m.from,
     term |-> m.term, forTerm |-> m.term, match |-> m.snap.index, live |-> TRUE]

\* A snapshot the node already covers: leader contact and a reply.
SkipSnapshot(m) ==
    LET p == m.to IN
    /\ m.type = "IS"
    /\ m.term >= currentTerm[p]
    /\ m.snap.index <= snap[p].index
    /\ UNCHANGED <<logVars, applyVars, leaderVars, faults>>
    /\ E!FollowLeader(p, m.from, m.term)
    /\ Answer(m, ISReply(m))

\* The suffix consistent with the snapshot is kept, or nothing.
Consistent(m) ==
    /\ HasIndex(m.to, m.snap.index)
    /\ termAt(m.to, m.snap.index) = m.snap.term

\* The three writes, in order.
Dropped(m, d)   == IF Consistent(m) THEN d
                   ELSE Store!TruncateSuffix(d, snap[m.to].index + 1)
Saved(m, d)     == Store!SaveSnapshot(Dropped(m, d), m.snap)
Compacted(m, d) == Store!TruncatePrefix(Saved(m, d), m.snap.index)

\* commitIndex and lastApplied never fall behind the snapshot.
Bug_NotRaised(i, m) == i
Raised(i, m) == Max({i, m.snap.index})

InstallSnapshot(m) ==
    LET p == m.to IN
    /\ m.type = "IS"
    /\ m.term >= currentTerm[p]
    /\ m.snap.index > snap[p].index
    /\ sm'   = [sm EXCEPT ![p] = m.snap.data]
    /\ log'  = [log EXCEPT ![p] = IF Consistent(m) THEN sliceFrom(p, m.snap.index + 1)
                                  ELSE <<>>]
    /\ snap' = [snap EXCEPT ![p] = m.snap]
    /\ disk' = [disk EXCEPT ![p] = Compacted(m, @)]
    /\ commitIndex' = [commitIndex EXCEPT ![p] = Raised(@, m)]
    /\ lastApplied' = [lastApplied EXCEPT ![p] = Raised(@, m)]
    /\ UNCHANGED <<applied, leaderVars, faults>>
    /\ E!FollowLeader(p, m.from, m.term)
    /\ Answer(m, ISReply(m))

-----------------------------------------------------------------------------
(***************************************************************************)
(* Replies at the leader: sendAppendEntries and sendSnapshot, second half. *)
(***************************************************************************)

IsReply(m) == m.type \in {"AEReply", "ISReply", "TermReply"} /\ m.call = "replicate"

ReplyNewerTerm(m) ==
    /\ IsReply(m)
    /\ m.term > currentTerm[m.to]
    /\ UNCHANGED <<logVars, applyVars, leaderVars, faults>>
    /\ E!LearnTerm(m.to, m.term)
    /\ msgs' = msgs \ {m}

\* The caller still leads in the term of its request.
Wanted(m) == role[m.to] = E!Leader /\ currentTerm[m.to] = m.forTerm

ReplyStale(m) ==
    /\ IsReply(m)
    /\ m.term <= currentTerm[m.to]
    /\ ~Wanted(m)
    /\ msgs' = msgs \ {m}
    /\ UNCHANGED <<electionVars, logVars, applyVars, leaderVars, faults>>

\* The peer holds the log up to m.match: raise matchIndex and nextIndex; an
\* AppendEntries reply also re-examines the commit index.
Bug_MatchesWholeLog(m, commits) ==
    LET n  == m.to
        mi == [matchIndex[n] EXCEPT ![m.from] = lastIndex(n)]
    IN
    /\ matchIndex' = [matchIndex EXCEPT ![n] = mi]
    /\ nextIndex'  = [nextIndex EXCEPT ![n][m.from] = lastIndex(n) + 1]
    /\ commitIndex' = IF commits
         THEN [commitIndex EXCEPT ![n] = advanceCommit(n, currentTerm[n], log[n], mi)]
         ELSE commitIndex
PeerMatches(m, commits) ==
    LET n  == m.to
        mi == [matchIndex[n] EXCEPT ![m.from] = m.match]
    IN
    /\ m.match > matchIndex[n][m.from]
    /\ matchIndex' = [matchIndex EXCEPT ![n] = mi]
    /\ nextIndex'  = [nextIndex EXCEPT ![n][m.from] = m.match + 1]
    /\ commitIndex' = IF commits
         THEN [commitIndex EXCEPT ![n] = advanceCommit(n, currentTerm[n], log[n], mi)]
         ELSE commitIndex

AppendAcked(m) ==
    /\ IsReply(m) /\ m.type = "AEReply"
    /\ m.term <= currentTerm[m.to] /\ Wanted(m)
    /\ m.success
    /\ \/ PeerMatches(m, TRUE)
       \/ m.match <= matchIndex[m.to][m.from] /\ UNCHANGED <<leaderVars, commitIndex>>
    /\ msgs' = msgs \ {m}
    /\ UNCHANGED <<electionVars, logVars, sm, lastApplied, applied, faults>>

SnapshotAcked(m) ==
    /\ IsReply(m) /\ m.type = "ISReply"
    /\ m.term <= currentTerm[m.to] /\ Wanted(m)
    /\ \/ PeerMatches(m, FALSE)
       \/ m.match <= matchIndex[m.to][m.from] /\ UNCHANGED <<leaderVars, commitIndex>>
    /\ msgs' = msgs \ {m}
    /\ UNCHANGED <<electionVars, logVars, sm, lastApplied, applied, faults>>

Bug_BacksOffTooFar(n, m) == m.conflictIndex - 1
nextIndexAfterConflict(n, m) ==
    LET own == IndicesOfTerm(n, m.conflictTerm) \ {0} IN
    IF m.conflictTerm # 0 /\ own # {} THEN Max(own) + 1
    ELSE Max({m.conflictIndex, 1})

AppendRejected(m) ==
    /\ IsReply(m) /\ m.type = "AEReply"
    /\ m.term <= currentTerm[m.to] /\ Wanted(m)
    /\ ~m.success
    /\ nextIndex' = [nextIndex EXCEPT ![m.to][m.from] = nextIndexAfterConflict(m.to, m)]
    /\ msgs' = msgs \ {m}
    /\ UNCHANGED <<electionVars, logVars, applyVars, matchIndex, faults>>

-----------------------------------------------------------------------------
(***************************************************************************)
(* Applying committed entries, compaction.                                 *)
(***************************************************************************)

\* maybeSnapshotLocked takes a snapshot once entries up to a are applied.
WantsSnapshot(n, a) ==
    /\ SnapshotThreshold > 0
    /\ Len(log[n]) > SnapshotThreshold
    /\ a > snap[n].index

\* What applyReady feeds to the state machine: entries the snapshot covers are
\* passed over.
Bug_AppliesAgain(n) == {i \in lastApplied[n] .. commitIndex[n] : i > snap[n].index}
ToApply(n) == {i \in lastApplied[n] + 1 .. commitIndex[n] : i > snap[n].index}

AppliedState(n) ==
    sm[n] \o [k \in 1..Cardinality(ToApply(n)) |-> entryAt(n, Min(ToApply(n)) + k - 1)]

\* The snapshot maybeSnapshotLocked takes at index a of the state s.
Bug_SnapshotsWholeLog(n, a, s) ==
    [index |-> lastIndex(n), term |-> lastTerm(n), data |-> s]
SnapshotAt(n, a, s) == [index |-> a, term |-> termAt(n, a), data |-> s]

\* applyReady under its lock: apply everything committed, then compact. A
\* wake-up left over in applyCh may find only compaction to do.
ApplyReady(n) ==
    LET a == commitIndex[n]
        s == AppliedState(n)
    IN
    /\ lastApplied[n] < a \/ WantsSnapshot(n, a)
    /\ sm' = [sm EXCEPT ![n] = s]
    /\ lastApplied' = [lastApplied EXCEPT ![n] = a]
    /\ applied' = applied \cup {<<i, entryAt(n, i)>> : i \in ToApply(n)}
    /\ IF WantsSnapshot(n, a)
       THEN /\ snap' = [snap EXCEPT ![n] = SnapshotAt(n, a, s)]
            /\ log'  = [log EXCEPT ![n] = sliceFrom(n, a + 1)]
            /\ disk' = [disk EXCEPT ![n] =
                 Store!TruncatePrefix(Store!SaveSnapshot(@, SnapshotAt(n, a, s)), a)]
       ELSE UNCHANGED logVars
    /\ UNCHANGED <<electionVars, commitIndex, leaderVars, msgs, faults>>

-----------------------------------------------------------------------------
(***************************************************************************)
(* Crash and restart. The process dies with the store d and loads it.      *)
(***************************************************************************)
Reload(n, d) ==
    /\ disk' = [disk EXCEPT ![n] = d]
    /\ log'  = [log EXCEPT ![n] = Store!LoadedLog(d)]
    /\ snap' = [snap EXCEPT ![n] = d.snap]
    /\ sm'   = [sm EXCEPT ![n] = d.snap.data]
    /\ commitIndex' = [commitIndex EXCEPT ![n] = d.snap.index]
    /\ lastApplied' = [lastApplied EXCEPT ![n] = d.snap.index]
    /\ UNCHANGED leaderVars

\* The calls of a dead process: requests live on, replies are gone.
Orphaned(S, n) ==
    {IF m.type \in {"AE", "IS"} /\ m.from = n THEN [m EXCEPT !.live = FALSE] ELSE m :
        m \in {x \in S : x.type \in {"AE", "IS"} \/ x.to # n}}

\* Between two handlers.
Restart(n) ==
    /\ Fault
    /\ Reload(n, disk[n])
    /\ E!Reboot(n)
    /\ msgs' = Orphaned(msgs, n)
    /\ UNCHANGED applied

\* After SaveSnapshot, before TruncatePrefix, in maybeSnapshotLocked.
CrashInCompaction(n) ==
    LET a == commitIndex[n] IN
    /\ Fault
    /\ WantsSnapshot(n, a)
    /\ Reload(n, Store!SaveSnapshot(disk[n], SnapshotAt(n, a, AppliedState(n))))
    /\ E!Reboot(n)
    /\ msgs' = Orphaned(msgs, n)
    /\ applied' = applied \cup {<<i, entryAt(n, i)>> : i \in ToApply(n)}

\* After TruncateSuffix, before Append, in AppendEntries.
CrashInAppend(m) ==
    /\ Fault
    /\ m.type = "AE"
    /\ m.term >= currentTerm[m.to]
    /\ ~TooShort(m) /\ ~Mismatch(m)
    /\ Conflicts(m) # {}
    /\ Reload(m.to, Truncated(m, disk[m.to]))
    /\ E!DieFollowing(m.to, m.from, m.term)
    /\ msgs' = Orphaned(msgs \ {m}, m.to)
    /\ UNCHANGED applied

\* After the first or the second write of InstallSnapshot.
CrashInInstall(m) ==
    /\ Fault
    /\ m.type = "IS"
    /\ m.term >= currentTerm[m.to]
    /\ m.snap.index > snap[m.to].index
    /\ \E d \in {Dropped(m, disk[m.to]), Saved(m, disk[m.to])} : Reload(m.to, d)
    /\ E!DieFollowing(m.to, m.from, m.term)
    /\ msgs' = Orphaned(msgs \ {m}, m.to)
    /\ UNCHANGED applied

-----------------------------------------------------------------------------
PreVoting(n) ==
    \/ BeginPreVote(n)
    \/ \E r \in preVotes[n] : CampaignWon(n, r) \/ \E p \in Node : PreVoteGranted(n, r, p)
    \/ LeaderSilent(n)

NodeStep(n) ==
    \/ BeginElection(n)
    \/ Propose(n)
    \/ \E p \in Node : SendAppendEntries(n, p) \/ SendSnapshot(n, p)
    \/ ApplyReady(n)

Deliver(m) ==
    \/ StaleLeader(m)
    \/ RejectAppend(m)
    \/ AcceptAppend(m)
    \/ SkipSnapshot(m)
    \/ InstallSnapshot(m)
    \/ ReplyNewerTerm(m)
    \/ ReplyStale(m)
    \/ AppendAcked(m)
    \/ SnapshotAcked(m)
    \/ AppendRejected(m)

DirectStep ==
    \/ \E n \in Node : NodeStep(n)
    \/ \E m \in voteMsgs : VoteCounted(m) \/ OtherVoting(m)
    \/ \E m \in msgs : Deliver(m)

Step == DirectStep \/ \E n \in Node : PreVoting(n)

Crash(n) ==
    \/ Restart(n)
    \/ CrashInCompaction(n)
    \/ \E m \in msgs : m.to = n /\ (CrashInAppend(m) \/ CrashInInstall(m))

Next == Step \/ \E n \in Node : Crash(n)

Spec == Init /\ [][Next]_vars

-----------------------------------------------------------------------------
(***************************************************************************)
(* Properties.                                                             *)
(***************************************************************************)

\* Every variable has the type the code gives it.
TypeOK ==
    /\ E!TypeOK
    /\ log \in [Node -> Log]
    /\ snap \in [Node -> Snap]
    /\ \A n \in Node : disk[n].snap \in Snap /\ DOMAIN disk[n].log \subseteq Index
    /\ sm \in [Node -> Log]
    /\ commitIndex \in [Node -> Index]
    /\ lastApplied \in [Node -> Index]
    /\ nextIndex \in [Node -> [Node -> 1..(MaxIndex + 1)]]
    /\ matchIndex \in [Node -> [Node -> Index]]
    /\ applied \subseteq Index \X (1..MaxTerm)
    /\ faults \in 0..MaxFaults

\* The indices a node holds entries for, above its snapshot.
Held(n) == snap[n].index + 1 .. lastIndex(n)

\* Node n has the entry of term t at index i, in its log or under its snapshot.
Has(n, i, t) == i <= snap[n].index \/ (i \in Held(n) /\ entryAt(n, i) = t)

\* Log matching (the prevLogIndex/prevLogTerm check of AppendEntries): two logs
\* that agree on the term at an index agree on every index below it that both
\* still hold.
LogMatching ==
    \A a, b \in Node : \A i \in Held(a) \cap Held(b) :
        entryAt(a, i) = entryAt(b, i) =>
            \A j \in Held(a) \cap Held(b) : j < i => entryAt(a, j) = entryAt(b, j)

\* The leader of the newest term.
Leads(l) == role[l] = E!Leader /\ \A n \in Node : currentTerm[n] <= currentTerm[l]

\* A majority, with the logs as they are, would vote for c in a new term.
Electable(c) == E!IsQuorum({p \in Node : E!UpToDate(LastPos[c], LastPos[p])})

\* Leader completeness (candidateUpToDate and the commit rule of
\* advanceCommitLocked): a node that lacks an entry any node has ever applied,
\* crashed nodes included, neither leads in the newest term nor could win the
\* next election.
LeaderCompleteness ==
    \A c \in Node, e \in applied :
        ~Has(c, e[1], e[2]) => ~Leads(c) /\ ~Electable(c)

\* State machine safety: no two nodes ever apply different entries at the same
\* index, at any two moments, through crashes, compaction and installed
\* snapshots (advanceCommitLocked, applyReady, InstallSnapshot).
StateMachineSafety == \A e, f \in applied : e[1] = f[1] => e[2] = f[2]

\* A node's state machine is exactly the result of the entries up to lastApplied:
\* no entry is applied twice or left out when a snapshot replaces the state or a
\* restart reads it back (applyReady, InstallSnapshot, the Restore in New).
StateIsReplay ==
    \A n \in Node :
       /\ Len(sm[n]) = lastApplied[n]
       /\ \A i \in 1..Len(sm[n]) : <<i, sm[n][i]>> \in applied

\* applyReady indexes the log at lastApplied + 1 .. commitIndex and
\* maybeSnapshotLocked at lastApplied: outside these bounds the node panics.
IndicesInLog ==
    \A n \in Node : /\ snap[n].index <= lastApplied[n]
                    /\ lastApplied[n] <= commitIndex[n]
                    /\ commitIndex[n] <= lastIndex(n)

\* Persist before you reply: every entry a leader counts a peer for
\* (matchIndex) is one the peer would still have after a crash, as long as the
\* peer has not moved on to a newer term.
AckedIsDurable ==
    \A l, p \in Node :
        (role[l] = E!Leader /\ p # l /\ currentTerm[p] <= currentTerm[l]) =>
            \A i \in Held(l) : i <= matchIndex[l][p] =>
                \/ i <= disk[p].snap.index
                \/ i \in DOMAIN disk[p].log /\ disk[p].log[i] = entryAt(l, i)

\* As long as a node stays up (its commit index does not fall back), no step
\* takes a committed entry out of its log or puts another in its place: it is
\* still there, or covered by the snapshot (the merge of AppendEntries, the
\* suffix InstallSnapshot keeps, compaction).
CommittedStays ==
    [][\A n \in Node : commitIndex'[n] >= commitIndex[n] =>
          \A i \in Held(n), t \in 1..MaxTerm :
              (i <= commitIndex[n] /\ entryAt(n, i) = t) => Has(n, i, t)']_vars

\* The replicating cluster does to terms, votes, roles and log positions only
\* what Election allows: every step is a step of Election or leaves its state
\* alone. Init has E!Init as a conjunct, so the cluster implements E!Spec.
ImplementsElection == [][E!Next]_(E!electionVars)

=============================================================================
