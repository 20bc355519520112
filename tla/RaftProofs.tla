----------------------------- MODULE RaftProofs -----------------------------
(***************************************************************************)
(* The theorems on Raft: RaftInv is inductive, the safety properties       *)
(* follow from it, and every step is a step of Election or leaves its      *)
(* state alone. Then the books a leader keeps on its peers (ReplayInv):    *)
(* no snapshot that is sent takes a state machine back.                    *)
(***************************************************************************)
EXTENDS RaftHandlers

-----------------------------------------------------------------------------
(***************************************************************************)
(* Where logs end: what the steps do to the positions elections compare.   *)
(***************************************************************************)

\* Every handler keeps to StepOk.
LEMMA NextOk ==
    ASSUME RaftInv, [Next]_vars
    PROVE  StepOk
  <1>1. CASE UNCHANGED vars
    <2>1. /\ UNCHANGED <<logVars, applyVars, leaderVars>> /\ leaders' = leaders
          /\ msgs' = msgs /\ faults' = faults
      BY <1>1 DEF vars, electionVars
    <2>2. MessagesOk
      BY <2>1, Given, MessagesKept
    <2>3. faults' \in 0..MaxFaults
      BY <2>1, Given DEF RestTypes
    <2> QED
      BY <2>1, <2>2, <2>3, QuietOk
  <1>2. ASSUME NEW n \in Node, NodeStep(n) PROVE StepOk
    BY <1>2, ElectionStartsOk, ProposeOk, SendAppendEntriesOk, SendSnapshotOk, ApplyReadyOk DEF NodeStep
  <1>3. ASSUME NEW m \in voteMsgs, VoteCounted(m) \/ OtherVoting(m) PROVE StepOk
    BY <1>3, VoteCountedOk, ElectionOnlyOk
  <1>4. ASSUME NEW m \in msgs, Deliver(m) PROVE StepOk
    BY <1>4, StaleLeaderOk, RejectAppendOk, AcceptAppendOk, SkipSnapshotOk, InstallSnapshotOk,
       ReplyDropsOk, AckedOk, AppendRejectedOk DEF Deliver
  <1>5. ASSUME NEW n \in Node, PreVoting(n) PROVE StepOk
    BY <1>5, ElectionOnlyOk, ElectionStartsOk DEF PreVoting
  <1>6. ASSUME NEW n \in Node, Crash(n) PROVE StepOk
    BY <1>6, RestartOk, CrashInCompactionOk, CrashInAppendOk, CrashInInstallOk DEF Crash
  <1> QED
    BY <1>1, <1>2, <1>3, <1>4, <1>5, <1>6 DEF Next, Step, DirectStep

\* Where a node's log ends.
LEMMA PosOf == RestTypes => \A n \in Node : NodeFits(n) => LastPos[n] \in E!Pos
  <1> SUFFICES ASSUME RestTypes, NEW n \in Node, NodeFits(n) PROVE LastPos[n] \in E!Pos
    OBVIOUS
  <1>1. snap[n] \in Snap /\ log[n] \in Seq(1..MaxTerm)
    BY DEF RestTypes, Log
  <1>2. snap[n].index \in Nat /\ snap[n].term \in 0..MaxTerm /\ Len(log[n]) \in Nat
    BY <1>1, Bounds DEF Snap, Index, E!Term
  <1>3. lastIndex(n) = snap[n].index + Len(log[n]) /\ lastIndex(n) \in 0..MaxIndex
    BY <1>2, Bounds DEF lastIndex, NodeFits
  <1>4. lastTerm(n) \in 0..MaxTerm /\ (lastTerm(n) = 0 <=> lastIndex(n) = 0)
    <2>1. CASE log[n] = <<>>
      <3>1. lastTerm(n) = snap[n].term /\ lastIndex(n) = snap[n].index
        BY <1>2, <1>3, <2>1 DEF lastTerm
      <3> QED
        BY <1>2, <3>1 DEF NodeFits, SnapFits
    <2>2. CASE log[n] # <<>>
      <3>1. Len(log[n]) \in 1..Len(log[n])
        BY <1>1, <1>2, <2>2
      <3>2. log[n][Len(log[n])] \in 1..MaxTerm
        BY <1>1, <3>1, ElementOfSeq, Zenon
      <3>3. lastTerm(n) \in 1..MaxTerm
        BY <2>2, <3>2 DEF lastTerm
      <3> QED
        BY <1>2, <1>3, <3>1, <3>3, Bounds
    <2> QED
      BY <2>1, <2>2
  <1>5. LastPos[n] = [term |-> lastTerm(n), index |-> lastIndex(n)]
    BY DEF LastPos
  <1> QED
    BY <1>3, <1>4, <1>5 DEF E!Pos, E!Term

\* The position of a log's end has its type after a step.
LEMMA PosOfNext == (RestTypes => \A n \in Node : NodeFits(n) => LastPos[n] \in E!Pos)'
  BY PosOf, PTL

\* The terms of a node's log are not ahead of the node, after a step.
LEMMA TermsBelow ==
    ASSUME RaftInv, NEW n \in Node, LogStep(n), currentTerm[n] <= currentTerm'[n], currentTerm'[n] \in Nat
    PROVE  \A i \in DOMAIN FullLog(n)' : FullLog(n)'[i] <= currentTerm'[n]
  <1> SUFFICES ASSUME NEW i \in DOMAIN FullLog(n)' PROVE FullLog(n)'[i] <= currentTerm'[n]
    OBVIOUS
  <1>0. Fits /\ TermsSound /\ Sound
    BY Given
  <1>1. /\ OnInterval(FullLog(n), 1, lastIndex(n)) /\ lastIndex(n) \in Nat
        /\ DOMAIN FullLog(n) = 1..lastIndex(n)
        /\ currentTerm[n] \in Nat
        /\ \A j \in 1..lastIndex(n) : FullLog(n)[j] \in Nat /\ FullLog(n)[j] <= currentTerm'[n]
    <2>1. /\ OnInterval(FullLog(n), 1, lastIndex(n)) /\ lastIndex(n) \in Nat
          /\ DOMAIN FullLog(n) = 1..lastIndex(n) /\ \A j \in 1..lastIndex(n) : FullLog(n)[j] \in Nat
      BY <1>0, FullLogShape DEF OnInterval
    <2>2. currentTerm[n] \in 0..MaxTerm
      BY Given DEF ElectionShape
    <2>3. currentTerm[n] \in Nat
      BY <2>2, Bounds
    <2>4. \A j \in 1..lastIndex(n) : FullLog(n)[j] <= currentTerm[n]
      BY <1>0, <2>1 DEF TermsSound
    <2> QED
      BY <2>1, <2>3, <2>4
  <1>2. ASSUME NEW m \in Requests, Followed(n, m)
        PROVE  \A j \in DOMAIN Fragment(m) : Fragment(m)[j] <= currentTerm'[n]
    BY <1>0, <1>2, FragmentTerms DEF Followed
  <1>3. CASE Same(n)
    BY <1>1, <1>3 DEF Same
  <1>4. CASE Grew(n)
    <2>1. GrownFrom(FullLog(n)', FullLog(n), lastIndex(n), currentTerm'[n])
      BY <1>4 DEF Grew
    <2>2. i \in 1..lastIndex(n) + 1
      BY <2>1 DEF GrownFrom
    <2>3. CASE i \in 1..lastIndex(n)
      BY <1>1, <2>1, <2>3 DEF GrownFrom
    <2>4. CASE i = lastIndex(n) + 1
      <3>1. FullLog(n)'[i] = currentTerm'[n]
        BY <2>1, <2>4 DEF GrownFrom
      <3> QED
        BY <3>1
    <2> QED
      BY <1>1, <2>2, <2>3, <2>4
  <1>5. ASSUME NEW m \in Requests, Followed(n, m), Spliced(n, m) PROVE FullLog(n)'[i] <= currentTerm'[n]
    <2>1. PICK K : SpliceOf(FullLog(n)', FullLog(n), lastIndex(n), Fragment(m), FirstOf(m), LastOf(m), K)
      BY <1>5 DEF Spliced
    <2>2. OnInterval(Fragment(m), FirstOf(m), LastOf(m))
      BY <1>0, FragmentShape, Zenon
    <2>3. \/ i \in DOMAIN FullLog(n) /\ FullLog(n)'[i] = FullLog(n)[i]
          \/ i \in DOMAIN Fragment(m) /\ FullLog(n)'[i] = Fragment(m)[i]
      <3>1. PICK new : new = FullLog(n)'
        OBVIOUS
      <3>2. SpliceOf(new, FullLog(n), lastIndex(n), Fragment(m), FirstOf(m), LastOf(m), K)
        BY <2>1, <3>1
      <3>3. K \in Nat
        BY <3>2 DEF SpliceOf
      <3>4. \A x \in DOMAIN new :
               /\ x \in Nat
               /\ x <= K => x \in DOMAIN FullLog(n) /\ new[x] = FullLog(n)[x]
               /\ x > K  => x \in DOMAIN Fragment(m) /\ new[x] = Fragment(m)[x]
        BY <1>1, <2>2, <3>2, SpliceParts
      <3> QED
        BY <3>1, <3>3, <3>4
    <2> QED
      BY <1>1, <1>2, <1>5, <2>3
  <1>6. ASSUME NEW K, LeftTo(n, K) PROVE FullLog(n)'[i] <= currentTerm'[n]
    <2>1. K \in 0..lastIndex(n) /\ i \in 1..K /\ FullLog(n)'[i] = FullLog(n)[i]
      BY <1>6 DEF LeftTo
    <2>2. i \in 1..lastIndex(n)
      BY <1>1, <2>1
    <2> QED
      BY <1>1, <2>1, <2>2
  <1>7. ASSUME NEW m \in Requests, Followed(n, m), Replaced(n, m) PROVE FullLog(n)'[i] <= currentTerm'[n]
    BY <1>2, <1>7 DEF Replaced
  <1> QED
    BY <1>3, <1>4, <1>5, <1>6, <1>7 DEF LogStep, CutAt, Emptied

\* A handler moves the end of one node's log at most.
LEMMA OthersStay ==
    ASSUME RaftInv, StepOk, NEW n \in Node, NEW l, NEW s,
           log' = [log EXCEPT ![n] = l], snap' = [snap EXCEPT ![n] = s]
    PROVE  LastPos' = [LastPos EXCEPT ![n] = LastPos'[n]]
  <1>1. ASSUME NEW p \in Node, p # n PROVE LastPos'[p] = LastPos[p]
    <2>1. log'[p] = log[p] /\ snap'[p] = snap[p]
      BY <1>1, Given DEF RestTypes
    <2> QED
      BY <2>1, Given, SameLog DEF StepOk
  <1>2. /\ LastPos = [p \in Node |-> LastPos[p]]
        /\ LastPos' = [p \in Node |-> LastPos'[p]]
    BY DEF LastPos
  <1> QED
    BY <1>1, <1>2

\* A log that does not change ends where it did.
LEMMA SameEnds ==
    ASSUME RaftInv, StepOk, NEW n \in Node, Same(n)
    PROVE  LastPos'[n] = LastPos[n]
  <1>1. /\ lastIndex(n) \in Nat /\ DOMAIN FullLog(n) = 1..lastIndex(n)
        /\ LastPos[n] = [term |-> lastTerm(n), index |-> lastIndex(n)]
        /\ lastIndex(n) > 0 => lastTerm(n) = FullLog(n)[lastIndex(n)]
        /\ lastIndex(n) = 0 => lastTerm(n) = 0
    BY Given, FullLogShape, LastPosIs, PosTypes DEF OnInterval
  <1>2. NodeFits(n)' /\ RestTypes' /\ AppliedType' /\ StateMachineSafety'
    BY Given, EveryNodeOk DEF NodeOk, StepOk, AppliedGrows
  <1>3. PICK hi : hi = lastIndex(n)'
    OBVIOUS
  <1>4. hi \in Nat
    <2>1. snap'[n] \in Snap /\ log'[n] \in Seq(1..MaxTerm)
      BY <1>2 DEF RestTypes, Log
    <2>2. snap'[n].index \in Nat /\ Len(log'[n]) \in Nat
      BY <2>1, Bounds DEF Snap, Index
    <2>3. hi = snap'[n].index + Len(log'[n])
      BY <1>3 DEF lastIndex
    <2> QED
      BY <2>2, <2>3
  <1>5. 1..hi = 1..lastIndex(n)
    <2>1. DOMAIN FullLog(n)' = 1..hi
      BY <1>3, <1>4, FullLogAt
    <2> QED
      BY <1>1, <2>1 DEF Same
  <1>6. hi = lastIndex(n)
    BY <1>1, <1>4, <1>5, IntervalSame
  <1>7. lastTerm(n)' = lastTerm(n)
    <2>1. SnapFits(snap[n])'
      BY <1>2 DEF NodeFits
    <2>2. /\ lastIndex(n)' > 0 => lastTerm(n)' = FullLog(n)'[lastIndex(n)']
          /\ lastIndex(n)' = 0 => lastTerm(n)' = 0
      BY <1>2, <2>1, LastTermOfNext
    <2> QED
      BY <1>1, <1>3, <1>6, <2>2 DEF Same
  <1>8. LastPos'[n] = [term |-> lastTerm(n)', index |-> lastIndex(n)']
    BY DEF LastPos
  <1> QED
    BY <1>1, <1>3, <1>6, <1>7, <1>8, Zenon

\* A log that has taken a request over ends with an entry no newer than that.
LEMMA TookEnds ==
    ASSUME RaftInv, StepOk, NEW m \in Requests, Followed(m.to, m), Took(m.to, m), LastOf(m) > 0
    PROVE  LastPos'[m.to] \in E!Pos /\ LastPos'[m.to].term \in 1..m.term
  <1>1. PICK n \in Node : n = m.to
    BY Given, FragmentShape, Zenon
  <1>2. NodeFits(n)' /\ RestTypes' /\ AppliedType' /\ StateMachineSafety' /\ LogStep(n)
    BY Given, EveryNodeOk DEF NodeOk, StepOk, AppliedGrows
  <1>3. /\ m.term \in Nat /\ LastOf(m) \in Nat /\ LastOf(m) \in DOMAIN Fragment(m)
        /\ currentTerm[n] <= m.term /\ currentTerm'[n] = m.term
    <2>1. /\ m.term \in 1..MaxTerm /\ LastOf(m) \in 0..MaxIndex
          /\ OnInterval(Fragment(m), FirstOf(m), LastOf(m)) /\ FirstOf(m) \in Nat
          /\ (m.type = "AE" => LastOf(m) >= FirstOf(m)) /\ (m.type = "IS" => FirstOf(m) = 1)
          /\ (m.type = "AE" \/ m.type = "IS")
      BY Given, FragmentShape, Zenon
    <2>2. LastOf(m) \in FirstOf(m)..LastOf(m) /\ m.term \in Nat
      BY <2>1, Bounds
    <2> QED
      BY <1>1, <2>1, <2>2, Bounds DEF Followed, OnInterval
  <1>4. \A i \in DOMAIN FullLog(n)' : FullLog(n)'[i] <= m.term
    BY <1>2, <1>3, TermsBelow
  <1>5. LastPos'[n] \in E!Pos
    BY <1>2, PosOfNext
  <1>6. PICK hi, lt : hi = lastIndex(n)' /\ lt = lastTerm(n)'
    OBVIOUS
  <1>7. LastPos'[n] = [term |-> lt, index |-> hi]
    BY <1>6 DEF LastPos
  <1>8. lt \in 0..MaxTerm /\ hi \in 0..MaxIndex /\ (lt = 0 <=> hi = 0)
    BY <1>5, <1>7 DEF E!Pos, E!Term
  <1>9. hi \in Nat /\ lt \in Nat
    BY <1>8, Bounds
  <1>10. DOMAIN FullLog(n)' = 1..hi
    BY <1>6, <1>9, FullLogAt
  <1>11. LastOf(m) \in 1..hi
    BY <1>1, <1>3, <1>10 DEF Took
  <1>12. hi > 0 /\ hi \in 1..hi
    BY <1>3, <1>9, <1>11
  <1>13. lt = FullLog(n)'[hi]
    <2>1. SnapFits(snap[n])'
      BY <1>2 DEF NodeFits
    <2> QED
      BY <1>2, <1>6, <1>12, <2>1, LastTermOfNext
  <1>14. lt \in 1..m.term
    BY <1>3, <1>4, <1>8, <1>9, <1>10, <1>12, <1>13
  <1> QED
    BY <1>1, <1>5, <1>7, <1>14

-----------------------------------------------------------------------------
(***************************************************************************)
(* The cluster implements Election.                                        *)
(***************************************************************************)
ElectionAllows == [E!Next]_(E!electionVars)

\* Handlers that leave the logs alone.
LEMMA QuietEnds ==
    ASSUME UNCHANGED <<log, snap>>
    PROVE  LastPos' = LastPos
  BY DEF LastPos, lastIndex, lastTerm

\* Requests and replies that concern logs only.
LEMMA QuietElection ==
    ASSUME UNCHANGED electionVars, LastPos' = LastPos
    PROVE  ElectionAllows
  BY DEF ElectionAllows, electionVars, E!electionVars

\* The steps of campaigns and votes are steps of Election.
LEMMA CampaignAllowed ==
    ASSUME RaftInv,
           \/ \E n \in Node : \/ BeginPreVote(n) \/ BeginElection(n) \/ LeaderSilent(n) \/ Propose(n)
                              \/ \E r \in preVotes[n] : \/ CampaignWon(n, r)
                                                        \/ \E p \in Node : PreVoteGranted(n, r, p)
           \/ \E m \in voteMsgs : VoteCounted(m) \/ OtherVoting(m)
    PROVE  ElectionAllows
  <1>1. ASSUME NEW n \in Node,
               \/ E!BeginPreVote(n) \/ E!BeginElection(n)
               \/ \E r \in preVotes[n] : \/ E!CampaignWon(n, r)
                                         \/ \E p \in Node : E!PreVoteGranted(n, r, p)
        PROVE  E!Next
    BY <1>1 DEF E!Next, E!Campaign
  <1>2. ASSUME NEW n \in Node, E!LeaderSilent(n) \/ E!LeaderAppend(n)
        PROVE  E!Next
    BY <1>2 DEF E!Next, E!Environment
  <1>3. ASSUME NEW m \in voteMsgs,
               E!VoteCounted(m) \/ E!HandleRequestVote(m) \/ E!VoteReplyNewer(m) \/ E!VoteReplyIgnored(m)
        PROVE  E!Next
    BY <1>3 DEF E!Next, E!Voting
  <1>4. ASSUME NEW n \in Node PROVE
          /\ BeginPreVote(n) => E!BeginPreVote(n)
          /\ BeginElection(n) => E!BeginElection(n)
          /\ LeaderSilent(n) => E!LeaderSilent(n)
          /\ Propose(n) => E!LeaderAppend(n)
          /\ \A r : CampaignWon(n, r) => E!CampaignWon(n, r)
          /\ \A r, p : PreVoteGranted(n, r, p) => E!PreVoteGranted(n, r, p)
    BY DEF BeginPreVote, BeginElection, LeaderSilent, Propose, CampaignWon, PreVoteGranted
  <1>5. ASSUME NEW m \in voteMsgs PROVE
          /\ VoteCounted(m) => E!VoteCounted(m)
          /\ OtherVoting(m) => E!HandleRequestVote(m) \/ E!VoteReplyNewer(m) \/ E!VoteReplyIgnored(m)
    BY DEF VoteCounted, OtherVoting
  <1> QED
    BY <1>1, <1>2, <1>3, <1>4, <1>5 DEF ElectionAllows

\* AppendEntries and InstallSnapshot are leader contact.
LEMMA ContactAllowed ==
    ASSUME RaftInv, NEW m \in msgs,
           RejectAppend(m) \/ SkipSnapshot(m) \/ AcceptAppend(m) \/ InstallSnapshot(m)
    PROVE  ElectionAllows
  <1>1. /\ m \in Requests /\ m.term >= currentTerm[m.to] /\ E!FollowLeader(m.to, m.from, m.term)
    BY Zenon DEF RejectAppend, SkipSnapshot, AcceptAppend, InstallSnapshot, Requests
  <1>2. /\ m.to \in Node /\ m.from \in Node /\ m.term \in E!Term
    <2>1. m.to \in Node /\ m.from \in Node /\ m.term \in 1..MaxTerm
      BY <1>1, Given, FragmentShape, Zenon
    <2> QED
      BY <2>1, Bounds DEF E!Term
  <1>3. \E pos \in E!Pos : /\ pos = LastPos[m.to] \/ pos.term \in 1..m.term
                           /\ LastPos' = [LastPos EXCEPT ![m.to] = pos]
    <2>1. CASE RejectAppend(m) \/ SkipSnapshot(m)
      <3>1. LastPos' = LastPos
        BY <2>1, QuietEnds, Zenon DEF RejectAppend, SkipSnapshot, logVars
      <3>2. RestTypes /\ NodeFits(m.to)
        BY <1>2, Given DEF Fits, NodesFit
      <3>3. LastPos[m.to] \in E!Pos
        BY <1>2, <3>2, PosOf
      <3>4. LastPos' = [LastPos EXCEPT ![m.to] = LastPos[m.to]]
        BY <3>1 DEF LastPos
      <3> QED
        BY <3>3, <3>4, Zenon
    <2>2. CASE AcceptAppend(m) \/ InstallSnapshot(m)
      <3>1. StepOk /\ Took(m.to, m)
        BY <2>2, AcceptAppendOk, InstallSnapshotOk
      <3>2. Followed(m.to, m)
        BY <1>1, FollowIs
      <3>3. LastOf(m) > 0
        <4>1. CASE AcceptAppend(m)
          <5>1. m.type = "AE"
            BY <4>1 DEF AcceptAppend
          <5>2. LastOf(m) \in 1..MaxIndex
            BY <1>1, <5>1, Given, FragmentShape, Zenon
          <5> QED
            BY <5>2, Bounds
        <4>2. CASE InstallSnapshot(m)
          <5>1. NewSnapshot(m)
            BY <1>1, <4>2 DEF InstallSnapshot, NewSnapshot
          <5> QED
            BY <5>1, SentSnapshotIs
        <4> QED
          BY <2>2, <4>1, <4>2
      <3>4. LastPos'[m.to] \in E!Pos /\ LastPos'[m.to].term \in 1..m.term
        BY <1>1, <3>1, <3>2, <3>3, TookEnds
      <3>5. \E l, s : log' = [log EXCEPT ![m.to] = l] /\ snap' = [snap EXCEPT ![m.to] = s]
        <4>1. CASE AcceptAppend(m)
          <5>1. log' = [log EXCEPT ![m.to] = Merged(m)] /\ snap' = snap
            BY <4>1 DEF AcceptAppend
          <5>2. snap' = [snap EXCEPT ![m.to] = snap[m.to]]
            BY <5>1, Given DEF RestTypes
          <5> QED
            BY <5>1, <5>2, Zenon
        <4>2. CASE InstallSnapshot(m)
          BY <4>2, Zenon DEF InstallSnapshot
        <4> QED
          BY <2>2, <4>1, <4>2
      <3>6. LastPos' = [LastPos EXCEPT ![m.to] = LastPos'[m.to]]
        BY <1>2, <3>1, <3>5, OthersStay, Zenon
      <3> QED
        BY <3>4, <3>6
    <2> QED
      BY <2>1, <2>2
  <1>4. E!LeaderContact(m.to, m.from, m.term)
    BY <1>1, <1>3, Zenon DEF E!LeaderContact
  <1> QED
    BY <1>2, <1>4 DEF ElectionAllows, E!Next, E!Environment

\* Replies of newer terms.
LEMMA LearningAllowed ==
    ASSUME RaftInv, NEW m \in msgs, ReplyNewerTerm(m)
    PROVE  ElectionAllows
  <1>1. E!LearnTerm(m.to, m.term) /\ m.type \in {"AEReply", "ISReply", "TermReply"}
    BY DEF ReplyNewerTerm, IsReply
  <1>2. m \in Reply
    BY <1>1, Given, MessageTypes DEF Fits, RequestsFit, AppendRequest, SnapshotRequest
  <1>3. m.to \in Node /\ m.term \in 1..MaxTerm
    BY <1>2 DEF Reply
  <1>4. m.term \in E!Term
    BY <1>3, Bounds DEF E!Term
  <1> QED
    BY <1>1, <1>3, <1>4 DEF ElectionAllows, E!Next, E!Environment

\* Crashes.
LEMMA CrashAllowed ==
    ASSUME RaftInv, NEW n \in Node, Crash(n)
    PROVE  ElectionAllows
  <1>1. ASSUME NEW d, Reload(n, d), StepOk PROVE LastPos' = [LastPos EXCEPT ![n] = LastPos'[n]]
    <2>1. \E l, s : log' = [log EXCEPT ![n] = l] /\ snap' = [snap EXCEPT ![n] = s]
      BY <1>1, Zenon DEF Reload
    <2> QED
      BY <1>1, <2>1, OthersStay, Zenon
  <1>2. CASE Restart(n) \/ CrashInCompaction(n)
    <2>1. StepOk /\ Same(n) /\ (\E d : Reload(n, d)) /\ E!Reboot(n)
      BY <1>2, RestartOk, CrashInCompactionOk DEF Restart, CrashInCompaction
    <2>2. LastPos'[n] = LastPos[n]
      BY <2>1, SameEnds
    <2>3. LastPos' = LastPos
      BY <1>1, <2>1, <2>2, Zenon DEF LastPos
    <2>4. E!Restart(n)
      BY <2>1, <2>3 DEF E!Restart
    <2> QED
      BY <2>4 DEF ElectionAllows, E!Next, E!Environment
  <1>3. ASSUME NEW m \in msgs, m.to = n, CrashInAppend(m) \/ CrashInInstall(m)
        PROVE  ElectionAllows
    <2>1. StepOk /\ (\E d : Reload(n, d)) /\ E!DieFollowing(n, m.from, m.term) /\ m \in Requests
      BY <1>3, CrashInAppendOk, CrashInInstallOk, Zenon DEF CrashInAppend, CrashInInstall, Requests
    <2>2. m.from \in Node /\ m.term \in E!Term
      <3>1. m.from \in Node /\ m.term \in 1..MaxTerm
        BY <2>1, Given, FragmentShape, Zenon
      <3> QED
        BY <3>1, Bounds DEF E!Term
    <2>3. LastPos'[n] \in E!Pos
      <3>1. NodeFits(n)' /\ RestTypes'
        BY <2>1, Given, EveryNodeOk DEF NodeOk, StepOk
      <3> QED
        BY <3>1, PosOfNext
    <2>4. LastPos' = [LastPos EXCEPT ![n] = LastPos'[n]]
      BY <1>1, <2>1
    <2>5. E!CrashInHandler(n, m.from, m.term)
      BY <2>1, <2>3, <2>4 DEF E!CrashInHandler
    <2> QED
      BY <2>2, <2>5 DEF ElectionAllows, E!Next, E!Environment
  <1> QED
    BY <1>2, <1>3 DEF Crash

\* Every step is a step of Election, or none.
LEMMA StepAllowed ==
    ASSUME RaftInv, [Next]_vars
    PROVE  ElectionAllows
  <1>1. CASE UNCHANGED vars
    <2>1. UNCHANGED electionVars /\ UNCHANGED <<log, snap>>
      BY <1>1 DEF vars, logVars
    <2> QED
      BY <2>1, QuietEnds, QuietElection
  <1>2. ASSUME NEW n \in Node, ApplyReady(n) PROVE ElectionAllows
    <2>1. UNCHANGED electionVars /\ StepOk /\ Same(n)
      BY <1>2, ApplyReadyOk, Zenon DEF ApplyReady
    <2>2. LastPos'[n] = LastPos[n]
      BY <2>1, SameEnds
    <2>3. \E l, s : log' = [log EXCEPT ![n] = l] /\ snap' = [snap EXCEPT ![n] = s]
      <3>1. CASE WantsSnapshot(n, commitIndex[n])
        BY <1>2, <3>1 DEF ApplyReady
      <3>2. CASE ~WantsSnapshot(n, commitIndex[n])
        <4>1. log' = log /\ snap' = snap
          BY <1>2, <3>2 DEF ApplyReady, logVars
        <4>2. log' = [log EXCEPT ![n] = log[n]] /\ snap' = [snap EXCEPT ![n] = snap[n]]
          BY <4>1, Given DEF RestTypes
        <4> QED
          BY <4>2, Zenon
      <3> QED
        BY <3>1, <3>2
    <2>4. LastPos' = LastPos
      <3>1. LastPos' = [LastPos EXCEPT ![n] = LastPos'[n]]
        BY <2>1, <2>3, OthersStay, Zenon
      <3>2. LastPos = [p \in Node |-> LastPos[p]]
        BY DEF LastPos
      <3> QED
        BY <2>2, <3>1, <3>2
    <2> QED
      BY <2>1, <2>4, QuietElection
  <1>3. ASSUME NEW n \in Node, NodeStep(n) PROVE ElectionAllows
    <2>1. ASSUME NEW p \in Node, SendAppendEntries(n, p) \/ SendSnapshot(n, p) PROVE ElectionAllows
      <3>1. UNCHANGED electionVars /\ UNCHANGED <<log, snap>>
        BY <2>1 DEF SendAppendEntries, SendSnapshot, logVars
      <3> QED
        BY <3>1, QuietEnds, QuietElection
    <2> QED
      BY <1>2, <1>3, <2>1, CampaignAllowed DEF NodeStep
  <1>4. ASSUME NEW m \in voteMsgs, VoteCounted(m) \/ OtherVoting(m) PROVE ElectionAllows
    BY <1>4, CampaignAllowed
  <1>5. ASSUME NEW m \in msgs, Deliver(m) PROVE ElectionAllows
    <2>1. CASE StaleLeader(m) \/ ReplyStale(m) \/ AppendAcked(m) \/ SnapshotAcked(m) \/ AppendRejected(m)
      <3>1. UNCHANGED electionVars /\ UNCHANGED <<log, snap>>
        BY <2>1, Zenon DEF StaleLeader, ReplyStale, AppendAcked, SnapshotAcked, AppendRejected, logVars
      <3> QED
        BY <3>1, QuietEnds, QuietElection
    <2> QED
      BY <1>5, <2>1, ContactAllowed, LearningAllowed DEF Deliver
  <1>6. ASSUME NEW n \in Node, PreVoting(n) PROVE ElectionAllows
    BY <1>6, CampaignAllowed DEF PreVoting
  <1> QED
    BY <1>1, <1>3, <1>4, <1>5, <1>6, CrashAllowed DEF Next, Step, DirectStep

-----------------------------------------------------------------------------
(***************************************************************************)
(* Election as ElectionProofs sees it.                                     *)
(***************************************************************************)
\* A step of Election with the log positions of Raft is a step of the Election
\* that ElectionProofs is about.
LEMMA SameElection ==
    ASSUME ElectionAllows
    PROVE  [EP!Next]_(EP!electionVars)
  <1>1. CASE UNCHANGED E!electionVars
    BY <1>1 DEF E!electionVars, EP!electionVars
  <1> USE DEF E!Follower, EP!Follower, E!Candidate, EP!Candidate, E!Leader, EP!Leader, E!Term, EP!Term,
              E!Pos, EP!Pos
  <1>2. \A S : E!IsQuorum(S) <=> EP!IsQuorum(S)
    BY SameQuorum
  <1>3. \A p, q : E!UpToDate(p, q) <=> EP!UpToDate(p, q)
    BY DEF E!UpToDate, EP!UpToDate
  <1>4. ASSUME NEW n, NEW t, NEW v, NEW x, E!persistHardState(n, t, v, x) PROVE EP!persistHardState(n, t, v, x)
    BY <1>4, Zenon DEF E!persistHardState, EP!persistHardState
  <1>5. ASSUME NEW n, NEW t, E!stepDown(n, t) PROVE EP!stepDown(n, t)
    BY <1>4, <1>5 DEF E!stepDown, EP!stepDown
  <1>6. ASSUME NEW n, NEW pos, E!startRealElection(n, pos) PROVE EP!startRealElection(n, pos)
    BY <1>6, Zenon DEF E!startRealElection, EP!startRealElection, E!becomeLeader, EP!becomeLeader,
       E!persistHardState, EP!persistHardState, E!IsQuorum, EP!IsQuorum, E!Quorum, EP!Quorum,
       E!Room, EP!Room, E!Cardinality, EP!Cardinality
  <1>7. ASSUME NEW n \in Node, E!Campaign(n) PROVE EP!Campaign(n)
    <2>1. E!BeginPreVote(n) => EP!BeginPreVote(n)
      BY Zenon DEF E!BeginPreVote, EP!BeginPreVote, E!ElectionTimeout, EP!ElectionTimeout,
         E!Cardinality, EP!Cardinality
    <2>2. E!BeginElection(n) => EP!BeginElection(n)
      BY <1>6 DEF E!BeginElection, EP!BeginElection, E!ElectionTimeout, EP!ElectionTimeout
    <2>3. \A r, p : E!PreVoteGranted(n, r, p) => EP!PreVoteGranted(n, r, p)
      BY <1>2, <1>3 DEF E!PreVoteGranted, EP!PreVoteGranted, E!WouldGrant, EP!WouldGrant
    <2>4. \A r : E!CampaignWon(n, r) => EP!CampaignWon(n, r)
      BY <1>2, <1>6 DEF E!CampaignWon, EP!CampaignWon
    <2> QED
      BY <1>7, <2>1, <2>2, <2>3, <2>4 DEF E!Campaign, EP!Campaign
  <1>8. ASSUME NEW m, E!Voting(m) PROVE EP!Voting(m)
    <2>1. E!HandleRequestVote(m) => EP!HandleRequestVote(m)
      BY <1>3, <1>4, Zenon DEF E!HandleRequestVote, EP!HandleRequestVote, E!Grants, EP!Grants, E!VoteIn, EP!VoteIn,
         E!VoteReplyTo, EP!VoteReplyTo
    <2>2. E!VoteReplyNewer(m) => EP!VoteReplyNewer(m)
      BY <1>5 DEF E!VoteReplyNewer, EP!VoteReplyNewer
    <2>3. E!VoteCounted(m) => EP!VoteCounted(m)
      BY <1>2 DEF E!VoteCounted, EP!VoteCounted, E!ReplyCurrent, EP!ReplyCurrent, E!becomeLeader, EP!becomeLeader
    <2>4. E!VoteReplyIgnored(m) => EP!VoteReplyIgnored(m)
      BY DEF E!VoteReplyIgnored, EP!VoteReplyIgnored, E!ReplyCurrent, EP!ReplyCurrent
    <2> QED
      BY <1>8, <2>1, <2>2, <2>3, <2>4 DEF E!Voting, EP!Voting
  <1>9. ASSUME NEW n \in Node, E!Environment(n) PROVE EP!Environment(n)
    <2>0. E!Orphaned(n) = EP!Orphaned(n)
      BY DEF E!Orphaned, EP!Orphaned
    <2>1. \A l, t : E!LeaderContact(n, l, t) => EP!LeaderContact(n, l, t)
      BY <1>5, Zenon DEF E!LeaderContact, EP!LeaderContact, E!FollowLeader, EP!FollowLeader
    <2>2. \A l, t : E!CrashInHandler(n, l, t) => EP!CrashInHandler(n, l, t)
      BY <1>5, <2>0, Zenon DEF E!CrashInHandler, EP!CrashInHandler, E!DieFollowing, EP!DieFollowing
    <2>3. E!LeaderSilent(n) => EP!LeaderSilent(n)
      BY DEF E!LeaderSilent, EP!LeaderSilent
    <2>4. \A t : E!LearnTerm(n, t) => EP!LearnTerm(n, t)
      BY <1>5 DEF E!LearnTerm, EP!LearnTerm
    <2>5. E!LeaderAppend(n) => EP!LeaderAppend(n)
      BY DEF E!LeaderAppend, EP!LeaderAppend
    <2>6. E!Restart(n) => EP!Restart(n)
      BY <2>0 DEF E!Restart, EP!Restart, E!Reboot, EP!Reboot
    <2> QED
      BY <1>9, <2>1, <2>2, <2>3, <2>4, <2>5, <2>6 DEF E!Environment, EP!Environment
  <1> QED
    BY <1>1, <1>7, <1>8, <1>9 DEF ElectionAllows, E!Next, EP!Next

\* What a step of Election does.
LEMMA ElectionKept ==
    ASSUME RaftInv, ~StorageMayFail, ElectionAllows
    PROVE  ElectionMoved /\ EP!VotesKept
  <1>1. EP!SafetyInv /\ EP!ClaimsInv
    BY Given DEF Elections
  <1>2. [EP!Next]_(EP!electionVars)
    BY SameElection
  <1>3. EP!SafetyInv' /\ EP!VotesKept /\ leaders \subseteq leaders'
    BY <1>1, <1>2, EP!SafetyPreserved, NodeFinite, NodeAssumption, BoundAssumption, FlagAssumption
  <1>4. EP!ClaimStep
    BY <1>1, <1>2, EP!NextClaims, NodeFinite, NodeAssumption, BoundAssumption, FlagAssumption
  <1>5. ASSUME NEW n \in Node PROVE currentTerm[n] <= currentTerm'[n]
    <2>1. EP!TypeOK /\ EP!TypeOK'
      BY <1>1, <1>3 DEF EP!SafetyInv, EP!TypeInv
    <2>2. currentTerm[n] \in 0..MaxTerm /\ currentTerm'[n] \in 0..MaxTerm
      BY <2>1 DEF EP!TypeOK, EP!Term
    <2>3. currentTerm'[n] >= currentTerm[n]
      BY <1>3 DEF EP!VotesKept
    <2> QED
      BY <2>2, <2>3, Bounds
  <1> QED
    BY <1>3, <1>4, <1>5 DEF ElectionMoved

\* The invariant is inductive.
LEMMA RaftNext ==
    ASSUME RaftInv, ~StorageMayFail, [Next]_vars
    PROVE  RaftInv' /\ Step2 /\ ElectionAllows
  <1>1. StepOk
    BY NextOk
  <1>2. ElectionAllows
    BY StepAllowed
  <1>3. ElectionMoved /\ EP!VotesKept
    BY <1>2, ElectionKept
  <1> QED
    BY <1>1, <1>2, <1>3, InvariantKept, StepFacts

\* At the start all logs are empty and nothing is under way.
LEMMA RaftStarts == Init => RaftInv
  <1> SUFFICES ASSUME Init PROVE RaftInv
    OBVIOUS
  <1>1. Elections
    <2>1. EP!Init
      BY DEF Init, E!Init, EP!Init, E!Follower, EP!Follower
    <2>2. EP!SafetyInv
      BY <2>1, EP!SafetyInit, NodeFinite, NodeAssumption, BoundAssumption, FlagAssumption
    <2>3. EP!ClaimsInv
      BY <2>1, EP!ClaimsInit, NodeFinite, NodeAssumption, BoundAssumption, FlagAssumption
    <2> QED
      BY <2>2, <2>3 DEF Elections
  <1>2. /\ msgs = {} /\ applied = {} /\ leaders = {}
        /\ log = [n \in Node |-> <<>>] /\ snap = [n \in Node |-> Store!NoSnapshot]
        /\ disk = [n \in Node |-> Store!EmptyStore]
        /\ commitIndex = [n \in Node |-> 0] /\ lastApplied = [n \in Node |-> 0]
        /\ sm = [n \in Node |-> <<>>] /\ faults = 0
        /\ nextIndex = [n \in Node |-> [p \in Node |-> 1]]
        /\ matchIndex = [n \in Node |-> [p \in Node |-> 0]]
    BY DEF Init, E!Init
  <1>3. ASSUME NEW n \in Node
        PROVE  /\ snap[n].index = 0 /\ snap[n].term = 0 /\ log[n] = <<>> /\ lastIndex(n) = 0
               /\ disk[n].snap = snap[n] /\ disk[n].log = <<>>
               /\ disk[n] = [log |-> disk[n].log, snap |-> disk[n].snap]
               /\ commitIndex[n] = 0 /\ lastApplied[n] = 0
    BY <1>2, EmptySeq DEF Store!NoSnapshot, Store!EmptyStore, lastIndex
  <1>3a. ASSUME NEW n \in Node
         PROVE  /\ snap[n].index = 0 /\ snap[n].term = 0 /\ lastIndex(n) = 0
                /\ commitIndex[n] = 0 /\ lastApplied[n] = 0
    BY <1>3, Zenon
  <1>4. ASSUME NEW n \in Node PROVE Held(n) = {} /\ DOMAIN FullLog(n) = {} /\ DOMAIN disk[n].log = {}
    <2>0. 1..0 = {} /\ 0 + 1 .. 0 = {}
      OBVIOUS
    <2>1. Held(n) = {} /\ DOMAIN FullLog(n) = {}
      <3>1. Held(n) = snap[n].index + 1 .. lastIndex(n) /\ DOMAIN FullLog(n) = 1..lastIndex(n)
        BY DEF Held, FullLog
      <3> QED
        BY <1>3, <2>0, <3>1, Zenon
    <2>2. DOMAIN <<>> = {}
      OBVIOUS
    <2> QED
      BY <1>3, <2>1, <2>2, Zenon
  <1>5. TypeOK
    <2>1. E!TypeOK
      <3>1. EP!TypeOK
        BY <1>1 DEF Elections, EP!SafetyInv, EP!TypeInv
      <3> QED
        BY <3>1 DEF E!TypeOK, EP!TypeOK, E!Term, EP!Term, E!HardState, EP!HardState, E!Follower, EP!Follower,
           E!Candidate, EP!Candidate, E!Leader, EP!Leader, E!Pos, EP!Pos, E!Round, EP!Round,
           E!VoteMsg, EP!VoteMsg, E!VoteRequest, EP!VoteRequest, E!VoteReply, EP!VoteReply,
           E!Victory, EP!Victory
    <2>2. <<>> \in Log
      BY EmptySeq DEF Log
    <2>3. Store!NoSnapshot \in Snap
      BY <2>2, Bounds DEF Store!NoSnapshot, Snap, Index, E!Term
    <2>4. 0 \in Index /\ 1 \in 1..(MaxIndex + 1) /\ 0 \in 0..MaxFaults
      BY BoundAssumption DEF Index
    <2>5. \A n \in Node : disk[n].snap \in Snap /\ DOMAIN disk[n].log \subseteq Index
      <3> SUFFICES ASSUME NEW n \in Node PROVE disk[n].snap \in Snap /\ DOMAIN disk[n].log \subseteq Index
        OBVIOUS
      <3>1. snap[n] = Store!NoSnapshot
        BY <1>2
      <3> QED
        BY <1>3, <1>4, <2>3, <3>1, Zenon
    <2>6. log \in [Node -> Log] /\ snap \in [Node -> Snap] /\ sm \in [Node -> Log]
      BY <1>2, <2>2, <2>3
    <2>7. /\ commitIndex \in [Node -> Index] /\ lastApplied \in [Node -> Index]
          /\ nextIndex \in [Node -> [Node -> 1..(MaxIndex + 1)]]
          /\ matchIndex \in [Node -> [Node -> Index]]
      BY <1>2, <2>4
    <2> QED
      BY <1>2, <2>1, <2>4, <2>5, <2>6, <2>7 DEF TypeOK
  <1>6. NodesFit
    <2>1. Stores
      BY <1>2, <1>3 DEF Stores
    <2>2. StateMachineSafety
      BY <1>2 DEF StateMachineSafety
    <2>3. ASSUME NEW n \in Node PROVE NodeFits(n)
      <3>0. \A i \in 1..0 : FALSE
        OBVIOUS
      <3>1. SnapFits(snap[n])
        BY <1>3a, <3>0 DEF SnapFits
      <3>2. DiskFits(n)
        BY <1>3, <1>4, Zenon DEF DiskFits
      <3> QED
        BY <1>3a, <3>0, <3>1, <3>2, Bounds DEF NodeFits
    <2> QED
      BY <2>1, <2>2, <2>3 DEF NodesFit
  <1>7. Requests = {} /\ Replies = {}
    <2>1. Requests = {}
      BY <1>2 DEF Requests
    <2> QED
      BY <1>2, <2>1 DEF Replies
  <1>8. RequestsFit
    BY <1>2, <1>7 DEF RequestsFit
  <1>9. IndicesInLog
    BY <1>3a DEF IndicesInLog
  <1>10. \A n \in Node : ~Crowned(n)
    BY <1>2 DEF Crowned
  <1>11. \A e \in Carriers : DOMAIN e = {}
    BY <1>4, <1>7 DEF Carriers
  <1>12. Histories
    <2>1. TermsSound
      BY <1>4, <1>11 DEF TermsSound, Ascending
    <2>2. Coherent
      BY <1>11 DEF Coherent, Coheres
    <2>3. WinnersOwn
      BY <1>10 DEF WinnersOwn
    <2> QED
      BY <2>1, <2>2, <2>3 DEF Histories
  <1>13. Commits
    <2>1. AcksHold /\ AcksSecure
      BY <1>10 DEF AcksHold, AcksSecure
    <2>2. CommitsSecured
      <3>1. \A k \in 1..MaxIndex : k # 0
        BY Bounds
      <3> QED
        BY <1>3, <1>7, <3>1, Zenon DEF CommitsSecured
    <2>3. AppliedSettled
      BY <1>2 DEF AppliedSettled
    <2> QED
      BY <2>1, <2>2, <2>3 DEF Commits
  <1> QED
    BY <1>1, <1>5, <1>6, <1>8, <1>9, <1>12, <1>13 DEF RaftInv

-----------------------------------------------------------------------------
(***************************************************************************)
(* What the invariant says of one state.                                   *)
(***************************************************************************)

\* An entry that is in the full log of a node is in its log or under its snapshot.
LEMMA HasIs ==
    Fits => \A n \in Node : \A i \in 1..lastIndex(n) : Has(n, i, FullLog(n)[i])
  <1> SUFFICES ASSUME Fits, NEW n \in Node, NEW i \in 1..lastIndex(n) PROVE Has(n, i, FullLog(n)[i])
    OBVIOUS
  <1>1. TypeOK
    BY DEF Fits
  <1>2. snap[n].index \in Nat /\ lastIndex(n) \in Nat
    BY <1>1, LogTypes
  <1>3. CASE i <= snap[n].index
    BY <1>3 DEF Has
  <1>4. CASE ~(i <= snap[n].index)
    <2>1. i \in Held(n)
      BY <1>2, <1>4 DEF Held
    <2> QED
      BY <2>1, FullLogShape DEF Has
  <1> QED
    BY <1>3, <1>4

\* Log matching is the coherence of the nodes' logs.
LEMMA InvLogMatching == RaftInv => LogMatching
  <1> SUFFICES ASSUME RaftInv, NEW a \in Node, NEW b \in Node, NEW i \in Held(a) \cap Held(b),
                      entryAt(a, i) = entryAt(b, i), NEW j \in Held(a) \cap Held(b), j < i
               PROVE  entryAt(a, j) = entryAt(b, j)
    BY DEF LogMatching
  <1>1. Fits /\ TypeOK /\ Coherent
    BY Given
  <1>2. ASSUME NEW n \in Node, NEW x \in Held(n)
        PROVE  x \in 1..lastIndex(n) /\ FullLog(n)[x] = entryAt(n, x) /\ x \in DOMAIN FullLog(n)
               /\ FullLog(n) \in Carriers /\ x \in Nat
    <2>1. snap[n].index \in Nat /\ lastIndex(n) \in Nat
      BY <1>1, LogTypes
    <2>2. x \in 1..lastIndex(n) /\ x \in Nat
      BY <2>1 DEF Held
    <2> QED
      BY <1>1, <2>2, FullLogShape DEF Carriers, OnInterval
  <1>3. j <= i
    BY <1>2
  <1>4. \A x \in DOMAIN FullLog(a) \cap DOMAIN FullLog(b) : x <= i => FullLog(a)[x] = FullLog(b)[x]
    BY <1>1, <1>2, SharedPrefix
  <1> QED
    BY <1>2, <1>3, <1>4

\* What a leader counts a peer for is on the peer's disk.
LEMMA InvAcked == RaftInv => AckedIsDurable
  <1> SUFFICES ASSUME RaftInv, NEW l \in Node, NEW p \in Node, role[l] = E!Leader, p # l,
                      currentTerm[p] <= currentTerm[l], NEW i \in Held(l), i <= matchIndex[l][p]
               PROVE  \/ i <= disk[p].snap.index
                      \/ i \in DOMAIN disk[p].log /\ disk[p].log[i] = entryAt(l, i)
    BY DEF AckedIsDurable
  <1>1. Fits /\ TypeOK /\ Crowned(l) /\ AcksHold
    BY Given DEF RaftInv, Commits
  <1>2. /\ snap[l].index \in Nat /\ snap[p].index \in Nat /\ lastIndex(p) \in Nat /\ i \in Nat
        /\ matchIndex[l][p] \in Nat
    <2>1. snap[l].index \in Nat /\ snap[p].index \in Nat /\ lastIndex(p) \in Nat /\ lastIndex(l) \in Nat
      BY <1>1, LogTypes
    <2>2. i \in Nat
      BY <2>1 DEF Held
    <2>3. matchIndex[l][p] \in Index
      BY <1>1 DEF TypeOK
    <2> QED
      BY <2>1, <2>2, <2>3, Bounds DEF Index
  <1>3. Acked(l, p, i)
    BY <1>2 DEF Acked
  <1>4. i <= lastIndex(p) /\ FullLog(p)[i] = FullLog(l)[i] /\ FullLog(l)[i] = entryAt(l, i)
    <2>1. i \in 1..MaxIndex /\ i >= snap[l].index
      <3>1. lastIndex(l) \in 0..MaxIndex
        BY <1>1, FullLogShape
      <3> QED
        BY <1>2, <3>1, Bounds DEF Held
    <2> QED
      BY <1>1, <1>3, <2>1, FullLogShape DEF AcksHold
  <1>5. CASE i <= snap[p].index
    BY <1>5, StoreIs
  <1>6. CASE ~(i <= snap[p].index)
    <2>1. i \in Held(p)
      BY <1>2, <1>4, <1>6 DEF Held
    <2> QED
      BY <1>1, <1>4, <2>1, StoreIs, FullLogShape
  <1> QED
    BY <1>5, <1>6

\* A node that ends past the entry under which an applied entry settled has that.
LEMMA PastHas ==
    ASSUME RaftInv, NEW c \in Node, NEW i, NEW u, NEW k \in 1..MaxIndex, NEW t \in 1..MaxTerm,
           i \in 1..k, Secured(k, t), Past(LastPos[c], k, t),
           \A n \in Node : k \in DOMAIN FullLog(n) /\ FullLog(n)[k] = t => FullLog(n)[i] = u
    PROVE  Has(c, i, u)
  <1>1. Fits /\ FullLog(c) \in Carriers
    BY Given DEF Carriers
  <1>2. CoverIn(FullLog(c), k, t)
    BY <1>1 DEF Secured, Covers
  <1>3. k \in Nat \ {0} /\ t \in Nat \ {0}
    BY Bounds
  <1>4. k \in 1..lastIndex(c) /\ FullLog(c)[k] = t
    BY <1>1, <1>2, <1>3, PastHolds
  <1>5. lastIndex(c) \in Nat /\ DOMAIN FullLog(c) = 1..lastIndex(c)
    BY <1>1, FullLogShape DEF OnInterval
  <1>6. FullLog(c)[i] = u /\ i \in 1..lastIndex(c)
    BY <1>3, <1>4, <1>5
  <1> QED
    BY <1>1, <1>6, HasIs

\* The leader of the newest term ends past every secured entry.
LEMMA LeaderPast ==
    ASSUME RaftInv, NEW c \in Node, Leads(c), NEW k \in 1..MaxIndex, NEW t \in 1..MaxTerm, Secured(k, t)
    PROVE  Past(LastPos[c], k, t)
  <1>1. Fits /\ Elections /\ TermsSound /\ WinnersOwn
    BY Given
  <1>2. PICK n \in Node : k \in 1..lastIndex(n) /\ FullLog(n)[k] = t
    BY <1>1, SecuredHolder
  <1>3. /\ role[c] = E!Leader /\ \A p \in Node : currentTerm[p] <= currentTerm[c]
    BY DEF Leads
  <1>4. /\ Crowned(c) /\ currentTerm[c] \in 1..MaxTerm
        /\ lastTerm(c) = currentTerm[c] /\ lastIndex(c) \in 1..MaxIndex
    BY <1>3, LeaderIs
  <1>5. DOMAIN FullLog(n) = 1..lastIndex(n) /\ FullLog(n) \in Carriers
    BY <1>1, FullLogShape DEF OnInterval, Carriers
  <1>6. t <= currentTerm[n] /\ currentTerm[n] <= currentTerm[c] /\ currentTerm[n] \in 0..MaxTerm
    BY <1>1, <1>2, <1>3, <1>5, Given, Zenon DEF TermsSound, ElectionShape
  <1>7. t <= currentTerm[c]
    BY <1>4, <1>6, Bounds
  <1>8. LastPos[c].term = currentTerm[c] /\ LastPos[c].index = lastIndex(c)
    BY <1>1, <1>4, LastPosIs
  <1>9. CASE t = currentTerm[c]
    <2>1. OwnsIn(FullLog(c), lastIndex(c), currentTerm[c], FullLog(n))
      BY <1>1, <1>4, <1>5 DEF WinnersOwn
    <2>2. k <= lastIndex(c)
      BY <1>2, <1>4, <1>5, <1>9, <2>1, Bounds DEF OwnsIn
    <2> QED
      BY <1>4, <1>8, <1>9, <2>2, Bounds DEF Past
  <1>10. CASE t # currentTerm[c]
    <2>1. currentTerm[c] > t
      BY <1>4, <1>7, <1>10, Bounds
    <2> QED
      BY <1>8, <2>1 DEF Past
  <1> QED
    BY <1>9, <1>10

\* So does whoever a majority would vote for.
LEMMA ElectablePast ==
    ASSUME RaftInv, NEW c \in Node, Electable(c), NEW k \in 1..MaxIndex, NEW t \in 1..MaxTerm, Secured(k, t)
    PROVE  Past(LastPos[c], k, t)
  <1>1. Fits /\ ElectionShape
    BY Given
  <1>2. PICK u : u = MaxTerm + 1
    OBVIOUS
  <1>3. u \in Epoch /\ u > t /\ u \in Nat
    BY <1>2, Bounds DEF Epoch
  <1>4. ~Won(u)
    BY <1>1, <1>2, Bounds DEF Won, ElectionShape
  <1>5. Protected(k, t, u)
    BY <1>3, <1>4 DEF Secured
  <1>6. PICK Q \in SUBSET Node : EP!IsQuorum(Q) /\ \A v \in Q : Shields(v, u, k, t)
    BY <1>5 DEF Protected
  <1>7. PICK P \in SUBSET Node : P = {p \in Node : E!UpToDate(LastPos[c], LastPos[p])} /\ EP!IsQuorum(P)
    BY SameQuorum DEF Electable
  <1>8. PICK v \in Node : v \in P /\ v \in Q
    BY <1>6, <1>7, QuorumsMeet
  <1>9. E!UpToDate(LastPos[c], LastPos[v])
    BY <1>7, <1>8
  <1>10. Past(LastPos[v], k, t)
    <2>1. currentTerm[v] \in 0..MaxTerm
      BY <1>1 DEF ElectionShape
    <2>2. ~(currentTerm[v] > u)
      BY <1>2, <2>1, Bounds
    <2> QED
      BY <1>6, <1>8, <2>2 DEF Shields
  <1>11. /\ LastPos[c].term \in Nat /\ LastPos[c].index \in Nat
         /\ LastPos[v].term \in Nat /\ LastPos[v].index \in Nat
    BY <1>1, PosTypes, Zenon
  <1> QED
    BY <1>9, <1>10, <1>11, Bounds DEF E!UpToDate, Past

\* Whoever leads, or could still win an election, holds what was ever applied:
\* those who lack a secured entry find no majority.
LEMMA InvLeaderCompleteness == RaftInv => LeaderCompleteness
  <1> SUFFICES ASSUME RaftInv, NEW c \in Node, NEW e \in applied, Leads(c) \/ Electable(c)
               PROVE  Has(c, e[1], e[2])
    BY DEF LeaderCompleteness
  <1>1. PICK i, u : i = e[1] /\ u = e[2] /\ Settled(i, u)
    BY Given DEF AppliedSettled
  <1>2. PICK k \in 1..MaxIndex, t \in 1..MaxTerm :
          /\ i \in 1..k /\ Secured(k, t)
          /\ \A n \in Node : k \in DOMAIN FullLog(n) /\ FullLog(n)[k] = t => FullLog(n)[i] = u
    BY <1>1 DEF Settled
  <1>3. Past(LastPos[c], k, t)
    BY <1>2, LeaderPast, ElectablePast
  <1> QED
    BY <1>1, <1>2, <1>3, PastHas

\* Every entry up to the commit index is settled.
LEMMA SettledBelow ==
    Sound /\ CommitsSecured =>
        \A n \in Node : \A i \in 1..commitIndex[n] :
            /\ i \in 1..lastIndex(n)
            /\ \A u : FullLog(n)[i] = u => Settled(i, u)
  BY CommittedSettled

\* The same after a step.
LEMMA SettledBelowNext ==
    (Sound /\ CommitsSecured =>
        \A n \in Node : \A i \in 1..commitIndex[n] :
            /\ i \in 1..lastIndex(n)
            /\ \A u : FullLog(n)[i] = u => Settled(i, u))'
  BY SettledBelow, PTL

\* HasIs for an entry that is known by its term.
LEMMA HasAll ==
    Fits => \A n \in Node : \A i \in 1..lastIndex(n) : \A u : FullLog(n)[i] = u => Has(n, i, u)
  BY HasIs

\* The same after a step.
LEMMA HasAllNext ==
    (Fits => \A n \in Node : \A i \in 1..lastIndex(n) : \A u : FullLog(n)[i] = u => Has(n, i, u))'
  BY HasAll, PTL

\* One entry at most is settled at an index.
LEMMA OneSettled ==
    Sound => \A i \in Nat \ {0} : \A u, w : Settled(i, u) /\ Settled(i, w) => u = w
  BY SettledUnique

\* The same after a step.
LEMMA OneSettledNext ==
    (Sound => \A i \in Nat \ {0} : \A u, w : Settled(i, u) /\ Settled(i, w) => u = w)'
  BY OneSettled, PTL

\* What CommittedStays says of a step.
EntriesStay ==
    \A n \in Node : commitIndex'[n] >= commitIndex[n] =>
        \A i \in Held(n), t \in 1..MaxTerm :
            (i <= commitIndex[n] /\ entryAt(n, i) = t) => Has(n, i, t)'

\* No handler removes or replaces a committed entry: it is settled before the
\* step, still settled after it, and only one entry is settled at an index.
LEMMA StepKeepsEntries ==
    ASSUME RaftInv, ~StorageMayFail, [Next]_vars
    PROVE  EntriesStay
  <1> SUFFICES ASSUME NEW n \in Node, commitIndex'[n] >= commitIndex[n], NEW i \in Held(n),
                      NEW t \in 1..MaxTerm, i <= commitIndex[n], entryAt(n, i) = t
               PROVE  Has(n, i, t)'
    BY DEF EntriesStay
  <1>1. RaftInv' /\ Step2
    BY RaftNext
  <1>2. /\ Sound /\ CommitsSecured /\ Fits /\ TypeOK
        /\ Sound' /\ CommitsSecured' /\ Fits' /\ TypeOK' /\ TermsSound'
    BY <1>1, Given DEF RaftInv, Sound, Fits, Histories, Commits
  <1>3. /\ snap[n].index \in Nat /\ commitIndex[n] \in Nat /\ commitIndex'[n] \in Nat
    <2>1. snap[n].index \in Nat
      BY <1>2, LogTypes
    <2>2. commitIndex[n] \in Index /\ commitIndex'[n] \in Index
      BY <1>2 DEF TypeOK
    <2> QED
      BY <2>1, <2>2, Bounds DEF Index
  <1>4. /\ i \in 1..commitIndex[n] /\ i \in 1..commitIndex'[n] /\ i \in Nat \ {0}
    <2>1. i \in Nat /\ i >= 1
      BY <1>2, <1>3, LogTypes DEF Held
    <2> QED
      BY <1>3, <2>1
  <1>5. FullLog(n)[i] = t
    BY <1>2, FullLogShape
  <1>6. Settled(i, t)
    BY <1>2, <1>4, <1>5, CommittedSettled
  <1>7. Settled(i, t)'
    BY <1>1, <1>2, <1>4, <1>6, SettledNext DEF Step2
  <1>8. PICK u : u = (FullLog(n)[i])'
    OBVIOUS
  <1>9. Settled(i, u)' /\ i \in 1..lastIndex(n)'
    BY <1>2, <1>4, <1>8, SettledBelowNext
  <1>10. u = t
    BY <1>2, <1>4, <1>7, <1>9, OneSettledNext
  <1> QED
    BY <1>2, <1>8, <1>9, <1>10, HasAllNext, Zenon

-----------------------------------------------------------------------------
(***************************************************************************)
(* What a leader's bookkeeping and its calls to a peer have to do with the *)
(* peer's log, so that no snapshot ever takes a state machine back: the    *)
(* invariant behind StateIsReplay. AEs and ISs are the requests of one     *)
(* leader to p, those included whose caller has gone.                      *)
(***************************************************************************)
AEs(p, t) == {m \in msgs : m.type = "AE" /\ m.to = p /\ m.term = t}
ISs(p, t) == {m \in msgs : m.type = "IS" /\ m.to = p /\ m.term = t}

\* p holds the entry of term t at index i; everybody holds the empty log.
Holds(p, i, t) == i = 0 \/ (i \in 1..lastIndex(p) /\ FullLog(p)[i] = t)

\* However late p handles what a leader of term t has sent to it, it commits
\* nothing beyond s before it has a snapshot at s.
Safe(p, t, s) ==
    \/ currentTerm[p] > t
    \/ snap[p].index >= s
    \/ commitIndex[p] <= s /\ \A a \in AEs(p, t) : a.commit <= s
    \/ /\ commitIndex[p] <= s /\ currentTerm[p] = t
       /\ \A a \in AEs(p, t) : ~Holds(p, a.prevIndex, a.prevTerm)
       /\ \A m \in ISs(p, t) : m.snap.index >= s

\* Every snapshot in flight is safe for who gets it; it ends with an entry of
\* the leader's term if it may be the first the peer hears of that.
SnapshotSafe(m) ==
    /\ Safe(m.to, m.term, m.snap.index)
    /\ currentTerm[m.to] < m.term => m.snap.term = m.term
SnapshotsSafe == \A m \in Requests : m.type = "IS" => SnapshotSafe(m)

\* A replication loop has one call under way, with one answer.
OneCall ==
    /\ \A l, p \in Node : l # p => \A x, y \in CallUnderWay(l, p) : x = y
    /\ \A m \in Requests : \A x, y \in m.answered : x = y /\ x.type # "ISReply"
    /\ \A r \in Replies : r.live

\* l leads in term t, and p has seen no newer term.
Follows(l, p, t) == role[l] = E!Leader /\ currentTerm[l] = t /\ p # l /\ currentTerm[p] <= t

\* The AppendEntries the leader of term t waits for, and the answers to it,
\* given or under way.
LiveAEs(p, t) == {a \in AEs(p, t) : a.live}
AppendReplies(l, p, t) ==
    {r \in (msgs \ Requests) \cup UNION {a.answered : a \in LiveAEs(p, t)} :
        r.type = "AEReply" /\ r.from = p /\ r.to = l /\ r.forTerm = t}
InstallReplies(l, p, t) ==
    {r \in msgs \ Requests :
        r.type = "ISReply" /\ r.from = p /\ r.to = l /\ r.forTerm = t}
Appending(l, p, t) == LiveAEs(p, t) # {} \/ AppendReplies(l, p, t) # {}

\* The entry at j, which p lacks, is what the rejection r is about: r is the
\* right hint for p's log as it is.
Hints(p, j, r) ==
    IF r.conflictTerm = 0
    THEN r.conflictIndex = lastIndex(p) + 1 /\ lastIndex(p) < j
    ELSE /\ r.conflictIndex <= j /\ j <= lastIndex(p)
         /\ \A y \in 1..lastIndex(p) :
              r.conflictIndex <= y /\ y <= j => FullLog(p)[y] = r.conflictTerm
         /\ \/ r.conflictIndex <= snap[p].index
            \/ \A y \in 1..lastIndex(p) : y < r.conflictIndex => FullLog(p)[y] # r.conflictTerm
\* A rejection that brings nextIndex closer to what p holds.
Narrows(l, p, t, r) ==
    /\ matchIndex[l][p] = 0 /\ currentTerm[p] = t
    /\ \E j \in 1..lastIndex(l) :
         /\ j = nextIndex[l][p] - 1
         /\ ~(j \in 1..lastIndex(p) /\ FullLog(p)[j] = FullLog(l)[j])
         /\ Hints(p, j, r)

(***************************************************************************)
(* The bookkeeping of l, leader in term t, for p.                          *)
(***************************************************************************)
NextFits(l, p) ==
    /\ nextIndex[l][p] <= lastIndex(l) + 1
    /\ matchIndex[l][p] > 0 => nextIndex[l][p] = matchIndex[l][p] + 1
\* A peer that has not heard of the term yet lacks the leader's first entry.
NextUnheard(l, p, t) ==
    currentTerm[p] < t =>
        /\ matchIndex[l][p] = 0 /\ nextIndex[l][p] <= lastIndex(l)
        /\ FullLog(l)[nextIndex[l][p]] = t
CommitKnown(l, p, t) ==
    /\ commitIndex[p] < nextIndex[l][p] \/ commitIndex[p] <= commitIndex[l]
    /\ \A a \in AEs(p, t) :
         /\ a.commit <= commitIndex[l]
         /\ matchIndex[l][p] = 0 => a.prevIndex >= nextIndex[l][p] - 1
\* nextIndex is not beyond a snapshot p may still need.
NextBelow(l, p, t) ==
    /\ \A m \in ISs(p, t) :
         m.live \/ matchIndex[l][p] = 0 \/ snap[p].index < m.snap.index =>
            nextIndex[l][p] <= m.snap.index
    /\ \A r \in InstallReplies(l, p, t) : nextIndex[l][p] <= r.match /\ r.match <= snap[p].index
\* An AppendEntries under way is the only thing that can still change p's log.
AppendAlone(l, p, t) ==
    Appending(l, p, t) => \A m \in ISs(p, t) : m.snap.index <= snap[p].index /\ matchIndex[l][p] > 0
AppendMatches(l, p, t) ==
    \A a \in LiveAEs(p, t) :
        /\ a.prevIndex = nextIndex[l][p] - 1
        /\ matchIndex[l][p] > 0 => Holds(p, a.prevIndex, a.prevTerm)
ReplyHelps(l, p, t) ==
    \A r \in AppendReplies(l, p, t) :
        IF r.success THEN r.match >= nextIndex[l][p] - 1 ELSE Narrows(l, p, t, r)
\* What l may send as a snapshot is safe for p.
NextSafe(l, p, t) ==
    \A s \in Index : s = snap[l].index /\ nextIndex[l][p] <= s => Safe(p, t, s)

PairFits(l, p, t) ==
    /\ NextFits(l, p) /\ NextUnheard(l, p, t) /\ CommitKnown(l, p, t) /\ NextBelow(l, p, t)
    /\ AppendAlone(l, p, t) /\ AppendMatches(l, p, t) /\ ReplyHelps(l, p, t) /\ NextSafe(l, p, t)
PairsFit == \A l, p \in Node, t \in 1..MaxTerm : Follows(l, p, t) => PairFits(l, p, t)

\* A snapshot holds the state its entries lead to.
SnapshotIsReplay(s) == Len(s.data) = s.index /\ \A i \in 1..s.index : <<i, s.data[i]>> \in applied
SnapshotsAreReplays ==
    /\ \A n \in Node : SnapshotIsReplay(snap[n])
    /\ \A m \in Requests : m.type = "IS" => SnapshotIsReplay(m.snap)

\* Nothing is left of the campaign of n in its term.
Gone(n) ==
    /\ votes[n] = {}
    /\ \A m \in voteMsgs :
         /\ m.type = "reply" /\ m.to = n => m.forTerm # currentTerm[n]
         /\ m.type = "request" /\ m.from = n /\ m.term = currentTerm[n] => ~m.live
\* Who has led and crashed never leads in the same term again.
Retired == \A n \in Node : Crowned(n) /\ role[n] # E!Leader => Gone(n)

BooksInv  == Retired /\ OneCall /\ SnapshotsSafe /\ PairsFit
ReplayInv == RaftInv /\ BooksInv /\ SnapshotsAreReplays /\ StateIsReplay
-----------------------------------------------------------------------------
(***************************************************************************)
(* One state.                                                              *)
(***************************************************************************)
\* What a node commits lies below every entry of a newer term.
LEMMA OlderCommit ==
    RaftInv => \A p \in Node : \A e \in Carriers : \A j \in DOMAIN e :
        j \in Nat \ {0} /\ e[j] > currentTerm[p] => commitIndex[p] < j
  <1> SUFFICES ASSUME RaftInv, NEW p \in Node, NEW e \in Carriers, NEW j \in DOMAIN e,
                      j \in Nat \ {0}, e[j] > currentTerm[p]
               PROVE  commitIndex[p] < j
    OBVIOUS
  <1>1. commitIndex[p] \in Nat
    BY Given, Bounds DEF RestTypes, Index
  <1>2. CASE commitIndex[p] > 0
    <2>1. PICK t \in 1..MaxTerm : t <= currentTerm[p] /\ Secured(commitIndex[p], t)
      BY <1>2, CommitIs
    <2>2. CoverIn(e, commitIndex[p], t)
      BY <2>1 DEF Secured, Covers
    <2>3. currentTerm[p] \in Nat /\ t \in Nat
      BY Given, Bounds DEF ElectionShape
    <2>4. \E lo, hi : OnInterval(e, lo, hi)
      BY Given, CarrierShape
    <2>5. e[j] \in Nat
      BY <2>4 DEF OnInterval
    <2>6. e[j] > t
      BY <2>1, <2>3, <2>5
    <2>7. commitIndex[p] <= j /\ (commitIndex[p] = j => e[j] = t)
      BY <1>1, <2>2, <2>6 DEF CoverIn
    <2> QED
      BY <1>1, <2>3, <2>5, <2>6, <2>7
  <1> QED
    BY <1>1, <1>2

\* The same after a step.
LEMMA OlderCommitNext ==
    (RaftInv => \A p \in Node : \A e \in Carriers : \A j \in DOMAIN e :
        j \in Nat \ {0} /\ e[j] > currentTerm[p] => commitIndex[p] < j)'
  BY OlderCommit, PTL

\* The numbers of a leader and of a peer.
LEMMA PairTypes ==
    ASSUME RaftInv, NEW l \in Node, NEW p \in Node
    PROVE  /\ nextIndex[l][p] \in 1..MaxIndex + 1 /\ matchIndex[l][p] \in 0..MaxIndex
           /\ nextIndex[l][p] \in Nat /\ matchIndex[l][p] \in Nat
           /\ commitIndex[p] \in Nat /\ snap[p].index \in Nat /\ lastApplied[p] \in Nat
           /\ snap[p].index <= commitIndex[p] /\ commitIndex[p] <= lastIndex(p)
           /\ lastIndex(p) \in Nat /\ lastIndex(p) <= MaxIndex /\ DOMAIN FullLog(p) = 1..lastIndex(p)
           /\ currentTerm[p] \in Nat /\ currentTerm[p] \in 0..MaxTerm
           /\ \A i \in 1..lastIndex(p) : FullLog(p)[i] \in 1..MaxTerm
           /\ FullLog(p) \in Carriers
  <1>1. TypeOK /\ Fits /\ IndicesInLog /\ ElectionShape
    BY Given DEF RaftInv
  <1>2. /\ nextIndex[l][p] \in 1..MaxIndex + 1 /\ matchIndex[l][p] \in 0..MaxIndex
        /\ commitIndex[p] \in 0..MaxIndex /\ lastApplied[p] \in 0..MaxIndex
    BY <1>1 DEF TypeOK, Index
  <1>3. /\ snap[p].index \in Nat /\ snap[p].index <= commitIndex[p] /\ commitIndex[p] <= lastIndex(p)
    BY <1>1, <1>2, LogTypes DEF IndicesInLog
  <1>4. /\ lastIndex(p) \in 0..MaxIndex /\ DOMAIN FullLog(p) = 1..lastIndex(p)
        /\ \A i \in 1..lastIndex(p) : FullLog(p)[i] \in 1..MaxTerm
    BY <1>1, FullLogShape DEF OnInterval
  <1>5. FullLog(p) \in Carriers
    BY DEF Carriers
  <1>6. currentTerm[p] \in 0..MaxTerm
    BY <1>1 DEF ElectionShape
  <1> QED
    BY <1>2, <1>3, <1>4, <1>5, <1>6, Bounds

\* The requests of a leader are pieces of its log.
LEMMA LeaderSends ==
    ASSUME RaftInv, NEW l \in Node, role[l] = E!Leader, NEW m \in Requests, m.term = currentTerm[l]
    PROVE  /\ m.from = l /\ PartOf(Fragment(m), FullLog(l)) /\ m.to \in Node
           /\ m.type = "IS" => m.snap.index <= snap[l].index /\ m.snap.index \in Nat
           /\ m.type = "AE" => /\ m.prevIndex \in Nat /\ m.commit \in Nat
                               /\ m.prevIndex > 0 => m.prevIndex \in 1..lastIndex(l)
                                                     /\ FullLog(l)[m.prevIndex] = m.prevTerm
                               /\ m.prevIndex = 0 => m.prevTerm = 0
  <1>1. Crowned(l) /\ Sound /\ Fits /\ ElectionShape
    BY Given
  <1>2. m.from \in Node /\ m.to \in Node /\ [node |-> m.from, term |-> m.term] \in leaders
    BY <1>1, FragmentShape
  <1>3. m.from = l
    BY <1>1, <1>2 DEF Crowned, ElectionShape
  <1>4. PartOf(Fragment(m), FullLog(l))
    BY <1>1, <1>3, SentPart
  <1>5. ASSUME m.type = "IS"
        PROVE  m.snap.index <= snap[l].index /\ m.snap.index \in Nat
    <2>1. m.snap.index <= snap[l].index
      BY <1>1, <1>5, SentBelow
    <2>2. m.snap \in Snap
      BY <1>1, <1>5, FragmentShape, Zenon DEF SnapshotRequest
    <2> QED
      BY <2>1, <2>2, Bounds DEF Snap, Index
  <1>6. ASSUME m.type = "AE"
        PROVE  /\ m.prevIndex \in Nat /\ m.commit \in Nat
               /\ m.prevIndex > 0 => m.prevIndex \in 1..lastIndex(l) /\ FullLog(l)[m.prevIndex] = m.prevTerm
               /\ m.prevIndex = 0 => m.prevTerm = 0
    <2>1. m \in AppendRequest /\ LastOf(m) >= FirstOf(m)
      BY <1>1, <1>6, FragmentShape, Zenon
    <2>2. m.prevIndex \in Nat /\ m.commit \in Nat /\ LastOf(m) \in Nat
      <3>1. LastOf(m) \in 1..MaxIndex
        BY <1>1, <1>6, FragmentShape, Zenon
      <3>2. m.prevIndex \in 0..MaxIndex /\ m.commit \in 0..MaxIndex
        BY <2>1 DEF AppendRequest, Index
      <3> QED
        BY <3>1, <3>2, Bounds
    <2>3. m.prevIndex = 0 => m.prevTerm = 0
      BY <1>1, <1>6, Zenon DEF Fits, RequestsFit, RequestFits
    <2>4. ASSUME m.prevIndex > 0
          PROVE  m.prevIndex \in 1..lastIndex(l) /\ FullLog(l)[m.prevIndex] = m.prevTerm
      <3>1. FirstOf(m) = m.prevIndex
        BY <1>6, <2>4 DEF FirstOf
      <3>2. m.prevIndex \in FirstOf(m)..LastOf(m)
        BY <2>1, <2>2, <3>1
      <3>3. m.prevIndex \in DOMAIN Fragment(m) /\ Fragment(m)[m.prevIndex] = m.prevTerm
        BY <1>6, <3>2 DEF Fragment
      <3>4. DOMAIN FullLog(l) = 1..lastIndex(l)
        BY PairTypes
      <3> QED
        BY <1>4, <3>3, <3>4 DEF PartOf
    <2> QED
      BY <2>2, <2>3, <2>4
  <1> QED
    BY <1>2, <1>3, <1>4, <1>5, <1>6

\* Two logs that share an entry share all below.
LEMMA SharedBelow ==
    ASSUME RaftInv, NEW a \in Node, NEW b \in Node, NEW i \in 1..lastIndex(a), i \in 1..lastIndex(b),
           FullLog(a)[i] = FullLog(b)[i], NEW j \in 1..i
    PROVE  j \in 1..lastIndex(a) /\ j \in 1..lastIndex(b) /\ FullLog(a)[j] = FullLog(b)[j]
  <1>1. /\ lastIndex(a) \in Nat /\ lastIndex(b) \in Nat
        /\ DOMAIN FullLog(a) = 1..lastIndex(a) /\ DOMAIN FullLog(b) = 1..lastIndex(b)
        /\ FullLog(a) \in Carriers /\ FullLog(b) \in Carriers
    BY PairTypes
  <1>2. j \in 1..lastIndex(a) /\ j \in 1..lastIndex(b) /\ j <= i /\ i \in Nat
    BY <1>1
  <1>3. FullLog(a)[j] = FullLog(b)[j]
    BY <1>1, <1>2, SharedPrefix, Given
  <1> QED
    BY <1>2, <1>3

\* A leader has what a peer that has seen no newer term commits.
LEMMA CommitInLeader ==
    ASSUME RaftInv, NEW l \in Node, NEW p \in Node, role[l] = E!Leader, currentTerm[p] <= currentTerm[l]
    PROVE  /\ commitIndex[p] <= lastIndex(l)
           /\ \A i \in 1..commitIndex[p] : FullLog(l)[i] = FullLog(p)[i]
  <1>1. /\ commitIndex[p] \in Nat /\ lastIndex(l) \in Nat /\ lastIndex(p) \in Nat
        /\ commitIndex[p] <= lastIndex(p)
        /\ FullLog(l) \in Carriers /\ FullLog(p) \in Carriers
        /\ DOMAIN FullLog(p) = 1..lastIndex(p) /\ DOMAIN FullLog(l) = 1..lastIndex(l)
        /\ currentTerm[p] \in Nat /\ currentTerm[l] \in Nat
    BY PairTypes
  <1>2. CASE commitIndex[p] > 0
    <2>1. PICK t \in 1..MaxTerm : /\ t <= currentTerm[p] /\ Secured(commitIndex[p], t)
                                  /\ FullLog(p)[commitIndex[p]] = t
      BY <1>2, CommitIs
    <2>2. /\ Crowned(l) /\ lastTerm(l) = currentTerm[l] /\ lastIndex(l) \in 1..MaxIndex
          /\ FullLog(l)[lastIndex(l)] = currentTerm[l]
      BY LeaderIs
    <2>3. t \in Nat /\ t <= currentTerm[l] /\ commitIndex[p] \in 1..lastIndex(p)
      BY <1>1, <1>2, <2>1, Bounds
    <2>4. commitIndex[p] \in 1..lastIndex(l) /\ FullLog(l)[commitIndex[p]] = t
      <3>1. CASE t = currentTerm[l]
        <4>1. OwnsIn(FullLog(l), lastIndex(l), currentTerm[l], FullLog(p))
          BY <1>1, <2>2, Given DEF WinnersOwn
        <4> QED
          BY <1>1, <2>1, <2>3, <3>1, <4>1 DEF OwnsIn
      <3>2. CASE t < currentTerm[l]
        <4>1. CoverIn(FullLog(l), commitIndex[p], t)
          BY <1>1, <2>1 DEF Secured, Covers
        <4>2. lastIndex(l) \in DOMAIN FullLog(l) /\ FullLog(l)[lastIndex(l)] > t
          BY <1>1, <2>2, <2>3, <3>2
        <4>3. commitIndex[p] <= lastIndex(l)
          BY <4>1, <4>2 DEF CoverIn
        <4>4. commitIndex[p] \in DOMAIN FullLog(l)
          BY <1>1, <1>2, <4>3
        <4> QED
          BY <1>1, <4>1, <4>2, <4>3, <4>4 DEF CoverIn
      <3> QED
        BY <1>1, <2>3, <3>1, <3>2
    <2>5. \A i \in 1..commitIndex[p] : FullLog(l)[i] = FullLog(p)[i]
      BY <2>1, <2>3, <2>4, SharedBelow
    <2> QED
      BY <2>4, <2>5
  <1> QED
    BY <1>1, <1>2

-----------------------------------------------------------------------------
(***************************************************************************)
(* What a step does to the messages between a leader and a peer: requests  *)
(* stay what they are, answers come from the handler of a request.         *)
(***************************************************************************)
\* m is the request x, whose caller may have gone since.
Later(x, m) == Forwarded(x, m) /\ (m.live => x.live)

\* The handler of x refuses it in this step, and r says why.
Refuses(x, r) ==
    /\ x.type = "AE" /\ x.term >= currentTerm[x.to] /\ currentTerm'[x.to] = x.term /\ Same(x.to)
    /\ TooShort(x) \/ Mismatch(x)
    /\ r.conflictTerm = (IF TooShort(x) THEN 0 ELSE termAt(x.to, x.prevIndex))
    /\ r.conflictIndex = (IF TooShort(x) THEN lastIndex(x.to) + 1
                          ELSE firstIndexOfTerm(x.to, termAt(x.to, x.prevIndex)))
\* The handler of x answers r in this step.
Gives(x, r) ==
    /\ r.from = x.to /\ r.to = x.from /\ r.forTerm = x.term /\ r.live
    /\ r.type \in {"AEReply", "ISReply", "TermReply"} /\ r.call = "replicate"
    /\ r.type = "AEReply" => x.type = "AE" /\ IF r.success THEN r.match >= x.prevIndex ELSE Refuses(x, r)
    /\ r.type = "ISReply" => x.type = "IS" /\ r.match = x.snap.index /\ x.snap.index <= snap'[x.to].index

RequestStays(m) ==
    \E x \in Requests : Later(x, m) /\ \A r \in m.answered : r \in x.answered \/ Gives(x, r)
ReplyStays(r) == r \in msgs \/ \E x \in Requests : x.live /\ (r \in x.answered \/ Gives(x, r))
MessageStays(m) == IF m.type \in {"AE", "IS"} THEN RequestStays(m) ELSE ReplyStays(m)
\* The leader of term t sends nothing new to p.
Delivers(p, t) ==
    /\ \A m \in Requests' : m.to = p /\ m.term = t => RequestStays(m)
    /\ \A r \in msgs' \ Requests' : r.from = p /\ r.forTerm = t => ReplyStays(r)

\* A message that stays as it is.
LEMMA SameMessage ==
    ASSUME Fits, NEW m \in msgs
    PROVE  MessageStays(m)
  <1>1. CASE m.type \in {"AE", "IS"}
    <2>1. m \in Requests /\ RequestFits(m) /\ m \in AppendRequest \cup SnapshotRequest
      BY <1>1 DEF Fits, RequestsFit, RequestFits, Requests
    <2>2. Forwarded(m, m)
      BY <2>1 DEF Forwarded, RequestFits
    <2> QED
      BY <1>1, <2>1, <2>2 DEF MessageStays, RequestStays, Later
  <1>2. CASE m.type \notin {"AE", "IS"}
    BY <1>2 DEF MessageStays, ReplyStays
  <1> QED
    BY <1>1, <1>2

\* A request whose caller gives up.
LEMMA AbandonedStays ==
    ASSUME Fits, NEW x \in Requests, NEW m, m = [x EXCEPT !.live = FALSE]
    PROVE  MessageStays(m) /\ ~m.live /\ m.answered = x.answered /\ m.type = x.type
           /\ m.from = x.from /\ m.to = x.to
  <1>1. RequestFits(x) /\ x \in AppendRequest \cup SnapshotRequest
    BY DEF Fits, RequestsFit, RequestFits
  <1>2. /\ m \in AppendRequest \cup SnapshotRequest /\ m.live = FALSE
        /\ m.type = x.type /\ m.from = x.from /\ m.to = x.to /\ m.term = x.term /\ m.answered = x.answered
        /\ x.type = "AE" => /\ m.prevIndex = x.prevIndex /\ m.prevTerm = x.prevTerm
                            /\ m.ents = x.ents /\ m.commit = x.commit
        /\ x.type = "IS" => m.snap = x.snap
    <2>1. CASE x \in AppendRequest
      BY <2>1, Zenon DEF AppendRequest
    <2>2. CASE x \in SnapshotRequest
      BY <2>2, Zenon DEF SnapshotRequest
    <2> QED
      BY <2>1, <2>2, <1>1
  <1>3. Forwarded(x, m)
    BY <1>1, <1>2 DEF Forwarded, RequestFits
  <1>4. m.type \in {"AE", "IS"}
    BY <1>2, MessageTypes, Zenon
  <1> QED
    BY <1>2, <1>3, <1>4 DEF MessageStays, RequestStays, Later

\* A step right for every message is right for every pair.
LEMMA AllStay ==
    ASSUME \A m \in msgs' : MessageStays(m), NEW p, NEW t
    PROVE  Delivers(p, t)
  BY DEF Delivers, MessageStays, Requests

\* Losing messages.
LEMMA FewerStay ==
    ASSUME Fits, msgs' \subseteq msgs
    PROVE  \A m \in msgs' : MessageStays(m)
  BY SameMessage

\* A crash of n.
LEMMA OrphansStay ==
    ASSUME Fits, NEW n, NEW S \in SUBSET msgs, msgs' = Orphaned(S, n)
    PROVE  \A m \in msgs' : MessageStays(m)
  <1> SUFFICES ASSUME NEW m \in msgs' PROVE MessageStays(m)
    OBVIOUS
  <1>1. PICK x \in S : m = IF x.type \in {"AE", "IS"} /\ x.from = n
                           THEN [x EXCEPT !.live = FALSE] ELSE x
    BY DEF Orphaned
  <1>2. CASE x.type \in {"AE", "IS"} /\ x.from = n
    <2>1. x \in Requests /\ m = [x EXCEPT !.live = FALSE]
      BY <1>1, <1>2 DEF Requests
    <2> QED
      BY <2>1, AbandonedStays
  <1>3. CASE ~(x.type \in {"AE", "IS"} /\ x.from = n)
    BY <1>1, <1>3, SameMessage
  <1> QED
    BY <1>2, <1>3

\* A handler answers.
LEMMA AnswerStays ==
    ASSUME Fits, NEW m \in Requests, NEW reply, Answer(m, reply), Gives(m, reply), reply \in Reply
    PROVE  \A x \in msgs' : MessageStays(x)
  <1>1. RequestFits(m) /\ m \in AppendRequest \cup SnapshotRequest /\ m \in msgs
    BY DEF Fits, RequestsFit, RequestFits, Requests
  <1>2. CASE msgs' = (msgs \ {m}) \cup
                       (IF m.live THEN (IF m.answered = {} THEN {reply} ELSE m.answered) ELSE {})
    <2> SUFFICES ASSUME NEW x \in msgs', x \notin msgs PROVE MessageStays(x)
      BY SameMessage
    <2>1. m.live /\ (x = reply \/ x \in m.answered)
      BY <1>2
    <2>2. x.type \notin {"AE", "IS"}
      <3>1. x \in Reply
        BY <1>1, <2>1 DEF AppendRequest, SnapshotRequest
      <3> QED
        BY <3>1, MessageTypes
    <2> QED
      BY <2>1, <2>2 DEF MessageStays, ReplyStays
  <1>3. CASE m.type = "AE" /\ msgs' = (msgs \ {m}) \cup {[m EXCEPT !.answered = {reply}]}
    <2>0. PICK x : x = [m EXCEPT !.answered = {reply}]
      BY Zenon
    <2>1. m \in AppendRequest
      BY <1>1, <1>3 DEF SnapshotRequest
    <2>3. /\ x \in AppendRequest
          /\ x.type = m.type /\ x.from = m.from /\ x.to = m.to /\ x.term = m.term /\ x.answered = {reply}
          /\ x.prevIndex = m.prevIndex /\ x.prevTerm = m.prevTerm
          /\ x.ents = m.ents /\ x.commit = m.commit /\ x.live = m.live
      BY <2>0, <2>1 DEF AppendRequest
    <2>4. reply.from = m.to /\ reply.to = m.from /\ reply.forTerm = m.term
      BY DEF Gives
    <2>5. Later(m, x)
      BY <1>3, <2>3, <2>4 DEF Later, Forwarded
    <2>6. MessageStays(x)
      BY <1>3, <2>3, <2>5 DEF MessageStays, RequestStays
    <2> QED
      BY <1>3, <2>0, <2>6, SameMessage
  <1> QED
    BY <1>2, <1>3 DEF Answer

\* A new call of n to q: the one before is given up.
LEMMA SendStays ==
    ASSUME Fits, NEW n, NEW q, NEW req, Send(n, q, req)
    PROVE  /\ req \in msgs'
           /\ \A m \in msgs' : m = req \/ (MessageStays(m) /\ m \in (msgs \ CallUnderWay(n, q)) \cup Abandon(CallUnderWay(n, q)))
           /\ \A m \in Abandon(CallUnderWay(n, q)) :
                /\ m.type \in {"AE", "IS"} /\ ~m.live
                /\ \E x \in CallUnderWay(n, q) : m.answered = x.answered /\ x \in Requests
  <1>1. PICK kept \in SUBSET ((msgs \ CallUnderWay(n, q)) \cup Abandon(CallUnderWay(n, q))) :
            msgs' = kept \cup {req}
    BY DEF Send, Enqueue
  <1>2. CallUnderWay(n, q) \subseteq msgs
    BY DEF CallUnderWay
  <1>3. ASSUME NEW m \in Abandon(CallUnderWay(n, q))
        PROVE  /\ MessageStays(m) /\ m.type \in {"AE", "IS"} /\ ~m.live
               /\ \E x \in CallUnderWay(n, q) : m.answered = x.answered /\ x \in Requests
    <2>1. PICK x \in CallUnderWay(n, q) : x.type \in {"AE", "IS"} /\ m = [x EXCEPT !.live = FALSE]
      BY DEF Abandon
    <2>2. x \in Requests
      BY <1>2, <2>1 DEF Requests
    <2> QED
      BY <2>1, <2>2, AbandonedStays
  <1> QED
    BY <1>1, <1>3, SameMessage

\* The refusal of an AppendEntries.
LEMMA RejectionGiven ==
    ASSUME RaftInv, NEW m \in msgs, RejectAppend(m)
    PROVE  \E r \in Reply : Answer(m, r) /\ Gives(m, r)
  <1>1. m \in Requests /\ m.type = "AE" /\ m.term >= currentTerm[m.to] /\ E!FollowLeader(m.to, m.from, m.term)
        /\ UNCHANGED <<log, snap, applied>> /\ (TooShort(m) \/ Mismatch(m))
    BY DEF RejectAppend, Requests, logVars, applyVars
  <1>2. Followed(m.to, m)
    BY <1>1, FollowIs
  <1>3. m \in AppendRequest /\ m.to \in Node /\ m.prevIndex \in Nat
    <2>1. m \in AppendRequest /\ m.to \in Node
      BY <1>1, Given, FragmentShape, Zenon
    <2> QED
      BY <2>1, Bounds DEF AppendRequest, Index
  <1>4. PICK ct, ci :
            /\ ct = (IF TooShort(m) THEN 0 ELSE termAt(m.to, m.prevIndex))
            /\ ci = (IF TooShort(m) THEN lastIndex(m.to) + 1 ELSE firstIndexOfTerm(m.to, ct))
    OBVIOUS
  <1>5. lastIndex(m.to) \in Nat /\ lastIndex(m.to) <= MaxIndex
    BY <1>3, Given, FullLogShape, Bounds
  <1>6. ct \in E!Term
    <2>1. CASE TooShort(m)
      BY <1>4, <2>1, Bounds DEF E!Term
    <2>2. CASE ~TooShort(m)
      BY <1>1, <1>3, <1>4, <1>5, <2>2, TermAtType DEF Mismatch, TooShort
    <2> QED
      BY <2>1, <2>2
  <1>7. ci \in 0..MaxIndex + 1
    <2>1. CASE TooShort(m)
      BY <1>4, <2>1, <1>5, Bounds
    <2>2. CASE ~TooShort(m)
      BY <1>3, <1>4, <2>2, FirstIndexType
    <2> QED
      BY <2>1, <2>2
  <1>8. PICK r : r = AEReply(m, m.term, FALSE, ci, ct)
    BY Zenon
  <1>9. Answer(m, r)
    BY <1>4, <1>8, Zenon DEF RejectAppend
  <1>10. r \in Reply
    BY <1>1, <1>6, <1>7, <1>8, AppendReplyFits, Zenon DEF ReplyFits
  <1>11. Same(m.to)
    BY <1>1, <1>3, NothingApplied, SameLog, Given DEF Same
  <1>12. /\ r.from = m.to /\ r.to = m.from /\ r.forTerm = m.term /\ r.live /\ r.type = "AEReply"
         /\ ~r.success /\ r.conflictIndex = ci /\ r.conflictTerm = ct /\ r.call = m.call
    BY <1>8 DEF AEReply
  <1>13. m.call = "replicate"
    BY <1>3 DEF AppendRequest
  <1>14. Refuses(m, r)
    BY <1>1, <1>2, <1>4, <1>11, <1>12 DEF Refuses, Followed
  <1> QED
    BY <1>1, <1>9, <1>10, <1>12, <1>13, <1>14 DEF Gives

\* The other answers of a follower.
LEMMA AnswerGiven ==
    ASSUME RaftInv, NEW m \in msgs,
           StaleLeader(m) \/ AcceptAppend(m) \/ SkipSnapshot(m) \/ InstallSnapshot(m)
    PROVE  m \in Requests /\ \E r \in Reply : Answer(m, r) /\ Gives(m, r)
  <1>1. m \in Requests
    BY Zenon DEF StaleLeader, AcceptAppend, SkipSnapshot, InstallSnapshot, Requests
  <1>2. /\ m \in AppendRequest \cup SnapshotRequest /\ m.to \in Node /\ m.from \in Node /\ m.term \in 1..MaxTerm
        /\ m.type = "AE" => m \in AppendRequest
    BY <1>1, Given, FragmentShape, Zenon DEF Fits, RequestsFit, RequestFits
  <1>3. m.call = "replicate"
    BY <1>2 DEF AppendRequest, SnapshotRequest
  <1>4. CASE StaleLeader(m)
    <2>1. PICK r : r = [type |-> "TermReply", call |-> m.call, from |-> m.to, to |-> m.from,
                        term |-> currentTerm[m.to], forTerm |-> m.term, live |-> TRUE]
      BY Zenon
    <2>2. currentTerm[m.to] \in 1..MaxTerm
      <3>1. currentTerm[m.to] \in 0..MaxTerm /\ m.term < currentTerm[m.to]
        BY <1>2, <1>4, Given DEF ElectionShape, StaleLeader
      <3> QED
        BY <1>2, <3>1, Bounds
    <2>3. r \in Reply
      BY <1>2, <1>3, <2>1, <2>2 DEF Reply
    <2>4. Gives(m, r)
      BY <1>3, <2>1 DEF Gives
    <2>5. Answer(m, r)
      BY <1>4, <2>1 DEF StaleLeader
    <2> QED
      BY <1>1, <2>3, <2>4, <2>5
  <1>5. CASE AcceptAppend(m)
    <2>1. PICK r : r = AEReply(m, m.term, TRUE, 0, 0)
      BY Zenon
    <2>2. m.type = "AE"
      BY <1>5 DEF AcceptAppend
    <2>3. r \in Reply
      <3>1. 0 \in 0..MaxIndex + 1 /\ 0 \in E!Term
        BY Bounds DEF E!Term
      <3> QED
        BY <1>1, <2>1, <2>2, <3>1, AppendReplyFits, Zenon DEF ReplyFits
    <2>4. r.match >= m.prevIndex
      <3>1. m.prevIndex \in Nat /\ m.ents \in Seq(1..MaxTerm)
        BY <1>2, <2>2, Bounds DEF AppendRequest, Index, Log
      <3>2. Len(m.ents) \in Nat
        BY <3>1
      <3> QED
        BY <2>1, <3>1, <3>2 DEF AEReply
    <2>5. Gives(m, r)
      BY <1>3, <2>1, <2>2, <2>4 DEF Gives, AEReply
    <2>6. Answer(m, r)
      BY <1>5, <2>1, Zenon DEF AcceptAppend
    <2> QED
      BY <1>1, <2>3, <2>5, <2>6
  <1>6. CASE SkipSnapshot(m) \/ InstallSnapshot(m)
    <2>1. PICK r : r = ISReply(m)
      OBVIOUS
    <2>2. m.type = "IS" /\ Answer(m, r)
      BY <1>6, <2>1 DEF SkipSnapshot, InstallSnapshot
    <2>3. r \in Reply
      BY <1>1, <2>1, <2>2, SnapshotReplyFits, Zenon DEF ReplyFits
    <2>4. m.snap.index <= snap'[m.to].index
      <3>0. m \in SnapshotRequest
        BY <1>1, <2>2, Given, FragmentShape, Zenon
      <3>1. m.snap.index \in Nat
        BY <3>0, Bounds DEF SnapshotRequest, Snap, Index
      <3>2. CASE SkipSnapshot(m)
        BY <3>1, <3>2 DEF SkipSnapshot, logVars
      <3>3. CASE InstallSnapshot(m)
        <4>1. snap'[m.to] = m.snap
          BY <1>2, <3>3, Given DEF InstallSnapshot, RestTypes
        <4> QED
          BY <3>1, <4>1
      <3> QED
        BY <1>6, <3>2, <3>3
    <2>5. Gives(m, r)
      BY <1>3, <2>1, <2>2, <2>4 DEF Gives, ISReply
    <2> QED
      BY <1>1, <2>2, <2>3, <2>5
  <1> QED
    BY <1>4, <1>5, <1>6

\* The replication loop of n for q sends something.
Sends(n, q) == SendAppendEntries(n, q) \/ SendSnapshot(n, q)

\* What a step does to the messages: it loses some, the process of a caller
\* dies, a handler answers, or a replication loop sends something new.
LEMMA MessageKinds ==
    ASSUME RaftInv, [Next]_vars
    PROVE  \/ msgs' \subseteq msgs
           \/ \E k \in Node : \E S \in SUBSET msgs : msgs' = Orphaned(S, k)
           \/ \E m \in Requests : \E r \in Reply : Answer(m, r) /\ Gives(m, r)
           \/ \E n, q \in Node : Sends(n, q)
  <1>0. Fits
    BY Given
  <1> SUFFICES ASSUME \A n, q \in Node : ~Sends(n, q)
               PROVE  \/ msgs' \subseteq msgs
                      \/ \E k \in Node : \E S \in SUBSET msgs : msgs' = Orphaned(S, k)
                      \/ \E m \in Requests : \E r \in Reply : Answer(m, r) /\ Gives(m, r)
    OBVIOUS
  <1>1. CASE UNCHANGED vars
    BY <1>1 DEF vars
  <1>2. ASSUME NEW n \in Node, NodeStep(n) PROVE msgs' = msgs
    BY <1>2 DEF NodeStep, BeginElection, Propose, ApplyReady, Sends
  <1>3. ASSUME NEW m \in voteMsgs, VoteCounted(m) \/ OtherVoting(m) PROVE msgs' = msgs
    BY <1>3 DEF VoteCounted, OtherVoting
  <1>4. ASSUME NEW m \in msgs, Deliver(m)
        PROVE  msgs' \subseteq msgs \/ \E x \in Requests : \E r \in Reply : Answer(x, r) /\ Gives(x, r)
    <2>1. CASE RejectAppend(m)
      <3>1. m \in Requests
        BY <2>1 DEF RejectAppend, Requests
      <3> QED
        BY <2>1, <3>1, RejectionGiven
    <2>2. CASE StaleLeader(m) \/ AcceptAppend(m) \/ SkipSnapshot(m) \/ InstallSnapshot(m)
      BY <2>2, AnswerGiven
    <2>3. CASE ReplyNewerTerm(m) \/ ReplyStale(m) \/ AppendAcked(m) \/ SnapshotAcked(m) \/ AppendRejected(m)
      BY <2>3, Zenon DEF ReplyNewerTerm, ReplyStale, AppendAcked, SnapshotAcked, AppendRejected
    <2> QED
      BY <1>4, <2>1, <2>2, <2>3 DEF Deliver
  <1>5. ASSUME NEW n \in Node, PreVoting(n) PROVE msgs' = msgs
    BY <1>5 DEF PreVoting, BeginPreVote, CampaignWon, PreVoteGranted, LeaderSilent
  <1>6. ASSUME NEW n \in Node, Crash(n)
        PROVE  \E k \in Node : \E S \in SUBSET msgs : msgs' = Orphaned(S, k)
    <2>1. ASSUME NEW m \in msgs, m.to = n, CrashInAppend(m) \/ CrashInInstall(m)
          PROVE  msgs \ {m} \in SUBSET msgs /\ msgs' = Orphaned(msgs \ {m}, n)
      BY <2>1 DEF CrashInAppend, CrashInInstall
    <2>2. Restart(n) \/ CrashInCompaction(n) => msgs \in SUBSET msgs /\ msgs' = Orphaned(msgs, n)
      BY DEF Restart, CrashInCompaction
    <2> QED
      BY <1>6, <2>1, <2>2, Zenon DEF Crash
  <1> QED
    BY <1>1, <1>2, <1>3, <1>4, <1>5, <1>6 DEF Next, Step, DirectStep

\* Only a replication loop sends something new.
LEMMA StepStays ==
    ASSUME RaftInv, [Next]_vars, \A n, q \in Node : ~Sends(n, q)
    PROVE  \A m \in msgs' : MessageStays(m)
  <1>1. Fits
    BY Given
  <1> QED
    BY <1>1, MessageKinds, FewerStay, OrphansStay, AnswerStays

\* What is sent.
LEMMA SendIs ==
    ASSUME NEW n \in Node, NEW q \in Node, Sends(n, q)
    PROVE  \E req : /\ Send(n, q, req) /\ req.type \in {"AE", "IS"} /\ req.answered = {}
                    /\ req.from = n /\ req.to = q /\ req.term = currentTerm[n]
  <1>1. CASE SendAppendEntries(n, q)
    <2>1. PICK req : req = [type |-> "AE", call |-> "replicate", from |-> n, to |-> q,
               term |-> currentTerm[n], prevIndex |-> nextIndex[n][q] - 1,
               prevTerm |-> termAt(n, nextIndex[n][q] - 1), ents |-> sliceFrom(n, nextIndex[n][q]),
               commit |-> commitIndex[n], live |-> TRUE, answered |-> {}]
      BY Zenon
    <2>2. Send(n, q, req)
      BY <1>1, <2>1 DEF SendAppendEntries
    <2> QED
      BY <2>1, <2>2
  <1>2. CASE SendSnapshot(n, q)
    <2>1. PICK req : req = [type |-> "IS", call |-> "replicate", from |-> n, to |-> q,
               term |-> currentTerm[n], snap |-> snap[n], live |-> TRUE, answered |-> {}]
      BY Zenon
    <2>2. Send(n, q, req)
      BY <1>2, <2>1 DEF SendSnapshot
    <2> QED
      BY <2>1, <2>2
  <1> QED
    BY <1>1, <1>2 DEF Sends

\* The messages to p change as its handlers say, unless the leader of the term
\* sends it something.
LEMMA StepDelivers ==
    ASSUME RaftInv, [Next]_vars, NEW p \in Node, NEW t
    PROVE  Delivers(p, t) \/ \E n \in Node : Sends(n, p) /\ currentTerm[n] = t
  <1>1. CASE \A n, q \in Node : ~Sends(n, q)
    BY <1>1, StepStays, AllStay
  <1>2. ASSUME NEW n \in Node, NEW q \in Node, Sends(n, q) PROVE Delivers(p, t) \/ (q = p /\ currentTerm[n] = t)
    <2>1. PICK req : /\ Send(n, q, req) /\ req.type \in {"AE", "IS"} /\ req.to = q /\ req.term = currentTerm[n]
      BY <1>2, SendIs
    <2>2. \A m \in msgs' : m = req \/ MessageStays(m)
      BY <2>1, Given, SendStays
    <2> QED
      BY <2>1, <2>2 DEF Delivers, MessageStays, Requests
  <1> QED
    BY <1>1, <1>2

-----------------------------------------------------------------------------
(***************************************************************************)
(* What a step does to logs, indices and bookkeeping.                      *)
(***************************************************************************)
\* n wins the election of term t and appends its no-op.
Wins(n, t) ==
    /\ BecomeLeader(n, t) /\ currentTerm'[n] = t /\ msgs' = msgs
    /\ leaders' = leaders \cup {[node |-> n, term |-> t]}
    /\ role[n] # E!Leader \/ currentTerm'[n] # currentTerm[n]

\* An election that starts is won at once in a cluster of one.
LEMMA StartWins ==
    ASSUME RaftInv, NEW n \in Node, BeginElection(n) \/ \E r : CampaignWon(n, r)
    PROVE  UNCHANGED <<logVars, applyVars, leaderVars>> \/ \E t \in 1..MaxTerm : Wins(n, t)
  <1>1. PICK pos : ElectionLog(n) /\ E!startRealElection(n, pos) /\ msgs' = msgs
    <2>1. CASE BeginElection(n)
      <3>1. ElectionLog(n) /\ E!startRealElection(n, LastPos[n]) /\ msgs' = msgs
        BY <2>1 DEF BeginElection, E!BeginElection
      <3>2. PICK pos : pos = LastPos[n]
        OBVIOUS
      <3>3. E!startRealElection(n, pos)
        BY <3>1, <3>2 DEF E!startRealElection
      <3> QED
        BY <3>1, <3>3
    <2>2. CASE \E r : CampaignWon(n, r)
      <3>1. PICK r : CampaignWon(n, r)
        BY <2>2
      <3> QED
        BY <3>1 DEF CampaignWon, E!CampaignWon
    <2> QED
      BY <2>1, <2>2
  <1>2. /\ currentTerm[n] + 1 <= MaxTerm /\ currentTerm' = [currentTerm EXCEPT ![n] = currentTerm[n] + 1]
        /\ E!IsQuorum({n}) => leaders' = leaders \cup {[node |-> n, term |-> currentTerm[n] + 1]}
    BY <1>1 DEF E!startRealElection, E!becomeLeader
  <1>3. currentTerm \in [Node -> 0..MaxTerm] /\ currentTerm[n] \in Nat
    BY Given, Bounds DEF ElectionShape
  <1>4. CASE E!IsQuorum({n})
    <2>1. PICK t \in 1..MaxTerm : t = currentTerm[n] + 1
      BY <1>2, <1>3, Bounds
    <2>2. BecomeLeader(n, t)
      BY <1>1, <1>4, <2>1 DEF ElectionLog, BecomeLeader, AppendOwn
    <2>3. /\ currentTerm'[n] = t /\ leaders' = leaders \cup {[node |-> n, term |-> t]}
          /\ currentTerm'[n] # currentTerm[n]
      BY <1>2, <1>3, <1>4, <2>1
    <2> QED
      BY <1>1, <2>2, <2>3 DEF Wins
  <1>5. CASE ~E!IsQuorum({n})
    BY <1>1, <1>5 DEF ElectionLog
  <1> QED
    BY <1>4, <1>5

\* So may a counted vote.
LEMMA VoteWins ==
    ASSUME RaftInv, NEW m \in voteMsgs, VoteCounted(m)
    PROVE  \/ UNCHANGED <<logVars, applyVars, leaderVars>>
           \/ \E n \in Node : \E t \in 1..MaxTerm : Wins(n, t)
  <1>1. /\ m.type = "reply"
        /\ IF E!IsQuorum(votes[m.to] \cup {m.from})
           THEN BecomeLeader(m.to, currentTerm[m.to])
           ELSE UNCHANGED <<logVars, applyVars, leaderVars>>
        /\ E!VoteCounted(m) /\ msgs' = msgs
    BY DEF VoteCounted
  <1>2. /\ currentTerm' = currentTerm /\ currentTerm[m.to] = m.forTerm /\ role[m.to] # E!Leader
        /\ E!IsQuorum(votes[m.to] \cup {m.from}) =>
              leaders' = leaders \cup {[node |-> m.to, term |-> currentTerm[m.to]]}
    BY <1>1 DEF E!VoteCounted, E!becomeLeader, E!ReplyCurrent, E!Candidate, E!Leader
  <1>3. m.to \in Node /\ m.forTerm \in 1..MaxTerm
    <2>1. m \in E!VoteReply
      BY <1>1, Given DEF TypeOK, E!TypeOK, E!VoteMsg, E!VoteRequest
    <2> QED
      BY <2>1 DEF E!VoteReply
  <1>4. CASE E!IsQuorum(votes[m.to] \cup {m.from})
    <2>1. PICK t \in 1..MaxTerm : t = currentTerm[m.to]
      BY <1>2, <1>3
    <2>2. BecomeLeader(m.to, t)
      BY <1>1, <1>4, <2>1 DEF BecomeLeader, AppendOwn
    <2>3. currentTerm'[m.to] = t /\ leaders' = leaders \cup {[node |-> m.to, term |-> t]}
      BY <1>2, <1>4, <2>1
    <2> QED
      BY <1>1, <1>2, <1>3, <2>2, <2>3 DEF Wins
  <1>5. CASE ~E!IsQuorum(votes[m.to] \cup {m.from})
    BY <1>1, <1>5
  <1> QED
    BY <1>4, <1>5

\* The steps that change logs, indices or bookkeeping.
LEMMA StepKinds ==
    ASSUME RaftInv, [Next]_vars
    PROVE  \/ UNCHANGED <<logVars, applyVars, leaderVars>>
           \/ \E n \in Node : \/ Propose(n) \/ ApplyReady(n)
                              \/ Restart(n) \/ CrashInCompaction(n)
                              \/ \E t \in 1..MaxTerm : Wins(n, t)
           \/ \E m \in msgs : \/ AcceptAppend(m) \/ InstallSnapshot(m)
                              \/ AppendAcked(m) \/ SnapshotAcked(m) \/ AppendRejected(m)
                              \/ CrashInAppend(m) \/ CrashInInstall(m)
  <1>1. CASE UNCHANGED vars
    BY <1>1 DEF vars
  <1>2. ASSUME NEW n \in Node, NodeStep(n)
        PROVE  \/ UNCHANGED <<logVars, applyVars, leaderVars>> \/ Propose(n) \/ ApplyReady(n)
               \/ \E t \in 1..MaxTerm : Wins(n, t)
    BY <1>2, StartWins, Zenon DEF NodeStep, SendAppendEntries, SendSnapshot
  <1>3. ASSUME NEW m \in voteMsgs, VoteCounted(m) \/ OtherVoting(m)
        PROVE  \/ UNCHANGED <<logVars, applyVars, leaderVars>>
               \/ \E n \in Node : \E t \in 1..MaxTerm : Wins(n, t)
    BY <1>3, VoteWins DEF OtherVoting
  <1>4. ASSUME NEW m \in msgs, Deliver(m)
        PROVE  \/ UNCHANGED <<logVars, applyVars, leaderVars>>
               \/ AcceptAppend(m) \/ InstallSnapshot(m)
               \/ AppendAcked(m) \/ SnapshotAcked(m) \/ AppendRejected(m)
    BY <1>4, Zenon DEF Deliver, StaleLeader, RejectAppend, SkipSnapshot, ReplyNewerTerm, ReplyStale
  <1>5. ASSUME NEW n \in Node, PreVoting(n)
        PROVE  UNCHANGED <<logVars, applyVars, leaderVars>> \/ \E t \in 1..MaxTerm : Wins(n, t)
    BY <1>5, StartWins DEF PreVoting, BeginPreVote, PreVoteGranted, LeaderSilent
  <1>6. ASSUME NEW n \in Node, Crash(n)
        PROVE  \/ Restart(n) \/ CrashInCompaction(n)
               \/ \E m \in msgs : CrashInAppend(m) \/ CrashInInstall(m)
    BY <1>6 DEF Crash
  <1>7. CASE \E n \in Node : NodeStep(n)
    BY <1>2, <1>7
  <1>8. CASE \E m \in voteMsgs : VoteCounted(m) \/ OtherVoting(m)
    BY <1>3, <1>8
  <1>9. CASE \E m \in msgs : Deliver(m)
    BY <1>4, <1>9
  <1>10. CASE \E n \in Node : PreVoting(n)
    BY <1>5, <1>10
  <1>11. CASE \E n \in Node : Crash(n)
    BY <1>6, <1>11
  <1> QED
    BY <1>1, <1>7, <1>8, <1>9, <1>10, <1>11 DEF Next, Step, DirectStep

-----------------------------------------------------------------------------
(***************************************************************************)
(* Who has led and crashed never leads in the same term again.             *)
(***************************************************************************)
\* Votes for n come in answer to its requests, and n asks for no more.
CallsTraced(n) ==
    \A m \in voteMsgs' :
        /\ m.type = "reply" /\ m.to = n =>
              m \in voteMsgs \/ \E x \in voteMsgs : x.type = "request" /\ x.from = n /\ x.live /\ x.term = m.forTerm
        /\ m.type = "request" /\ m.from = n /\ m.live =>
              \E x \in voteMsgs : x.type = "request" /\ x.from = n /\ x.live /\ x.term = m.term

\* What a step does to n that has no campaign.
Idle(n) ==
    /\ currentTerm'[n] = currentTerm[n] /\ votes'[n] \in {votes[n], {}} /\ CallsTraced(n)
    /\ [node |-> n, term |-> currentTerm[n]] \in leaders' => Crowned(n) 
    /\ role[n] = E!Leader => role'[n] = E!Leader

\* Who has no campaign still has none.
LEMMA IdleStays ==
    ASSUME Retired, NEW n \in Node, Idle(n), Crowned(n)', role'[n] # E!Leader
    PROVE  Gone(n)'
  <1>1. Gone(n) /\ currentTerm'[n] = currentTerm[n]
    BY DEF Retired, Idle, Crowned
  <1> QED
    BY <1>1 DEF Gone, Idle, CallsTraced

\* A newer term that n has not won.
LEMMA NewerUncrowned ==
    ASSUME RaftInv, NEW n \in Node, leaders' = leaders, currentTerm'[n] > currentTerm[n]
    PROVE  ~Crowned(n)'
  <1> SUFFICES ASSUME Crowned(n)' PROVE FALSE
    OBVIOUS
  <1>1. [node |-> n, term |-> currentTerm'[n]] \in leaders
    BY DEF Crowned
  <1>2. PICK v \in leaders : v.node = n /\ v.term = currentTerm'[n]
    BY <1>1
  <1>3. v.term <= currentTerm[n] /\ v.term \in Nat /\ currentTerm[n] \in Nat
    BY <1>2, Given, Bounds DEF ElectionShape
  <1> QED
    BY <1>2, <1>3

\* A node that adopts a newer term has not won it; the others are idle.
LEMMA AdoptIdle ==
    ASSUME RaftInv, NEW n \in Node, NEW a \in Node, NEW t \in Int, t > currentTerm[a], E!stepDown(a, t),
           leaders' = leaders, \A m \in voteMsgs' : m \in voteMsgs
    PROVE  ~Crowned(n)' \/ Idle(n)
  <1>1. /\ currentTerm \in [Node -> 0..MaxTerm] /\ role \in [Node -> {E!Follower, E!Candidate, E!Leader}]
        /\ votes \in [Node -> SUBSET Node]
    BY Given DEF ElectionShape, TypeOK, E!TypeOK
  <1>2. CASE n = a
    <2>1. currentTerm'[n] = t
      BY <1>1, <1>2 DEF E!stepDown
    <2> QED
      BY <1>2, <2>1, NewerUncrowned
  <1>3. CASE n # a
    <2>1. currentTerm'[n] = currentTerm[n] /\ votes'[n] = votes[n] /\ role'[n] = role[n]
      BY <1>1, <1>3 DEF E!stepDown
    <2> QED
      BY <2>1 DEF Idle, CallsTraced, Crowned
  <1> QED
    BY <1>2, <1>3

\* An election that begins.
LEMMA BeginIdle ==
    ASSUME RaftInv, NEW n \in Node, NEW a \in Node, NEW pos, E!startRealElection(a, pos)
    PROVE  ~Crowned(n)' \/ role'[n] = E!Leader \/ Idle(n)
  <1>1. /\ currentTerm \in [Node -> 0..MaxTerm] /\ role \in [Node -> {E!Follower, E!Candidate, E!Leader}]
        /\ votes \in [Node -> SUBSET Node]
    BY Given DEF ElectionShape, TypeOK, E!TypeOK
  <1>2. CASE n = a
    <2>1. currentTerm'[n] > currentTerm[n]
      <3>1. currentTerm'[n] = currentTerm[n] + 1 /\ currentTerm[n] \in Nat
        BY <1>1, <1>2, Bounds DEF E!startRealElection
      <3> QED
        BY <3>1
    <2>2. CASE E!IsQuorum({a})
      BY <1>1, <1>2, <2>2 DEF E!startRealElection, E!becomeLeader
    <2>3. CASE ~E!IsQuorum({a})
      BY <1>2, <2>1, <2>3, NewerUncrowned DEF E!startRealElection
    <2> QED
      BY <2>2, <2>3
  <1>3. CASE n # a
    <2>1. currentTerm'[n] = currentTerm[n] /\ votes'[n] = votes[n]
      BY <1>1, <1>3 DEF E!startRealElection
    <2>2. role'[n] = role[n] /\ ([node |-> n, term |-> currentTerm[n]] \in leaders' => Crowned(n))
      <3>1. CASE E!IsQuorum({a})
        BY <1>1, <1>3, <3>1 DEF E!startRealElection, E!becomeLeader, Crowned
      <3>2. CASE ~E!IsQuorum({a})
        BY <1>1, <1>3, <3>2 DEF E!startRealElection, Crowned
      <3> QED
        BY <3>1, <3>2
    <2>3. CallsTraced(n)
      <3>1. \A m \in voteMsgs' : m \in voteMsgs \/ (m.type = "request" /\ m.from = a)
        BY DEF E!startRealElection
      <3> QED
        BY <1>3, <3>1 DEF CallsTraced
    <2> QED
      BY <2>1, <2>2, <2>3 DEF Idle
  <1> QED
    BY <1>2, <1>3

\* RequestVote at some node.
LEMMA VotingIdle ==
    ASSUME RaftInv, NEW n \in Node, NEW m \in voteMsgs, E!HandleRequestVote(m)
    PROVE  ~Crowned(n)' \/ Idle(n)
  <1>1. /\ currentTerm \in [Node -> 0..MaxTerm] /\ role \in [Node -> {E!Follower, E!Candidate, E!Leader}]
        /\ votes \in [Node -> SUBSET Node] /\ m.type = "request" /\ m \in E!VoteRequest
    BY Given DEF ElectionShape, TypeOK, E!TypeOK, E!VoteMsg, E!VoteReply, E!HandleRequestVote
  <1>2. m.to \in Node /\ m.term \in Int /\ leaders' = leaders
    BY <1>1, Bounds DEF E!VoteRequest, E!HandleRequestVote
  <1>3. CASE n = m.to /\ m.term > currentTerm[n]
    <2>1. currentTerm'[n] = m.term
      BY <1>1, <1>2, <1>3 DEF E!HandleRequestVote
    <2> QED
      BY <1>2, <1>3, <2>1, NewerUncrowned
  <1>4. CASE ~(n = m.to /\ m.term > currentTerm[n])
    <2>1. currentTerm'[n] = currentTerm[n] /\ votes'[n] = votes[n] /\ role'[n] = role[n]
      BY <1>1, <1>2, <1>4 DEF E!HandleRequestVote
    <2>2. CallsTraced(n)
      <3>1. PICK t, g : voteMsgs' = (voteMsgs \ {m}) \cup E!VoteReplyTo(m, t, g)
        BY DEF E!HandleRequestVote
      <3>2. ASSUME NEW x \in voteMsgs', x \notin voteMsgs
            PROVE  m.live /\ x.type = "reply" /\ x.to = m.from /\ x.forTerm = m.term
        BY <3>1, <3>2 DEF E!VoteReplyTo
      <3> QED
        BY <1>1, <3>2 DEF CallsTraced
    <2> QED
      BY <1>2, <2>1, <2>2 DEF Idle, Crowned
  <1> QED
    BY <1>3, <1>4

\* A counted vote makes nobody leader again.
LEMMA CountedIdle ==
    ASSUME RaftInv, Retired, NEW n \in Node, NEW m \in voteMsgs, E!VoteCounted(m)
    PROVE  ~Crowned(n)' \/ role'[n] = E!Leader \/ Idle(n)
  <1>1. /\ currentTerm \in [Node -> 0..MaxTerm] /\ role \in [Node -> {E!Follower, E!Candidate, E!Leader}]
        /\ votes \in [Node -> SUBSET Node] /\ m.type = "reply" /\ currentTerm' = currentTerm
        /\ role[m.to] = E!Candidate /\ currentTerm[m.to] = m.forTerm /\ m \in E!VoteReply
        /\ \A x \in voteMsgs' : x \in voteMsgs
    BY Given DEF ElectionShape, TypeOK, E!TypeOK, E!VoteMsg, E!VoteRequest, E!VoteCounted, E!ReplyCurrent
  <1>2. m.to \in Node /\ E!Candidate # E!Leader
    BY <1>1 DEF E!VoteReply, E!Candidate, E!Leader
  <1>3. CASE n = m.to
    <2>1. ~Crowned(n)
      BY <1>1, <1>2, <1>3 DEF Retired, Gone
    <2>2. CASE E!IsQuorum(votes[n] \cup {m.from})
      BY <1>1, <1>3, <2>2 DEF E!VoteCounted, E!becomeLeader
    <2>3. CASE ~E!IsQuorum(votes[n] \cup {m.from})
      BY <1>1, <1>3, <2>1, <2>3 DEF E!VoteCounted, Crowned
    <2> QED
      BY <2>2, <2>3
  <1>4. CASE n # m.to
    <2>1. votes'[n] = votes[n] /\ role'[n] = role[n] /\ ([node |-> n, term |-> currentTerm[n]] \in leaders' => Crowned(n))
      BY <1>1, <1>4 DEF E!VoteCounted, E!becomeLeader, Crowned
    <2> QED
      BY <1>1, <2>1 DEF Idle, CallsTraced
  <1> QED
    BY <1>3, <1>4

\* A crash leaves nothing of a campaign.
LEMMA OrphanedCalls ==
    ASSUME RaftInv, NEW n \in Node, NEW a \in Node, voteMsgs' = E!Orphaned(a)
    PROVE  /\ CallsTraced(n)
           /\ n = a => \A m \in voteMsgs' : /\ m.type = "reply" => m.to # n
                                            /\ m.type = "request" /\ m.from = n => ~m.live
  <1>1. ASSUME NEW m \in voteMsgs'
        PROVE  \/ m \in voteMsgs /\ ~(m.type = "request" /\ m.from = a) /\ ~(m.type = "reply" /\ m.to = a)
               \/ m.type = "request" /\ m.from = a /\ ~m.live
    <2>1. PICK x \in voteMsgs : /\ ~(x.type = "reply" /\ x.to = a)
                                /\ m = IF x.type = "request" /\ x.from = a THEN [x EXCEPT !.live = FALSE] ELSE x
      BY DEF E!Orphaned
    <2>2. CASE x.type = "request" /\ x.from = a
      <3>1. x \in E!VoteRequest
        BY <2>2, Given DEF TypeOK, E!TypeOK, E!VoteMsg, E!VoteReply
      <3> QED
        BY <2>1, <2>2, <3>1 DEF E!VoteRequest
    <2> QED
      BY <2>1, <2>2
  <1> QED
    BY <1>1 DEF CallsTraced

\* Contact with a leader.
LEMMA ContactIdle ==
    ASSUME RaftInv, NEW n \in Node, NEW a \in Node, NEW l \in Node, NEW t \in Int,
           E!FollowLeader(a, l, t) \/ E!DieFollowing(a, l, t)
    PROVE  ~Crowned(n)' \/ Idle(n)
  <1>1. /\ currentTerm \in [Node -> 0..MaxTerm] /\ role \in [Node -> {E!Follower, E!Candidate, E!Leader}]
        /\ votes \in [Node -> SUBSET Node] /\ leaders' = leaders /\ t >= currentTerm[a] /\ l # a
        /\ [node |-> l, term |-> t] \in leaders /\ currentTerm[a] \in Nat
    BY Given, Bounds DEF ElectionShape, TypeOK, E!TypeOK, E!FollowLeader, E!DieFollowing
  <1>2. CallsTraced(n)
    BY OrphanedCalls DEF CallsTraced, E!FollowLeader, E!DieFollowing
  <1>3. CASE t > currentTerm[a]
    <2>1. currentTerm'[a] = t /\ (n # a => currentTerm'[n] = currentTerm[n] /\ votes'[n] = votes[n] /\ role'[n] = role[n])
      BY <1>1, <1>3 DEF E!FollowLeader, E!DieFollowing, E!stepDown
    <2>2. CASE n = a
      BY <1>1, <1>3, <2>1, <2>2, NewerUncrowned
    <2>3. CASE n # a
      BY <1>1, <1>2, <2>1, <2>3 DEF Idle, Crowned
    <2> QED
      BY <2>2, <2>3
  <1>4. CASE ~(t > currentTerm[a])
    <2>1. t = currentTerm[a]
      BY <1>1, <1>4
    <2>2. role[a] # E!Leader
      BY <1>1, <2>1, Given, Zenon DEF ElectionShape, Crowned
    <2>3. /\ currentTerm' = currentTerm /\ votes'[n] \in {votes[n], {}}
          /\ n # a => role'[n] = role[n]
      BY <1>1, <1>4 DEF E!FollowLeader, E!DieFollowing
    <2> QED
      BY <1>1, <1>2, <2>2, <2>3 DEF Idle, Crowned
  <1> QED
    BY <1>3, <1>4

\* A restart.
LEMMA RebootIdle ==
    ASSUME RaftInv, NEW n \in Node, NEW a \in Node, E!Reboot(a)
    PROVE  Gone(n)' \/ Idle(n)
  <1>1. /\ currentTerm \in [Node -> 0..MaxTerm] /\ role \in [Node -> {E!Follower, E!Candidate, E!Leader}]
        /\ votes \in [Node -> SUBSET Node] /\ voteMsgs' = E!Orphaned(a) /\ leaders' = leaders
    BY Given DEF ElectionShape, TypeOK, E!TypeOK, E!Reboot
  <1>2. CASE n = a
    <2>1. votes'[n] = {}
      BY <1>1, <1>2 DEF E!Reboot
    <2> QED
      BY <1>1, <1>2, <2>1, OrphanedCalls DEF Gone
  <1>3. CASE n # a
    <2>1. currentTerm'[n] = currentTerm[n] /\ votes'[n] = votes[n] /\ role'[n] = role[n]
      BY <1>1, <1>3 DEF E!Reboot
    <2> QED
      BY <1>1, <2>1, OrphanedCalls DEF Idle, Crowned
  <1> QED
    BY <1>2, <1>3

\* A step of Election keeps former leaders retired.
LEMMA RetiredNext ==
    ASSUME RaftInv, Retired, ElectionAllows
    PROVE  Retired'
  <1> SUFFICES ASSUME NEW n \in Node, Crowned(n)', role'[n] # E!Leader PROVE Gone(n)'
    BY DEF Retired
  <1> SUFFICES ASSUME ~Gone(n)' PROVE Idle(n)
    BY IdleStays
  <1>0. role \in [Node -> {E!Follower, E!Candidate, E!Leader}]
    BY Given DEF TypeOK, E!TypeOK
  <1>1. CASE UNCHANGED <<currentTerm, votes, role, leaders>> /\ \A m \in voteMsgs' : m \in voteMsgs
    BY <1>1 DEF Idle, CallsTraced, Crowned
  <1>2. ASSUME NEW a \in Node, E!Campaign(a) PROVE Idle(n)
    <2>1. CASE E!BeginPreVote(a)
      <3>1. UNCHANGED <<currentTerm, votes, leaders, voteMsgs>> /\ (role[n] = E!Leader => role'[n] = E!Leader)
        BY <1>0, <2>1 DEF E!BeginPreVote, E!ElectionTimeout
      <3> QED
        BY <3>1 DEF Idle, CallsTraced, Crowned
    <2>2. CASE \E r \in preVotes[a] : \E p \in Node : E!PreVoteGranted(a, r, p)
      BY <1>1, <2>2 DEF E!PreVoteGranted
    <2>3. ASSUME NEW pos, E!startRealElection(a, pos) PROVE Idle(n)
      BY <2>3, BeginIdle
    <2>4. CASE E!BeginElection(a)
      <3>1. PICK pos : pos = LastPos[a]
        OBVIOUS
      <3>2. E!startRealElection(a, pos)
        BY <2>4, <3>1 DEF E!BeginElection, E!startRealElection
      <3> QED
        BY <2>3, <3>2
    <2>5. ASSUME NEW r \in preVotes[a], E!CampaignWon(a, r) PROVE Idle(n)
      BY <2>3, <2>5 DEF E!CampaignWon
    <2> QED
      BY <1>2, <2>1, <2>2, <2>4, <2>5 DEF E!Campaign
  <1>3. ASSUME NEW m \in voteMsgs, E!Voting(m) PROVE Idle(n)
    <2>1. CASE E!HandleRequestVote(m)
      BY <2>1, VotingIdle
    <2>2. CASE E!VoteReplyNewer(m)
      <3>1. m.to \in Node /\ m.term \in Int
        <4>1. m \in E!VoteReply
          BY <2>2, Given DEF TypeOK, E!TypeOK, E!VoteMsg, E!VoteRequest, E!VoteReplyNewer
        <4> QED
          BY <4>1, Bounds DEF E!VoteReply
      <3> QED
        BY <2>2, <3>1, AdoptIdle DEF E!VoteReplyNewer
    <2>3. CASE E!VoteCounted(m)
      BY <2>3, CountedIdle
    <2>4. CASE E!VoteReplyIgnored(m)
      BY <1>1, <2>4 DEF E!VoteReplyIgnored
    <2> QED
      BY <1>3, <2>1, <2>2, <2>3, <2>4 DEF E!Voting
  <1>4. ASSUME NEW a \in Node, E!Environment(a) PROVE Idle(n)
    <2>1. \A t \in E!Term : t \in Int
      BY Bounds DEF E!Term
    <2>2. CASE \E l \in Node, t \in E!Term : E!LeaderContact(a, l, t) \/ E!CrashInHandler(a, l, t)
      BY <2>1, <2>2, ContactIdle DEF E!LeaderContact, E!CrashInHandler
    <2>3. CASE E!LeaderSilent(a) \/ E!LeaderAppend(a)
      BY <1>1, <2>3 DEF E!LeaderSilent, E!LeaderAppend
    <2>4. CASE \E t \in E!Term : E!LearnTerm(a, t)
      BY <2>1, <2>4, AdoptIdle DEF E!LearnTerm
    <2>5. CASE E!Restart(a)
      BY <2>5, RebootIdle DEF E!Restart
    <2> QED
      BY <1>4, <2>2, <2>3, <2>4, <2>5 DEF E!Environment
  <1>5. CASE UNCHANGED E!electionVars
    BY <1>1, <1>5 DEF E!electionVars
  <1> QED
    BY <1>2, <1>3, <1>4, <1>5 DEF ElectionAllows, E!Next

\* l goes on leading, or has just won an election nobody had won.
LeadsOn(l) ==
    \/ role[l] = E!Leader /\ currentTerm'[l] = currentTerm[l]
    \/ [node |-> l, term |-> currentTerm'[l]] \in leaders' \ leaders

\* Who leads after a step has led before, or has just won.
LEMMA LeaderSteps ==
    ASSUME RaftInv, Retired, ElectionAllows, NEW l \in Node, role'[l] = E!Leader
    PROVE  LeadsOn(l)
  <1>0. /\ currentTerm \in [Node -> 0..MaxTerm] /\ role \in [Node -> {E!Follower, E!Candidate, E!Leader}]
        /\ voteMsgs \subseteq E!VoteMsg
        /\ E!Follower # E!Leader /\ E!Candidate # E!Leader
        /\ \A v \in leaders : v.term <= currentTerm[v.node]
    BY Given DEF ElectionShape, TypeOK, E!TypeOK, E!Follower, E!Leader, E!Candidate
  <1>1. CASE UNCHANGED <<currentTerm, role>>
    BY <1>1 DEF LeadsOn
  <1>2. ASSUME NEW a \in Node, NEW pos, E!startRealElection(a, pos) PROVE LeadsOn(l)
    <2>1. CASE E!IsQuorum({a}) /\ a = l
      <3>1. currentTerm'[l] = currentTerm[l] + 1 /\ currentTerm[l] \in Nat
        BY <1>0, <1>2, <2>1, Bounds DEF E!startRealElection
      <3>2. [node |-> l, term |-> currentTerm'[l]] \in leaders'
        BY <1>2, <2>1, <3>1 DEF E!startRealElection, E!becomeLeader
      <3>3. [node |-> l, term |-> currentTerm'[l]] \notin leaders
        <4> SUFFICES ASSUME NEW v \in leaders, v.node = l, v.term = currentTerm'[l] PROVE FALSE
          OBVIOUS
        <4>1. v.term <= currentTerm[l]
          BY <1>0
        <4> QED
          BY <3>1, <4>1
      <3> QED
        BY <3>2, <3>3 DEF LeadsOn
    <2>2. CASE E!IsQuorum({a}) /\ a # l
      BY <1>0, <1>2, <2>2 DEF E!startRealElection, E!becomeLeader, LeadsOn
    <2>3. CASE ~E!IsQuorum({a})
      BY <1>0, <1>2, <2>3 DEF E!startRealElection, LeadsOn
    <2> QED
      BY <2>1, <2>2, <2>3
  <1>3. ASSUME NEW a \in Node, E!Campaign(a) PROVE LeadsOn(l)
    <2>1. CASE E!BeginPreVote(a)
      BY <1>0, <2>1 DEF E!BeginPreVote, LeadsOn
    <2>2. CASE \E r \in preVotes[a] : \E p \in Node : E!PreVoteGranted(a, r, p)
      BY <1>1, <2>2 DEF E!PreVoteGranted
    <2>4. CASE E!BeginElection(a)
      <3>1. PICK pos : pos = LastPos[a]
        OBVIOUS
      <3>2. E!startRealElection(a, pos)
        BY <2>4, <3>1 DEF E!BeginElection, E!startRealElection
      <3> QED
        BY <1>2, <3>2
    <2>5. ASSUME NEW r \in preVotes[a], E!CampaignWon(a, r) PROVE LeadsOn(l)
      BY <1>2, <2>5 DEF E!CampaignWon
    <2> QED
      BY <1>3, <2>1, <2>2, <2>4, <2>5 DEF E!Campaign
  <1>4. ASSUME NEW a \in Node, NEW t \in Int, E!stepDown(a, t) PROVE LeadsOn(l)
    BY <1>0, <1>4 DEF E!stepDown, LeadsOn
  <1>5. ASSUME NEW m \in voteMsgs, E!Voting(m) PROVE LeadsOn(l)
    <2>0. /\ m.type = "request" => m.to \in Node
          /\ m.type = "reply" => m.to \in Node /\ m.term \in Int
      <3>1. m \in E!VoteRequest \/ m \in E!VoteReply
        BY <1>0 DEF E!VoteMsg
      <3> QED
        BY <3>1, Bounds DEF E!VoteRequest, E!VoteReply
    <2>1. CASE E!HandleRequestVote(m)
      BY <1>0, <2>0, <2>1 DEF E!HandleRequestVote, LeadsOn
    <2>2. CASE E!VoteReplyNewer(m)
      BY <1>4, <2>0, <2>2 DEF E!VoteReplyNewer
    <2>3. CASE E!VoteCounted(m)
      <3>1. /\ m.type = "reply" /\ currentTerm' = currentTerm
            /\ role[m.to] = E!Candidate /\ currentTerm[m.to] = m.forTerm
        BY <2>3 DEF E!VoteCounted, E!ReplyCurrent
      <3>2. CASE m.to = l /\ E!IsQuorum(votes[l] \cup {m.from})
        <4>1. ~Crowned(l)
          BY <1>0, <3>1, <3>2 DEF Retired, Gone
        <4>2. [node |-> l, term |-> currentTerm[l]] \in leaders'
          BY <2>3, <3>2 DEF E!VoteCounted, E!becomeLeader
        <4> QED
          BY <3>1, <4>1, <4>2 DEF LeadsOn, Crowned
      <3>3. CASE m.to # l
        BY <1>0, <2>0, <2>3, <3>1, <3>3 DEF E!VoteCounted, E!becomeLeader, LeadsOn
      <3>4. CASE m.to = l /\ ~E!IsQuorum(votes[l] \cup {m.from})
        BY <1>1, <2>3, <3>1, <3>4 DEF E!VoteCounted
      <3> QED
        BY <3>2, <3>3, <3>4
    <2>4. CASE E!VoteReplyIgnored(m)
      BY <1>1, <2>4 DEF E!VoteReplyIgnored
    <2> QED
      BY <1>5, <2>1, <2>2, <2>3, <2>4 DEF E!Voting
  <1>6. ASSUME NEW a \in Node, E!Environment(a) PROVE LeadsOn(l)
    <2>1. \A t \in E!Term : t \in Int
      BY Bounds DEF E!Term
    <2>2. ASSUME NEW k \in Node, NEW t \in Int, E!FollowLeader(a, k, t) \/ E!DieFollowing(a, k, t)
          PROVE  LeadsOn(l)
      <3>1. CASE t > currentTerm[a]
        BY <1>4, <2>2, <3>1 DEF E!FollowLeader, E!DieFollowing
      <3>2. CASE ~(t > currentTerm[a])
        BY <1>0, <2>2, <3>2 DEF E!FollowLeader, E!DieFollowing, LeadsOn
      <3> QED
        BY <3>1, <3>2
    <2>3. CASE E!LeaderSilent(a) \/ E!LeaderAppend(a)
      BY <1>1, <2>3 DEF E!LeaderSilent, E!LeaderAppend
    <2>4. CASE \E t \in E!Term : E!LearnTerm(a, t)
      BY <1>4, <2>1, <2>4 DEF E!LearnTerm
    <2>5. CASE E!Restart(a)
      BY <1>0, <2>5 DEF E!Restart, E!Reboot, LeadsOn
    <2> QED
      BY <1>6, <2>1, <2>2, <2>3, <2>4, <2>5 DEF E!Environment, E!LeaderContact, E!CrashInHandler
  <1>7. CASE UNCHANGED E!electionVars
    BY <1>1, <1>7 DEF E!electionVars
  <1> QED
    BY <1>3, <1>5, <1>6, <1>7 DEF ElectionAllows, E!Next

-----------------------------------------------------------------------------
(***************************************************************************)
(* A step, with all that is known of it.                                   *)
(***************************************************************************)
Stepping == RaftInv /\ RaftInv' /\ Step2 /\ StepOk /\ [Next]_vars /\ ElectionAllows

\* What the invariant gives, after a step.
LEMMA GivenNext ==
    (RaftInv => /\ Fits /\ Sound /\ Elections /\ ElectionShape /\ TypeOK /\ RestTypes
                /\ TermsSound /\ Coherent /\ \A n \in Node : role[n] = E!Leader => Crowned(n))'
  <1>1. RaftInv => /\ Fits /\ Sound /\ Elections /\ ElectionShape /\ TypeOK /\ RestTypes
                   /\ TermsSound /\ Coherent /\ \A n \in Node : role[n] = E!Leader => Crowned(n)
    BY Given
  <1> QED
    BY <1>1, PTL

\* The numbers of every leader and every peer.
PairTyped(l, p) ==
    /\ nextIndex[l][p] \in 1..MaxIndex + 1 /\ matchIndex[l][p] \in 0..MaxIndex
    /\ nextIndex[l][p] \in Nat /\ matchIndex[l][p] \in Nat
    /\ commitIndex[p] \in Nat /\ snap[p].index \in Nat /\ lastApplied[p] \in Nat
    /\ snap[p].index <= commitIndex[p] /\ commitIndex[p] <= lastIndex(p)
    /\ lastIndex(p) \in Nat /\ lastIndex(p) <= MaxIndex /\ DOMAIN FullLog(p) = 1..lastIndex(p)
    /\ currentTerm[p] \in Nat /\ currentTerm[p] \in 0..MaxTerm
    /\ \A i \in 1..lastIndex(p) : FullLog(p)[i] \in 1..MaxTerm
    /\ FullLog(p) \in Carriers
\* They are typed in every state of the invariant.
LEMMA AllTyped == RaftInv => \A l, p \in Node : PairTyped(l, p)
  BY PairTypes DEF PairTyped
\* The same after a step.
LEMMA AllTypedNext == (RaftInv => \A l, p \in Node : PairTyped(l, p))'
  BY AllTyped, PTL

\* What a step gives.
LEMMA SteppingGives ==
    ASSUME Stepping
    PROVE  /\ RaftInv /\ RaftInv' /\ Step1 /\ Step2 /\ StepOk /\ [Next]_vars /\ ElectionAllows
           /\ Fits /\ Fits' /\ Sound /\ ElectionShape /\ ElectionShape' /\ ElectionStep /\ WinnersGrow
           /\ AppliedGrows /\ SnapshotsGrow /\ leaders \subseteq leaders'
           /\ \A n \in Node : currentTerm[n] <= currentTerm'[n]
           /\ \A n \in Node : NodeOk(n)
  <1>1. /\ RaftInv /\ RaftInv' /\ Step1 /\ Step2 /\ StepOk /\ [Next]_vars /\ ElectionAllows
    BY DEF Stepping, Step2
  <1>2. /\ Fits /\ Sound /\ ElectionShape
    BY <1>1, Given
  <1>3. Fits' /\ ElectionShape'
    BY <1>1, GivenNext
  <1>4. ElectionStep /\ WinnersGrow /\ SnapshotsGrow
    BY <1>1 DEF Step1, Step2
  <1>5. leaders \subseteq leaders' /\ \A n \in Node : currentTerm[n] <= currentTerm'[n]
    BY <1>4 DEF ElectionStep
  <1>6. AppliedGrows
    BY <1>1 DEF StepOk
  <1>7. \A n \in Node : NodeOk(n)
    BY <1>1, <1>2, EveryNodeOk
  <1> QED
    BY <1>1, <1>2, <1>3, <1>4, <1>5, <1>6, <1>7

\* The numbers before and after a step.
LEMMA SteppingTypes ==
    ASSUME Stepping, NEW l \in Node, NEW p \in Node
    PROVE  PairTyped(l, p) /\ PairTyped(l, p)'
  BY SteppingGives, AllTyped, AllTypedNext

\* An acceptable request continues the log of its receiver.
LEMMA AcceptHolds ==
    ASSUME RaftInv, NEW m \in Requests, m.type = "AE", m.term >= currentTerm[m.to],
           ~TooShort(m), ~Mismatch(m)
    PROVE  Holds(m.to, m.prevIndex, m.prevTerm)
  <1>1. MergesAt(m)
    BY MergeIs
  <1>2. /\ m.prevIndex \in Nat /\ KeptTo(m) \in Nat /\ KeptTo(m) <= lastIndex(m.to) /\ m.prevIndex <= KeptTo(m)
        /\ m.prevIndex <= LastNew(m) /\ LastNew(m) \in 1..MaxIndex /\ LastNew(m) = LastOf(m)
        /\ \A i \in DOMAIN Fragment(m) : i <= KeptTo(m) => Fragment(m)[i] = FullLog(m.to)[i]
    BY <1>1 DEF MergesAt
  <1>3. CASE m.prevIndex > 0
    <2>1. FirstOf(m) = m.prevIndex
      BY <1>3 DEF FirstOf
    <2>2. m.prevIndex \in FirstOf(m)..LastOf(m)
      BY <1>2, <2>1, Bounds
    <2>3. m.prevIndex \in DOMAIN Fragment(m) /\ Fragment(m)[m.prevIndex] = m.prevTerm
      BY <2>2 DEF Fragment
    <2>4. m.to \in Node /\ lastIndex(m.to) \in Nat
      BY Given, FragmentShape, PairTypes, Zenon
    <2> QED
      BY <1>2, <1>3, <2>3, <2>4 DEF Holds
  <1>4. CASE m.prevIndex = 0
    BY <1>4 DEF Holds
  <1> QED
    BY <1>2, <1>3, <1>4

\* Nothing happens to the log of p; at most its commit index falls.
Quiet(p) == Same(p) /\ lastIndex(p)' = lastIndex(p) /\ commitIndex'[p] <= commitIndex[p]
\* p takes entries over from the leader of term t.
Takes(p, t) ==
    \E x \in AEs(p, t) :
        /\ Holds(p, x.prevIndex, x.prevTerm)
        /\ commitIndex'[p] <= commitIndex[p] \/ commitIndex'[p] <= x.commit
\* p installs a snapshot from the leader of term t, or crashes in between.
Installs(p, t) ==
    \E x \in ISs(p, t) :
        /\ snap[p].index < x.snap.index
        /\ \/ /\ snap'[p].index = x.snap.index
              /\ commitIndex'[p] <= commitIndex[p] \/ commitIndex'[p] <= x.snap.index
           \/ commitIndex'[p] <= commitIndex[p] /\ \E K : LeftTo(p, K)
Moves(p, t) == Quiet(p) \/ Takes(p, t) \/ Installs(p, t)

\* Nothing happens to p.
LEMMA Untouched ==
    ASSUME Stepping, NEW p \in Node, log'[p] = log[p], snap'[p] = snap[p], commitIndex'[p] = commitIndex[p]
    PROVE  Quiet(p)
  <1>1. FullLog(p)' = FullLog(p) /\ lastIndex(p)' = lastIndex(p)
    BY SteppingGives, SameLog
  <1>2. commitIndex[p] \in Nat
    BY SteppingTypes DEF PairTyped
  <1> QED
    BY <1>1, <1>2 DEF Quiet, Same

\* The log of p stays, perhaps under another snapshot.
LEMMA SameQuiet ==
    ASSUME Stepping, NEW p \in Node, Same(p), commitIndex'[p] <= commitIndex[p]
    PROVE  Quiet(p)
  <1>1. PairTyped(p, p) /\ PairTyped(p, p)'
    BY SteppingTypes
  <1>2. /\ DOMAIN FullLog(p) = 1..lastIndex(p) /\ lastIndex(p) \in Nat
        /\ DOMAIN FullLog(p)' = 1..lastIndex(p)' /\ lastIndex(p)' \in Nat
    BY <1>1 DEF PairTyped
  <1>3. 1..lastIndex(p)' = 1..lastIndex(p)
    BY <1>2 DEF Same
  <1>4. lastIndex(p)' = lastIndex(p)
    BY <1>2, <1>3, IntervalSame
  <1> QED
    BY <1>4 DEF Quiet

\* A crash takes the commit index back to the snapshot.
LEMMA ReloadFalls ==
    ASSUME RaftInv, NEW n \in Node, NEW d, Reload(n, d)
    PROVE  /\ commitIndex'[n] = d.snap.index /\ snap'[n] = d.snap /\ sm'[n] = d.snap.data
           /\ lastApplied'[n] = d.snap.index
           /\ \A p \in Node \ {n} : /\ log'[p] = log[p] /\ snap'[p] = snap[p] /\ sm'[p] = sm[p]
                                    /\ commitIndex'[p] = commitIndex[p] /\ lastApplied'[p] = lastApplied[p]
           /\ d.snap = snap[n] => commitIndex'[n] <= commitIndex[n]
  <1>1. /\ log \in [Node -> Log] /\ snap \in [Node -> Snap] /\ sm \in [Node -> Log]
        /\ commitIndex \in [Node -> Index] /\ lastApplied \in [Node -> Index]
    BY Given DEF RestTypes
  <1>2. snap[n].index <= commitIndex[n]
    BY PairTypes
  <1> QED
    BY <1>1, <1>2 DEF Reload

\* AppendEntries that is accepted, perhaps cut short by a crash.
LEMMA AppendMoves ==
    ASSUME Stepping, NEW m \in msgs, AcceptAppend(m) \/ CrashInAppend(m)
    PROVE  /\ m.to \in Node /\ currentTerm'[m.to] = m.term /\ Takes(m.to, m.term)
           /\ leaders' = leaders /\ UNCHANGED <<nextIndex, matchIndex>>
           /\ \A p \in Node \ {m.to} : log'[p] = log[p] /\ snap'[p] = snap[p] /\ commitIndex'[p] = commitIndex[p]
  <1>0. RaftInv
    BY SteppingGives
  <1>1. /\ m \in Requests /\ m.type = "AE" /\ m.term >= currentTerm[m.to] /\ ~TooShort(m) /\ ~Mismatch(m)
        /\ E!FollowLeader(m.to, m.from, m.term) \/ E!DieFollowing(m.to, m.from, m.term)
        /\ UNCHANGED <<nextIndex, matchIndex>>
    BY Zenon DEF AcceptAppend, CrashInAppend, Requests, Reload, leaderVars
  <1>2. m.to \in Node /\ m \in AEs(m.to, m.term)
    BY <1>0, <1>1, Given, FragmentShape, Zenon DEF AEs
  <1>3. currentTerm'[m.to] = m.term /\ leaders' = leaders
    BY <1>0, <1>1, FollowIs DEF Followed
  <1>4. Holds(m.to, m.prevIndex, m.prevTerm)
    BY <1>0, <1>1, AcceptHolds
  <1>5. CASE AcceptAppend(m)
    <2>1. commitIndex \in [Node -> Index] /\ log \in [Node -> Log]
      BY <1>0, Given DEF RestTypes
    <2>2. /\ commitIndex'[m.to] = FollowerCommit(m)
          /\ \A p \in Node \ {m.to} : log'[p] = log[p] /\ snap'[p] = snap[p] /\ commitIndex'[p] = commitIndex[p]
      BY <1>2, <1>5, <2>1 DEF AcceptAppend
    <2>3. MergesAt(m)
      BY <1>0, <1>1, MergeIs
    <2>4. PICK hi \in Nat : hi = IF LastNew(m) > KeptTo(m) THEN LastNew(m) ELSE KeptTo(m)
      BY <2>3, Bounds DEF MergesAt
    <2>5. FollowerCommit(m) = (IF m.commit <= commitIndex[m.to] THEN commitIndex[m.to] ELSE m.commit)
      BY <1>0, <1>1, <2>3, <2>4, FollowerCommitIs
    <2>6. commitIndex[m.to] \in Nat /\ m.commit \in Nat
      <3>1. m \in AppendRequest
        BY <1>0, <1>1, Given, FragmentShape, Zenon
      <3> QED
        BY <1>0, <1>2, <3>1, PairTypes, Bounds DEF AppendRequest, Index
    <2>7. commitIndex'[m.to] <= commitIndex[m.to] \/ commitIndex'[m.to] <= m.commit
      BY <2>2, <2>5, <2>6
    <2> QED
      BY <1>1, <1>2, <1>3, <1>4, <2>2, <2>7 DEF Takes
  <1>6. CASE CrashInAppend(m)
    <2>1. PICK d : d = Truncated(m, disk[m.to])
      OBVIOUS
    <2>2. Reload(m.to, d)
      BY <1>6, <2>1 DEF CrashInAppend
    <2>3. d.snap = snap[m.to]
      BY <1>0, <1>2, <2>1, StoreIs, StoreOps DEF Truncated
    <2>4. commitIndex'[m.to] <= commitIndex[m.to]
      BY <1>0, <1>2, <2>2, <2>3, ReloadFalls
    <2>5. \A p \in Node \ {m.to} : log'[p] = log[p] /\ snap'[p] = snap[p] /\ commitIndex'[p] = commitIndex[p]
      BY <1>0, <1>2, <2>2, ReloadFalls
    <2> QED
      BY <1>1, <1>2, <1>3, <1>4, <2>4, <2>5 DEF Takes
  <1> QED
    BY <1>5, <1>6

\* InstallSnapshot that is accepted, perhaps cut short by a crash.
LEMMA InstallMoves ==
    ASSUME Stepping, NEW m \in msgs, InstallSnapshot(m) \/ CrashInInstall(m)
    PROVE  /\ m.to \in Node /\ currentTerm'[m.to] = m.term /\ Installs(m.to, m.term)
           /\ leaders' = leaders /\ UNCHANGED <<nextIndex, matchIndex>>
           /\ \A p \in Node \ {m.to} : log'[p] = log[p] /\ snap'[p] = snap[p] /\ commitIndex'[p] = commitIndex[p]
  <1>0. RaftInv
    BY SteppingGives
  <1>1. /\ m \in Requests /\ m.type = "IS" /\ m.term >= currentTerm[m.to] /\ m.snap.index > snap[m.to].index
        /\ E!FollowLeader(m.to, m.from, m.term) \/ E!DieFollowing(m.to, m.from, m.term)
        /\ UNCHANGED <<nextIndex, matchIndex>>
    BY DEF InstallSnapshot, CrashInInstall, Requests, Reload, leaderVars
  <1>2. m.to \in Node /\ m \in ISs(m.to, m.term)
    BY <1>0, <1>1, Given, FragmentShape, Zenon DEF ISs
  <1>3. currentTerm'[m.to] = m.term /\ leaders' = leaders
    BY <1>0, <1>1, FollowIs DEF Followed
  <1>4. NewSnapshot(m) /\ m.snap.index \in Nat /\ snap[m.to].index \in Nat /\ commitIndex[m.to] \in Nat
    BY <1>0, <1>1, <1>2, SentSnapshotIs, PairTypes DEF NewSnapshot
  <1>5. snap[m.to].index < m.snap.index
    BY <1>1, <1>4
  <1>6. CASE InstallSnapshot(m)
    <2>1. commitIndex \in [Node -> Index] /\ snap \in [Node -> Snap] /\ log \in [Node -> Log]
      BY <1>0, Given DEF RestTypes
    <2>2. /\ commitIndex'[m.to] = Raised(commitIndex[m.to], m) /\ snap'[m.to] = m.snap
          /\ \A p \in Node \ {m.to} : log'[p] = log[p] /\ snap'[p] = snap[p] /\ commitIndex'[p] = commitIndex[p]
      BY <1>2, <1>6, <2>1 DEF InstallSnapshot
    <2>3. commitIndex'[m.to] = IF commitIndex[m.to] >= m.snap.index THEN commitIndex[m.to] ELSE m.snap.index
      BY <1>0, <1>4, <2>2, RaisedIs
    <2>4. commitIndex'[m.to] <= commitIndex[m.to] \/ commitIndex'[m.to] <= m.snap.index
      BY <1>4, <2>3
    <2> QED
      BY <1>1, <1>2, <1>3, <1>5, <2>2, <2>4 DEF Installs
  <1>7. CASE CrashInInstall(m)
    <2>1. PICK d \in {Dropped(m, disk[m.to]), Saved(m, disk[m.to])} : Reload(m.to, d)
      BY <1>7 DEF CrashInInstall
    <2>2. /\ commitIndex'[m.to] = d.snap.index /\ snap'[m.to] = d.snap
          /\ d.snap = snap[m.to] => commitIndex'[m.to] <= commitIndex[m.to]
          /\ \A p \in Node \ {m.to} : log'[p] = log[p] /\ snap'[p] = snap[p] /\ commitIndex'[p] = commitIndex[p]
      BY <1>0, <1>2, <2>1, ReloadFalls
    <2>3. /\ IsStore(disk[m.to]) /\ disk[m.to].snap = snap[m.to]
      BY <1>0, <1>2, StoreIs
    <2>4. /\ IsStore(Dropped(m, disk[m.to])) /\ Dropped(m, disk[m.to]).snap = snap[m.to]
      BY <2>3, StoreOps DEF Dropped
    <2>5. d.snap = snap[m.to] \/ d.snap = m.snap
      BY <2>1, <2>4, StoreOps DEF Saved
    <2>6. CASE d.snap = m.snap
      <3>1. snap'[m.to].index = m.snap.index /\ commitIndex'[m.to] <= m.snap.index
        BY <1>4, <2>2, <2>6
      <3> QED
        BY <1>1, <1>2, <1>3, <1>5, <2>2, <3>1 DEF Installs
    <2>7. CASE d.snap = snap[m.to]
      <3>1. snap'[m.to] # m.snap
        BY <1>4, <1>5, <2>2, <2>7
      <3>2. \E K : LeftTo(m.to, K)
        BY <1>0, <1>7, <3>1, CrashInInstallOk
      <3> QED
        BY <1>1, <1>2, <1>3, <1>5, <2>2, <2>7, <3>2 DEF Installs
    <2> QED
      BY <2>5, <2>6, <2>7
  <1> QED
    BY <1>6, <1>7

\* Applying and crashing leave the log of n as it is, and commit nothing.
LEMMA ApplyMoves ==
    ASSUME Stepping, NEW n \in Node, ApplyReady(n) \/ Restart(n) \/ CrashInCompaction(n)
    PROVE  /\ Quiet(n) /\ UNCHANGED <<nextIndex, matchIndex>>
           /\ \A p \in Node \ {n} : log'[p] = log[p] /\ snap'[p] = snap[p] /\ commitIndex'[p] = commitIndex[p]
           /\ leaders' = leaders
           /\ snap'[n].index = snap[n].index \/ snap'[n].index = commitIndex[n]
  <1>0. RaftInv /\ commitIndex[n] \in Nat
    BY SteppingGives, PairTypes
  <1>1. log \in [Node -> Log] /\ snap \in [Node -> Snap] /\ disk[n].snap = snap[n]
    BY <1>0, Given, StoreIs DEF RestTypes
  <1>2. CASE ApplyReady(n)
    <2>1. Same(n) /\ UNCHANGED <<nextIndex, matchIndex>> /\ leaders' = leaders /\ commitIndex' = commitIndex
      BY <1>0, <1>2, ApplyReadyOk, Zenon DEF ApplyReady, electionVars, leaderVars
    <2>2. \A p \in Node \ {n} : log'[p] = log[p] /\ snap'[p] = snap[p]
      BY <1>1, <1>2 DEF ApplyReady, logVars
    <2>3. snap'[n].index = snap[n].index \/ snap'[n].index = commitIndex[n]
      BY <1>1, <1>2 DEF ApplyReady, logVars, SnapshotAt
    <2> QED
      BY <1>0, <2>1, <2>2, <2>3, SameQuiet
  <1>3. CASE Restart(n)
    <2>1. PICK d : d = disk[n] /\ Reload(n, d)
      BY <1>3 DEF Restart
    <2>2. Same(n) /\ leaders' = leaders
      BY <1>0, <1>3, RestartOk, Zenon DEF Restart, E!Reboot
    <2>3. UNCHANGED <<nextIndex, matchIndex>>
      BY <2>1 DEF Reload, leaderVars
    <2> QED
      BY <1>0, <1>1, <2>1, <2>2, <2>3, ReloadFalls, SameQuiet
  <1>4. CASE CrashInCompaction(n)
    <2>1. PICK x : x = SnapshotAt(n, commitIndex[n], AppliedState(n))
      OBVIOUS
    <2>2. PICK d : d = Store!SaveSnapshot(disk[n], x) /\ Reload(n, d)
      BY <1>4, <2>1 DEF CrashInCompaction
    <2>3. Same(n) /\ leaders' = leaders
      BY <1>0, <1>4, CrashInCompactionOk, Zenon DEF CrashInCompaction, E!Reboot
    <2>4. UNCHANGED <<nextIndex, matchIndex>>
      BY <2>2 DEF Reload, leaderVars
    <2>5. d.snap = x /\ x.index = commitIndex[n]
      <3>1. IsStore(disk[n])
        BY <1>0, StoreIs
      <3> QED
        BY <2>1, <2>2, <3>1, StoreOps DEF SnapshotAt
    <2>6. commitIndex'[n] <= commitIndex[n]
      BY <1>0, <2>2, <2>5, ReloadFalls
    <2> QED
      BY <1>0, <2>2, <2>3, <2>4, <2>5, <2>6, ReloadFalls, SameQuiet
  <1> QED
    BY <1>2, <1>3, <1>4

\* A leader takes the answer r to a call of its.
TakesAnswer(r) == AppendAcked(r) \/ SnapshotAcked(r) \/ AppendRejected(r)

\* A leader's own entry, the no-op of a new leader included.
LEMMA OwnMoves ==
    ASSUME Stepping, NEW n \in Node, NEW t, AppendOwn(n, t, matchIndex'[n]), t \in 1..MaxTerm
    PROVE  /\ \A p \in Node \ {n} : log'[p] = log[p] /\ snap'[p] = snap[p] /\ commitIndex'[p] = commitIndex[p]
           /\ snap' = snap /\ commitIndex[n] <= commitIndex'[n]
  <1>0. RaftInv
    BY SteppingGives
  <1>1. log \in [Node -> Log] /\ commitIndex \in [Node -> Index]
    BY <1>0, Given DEF RestTypes
  <1>2. PICK mi, l : mi = matchIndex'[n] /\ l = Append(log[n], t)
    BY Zenon
  <1>3. /\ log' = [log EXCEPT ![n] = l] /\ snap' = snap
        /\ commitIndex' = [commitIndex EXCEPT ![n] = advanceCommit(n, t, l, mi)]
    BY <1>2 DEF AppendOwn
  <1>4. snap[n].index + Len(l) \in Nat /\ commitIndex[n] <= snap[n].index + Len(l)
    <2>1. log[n] \in Seq(1..MaxTerm)
      BY <1>1 DEF Log
    <2>2. Len(l) = Len(log[n]) + 1 /\ Len(log[n]) \in Nat
      BY <1>2, <2>1
    <2>3. snap[n].index \in Nat /\ commitIndex[n] \in Nat /\ commitIndex[n] <= snap[n].index + Len(log[n])
      BY <1>0, PairTypes DEF lastIndex
    <2> QED
      BY <2>2, <2>3
  <1>5. commitIndex[n] <= advanceCommit(n, t, l, mi)
    BY <1>0, <1>4, AdvanceIs
  <1> QED
    BY <1>1, <1>3, <1>5

\* A new leader.
LEMMA WinMoves ==
    ASSUME Stepping, NEW n \in Node, NEW t \in 1..MaxTerm, Wins(n, t)
    PROVE  /\ \A p \in Node \ {n} : log'[p] = log[p] /\ snap'[p] = snap[p] /\ commitIndex'[p] = commitIndex[p]
           /\ snap' = snap /\ currentTerm'[n] = t /\ [node |-> n, term |-> t] \in leaders' /\ msgs' = msgs
           /\ \A p \in Node : nextIndex'[n][p] = lastIndex(n) + 1 /\ matchIndex'[n][p] = 0
           /\ \A l \in Node \ {n} : nextIndex'[l] = nextIndex[l] /\ matchIndex'[l] = matchIndex[l]
  <1>0. nextIndex \in [Node -> [Node -> 1..(MaxIndex + 1)]] /\ matchIndex \in [Node -> [Node -> Index]]
    BY SteppingGives, Given DEF RestTypes
  <1>1. PICK mi : mi = [p \in Node |-> 0] /\ AppendOwn(n, t, mi)
    BY DEF Wins, BecomeLeader
  <1>2. /\ nextIndex'  = [nextIndex EXCEPT ![n] = [p \in Node |-> lastIndex(n) + 1]]
        /\ matchIndex' = [matchIndex EXCEPT ![n] = mi]
    BY <1>1 DEF Wins, BecomeLeader
  <1>3. AppendOwn(n, t, matchIndex'[n])
    BY <1>0, <1>1, <1>2
  <1>4. /\ \A p \in Node \ {n} : log'[p] = log[p] /\ snap'[p] = snap[p] /\ commitIndex'[p] = commitIndex[p]
        /\ snap' = snap
    BY <1>3, OwnMoves
  <1>5. currentTerm'[n] = t /\ [node |-> n, term |-> t] \in leaders' /\ msgs' = msgs
    BY DEF Wins
  <1> QED
    BY <1>0, <1>1, <1>2, <1>4, <1>5

\* Propose.
LEMMA ProposeMoves ==
    ASSUME Stepping, NEW n \in Node, Propose(n)
    PROVE  /\ \A p \in Node \ {n} : log'[p] = log[p] /\ snap'[p] = snap[p] /\ commitIndex'[p] = commitIndex[p]
           /\ snap' = snap /\ commitIndex[n] <= commitIndex'[n] /\ msgs' = msgs
           /\ UNCHANGED <<nextIndex, matchIndex, currentTerm, leaders>>
           /\ role[n] = E!Leader /\ Crowned(n)
  <1>1. /\ AppendOwn(n, currentTerm[n], matchIndex[n]) /\ UNCHANGED <<nextIndex, matchIndex>> /\ msgs' = msgs
        /\ role[n] = E!Leader /\ UNCHANGED <<currentTerm, leaders>>
    BY DEF Propose, E!LeaderAppend, leaderVars
  <1>2. AppendOwn(n, currentTerm[n], matchIndex'[n])
    BY <1>1
  <1>3. currentTerm[n] \in 1..MaxTerm /\ Crowned(n)
    BY <1>1, SteppingGives, LeaderIs
  <1> QED
    BY <1>1, <1>2, <1>3, OwnMoves

\* The answer to a call.
LEMMA AnswerMoves ==
    ASSUME Stepping, NEW r \in msgs, TakesAnswer(r)
    PROVE  /\ r.to \in Node /\ r.from \in Node /\ r.from # r.to /\ r \in Replies /\ IsReply(r)
           /\ role[r.to] = E!Leader /\ r.forTerm = currentTerm[r.to]
           /\ UNCHANGED <<log, snap, currentTerm, role, leaders, sm, lastApplied, applied>> /\ msgs' = msgs \ {r}
           /\ \A p \in Node \ {r.to} : commitIndex'[p] = commitIndex[p]
           /\ commitIndex[r.to] <= commitIndex'[r.to]
           /\ \A l, p \in Node : l # r.to \/ p # r.from =>
                nextIndex'[l][p] = nextIndex[l][p] /\ matchIndex'[l][p] = matchIndex[l][p]
  <1>0. RaftInv
    BY SteppingGives
  <1>1. /\ nextIndex \in [Node -> [Node -> 1..(MaxIndex + 1)]] /\ matchIndex \in [Node -> [Node -> Index]]
        /\ commitIndex \in [Node -> Index]
    BY <1>0, Given DEF RestTypes
  <1>2. IsReply(r) /\ Wanted(r) /\ UNCHANGED <<log, snap, currentTerm, role, leaders, sm, lastApplied, applied>>
        /\ msgs' = msgs \ {r}
    BY Zenon DEF TakesAnswer, AppendAcked, SnapshotAcked, AppendRejected, electionVars, logVars, applyVars
  <1>3. role[r.to] = E!Leader /\ r.forTerm = currentTerm[r.to]
    BY <1>2 DEF Wanted
  <1>4. r \in Replies /\ r \in Reply
    <2>1. r \notin Requests /\ r \in Replies
      BY <1>2 DEF IsReply, Requests, Replies
    <2> QED
      BY <1>0, <1>2, <2>1, Given, MessageTypes DEF Fits, RequestsFit, IsReply
  <1>5. r.to \in Node /\ r.from \in Node /\ r.from # r.to
    BY <1>0, <1>4, Given, Zenon DEF Reply, Fits, RequestsFit
  <1>6. commitIndex[r.to] \in Nat
    BY <1>0, <1>5, PairTypes
  <1>7. ASSUME NEW commits, PeerMatches(r, commits)
        PROVE  /\ \A p \in Node \ {r.to} : commitIndex'[p] = commitIndex[p]
               /\ commitIndex[r.to] <= commitIndex'[r.to]
               /\ \A l, p \in Node : l # r.to \/ p # r.from =>
                    nextIndex'[l][p] = nextIndex[l][p] /\ matchIndex'[l][p] = matchIndex[l][p]
    <2>1. PICK mi : mi = [matchIndex[r.to] EXCEPT ![r.from] = r.match]
      BY Zenon
    <2>2. /\ matchIndex' = [matchIndex EXCEPT ![r.to] = mi]
          /\ nextIndex'  = [nextIndex EXCEPT ![r.to][r.from] = r.match + 1]
          /\ commitIndex' = IF commits
               THEN [commitIndex EXCEPT ![r.to] = advanceCommit(r.to, currentTerm[r.to], log[r.to], mi)]
               ELSE commitIndex
      BY <1>7, <2>1 DEF PeerMatches
    <2>3. commitIndex[r.to] <= advanceCommit(r.to, currentTerm[r.to], log[r.to], mi)
      <3>1. commitIndex[r.to] <= snap[r.to].index + Len(log[r.to]) /\ snap[r.to].index + Len(log[r.to]) \in Nat
        BY <1>0, <1>5, PairTypes DEF lastIndex
      <3> QED
        BY <1>0, <1>5, <3>1, AdvanceIs
    <2>4. \A p \in Node : p # r.from => mi[p] = matchIndex[r.to][p]
      BY <1>1, <1>5, <2>1
    <2> QED
      BY <1>1, <1>5, <1>6, <2>2, <2>3, <2>4
  <1>8. ASSUME UNCHANGED <<nextIndex, matchIndex, commitIndex>>
        PROVE  /\ \A p \in Node \ {r.to} : commitIndex'[p] = commitIndex[p]
               /\ commitIndex[r.to] <= commitIndex'[r.to]
               /\ \A l, p \in Node : l # r.to \/ p # r.from =>
                    nextIndex'[l][p] = nextIndex[l][p] /\ matchIndex'[l][p] = matchIndex[l][p]
    BY <1>6, <1>8
  <1>9. ASSUME AppendRejected(r)
        PROVE  /\ \A p \in Node \ {r.to} : commitIndex'[p] = commitIndex[p]
               /\ commitIndex[r.to] <= commitIndex'[r.to]
               /\ \A l, p \in Node : l # r.to \/ p # r.from =>
                    nextIndex'[l][p] = nextIndex[l][p] /\ matchIndex'[l][p] = matchIndex[l][p]
    BY <1>1, <1>5, <1>6, <1>9 DEF AppendRejected, applyVars
  <1>10. AppendRejected(r) \/ (\E commits : PeerMatches(r, commits)) \/ UNCHANGED <<nextIndex, matchIndex, commitIndex>>
    BY Zenon DEF TakesAnswer, AppendAcked, SnapshotAcked, leaderVars
  <1>11. /\ \A p \in Node \ {r.to} : commitIndex'[p] = commitIndex[p]
         /\ commitIndex[r.to] <= commitIndex'[r.to]
         /\ \A l, p \in Node : l # r.to \/ p # r.from =>
              nextIndex'[l][p] = nextIndex[l][p] /\ matchIndex'[l][p] = matchIndex[l][p]
    BY <1>7, <1>8, <1>9, <1>10
  <1> QED
    BY <1>2, <1>3, <1>4, <1>5, <1>11

\* What a step does to a node in a term that another node has won.
LEMMA PeerMoves ==
    ASSUME Stepping, NEW p \in Node, NEW v \in leaders', v.node # p, NEW t, v.term = t, currentTerm'[p] = t
    PROVE  Moves(p, t)
  <1>0. RaftInv /\ [Next]_vars /\ ElectionShape' /\ leaders \subseteq leaders'
    BY SteppingGives
  <1>1. [node |-> p, term |-> t] \notin leaders'
    BY <1>0 DEF ElectionShape
  <1>2. log'[p] = log[p] /\ snap'[p] = snap[p] /\ commitIndex'[p] = commitIndex[p] => Moves(p, t)
    BY Untouched DEF Moves
  <1>3. CASE UNCHANGED <<logVars, applyVars, leaderVars>>
    BY <1>2, <1>3 DEF logVars, applyVars
  <1>4. ASSUME NEW n \in Node, Propose(n) PROVE Moves(p, t)
    <2>1. n # p
      BY <1>0, <1>1, <1>4, ProposeMoves, Zenon DEF Crowned
    <2> QED
      BY <1>2, <1>4, <2>1, ProposeMoves
  <1>5. ASSUME NEW n \in Node, ApplyReady(n) \/ Restart(n) \/ CrashInCompaction(n) PROVE Moves(p, t)
    BY <1>2, <1>5, ApplyMoves DEF Moves
  <1>6. ASSUME NEW n \in Node, NEW u \in 1..MaxTerm, Wins(n, u) PROVE Moves(p, t)
    <2>1. (\A q \in Node \ {n} : log'[q] = log[q] /\ snap'[q] = snap[q] /\ commitIndex'[q] = commitIndex[q])
          /\ currentTerm'[n] = u /\ [node |-> n, term |-> u] \in leaders'
      BY <1>6, WinMoves
    <2>2. n # p
      BY <1>1, <2>1
    <2> QED
      BY <1>2, <2>1, <2>2
  <1>7. ASSUME NEW m \in msgs, AcceptAppend(m) \/ CrashInAppend(m) PROVE Moves(p, t)
    BY <1>2, <1>7, AppendMoves DEF Moves
  <1>8. ASSUME NEW m \in msgs, InstallSnapshot(m) \/ CrashInInstall(m) PROVE Moves(p, t)
    BY <1>2, <1>8, InstallMoves DEF Moves
  <1>9. ASSUME NEW r \in msgs, TakesAnswer(r) PROVE Moves(p, t)
    <2>1. r.to # p
      <3>1. role[r.to] = E!Leader /\ currentTerm' = currentTerm /\ leaders' = leaders
        BY <1>9, AnswerMoves
      <3>2. r.to \in Node /\ Crowned(r.to)
        BY <1>0, <1>9, <3>1, AnswerMoves, Given
      <3> QED
        BY <1>1, <3>1, <3>2 DEF Crowned
    <2> QED
      BY <1>2, <1>9, <2>1, AnswerMoves
  <1> QED
    BY <1>0, <1>3, <1>4, <1>5, <1>6, <1>7, <1>8, <1>9, StepKinds DEF TakesAnswer

\* What a leader that goes on leading has before and after a step.
LeadsStill(l) == role[l] = E!Leader /\ role'[l] = E!Leader /\ currentTerm'[l] = currentTerm[l]
\* Its commit index and log only grow, and it compacts only what is committed.
LeaderKept(l) ==
    /\ commitIndex[l] <= commitIndex'[l]
    /\ snap'[l].index = snap[l].index \/ snap'[l].index = commitIndex'[l]
    /\ lastIndex(l) <= lastIndex(l)'
    /\ \A i \in 1..lastIndex(l) : FullLog(l)'[i] = FullLog(l)[i]
\* Its bookkeeping for p stays.
BooksStay(l, p) == nextIndex'[l][p] = nextIndex[l][p] /\ matchIndex'[l][p] = matchIndex[l][p]

\* What the step of a handler does to a leader and its books.
LEMMA LeaderMoves ==
    ASSUME Stepping, NEW l \in Node, LeadsStill(l)
    PROVE  /\ LeaderKept(l)
           /\ \A p \in Node : BooksStay(l, p) \/ \E r \in msgs : TakesAnswer(r) /\ r.to = l /\ r.from = p
  <1>0. /\ RaftInv /\ [Next]_vars /\ ElectionShape /\ ElectionShape' /\ Step1 /\ Fits
        /\ role \in [Node -> {E!Follower, E!Candidate, E!Leader}] /\ E!Follower # E!Leader
    BY SteppingGives, Given DEF ElectionShape, TypeOK, E!TypeOK, E!Follower, E!Leader
  <1>1. Crowned(l) /\ Crowned(l)' /\ leaders \subseteq leaders'
    <2>1. Crowned(l)
      BY <1>0, Given DEF LeadsStill
    <2> QED
      BY <2>1, SteppingGives DEF Crowned, LeadsStill
  <1>2. PairTyped(l, l) /\ PairTyped(l, l)'
    BY SteppingTypes
  <1>3. /\ lastIndex(l) <= lastIndex(l)'
        /\ \A i \in 1..lastIndex(l) : FullLog(l)'[i] = FullLog(l)[i]
    BY <1>0, <1>1, CrownedKeeps
  <1> DEFINE Idx == /\ commitIndex[l] <= commitIndex'[l]
                    /\ snap'[l].index = snap[l].index \/ snap'[l].index = commitIndex'[l]
             Bks == \A p \in Node : BooksStay(l, p) \/ \E r \in msgs : TakesAnswer(r) /\ r.to = l /\ r.from = p
  <1>4. commitIndex'[l] = commitIndex[l] /\ snap'[l] = snap[l] => Idx
    BY <1>2 DEF PairTyped
  <1>5. UNCHANGED <<nextIndex, matchIndex>> => Bks
    BY DEF BooksStay
  <1>6. ASSUME UNCHANGED <<logVars, applyVars, leaderVars>> PROVE Idx /\ Bks
    <2>1. UNCHANGED <<nextIndex, matchIndex>> /\ commitIndex'[l] = commitIndex[l] /\ snap'[l] = snap[l]
      BY <1>6 DEF logVars, applyVars, leaderVars
    <2> QED
      BY <1>4, <1>5, <2>1
  <1>7. ASSUME NEW n \in Node, Propose(n) PROVE Idx /\ Bks
    <2>1. /\ \A q \in Node \ {n} : log'[q] = log[q] /\ snap'[q] = snap[q] /\ commitIndex'[q] = commitIndex[q]
          /\ snap' = snap /\ commitIndex[n] <= commitIndex'[n] /\ UNCHANGED <<nextIndex, matchIndex>>
      BY <1>7, ProposeMoves
    <2> QED
      BY <1>4, <1>5, <2>1
  <1>8. ASSUME NEW n \in Node, ApplyReady(n) \/ Restart(n) \/ CrashInCompaction(n) PROVE Idx /\ Bks
    <2>1. /\ UNCHANGED <<nextIndex, matchIndex>>
          /\ \A q \in Node \ {n} : log'[q] = log[q] /\ snap'[q] = snap[q] /\ commitIndex'[q] = commitIndex[q]
          /\ snap'[n].index = snap[n].index \/ snap'[n].index = commitIndex[n]
      BY <1>8, ApplyMoves
    <2>2. CASE n = l
      <3>1. ~(Restart(n) \/ CrashInCompaction(n))
        <4>1. Restart(n) \/ CrashInCompaction(n) => role' = [role EXCEPT ![n] = E!Follower]
          BY DEF Restart, CrashInCompaction, E!Reboot
        <4> QED
          BY <1>0, <2>2, <4>1 DEF LeadsStill
      <3>2. commitIndex' = commitIndex
        BY <1>8, <3>1 DEF ApplyReady
      <3> QED
        BY <1>2, <1>5, <2>1, <2>2, <3>2 DEF PairTyped
    <2> QED
      BY <1>4, <1>5, <2>1, <2>2
  <1>9. ASSUME NEW n \in Node, NEW t \in 1..MaxTerm, Wins(n, t) PROVE Idx /\ Bks
    <2>1. n # l
      BY <1>9 DEF Wins, LeadsStill
    <2>2. /\ \A q \in Node \ {n} : log'[q] = log[q] /\ snap'[q] = snap[q] /\ commitIndex'[q] = commitIndex[q]
          /\ \A k \in Node \ {n} : nextIndex'[k] = nextIndex[k] /\ matchIndex'[k] = matchIndex[k]
      BY <1>9, WinMoves, Zenon
    <2> QED
      BY <1>4, <2>1, <2>2 DEF BooksStay
  <1>10. ASSUME NEW m \in msgs,
                AcceptAppend(m) \/ CrashInAppend(m) \/ InstallSnapshot(m) \/ CrashInInstall(m)
         PROVE  Idx /\ Bks
    <2>1. /\ m.to \in Node /\ currentTerm'[m.to] = m.term /\ UNCHANGED <<nextIndex, matchIndex>>
          /\ \A q \in Node \ {m.to} : log'[q] = log[q] /\ snap'[q] = snap[q] /\ commitIndex'[q] = commitIndex[q]
      BY <1>10, AppendMoves, InstallMoves
    <2>2. m \in Requests
      BY <1>10, Zenon DEF AcceptAppend, CrashInAppend, InstallSnapshot, CrashInInstall, Requests
    <2>3. m.from # m.to /\ m.from \in Node /\ [node |-> m.from, term |-> m.term] \in leaders
      BY <1>0, <2>2, FragmentShape
    <2>4. m.to # l
      <3> SUFFICES ASSUME m.to = l PROVE FALSE
        OBVIOUS
      <3>1. [node |-> l, term |-> m.term] \in leaders
        BY <1>1, <2>1 DEF Crowned, LeadsStill
      <3> QED
        BY <1>0, <2>3, <3>1 DEF ElectionShape
    <2> QED
      BY <1>4, <1>5, <2>1, <2>4
  <1>11. ASSUME NEW r \in msgs, TakesAnswer(r) PROVE Idx /\ Bks
    <2>1. /\ r.to \in Node /\ r.from \in Node /\ snap' = snap
          /\ \A q \in Node \ {r.to} : commitIndex'[q] = commitIndex[q]
          /\ commitIndex[r.to] <= commitIndex'[r.to]
          /\ \A k, q \in Node : k # r.to \/ q # r.from =>
                nextIndex'[k][q] = nextIndex[k][q] /\ matchIndex'[k][q] = matchIndex[k][q]
      BY <1>11, AnswerMoves
    <2>2. Idx
      BY <1>4, <2>1
    <2> QED
      BY <1>11, <2>1, <2>2 DEF BooksStay
  <1> HIDE DEF Idx, Bks
  <1>12. Idx /\ Bks
    BY <1>0, <1>6, <1>7, <1>8, <1>9, <1>10, <1>11, StepKinds DEF TakesAnswer
  <1> QED
    BY <1>3, <1>12 DEF LeaderKept, Idx, Bks

\* Who becomes leader in a step appends its no-op.
LEMMA NewLeaderWins ==
    ASSUME Stepping, NEW l \in Node, NEW t, [node |-> l, term |-> t] \in leaders' \ leaders
    PROVE  t \in 1..MaxTerm /\ Wins(l, t) /\ Grew(l) /\ currentTerm'[l] = t
  <1>0. /\ RaftInv /\ [Next]_vars /\ WinnersGrow /\ ElectionShape' /\ Fits /\ Fits' /\ AppliedGrows
    BY SteppingGives
  <1>1. Grew(l)
    BY <1>0 DEF WinnersGrow
  <1>2. PairTyped(l, l) /\ PairTyped(l, l)'
    BY SteppingTypes
  <1>3. ~UNCHANGED <<logVars, applyVars, leaderVars>>
    <2> SUFFICES ASSUME UNCHANGED <<log, snap>> PROVE FALSE
      BY DEF logVars
    <2>1. FullLog(l)' = FullLog(l) /\ lastIndex(l)' = lastIndex(l)
      BY <1>0, SameLog
    <2>2. lastIndex(l) \in Nat /\ DOMAIN FullLog(l) = 1..lastIndex(l) /\ DOMAIN FullLog(l)' = 1..lastIndex(l) + 1
      BY <1>1, <1>2 DEF PairTyped, Grew, GrownFrom
    <2> QED
      BY <2>1, <2>2, IntervalSame
  <1>4. \A n \in Node : Propose(n) \/ ApplyReady(n) \/ Restart(n) \/ CrashInCompaction(n) => leaders' = leaders
    BY ProposeMoves, ApplyMoves
  <1>5. \A m \in msgs : AcceptAppend(m) \/ InstallSnapshot(m) \/ CrashInAppend(m) \/ CrashInInstall(m)
                        \/ TakesAnswer(m) => leaders' = leaders
    BY AppendMoves, InstallMoves, AnswerMoves
  <1>6. PICK n \in Node, u \in 1..MaxTerm : Wins(n, u)
    BY <1>0, <1>3, <1>4, <1>5, StepKinds DEF TakesAnswer
  <1>7. [node |-> l, term |-> t] = [node |-> n, term |-> u]
    BY <1>6 DEF Wins
  <1>8. l = n /\ t = u
    BY <1>7
  <1> QED
    BY <1>1, <1>6, <1>8 DEF Wins

\* The pair of l and p is as it was before, but for what is sent and answered.
Carried(l, p, t) == Delivers(p, t) /\ BooksStay(l, p)
\* What may have happened between a leader and its peer.
LEMMA Situations ==
    ASSUME Stepping, Retired, NEW l \in Node, NEW p \in Node, NEW t \in 1..MaxTerm, Follows(l, p, t)'
    PROVE  \/ Wins(l, t) /\ Grew(l) /\ ~Won(t)
           \/ /\ Follows(l, p, t) /\ LeadsStill(l) /\ LeaderKept(l) /\ Crowned(l) /\ Crowned(l)'
              /\ \/ Sends(l, p)
                 \/ \E r \in msgs : TakesAnswer(r) /\ r.to = l /\ r.from = p
                 \/ Carried(l, p, t)
  <1>0. /\ RaftInv /\ [Next]_vars /\ ElectionStep /\ ElectionAllows /\ ElectionShape /\ ElectionShape'
        /\ currentTerm[p] <= currentTerm'[p] /\ currentTerm[l] <= currentTerm'[l]
    BY SteppingGives
  <1>1. /\ role'[l] = E!Leader /\ currentTerm'[l] = t /\ p # l /\ currentTerm'[p] <= t
    BY DEF Follows
  <1>2. LeadsOn(l)
    BY <1>0, <1>1, LeaderSteps
  <1>3. CASE [node |-> l, term |-> t] \in leaders' \ leaders
    <2>1. Wins(l, t) /\ Grew(l)
      BY <1>3, NewLeaderWins
    <2>2. Crowned(l)'
      BY <1>1, <1>3 DEF Crowned
    <2>3. ~Won(t)
      BY <1>0, <1>1, <1>3, <2>2, CrownStep, Zenon DEF Crowned
    <2> QED
      BY <2>1, <2>3
  <1>4. CASE role[l] = E!Leader /\ currentTerm'[l] = currentTerm[l]
    <2>1. LeadsStill(l)
      BY <1>1, <1>4 DEF LeadsStill
    <2>2. LeaderKept(l) /\ (BooksStay(l, p) \/ \E r \in msgs : TakesAnswer(r) /\ r.to = l /\ r.from = p)
      BY <2>1, LeaderMoves
    <2>3. Follows(l, p, t)
      <3>1. currentTerm[p] \in Nat /\ currentTerm'[p] \in Nat /\ t \in Nat
        BY <1>0, Bounds DEF ElectionShape
      <3>2. currentTerm[p] <= t
        BY <1>0, <1>1, <3>1
      <3> QED
        BY <1>1, <1>4, <3>2 DEF Follows
    <2>4. Delivers(p, t) \/ Sends(l, p)
      <3>1. ASSUME NEW n \in Node, Sends(n, p), currentTerm[n] = t PROVE n = l
        <4>1. role[n] = E!Leader
          BY <3>1 DEF Sends, SendAppendEntries, SendSnapshot
        <4>2. [node |-> n, term |-> t] \in leaders /\ [node |-> l, term |-> t] \in leaders
          BY <1>0, <1>1, <1>4, <3>1, <4>1, Given DEF Crowned
        <4> QED
          BY <1>0, <4>2 DEF ElectionShape
      <3> QED
        BY <1>0, <3>1, StepDelivers
    <2>5. Crowned(l) /\ Crowned(l)'
      <3>1. Crowned(l)
        BY <1>0, <1>4, Given
      <3> QED
        BY <1>4, <3>1, SteppingGives DEF Crowned
    <2> QED
      BY <2>1, <2>2, <2>3, <2>4, <2>5 DEF Carried
  <1> QED
    BY <1>1, <1>2, <1>3, <1>4 DEF LeadsOn

\* A leader has what its followers commit, after a step.
LEMMA CommitInLeaderNext ==
    (RaftInv => \A l, p \in Node : role[l] = E!Leader /\ currentTerm[p] <= currentTerm[l] =>
        /\ commitIndex[p] <= lastIndex(l)
        /\ \A i \in 1..commitIndex[p] : FullLog(l)[i] = FullLog(p)[i])'
  <1>1. RaftInv => \A l, p \in Node : role[l] = E!Leader /\ currentTerm[p] <= currentTerm[l] =>
        /\ commitIndex[p] <= lastIndex(l)
        /\ \A i \in 1..commitIndex[p] : FullLog(l)[i] = FullLog(p)[i]
    BY CommitInLeader
  <1> QED
    BY <1>1, PTL

\* The requests and the replies in flight.
LEMMA InFlight ==
    ASSUME Fits, NEW m \in msgs
    PROVE  /\ m \in Requests \/ (m \in Reply /\ m \in Replies /\ m \notin Requests)
           /\ m \in Requests <=> m.type \in {"AE", "IS"}
           /\ m \in Reply => m.type \in {"AEReply", "ISReply", "TermReply"} /\ m.call = "replicate"
           /\ m \in Requests => m.call = "replicate"
  <1>1. m \in AppendRequest \cup SnapshotRequest \cup Reply
    BY DEF Fits, RequestsFit
  <1> QED
    BY <1>1, MessageTypes DEF Requests, Replies, Reply, AppendRequest, SnapshotRequest

\* Nobody has sent in a term nobody has won.
LEMMA NothingSent ==
    ASSUME Fits, NEW t, ~Won(t)
    PROVE  (\A m \in Requests : m.term # t) /\ \A r \in Replies : r.forTerm # t
  <1>1. \A m \in Requests : [node |-> m.from, term |-> m.term] \in leaders
    BY FragmentShape
  <1>2. \A r \in Replies : [node |-> r.to, term |-> r.forTerm] \in leaders
    BY DEF Fits, RequestsFit
  <1> QED
    BY <1>1, <1>2, Zenon DEF Won

\* A new leader's books are right.
LEMMA FreshPair ==
    ASSUME Stepping, NEW l \in Node, NEW p \in Node, NEW t \in 1..MaxTerm, Follows(l, p, t)',
           Wins(l, t), Grew(l), ~Won(t)
    PROVE  PairFits(l, p, t)'
  <1>0. RaftInv /\ RaftInv' /\ Fits /\ AppliedGrows /\ TermsSound
    BY SteppingGives, Given
  <1>1. PairTyped(l, p) /\ PairTyped(l, p)' /\ PairTyped(l, l) /\ PairTyped(l, l)'
    BY SteppingTypes
  <1>2. role'[l] = E!Leader /\ currentTerm'[l] = t /\ p # l /\ currentTerm'[p] <= t
    BY DEF Follows
  <1>3. /\ log'[p] = log[p] /\ snap' = snap /\ msgs' = msgs
        /\ nextIndex'[l][p] = lastIndex(l) + 1 /\ matchIndex'[l][p] = 0
    BY <1>2, WinMoves, Zenon
  <1>4. /\ lastIndex(l)' = lastIndex(l) + 1 /\ FullLog(l)'[lastIndex(l) + 1] = t /\ lastIndex(l) \in Nat
    <2>1. GrownFrom(FullLog(l)', FullLog(l), lastIndex(l), t)
      BY <1>2 DEF Grew
    <2>2. DOMAIN FullLog(l)' = 1..lastIndex(l) + 1 /\ FullLog(l)'[lastIndex(l) + 1] = t
      BY <2>1 DEF GrownFrom
    <2>3. DOMAIN FullLog(l)' = 1..lastIndex(l)' /\ lastIndex(l)' \in Nat /\ lastIndex(l) \in Nat
      BY <1>1 DEF PairTyped
    <2>4. 1..lastIndex(l)' = 1..lastIndex(l) + 1
      BY <2>2, <2>3
    <2>5. lastIndex(l) + 1 \in Nat
      BY <2>3
    <2>6. lastIndex(l)' = lastIndex(l) + 1
      BY <2>3, <2>4, <2>5, IntervalSame
    <2> QED
      BY <2>2, <2>3, <2>6
  <1>5. /\ (\A m \in Requests : m.term # t) /\ (\A r \in Replies : r.forTerm # t)
        /\ Requests' = Requests
    BY <1>0, <1>3, NothingSent DEF Requests
  <1>6. /\ AEs(p, t)' = {} /\ ISs(p, t)' = {} /\ LiveAEs(p, t)' = {}
    BY <1>3, <1>5 DEF AEs, ISs, LiveAEs, Requests
  <1>7. AppendReplies(l, p, t)' = {} /\ InstallReplies(l, p, t)' = {}
    BY <1>3, <1>5, <1>6 DEF AppendReplies, InstallReplies, Replies
  <1>8. commitIndex'[p] < nextIndex'[l][p]
    <2>1. /\ commitIndex'[p] <= lastIndex(l)'
          /\ \A i \in 1..commitIndex'[p] : FullLog(l)'[i] = FullLog(p)'[i]
      BY <1>0, <1>2, CommitInLeaderNext
    <2>2. commitIndex'[p] \in Nat
      BY <1>1 DEF PairTyped
    <2>3. CASE commitIndex'[p] = lastIndex(l) + 1
      <3>1. FullLog(p)' = FullLog(p) /\ lastIndex(p)' = lastIndex(p)
        BY <1>0, <1>3, SameLog
      <3>2. commitIndex'[p] \in 1..lastIndex(p) /\ DOMAIN FullLog(p) = 1..lastIndex(p) /\ FullLog(p) \in Carriers
        BY <1>1, <1>4, <2>2, <2>3, <3>1 DEF PairTyped
      <3>3. FullLog(p)[commitIndex'[p]] = t
        BY <1>4, <2>1, <2>2, <2>3, <3>1
      <3> QED
        BY <1>0, <3>2, <3>3, Zenon DEF TermsSound
    <2> QED
      BY <1>3, <1>4, <2>1, <2>2, <2>3
  <1>9. NextFits(l, p)' /\ NextUnheard(l, p, t)' /\ CommitKnown(l, p, t)' /\ NextBelow(l, p, t)'
    <2>1. NextFits(l, p)'
      BY <1>3, <1>4 DEF NextFits
    <2>2. NextUnheard(l, p, t)'
      BY <1>3, <1>4 DEF NextUnheard
    <2>3. CommitKnown(l, p, t)'
      BY <1>6, <1>8 DEF CommitKnown
    <2>4. NextBelow(l, p, t)'
      BY <1>6, <1>7 DEF NextBelow
    <2> QED
      BY <2>1, <2>2, <2>3, <2>4
  <1>10. AppendAlone(l, p, t)' /\ AppendMatches(l, p, t)' /\ ReplyHelps(l, p, t)'
    BY <1>6, <1>7 DEF AppendAlone, Appending, AppendMatches, ReplyHelps
  <1>11. NextSafe(l, p, t)'
    <2>1. snap[l].index <= lastIndex(l) /\ snap[l].index \in Nat
      <3>1. /\ snap[l].index \in Nat /\ snap[l].index <= commitIndex[l] /\ commitIndex[l] \in Nat
            /\ commitIndex[l] <= lastIndex(l)
        BY <1>1, Zenon DEF PairTyped
      <3> QED
        BY <1>4, <3>1
    <2>2. snap'[l].index = snap[l].index /\ nextIndex'[l][p] = lastIndex(l) + 1
      BY <1>3
    <2>3. ~(nextIndex'[l][p] <= snap'[l].index)
      BY <1>4, <2>1, <2>2
    <2> QED
      BY <2>3, Zenon DEF NextSafe
  <1> QED
    BY <1>9, <1>10, <1>11 DEF PairFits

\* What a leader waits for is the call under way.
LEMMA UnderWayIs ==
    ASSUME RaftInv, NEW l \in Node, NEW p \in Node, NEW t \in 1..MaxTerm, Follows(l, p, t)
    PROVE  /\ \A m \in AEs(p, t) \cup ISs(p, t) : m.live => m \in CallUnderWay(l, p)
           /\ \A r \in msgs \ Requests : r.live /\ r.from = p /\ r.to = l => r \in CallUnderWay(l, p)
  <1>0. Fits
    BY Given
  <1>1. ASSUME NEW m \in AEs(p, t) \cup ISs(p, t), m.live PROVE m \in CallUnderWay(l, p)
    <2>1. m \in Requests /\ m \in msgs /\ m.to = p /\ m.term = t
      BY DEF AEs, ISs, Requests
    <2>2. m.from = l
      BY <2>1, LeaderSends DEF Follows
    <2>3. m.call = "replicate" /\ m.type \in {"AE", "IS"}
      BY <1>0, <2>1, InFlight
    <2> QED
      BY <1>1, <2>1, <2>2, <2>3 DEF CallUnderWay
  <1>2. ASSUME NEW r \in msgs \ Requests, r.live, r.from = p, r.to = l PROVE r \in CallUnderWay(l, p)
    <2>1. r.call = "replicate" /\ r.type \in {"AEReply", "ISReply", "TermReply"}
      BY <1>0, InFlight
    <2> QED
      BY <1>2, <2>1 DEF CallUnderWay
  <1> QED
    BY <1>1, <1>2

\* A leader that sends something gives up what it has waited for.
LEMMA SentAlone ==
    ASSUME RaftInv, OneCall, NEW l \in Node, NEW p \in Node, NEW t \in 1..MaxTerm, Follows(l, p, t),
           NEW req, Send(l, p, req), req.type \in {"AE", "IS"}, req.answered = {}
    PROVE  /\ \A m \in AEs(p, t)' : m = req \/ \E x \in AEs(p, t) : Later(x, m)
           /\ \A m \in ISs(p, t)' : m = req \/ \E x \in ISs(p, t) : Later(x, m)
           /\ \A m \in LiveAEs(p, t)' : m = req
           /\ \A m \in ISs(p, t)' : m.live => m = req
           /\ AppendReplies(l, p, t)' = {} /\ InstallReplies(l, p, t)' = {}
  <1>0. Fits
    BY Given
  <1>1. /\ \A m \in msgs' : m = req \/ (MessageStays(m) /\ m \in (msgs \ CallUnderWay(l, p)) \cup Abandon(CallUnderWay(l, p)))
        /\ \A m \in Abandon(CallUnderWay(l, p)) : m.type \in {"AE", "IS"} /\ ~m.live
    BY <1>0, SendStays
  <1>2. ASSUME NEW m \in msgs', m # req, m.type \in {"AE", "IS"}
        PROVE  \E x \in Requests : Later(x, m)
    BY <1>1, <1>2 DEF MessageStays, RequestStays
  <1>3. \A m \in AEs(p, t)' : m = req \/ \E x \in AEs(p, t) : Later(x, m)
    <2> SUFFICES ASSUME NEW m \in AEs(p, t)', m # req PROVE \E x \in AEs(p, t) : Later(x, m)
      OBVIOUS
    <2>1. m \in msgs' /\ m.type = "AE" /\ m.to = p /\ m.term = t
      BY DEF AEs
    <2>2. PICK x \in Requests : Later(x, m)
      BY <1>2, <2>1
    <2>3. x \in AEs(p, t)
      BY <2>1, <2>2 DEF Later, Forwarded, AEs, Requests
    <2> QED
      BY <2>2, <2>3
  <1>4. \A m \in ISs(p, t)' : m = req \/ \E x \in ISs(p, t) : Later(x, m)
    <2> SUFFICES ASSUME NEW m \in ISs(p, t)', m # req PROVE \E x \in ISs(p, t) : Later(x, m)
      OBVIOUS
    <2>1. m \in msgs' /\ m.type = "IS" /\ m.to = p /\ m.term = t
      BY DEF ISs
    <2>2. PICK x \in Requests : Later(x, m)
      BY <1>2, <2>1
    <2>3. x \in ISs(p, t)
      BY <2>1, <2>2 DEF Later, Forwarded, ISs, Requests
    <2> QED
      BY <2>2, <2>3
  <1>5. ASSUME NEW m \in AEs(p, t)' \cup ISs(p, t)', m.live PROVE m = req
    <2> SUFFICES ASSUME m # req PROVE FALSE
      OBVIOUS
    <2>1. m \in msgs' /\ m.type \in {"AE", "IS"} /\ m.to = p /\ m.term = t
      BY DEF AEs, ISs
    <2>2. m \in msgs /\ m \notin CallUnderWay(l, p)
      BY <1>1, <1>5, <2>1
    <2>3. m \in AEs(p, t) \cup ISs(p, t)
      BY <2>1, <2>2 DEF AEs, ISs
    <2> QED
      BY <1>5, <2>2, <2>3, UnderWayIs
  <1>6. \A r \in msgs' \ Requests' : ~(r.from = p /\ r.to = l)
    <2> SUFFICES ASSUME NEW r \in msgs', r \notin Requests', r.from = p, r.to = l PROVE FALSE
      OBVIOUS
    <2>1. r.type \notin {"AE", "IS"}
      BY DEF Requests
    <2>2. r \in msgs /\ r \notin CallUnderWay(l, p) /\ r \notin Requests
      BY <1>1, <2>1 DEF Requests
    <2>3. r.live
      BY <2>2 DEF OneCall, Replies
    <2> QED
      BY <2>2, <2>3, UnderWayIs
  <1>7. \A m \in LiveAEs(p, t)' : m = req
    BY <1>5 DEF LiveAEs
  <1>8. AppendReplies(l, p, t)' = {}
    BY <1>6, <1>7 DEF AppendReplies
  <1>9. InstallReplies(l, p, t)' = {}
    BY <1>6 DEF InstallReplies
  <1> QED
    BY <1>3, <1>4, <1>5, <1>7, <1>8, <1>9

\* A leader that takes an answer waits for nothing else.
LEMMA AnsweredAlone ==
    ASSUME RaftInv, OneCall, NEW l \in Node, NEW p \in Node, NEW t \in 1..MaxTerm, Follows(l, p, t),
           NEW r \in msgs, IsReply(r), r.to = l, r.from = p, msgs' = msgs \ {r}
    PROVE  /\ AEs(p, t)' = AEs(p, t) /\ ISs(p, t)' = ISs(p, t)
           /\ LiveAEs(p, t) = {} /\ LiveAEs(p, t)' = {} /\ \A m \in ISs(p, t) : ~m.live
           /\ AppendReplies(l, p, t)' = {} /\ InstallReplies(l, p, t)' = {}
           /\ r.type = "AEReply" /\ r.forTerm = t => r \in AppendReplies(l, p, t)
           /\ r.type = "ISReply" /\ r.forTerm = t => r \in InstallReplies(l, p, t)
  <1>0. Fits /\ p # l
    BY Given DEF Follows
  <1>1. r \in msgs \ Requests /\ r \in Replies
    BY DEF IsReply, Requests, Replies
  <1>2. r \in CallUnderWay(l, p)
    BY <1>1, UnderWayIs DEF OneCall
  <1>3. \A m \in CallUnderWay(l, p) : m = r
    BY <1>0, <1>2 DEF OneCall
  <1>4. \A m \in AEs(p, t) \cup ISs(p, t) : ~m.live
    <2> SUFFICES ASSUME NEW m \in AEs(p, t) \cup ISs(p, t), m.live PROVE FALSE
      OBVIOUS
    <2>1. m = r /\ m \in Requests
      BY <1>3, UnderWayIs DEF AEs, ISs, Requests
    <2> QED
      BY <1>1, <2>1
  <1>5. AEs(p, t)' = AEs(p, t) /\ ISs(p, t)' = ISs(p, t) /\ msgs' \ Requests' \subseteq (msgs \ Requests) \ {r}
    BY <1>1 DEF AEs, ISs, Requests
  <1>6. LiveAEs(p, t) = {} /\ LiveAEs(p, t)' = {}
    BY <1>4, <1>5 DEF LiveAEs
  <1>7. \A x \in msgs' \ Requests' : ~(x.from = p /\ x.to = l)
    <2> SUFFICES ASSUME NEW x \in msgs \ Requests, x # r, x.from = p, x.to = l PROVE FALSE
      BY <1>5
    <2>1. x.live
      BY DEF OneCall, Replies
    <2> QED
      BY <1>3, <2>1, UnderWayIs
  <1>8. AppendReplies(l, p, t)' = {} /\ InstallReplies(l, p, t)' = {}
    BY <1>6, <1>7 DEF AppendReplies, InstallReplies
  <1>9. /\ r.type = "AEReply" /\ r.forTerm = t => r \in AppendReplies(l, p, t)
        /\ r.type = "ISReply" /\ r.forTerm = t => r \in InstallReplies(l, p, t)
    BY <1>1 DEF AppendReplies, InstallReplies
  <1> QED
    BY <1>4, <1>5, <1>6, <1>8, <1>9

\* Sending changes nothing but the messages.
LEMMA SendingKeeps ==
    ASSUME Stepping, NEW n \in Node, NEW q \in Node, Sends(n, q)
    PROVE  /\ UNCHANGED <<currentTerm, role, leaders, votes, voteMsgs, log, snap, sm, applied,
                          commitIndex, lastApplied, nextIndex, matchIndex>>
           /\ \A p \in Node : FullLog(p)' = FullLog(p) /\ lastIndex(p)' = lastIndex(p)
           /\ role[n] = E!Leader /\ q # n
  <1>1. /\ UNCHANGED <<electionVars, logVars, applyVars, leaderVars, faults>>
        /\ role[n] = E!Leader /\ q # n
    BY DEF Sends, SendAppendEntries, SendSnapshot
  <1>2. UNCHANGED <<currentTerm, role, leaders, votes, voteMsgs, log, snap, sm, applied,
                    commitIndex, lastApplied, nextIndex, matchIndex>>
    BY <1>1 DEF electionVars, logVars, applyVars, leaderVars
  <1>3. \A p \in Node : FullLog(p)' = FullLog(p) /\ lastIndex(p)' = lastIndex(p)
    BY <1>2, SteppingGives, SameLog
  <1> QED
    BY <1>1, <1>2, <1>3

\* What does not depend on the messages.
LEMMA SendingBooks ==
    ASSUME Stepping, NEW l \in Node, NEW p \in Node, NEW t \in 1..MaxTerm, Sends(l, p),
           NextFits(l, p), NextUnheard(l, p, t)
    PROVE  NextFits(l, p)' /\ NextUnheard(l, p, t)'
  <1>1. /\ UNCHANGED <<currentTerm, nextIndex, matchIndex>>
        /\ FullLog(l)' = FullLog(l) /\ lastIndex(l)' = lastIndex(l)
    BY SendingKeeps
  <1> QED
    BY <1>1 DEF NextFits, NextUnheard

\* sendAppendEntries keeps the books right.
LEMMA AppendSentPair ==
    ASSUME Stepping, OneCall, NEW l \in Node, NEW p \in Node, NEW t \in 1..MaxTerm, Follows(l, p, t),
           SendAppendEntries(l, p), PairFits(l, p, t)
    PROVE  PairFits(l, p, t)'
  <1>0. RaftInv /\ Fits /\ Crowned(l) /\ AcksHold
    BY SteppingGives, Given DEF Follows, RaftInv, Commits
  <1>1. Sends(l, p)
    BY DEF Sends
  <1>2. /\ UNCHANGED <<currentTerm, role, snap, commitIndex, nextIndex, matchIndex>>
        /\ FullLog(l)' = FullLog(l) /\ lastIndex(l)' = lastIndex(l)
        /\ FullLog(p)' = FullLog(p) /\ lastIndex(p)' = lastIndex(p)
    BY <1>1, SendingKeeps
  <1>3. PairTyped(l, p) /\ PairTyped(l, l) /\ role[l] = E!Leader /\ currentTerm[l] = t /\ p # l /\ currentTerm[p] <= t
    BY SteppingTypes DEF Follows
  <1>4. PICK req : req = [type |-> "AE", call |-> "replicate", from |-> l, to |-> p,
                   term |-> currentTerm[l], prevIndex |-> nextIndex[l][p] - 1,
                   prevTerm |-> termAt(l, nextIndex[l][p] - 1), ents |-> sliceFrom(l, nextIndex[l][p]),
                   commit |-> commitIndex[l], live |-> TRUE, answered |-> {}]
    BY Zenon
  <1>5. Send(l, p, req) /\ nextIndex[l][p] > snap[l].index
    BY <1>4 DEF SendAppendEntries
  <1>6. /\ req.type = "AE" /\ req.commit = commitIndex[l] /\ req.answered = {}
        /\ req.prevIndex = nextIndex[l][p] - 1 /\ req.prevTerm = termAt(l, nextIndex[l][p] - 1)
    BY <1>4
  <1>7. /\ \A m \in AEs(p, t)' : m = req \/ \E x \in AEs(p, t) : Later(x, m)
        /\ \A m \in ISs(p, t)' : m = req \/ \E x \in ISs(p, t) : Later(x, m)
        /\ \A m \in LiveAEs(p, t)' : m = req
        /\ \A m \in ISs(p, t)' : m.live => m = req
        /\ AppendReplies(l, p, t)' = {} /\ InstallReplies(l, p, t)' = {}
    BY <1>0, <1>5, <1>6, SentAlone
  <1>8. \A m \in ISs(p, t)' : \E x \in ISs(p, t) : x.snap = m.snap /\ ~m.live /\ x.snap.index <= snap[l].index
                                                   /\ x.snap.index \in Nat
    <2> SUFFICES ASSUME NEW m \in ISs(p, t)'
                 PROVE  \E x \in ISs(p, t) : x.snap = m.snap /\ ~m.live /\ x.snap.index <= snap[l].index
                                             /\ x.snap.index \in Nat
      OBVIOUS
    <2>1. m # req /\ ~m.live /\ m.type = "IS"
      BY <1>6, <1>7 DEF ISs
    <2>2. PICK x \in ISs(p, t) : Later(x, m)
      BY <1>7, <2>1
    <2>3. x \in Requests /\ x.term = t /\ x.type = "IS"
      BY DEF ISs, Requests
    <2>4. x.snap.index <= snap[l].index /\ x.snap.index \in Nat
      BY <1>0, <1>3, <2>3, LeaderSends
    <2> QED
      BY <2>1, <2>2, <2>4 DEF Later, Forwarded
  <1>9. /\ nextIndex[l][p] \in Nat /\ matchIndex[l][p] \in 0..MaxIndex /\ matchIndex[l][p] \in Nat
        /\ snap[l].index \in Nat /\ commitIndex[l] \in Nat /\ snap[p].index \in Nat
    BY <1>3 DEF PairTyped
  <1>10. NextFits(l, p)' /\ NextUnheard(l, p, t)'
    BY <1>1, SendingBooks DEF PairFits
  <1>11. CommitKnown(l, p, t)'
    <2>1. CommitKnown(l, p, t)
      BY DEF PairFits
    <2>2. ASSUME NEW a \in AEs(p, t)'
          PROVE  a.commit <= commitIndex[l] /\ (matchIndex[l][p] = 0 => a.prevIndex >= nextIndex[l][p] - 1)
      <3>1. CASE a = req
        BY <1>6, <1>9, <3>1
      <3>2. ASSUME NEW x \in AEs(p, t), Later(x, a)
            PROVE  a.commit <= commitIndex[l] /\ (matchIndex[l][p] = 0 => a.prevIndex >= nextIndex[l][p] - 1)
        <4>1. a.type = "AE"
          BY DEF AEs
        <4>2. x.commit = a.commit /\ x.prevIndex = a.prevIndex
          BY <3>2, <4>1 DEF Later, Forwarded
        <4> QED
          BY <2>1, <4>2 DEF CommitKnown
      <3> QED
        BY <1>7, <3>1, <3>2
    <2> QED
      BY <1>2, <2>1, <2>2 DEF CommitKnown
  <1>12. NextBelow(l, p, t) /\ NextBelow(l, p, t)'
    <2>1. NextBelow(l, p, t)
      BY DEF PairFits
    <2>2. ASSUME NEW m \in ISs(p, t)', m.live \/ matchIndex[l][p] = 0 \/ snap[p].index < m.snap.index
          PROVE  nextIndex[l][p] <= m.snap.index
      BY <1>8, <2>1, <2>2 DEF NextBelow
    <2> QED
      BY <1>2, <1>7, <2>1, <2>2 DEF NextBelow
  <1>13. AppendAlone(l, p, t)'
    <2>1. ASSUME NEW m \in ISs(p, t)' PROVE m.snap.index <= snap[p].index /\ matchIndex[l][p] > 0
      <3>1. PICK x \in ISs(p, t) : x.snap = m.snap /\ x.snap.index <= snap[l].index /\ x.snap.index \in Nat
        BY <1>8
      <3>2. ~(nextIndex[l][p] <= x.snap.index)
        BY <1>5, <1>9, <3>1
      <3>3. matchIndex[l][p] # 0 /\ ~(snap[p].index < x.snap.index)
        BY <1>12, <3>2 DEF NextBelow
      <3> QED
        BY <1>9, <3>1, <3>3
    <2> QED
      BY <1>2, <2>1 DEF AppendAlone
  <1>14. AppendMatches(l, p, t)'
    <2>1. ASSUME matchIndex[l][p] > 0 PROVE Holds(p, req.prevIndex, req.prevTerm)
      <3>1. nextIndex[l][p] = matchIndex[l][p] + 1
        BY <2>1 DEF PairFits, NextFits
      <3>2. PICK i \in 1..MaxIndex : i = matchIndex[l][p]
        BY <1>9, <2>1, Bounds
      <3>3. Acked(l, p, i) /\ i >= snap[l].index
        BY <1>5, <1>9, <3>1, <3>2 DEF Acked
      <3>4. i <= lastIndex(p) /\ FullLog(p)[i] = FullLog(l)[i] /\ i <= lastIndex(l)
        BY <1>0, <1>3, <3>3 DEF AcksHold
      <3>5. i \in 1..lastIndex(p) /\ i \in 1..lastIndex(l)
        BY <1>3, <3>4, Bounds DEF PairTyped
      <3>6. termAt(l, i) = FullLog(l)[i]
        BY <1>0, <3>3, <3>5, TermAtIs
      <3>7. req.prevIndex = i /\ req.prevTerm = termAt(l, i)
        BY <1>6, <1>9, <3>1, <3>2
      <3> QED
        BY <3>4, <3>5, <3>6, <3>7 DEF Holds
    <2> QED
      BY <1>2, <1>6, <1>7, <2>1 DEF AppendMatches, Holds
  <1>15. ReplyHelps(l, p, t)'
    BY <1>7 DEF ReplyHelps
  <1>16. NextSafe(l, p, t)'
    BY <1>2, <1>5, <1>9 DEF NextSafe
  <1> QED
    BY <1>10, <1>11, <1>12, <1>13, <1>14, <1>15, <1>16 DEF PairFits

\* So does sendSnapshot.
LEMMA SnapshotSentPair ==
    ASSUME Stepping, OneCall, NEW l \in Node, NEW p \in Node, NEW t \in 1..MaxTerm, Follows(l, p, t),
           SendSnapshot(l, p), PairFits(l, p, t)
    PROVE  PairFits(l, p, t)'
  <1>0. RaftInv /\ Fits /\ Crowned(l)
    BY SteppingGives, Given DEF Follows
  <1>1. Sends(l, p)
    BY DEF Sends
  <1>2. /\ UNCHANGED <<currentTerm, role, snap, commitIndex, nextIndex, matchIndex>>
        /\ FullLog(l)' = FullLog(l) /\ lastIndex(l)' = lastIndex(l)
        /\ FullLog(p)' = FullLog(p) /\ lastIndex(p)' = lastIndex(p)
    BY <1>1, SendingKeeps
  <1>3. PairTyped(l, p) /\ PairTyped(l, l)
    BY SteppingTypes
  <1>4. PICK req : req = [type |-> "IS", call |-> "replicate", from |-> l, to |-> p,
                   term |-> currentTerm[l], snap |-> snap[l], live |-> TRUE, answered |-> {}]
    BY Zenon
  <1>5. Send(l, p, req) /\ ~(nextIndex[l][p] > snap[l].index /\ HasIndex(l, nextIndex[l][p] - 1))
    BY <1>4 DEF SendSnapshot
  <1>6. req.type = "IS" /\ req.snap = snap[l] /\ req.answered = {}
    BY <1>4
  <1>7. /\ \A m \in AEs(p, t)' : m = req \/ \E x \in AEs(p, t) : Later(x, m)
        /\ \A m \in ISs(p, t)' : m = req \/ \E x \in ISs(p, t) : Later(x, m)
        /\ \A m \in LiveAEs(p, t)' : m = req
        /\ \A m \in ISs(p, t)' : m.live => m = req
        /\ AppendReplies(l, p, t)' = {} /\ InstallReplies(l, p, t)' = {}
    BY <1>0, <1>5, <1>6, SentAlone
  <1>8. LiveAEs(p, t)' = {}
    <2> SUFFICES ASSUME NEW m \in LiveAEs(p, t)' PROVE FALSE
      OBVIOUS
    <2>1. m = req /\ m.type = "AE"
      BY <1>7 DEF LiveAEs, AEs
    <2> QED
      BY <1>6, <2>1
  <1>9. /\ nextIndex[l][p] \in Nat /\ snap[l].index \in Nat /\ lastIndex(l) \in Nat
        /\ nextIndex[l][p] <= lastIndex(l) + 1 /\ nextIndex[l][p] >= 1
    BY <1>3, Bounds DEF PairTyped, PairFits, NextFits
  <1>10. nextIndex[l][p] <= snap[l].index
    BY <1>5, <1>9 DEF HasIndex
  <1>11. /\ \A a \in AEs(p, t)' : \E x \in AEs(p, t) :
              x.commit = a.commit /\ x.prevIndex = a.prevIndex /\ x.prevTerm = a.prevTerm
         /\ \A m \in ISs(p, t)' : m.snap = snap[l] \/ \E x \in ISs(p, t) : x.snap = m.snap /\ (m.live => x.live)
    <2>1. ASSUME NEW a \in AEs(p, t)'
          PROVE  \E x \in AEs(p, t) : x.commit = a.commit /\ x.prevIndex = a.prevIndex /\ x.prevTerm = a.prevTerm
      <3>1. a.type = "AE" /\ a # req
        BY <1>6 DEF AEs
      <3> QED
        BY <1>7, <3>1 DEF Later, Forwarded
    <2>2. ASSUME NEW m \in ISs(p, t)', m # req
          PROVE  \E x \in ISs(p, t) : x.snap = m.snap /\ (m.live => x.live)
      <3>1. m.type = "IS"
        BY DEF ISs
      <3> QED
        BY <1>7, <2>2, <3>1 DEF Later, Forwarded
    <2> QED
      BY <1>6, <2>1, <2>2
  <1>12. NextFits(l, p)' /\ NextUnheard(l, p, t)'
    BY <1>1, SendingBooks DEF PairFits
  <1>13. CommitKnown(l, p, t)'
    <2>1. CommitKnown(l, p, t)
      BY DEF PairFits
    <2>2. ASSUME NEW a \in AEs(p, t)'
          PROVE  a.commit <= commitIndex[l] /\ (matchIndex[l][p] = 0 => a.prevIndex >= nextIndex[l][p] - 1)
      BY <1>11, <2>1 DEF CommitKnown
    <2> QED
      BY <1>2, <2>1, <2>2 DEF CommitKnown
  <1>14. NextBelow(l, p, t)'
    <2>1. NextBelow(l, p, t)
      BY DEF PairFits
    <2>2. ASSUME NEW m \in ISs(p, t)', m.live \/ matchIndex[l][p] = 0 \/ snap[p].index < m.snap.index
          PROVE  nextIndex[l][p] <= m.snap.index
      BY <1>10, <1>11, <2>1, <2>2 DEF NextBelow
    <2> QED
      BY <1>2, <1>7, <2>2 DEF NextBelow
  <1>15. AppendAlone(l, p, t)' /\ AppendMatches(l, p, t)' /\ ReplyHelps(l, p, t)'
    BY <1>7, <1>8 DEF AppendAlone, Appending, AppendMatches, ReplyHelps
  <1>16. NextSafe(l, p, t)'
    <2>1. PICK s \in Index : s = snap[l].index
      BY <1>0, SnapshotIs, Bounds DEF Snap
    <2>2. Safe(p, t, s)
      BY <1>10, <2>1 DEF PairFits, NextSafe
    <2>3. s \in Nat
      BY <1>9, <2>1
    <2>4. (\A a \in AEs(p, t) : a.commit <= s) => \A a \in AEs(p, t)' : a.commit <= s
      BY <1>11
    <2>5. (\A a \in AEs(p, t) : ~Holds(p, a.prevIndex, a.prevTerm))
          => \A a \in AEs(p, t)' : ~Holds(p, a.prevIndex, a.prevTerm)'
      BY <1>2, <1>11 DEF Holds
    <2>6. (\A m \in ISs(p, t) : m.snap.index >= s) => \A m \in ISs(p, t)' : m.snap.index >= s
      BY <1>11, <2>1, <2>3
    <2>7. Safe(p, t, s)'
      BY <1>2, <2>2, <2>4, <2>5, <2>6 DEF Safe
    <2> QED
      BY <1>2, <2>1, <2>7 DEF NextSafe
  <1> QED
    BY <1>12, <1>13, <1>14, <1>15, <1>16 DEF PairFits

\* What is safe for p stays safe, as long as nothing new is sent to it.
LEMMA SafeStays ==
    ASSUME Stepping, NEW p \in Node, NEW t, NEW s \in Nat, Safe(p, t, s),
           \A a \in AEs(p, t)' : \E x \in AEs(p, t) :
               x.commit = a.commit /\ x.prevIndex = a.prevIndex /\ x.prevTerm = a.prevTerm,
           \A m \in ISs(p, t)' : m.snap.index >= s \/ \E x \in ISs(p, t) : x.snap = m.snap,
           t \in Nat,
           \A x \in AEs(p, t) : x.commit \in Nat, \A x \in ISs(p, t) : x.snap.index \in Nat,
           currentTerm'[p] = t => Moves(p, t), currentTerm'[p] < t => commitIndex'[p] <= s
    PROVE  Safe(p, t, s)'
  <1>0. PairTyped(p, p) /\ PairTyped(p, p)' /\ currentTerm[p] <= currentTerm'[p] /\ snap[p].index <= snap'[p].index
    BY SteppingTypes, SteppingGives DEF SnapshotsGrow
  <1>1. /\ currentTerm[p] \in Nat /\ currentTerm'[p] \in Nat /\ snap[p].index \in Nat /\ snap'[p].index \in Nat
        /\ commitIndex[p] \in Nat /\ commitIndex'[p] \in Nat
        /\ lastIndex(p) \in Nat /\ lastIndex(p)' \in Nat
        /\ DOMAIN FullLog(p) = 1..lastIndex(p) /\ DOMAIN FullLog(p)' = 1..lastIndex(p)'
    BY <1>0 DEF PairTyped
  <1>2. CASE currentTerm'[p] > t \/ snap'[p].index >= s
    BY <1>2 DEF Safe
  <1>3. CASE commitIndex[p] <= s /\ \A a \in AEs(p, t) : a.commit <= s
    <2>1. \A a \in AEs(p, t)' : a.commit <= s
      BY <1>3
    <2>2. CASE currentTerm'[p] < t
      BY <2>1, <2>2 DEF Safe
    <2>3. CASE currentTerm'[p] = t
      <3>1. Moves(p, t)
        BY <2>3
      <3>2. CASE commitIndex'[p] <= commitIndex[p]
        BY <1>1, <1>3, <2>1, <3>2 DEF Safe
      <3>3. ASSUME NEW x \in AEs(p, t), commitIndex'[p] <= x.commit PROVE Safe(p, t, s)'
        BY <1>1, <1>3, <2>1, <3>3 DEF Safe
      <3>4. ASSUME NEW x \in ISs(p, t), snap'[p].index = x.snap.index, commitIndex'[p] <= x.snap.index
            PROVE  Safe(p, t, s)'
        <4>1. snap'[p].index >= s \/ commitIndex'[p] <= s
          BY <1>1, <3>4
        <4> QED
          BY <2>1, <4>1 DEF Safe
      <3> QED
        BY <3>1, <3>2, <3>3, <3>4 DEF Moves, Quiet, Takes, Installs
    <2> QED
      BY <1>1, <1>2, <2>2, <2>3
  <1>4. CASE /\ commitIndex[p] <= s /\ currentTerm[p] = t
             /\ \A a \in AEs(p, t) : ~Holds(p, a.prevIndex, a.prevTerm)
             /\ \A m \in ISs(p, t) : m.snap.index >= s
    <2>1. CASE currentTerm'[p] = t
      <3>1. Moves(p, t) /\ ~Takes(p, t)
        BY <1>4, <2>1 DEF Takes
      <3>2. ASSUME commitIndex'[p] <= commitIndex[p], lastIndex(p)' <= lastIndex(p),
                   \A i \in 1..lastIndex(p)' : FullLog(p)'[i] = FullLog(p)[i]
            PROVE  Safe(p, t, s)'
        <4>1. commitIndex'[p] <= s
          BY <1>1, <1>4, <3>2
        <4>2. \A a \in AEs(p, t)' : ~Holds(p, a.prevIndex, a.prevTerm)'
          <5> SUFFICES ASSUME NEW a \in AEs(p, t)', Holds(p, a.prevIndex, a.prevTerm)' PROVE FALSE
            OBVIOUS
          <5>1. PICK x \in AEs(p, t) : x.prevIndex = a.prevIndex /\ x.prevTerm = a.prevTerm
            OBVIOUS
          <5>2. ~Holds(p, a.prevIndex, a.prevTerm)
            BY <1>4, <5>1
          <5>3. a.prevIndex # 0 /\ a.prevIndex \in 1..lastIndex(p)' /\ FullLog(p)'[a.prevIndex] = a.prevTerm
            BY <5>2 DEF Holds
          <5>4. a.prevIndex \in 1..lastIndex(p) /\ FullLog(p)[a.prevIndex] = a.prevTerm
            BY <1>1, <3>2, <5>3
          <5> QED
            BY <5>2, <5>4 DEF Holds
        <4>3. \A m \in ISs(p, t)' : m.snap.index >= s
          BY <1>4
        <4> QED
          BY <2>1, <4>1, <4>2, <4>3 DEF Safe
      <3>3. CASE Quiet(p)
        BY <1>1, <3>2, <3>3 DEF Quiet, Same
      <3>4. ASSUME NEW x \in ISs(p, t), snap'[p].index = x.snap.index PROVE Safe(p, t, s)'
        BY <1>2, <1>4, <3>4
      <3>5. ASSUME commitIndex'[p] <= commitIndex[p], NEW K, LeftTo(p, K) PROVE Safe(p, t, s)'
        <4>1. K \in 0..lastIndex(p) /\ DOMAIN FullLog(p)' = 1..K /\ \A i \in 1..K : FullLog(p)'[i] = FullLog(p)[i]
          BY <3>5 DEF LeftTo
        <4>2. K \in Nat /\ 1..K = 1..lastIndex(p)'
          BY <1>1, <4>1
        <4>3. K = lastIndex(p)'
          BY <1>1, <4>2, IntervalSame
        <4> QED
          BY <1>1, <3>2, <3>5, <4>1, <4>3
      <3> QED
        BY <3>1, <3>3, <3>4, <3>5 DEF Moves, Installs
    <2> QED
      BY <1>0, <1>1, <1>2, <1>4, <2>1
  <1> QED
    BY <1>0, <1>1, <1>2, <1>3, <1>4 DEF Safe

\* The requests to p stay what they are.
LEMMA DeliversOld ==
    ASSUME NEW p, NEW t, Delivers(p, t)
    PROVE  /\ \A m \in AEs(p, t)' : \E x \in AEs(p, t) :
                Later(x, m) /\ \A r \in m.answered : r \in x.answered \/ Gives(x, r)
           /\ \A m \in ISs(p, t)' : \E x \in ISs(p, t) :
                Later(x, m) /\ \A r \in m.answered : r \in x.answered \/ Gives(x, r)
  <1>1. ASSUME NEW m \in AEs(p, t)'
        PROVE  \E x \in AEs(p, t) : Later(x, m) /\ \A r \in m.answered : r \in x.answered \/ Gives(x, r)
    <2>1. m \in Requests' /\ m.type = "AE" /\ m.to = p /\ m.term = t
      BY DEF AEs, Requests
    <2>2. PICK x \in Requests : Later(x, m) /\ \A r \in m.answered : r \in x.answered \/ Gives(x, r)
      BY <2>1 DEF Delivers, RequestStays
    <2>3. x \in AEs(p, t)
      BY <2>1, <2>2 DEF Later, Forwarded, AEs, Requests
    <2> QED
      BY <2>2, <2>3
  <1>2. ASSUME NEW m \in ISs(p, t)'
        PROVE  \E x \in ISs(p, t) : Later(x, m) /\ \A r \in m.answered : r \in x.answered \/ Gives(x, r)
    <2>1. m \in Requests' /\ m.type = "IS" /\ m.to = p /\ m.term = t
      BY DEF ISs, Requests
    <2>2. PICK x \in Requests : Later(x, m) /\ \A r \in m.answered : r \in x.answered \/ Gives(x, r)
      BY <2>1 DEF Delivers, RequestStays
    <2>3. x \in ISs(p, t)
      BY <2>1, <2>2 DEF Later, Forwarded, ISs, Requests
    <2> QED
      BY <2>2, <2>3
  <1> QED
    BY <1>1, <1>2

\* The numbers in the requests.
LEMMA SentTypes ==
    ASSUME RaftInv, NEW p, NEW t
    PROVE  /\ \A a \in AEs(p, t) : a \in Requests /\ a.commit \in Nat /\ a.prevIndex \in Nat
           /\ \A m \in ISs(p, t) : m \in Requests /\ m.snap.index \in Nat
  <1>1. Fits
    BY Given
  <1>2. ASSUME NEW a \in AEs(p, t) PROVE a \in Requests /\ a.commit \in Nat /\ a.prevIndex \in Nat
    <2>1. a \in Requests /\ a.type = "AE"
      BY DEF AEs, Requests
    <2>2. a \in AppendRequest
      BY <1>1, <2>1, FragmentShape, Zenon
    <2> QED
      BY <2>1, <2>2, Bounds DEF AppendRequest, Index
  <1>3. ASSUME NEW m \in ISs(p, t) PROVE m \in Requests /\ m.snap.index \in Nat
    <2>1. m \in Requests /\ m.type = "IS"
      BY DEF ISs, Requests
    <2>2. m \in SnapshotRequest
      BY <1>1, <2>1, FragmentShape, Zenon
    <2> QED
      BY <2>1, <2>2, Bounds DEF SnapshotRequest, Snap, Index
  <1> QED
    BY <1>2, <1>3

\* The entries of a term that a leader looks for after a rejection.
LEMMA OwnIs ==
    ASSUME RaftInv, NEW l \in Node, NEW c
    PROVE  /\ IndicesOfTerm(l, c) \ {0} \in SUBSET (0..lastIndex(l))
           /\ \A i \in IndicesOfTerm(l, c) \ {0} :
                i \in 1..lastIndex(l) /\ i >= snap[l].index /\ FullLog(l)[i] = c
           /\ \A i \in 1..lastIndex(l) :
                i >= snap[l].index /\ FullLog(l)[i] = c => i \in IndicesOfTerm(l, c) \ {0}
  <1>0. Fits
    BY Given
  <1>1. snap[l].index \in Nat /\ lastIndex(l) \in Nat
    BY PairTypes
  <1>2. \A i \in 1..lastIndex(l) : i >= snap[l].index => termAt(l, i) = FullLog(l)[i]
    BY <1>0, TermAtIs
  <1> QED
    BY <1>1, <1>2 DEF IndicesOfTerm

\* After the rejection r l goes on at a lower index, above what p commits or
\* at a snapshot that covers that.
NextAfter(l, p, r) ==
    /\ nextIndexAfterConflict(l, r) < nextIndex[l][p]
    /\ nextIndexAfterConflict(l, r) \in Nat \ {0}
    /\ commitIndex[p] < nextIndexAfterConflict(l, r) \/ commitIndex[p] <= snap[l].index

\* nextIndexAfterConflict does what it is for.
LEMMA RejectionNarrows ==
    ASSUME RaftInv, NEW l \in Node, NEW p \in Node, NEW t \in 1..MaxTerm, Follows(l, p, t),
           NEW r \in Reply, r.type = "AEReply", Narrows(l, p, t, r)
    PROVE  NextAfter(l, p, r)
  <1>0. Fits /\ Coherent
    BY Given
  <1>1. /\ nextIndex[l][p] \in Nat /\ commitIndex[p] \in Nat /\ snap[l].index \in Nat /\ snap[p].index \in Nat
        /\ snap[p].index <= commitIndex[p] /\ commitIndex[p] <= lastIndex(p)
        /\ lastIndex(p) \in Nat /\ lastIndex(l) \in Nat
        /\ DOMAIN FullLog(p) = 1..lastIndex(p) /\ DOMAIN FullLog(l) = 1..lastIndex(l)
        /\ FullLog(p) \in Carriers /\ FullLog(l) \in Carriers
    BY PairTypes
  <1>2. PICK j \in 1..lastIndex(l) :
          /\ j = nextIndex[l][p] - 1
          /\ ~(j \in 1..lastIndex(p) /\ FullLog(p)[j] = FullLog(l)[j])
          /\ Hints(p, j, r)
    BY DEF Narrows
  <1>3. /\ commitIndex[p] <= lastIndex(l)
        /\ \A i \in 1..commitIndex[p] : FullLog(l)[i] = FullLog(p)[i]
    BY CommitInLeader DEF Follows
  <1>4. commitIndex[p] < j
    BY <1>1, <1>2, <1>3
  <1>5. PICK c : c = r.conflictTerm
    OBVIOUS
  <1>6. PICK ci \in 0..MaxIndex + 1 : ci = r.conflictIndex
    BY DEF Reply
  <1>7. ci \in Nat /\ j \in Nat
    BY <1>1, <1>6, Bounds
  <1>8. PICK own : own = IndicesOfTerm(l, c) \ {0}
    BY Zenon
  <1>9. /\ own \in SUBSET (0..lastIndex(l))
        /\ \A i \in own : i \in 1..lastIndex(l) /\ i >= snap[l].index /\ FullLog(l)[i] = c
        /\ \A i \in 1..lastIndex(l) : i >= snap[l].index /\ FullLog(l)[i] = c => i \in own
    BY <1>8, OwnIs
  <1>10. nextIndexAfterConflict(l, r) = IF c # 0 /\ own # {} THEN Max(own) + 1 ELSE Max({ci, 1})
    BY <1>5, <1>6, <1>8 DEF nextIndexAfterConflict
  <1>11. Max({ci, 1}) = IF ci >= 1 THEN ci ELSE 1
    BY <1>7, MaxOfTwo
  <1>12. CASE c = 0
    <2>1. ci = lastIndex(p) + 1 /\ lastIndex(p) < j
      BY <1>2, <1>5, <1>6, <1>12 DEF Hints
    <2> QED
      BY <1>1, <1>2, <1>7, <1>10, <1>11, <1>12, <2>1 DEF NextAfter
  <1>13. CASE c # 0
    <2>1. /\ ci <= j /\ j <= lastIndex(p)
          /\ \A y \in 1..lastIndex(p) : ci <= y /\ y <= j => FullLog(p)[y] = c
          /\ \/ ci <= snap[p].index
             \/ \A y \in 1..lastIndex(p) : y < ci => FullLog(p)[y] # c
      BY <1>2, <1>5, <1>6, <1>13 DEF Hints
    <2>2. j \in 1..lastIndex(p) /\ FullLog(p)[j] = c /\ FullLog(p)[j] # FullLog(l)[j]
      BY <1>1, <1>2, <1>7, <2>1
    <2>3. ASSUME commitIndex[p] >= ci, commitIndex[p] > snap[l].index PROVE commitIndex[p] \in own
      <3>1. commitIndex[p] \in 1..lastIndex(p) /\ commitIndex[p] \in 1..lastIndex(l)
            /\ commitIndex[p] \in 1..commitIndex[p]
        BY <1>1, <1>3, <2>3
      <3>2. FullLog(p)[commitIndex[p]] = c
        BY <1>1, <1>4, <1>7, <2>1, <2>3, <3>1
      <3>3. FullLog(l)[commitIndex[p]] = c
        BY <1>3, <3>1, <3>2
      <3> QED
        BY <1>9, <2>3, <3>1, <3>3, <1>1
    <2>4. CASE own = {}
      <3>1. nextIndexAfterConflict(l, r) = (IF ci >= 1 THEN ci ELSE 1)
        BY <1>10, <1>11, <2>4
      <3>2. commitIndex[p] < ci \/ commitIndex[p] <= snap[l].index
        BY <1>1, <1>7, <2>3, <2>4
      <3> QED
        BY <1>1, <1>2, <1>7, <2>1, <3>1, <3>2 DEF NextAfter
    <2>5. CASE own # {}
      <3>1. Max(own) \in own /\ \A x \in own : x <= Max(own)
        BY <1>1, <1>9, <2>5, MaxOfBounded, Zenon
      <3>2. PICK k \in 1..lastIndex(l) : k = Max(own) /\ k \in own /\ FullLog(l)[k] = c /\ k >= snap[l].index
        BY <1>9, <3>1, Zenon
      <3>3. nextIndexAfterConflict(l, r) = k + 1 /\ k \in Nat
        BY <1>1, <1>10, <1>13, <2>5, <3>2
      <3>4. k < j
        <4> SUFFICES ASSUME j <= k PROVE FALSE
          BY <1>7, <3>3
        <4>1. Coheres(FullLog(p), FullLog(l))
          BY <1>0, <1>1 DEF Coherent
        <4>2. \A y \in 1..lastIndex(l) : j <= y /\ y <= k => FullLog(l)[y] = FullLog(p)[j]
          BY <1>1, <2>2, <3>2, <4>1 DEF Coheres
        <4>3. FullLog(l)[j] = FullLog(p)[j]
          BY <1>2, <1>7, <4>2
        <4> QED
          BY <2>2, <4>3
      <3>5. commitIndex[p] <= k \/ commitIndex[p] <= snap[l].index
        <4> SUFFICES ASSUME commitIndex[p] > k, commitIndex[p] > snap[l].index PROVE FALSE
          BY <1>1, <3>3
        <4>1. commitIndex[p] < ci
          <5> SUFFICES ASSUME commitIndex[p] >= ci PROVE FALSE
            BY <1>1, <1>7
          <5>1. commitIndex[p] \in own
            BY <2>3
          <5>2. commitIndex[p] <= k
            BY <3>1, <3>2, <5>1
          <5> QED
            BY <1>1, <3>3, <5>2
        <4>2. k \in 1..commitIndex[p] /\ k \in 1..lastIndex(p) /\ k < ci
          BY <1>1, <1>7, <3>3, <3>2, <4>1
        <4>3. FullLog(p)[k] = c
          BY <1>3, <3>2, <4>2
        <4>4. ci <= snap[p].index
          BY <2>1, <4>2, <4>3
        <4> QED
          BY <1>1, <1>7, <4>1, <4>4
      <3> QED
        BY <1>1, <1>2, <1>7, <3>3, <3>4, <3>5 DEF NextAfter
    <2> QED
      BY <2>4, <2>5
  <1> QED
    BY <1>12, <1>13

\* What an answer does to the books: nothing; it moves them up to what the peer
\* has acknowledged; or it moves nextIndex back.
MovesUp(l, p, r) ==
    /\ Accepting(r) /\ r.match > matchIndex[l][p]
    /\ matchIndex'[l][p] = r.match /\ nextIndex'[l][p] = r.match + 1
MovesBack(l, p, r) ==
    /\ r.type = "AEReply" /\ ~r.success
    /\ matchIndex'[l][p] = matchIndex[l][p] /\ nextIndex'[l][p] = nextIndexAfterConflict(l, r)

\* An answer does one of the three.
LEMMA AnsweredBooks ==
    ASSUME RaftInv, NEW r \in msgs, TakesAnswer(r), NEW l \in Node, NEW p \in Node, r.to = l, r.from = p
    PROVE  BooksStay(l, p) \/ MovesUp(l, p, r) \/ MovesBack(l, p, r)
  <1>1. /\ nextIndex \in [Node -> [Node -> 1..(MaxIndex + 1)]] /\ matchIndex \in [Node -> [Node -> Index]]
    BY Given DEF RestTypes
  <1>2. ASSUME NEW commits, PeerMatches(r, commits), Accepting(r) PROVE MovesUp(l, p, r)
    <2>1. PICK mi : mi = [matchIndex[l] EXCEPT ![p] = r.match]
      BY Zenon
    <2>2. /\ matchIndex' = [matchIndex EXCEPT ![l] = mi] /\ r.match > matchIndex[l][p]
          /\ nextIndex'  = [nextIndex EXCEPT ![l][p] = r.match + 1]
      BY <1>2, <2>1 DEF PeerMatches
    <2>3. mi[p] = r.match
      BY <1>1, <2>1
    <2>4. matchIndex'[l] = mi /\ nextIndex'[l][p] = r.match + 1
      BY <1>1, <2>2
    <2> QED
      BY <1>2, <2>2, <2>3, <2>4 DEF MovesUp
  <1>3. ASSUME UNCHANGED <<leaderVars, commitIndex>> PROVE BooksStay(l, p)
    BY <1>3 DEF leaderVars, BooksStay
  <1>4. CASE AppendAcked(r)
    <2>1. Accepting(r) /\ (PeerMatches(r, TRUE) \/ UNCHANGED <<leaderVars, commitIndex>>)
      BY <1>4, Zenon DEF AppendAcked, Accepting
    <2> QED
      BY <1>2, <1>3, <2>1, Zenon
  <1>5. CASE SnapshotAcked(r)
    <2>1. Accepting(r) /\ (PeerMatches(r, FALSE) \/ UNCHANGED <<leaderVars, commitIndex>>)
      BY <1>5, Zenon DEF SnapshotAcked, Accepting
    <2> QED
      BY <1>2, <1>3, <2>1, Zenon
  <1>6. CASE AppendRejected(r)
    <2>1. PICK x : x = nextIndexAfterConflict(l, r)
      OBVIOUS
    <2>2. /\ r.type = "AEReply" /\ ~r.success /\ matchIndex' = matchIndex
          /\ nextIndex' = [nextIndex EXCEPT ![l][p] = x]
      BY <1>6, <2>1 DEF AppendRejected
    <2>3. nextIndex'[l][p] = x
      BY <1>1, <2>2
    <2> QED
      BY <2>1, <2>2, <2>3 DEF MovesBack
  <1> QED
    BY <1>4, <1>5, <1>6 DEF TakesAnswer

\* What an answer leaves alone.
Unanswered(l, p, t) ==
    /\ currentTerm'[p] = currentTerm[p] /\ snap' = snap /\ commitIndex'[p] = commitIndex[p]
    /\ commitIndex[l] <= commitIndex'[l]
    /\ FullLog(l)' = FullLog(l) /\ lastIndex(l)' = lastIndex(l)
    /\ FullLog(p)' = FullLog(p) /\ lastIndex(p)' = lastIndex(p)
    /\ AEs(p, t)' = AEs(p, t) /\ ISs(p, t)' = ISs(p, t)
    /\ LiveAEs(p, t)' = {} /\ (\A m \in ISs(p, t) : ~m.live)
    /\ AppendReplies(l, p, t)' = {} /\ InstallReplies(l, p, t)' = {}

\* An answer that the leader takes was the last of its call: nothing is left under
\* way to the peer.
LEMMA AnsweredLeaves ==
    ASSUME Stepping, OneCall, NEW l \in Node, NEW p \in Node, NEW t \in 1..MaxTerm, Follows(l, p, t),
           NEW r \in msgs, TakesAnswer(r), r.to = l, r.from = p
    PROVE  /\ Unanswered(l, p, t) /\ r.forTerm = t /\ r \in Replies /\ r \in Reply
           /\ r.type = "AEReply" => r \in AppendReplies(l, p, t)
           /\ r.type = "ISReply" => r \in InstallReplies(l, p, t)
  <1>0. RaftInv /\ Fits /\ AppliedGrows
    BY SteppingGives
  <1>1. /\ r.from # r.to /\ r \in Replies /\ IsReply(r)
        /\ r.forTerm = currentTerm[l]
        /\ UNCHANGED <<log, snap, currentTerm>> /\ msgs' = msgs \ {r}
        /\ commitIndex'[p] = commitIndex[p] /\ commitIndex[l] <= commitIndex'[l]
    BY AnswerMoves
  <1>2. \A x \in Node : FullLog(x)' = FullLog(x) /\ lastIndex(x)' = lastIndex(x)
    BY <1>0, <1>1, SameLog
  <1>3. r.forTerm = t
    BY <1>1 DEF Follows
  <1>4. /\ AEs(p, t)' = AEs(p, t) /\ ISs(p, t)' = ISs(p, t)
        /\ LiveAEs(p, t)' = {} /\ \A m \in ISs(p, t) : ~m.live
        /\ AppendReplies(l, p, t)' = {} /\ InstallReplies(l, p, t)' = {}
        /\ r.type = "AEReply" /\ r.forTerm = t => r \in AppendReplies(l, p, t)
        /\ r.type = "ISReply" /\ r.forTerm = t => r \in InstallReplies(l, p, t)
    BY <1>0, <1>1, AnsweredAlone
  <1>5. r \in Reply
    <2>1. r \notin Requests
      BY <1>1 DEF IsReply, Requests
    <2> QED
      BY <1>0, <2>1, InFlight
  <1> QED
    BY <1>1, <1>2, <1>3, <1>4, <1>5 DEF Unanswered

\* Then what was safe for p still is.
LEMMA SafeUnanswered ==
    ASSUME NEW l, NEW p, NEW t, Unanswered(l, p, t), NEW s, Safe(p, t, s)
    PROVE  Safe(p, t, s)'
  <1>1. \A i, u : Holds(p, i, u)' = Holds(p, i, u)
    BY DEF Unanswered, Holds
  <1> QED
    BY <1>1 DEF Unanswered, Safe

\* Nothing is under way for p after the answer.
LEMMA NothingPending ==
    ASSUME NEW l, NEW p, NEW t, Unanswered(l, p, t)
    PROVE  AppendAlone(l, p, t)' /\ AppendMatches(l, p, t)' /\ ReplyHelps(l, p, t)'
  BY DEF Unanswered, AppendAlone, Appending, AppendMatches, ReplyHelps

\* The answer to a call leaves the books right.
LEMMA AnsweredPair ==
    ASSUME Stepping, OneCall, NEW l \in Node, NEW p \in Node, NEW t \in 1..MaxTerm, Follows(l, p, t),
           NEW r \in msgs, TakesAnswer(r), r.to = l, r.from = p, PairFits(l, p, t)
    PROVE  PairFits(l, p, t)'
  <1>0. RaftInv /\ Fits /\ Crowned(l) /\ AcksHold
    BY SteppingGives, Given DEF Follows, RaftInv, Commits
  <1>1. /\ role[l] = E!Leader /\ currentTerm[l] = t /\ p # l /\ currentTerm[p] <= t
    BY DEF Follows
  <1>2. /\ Unanswered(l, p, t) /\ r.forTerm = t /\ r \in Replies /\ r \in Reply
        /\ r.type = "AEReply" => r \in AppendReplies(l, p, t)
        /\ r.type = "ISReply" => r \in InstallReplies(l, p, t)
    BY AnsweredLeaves
  <1>3. /\ currentTerm'[p] = currentTerm[p] /\ snap' = snap /\ commitIndex'[p] = commitIndex[p]
        /\ commitIndex[l] <= commitIndex'[l]
        /\ FullLog(l)' = FullLog(l) /\ lastIndex(l)' = lastIndex(l)
        /\ AEs(p, t)' = AEs(p, t) /\ ISs(p, t)' = ISs(p, t) /\ InstallReplies(l, p, t)' = {}
        /\ \A m \in ISs(p, t) : ~m.live
    BY <1>2 DEF Unanswered
  <1>4. AppendAlone(l, p, t)' /\ AppendMatches(l, p, t)' /\ ReplyHelps(l, p, t)'
    BY <1>2, NothingPending
  <1>5. \A s : Safe(p, t, s) => Safe(p, t, s)'
    BY <1>2, SafeUnanswered
  <1>6. /\ NextFits(l, p) /\ NextUnheard(l, p, t) /\ CommitKnown(l, p, t) /\ NextBelow(l, p, t)
        /\ AppendAlone(l, p, t) /\ ReplyHelps(l, p, t) /\ NextSafe(l, p, t)
    BY DEF PairFits
  <1>7. PairTyped(l, p) /\ PairTyped(l, p)' /\ PairTyped(l, l) /\ PairTyped(p, l)'
    BY SteppingTypes
  <1>8. /\ nextIndex[l][p] \in Nat /\ matchIndex[l][p] \in 0..MaxIndex /\ matchIndex[l][p] \in Nat
        /\ nextIndex'[l][p] \in Nat /\ matchIndex'[l][p] \in Nat
        /\ snap[l].index \in Nat /\ snap[p].index \in Nat /\ commitIndex[p] \in Nat
        /\ commitIndex[l] \in Nat /\ commitIndex'[l] \in Nat /\ snap[l].index <= commitIndex[l]
        /\ lastIndex(l) \in Nat /\ lastIndex(p) \in Nat /\ currentTerm[p] \in Nat /\ t \in Nat
        /\ DOMAIN FullLog(l) = 1..lastIndex(l)
    BY <1>7, Bounds DEF PairTyped
  <1>9. /\ \A a \in AEs(p, t) : a.commit \in Nat /\ a.prevIndex \in Nat /\ a.commit <= commitIndex[l]
        /\ \A m \in ISs(p, t) : m.snap.index \in Nat
    BY <1>0, <1>6, SentTypes DEF CommitKnown
  <1>10. \A a \in AEs(p, t) : a.commit <= commitIndex'[l]
    BY <1>3, <1>8, <1>9
  <1>10a. ASSUME nextIndex[l][p] <= nextIndex'[l][p], matchIndex'[l][p] # 0 PROVE CommitKnown(l, p, t)'
    <2>1. commitIndex[p] < nextIndex[l][p] \/ commitIndex[p] <= commitIndex[l]
      BY <1>6 DEF CommitKnown
    <2>2. commitIndex'[p] < nextIndex'[l][p] \/ commitIndex'[p] <= commitIndex'[l]
      BY <1>3, <1>8, <1>10a, <2>1
    <2> QED
      BY <1>3, <1>10, <1>10a, <2>2 DEF CommitKnown
  <1>11. CASE BooksStay(l, p)
    <2>1. nextIndex'[l][p] = nextIndex[l][p] /\ matchIndex'[l][p] = matchIndex[l][p]
      BY <1>11 DEF BooksStay
    <2>2. NextFits(l, p)' /\ NextUnheard(l, p, t)'
      BY <1>3, <1>6, <2>1 DEF NextFits, NextUnheard
    <2>3. CommitKnown(l, p, t)'
      BY <1>3, <1>6, <1>8, <1>10, <2>1 DEF CommitKnown
    <2>4. NextBelow(l, p, t)'
      BY <1>3, <1>6, <2>1 DEF NextBelow
    <2>5. NextSafe(l, p, t)'
      BY <1>3, <1>5, <1>6, <2>1 DEF NextSafe
    <2> QED
      BY <1>4, <2>2, <2>3, <2>4, <2>5 DEF PairFits
  <1>12. CASE MovesUp(l, p, r)
    <2>1. /\ Accepting(r) /\ r.match > matchIndex[l][p]
          /\ matchIndex'[l][p] = r.match /\ nextIndex'[l][p] = r.match + 1
      BY <1>12 DEF MovesUp
    <2>2. PICK i \in Nat : i = r.match /\ i > 0
      BY <1>8, <2>1
    <2>3. i \in 1..MaxIndex
      BY <1>7, <2>1, <2>2, Bounds DEF PairTyped
    <2>4. Acked(l, p, i)
      BY <1>1, <1>2, <2>1, <2>2 DEF Acked, AppendReplies, InstallReplies, Accepting
    <2>5. i <= lastIndex(l) /\ currentTerm[p] >= t
      BY <1>0, <1>1, <2>3, <2>4 DEF AcksHold
    <2>6. CASE r.type = "AEReply"
      <3>1. r \in AppendReplies(l, p, t) /\ r.success
        BY <1>2, <2>1, <2>6 DEF Accepting
      <3>2. i >= nextIndex[l][p] - 1
        BY <1>6, <2>2, <3>1 DEF ReplyHelps
      <3>3. \A m \in ISs(p, t) : m.snap.index <= snap[p].index
        BY <1>6, <3>1 DEF AppendAlone, Appending
      <3>4. \A m \in ISs(p, t) : ~(snap[p].index < m.snap.index)
        BY <1>8, <1>9, <3>3
      <3> QED
        <4>1. NextFits(l, p)'
          BY <1>3, <1>8, <2>1, <2>2, <2>5 DEF NextFits
        <4>2. NextUnheard(l, p, t)'
          BY <1>3, <1>8, <2>5 DEF NextUnheard
        <4>3. nextIndex[l][p] <= nextIndex'[l][p] /\ matchIndex'[l][p] # 0
          BY <1>8, <2>1, <2>2, <3>2
        <4>4. CommitKnown(l, p, t)'
          BY <1>10a, <4>3
        <4>5. NextBelow(l, p, t)'
          BY <1>3, <3>4, <4>3 DEF NextBelow
        <4>6. NextSafe(l, p, t)'
          <5> SUFFICES ASSUME NEW s \in Index, s = snap[l].index, nextIndex'[l][p] <= s PROVE Safe(p, t, s)'
            BY <1>3 DEF NextSafe
          <5>1. nextIndex[l][p] <= s
            BY <1>8, <4>3
          <5> QED
            BY <1>5, <1>6, <5>1 DEF NextSafe
        <4> QED
          BY <1>4, <4>1, <4>2, <4>4, <4>5, <4>6 DEF PairFits
    <2>7. CASE r.type = "ISReply"
      <3>1. r \in InstallReplies(l, p, t)
        BY <1>2, <2>7
      <3>2. nextIndex[l][p] <= i /\ i <= snap[p].index
        BY <1>6, <2>2, <3>1 DEF NextBelow
      <3>3. NextFits(l, p)'
        BY <1>3, <1>8, <2>1, <2>2, <2>5 DEF NextFits
      <3>4. NextUnheard(l, p, t)'
        BY <1>3, <1>8, <2>5 DEF NextUnheard
      <3>5. nextIndex[l][p] <= nextIndex'[l][p] /\ matchIndex'[l][p] # 0
        BY <1>8, <2>1, <2>2, <3>2
      <3>6. CommitKnown(l, p, t)'
        BY <1>10a, <3>5
      <3>7. NextBelow(l, p, t)'
        <4>1. \A m \in ISs(p, t) : snap[p].index < m.snap.index => nextIndex'[l][p] <= m.snap.index
          BY <1>8, <1>9, <2>1, <2>2, <3>2
        <4> QED
          BY <1>3, <3>5, <4>1 DEF NextBelow
      <3>8. NextSafe(l, p, t)'
        <4> SUFFICES ASSUME NEW s \in Index, s = snap[l].index, nextIndex'[l][p] <= s PROVE Safe(p, t, s)'
          BY <1>3 DEF NextSafe
        <4>1. nextIndex[l][p] <= s
          BY <1>8, <3>5
        <4> QED
          BY <1>5, <1>6, <4>1 DEF NextSafe
      <3> QED
        BY <1>4, <3>3, <3>4, <3>6, <3>7, <3>8 DEF PairFits
    <2> QED
      BY <2>1, <2>6, <2>7 DEF Accepting
  <1>13. CASE MovesBack(l, p, r)
    <2>1. PICK nx : nx = nextIndexAfterConflict(l, r)
      OBVIOUS
    <2>2. /\ r.type = "AEReply" /\ ~r.success
          /\ matchIndex'[l][p] = matchIndex[l][p] /\ nextIndex'[l][p] = nx
      BY <1>13, <2>1 DEF MovesBack
    <2>3. r \in AppendReplies(l, p, t) /\ Narrows(l, p, t, r)
      BY <1>2, <1>6, <2>2 DEF ReplyHelps
    <2>4. NextAfter(l, p, r)
      BY <1>0, <1>2, <2>2, <2>3, RejectionNarrows
    <2>5. /\ nx < nextIndex[l][p] /\ nx \in Nat \ {0}
          /\ commitIndex[p] < nx \/ commitIndex[p] <= snap[l].index
      BY <2>1, <2>4 DEF NextAfter
    <2>6. matchIndex[l][p] = 0 /\ currentTerm[p] = t
      BY <2>3 DEF Narrows
    <2>7. ISs(p, t) = {}
      BY <1>6, <1>8, <2>3, <2>6 DEF AppendAlone, Appending
    <2>8. NextFits(l, p)'
      BY <1>3, <1>6, <1>8, <2>2, <2>5, <2>6 DEF NextFits
    <2>9. NextUnheard(l, p, t)'
      BY <1>3, <1>8, <2>6 DEF NextUnheard
    <2>10. \A a \in AEs(p, t) : a.prevIndex >= nextIndex[l][p] - 1
      BY <1>6, <2>6 DEF CommitKnown
    <2>11. CommitKnown(l, p, t)'
      <3>1. commitIndex[p] < nx \/ commitIndex[p] <= commitIndex'[l]
        BY <1>3, <1>8, <2>5
      <3>2. \A a \in AEs(p, t) : a.prevIndex >= nx - 1
        BY <1>8, <1>9, <2>5, <2>10
      <3> QED
        BY <1>3, <1>10, <2>2, <3>1, <3>2 DEF CommitKnown
    <2>12. NextBelow(l, p, t)'
      BY <1>3, <2>7 DEF NextBelow
    <2>13. NextSafe(l, p, t)'
      <3> SUFFICES ASSUME NEW s \in Index, s = snap[l].index, nx <= s PROVE Safe(p, t, s)'
        BY <1>3, <2>2 DEF NextSafe
      <3>1. commitIndex[p] <= s
        BY <1>8, <2>5
      <3>2. PICK j \in 1..lastIndex(l) :
              /\ j = nextIndex[l][p] - 1
              /\ ~(j \in 1..lastIndex(p) /\ FullLog(p)[j] = FullLog(l)[j])
        BY <2>3 DEF Narrows
      <3>3. \A a \in AEs(p, t) : ~Holds(p, a.prevIndex, a.prevTerm)
        <4> SUFFICES ASSUME NEW a \in AEs(p, t), Holds(p, a.prevIndex, a.prevTerm) PROVE FALSE
          OBVIOUS
        <4>1. PICK i \in Nat : i = a.prevIndex
          BY <1>9
        <4>2. i >= j /\ i > 0
          BY <1>8, <2>10, <3>2, <4>1
        <4>3. i \in 1..lastIndex(p) /\ FullLog(p)[i] = a.prevTerm
          BY <4>1, <4>2 DEF Holds
        <4>4. a \in Requests /\ a.term = currentTerm[l] /\ a.type = "AE"
          BY <1>1 DEF AEs, Requests
        <4>5. i \in 1..lastIndex(l) /\ FullLog(l)[i] = a.prevTerm
          BY <1>0, <1>1, <4>1, <4>2, <4>4, LeaderSends
        <4>6. j \in 1..i
          BY <3>2, <4>2, <1>8
        <4>7. j \in 1..lastIndex(p) /\ FullLog(p)[j] = FullLog(l)[j]
          BY <1>0, <4>3, <4>5, <4>6, SharedBelow
        <4> QED
          BY <3>2, <4>7
      <3>4. Safe(p, t, s)
        BY <2>6, <2>7, <3>1, <3>3 DEF Safe
      <3> QED
        BY <1>5, <3>4
    <2> QED
      BY <1>4, <2>8, <2>9, <2>11, <2>12, <2>13 DEF PairFits
  <1> QED
    BY <1>0, <1>11, <1>12, <1>13, AnsweredBooks

\* The hint of a rejection is right.
LEMMA HintsGiven ==
    ASSUME RaftInv, NEW x \in Requests, x.type = "AE", TooShort(x) \/ Mismatch(x), NEW r,
           r.conflictTerm = (IF TooShort(x) THEN 0 ELSE termAt(x.to, x.prevIndex)),
           r.conflictIndex = (IF TooShort(x) THEN lastIndex(x.to) + 1
                              ELSE firstIndexOfTerm(x.to, termAt(x.to, x.prevIndex)))
    PROVE  /\ x.prevIndex \in Nat \ {0} /\ ~Holds(x.to, x.prevIndex, x.prevTerm)
           /\ Hints(x.to, x.prevIndex, r)
  <1>0. Fits /\ TermsSound /\ x \in AppendRequest
    BY Given, FragmentShape, Zenon
  <1>1. PICK p \in Node : p = x.to
    BY <1>0 DEF AppendRequest
  <1>2. PICK j \in 0..MaxIndex : j = x.prevIndex
    BY <1>0 DEF AppendRequest, Index
  <1>3. /\ lastIndex(p) \in Nat /\ snap[p].index \in Nat /\ snap[p].index <= lastIndex(p)
        /\ DOMAIN FullLog(p) = 1..lastIndex(p) /\ FullLog(p) \in Carriers
        /\ \A i \in 1..lastIndex(p) : FullLog(p)[i] \in 1..MaxTerm
        /\ j \in Nat /\ MaxTerm \in Nat
    <2>1. snap[p].index <= commitIndex[p] /\ commitIndex[p] <= lastIndex(p) /\ commitIndex[p] \in Nat
          /\ lastIndex(p) \in Nat /\ snap[p].index \in Nat
      BY PairTypes
    <2> QED
      BY <1>2, <2>1, PairTypes, Bounds
  <1>4. snap[p].index = 0 => snap[p].term = 0
    BY <1>0, Zenon DEF Fits, NodesFit, NodeFits, SnapFits
  <1>5. j = 0 => x.prevTerm = 0
    BY <1>0, <1>2, Zenon DEF Fits, RequestsFit, RequestFits
  <1>6. \A i \in 1..lastIndex(p) : i >= snap[p].index => termAt(p, i) = FullLog(p)[i]
    BY <1>0, TermAtIs
  <1>7. CASE TooShort(x)
    <2>1. j > lastIndex(p)
      BY <1>1, <1>2, <1>7 DEF TooShort
    <2>2. r.conflictTerm = 0 /\ r.conflictIndex = lastIndex(p) + 1
      BY <1>1, <1>7
    <2>3. Hints(p, j, r)
      BY <1>3, <2>1, <2>2 DEF Hints
    <2>4. j \in Nat \ {0} /\ ~Holds(p, j, x.prevTerm)
      BY <1>3, <2>1 DEF Holds
    <2> QED
      BY <1>1, <1>2, <2>3, <2>4
  <1>8. CASE ~TooShort(x)
    <2>1. j <= lastIndex(p) /\ j >= snap[p].index /\ termAt(p, j) # x.prevTerm
      BY <1>1, <1>2, <1>3, <1>8 DEF Mismatch, TooShort
    <2>2. j # 0
      <3> SUFFICES ASSUME j = 0 PROVE FALSE
        OBVIOUS
      <3>1. snap[p].index = 0 /\ termAt(p, j) = 0
        BY <1>3, <1>4, <2>1 DEF termAt
      <3> QED
        BY <1>5, <2>1, <3>1
    <2>3. j \in 1..lastIndex(p) /\ termAt(p, j) = FullLog(p)[j]
      BY <1>3, <1>6, <2>1, <2>2
    <2>4. ~Holds(p, j, x.prevTerm)
      BY <2>1, <2>2, <2>3 DEF Holds
    <2>5. PICK c \in 1..MaxTerm : c = FullLog(p)[j]
      BY <1>3, <2>3
    <2>6. PICK S : S = IndicesOfTerm(p, c)
      OBVIOUS
    <2>7. /\ j \in S /\ S \subseteq Nat
          /\ \A i \in S : i \in 0..lastIndex(p) /\ i >= snap[p].index /\ termAt(p, i) = c
          /\ \A i \in 1..lastIndex(p) : i >= snap[p].index /\ FullLog(p)[i] = c => i \in S
      BY <1>3, <1>6, <2>1, <2>3, <2>5, <2>6 DEF IndicesOfTerm
    <2>8. Min(S) \in S /\ \A i \in S : Min(S) <= i
      BY <2>7, MinOfNaturals
    <2>9. PICK ci \in S : ci = Min(S) /\ \A i \in S : ci <= i
      BY <2>8
    <2>10. r.conflictTerm = c /\ r.conflictIndex = ci
      <3>1. r.conflictTerm = c /\ r.conflictIndex = firstIndexOfTerm(p, c)
        BY <1>1, <1>2, <1>8, <2>3, <2>5
      <3>2. firstIndexOfTerm(p, c) = Min(S)
        BY <2>6, <2>7 DEF firstIndexOfTerm
      <3> QED
        BY <2>9, <3>1, <3>2
    <2>11. ci # 0
      <3> SUFFICES ASSUME ci = 0 PROVE FALSE
        OBVIOUS
      <3>1. snap[p].index = 0 /\ termAt(p, ci) = c
        BY <1>3, <2>7, <2>9
      <3>2. termAt(p, ci) = 0
        BY <1>4, <3>1 DEF termAt
      <3> QED
        BY <1>3, <2>5, <3>1, <3>2
    <2>12. ci \in 1..lastIndex(p) /\ ci \in Nat /\ ci >= snap[p].index /\ FullLog(p)[ci] = c /\ ci <= j
      BY <1>3, <1>6, <2>7, <2>9, <2>11
    <2>13. \A a, b \in 1..lastIndex(p) : a <= b => FullLog(p)[a] <= FullLog(p)[b]
      BY <1>0, <1>3, Zenon DEF TermsSound, Ascending
    <2>14. ASSUME NEW y \in 1..lastIndex(p), ci <= y, y <= j PROVE FullLog(p)[y] = c
      <3>1. FullLog(p)[ci] <= FullLog(p)[y] /\ FullLog(p)[y] <= FullLog(p)[j]
        BY <2>3, <2>12, <2>13, <2>14
      <3>2. FullLog(p)[y] \in Nat /\ c \in Nat
        BY <1>3
      <3> QED
        BY <2>5, <2>12, <3>1, <3>2
    <2>15. ASSUME ci > snap[p].index, NEW y \in 1..lastIndex(p), y < ci PROVE FullLog(p)[y] # c
      <3> SUFFICES ASSUME FullLog(p)[y] = c PROVE FALSE
        OBVIOUS
      <3>1. CASE y >= snap[p].index
        <4>1. y \in S
          BY <2>7, <3>1
        <4> QED
          BY <2>9, <2>12, <2>15, <4>1
      <3>2. CASE y < snap[p].index
        <4>1. PICK s \in 1..lastIndex(p) : s = snap[p].index
          BY <1>3, <3>2
        <4>2. FullLog(p)[y] <= FullLog(p)[s] /\ FullLog(p)[s] <= FullLog(p)[ci]
          BY <2>12, <2>13, <2>15, <3>2, <4>1
        <4>3. FullLog(p)[s] \in Nat /\ c \in Nat
          BY <1>3
        <4>4. FullLog(p)[s] = c
          BY <2>12, <4>2, <4>3
        <4>5. s \in S
          BY <1>3, <2>7, <4>1, <4>4
        <4> QED
          BY <1>3, <2>9, <2>12, <2>15, <4>1, <4>5
      <3> QED
        BY <1>3, <3>1, <3>2
    <2>16. Hints(p, j, r)
      <3>1. r.conflictTerm # 0
        BY <1>3, <2>5, <2>10
      <3>2. r.conflictIndex <= j /\ j <= lastIndex(p)
        BY <2>1, <2>10, <2>12
      <3>3. \A y \in 1..lastIndex(p) :
               r.conflictIndex <= y /\ y <= j => FullLog(p)[y] = r.conflictTerm
        BY <2>10, <2>14
      <3>4. \/ r.conflictIndex <= snap[p].index
            \/ \A y \in 1..lastIndex(p) : y < r.conflictIndex => FullLog(p)[y] # r.conflictTerm
        <4>1. ci <= snap[p].index \/ ci > snap[p].index
          BY <1>3, <2>12
        <4> QED
          BY <2>10, <2>15, <4>1
      <3> QED
        BY <3>1, <3>2, <3>3, <3>4 DEF Hints
    <2> QED
      BY <1>1, <1>2, <2>2, <2>4, <2>16
  <1> QED
    BY <1>7, <1>8

\* As long as nothing happens to the log it stays right.
LEMMA HintsStay ==
    ASSUME Stepping, NEW p \in Node, Same(p), NEW j, NEW r, r.conflictIndex \in Nat, Hints(p, j, r)
    PROVE  Hints(p, j, r)' /\ lastIndex(p)' = lastIndex(p)
  <1>1. PairTyped(p, p) /\ PairTyped(p, p)' /\ snap[p].index <= snap'[p].index
    BY SteppingTypes, SteppingGives DEF SnapshotsGrow
  <1>2. /\ lastIndex(p) \in Nat /\ lastIndex(p)' \in Nat
        /\ DOMAIN FullLog(p) = 1..lastIndex(p) /\ DOMAIN FullLog(p)' = 1..lastIndex(p)'
        /\ snap[p].index \in Nat /\ snap'[p].index \in Nat
    BY <1>1 DEF PairTyped
  <1>3. FullLog(p)' = FullLog(p)
    BY DEF Same
  <1>4. lastIndex(p)' = lastIndex(p)
    BY <1>2, <1>3, IntervalSame
  <1> QED
    BY <1>1, <1>2, <1>3, <1>4 DEF Hints

\* A step that neither sends anything to p nor takes an answer of p.
Carrying(l, p, t) ==
    /\ Stepping /\ OneCall /\ PairFits(l, p, t) /\ Follows(l, p, t) /\ Follows(l, p, t)'
    /\ LeadsStill(l) /\ LeaderKept(l) /\ Crowned(l) /\ Crowned(l)' /\ Carried(l, p, t)

\* The numbers around it.
LEMMA CarryNumbers ==
    ASSUME NEW l \in Node, NEW p \in Node, NEW t \in 1..MaxTerm, Carrying(l, p, t)
    PROVE  /\ p # l /\ t \in Nat /\ role[l] = E!Leader /\ currentTerm[l] = t /\ currentTerm'[l] = t
           /\ currentTerm[p] \in Nat /\ currentTerm'[p] \in Nat
           /\ currentTerm[p] <= currentTerm'[p] /\ currentTerm'[p] <= t
           /\ nextIndex[l][p] \in Nat /\ matchIndex[l][p] \in Nat /\ matchIndex[l][p] \in 0..MaxIndex
           /\ nextIndex[l][p] >= 1
           /\ nextIndex'[l][p] = nextIndex[l][p] /\ matchIndex'[l][p] = matchIndex[l][p]
           /\ snap[p].index \in Nat /\ snap'[p].index \in Nat /\ snap[p].index <= snap'[p].index
           /\ commitIndex[p] \in Nat /\ commitIndex'[p] \in Nat
           /\ commitIndex[l] \in Nat /\ commitIndex'[l] \in Nat /\ commitIndex[l] <= commitIndex'[l]
           /\ snap[l].index \in Nat /\ snap'[l].index \in Nat /\ snap[l].index <= commitIndex[l]
           /\ snap'[l].index = snap[l].index \/ snap'[l].index = commitIndex'[l]
           /\ lastIndex(l) \in Nat /\ lastIndex(l)' \in Nat /\ lastIndex(l) <= lastIndex(l)'
           /\ lastIndex(p) \in Nat
           /\ DOMAIN FullLog(l) = 1..lastIndex(l) /\ DOMAIN FullLog(l)' = 1..lastIndex(l)'
           /\ \A i \in 1..lastIndex(l) : FullLog(l)'[i] = FullLog(l)[i]
  <1>0. Stepping /\ Follows(l, p, t) /\ Follows(l, p, t)' /\ LeaderKept(l) /\ LeadsStill(l) /\ Carried(l, p, t)
    BY DEF Carrying
  <1>1. /\ PairTyped(l, p) /\ PairTyped(l, p)' /\ PairTyped(l, l) /\ PairTyped(l, l)'
        /\ PairTyped(p, l) /\ PairTyped(p, l)'
    BY <1>0, SteppingTypes
  <1>2. currentTerm[p] <= currentTerm'[p] /\ snap[p].index <= snap'[p].index
    BY <1>0, SteppingGives DEF SnapshotsGrow
  <1>3. /\ p # l /\ t \in Nat /\ role[l] = E!Leader /\ currentTerm[l] = t /\ currentTerm'[l] = t
        /\ currentTerm'[p] <= t
    BY <1>0, Bounds DEF Follows
  <1>4. nextIndex'[l][p] = nextIndex[l][p] /\ matchIndex'[l][p] = matchIndex[l][p]
    BY <1>0 DEF Carried, BooksStay
  <1>5. /\ commitIndex[l] <= commitIndex'[l]
        /\ snap'[l].index = snap[l].index \/ snap'[l].index = commitIndex'[l]
        /\ lastIndex(l) <= lastIndex(l)'
        /\ \A i \in 1..lastIndex(l) : FullLog(l)'[i] = FullLog(l)[i]
    BY <1>0 DEF LeaderKept
  <1>6. nextIndex[l][p] >= 1
    <2>1. nextIndex[l][p] \in 1..MaxIndex + 1
      BY <1>1 DEF PairTyped
    <2> QED
      BY <2>1, Bounds
  <1>7. /\ currentTerm[p] \in Nat /\ currentTerm'[p] \in Nat
        /\ nextIndex[l][p] \in Nat /\ matchIndex[l][p] \in Nat /\ matchIndex[l][p] \in 0..MaxIndex
        /\ snap[p].index \in Nat /\ snap'[p].index \in Nat
        /\ commitIndex[p] \in Nat /\ commitIndex'[p] \in Nat
        /\ commitIndex[l] \in Nat /\ commitIndex'[l] \in Nat
        /\ snap[l].index \in Nat /\ snap'[l].index \in Nat /\ snap[l].index <= commitIndex[l]
        /\ lastIndex(l) \in Nat /\ lastIndex(l)' \in Nat /\ lastIndex(p) \in Nat
        /\ DOMAIN FullLog(l) = 1..lastIndex(l) /\ DOMAIN FullLog(l)' = 1..lastIndex(l)'
    BY <1>1 DEF PairTyped
  <1> QED
    BY <1>2, <1>3, <1>4, <1>5, <1>6, <1>7

\* What is under way, and what happens to p.
LEMMA CarryMessages ==
    ASSUME NEW l \in Node, NEW p \in Node, NEW t \in 1..MaxTerm, Carrying(l, p, t)
    PROVE  /\ currentTerm'[p] = t => Moves(p, t)
           /\ \A a \in AEs(p, t)' : \E x \in AEs(p, t) :
                /\ x.commit = a.commit /\ x.prevIndex = a.prevIndex /\ x.prevTerm = a.prevTerm
                /\ a.live => x.live
                /\ \A r \in a.answered : r \in x.answered \/ Gives(x, r)
           /\ \A m \in ISs(p, t)' : \E x \in ISs(p, t) : x.snap = m.snap /\ (m.live => x.live)
           /\ \A a \in AEs(p, t) : a \in Requests /\ a.commit \in Nat /\ a.prevIndex \in Nat
           /\ \A m \in ISs(p, t) : m \in Requests /\ m.snap.index \in Nat /\ m.snap.index <= snap[l].index
  <1>0. Stepping /\ Delivers(p, t) /\ Crowned(l)' /\ RaftInv
    BY SteppingGives DEF Carrying, Carried
  <1>1. p # l /\ role[l] = E!Leader /\ currentTerm[l] = t /\ currentTerm'[l] = t
    BY CarryNumbers
  <1>2. currentTerm'[p] = t => Moves(p, t)
    <2>1. PICK v : v = [node |-> l, term |-> t]
      BY Zenon
    <2>2. v \in leaders' /\ v.node # p /\ v.term = t
      BY <1>0, <1>1, <2>1 DEF Crowned
    <2> QED
      BY <1>0, <2>2, PeerMoves
  <1>3. ASSUME NEW a \in AEs(p, t)'
        PROVE  \E x \in AEs(p, t) :
                /\ x.commit = a.commit /\ x.prevIndex = a.prevIndex /\ x.prevTerm = a.prevTerm
                /\ a.live => x.live
                /\ \A r \in a.answered : r \in x.answered \/ Gives(x, r)
    <2>1. a.type = "AE"
      BY DEF AEs
    <2>2. PICK x \in AEs(p, t) : Later(x, a) /\ \A r \in a.answered : r \in x.answered \/ Gives(x, r)
      BY <1>0, DeliversOld
    <2> QED
      BY <2>1, <2>2 DEF Later, Forwarded
  <1>4. ASSUME NEW m \in ISs(p, t)'
        PROVE  \E x \in ISs(p, t) : x.snap = m.snap /\ (m.live => x.live)
    <2>1. m.type = "IS"
      BY DEF ISs
    <2>2. PICK x \in ISs(p, t) : Later(x, m)
      BY <1>0, DeliversOld
    <2> QED
      BY <2>1, <2>2 DEF Later, Forwarded
  <1>5. /\ \A a \in AEs(p, t) : a \in Requests /\ a.commit \in Nat /\ a.prevIndex \in Nat
        /\ \A m \in ISs(p, t) : m \in Requests /\ m.snap.index \in Nat
    BY <1>0, SentTypes
  <1>6. ASSUME NEW m \in ISs(p, t) PROVE m.snap.index <= snap[l].index
    <2>1. m \in Requests /\ m.type = "IS" /\ m.term = currentTerm[l]
      BY <1>1, <1>5 DEF ISs
    <2> QED
      BY <1>0, <1>1, <2>1, LeaderSends
  <1> QED
    BY <1>2, <1>3, <1>4, <1>5, <1>6

\* An answer to an AppendEntries of the leader was there before or is given now.
LEMMA CarryReplies ==
    ASSUME NEW l \in Node, NEW p \in Node, NEW t \in 1..MaxTerm, Carrying(l, p, t)
    PROVE  /\ \A r \in AppendReplies(l, p, t)' :
                r \in AppendReplies(l, p, t) \/ \E x \in LiveAEs(p, t) : Gives(x, r)
           /\ \A r \in InstallReplies(l, p, t)' :
                r \in InstallReplies(l, p, t) \/ \E x \in ISs(p, t) : x.live /\ Gives(x, r)
  <1>0. Stepping /\ Delivers(p, t) /\ OneCall /\ Fits
    BY SteppingGives DEF Carrying, Carried
  <1>1. ASSUME NEW x \in Requests, NEW r \in x.answered, r.from = p, r.forTerm = t
        PROVE  x \in AEs(p, t) /\ r.type # "ISReply"
    <2>1. x.type = "AE"
      <3> SUFFICES ASSUME x.type = "IS" PROVE FALSE
        BY DEF Requests
      <3>1. x \in SnapshotRequest
        BY <1>0, FragmentShape, Zenon
      <3> QED
        BY <1>1, <3>1 DEF SnapshotRequest
    <2>2. r.from = x.to /\ r.forTerm = x.term
      BY <1>0, <2>1, Zenon DEF Fits, RequestsFit, RequestFits
    <2>3. r.type # "ISReply"
      BY <1>0 DEF OneCall
    <2> QED
      BY <1>1, <2>1, <2>2, <2>3 DEF AEs, Requests
  <1>2. ASSUME NEW r \in msgs' \ Requests', r.from = p, r.forTerm = t, r.type \in {"AEReply", "ISReply"}
        PROVE  \/ r \in msgs \ Requests
               \/ \E x \in LiveAEs(p, t) : r.type = "AEReply" /\ (r \in x.answered \/ Gives(x, r))
               \/ \E x \in ISs(p, t) : r.type = "ISReply" /\ x.live /\ Gives(x, r)
    <2>1. ReplyStays(r)
      BY <1>0, <1>2 DEF Delivers
    <2>2. CASE r \in msgs
      BY <1>2, <2>2 DEF Requests
    <2>3. ASSUME NEW x \in Requests, x.live, r \in x.answered
          PROVE  \E y \in LiveAEs(p, t) : r.type = "AEReply" /\ r \in y.answered
      <3>1. x \in AEs(p, t) /\ r.type # "ISReply"
        BY <1>1, <1>2, <2>3
      <3> QED
        BY <1>2, <2>3, <3>1 DEF LiveAEs
    <2>4. ASSUME NEW x \in Requests, x.live, Gives(x, r)
          PROVE  \/ x \in LiveAEs(p, t) /\ r.type = "AEReply"
                 \/ x \in ISs(p, t) /\ r.type = "ISReply"
      <3>1. x \in msgs /\ x.to = p /\ x.term = t
        BY <1>2, <2>4 DEF Gives, Requests
      <3>2. /\ r.type = "AEReply" => x.type = "AE"
            /\ r.type = "ISReply" => x.type = "IS"
        BY <2>4 DEF Gives
      <3> QED
        BY <1>2, <2>4, <3>1, <3>2 DEF LiveAEs, AEs, ISs
    <2> QED
      BY <2>1, <2>2, <2>3, <2>4 DEF ReplyStays
  <1>3. ASSUME NEW r \in AppendReplies(l, p, t)'
        PROVE  r \in AppendReplies(l, p, t) \/ \E x \in LiveAEs(p, t) : Gives(x, r)
    <2>1. r.type = "AEReply" /\ r.from = p /\ r.to = l /\ r.forTerm = t
      BY DEF AppendReplies
    <2>2. \A x \in LiveAEs(p, t) : r \in x.answered => r \in AppendReplies(l, p, t)
      BY <2>1 DEF AppendReplies
    <2>3. CASE r \in msgs' \ Requests'
      <3>1. r \in msgs \ Requests => r \in AppendReplies(l, p, t)
        BY <2>1 DEF AppendReplies
      <3> QED
        BY <1>2, <2>1, <2>2, <2>3, <3>1
    <2>4. ASSUME NEW a \in LiveAEs(p, t)', r \in a.answered
          PROVE  r \in AppendReplies(l, p, t) \/ \E x \in LiveAEs(p, t) : Gives(x, r)
      <3>1. a \in AEs(p, t)' /\ a.live
        BY DEF LiveAEs
      <3>2. PICK x \in AEs(p, t) : (a.live => x.live) /\ \A q \in a.answered : q \in x.answered \/ Gives(x, q)
        BY <3>1, CarryMessages
      <3>3. x \in LiveAEs(p, t)
        BY <3>1, <3>2 DEF LiveAEs
      <3> QED
        BY <2>2, <2>4, <3>2, <3>3
    <2> QED
      BY <2>3, <2>4 DEF AppendReplies
  <1>4. ASSUME NEW r \in InstallReplies(l, p, t)'
        PROVE  r \in InstallReplies(l, p, t) \/ \E x \in ISs(p, t) : x.live /\ Gives(x, r)
    <2>1. r.type = "ISReply" /\ r.from = p /\ r.to = l /\ r.forTerm = t /\ r \in msgs' \ Requests'
      BY DEF InstallReplies
    <2> QED
      BY <1>2, <2>1 DEF InstallReplies
  <1> QED
    BY <1>3, <1>4

\* The first half of the books.
LEMMA CarryNext ==
    ASSUME NEW l \in Node, NEW p \in Node, NEW t \in 1..MaxTerm, Carrying(l, p, t)
    PROVE  /\ NextFits(l, p)' /\ NextUnheard(l, p, t)'
           /\ currentTerm'[p] < t => commitIndex'[p] < nextIndex[l][p]
  <1>0. NextFits(l, p) /\ NextUnheard(l, p, t) /\ RaftInv'
    BY SteppingGives DEF Carrying, PairFits
  <1>1. /\ nextIndex[l][p] \in Nat /\ matchIndex[l][p] \in Nat /\ nextIndex[l][p] >= 1
        /\ nextIndex'[l][p] = nextIndex[l][p] /\ matchIndex'[l][p] = matchIndex[l][p]
        /\ currentTerm[p] \in Nat /\ currentTerm'[p] \in Nat /\ t \in Nat
        /\ currentTerm[p] <= currentTerm'[p]
        /\ lastIndex(l) \in Nat /\ lastIndex(l)' \in Nat /\ lastIndex(l) <= lastIndex(l)'
        /\ DOMAIN FullLog(l)' = 1..lastIndex(l)'
        /\ \A i \in 1..lastIndex(l) : FullLog(l)'[i] = FullLog(l)[i]
    BY CarryNumbers
  <1>2. NextFits(l, p)'
    BY <1>0, <1>1 DEF NextFits
  <1>3. ASSUME currentTerm'[p] < t
        PROVE  /\ matchIndex[l][p] = 0 /\ nextIndex[l][p] <= lastIndex(l)'
               /\ FullLog(l)'[nextIndex[l][p]] = t
    <2>1. matchIndex[l][p] = 0 /\ nextIndex[l][p] <= lastIndex(l) /\ FullLog(l)[nextIndex[l][p]] = t
      BY <1>0, <1>1, <1>3 DEF NextUnheard
    <2>2. nextIndex[l][p] \in 1..lastIndex(l)
      BY <1>1, <2>1
    <2> QED
      BY <1>1, <2>1, <2>2
  <1>4. NextUnheard(l, p, t)'
    BY <1>1, <1>3 DEF NextUnheard
  <1>5. ASSUME currentTerm'[p] < t PROVE commitIndex'[p] < nextIndex[l][p]
    <2>1. PICK e : e = FullLog(l)'
      OBVIOUS
    <2>2. PICK i \in DOMAIN e : i = nextIndex[l][p]
      BY <1>1, <1>3, <1>5, <2>1
    <2>3. e \in Carriers' /\ e[i] > currentTerm'[p] /\ i \in Nat \ {0}
      BY <1>1, <1>3, <1>5, <2>1, <2>2 DEF Carriers
    <2>4. commitIndex'[p] < i
      BY <1>0, <2>3, OlderCommitNext
    <2> QED
      BY <2>2, <2>4
  <1> QED
    BY <1>2, <1>4, <1>5

\* What p commits its leader does, or it will send to p.
LEMMA CarryCommit ==
    ASSUME NEW l \in Node, NEW p \in Node, NEW t \in 1..MaxTerm, Carrying(l, p, t)
    PROVE  CommitKnown(l, p, t)'
  <1>0. CommitKnown(l, p, t)
    BY DEF Carrying, PairFits
  <1>1. /\ nextIndex[l][p] \in Nat
        /\ nextIndex'[l][p] = nextIndex[l][p] /\ matchIndex'[l][p] = matchIndex[l][p]
        /\ currentTerm'[p] \in Nat /\ t \in Nat /\ currentTerm'[p] <= t
        /\ commitIndex[p] \in Nat /\ commitIndex'[p] \in Nat /\ snap[l].index \in Nat
        /\ commitIndex[l] \in Nat /\ commitIndex'[l] \in Nat /\ commitIndex[l] <= commitIndex'[l]
        /\ snap[l].index <= commitIndex[l]
    BY CarryNumbers
  <1>2. /\ currentTerm'[p] = t => Moves(p, t)
        /\ \A a \in AEs(p, t)' : \E x \in AEs(p, t) : x.commit = a.commit /\ x.prevIndex = a.prevIndex
        /\ \A a \in AEs(p, t) : a.commit \in Nat
        /\ \A m \in ISs(p, t) : m.snap.index \in Nat /\ m.snap.index <= snap[l].index
    BY CarryMessages
  <1>3. commitIndex'[p] < nextIndex[l][p] \/ commitIndex'[p] <= commitIndex'[l]
    <2>1. CASE currentTerm'[p] < t
      BY <2>1, CarryNext
    <2>2. CASE currentTerm'[p] = t
      <3>1. CASE commitIndex'[p] <= commitIndex[p]
        BY <1>0, <1>1, <3>1 DEF CommitKnown
      <3>2. ASSUME NEW x \in AEs(p, t), commitIndex'[p] <= x.commit
            PROVE  commitIndex'[p] <= commitIndex'[l]
        BY <1>0, <1>1, <1>2, <3>2 DEF CommitKnown
      <3>3. ASSUME NEW x \in ISs(p, t), commitIndex'[p] <= x.snap.index
            PROVE  commitIndex'[p] <= commitIndex'[l]
        BY <1>1, <1>2, <3>3
      <3> QED
        BY <1>2, <2>2, <3>1, <3>2, <3>3 DEF Moves, Quiet, Takes, Installs
    <2> QED
      BY <1>1, <2>1, <2>2
  <1>4. ASSUME NEW a \in AEs(p, t)'
        PROVE  /\ a.commit <= commitIndex'[l]
               /\ matchIndex[l][p] = 0 => a.prevIndex >= nextIndex[l][p] - 1
    <2>1. PICK x \in AEs(p, t) : x.commit = a.commit /\ x.prevIndex = a.prevIndex
      BY <1>2
    <2>2. x.commit \in Nat /\ x.commit <= commitIndex[l]
          /\ (matchIndex[l][p] = 0 => x.prevIndex >= nextIndex[l][p] - 1)
      BY <1>0, <1>2 DEF CommitKnown
    <2> QED
      BY <1>1, <2>1, <2>2
  <1> QED
    BY <1>1, <1>3, <1>4 DEF CommitKnown

\* The snapshots under way, and the answers to them.
LEMMA CarryBelow ==
    ASSUME NEW l \in Node, NEW p \in Node, NEW t \in 1..MaxTerm, Carrying(l, p, t)
    PROVE  NextBelow(l, p, t)' /\ AppendAlone(l, p, t)'
  <1>0. NextBelow(l, p, t) /\ AppendAlone(l, p, t) /\ RaftInv
    BY SteppingGives DEF Carrying, PairFits
  <1>1. /\ nextIndex[l][p] \in Nat /\ matchIndex[l][p] \in Nat
        /\ nextIndex'[l][p] = nextIndex[l][p] /\ matchIndex'[l][p] = matchIndex[l][p]
        /\ snap[p].index \in Nat /\ snap'[p].index \in Nat /\ snap[p].index <= snap'[p].index
    BY CarryNumbers
  <1>2. /\ \A m \in ISs(p, t)' : \E x \in ISs(p, t) : x.snap = m.snap /\ (m.live => x.live)
        /\ \A m \in ISs(p, t) : m.snap.index \in Nat
        /\ \A a \in AEs(p, t)' : \E x \in AEs(p, t) : a.live => x.live
    BY CarryMessages
  <1>3. ASSUME NEW m \in ISs(p, t)', m.live \/ matchIndex[l][p] = 0 \/ snap'[p].index < m.snap.index
        PROVE  nextIndex[l][p] <= m.snap.index
    <2>1. PICK x \in ISs(p, t) : x.snap = m.snap /\ (m.live => x.live)
      BY <1>2
    <2>2. x.live \/ matchIndex[l][p] = 0 \/ snap[p].index < x.snap.index
      BY <1>1, <1>2, <1>3, <2>1
    <2>3. nextIndex[l][p] <= x.snap.index
      BY <1>0, <2>2 DEF NextBelow
    <2> QED
      BY <2>1, <2>3
  <1>4. ASSUME NEW r \in InstallReplies(l, p, t)'
        PROVE  nextIndex[l][p] <= r.match /\ r.match <= snap'[p].index
    <2>1. CASE r \in InstallReplies(l, p, t)
      <3>1. nextIndex[l][p] <= r.match /\ r.match <= snap[p].index
        BY <1>0, <2>1 DEF NextBelow
      <3>2. r.match \in Nat
        <4>1. r \in Reply /\ r.type = "ISReply"
          BY <1>0, <2>1, Given, InFlight DEF InstallReplies
        <4> QED
          BY <4>1, Bounds DEF Reply, Index
      <3> QED
        BY <1>1, <3>1, <3>2
    <2>2. ASSUME NEW x \in ISs(p, t), x.live, Gives(x, r)
          PROVE  nextIndex[l][p] <= r.match /\ r.match <= snap'[p].index
      <3>1. r.type = "ISReply" /\ x.to = p
        BY DEF InstallReplies, ISs
      <3>2. r.match = x.snap.index /\ x.snap.index <= snap'[p].index
        BY <2>2, <3>1 DEF Gives
      <3>3. nextIndex[l][p] <= x.snap.index
        BY <1>0, <2>2 DEF NextBelow
      <3> QED
        BY <3>2, <3>3
    <2> QED
      BY <2>1, <2>2, CarryReplies
  <1>5. NextBelow(l, p, t)'
    BY <1>1, <1>3, <1>4 DEF NextBelow
  <1>6. ASSUME Appending(l, p, t)' PROVE Appending(l, p, t)
    <2>1. CASE LiveAEs(p, t)' # {}
      <3>1. PICK a \in AEs(p, t)' : a.live
        BY <2>1 DEF LiveAEs
      <3>2. PICK x \in AEs(p, t) : x.live
        BY <1>2, <3>1
      <3> QED
        BY <3>2 DEF LiveAEs, Appending
    <2>2. CASE AppendReplies(l, p, t)' # {}
      BY <2>2, CarryReplies DEF Appending
    <2> QED
      BY <1>6, <2>1, <2>2 DEF Appending
  <1>7. AppendAlone(l, p, t)'
    <2> SUFFICES ASSUME Appending(l, p, t)', NEW m \in ISs(p, t)'
                 PROVE  m.snap.index <= snap'[p].index /\ matchIndex[l][p] > 0
      BY <1>1 DEF AppendAlone
    <2>1. PICK x \in ISs(p, t) : x.snap = m.snap
      BY <1>2
    <2>2. x.snap.index <= snap[p].index /\ matchIndex[l][p] > 0
      BY <1>0, <1>6 DEF AppendAlone
    <2> QED
      BY <1>1, <1>2, <2>1, <2>2
  <1> QED
    BY <1>5, <1>7

\* What p has acknowledged it still holds.
LEMMA CarryMatches ==
    ASSUME NEW l \in Node, NEW p \in Node, NEW t \in 1..MaxTerm, Carrying(l, p, t)
    PROVE  AppendMatches(l, p, t)'
  <1>0. /\ AppendMatches(l, p, t) /\ AppendAlone(l, p, t) /\ NextFits(l, p) /\ RaftInv /\ Step1 /\ Fits /\ TermsSound
        /\ Crowned(l) /\ AcksHold
    BY SteppingGives, Given DEF Carrying, PairFits, RaftInv, Commits
  <1>1. /\ nextIndex[l][p] \in Nat /\ matchIndex[l][p] \in Nat /\ matchIndex[l][p] \in 0..MaxIndex
        /\ nextIndex'[l][p] = nextIndex[l][p] /\ matchIndex'[l][p] = matchIndex[l][p]
        /\ p # l /\ role[l] = E!Leader /\ currentTerm[l] = t
        /\ currentTerm[p] \in Nat /\ currentTerm'[p] \in Nat /\ t \in Nat
        /\ currentTerm[p] <= currentTerm'[p] /\ currentTerm'[p] <= t
        /\ snap[p].index \in Nat /\ lastIndex(p) \in Nat /\ lastIndex(l) \in Nat
    BY CarryNumbers
  <1>2. /\ \A a \in AEs(p, t)' : \E x \in AEs(p, t) :
             x.prevIndex = a.prevIndex /\ x.prevTerm = a.prevTerm /\ (a.live => x.live)
        /\ \A a \in AEs(p, t) : a \in Requests
        /\ \A m \in ISs(p, t) : m \in Requests /\ m.snap.index \in Nat
    BY CarryMessages
  <1>3. ASSUME NEW x \in LiveAEs(p, t), matchIndex[l][p] > 0
        PROVE  Holds(p, x.prevIndex, x.prevTerm)'
    <2>1. PICK i \in 1..MaxIndex : i = matchIndex[l][p]
      BY <1>1, <1>3, Bounds
    <2>2. i \in Nat \ {0} /\ x.prevIndex = i
      BY <1>0, <1>1, <1>3, <2>1, Bounds DEF AppendMatches, NextFits
    <2>3. Acked(l, p, i)
      BY <2>1, <2>2 DEF Acked
    <2>4. currentTerm[p] >= currentTerm[l]
      BY <1>0, <2>3 DEF AcksHold
    <2>5. currentTerm[p] = t /\ currentTerm'[p] = t
      BY <1>1, <2>4
    <2>6. i \in 1..lastIndex(p) /\ FullLog(p)[i] = x.prevTerm
      BY <1>0, <1>3, <2>2 DEF AppendMatches, Holds
    <2>7. i \in 1..lastIndex(l) /\ FullLog(l)[i] = x.prevTerm
      <3>1. x \in Requests /\ x.type = "AE" /\ x.term = currentTerm[l]
        BY <1>1, <1>2 DEF LiveAEs, AEs
      <3> QED
        BY <1>0, <1>1, <2>2, <3>1, LeaderSends
    <2>8. ASSUME NEW m \in Requests, Followed(p, m), Unlike(p, m) PROVE m.snap.index <= i
      <3>1. m \in ISs(p, t) /\ m.snap.index > 0
        BY <2>5, <2>8 DEF Followed, Unlike, ISs, Requests
      <3>2. m.snap.index <= snap[p].index
        BY <1>0, <1>3, <3>1 DEF AppendAlone, Appending
      <3>3. PICK k : k = m.snap.index
        OBVIOUS
      <3>4. k \in 1..snap[p].index /\ snap[p].index <= lastIndex(p)
        BY <1>1, <1>2, <3>1, <3>2, <3>3, PairTypes, <1>0
      <3>5. k \in 1..lastIndex(p) /\ FullLog(p)[k] = AppliedTerm(k)
        BY <1>0, <1>1, <3>4, FullLogShape
      <3>6. AppliedTerm(k) = m.snap.term
        <4>1. /\ OnInterval(Fragment(m), FirstOf(m), LastOf(m))
              /\ FirstOf(m) = 1 /\ LastOf(m) = k /\ Fragment(m)[k] = m.snap.term
          BY <1>0, <2>8, <3>1, <3>3, FragmentShape, Zenon DEF Unlike
        <4>2. k \in FirstOf(m)..LastOf(m) /\ m.type = "IS"
          BY <1>1, <2>8, <3>4, <4>1 DEF Unlike
        <4>3. Fragment(m)[k] = AppliedTerm(k)
          BY <4>2 DEF Fragment
        <4> QED
          BY <4>1, <4>3
      <3>7. Past(LastPos[p], k, m.snap.term)
        BY <1>0, <3>5, <3>6, HoldsPast
      <3> QED
        BY <2>8, <3>3, <3>7 DEF Unlike
    <2>9. i \in 1..lastIndex(p)' /\ FullLog(p)'[i] = FullLog(l)[i]
      <3>1. i <= lastIndex(p) /\ i <= lastIndex(l) /\ FullLog(p)[i] = FullLog(l)[i]
        BY <1>1, <2>2, <2>6, <2>7
      <3> QED
        BY <1>0, <1>1, <2>2, <2>5, <2>8, <3>1, SharedStays
    <2> QED
      BY <2>2, <2>7, <2>9 DEF Holds
  <1>4. ASSUME NEW a \in LiveAEs(p, t)'
        PROVE  /\ a.prevIndex = nextIndex[l][p] - 1
               /\ matchIndex[l][p] > 0 => Holds(p, a.prevIndex, a.prevTerm)'
    <2>1. a \in AEs(p, t)' /\ a.live
      BY DEF LiveAEs
    <2>2. PICK x \in LiveAEs(p, t) : x.prevIndex = a.prevIndex /\ x.prevTerm = a.prevTerm
      BY <1>2, <2>1 DEF LiveAEs
    <2>3. matchIndex[l][p] > 0 => Holds(p, x.prevIndex, x.prevTerm)'
      BY <1>3
    <2>4. x.prevIndex = nextIndex[l][p] - 1
      BY <1>0 DEF AppendMatches
    <2> QED
      BY <2>2, <2>3, <2>4 DEF Holds
  <1> QED
    BY <1>1, <1>4 DEF AppendMatches

\* While a rejection is on its way nothing happens to p.
LEMMA RejectedQuiet ==
    ASSUME NEW l \in Node, NEW p \in Node, NEW t \in 1..MaxTerm, Carrying(l, p, t),
           NEW r \in AppendReplies(l, p, t), Narrows(l, p, t, r)
    PROVE  Quiet(p) /\ currentTerm'[p] = t
  <1>0. CommitKnown(l, p, t) /\ AppendAlone(l, p, t) /\ RaftInv
    BY SteppingGives DEF Carrying, PairFits
  <1>1. /\ nextIndex[l][p] \in Nat /\ matchIndex[l][p] = 0 /\ currentTerm[p] = t
        /\ p # l /\ role[l] = E!Leader /\ currentTerm[l] = t
        /\ currentTerm'[p] \in Nat /\ t \in Nat
        /\ currentTerm[p] <= currentTerm'[p] /\ currentTerm'[p] <= t
        /\ lastIndex(p) \in Nat /\ lastIndex(l) \in Nat
    BY CarryNumbers DEF Narrows
  <1>2. currentTerm'[p] = t
    BY <1>1
  <1>3. Moves(p, t) /\ \A a \in AEs(p, t) : a \in Requests /\ a.prevIndex \in Nat
    BY <1>2, CarryMessages
  <1>4. ISs(p, t) = {}
    BY <1>0, <1>1 DEF AppendAlone, Appending
  <1>5. PICK j \in 1..lastIndex(l) :
          /\ j = nextIndex[l][p] - 1
          /\ ~(j \in 1..lastIndex(p) /\ FullLog(p)[j] = FullLog(l)[j])
    BY DEF Narrows
  <1>6. ASSUME NEW a \in AEs(p, t), Holds(p, a.prevIndex, a.prevTerm) PROVE FALSE
    <2>1. PICK i \in Nat : i = a.prevIndex
      BY <1>3
    <2>2. i >= j /\ i > 0 /\ j \in 1..i
      BY <1>0, <1>1, <1>5, <2>1 DEF CommitKnown
    <2>3. i \in 1..lastIndex(p) /\ FullLog(p)[i] = a.prevTerm
      BY <1>6, <2>1, <2>2 DEF Holds
    <2>4. a \in Requests /\ a.term = currentTerm[l] /\ a.type = "AE"
      BY <1>1, <1>3 DEF AEs
    <2>5. i \in 1..lastIndex(l) /\ FullLog(l)[i] = a.prevTerm
      BY <1>0, <1>1, <2>1, <2>2, <2>4, LeaderSends
    <2>6. j \in 1..lastIndex(p) /\ FullLog(p)[j] = FullLog(l)[j]
      BY <1>0, <2>2, <2>3, <2>5, SharedBelow
    <2> QED
      BY <1>5, <2>6
  <1> QED
    BY <1>2, <1>3, <1>4, <1>6 DEF Moves, Takes, Installs

\* The answers to AppendEntries are of their type.
LEMMA ReplyTyped ==
    Fits => \A l, p, t : \A r \in AppendReplies(l, p, t) : r \in Reply /\ r.conflictIndex \in Nat
  <1> SUFFICES ASSUME Fits, NEW l, NEW p, NEW t, NEW r \in AppendReplies(l, p, t)
               PROVE  r \in Reply /\ r.conflictIndex \in Nat
    OBVIOUS
  <1>1. ASSUME NEW a \in LiveAEs(p, t), r \in a.answered PROVE r \in Reply
    <2>1. a \in Requests /\ a.type = "AE"
      BY DEF LiveAEs, AEs, Requests
    <2>2. a \in AppendRequest
      BY <2>1, FragmentShape, Zenon
    <2> QED
      BY <1>1, <2>2 DEF AppendRequest
  <1>2. r \in msgs \ Requests => r \in Reply
    BY InFlight
  <1>3. r \in Reply
    BY <1>1, <1>2 DEF AppendReplies
  <1>4. r.conflictIndex \in 0..MaxIndex + 1
    BY <1>3 DEF Reply, AppendReplies
  <1> QED
    BY <1>3, <1>4, Bounds

\* The same after a step.
LEMMA ReplyTypedNext ==
    (Fits => \A l, p, t : \A r \in AppendReplies(l, p, t) : r \in Reply /\ r.conflictIndex \in Nat)'
  BY ReplyTyped, PTL

\* Every answer still helps.
LEMMA CarryHelps ==
    ASSUME NEW l \in Node, NEW p \in Node, NEW t \in 1..MaxTerm, Carrying(l, p, t)
    PROVE  ReplyHelps(l, p, t)'
  <1>0. /\ ReplyHelps(l, p, t) /\ AppendMatches(l, p, t) /\ RaftInv /\ Stepping /\ Fits
    BY SteppingGives DEF Carrying, PairFits
  <1>1. /\ nextIndex[l][p] \in Nat /\ matchIndex[l][p] \in Nat
        /\ nextIndex'[l][p] = nextIndex[l][p] /\ matchIndex'[l][p] = matchIndex[l][p]
        /\ role[l] = E!Leader /\ currentTerm[l] = t
        /\ lastIndex(l) \in Nat /\ lastIndex(l)' \in Nat /\ lastIndex(l) <= lastIndex(l)'
        /\ \A i \in 1..lastIndex(l) : FullLog(l)'[i] = FullLog(l)[i]
    BY CarryNumbers
  <1>2. ASSUME Same(p), currentTerm'[p] = t, matchIndex[l][p] = 0, NEW r, r.conflictIndex \in Nat,
               NEW j \in 1..lastIndex(l), j = nextIndex[l][p] - 1,
               ~(j \in 1..lastIndex(p) /\ FullLog(p)[j] = FullLog(l)[j]), Hints(p, j, r)
        PROVE  Narrows(l, p, t, r)'
    <2>1. Hints(p, j, r)' /\ lastIndex(p)' = lastIndex(p)
      BY <1>0, <1>2, HintsStay
    <2>2. FullLog(p)' = FullLog(p)
      BY <1>2 DEF Same
    <2>3. j \in 1..lastIndex(l)' /\ FullLog(l)'[j] = FullLog(l)[j]
      BY <1>1
    <2>4. ~(j \in 1..lastIndex(p)' /\ FullLog(p)'[j] = FullLog(l)'[j])
      BY <1>2, <2>1, <2>2, <2>3
    <2> QED
      BY <1>1, <1>2, <2>1, <2>3, <2>4 DEF Narrows
  <1>3. ASSUME NEW r \in AppendReplies(l, p, t)'
        PROVE  IF r.success THEN r.match >= nextIndex[l][p] - 1 ELSE Narrows(l, p, t, r)'
    <2>1. r.type = "AEReply"
      BY DEF AppendReplies
    <2>2. CASE r \in AppendReplies(l, p, t)
      <3>1. CASE r.success
        BY <1>0, <2>2, <3>1 DEF ReplyHelps
      <3>2. CASE ~r.success
        <4>1. Narrows(l, p, t, r)
          BY <1>0, <2>2, <3>2 DEF ReplyHelps
        <4>2. Quiet(p) /\ currentTerm'[p] = t
          BY <2>2, <4>1, RejectedQuiet
        <4>3. PICK j \in 1..lastIndex(l) :
                /\ j = nextIndex[l][p] - 1
                /\ ~(j \in 1..lastIndex(p) /\ FullLog(p)[j] = FullLog(l)[j])
                /\ Hints(p, j, r)
          BY <4>1 DEF Narrows
        <4>4. r.conflictIndex \in Nat
          BY <1>0, <2>2, ReplyTyped
        <4>5. matchIndex[l][p] = 0
          BY <4>1 DEF Narrows
        <4> QED
          BY <1>2, <3>2, <4>2, <4>3, <4>4, <4>5 DEF Quiet
      <3> QED
        BY <3>1, <3>2
    <2>3. ASSUME NEW x \in LiveAEs(p, t), Gives(x, r)
          PROVE  IF r.success THEN r.match >= nextIndex[l][p] - 1 ELSE Narrows(l, p, t, r)'
      <3>1. x \in Requests /\ x.type = "AE" /\ x.to = p /\ x.term = t
        BY DEF LiveAEs, AEs, Requests
      <3>2. x.prevIndex = nextIndex[l][p] - 1
        BY <1>0 DEF AppendMatches
      <3>3. CASE r.success
        BY <2>1, <2>3, <3>2, <3>3 DEF Gives
      <3>4. CASE ~r.success
        <4>1. Refuses(x, r)
          BY <2>1, <2>3, <3>4 DEF Gives
        <4>2. /\ currentTerm'[p] = t /\ Same(p) /\ (TooShort(x) \/ Mismatch(x))
              /\ r.conflictTerm = (IF TooShort(x) THEN 0 ELSE termAt(x.to, x.prevIndex))
              /\ r.conflictIndex = (IF TooShort(x) THEN lastIndex(x.to) + 1
                                    ELSE firstIndexOfTerm(x.to, termAt(x.to, x.prevIndex)))
          BY <3>1, <4>1 DEF Refuses
        <4>3. /\ x.prevIndex \in Nat \ {0} /\ ~Holds(x.to, x.prevIndex, x.prevTerm)
              /\ Hints(x.to, x.prevIndex, r)
          BY <1>0, <3>1, <4>2, HintsGiven
        <4>4. PICK j \in Nat \ {0} : j = x.prevIndex /\ ~Holds(p, j, x.prevTerm) /\ Hints(p, j, r)
          BY <3>1, <4>3
        <4>5. matchIndex[l][p] = 0
          BY <1>0, <1>1, <3>1, <4>3 DEF AppendMatches
        <4>6. j \in 1..lastIndex(l) /\ FullLog(l)[j] = x.prevTerm
          BY <1>0, <1>1, <3>1, <4>4, LeaderSends
        <4>7. ~(j \in 1..lastIndex(p) /\ FullLog(p)[j] = FullLog(l)[j])
          BY <4>4, <4>6 DEF Holds
        <4>8. r.conflictIndex \in Nat
          BY <1>0, SteppingGives, ReplyTypedNext
        <4> QED
          BY <1>2, <3>2, <3>4, <4>2, <4>4, <4>5, <4>6, <4>7, <4>8
      <3> QED
        BY <3>3, <3>4
    <2> QED
      BY <2>2, <2>3, CarryReplies
  <1> QED
    BY <1>1, <1>3 DEF ReplyHelps

\* What the leader may send next stays safe.
LEMMA CarrySafe ==
    ASSUME NEW l \in Node, NEW p \in Node, NEW t \in 1..MaxTerm, Carrying(l, p, t)
    PROVE  NextSafe(l, p, t)'
  <1>0. NextSafe(l, p, t) /\ Stepping
    BY DEF Carrying, PairFits
  <1>1. /\ nextIndex[l][p] \in Nat /\ nextIndex'[l][p] = nextIndex[l][p]
        /\ t \in Nat /\ commitIndex'[p] \in Nat /\ commitIndex'[l] \in Nat
        /\ snap'[l].index \in Nat
        /\ snap'[l].index = snap[l].index \/ snap'[l].index = commitIndex'[l]
    BY CarryNumbers
  <1>2. /\ currentTerm'[p] = t => Moves(p, t)
        /\ \A a \in AEs(p, t)' : \E x \in AEs(p, t) :
             x.commit = a.commit /\ x.prevIndex = a.prevIndex /\ x.prevTerm = a.prevTerm
        /\ \A m \in ISs(p, t)' : \E x \in ISs(p, t) : x.snap = m.snap
        /\ \A a \in AEs(p, t) : a.commit \in Nat
        /\ \A m \in ISs(p, t) : m.snap.index \in Nat
    BY CarryMessages
  <1>3. /\ commitIndex'[p] < nextIndex[l][p] \/ commitIndex'[p] <= commitIndex'[l]
        /\ \A a \in AEs(p, t)' : a.commit <= commitIndex'[l]
    BY <1>1, CarryCommit DEF CommitKnown
  <1>4. currentTerm'[p] < t => commitIndex'[p] < nextIndex[l][p]
    BY CarryNext
  <1> SUFFICES ASSUME NEW s \in Index, s = snap'[l].index, nextIndex[l][p] <= s PROVE Safe(p, t, s)'
    BY <1>1 DEF NextSafe
  <1>5. s \in Nat
    BY <1>1
  <1>6. CASE s = snap[l].index
    <2>1. Safe(p, t, s)
      BY <1>0, <1>6 DEF NextSafe
    <2>2. currentTerm'[p] < t => commitIndex'[p] <= s
      BY <1>1, <1>4, <1>5
    <2>3. \A m \in ISs(p, t)' : m.snap.index >= s \/ \E x \in ISs(p, t) : x.snap = m.snap
      BY <1>2
    <2> QED
      BY <1>0, <1>1, <1>2, <1>5, <2>1, <2>2, <2>3, SafeStays
  <1>7. CASE s = commitIndex'[l]
    <2>1. commitIndex'[p] <= s
      BY <1>1, <1>3, <1>5, <1>7
    <2> QED
      BY <1>3, <1>7, <2>1 DEF Safe
  <1> QED
    BY <1>1, <1>6, <1>7

\* All of the books.
LEMMA CarriedPair ==
    ASSUME NEW l \in Node, NEW p \in Node, NEW t \in 1..MaxTerm, Carrying(l, p, t)
    PROVE  PairFits(l, p, t)'
  <1>1. NextFits(l, p)' /\ NextUnheard(l, p, t)'
    BY CarryNext
  <1>2. CommitKnown(l, p, t)'
    BY CarryCommit
  <1>3. NextBelow(l, p, t)' /\ AppendAlone(l, p, t)'
    BY CarryBelow
  <1>4. AppendMatches(l, p, t)'
    BY CarryMatches
  <1>5. ReplyHelps(l, p, t)'
    BY CarryHelps
  <1>6. NextSafe(l, p, t)'
    BY CarrySafe
  <1> QED
    BY <1>1, <1>2, <1>3, <1>4, <1>5, <1>6 DEF PairFits

\* The books of all leaders.
LEMMA PairsFitNext ==
    ASSUME Stepping, BooksInv
    PROVE  PairsFit'
  <1> SUFFICES ASSUME NEW l \in Node, NEW p \in Node, NEW t \in 1..MaxTerm, Follows(l, p, t)'
               PROVE  PairFits(l, p, t)'
    BY DEF PairsFit
  <1>0. Retired /\ OneCall /\ PairsFit
    BY DEF BooksInv
  <1>1. \/ Wins(l, t) /\ Grew(l) /\ ~Won(t)
        \/ /\ Follows(l, p, t) /\ LeadsStill(l) /\ LeaderKept(l) /\ Crowned(l) /\ Crowned(l)'
           /\ \/ Sends(l, p)
              \/ \E r \in msgs : TakesAnswer(r) /\ r.to = l /\ r.from = p
              \/ Carried(l, p, t)
    BY <1>0, Situations
  <1>2. CASE Wins(l, t) /\ Grew(l) /\ ~Won(t)
    BY <1>2, FreshPair
  <1>3. CASE Follows(l, p, t)
    <2>1. PairFits(l, p, t)
      BY <1>0, <1>3 DEF PairsFit
    <2>2. CASE Sends(l, p)
      BY <1>0, <1>3, <2>1, <2>2, AppendSentPair, SnapshotSentPair DEF Sends
    <2>3. ASSUME NEW r \in msgs, TakesAnswer(r), r.to = l, r.from = p PROVE PairFits(l, p, t)'
      BY <1>0, <1>3, <2>1, <2>3, AnsweredPair
    <2>4. CASE LeadsStill(l) /\ LeaderKept(l) /\ Crowned(l) /\ Crowned(l)' /\ Carried(l, p, t)
      <3>1. Carrying(l, p, t)
        BY <1>0, <1>3, <2>1, <2>4 DEF Carrying
      <3> QED
        BY <3>1, CarriedPair
    <2>5. CASE Wins(l, t) /\ Grew(l) /\ ~Won(t)
      BY <1>2, <2>5
    <2> QED
      BY <1>1, <2>2, <2>3, <2>4, <2>5
  <1> QED
    BY <1>1, <1>2, <1>3

\* Every answer is to a call that waits.
LEMMA RepliesLive ==
    ASSUME RaftInv, [Next]_vars, OneCall
    PROVE  \A r \in Replies' : r.live
  <1>0. Fits
    BY Given
  <1>1. \A m \in msgs' : MessageStays(m) \/ (m.type \in {"AE", "IS"} /\ m.answered = {})
    <2>1. CASE \A n, q \in Node : ~Sends(n, q)
      BY <2>1, StepStays
    <2>2. ASSUME NEW n \in Node, NEW q \in Node, Sends(n, q)
          PROVE  \A m \in msgs' : MessageStays(m) \/ (m.type \in {"AE", "IS"} /\ m.answered = {})
      <3>1. PICK req : Send(n, q, req) /\ req.type \in {"AE", "IS"} /\ req.answered = {}
        BY <2>2, SendIs
      <3> QED
        BY <1>0, <3>1, SendStays
    <2> QED
      BY <2>1, <2>2
  <1>2. ASSUME NEW x \in Requests, NEW r \in x.answered PROVE r.live
    BY DEF OneCall, Replies
  <1>3. ASSUME NEW r \in msgs' \ Requests' PROVE r.live
    <2>1. r.type \notin {"AE", "IS"} /\ r \in msgs'
      BY DEF Requests
    <2>2. ReplyStays(r)
      BY <1>1, <2>1 DEF MessageStays
    <2>3. r \in msgs => r.live
      BY <2>1 DEF OneCall, Replies, Requests
    <2> QED
      BY <1>2, <2>2, <2>3 DEF ReplyStays, Gives
  <1>4. ASSUME NEW m \in Requests', NEW r \in m.answered PROVE r.live
    <2>1. m \in msgs' /\ m.type \in {"AE", "IS"} /\ m.answered # {}
      BY DEF Requests
    <2>2. RequestStays(m)
      BY <1>1, <2>1 DEF MessageStays
    <2> QED
      BY <1>2, <2>2 DEF RequestStays, Gives
  <1> QED
    BY <1>3, <1>4 DEF Replies

\* A request holds one answer at most, to an AppendEntries.
AnsweredOnce(m) == \A x, y \in m.answered : x = y /\ x.type # "ISReply"

\* What a handler adds to the messages.
Adds(m, N) ==
    /\ m \in msgs /\ msgs' \subseteq (msgs \ {m}) \cup N
    /\ \A x, y \in N : x = y
    /\ \A x \in N : /\ x.type \in {"AE", "IS"} => AnsweredOnce(x)
                    /\ \A l, p \in Node : x \in CallUnderWay(l, p)' => m \in CallUnderWay(l, p)

\* Answer puts at most one message in the place of the request.
LEMMA AnswerAdds ==
    ASSUME Fits, OneCall, NEW m \in Requests, NEW reply \in Reply, Answer(m, reply), Gives(m, reply)
    PROVE  \E N : Adds(m, N)
  <1>1. RequestFits(m) /\ m \in AppendRequest \cup SnapshotRequest /\ m \in msgs
    BY DEF Fits, RequestsFit, RequestFits, Requests
  <1>2. m.call = "replicate" /\ m.type \in {"AE", "IS"}
    BY <1>1 DEF AppendRequest, SnapshotRequest
  <1>3. PICK first : first = IF m.answered = {} THEN {reply} ELSE m.answered
    BY Zenon
  <1>4. ASSUME NEW x \in first
        PROVE  x.from = m.to /\ x.to = m.from /\ x.type \notin {"AE", "IS"}
    <2>1. CASE x = reply
      BY <2>1 DEF Gives
    <2>2. CASE x \in m.answered
      <3>1. m \in AppendRequest /\ m.type = "AE"
        BY <1>1, <2>2 DEF AppendRequest, SnapshotRequest
      <3>2. x \in Reply
        BY <2>2, <3>1 DEF AppendRequest
      <3>3. x.from = m.to /\ x.to = m.from
        BY <1>1, <2>2, <3>1 DEF RequestFits
      <3> QED
        BY <3>2, <3>3, MessageTypes
    <2> QED
      BY <1>3, <1>4, <2>1, <2>2
  <1>5. \A x, y \in first : x = y
    BY <1>3 DEF OneCall
  <1>6. CASE msgs' = (msgs \ {m}) \cup (IF m.live THEN first ELSE {})
    <2>1. PICK N : N = IF m.live THEN first ELSE {}
      BY Zenon
    <2>2. ASSUME NEW x \in N, NEW l \in Node, NEW p \in Node, x \in CallUnderWay(l, p)'
          PROVE  m \in CallUnderWay(l, p)
      <3>1. x \in first /\ m.live
        BY <2>1, <2>2
      <3>2. x.from = p /\ x.to = l
        BY <1>4, <2>2, <3>1 DEF CallUnderWay
      <3> QED
        BY <1>1, <1>2, <1>4, <3>1, <3>2 DEF CallUnderWay
    <2>3. \A x \in N : x \in first
      BY <2>1
    <2>4. Adds(m, N)
      BY <1>1, <1>4, <1>5, <1>6, <2>1, <2>2, <2>3 DEF Adds
    <2> QED
      BY <2>4
  <1>7. CASE m.type = "AE" /\ msgs' = (msgs \ {m}) \cup {[m EXCEPT !.answered = {reply}]}
    <2>0. PICK x : x = [m EXCEPT !.answered = {reply}]
      BY Zenon
    <2>1. m \in AppendRequest
      BY <1>1, <1>7 DEF SnapshotRequest
    <2>2. /\ x.type = m.type /\ x.from = m.from /\ x.to = m.to /\ x.answered = {reply}
          /\ x.live = m.live /\ x.call = m.call
      BY <2>0, <2>1 DEF AppendRequest
    <2>3. reply.type # "ISReply"
      BY <1>7 DEF Gives
    <2>4. AnsweredOnce(x)
      BY <2>2, <2>3 DEF AnsweredOnce
    <2>5. \A l, p \in Node : x \in CallUnderWay(l, p)' => m \in CallUnderWay(l, p)
      BY <1>1, <1>2, <1>7, <2>2 DEF CallUnderWay
    <2>6. PICK N : N = {x}
      BY Zenon
    <2>7. Adds(m, N)
      BY <1>1, <1>7, <2>0, <2>4, <2>5, <2>6, Zenon DEF Adds
    <2> QED
      BY <2>7
  <1> QED
    BY <1>3, <1>6, <1>7 DEF Answer

\* A replication loop goes on having one call under way.
LEMMA OneCallNext ==
    ASSUME RaftInv, [Next]_vars, OneCall
    PROVE  OneCall'
  <1>0. Fits
    BY Given
  <1>1. /\ \A l, p \in Node : l # p => \A x, y \in CallUnderWay(l, p) : x = y
        /\ \A m \in Requests : AnsweredOnce(m)
    BY DEF OneCall, AnsweredOnce
  <1>2. ASSUME \A m \in Requests' : (\E z \in Requests : m.answered = z.answered) \/ AnsweredOnce(m),
               \A l, p \in Node : l # p => \A x, y \in CallUnderWay(l, p)' : x = y
        PROVE  OneCall'
    <2>1. \A m \in Requests' : AnsweredOnce(m)
      BY <1>1, <1>2 DEF AnsweredOnce
    <2> QED
      BY <1>2, <2>1, RepliesLive DEF OneCall, AnsweredOnce
  <1>3. CASE msgs' \subseteq msgs
    <2>1. \A m \in Requests' : AnsweredOnce(m)
      BY <1>1, <1>3 DEF Requests
    <2>2. \A l, p \in Node : CallUnderWay(l, p)' \subseteq CallUnderWay(l, p)
      BY <1>3 DEF CallUnderWay
    <2> QED
      BY <1>1, <1>2, <2>1, <2>2
  <1>4. ASSUME NEW k \in Node, NEW S \in SUBSET msgs, msgs' = Orphaned(S, k) PROVE OneCall'
    <2>1. ASSUME NEW m \in msgs'
          PROVE  m \in msgs \/ (~m.live /\ \E z \in Requests : m.answered = z.answered)
      <3>1. PICK x \in S : m = IF x.type \in {"AE", "IS"} /\ x.from = k
                               THEN [x EXCEPT !.live = FALSE] ELSE x
        BY <1>4 DEF Orphaned
      <3>2. CASE x.type \in {"AE", "IS"} /\ x.from = k
        <4>1. x \in Requests /\ m = [x EXCEPT !.live = FALSE]
          BY <3>1, <3>2 DEF Requests
        <4> QED
          BY <1>0, <4>1, AbandonedStays
      <3> QED
        BY <3>1, <3>2
    <2>2. \A m \in Requests' : (\E z \in Requests : m.answered = z.answered) \/ AnsweredOnce(m)
      BY <1>1, <2>1 DEF Requests
    <2>3. \A l, p \in Node : CallUnderWay(l, p)' \subseteq CallUnderWay(l, p)
      BY <2>1 DEF CallUnderWay
    <2> QED
      BY <1>1, <1>2, <2>2, <2>3
  <1>5. ASSUME NEW m \in Requests, NEW r \in Reply, Answer(m, r), Gives(m, r) PROVE OneCall'
    <2>1. PICK N : Adds(m, N)
      BY <1>0, <1>5, AnswerAdds
    <2>2. \A x \in Requests' : AnsweredOnce(x)
      BY <1>1, <2>1 DEF Adds, Requests
    <2>3. ASSUME NEW l \in Node, NEW p \in Node, l # p,
                 NEW x \in CallUnderWay(l, p)', NEW y \in CallUnderWay(l, p)'
          PROVE  x = y
      <3>1. /\ x \in N => m \in CallUnderWay(l, p)
            /\ y \in N => m \in CallUnderWay(l, p)
        BY <2>1 DEF Adds
      <3>2. /\ x \notin N => x \in CallUnderWay(l, p) /\ x # m
            /\ y \notin N => y \in CallUnderWay(l, p) /\ y # m
        BY <2>1 DEF Adds, CallUnderWay
      <3> QED
        BY <1>1, <2>1, <2>3, <3>1, <3>2 DEF Adds
    <2> QED
      BY <1>2, <2>2, <2>3
  <1>6. ASSUME NEW n \in Node, NEW q \in Node, Sends(n, q) PROVE OneCall'
    <2>1. PICK req : /\ Send(n, q, req) /\ req.type \in {"AE", "IS"} /\ req.answered = {}
                     /\ req.from = n /\ req.to = q
      BY <1>6, SendIs
    <2>2. /\ \A m \in msgs' : m = req \/ m \in (msgs \ CallUnderWay(n, q)) \cup Abandon(CallUnderWay(n, q))
          /\ \A m \in Abandon(CallUnderWay(n, q)) :
               /\ m.type \in {"AE", "IS"} /\ ~m.live
               /\ \E x \in CallUnderWay(n, q) : m.answered = x.answered /\ x \in Requests
      BY <1>0, <2>1, SendStays
    <2>3. \A m \in Requests' : (\E z \in Requests : m.answered = z.answered) \/ AnsweredOnce(m)
      BY <1>1, <2>1, <2>2 DEF Requests, AnsweredOnce
    <2>4. ASSUME NEW l \in Node, NEW p \in Node, l # p,
                 NEW x \in CallUnderWay(l, p)', NEW y \in CallUnderWay(l, p)'
          PROVE  x = y
      <3>1. ASSUME NEW z \in CallUnderWay(l, p)'
            PROVE  IF l = n /\ p = q THEN z = req ELSE z \in CallUnderWay(l, p)
        <4>1. z \in msgs' /\ z.live /\ z.call = "replicate"
              /\ \/ z.type \in {"AE", "IS"} /\ z.from = l /\ z.to = p
                 \/ z.type \in {"AEReply", "ISReply", "TermReply"} /\ z.from = p /\ z.to = l
          BY DEF CallUnderWay
        <4>2. CASE z = req
          BY <2>1, <4>1, <4>2
        <4>3. CASE z \in msgs \ CallUnderWay(n, q)
          BY <4>1, <4>3 DEF CallUnderWay
        <4> QED
          BY <2>2, <4>1, <4>2, <4>3
      <3> QED
        BY <1>1, <2>4, <3>1
    <2> QED
      BY <1>2, <2>3, <2>4
  <1> QED
    BY <1>3, <1>4, <1>5, <1>6, MessageKinds

\* A snapshot in flight.
LEMMA SnapshotSent ==
    Fits => \A m \in Requests : m.type = "IS" =>
        /\ m.to \in Node /\ m.from \in Node /\ m.from # m.to /\ m.term \in 1..MaxTerm
        /\ [node |-> m.from, term |-> m.term] \in leaders
        /\ m.snap.index \in Nat /\ (m.snap.index = 0 <=> m.snap.term = 0)
        /\ m.snap.index > 0 => \E e \in Carriers : m.snap.index \in DOMAIN e /\ e[m.snap.index] = m.snap.term
  <1> SUFFICES ASSUME Fits, NEW m \in Requests, m.type = "IS"
               PROVE  /\ m.to \in Node /\ m.from \in Node /\ m.from # m.to /\ m.term \in 1..MaxTerm
                      /\ [node |-> m.from, term |-> m.term] \in leaders
                      /\ m.snap.index \in Nat /\ (m.snap.index = 0 <=> m.snap.term = 0)
                      /\ m.snap.index > 0 =>
                           \E e \in Carriers : m.snap.index \in DOMAIN e /\ e[m.snap.index] = m.snap.term
    OBVIOUS
  <1>1. /\ m.to \in Node /\ m.from \in Node /\ m.from # m.to /\ m.term \in 1..MaxTerm
        /\ [node |-> m.from, term |-> m.term] \in leaders /\ m \in SnapshotRequest
        /\ FirstOf(m) = 1 /\ LastOf(m) = m.snap.index
        /\ m.snap.index > 0 => Fragment(m)[m.snap.index] = m.snap.term
        /\ OnInterval(Fragment(m), FirstOf(m), LastOf(m))
    BY FragmentShape
  <1>2. m.snap.index \in Nat
    BY <1>1, Bounds DEF SnapshotRequest, Snap, Index
  <1>3. m.snap.index = 0 <=> m.snap.term = 0
    BY Zenon DEF Fits, RequestsFit, RequestFits, SnapFits
  <1>4. Fragment(m) \in Carriers
    BY DEF Carriers
  <1>5. m.snap.index > 0 => m.snap.index \in DOMAIN Fragment(m)
    BY <1>1, <1>2 DEF OnInterval
  <1> QED
    BY <1>1, <1>2, <1>3, <1>4, <1>5

\* The same after a step.
LEMMA SnapshotSentNext ==
    (Fits => \A m \in Requests : m.type = "IS" =>
        /\ m.to \in Node /\ m.from \in Node /\ m.from # m.to /\ m.term \in 1..MaxTerm
        /\ [node |-> m.from, term |-> m.term] \in leaders
        /\ m.snap.index \in Nat /\ (m.snap.index = 0 <=> m.snap.term = 0)
        /\ m.snap.index > 0 => \E e \in Carriers : m.snap.index \in DOMAIN e /\ e[m.snap.index] = m.snap.term)'
  BY SnapshotSent, PTL

\* A snapshot that was safe before the step is safe after it, when no other
\* AppendEntries and no older snapshot is sent to the same node.
LEMMA OldSnapshotSafe ==
    ASSUME Stepping, NEW p \in Node, NEW t \in 1..MaxTerm, NEW m \in ISs(p, t)', NEW x \in ISs(p, t),
           x.snap = m.snap, SnapshotSafe(x),
           \A a \in AEs(p, t)' : \E b \in AEs(p, t) :
               b.commit = a.commit /\ b.prevIndex = a.prevIndex /\ b.prevTerm = a.prevTerm,
           \A a \in ISs(p, t)' : a.snap.index >= x.snap.index \/ \E b \in ISs(p, t) : b.snap = a.snap
    PROVE  SnapshotSafe(m)'
  <1>0. RaftInv /\ RaftInv' /\ Fits' /\ currentTerm[p] <= currentTerm'[p]
    BY SteppingGives
  <1>1. PairTyped(p, p) /\ PairTyped(p, p)'
    BY SteppingTypes
  <1>2. currentTerm[p] \in Nat /\ currentTerm'[p] \in Nat /\ commitIndex'[p] \in Nat /\ t \in Nat
    BY <1>1, Bounds DEF PairTyped
  <1>3. m \in Requests' /\ m.type = "IS" /\ m.to = p /\ m.term = t /\ x.to = p /\ x.term = t
    BY DEF ISs, Requests
  <1>4. PICK s \in Nat : s = m.snap.index /\ s = x.snap.index
    BY <1>0, SentTypes
  <1>5. /\ m.from \in Node /\ m.from # p
        /\ [node |-> m.from, term |-> t] \in leaders'
        /\ (s = 0 <=> m.snap.term = 0)
        /\ s > 0 => \E e \in Carriers' : s \in DOMAIN e /\ e[s] = m.snap.term
    BY <1>0, <1>3, <1>4, SnapshotSentNext
  <1>6. Safe(p, t, s) /\ (currentTerm[p] < t => m.snap.term = t)
    BY <1>3, <1>4 DEF SnapshotSafe
  <1>7. currentTerm'[p] < t => m.snap.term = t
    BY <1>0, <1>2, <1>6
  <1>8. ASSUME currentTerm'[p] < t PROVE commitIndex'[p] <= s
    <2>1. m.snap.term = t /\ s > 0
      BY <1>2, <1>4, <1>5, <1>7, <1>8
    <2>2. PICK e \in Carriers' : s \in DOMAIN e /\ e[s] = t
      BY <1>5, <2>1
    <2>3. e[s] > currentTerm'[p]
      BY <1>2, <1>8, <2>2
    <2>4. commitIndex'[p] < s
      BY <1>0, <1>4, <2>1, <2>2, <2>3, OlderCommitNext
    <2> QED
      BY <1>2, <1>4, <2>4
  <1>9. currentTerm'[p] = t => Moves(p, t)
    <2>1. PICK v : v = [node |-> m.from, term |-> t]
      BY Zenon
    <2>2. v \in leaders' /\ v.node # p /\ v.term = t
      BY <1>5, <2>1
    <2> QED
      BY <2>2, PeerMoves
  <1>10. /\ \A b \in AEs(p, t) : b.commit \in Nat
         /\ \A b \in ISs(p, t) : b.snap.index \in Nat
    BY <1>0, SentTypes
  <1>11. \A a \in ISs(p, t)' : a.snap.index >= s \/ \E b \in ISs(p, t) : b.snap = a.snap
    BY <1>4
  <1>12. Safe(p, t, s)'
    BY <1>2, <1>6, <1>8, <1>9, <1>10, <1>11, SafeStays
  <1> QED
    BY <1>3, <1>4, <1>7, <1>12 DEF SnapshotSafe

\* sendAppendEntries leaves what it has sent before safe.
LEMMA AppendSentSafe ==
    ASSUME Stepping, BooksInv, NEW l \in Node, NEW p \in Node, NEW t \in 1..MaxTerm, Follows(l, p, t),
           SendAppendEntries(l, p), NEW m \in ISs(p, t)'
    PROVE  SnapshotSafe(m)'
  <1>0. RaftInv /\ OneCall /\ SnapshotsSafe /\ PairFits(l, p, t)
    BY SteppingGives DEF BooksInv, PairsFit
  <1>1. Sends(l, p) /\ role[l] = E!Leader /\ currentTerm[l] = t
    BY DEF Sends, Follows
  <1>2. UNCHANGED <<currentTerm, snap>>
    BY <1>1, SendingKeeps
  <1>3. PICK req : req = [type |-> "AE", call |-> "replicate", from |-> l, to |-> p,
                   term |-> currentTerm[l], prevIndex |-> nextIndex[l][p] - 1,
                   prevTerm |-> termAt(l, nextIndex[l][p] - 1), ents |-> sliceFrom(l, nextIndex[l][p]),
                   commit |-> commitIndex[l], live |-> TRUE, answered |-> {}]
    BY Zenon
  <1>4. Send(l, p, req) /\ nextIndex[l][p] > snap[l].index
    BY <1>3 DEF SendAppendEntries
  <1>5. req.type = "AE" /\ req.answered = {}
    BY <1>3
  <1>6. m # req /\ m.type = "IS" /\ m.to = p /\ m.term = t
    BY <1>5 DEF ISs
  <1>7. PICK x \in ISs(p, t) : Later(x, m)
    BY <1>0, <1>4, <1>5, <1>6, SentAlone
  <1>8. x \in Requests /\ x.type = "IS" /\ x.to = p /\ x.term = t /\ x.snap = m.snap
    BY <1>6, <1>7 DEF ISs, Requests, Later, Forwarded
  <1>9. SnapshotSafe(x) /\ x.snap.index <= snap[l].index /\ x.snap.index \in Nat
    BY <1>0, <1>1, <1>8, LeaderSends DEF SnapshotsSafe
  <1>10. PairTyped(l, p) /\ PairTyped(l, l)
    BY SteppingTypes
  <1>11. nextIndex[l][p] \in Nat /\ snap[l].index \in Nat /\ snap[p].index \in Nat
    BY <1>10 DEF PairTyped
  <1>12. ~(nextIndex[l][p] <= x.snap.index)
    BY <1>4, <1>9, <1>11
  <1>13. ~(snap[p].index < x.snap.index)
    BY <1>0, <1>7, <1>12 DEF PairFits, NextBelow
  <1>14. snap'[p].index >= m.snap.index
    BY <1>2, <1>8, <1>9, <1>11, <1>13
  <1>15. currentTerm'[p] < t => m.snap.term = t
    BY <1>2, <1>8, <1>9 DEF SnapshotSafe
  <1> QED
    BY <1>6, <1>14, <1>15 DEF SnapshotSafe, Safe

\* What sendSnapshot sends is safe, and what was sent before stays so.
LEMMA SnapshotSentSafe ==
    ASSUME Stepping, BooksInv, NEW l \in Node, NEW p \in Node, NEW t \in 1..MaxTerm, Follows(l, p, t),
           SendSnapshot(l, p), NEW m \in ISs(p, t)'
    PROVE  SnapshotSafe(m)'
  <1>0. RaftInv /\ Fits /\ TermsSound /\ OneCall /\ SnapshotsSafe /\ PairFits(l, p, t)
    BY SteppingGives, Given DEF BooksInv, PairsFit
  <1>1. Sends(l, p) /\ role[l] = E!Leader /\ currentTerm[l] = t /\ currentTerm[p] <= t
    BY DEF Sends, Follows
  <1>2. UNCHANGED <<currentTerm, log, snap, commitIndex>>
    BY <1>1, SendingKeeps
  <1>3. PICK req : req = [type |-> "IS", call |-> "replicate", from |-> l, to |-> p,
                   term |-> currentTerm[l], snap |-> snap[l], live |-> TRUE, answered |-> {}]
    BY Zenon
  <1>4. Send(l, p, req) /\ ~(nextIndex[l][p] > snap[l].index /\ HasIndex(l, nextIndex[l][p] - 1))
    BY <1>3 DEF SendSnapshot
  <1>5. req.type = "IS" /\ req.answered = {} /\ req.snap = snap[l]
    BY <1>3
  <1>6. /\ \A a \in AEs(p, t)' : a = req \/ \E x \in AEs(p, t) : Later(x, a)
        /\ \A a \in ISs(p, t)' : a = req \/ \E x \in ISs(p, t) : Later(x, a)
    BY <1>0, <1>4, <1>5, SentAlone
  <1>7. \A a \in AEs(p, t)' : \E b \in AEs(p, t) :
            b.commit = a.commit /\ b.prevIndex = a.prevIndex /\ b.prevTerm = a.prevTerm
    <2> SUFFICES ASSUME NEW a \in AEs(p, t)'
                 PROVE  \E b \in AEs(p, t) :
                          b.commit = a.commit /\ b.prevIndex = a.prevIndex /\ b.prevTerm = a.prevTerm
      OBVIOUS
    <2>1. a.type = "AE" /\ a # req
      BY <1>5 DEF AEs
    <2> QED
      BY <1>6, <2>1 DEF Later, Forwarded
  <1>8. \A a \in ISs(p, t)' : a.snap = snap[l] \/ \E b \in ISs(p, t) : b.snap = a.snap
    <2> SUFFICES ASSUME NEW a \in ISs(p, t)', a # req PROVE \E b \in ISs(p, t) : b.snap = a.snap
      BY <1>5
    <2>1. a.type = "IS"
      BY DEF ISs
    <2> QED
      BY <1>6, <2>1 DEF Later, Forwarded
  <1>9. PairTyped(l, p) /\ PairTyped(l, l)
    BY SteppingTypes
  <1>10. /\ nextIndex[l][p] \in Nat /\ nextIndex[l][p] \in 1..MaxIndex + 1 /\ snap[l].index \in Nat
         /\ commitIndex[p] \in Nat /\ currentTerm[p] \in Nat /\ t \in Nat
         /\ lastIndex(l) \in Nat /\ DOMAIN FullLog(l) = 1..lastIndex(l) /\ FullLog(l) \in Carriers
         /\ snap[l].index <= commitIndex[l] /\ commitIndex[l] <= lastIndex(l) /\ commitIndex[l] \in Nat
         /\ \A i \in 1..lastIndex(l) : FullLog(l)[i] \in 1..MaxTerm
    BY <1>9, Bounds DEF PairTyped
  <1>11. nextIndex[l][p] <= lastIndex(l) + 1 /\ nextIndex[l][p] >= 1
    BY <1>0, <1>10, Bounds DEF PairFits, NextFits
  <1>12. nextIndex[l][p] <= snap[l].index
    BY <1>4, <1>10, <1>11 DEF HasIndex
  <1>13. m \in Requests' /\ m.type = "IS" /\ m.to = p /\ m.term = t
    BY DEF ISs, Requests
  <1>14. CASE m # req
    <2>1. PICK x \in ISs(p, t) : Later(x, m)
      BY <1>6, <1>14
    <2>2. x \in Requests /\ x.type = "IS" /\ x.to = p /\ x.term = t /\ x.snap = m.snap
      BY <1>13, <2>1 DEF ISs, Requests, Later, Forwarded
    <2>3. SnapshotSafe(x) /\ x.snap.index <= snap[l].index
      BY <1>0, <1>1, <2>2, LeaderSends DEF SnapshotsSafe
    <2>4. \A a \in ISs(p, t)' : a.snap.index >= x.snap.index \/ \E b \in ISs(p, t) : b.snap = a.snap
      BY <1>8, <2>3
    <2> QED
      BY <1>7, <2>2, <2>3, <2>4, OldSnapshotSafe
  <1>15. CASE m = req
    <2>1. PICK s \in Index : s = snap[l].index
      BY <1>0, SnapshotIs, Bounds DEF Snap
    <2>2. Safe(p, t, s) /\ s \in Nat /\ nextIndex[l][p] <= s
      BY <1>0, <1>10, <1>12, <2>1 DEF PairFits, NextSafe
    <2>3. PICK i \in 1..lastIndex(l) : i = nextIndex[l][p]
      BY <1>10, <1>11, <1>12
    <2>4. currentTerm[p] < t => FullLog(l)[i] = t
      BY <1>0, <2>3 DEF PairFits, NextUnheard
    <2>5. ASSUME currentTerm[p] < t PROVE commitIndex[p] <= s
      <3>1. commitIndex[p] < i
        BY <1>0, <1>10, <2>4, <2>5, OlderCommit
      <3> QED
        BY <1>10, <2>2, <2>3, <3>1
    <2>6. currentTerm'[p] = t => Moves(p, t)
      BY <1>2, Untouched DEF Moves
    <2>7. \A a \in ISs(p, t)' : a.snap.index >= s \/ \E b \in ISs(p, t) : b.snap = a.snap
      BY <1>8, <2>1, <2>2
    <2>8. /\ \A b \in AEs(p, t) : b.commit \in Nat
          /\ \A b \in ISs(p, t) : b.snap.index \in Nat
      BY <1>0, SentTypes
    <2>9. Safe(p, t, s)'
      BY <1>2, <1>7, <1>10, <2>2, <2>5, <2>6, <2>7, <2>8, SafeStays, Zenon
    <2>10. ASSUME currentTerm[p] < t PROVE m.snap.term = t
      <3>1. PICK k \in 1..lastIndex(l) : k = snap[l].index
        BY <1>10, <1>11, <1>12
      <3>2. FullLog(l)[i] <= FullLog(l)[k]
        <4>1. Ascending(FullLog(l))
          BY <1>0, <1>10 DEF TermsSound
        <4>2. i \in DOMAIN FullLog(l) /\ k \in DOMAIN FullLog(l) /\ i <= k
          BY <1>10, <1>12, <2>3, <3>1
        <4> QED
          BY <4>1, <4>2 DEF Ascending
      <3>3. FullLog(l)[k] <= t /\ FullLog(l)[k] \in 1..MaxTerm
        BY <1>0, <1>1, <1>10, <3>1 DEF TermsSound
      <3>4. FullLog(l)[k] = t
        BY <1>10, <2>4, <2>10, <3>2, <3>3, Bounds
      <3>5. termAt(l, k) = FullLog(l)[k]
        <4>1. k >= snap[l].index
          BY <1>10, <3>1
        <4> QED
          BY <1>0, <3>1, <4>1, TermAtIs, Zenon
      <3>6. termAt(l, k) = snap[l].term
        BY <3>1 DEF termAt
      <3> QED
        BY <1>5, <1>15, <3>4, <3>5, <3>6
    <2> QED
      BY <1>2, <1>5, <1>13, <1>15, <2>1, <2>9, <2>10 DEF SnapshotSafe
  <1> QED
    BY <1>14, <1>15

\* Every snapshot in flight is still safe.
LEMMA SnapshotsSafeNext ==
    ASSUME Stepping, BooksInv
    PROVE  SnapshotsSafe'
  <1> SUFFICES ASSUME NEW m \in Requests', m.type = "IS" PROVE SnapshotSafe(m)'
    BY DEF SnapshotsSafe
  <1>0. RaftInv /\ Fits' /\ [Next]_vars /\ SnapshotsSafe
    BY SteppingGives DEF BooksInv
  <1>1. m.to \in Node /\ m.term \in 1..MaxTerm
    BY <1>0, SnapshotSentNext, Zenon
  <1>2. PICK p \in Node : p = m.to
    BY <1>1
  <1>3. PICK t \in 1..MaxTerm : t = m.term
    BY <1>1
  <1>4. m \in ISs(p, t)'
    BY <1>2, <1>3 DEF ISs, Requests
  <1>5. CASE Delivers(p, t)
    <2>1. /\ \A a \in AEs(p, t)' : \E x \in AEs(p, t) : Later(x, a)
          /\ \A a \in ISs(p, t)' : \E x \in ISs(p, t) : Later(x, a)
      BY <1>5, DeliversOld
    <2>2. \A a \in AEs(p, t)' : \E b \in AEs(p, t) :
              b.commit = a.commit /\ b.prevIndex = a.prevIndex /\ b.prevTerm = a.prevTerm
      BY <2>1 DEF Later, Forwarded, AEs
    <2>3. \A a \in ISs(p, t)' : \E b \in ISs(p, t) : b.snap = a.snap
      BY <2>1 DEF Later, Forwarded, ISs
    <2>4. PICK x \in ISs(p, t) : x.snap = m.snap
      BY <1>4, <2>3
    <2>5. SnapshotSafe(x)
      BY <1>0 DEF SnapshotsSafe, ISs, Requests
    <2> QED
      BY <1>4, <2>2, <2>3, <2>4, <2>5, OldSnapshotSafe
  <1>6. ASSUME NEW n \in Node, Sends(n, p), currentTerm[n] = t PROVE SnapshotSafe(m)'
    <2>1. UNCHANGED currentTerm /\ role[n] = E!Leader /\ p # n
      BY <1>6, SendingKeeps
    <2>2. currentTerm[p] \in Nat /\ t \in Nat
      BY <1>0, PairTypes, Bounds
    <2>3. CASE currentTerm[p] > t
      BY <1>2, <1>3, <2>1, <2>2, <2>3 DEF SnapshotSafe, Safe
    <2>4. CASE currentTerm[p] <= t
      <3>1. Follows(n, p, t)
        BY <1>6, <2>1, <2>4 DEF Follows
      <3> QED
        BY <1>4, <1>6, <3>1, AppendSentSafe, SnapshotSentSafe DEF Sends
    <2> QED
      BY <2>2, <2>3, <2>4
  <1> QED
    BY <1>0, <1>5, <1>6, StepDelivers

\* The books stay right.
LEMMA BooksNext ==
    ASSUME Stepping, BooksInv
    PROVE  BooksInv'
  <1>1. /\ RaftInv /\ [Next]_vars /\ ElectionAllows
        /\ Retired /\ OneCall
    BY SteppingGives DEF BooksInv
  <1>2. Retired'
    BY <1>1, RetiredNext
  <1>3. OneCall'
    BY <1>1, OneCallNext
  <1>4. SnapshotsSafe' /\ PairsFit'
    BY SnapshotsSafeNext, PairsFitNext
  <1> QED
    BY <1>2, <1>3, <1>4 DEF BooksInv
-----------------------------------------------------------------------------
(***************************************************************************)
(* State machines.                                                         *)
(***************************************************************************)
\* The state machine and the snapshot of n hold what their entries lead to.
NodeReplays(n) ==
    /\ SnapshotIsReplay(snap[n])
    /\ Len(sm[n]) = lastApplied[n]
    /\ \A i \in 1..Len(sm[n]) : <<i, sm[n][i]>> \in applied

\* More applied entries change nothing in a snapshot.
LEMMA SnapshotReplayed ==
    ASSUME applied \subseteq applied', NEW s, SnapshotIsReplay(s)
    PROVE  SnapshotIsReplay(s)'
  BY DEF SnapshotIsReplay

\* Nor in a node whose state machine stays as it is.
LEMMA NodeReplayed ==
    ASSUME applied \subseteq applied', NEW p \in Node, NodeReplays(p),
           snap'[p] = snap[p], sm'[p] = sm[p], lastApplied'[p] = lastApplied[p]
    PROVE  NodeReplays(p)'
  <1>1. PICK s, x, a : s = snap[p] /\ x = sm[p] /\ a = lastApplied[p]
    OBVIOUS
  <1>2. SnapshotIsReplay(s)'
    BY <1>1, SnapshotReplayed DEF NodeReplays
  <1>3. Len(x) = a /\ \A i \in 1..Len(x) : <<i, x[i]>> \in applied'
    BY <1>1 DEF NodeReplays
  <1> QED
    BY <1>1, <1>2, <1>3 DEF NodeReplays

\* A node whose state machine is restored from a snapshot.
LEMMA NodeRestored ==
    ASSUME NEW p \in Node, NEW s, SnapshotIsReplay(s)',
           snap'[p] = s, sm'[p] = s.data, lastApplied'[p] = s.index
    PROVE  NodeReplays(p)'
  BY DEF NodeReplays, SnapshotIsReplay

\* A crashed node starts from the snapshot on its disk.
LEMMA ReloadReplays ==
    ASSUME RaftInv, applied \subseteq applied', \A p \in Node : NodeReplays(p),
           NEW n \in Node, NEW d, Reload(n, d), SnapshotIsReplay(d.snap)'
    PROVE  \A p \in Node : NodeReplays(p)'
  <1>1. /\ snap'[n] = d.snap /\ sm'[n] = d.snap.data /\ lastApplied'[n] = d.snap.index
        /\ \A p \in Node \ {n} : snap'[p] = snap[p] /\ sm'[p] = sm[p] /\ lastApplied'[p] = lastApplied[p]
    BY ReloadFalls
  <1>2. NodeReplays(n)'
    BY <1>1, NodeRestored
  <1>3. ASSUME NEW p \in Node \ {n} PROVE NodeReplays(p)'
    BY <1>1, NodeReplayed
  <1> QED
    BY <1>2, <1>3

\* What applyReady leaves in the state machine.
LEMMA AppliedReplay ==
    ASSUME RaftInv, applied \subseteq applied', NEW n \in Node, NodeReplays(n), NEW x, x = AppliedState(n),
           \A i \in ToApply(n) : <<i, entryAt(n, i)>> \in applied'
    PROVE  Len(x) = commitIndex[n] /\ \A i \in 1..commitIndex[n] : <<i, x[i]>> \in applied'
  <1>1. PICK lo, hi, T : lo = lastApplied[n] /\ hi = commitIndex[n] /\ T = ToApply(n)
    OBVIOUS
  <1>2. /\ lo \in Nat /\ hi \in Nat /\ lo <= hi /\ T = lo + 1 .. hi
        /\ \A i \in T : entryAt(n, i) \in 1..MaxTerm
    BY <1>1, ToApplyIs
  <1>3. Cardinality(T) = hi - lo
    <2>1. lo + 1 \in Int /\ hi \in Int /\ (lo + 1 > hi => hi - lo = 0) /\ hi - (lo + 1) + 1 = hi - lo
      BY <1>2
    <2> QED
      BY <1>2, <2>1, FS_Interval, Zenon
  <1>4. PICK w \in Nat : w = hi - lo
    BY <1>2
  <1>5. PICK L : L = [k \in 1..w |-> entryAt(n, Min(T) + k - 1)]
    BY Zenon
  <1>6. x = sm[n] \o L
    BY <1>1, <1>3, <1>4, <1>5 DEF AppliedState
  <1>7. \A k \in 1..w : lo + k \in T /\ L[k] = entryAt(n, lo + k)
    <2> SUFFICES ASSUME NEW k \in 1..w PROVE lo + k \in T /\ L[k] = entryAt(n, lo + k)
      OBVIOUS
    <2>0. lo + 1 <= hi /\ lo + 1 \in lo + 1 .. hi /\ lo + 1 .. hi \subseteq Nat
      BY <1>2, <1>4
    <2>1. lo + 1 \in T /\ T \in SUBSET Nat /\ T # {}
      BY <1>2, <2>0, Zenon
    <2>2. Min(T) \in T /\ \A y \in T : Min(T) <= y
      BY <2>1, MinOfNaturals
    <2>3. PICK b : b = Min(T)
      OBVIOUS
    <2>4. b = lo + 1
      BY <1>2, <2>1, <2>2, <2>3
    <2>5. b + k - 1 = lo + k /\ lo + k \in T
      BY <1>2, <1>4, <2>4
    <2>6. L[k] = entryAt(n, b + k - 1)
      BY <1>5, <2>3
    <2> QED
      BY <2>5, <2>6
  <1>8. L \in [1..w -> 1..MaxTerm]
    <2>1. \A k \in 1..w : L[k] \in 1..MaxTerm
      BY <1>2, <1>7
    <2> QED
      BY <1>5, <2>1
  <1>9. L \in Seq(1..MaxTerm) /\ Len(L) = w
    <2>1. Seq(1..MaxTerm) = UNION {[1..j -> 1..MaxTerm] : j \in Nat}
      BY SeqDef, Zenon
    <2>2. L \in Seq(1..MaxTerm)
      BY <1>8, <2>1, Zenon
    <2> QED
      BY <1>4, <1>8, <2>2, LenProperties
  <1>10. sm[n] \in Seq(1..MaxTerm)
    BY Given DEF RestTypes, Log
  <1>11. Len(sm[n]) = lo /\ \A i \in 1..lo : <<i, sm[n][i]>> \in applied
    BY <1>1 DEF NodeReplays
  <1>12. /\ Len(x) = lo + w
         /\ \A i \in 1..(lo + w) : x[i] = IF i <= lo THEN sm[n][i] ELSE L[i - lo]
    <2>1. PICK y : y = sm[n]
      OBVIOUS
    <2>2. /\ Len(y \o L) = Len(y) + Len(L)
          /\ \A i \in 1..(Len(y) + Len(L)) : (y \o L)[i] = IF i <= Len(y) THEN y[i] ELSE L[i - Len(y)]
      BY <1>9, <1>10, <2>1, ConcatProperties, Zenon
    <2> QED
      BY <1>6, <1>9, <1>11, <2>1, <2>2
  <1>13. lo + w = hi
    BY <1>2, <1>4
  <1>14. ASSUME NEW i \in 1..hi PROVE <<i, x[i]>> \in applied'
    <2>1. CASE i <= lo
      <3>1. x[i] = sm[n][i] /\ i \in 1..lo
        BY <1>2, <1>12, <1>13, <2>1
      <3> QED
        BY <1>11, <3>1
    <2>2. CASE ~(i <= lo)
      <3>1. PICK k \in 1..w : k = i - lo
        BY <1>2, <1>4, <2>2
      <3>2. lo + k = i
        BY <1>2, <3>1
      <3>3. x[i] = L[k]
        BY <1>12, <1>13, <2>2, <3>1
      <3> QED
        BY <1>1, <1>7, <3>2, <3>3
    <2> QED
      BY <2>1, <2>2
  <1> QED
    BY <1>1, <1>12, <1>13, <1>14

\* Snapshots under way hold the state their entries lead to.
LEMMA SentReplayed ==
    ASSUME Stepping, SnapshotsAreReplays, NEW m \in Requests', m.type = "IS"
    PROVE  SnapshotIsReplay(m.snap)'
  <1>0. RaftInv /\ Fits /\ [Next]_vars /\ applied \subseteq applied'
    BY SteppingGives DEF AppliedGrows
  <1>1. m \in msgs'
    BY DEF Requests
  <1>2. CASE MessageStays(m)
    <2>1. PICK x \in Requests : Later(x, m)
      BY <1>2 DEF MessageStays, RequestStays
    <2>2. x.type = "IS" /\ x.snap = m.snap
      BY <2>1 DEF Later, Forwarded
    <2>3. SnapshotIsReplay(x.snap)
      BY <2>2 DEF SnapshotsAreReplays
    <2> QED
      BY <1>0, <2>2, <2>3, SnapshotReplayed
  <1>3. ASSUME NEW n \in Node, NEW q \in Node, Sends(n, q) PROVE SnapshotIsReplay(m.snap)'
    <2>1. CASE SendAppendEntries(n, q)
      <3>1. PICK req : Send(n, q, req) /\ req.type = "AE"
        BY <2>1 DEF SendAppendEntries
      <3>2. MessageStays(m)
        BY <1>0, <1>1, <3>1, SendStays
      <3> QED
        BY <1>2, <3>2
    <2>2. CASE SendSnapshot(n, q)
      <3>1. PICK req : Send(n, q, req) /\ req.snap = snap[n]
        BY <2>2 DEF SendSnapshot
      <3>2. CASE MessageStays(m)
        BY <1>2, <3>2
      <3>3. CASE m = req
        <4>1. SnapshotIsReplay(m.snap)
          BY <3>1, <3>3 DEF SnapshotsAreReplays
        <4> QED
          BY <1>0, <4>1, SnapshotReplayed
      <3> QED
        BY <1>0, <1>1, <3>1, <3>2, <3>3, SendStays
    <2> QED
      BY <1>3, <2>1, <2>2 DEF Sends
  <1> QED
    BY <1>0, <1>1, <1>2, <1>3, StepStays

\* applyReady, perhaps with a crash after it has saved its snapshot.
LEMMA ApplyReplays ==
    ASSUME Stepping, \A p \in Node : NodeReplays(p), NEW n \in Node, ApplyReady(n) \/ CrashInCompaction(n)
    PROVE  \A p \in Node : NodeReplays(p)'
  <1>0. RaftInv /\ applied \subseteq applied'
    BY SteppingGives DEF AppliedGrows
  <1>1. PICK x : x = AppliedState(n)
    OBVIOUS
  <1>2. PICK s : s = SnapshotAt(n, commitIndex[n], x)
    OBVIOUS
  <1>3. \A i \in ToApply(n) : <<i, entryAt(n, i)>> \in applied'
    BY DEF ApplyReady, CrashInCompaction
  <1>4. Len(x) = commitIndex[n] /\ \A i \in 1..commitIndex[n] : <<i, x[i]>> \in applied'
    BY <1>0, <1>1, <1>3, AppliedReplay
  <1>5. SnapshotIsReplay(s)'
    BY <1>2, <1>4 DEF SnapshotAt, SnapshotIsReplay
  <1>6. CASE ApplyReady(n)
    <2>1. sm \in [Node -> Log] /\ snap \in [Node -> Snap] /\ lastApplied \in [Node -> Index]
      BY <1>0, Given DEF RestTypes
    <2>2. /\ sm'[n] = x /\ lastApplied'[n] = commitIndex[n]
          /\ snap'[n] = snap[n] \/ snap'[n] = s
          /\ \A p \in Node \ {n} : snap'[p] = snap[p] /\ sm'[p] = sm[p] /\ lastApplied'[p] = lastApplied[p]
      BY <1>1, <1>2, <1>6, <2>1 DEF ApplyReady, logVars
    <2>3. NodeReplays(n)'
      <3>1. PICK y : y = snap[n]
        OBVIOUS
      <3>2. SnapshotIsReplay(y)'
        BY <1>0, <3>1, SnapshotReplayed DEF NodeReplays
      <3>3. SnapshotIsReplay(snap[n])'
        BY <1>5, <2>2, <3>1, <3>2 DEF SnapshotIsReplay
      <3> QED
        BY <1>4, <2>2, <3>3 DEF NodeReplays
    <2>4. ASSUME NEW p \in Node \ {n} PROVE NodeReplays(p)'
      BY <1>0, <2>2, NodeReplayed
    <2> QED
      BY <2>3, <2>4
  <1>7. CASE CrashInCompaction(n)
    <2>1. PICK d : d = Store!SaveSnapshot(disk[n], s) /\ Reload(n, d)
      BY <1>1, <1>2, <1>7 DEF CrashInCompaction
    <2>2. d.snap = s
      BY <1>0, <2>1, StoreIs, StoreOps
    <2>3. SnapshotIsReplay(d.snap)'
      BY <1>5, <2>2
    <2> QED
      BY <1>0, <2>1, <2>3, ReloadReplays
  <1> QED
    BY <1>6, <1>7

\* A follower crashes between two writes.
LEMMA CrashReplays ==
    ASSUME Stepping, SnapshotsAreReplays, \A p \in Node : NodeReplays(p), NEW m \in msgs,
           CrashInAppend(m) \/ CrashInInstall(m)
    PROVE  \A p \in Node : NodeReplays(p)'
  <1>0. RaftInv /\ applied \subseteq applied'
    BY SteppingGives DEF AppliedGrows
  <1>1. m \in Requests /\ m.to \in Node
    BY <1>0, AppendMoves, InstallMoves, Zenon DEF CrashInAppend, CrashInInstall, Requests
  <1>2. PICK y : y = snap[m.to]
    OBVIOUS
  <1>3. SnapshotIsReplay(y)'
    BY <1>0, <1>1, <1>2, SnapshotReplayed DEF NodeReplays
  <1>4. IsStore(disk[m.to]) /\ disk[m.to].snap = y
    BY <1>0, <1>1, <1>2, StoreIs
  <1>5. PICK d : Reload(m.to, d) /\ SnapshotIsReplay(d.snap)'
    <2>1. CASE CrashInAppend(m)
      <3>1. PICK d : d = Truncated(m, disk[m.to])
        OBVIOUS
      <3>2. Reload(m.to, d)
        BY <2>1, <3>1 DEF CrashInAppend
      <3>3. d.snap = y
        BY <1>4, <3>1, StoreOps DEF Truncated
      <3> QED
        BY <1>3, <3>2, <3>3
    <2>2. CASE CrashInInstall(m)
      <3>1. PICK d \in {Dropped(m, disk[m.to]), Saved(m, disk[m.to])} : Reload(m.to, d)
        BY <2>2 DEF CrashInInstall
      <3>2. IsStore(Dropped(m, disk[m.to])) /\ Dropped(m, disk[m.to]).snap = y
        BY <1>4, StoreOps DEF Dropped
      <3>3. d.snap = y \/ d.snap = m.snap
        BY <3>1, <3>2, StoreOps DEF Saved
      <3>4. SnapshotIsReplay(m.snap)
        BY <1>1, <2>2 DEF SnapshotsAreReplays, CrashInInstall
      <3>5. SnapshotIsReplay(m.snap)'
        BY <1>0, <3>4, SnapshotReplayed
      <3> QED
        BY <1>3, <3>1, <3>3, <3>5
    <2> QED
      BY <2>1, <2>2
  <1> QED
    BY <1>0, <1>1, <1>5, ReloadReplays

\* InstallSnapshot never takes the state machine back: the snapshot is safe.
LEMMA InstallReplays ==
    ASSUME Stepping, SnapshotsSafe, SnapshotsAreReplays, \A p \in Node : NodeReplays(p), NEW m \in msgs,
           InstallSnapshot(m)
    PROVE  \A p \in Node : NodeReplays(p)'
  <1>0. RaftInv /\ applied \subseteq applied'
    BY SteppingGives DEF AppliedGrows
  <1>1. /\ m \in Requests /\ m.type = "IS" /\ m.term >= currentTerm[m.to] /\ m.snap.index > snap[m.to].index
        /\ m.to \in Node
    BY InstallMoves, Zenon DEF InstallSnapshot, Requests
  <1>2. PICK n \in Node : n = m.to
    BY <1>1
  <1>3. NewSnapshot(m) /\ m.snap.index \in Nat /\ snap[n].index \in Nat /\ m.term \in Nat
        /\ commitIndex[n] \in Nat /\ lastApplied[n] \in Nat /\ lastApplied[n] <= commitIndex[n] /\ currentTerm[n] \in Nat
    <2>1. NewSnapshot(m)
      BY <1>1 DEF NewSnapshot
    <2>2. m.term \in Nat
      <3>1. Fits
        BY <1>0, Given
      <3>2. m.term \in 1..MaxTerm
        BY <1>1, <3>1, SnapshotSent, Zenon
      <3> QED
        BY <3>2, Bounds
    <2> QED
      BY <1>0, <1>2, <2>1, <2>2, SentSnapshotIs, PairTypes, ToApplyIs
  <1>4. Safe(n, m.term, m.snap.index)
    BY <1>1, <1>2 DEF SnapshotsSafe, SnapshotSafe
  <1>5. commitIndex[n] <= m.snap.index
    BY <1>1, <1>2, <1>3, <1>4 DEF Safe
  <1>6. lastApplied[n] <= m.snap.index
    BY <1>3, <1>5
  <1>7. PICK a : a = Raised(lastApplied[n], m)
    OBVIOUS
  <1>8. a = IF lastApplied[n] >= m.snap.index THEN lastApplied[n] ELSE m.snap.index
    BY <1>0, <1>2, <1>3, <1>7, RaisedIs
  <1>9. a = m.snap.index
    BY <1>3, <1>6, <1>8
  <1>10. sm \in [Node -> Log] /\ snap \in [Node -> Snap] /\ lastApplied \in [Node -> Index]
    BY <1>0, Given DEF RestTypes
  <1>11. /\ sm'[n] = m.snap.data /\ snap'[n] = m.snap /\ lastApplied'[n] = a
         /\ \A p \in Node \ {n} : snap'[p] = snap[p] /\ sm'[p] = sm[p] /\ lastApplied'[p] = lastApplied[p]
    BY <1>2, <1>7, <1>10 DEF InstallSnapshot
  <1>12. SnapshotIsReplay(m.snap)
    BY <1>1 DEF SnapshotsAreReplays
  <1>13. SnapshotIsReplay(m.snap)'
    BY <1>0, <1>12, SnapshotReplayed
  <1>14. NodeReplays(n)'
    BY <1>9, <1>11, <1>13, NodeRestored
  <1>15. ASSUME NEW p \in Node \ {n} PROVE NodeReplays(p)'
    BY <1>0, <1>11, NodeReplayed
  <1> QED
    BY <1>14, <1>15

\* Every step.
LEMMA ReplayNext ==
    ASSUME Stepping, SnapshotsSafe, SnapshotsAreReplays, StateIsReplay
    PROVE  SnapshotsAreReplays' /\ StateIsReplay'
  <1>0. RaftInv /\ [Next]_vars /\ applied \subseteq applied'
    BY SteppingGives DEF AppliedGrows
  <1>1. \A p \in Node : NodeReplays(p)
    BY DEF NodeReplays, StateIsReplay, SnapshotsAreReplays
  <1>2. ASSUME UNCHANGED <<snap, sm, lastApplied>> PROVE \A p \in Node : NodeReplays(p)'
    <2> SUFFICES ASSUME NEW p \in Node PROVE NodeReplays(p)'
      OBVIOUS
    <2>1. snap'[p] = snap[p] /\ sm'[p] = sm[p] /\ lastApplied'[p] = lastApplied[p]
      BY <1>2
    <2> QED
      BY <1>0, <1>1, <2>1, NodeReplayed
  <1>3. ASSUME NEW n \in Node, Restart(n) PROVE \A p \in Node : NodeReplays(p)'
    <2>1. PICK d : d = disk[n] /\ Reload(n, d)
      BY <1>3 DEF Restart
    <2>2. d.snap = snap[n]
      BY <1>0, <2>1, StoreIs
    <2>3. SnapshotIsReplay(d.snap)
      BY <1>1, <2>2 DEF NodeReplays
    <2>4. SnapshotIsReplay(d.snap)'
      BY <1>0, <2>3, SnapshotReplayed
    <2> QED
      BY <1>0, <1>1, <2>1, <2>4, ReloadReplays
  <1>4. ASSUME NEW n \in Node, Propose(n) \/ \E t \in 1..MaxTerm : Wins(n, t)
        PROVE  UNCHANGED <<snap, sm, lastApplied>>
    BY <1>4 DEF Propose, Wins, BecomeLeader, AppendOwn
  <1>5. ASSUME NEW m \in msgs, AcceptAppend(m) \/ AppendAcked(m) \/ SnapshotAcked(m) \/ AppendRejected(m)
        PROVE  UNCHANGED <<snap, sm, lastApplied>>
    BY <1>5, Zenon DEF AcceptAppend, AppendAcked, SnapshotAcked, AppendRejected, logVars, applyVars
  <1>6. \A p \in Node : NodeReplays(p)'
    <2>1. CASE UNCHANGED <<logVars, applyVars, leaderVars>>
      BY <1>2, <2>1 DEF logVars, applyVars
    <2>2. ASSUME NEW n \in Node,
                 \/ Propose(n) \/ ApplyReady(n) \/ Restart(n) \/ CrashInCompaction(n)
                 \/ \E t \in 1..MaxTerm : Wins(n, t)
          PROVE  \A p \in Node : NodeReplays(p)'
      <3>1. CASE Propose(n) \/ \E t \in 1..MaxTerm : Wins(n, t)
        BY <1>2, <1>4, <3>1
      <3>2. CASE ApplyReady(n) \/ CrashInCompaction(n)
        BY <1>1, <3>2, ApplyReplays
      <3> QED
        BY <1>3, <2>2, <3>1, <3>2
    <2>3. ASSUME NEW m \in msgs,
                 \/ AcceptAppend(m) \/ InstallSnapshot(m)
                 \/ AppendAcked(m) \/ SnapshotAcked(m) \/ AppendRejected(m)
                 \/ CrashInAppend(m) \/ CrashInInstall(m)
          PROVE  \A p \in Node : NodeReplays(p)'
      <3>1. CASE AcceptAppend(m) \/ AppendAcked(m) \/ SnapshotAcked(m) \/ AppendRejected(m)
        BY <1>2, <1>5, <3>1
      <3>2. CASE InstallSnapshot(m)
        BY <1>1, <3>2, InstallReplays
      <3>3. CASE CrashInAppend(m) \/ CrashInInstall(m)
        BY <1>1, <3>3, CrashReplays
      <3> QED
        BY <2>3, <3>1, <3>2, <3>3
    <2> QED
      BY <1>0, <2>1, <2>2, <2>3, StepKinds
  <1>7. \A m \in Requests' : m.type = "IS" => SnapshotIsReplay(m.snap)'
    BY SentReplayed
  <1> QED
    BY <1>6, <1>7 DEF NodeReplays, StateIsReplay, SnapshotsAreReplays

\* At the start nothing has been sent and nothing applied.
LEMMA ReplayStarts == Init => ReplayInv
  <1> SUFFICES ASSUME Init PROVE ReplayInv
    OBVIOUS
  <1>1. /\ msgs = {} /\ leaders = {} /\ \A n \in Node : role[n] # E!Leader
        /\ snap = [n \in Node |-> Store!NoSnapshot] /\ sm = [n \in Node |-> <<>>]
        /\ lastApplied = [n \in Node |-> 0]
    BY DEF Init, E!Init, E!Follower, E!Leader
  <1>2. Requests = {} /\ \A l, p \in Node : CallUnderWay(l, p) = {}
    BY <1>1 DEF Requests, CallUnderWay
  <1>3. Replies = {}
    BY <1>1, <1>2 DEF Replies
  <1>4. Retired
    BY <1>1 DEF Retired, Crowned
  <1>5. OneCall
    BY <1>2, <1>3 DEF OneCall
  <1>6. SnapshotsSafe
    BY <1>2 DEF SnapshotsSafe
  <1>7. PairsFit
    BY <1>1 DEF PairsFit, Follows
  <1>8. \A n \in Node : /\ snap[n].index = 0 /\ snap[n].data = <<>>
                        /\ sm[n] = <<>> /\ lastApplied[n] = 0
    BY <1>1 DEF Store!NoSnapshot
  <1>9. Len(<<>>) = 0 /\ \A i \in 1..0 : FALSE
    OBVIOUS
  <1>10. SnapshotsAreReplays
    BY <1>2, <1>8, <1>9 DEF SnapshotsAreReplays, SnapshotIsReplay
  <1>11. StateIsReplay
    BY <1>8, <1>9 DEF StateIsReplay
  <1> QED
    BY <1>4, <1>5, <1>6, <1>7, <1>10, <1>11, RaftStarts DEF ReplayInv, BooksInv

\* What a step keeps.
LEMMA ReplayKept ==
    ASSUME ReplayInv, ~StorageMayFail, [Next]_vars
    PROVE  ReplayInv'
  <1>1. RaftInv /\ BooksInv /\ SnapshotsSafe /\ SnapshotsAreReplays /\ StateIsReplay
    BY DEF ReplayInv, BooksInv
  <1>2. Stepping
    BY <1>1, RaftNext, NextOk DEF Stepping
  <1> QED
    BY <1>1, <1>2, BooksNext, ReplayNext, SteppingGives DEF ReplayInv

-----------------------------------------------------------------------------
(***************************************************************************)
(* The theorems.                                                           *)
(***************************************************************************)

\* The inductive invariant holds in every reachable state, for any number of
\* nodes, terms, entries and messages, through losses, late and duplicated
\* messages, and crashes between any two writes of a handler.
THEOREM RaftInvariantHolds ==
    ASSUME ~StorageMayFail
    PROVE  Spec => []RaftInv
  <1>1. Init => RaftInv
    BY RaftStarts
  <1>2. RaftInv /\ [Next]_vars => RaftInv'
    BY RaftNext
  <1> QED
    BY <1>1, <1>2, PTL DEF Spec

\* Indices stay in range, nextIndex included, which an off-by-one in
\* nextIndexAfterConflict would take below 1.
THEOREM RaftTyped ==
    ASSUME ~StorageMayFail
    PROVE  Spec => []TypeOK
  <1>1. RaftInv => TypeOK
    BY DEF RaftInv
  <1> QED
    BY <1>1, RaftInvariantHolds, PTL

\* Log matching: two logs that agree at an index agree below it (the check of
\* PrevLogIndex and PrevLogTerm in AppendEntries, the splice of the entries).
THEOREM LogsMatch ==
    ASSUME ~StorageMayFail
    PROVE  Spec => []LogMatching
  BY InvLogMatching, RaftInvariantHolds, PTL

\* Leader completeness: a leader, and every node that may still become one,
\* holds all that was ever applied (isLogUpToDateLocked, advanceCommitLocked).
THEOREM LeadersAreComplete ==
    ASSUME ~StorageMayFail
    PROVE  Spec => []LeaderCompleteness
  BY InvLeaderCompleteness, RaftInvariantHolds, PTL

\* What a leader counts a peer for in matchIndex is on the peer's disk, however
\* late or often its requests are handled (AppendEntries, InstallSnapshot).
THEOREM AcksAreDurable ==
    ASSUME ~StorageMayFail
    PROVE  Spec => []AckedIsDurable
  BY InvAcked, RaftInvariantHolds, PTL

\* State machine safety: no two nodes ever apply different entries at one index
\* (applyReady).
THEOREM StateMachinesAgree ==
    ASSUME ~StorageMayFail
    PROVE  Spec => []StateMachineSafety
  <1>1. RaftInv => StateMachineSafety
    BY Given
  <1> QED
    BY <1>1, RaftInvariantHolds, PTL

\* entryAt and sliceFrom never index outside the log: snapshot, applied, commit
\* and last index stay in order (applyReady, maybeSnapshotLocked, InstallSnapshot).
THEOREM IndicesStayInLog ==
    ASSUME ~StorageMayFail
    PROVE  Spec => []IndicesInLog
  <1>1. RaftInv => IndicesInLog
    BY DEF RaftInv
  <1> QED
    BY <1>1, RaftInvariantHolds, PTL

\* A node whose commit index does not fall keeps its committed entries, in the
\* log or under the snapshot (TruncateSuffix in AppendEntries and InstallSnapshot).
THEOREM CommittedEntriesStay ==
    ASSUME ~StorageMayFail
    PROVE  Spec => CommittedStays
  <1>1. RaftInv /\ [Next]_vars => EntriesStay
    BY StepKeepsEntries
  <1>2. Spec => [][EntriesStay]_vars
    BY <1>1, RaftInvariantHolds, PTL DEF Spec
  <1> QED
    BY <1>2, PTL DEF CommittedStays, EntriesStay

\* Replication, compaction and crashes do to terms, votes, roles and log ends only
\* what Election allows.
THEOREM ClusterImplementsElection ==
    ASSUME ~StorageMayFail
    PROVE  Spec => ImplementsElection
  <1>1. RaftInv /\ [Next]_vars => [E!Next]_(E!electionVars)
    BY StepAllowed DEF ElectionAllows
  <1> QED
    BY <1>1, RaftInvariantHolds, PTL DEF Spec, ImplementsElection

\* A node's state machine holds exactly the entries up to lastApplied, whatever
\* snapshots replaced it: a snapshot that InstallSnapshot takes while the node
\* has already applied more would take it back behind lastApplied.
THEOREM StatesAreReplays ==
    ASSUME ~StorageMayFail
    PROVE  Spec => []StateIsReplay
  <1>1. Init => ReplayInv
    BY ReplayStarts
  <1>2. ReplayInv /\ [Next]_vars => ReplayInv'
    BY ReplayKept
  <1>3. ReplayInv => StateIsReplay
    BY DEF ReplayInv
  <1> QED
    BY <1>1, <1>2, <1>3, PTL DEF Spec
=============================================================================
