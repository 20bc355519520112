---------------------------- MODULE RaftHandlers ----------------------------
(***************************************************************************)
(* What the actions of Raft do, in the terms of RaftInvariant: to the log  *)
(* of a node, to the messages in flight, to what has been acknowledged.    *)
(* First the tools; then leaders, candidates and followers, crashes and    *)
(* restarts: what each of them does to logs and messages is a StepOk.      *)
(***************************************************************************)
EXTENDS RaftInvariant

-----------------------------------------------------------------------------
(***************************************************************************)
(* Applied entries.                                                        *)
(***************************************************************************)
AppliedType == applied \subseteq Index \X (1..MaxTerm)

\* The term AppliedTerm finds at an index is the one that was applied.
LEMMA AppliedIs ==
    AppliedType /\ StateMachineSafety => \A a \in applied : Known(a[1]) /\ AppliedTerm(a[1]) = a[2]
  <1> SUFFICES ASSUME AppliedType, StateMachineSafety, NEW a \in applied
               PROVE  Known(a[1]) /\ AppliedTerm(a[1]) = a[2]
    OBVIOUS
  <1>1. a = <<a[1], a[2]>> /\ a[2] \in 1..MaxTerm
    BY DEF AppliedType
  <1>2. Known(a[1])
    BY <1>1 DEF Known
  <1>3. <<a[1], AppliedTerm(a[1])>> \in applied
    BY <1>2 DEF Known, AppliedTerm
  <1>4. <<a[1], AppliedTerm(a[1])>>[2] = a[2]
    BY <1>3 DEF StateMachineSafety
  <1> QED
    BY <1>2, <1>4

\* The same after a step.
LEMMA AppliedIsNext ==
    (AppliedType /\ StateMachineSafety => \A a \in applied : Known(a[1]) /\ AppliedTerm(a[1]) = a[2])'
  BY AppliedIs, PTL

\* The state machines only move on.
AppliedGrows ==
    /\ AppliedType /\ AppliedType' /\ StateMachineSafety /\ StateMachineSafety'
    /\ applied \subseteq applied'

\* The term of an entry that has been applied does not change.
LEMMA KnownStays ==
    ASSUME AppliedGrows, NEW i, Known(i)
    PROVE  Known(i)' /\ AppliedTerm(i)' = AppliedTerm(i)
  <1>1. <<i, AppliedTerm(i)>> \in applied
    BY DEF Known, AppliedTerm
  <1>2. <<i, AppliedTerm(i)>> \in applied'
    BY <1>1 DEF AppliedGrows
  <1>3. PICK a \in applied' : a[1] = i /\ a[2] = AppliedTerm(i)
    BY <1>2, <<i, AppliedTerm(i)>>[1] = i, <<i, AppliedTerm(i)>>[2] = AppliedTerm(i)
  <1>4. Known(a[1])' /\ AppliedTerm(a[1])' = a[2]
    BY <1>3, AppliedIsNext DEF AppliedGrows
  <1> QED
    BY <1>3, <1>4

\* A snapshot of applied entries stays one as more is applied.
LEMMA SnapshotStays ==
    ASSUME AppliedGrows, NEW s, SnapFits(s)
    PROVE  SnapFits(s)'
  BY KnownStays DEF SnapFits, AppliedGrows

-----------------------------------------------------------------------------
(***************************************************************************)
(* One node.                                                               *)
(***************************************************************************)
Bounded(n) ==
    /\ snap[n].index <= lastApplied[n]
    /\ lastApplied[n] <= commitIndex[n]
    /\ commitIndex[n] <= lastIndex(n)

\* The position of the last entry gets no worse, except under a newer leader.
PositionAt(n) ==
    \/ EP!UpToDate(LastPos'[n], LastPos[n])
    \/ preVotes'[n] = {} /\ \E v \in leaders : v.term = currentTerm'[n]

\* A step does to n what RaftInvariant allows.
NodeOk(n) ==
    /\ NodeFits(n)' /\ Bounded(n)'
    /\ LogStep(n) /\ PositionAt(n)
    /\ CommitStep(n) /\ SnapshotStep(n)
    /\ snap[n].index <= snap'[n].index

\* A step does nothing to n.
Calm(n) ==
    /\ log'[n] = log[n] /\ snap'[n] = snap[n] /\ disk'[n] = disk[n]
    /\ lastApplied'[n] = lastApplied[n] /\ commitIndex'[n] = commitIndex[n]

\* A log that stays under a snapshot that stays.
LEMMA SameLog ==
    ASSUME Fits, AppliedGrows, NEW n \in Node, log'[n] = log[n], snap'[n] = snap[n]
    PROVE  /\ FullLog(n)' = FullLog(n) /\ lastIndex(n)' = lastIndex(n) /\ Held(n)' = Held(n)
           /\ \A i : entryAt(n, i)' = entryAt(n, i)
           /\ LastPos'[n] = LastPos[n]
  <1>1. /\ lastIndex(n)' = lastIndex(n) /\ (\A i : entryAt(n, i)' = entryAt(n, i))
        /\ lastTerm(n)' = lastTerm(n)
    BY DEF lastIndex, entryAt, lastTerm
  <1>2. LastPos'[n] = LastPos[n] /\ Held(n)' = Held(n)
    BY <1>1 DEF LastPos, Held
  <1>3. LogShape(n) /\ SnapFits(snap[n]) /\ snap[n].index \in Nat
    BY LogShapes, LogTypes DEF Fits, NodesFit, NodeFits
  <1>4. \A i \in 1..lastIndex(n) : i <= snap[n].index => AppliedTerm(i)' = AppliedTerm(i)
    BY <1>3, KnownStays, Bounds DEF SnapFits, LogShape
  <1>5. FullLog(n)' = FullLog(n)
    BY <1>1, <1>4 DEF FullLog
  <1> QED
    BY <1>1, <1>2, <1>5

\* The position of a log's end, in numbers.
LEMMA PosTypes ==
    ASSUME Fits, NEW n \in Node
    PROVE  LastPos[n] = [term |-> lastTerm(n), index |-> lastIndex(n)]
           /\ LastPos[n].term \in Nat /\ LastPos[n].index \in Nat
  <1>1. LastPos[n] = [term |-> lastTerm(n), index |-> lastIndex(n)]
    BY DEF LastPos
  <1>2. lastTerm(n) \in Nat /\ lastIndex(n) \in Nat
    BY LogTypes DEF Fits
  <1> QED
    BY <1>1, <1>2

\* A node whose log, store and state machine a step leaves alone is as it was.
LEMMA CalmNode ==
    ASSUME Fits, AppliedGrows, NEW n \in Node, Calm(n)
    PROVE  NodeOk(n) /\ Same(n)
  <1>0. /\ FullLog(n)' = FullLog(n) /\ lastIndex(n)' = lastIndex(n) /\ Held(n)' = Held(n)
        /\ \A i : entryAt(n, i)' = entryAt(n, i)
        /\ LastPos'[n] = LastPos[n] /\ Same(n)
    BY SameLog DEF Calm, Same
  <1>1. NodeFits(n)'
    <2>1. SnapFits(snap[n])'
      <3>1. SnapFits(snap[n]) /\ snap'[n] = snap[n]
        BY DEF Calm, Fits, NodesFit, NodeFits
      <3> QED
        BY <3>1, KnownStays DEF SnapFits, AppliedGrows
    <2>2. DiskFits(n)'
      BY <1>0 DEF Calm, Fits, NodesFit, NodeFits, DiskFits
    <2> QED
      BY <1>0, <2>1, <2>2 DEF Calm, Fits, NodesFit, NodeFits, AppliedGrows
  <1>2. Bounded(n)'
    BY <1>0 DEF Calm, Fits, IndicesInLog, Bounded
  <1>3. PositionAt(n)
    <2>1. LastPos[n].index \in Nat
      BY PosTypes, Zenon
    <2>2. EP!UpToDate(LastPos[n], LastPos[n])
      BY <2>1 DEF EP!UpToDate
    <2> QED
      BY <1>0, <2>2 DEF PositionAt
  <1>4. CommitStep(n) /\ SnapshotStep(n)
    BY <1>0 DEF CommitStep, SnapshotStep, Calm, Emptying, Same
  <1>5. snap[n].index <= snap'[n].index
    BY LogTypes DEF Calm, Fits
  <1> QED
    BY <1>0, <1>1, <1>2, <1>3, <1>4, <1>5 DEF NodeOk, LogStep

-----------------------------------------------------------------------------
(***************************************************************************)
(* Messages.                                                               *)
(***************************************************************************)

\* m is the request x, perhaps abandoned by its caller or delivered once.
Forwarded(x, m) ==
    /\ m \in AppendRequest \cup SnapshotRequest
    /\ m.type = x.type /\ m.from = x.from /\ m.to = x.to /\ m.term = x.term
    /\ m.type = "AE" => /\ m.prevIndex = x.prevIndex /\ m.prevTerm = x.prevTerm
                        /\ m.ents = x.ents /\ m.commit = x.commit
                        /\ \A r \in m.answered : r.from = m.to /\ r.to = m.from /\ r.forTerm = m.term
    /\ m.type = "IS" => m.snap = x.snap

\* A reply to a request of the winner of its term.
ReplyFits(r) ==
    r \in Reply /\ r.from # r.to /\ [node |-> r.to, term |-> r.forTerm] \in leaders

\* Up to what index the sender of a positive reply takes over the request.
AckFits(r) ==
    Accepting(r) => \E m \in Requests :
        /\ m.from = r.to /\ m.to = r.from /\ m.term = r.forTerm
        /\ r.match <= LastOf(m) /\ Followed(r.from, m) /\ Took(r.from, m)

\* The request m is new and consistent with its sender's log.
NewRequest(m) ==
    /\ RequestFits(m)' /\ RequestSecured(m)
    /\ \E n \in Node : PartOf(Fragment(m)', FullLog(n))

\* What a step does to the messages in flight.
MessagesOk ==
    /\ msgs' \subseteq AppendRequest \cup SnapshotRequest \cup Reply
    /\ \A m \in Requests' : NewRequest(m) \/ \E x \in Requests : Forwarded(x, m)
    /\ \A r \in Replies' : r \in Replies \/ (ReplyFits(r) /\ AckFits(r))

\* What a step does to the leaders' bookkeeping.
MatchOk ==
    \A l, p \in Node :
        \/ matchIndex'[l][p] = 0
        \/ /\ matchIndex'[l][p] = matchIndex[l][p]
           /\ \A e \in leaders' \ leaders : e.node # l
        \/ /\ currentTerm'[l] = currentTerm[l]
           /\ \E r \in Replies : /\ Accepting(r) /\ r.from = p /\ r.to = l
                                 /\ r.forTerm = currentTerm[l] /\ r.match = matchIndex'[l][p]

-----------------------------------------------------------------------------
(***************************************************************************)
(* A step.                                                                 *)
(***************************************************************************)

\* The types of everything but the election and the messages.
RestTypes ==
    /\ log \in [Node -> Log] /\ snap \in [Node -> Snap]
    /\ Stores /\ \A n \in Node : DOMAIN disk[n].log \subseteq Index
    /\ sm \in [Node -> Log]
    /\ commitIndex \in [Node -> Index] /\ lastApplied \in [Node -> Index]
    /\ nextIndex \in [Node -> [Node -> 1..(MaxIndex + 1)]]
    /\ matchIndex \in [Node -> [Node -> Index]]
    /\ faults \in 0..MaxFaults

\* What the election part of a step does.
ElectionMoved ==
    /\ EP!SafetyInv' /\ EP!ClaimStep
    /\ leaders \subseteq leaders'
    /\ \A n \in Node : currentTerm[n] <= currentTerm'[n]

\* What the rest does: one node's log at most, messages, bookkeeping.
StepOk ==
    /\ RestTypes' /\ AppliedGrows
    /\ \A a \in applied' : Settled(a[1], a[2])
    /\ \E p \in Node : NodeOk(p) /\ \A n \in Node \ {p} : Calm(n)
    /\ MessagesOk /\ MatchOk /\ WinnersGrow

\* A step that is right for the node it changes is right for all.
LEMMA EveryNodeOk ==
    ASSUME Fits, StepOk
    PROVE  (\A n \in Node : NodeOk(n)) /\ LogsStep /\ SnapshotsGrow
  <1>1. AppliedGrows
    BY DEF StepOk
  <1>2. PICK p \in Node : NodeOk(p) /\ \A n \in Node \ {p} : Calm(n)
    BY DEF StepOk
  <1>3. \A n \in Node \ {p} : NodeOk(n) /\ Same(n)
    BY <1>1, <1>2, CalmNode
  <1>4. \A n \in Node : NodeOk(n)
    BY <1>2, <1>3
  <1> QED
    BY <1>2, <1>3, <1>4 DEF LogsStep, SnapshotsGrow, NodeOk

\* A request that is still in flight fits as before.
LEMMA ForwardedFits ==
    ASSUME Fits, ElectionShape, AppliedGrows, leaders \subseteq leaders', SnapshotsGrow,
           \A n \in Node : currentTerm[n] <= currentTerm'[n], currentTerm' \in [Node -> 0..MaxTerm],
           RestTypes', NEW x \in Requests, NEW m, Forwarded(x, m)
    PROVE  RequestFits(m)' /\ Fragment(m)' = Fragment(x)
  <1>1. RequestFits(x)
    BY DEF Fits, RequestsFit
  <1>2. m.from \in Node /\ m.from # m.to /\ m.term \in Nat /\ x.term = m.term /\ x.from = m.from
    <2>1. x.from \in Node /\ x.from # x.to /\ x.term \in 1..MaxTerm
      BY FragmentShape, Zenon
    <2>2. x.term \in Nat
      BY <2>1, Bounds
    <2> QED
      BY <2>1, <2>2 DEF Forwarded
  <1>3. [node |-> m.from, term |-> m.term] \in leaders'
    BY <1>1, <1>2 DEF RequestFits
  <1>4. CASE m.type = "AE"
    <2>1. Fragment(m)' = Fragment(x) /\ Fragment(m) = Fragment(x) /\ LastNew(m) = LastNew(x)
      BY <1>4 DEF Forwarded, Fragment, FirstOf, LastOf, LastNew
    <2> QED
      BY <1>1, <1>2, <1>3, <1>4, <2>1 DEF Forwarded, RequestFits, LastNew
  <1>5. CASE m.type = "IS"
    <2>1. m.snap = x.snap /\ m.term = x.term /\ SnapFits(x.snap) /\ x.snap.term <= x.term
      BY <1>1, <1>5 DEF Forwarded, RequestFits
    <2>2. SnapFits(m.snap)'
      BY <2>1, SnapshotStays
    <2>3. ASSUME m.term = currentTerm'[m.from] PROVE m.snap.index <= snap'[m.from].index
      <3>1. [node |-> m.from, term |-> m.term].term <= currentTerm[[node |-> m.from, term |-> m.term].node]
        BY <1>1, <1>2 DEF RequestFits, ElectionShape
      <3>2. currentTerm[m.from] = m.term
        BY <3>1, <2>3, <1>2 DEF ElectionShape
      <3>3. m.snap.index <= snap[m.from].index
        BY <3>2, <1>1, <1>5, <2>1, <1>2 DEF RequestFits, Forwarded
      <3>4. snap[m.from].index <= snap'[m.from].index
        BY <1>2 DEF SnapshotsGrow
      <3>5. snap'[m.from].index \in Nat /\ snap[m.from].index \in Nat
        <4>1. snap'[m.from] \in Snap
          BY <1>2 DEF RestTypes
        <4>2. snap'[m.from].index \in Nat
          BY <4>1, Bounds DEF Snap, Index
        <4> QED
          BY <1>2, <4>2, LogTypes DEF Fits
      <3>6. x.snap.index \in Nat
        <4>1. x.type = "IS"
          BY <1>5 DEF Forwarded
        <4>2. x.snap.index \in 0..MaxIndex
          BY <4>1, FragmentShape, Zenon
        <4> QED
          BY <4>2, Bounds
      <3> QED
        BY <3>3, <3>4, <3>5, <3>6, <2>1
    <2>4. Fragment(m)' = Fragment(x)
      <3>1. FirstOf(m) = 1 /\ LastOf(m) = x.snap.index /\ FirstOf(x) = 1 /\ LastOf(x) = x.snap.index
        BY <1>5, <2>1 DEF Forwarded, FirstOf, LastOf
      <3>2. \A i \in 1..x.snap.index : AppliedTerm(i)' = AppliedTerm(i)
        BY <2>1, KnownStays DEF SnapFits
      <3> QED
        BY <1>5, <3>1, <3>2, <2>1 DEF Forwarded, Fragment, FirstOf, LastOf
    <2> QED
      BY <1>2, <1>3, <1>5, <2>1, <2>2, <2>3, <2>4 DEF Forwarded, RequestFits
  <1> QED
    BY <1>4, <1>5, FragmentShape, Zenon DEF Forwarded

\* What a step of the election part gives.
LEMMA ElectionMovedFacts ==
    ASSUME Elections, ElectionMoved
    PROVE  /\ ElectionShape /\ EP!TypeOK /\ EP!TypeOK'
           /\ currentTerm' \in [Node -> 0..MaxTerm]
           /\ \A v \in leaders' \ leaders : currentTerm'[v.node] = v.term
  <1>1. ElectionShape
    BY ElectionFacts
  <1>2. EP!TypeOK /\ EP!TypeOK'
    BY DEF Elections, ElectionMoved, EP!SafetyInv, EP!TypeInv
  <1>3. currentTerm' \in [Node -> 0..MaxTerm]
    BY <1>2 DEF EP!TypeOK, EP!Term
  <1>4. \A v \in leaders' \ leaders : currentTerm'[v.node] = v.term
    BY DEF ElectionMoved, EP!ClaimStep, EP!WinnersReached
  <1> QED
    BY <1>1, <1>2, <1>3, <1>4

\* The claims of candidates stay honest, because no log gets worse.
LEMMA ElectionsNext ==
    ASSUME Fits, Elections, ElectionMoved, EP!VotesKept, StepOk
    PROVE  Elections' /\ ElectionStep
  <1>1. \A n \in Node : PositionAt(n)
    BY EveryNodeOk DEF NodeOk
  <1>2. EP!PositionKept
    BY <1>1 DEF PositionAt, EP!PositionKept
  <1>3. EP!TypeOK /\ EP!TypeOK'
    BY ElectionMovedFacts
  <1>4. EP!RoundsTraced /\ EP!MessagesTraced /\ EP!WinnersReached /\ leaders \subseteq leaders'
    BY DEF ElectionMoved, EP!ClaimStep
  <1>5. EP!ClaimsInv
    BY DEF Elections
  <1>6. EP!ClaimsInv'
    BY <1>2, <1>3, <1>4, <1>5, EP!ClaimsKept, NodeFinite, NodeAssumption, BoundAssumption, FlagAssumption
  <1> QED
    BY <1>6 DEF Elections, ElectionMoved, ElectionStep

\* The types and shapes stay.
LEMMA FitsNext ==
    ASSUME Fits, Elections, ElectionMoved, StepOk
    PROVE  Fits'
  <1>1. /\ (\A n \in Node : NodeOk(n)) /\ SnapshotsGrow /\ AppliedGrows /\ RestTypes' /\ MessagesOk
        /\ leaders \subseteq leaders' /\ (\A n \in Node : currentTerm[n] <= currentTerm'[n])
    BY EveryNodeOk DEF StepOk, ElectionMoved
  <1>2. /\ ElectionShape /\ EP!TypeOK'
        /\ currentTerm' \in [Node -> 0..MaxTerm]
    BY ElectionMovedFacts
  <1>3. NodesFit'
    BY <1>1 DEF NodesFit, NodeOk, AppliedGrows, RestTypes
  <1>4. IndicesInLog'
    BY <1>1 DEF IndicesInLog, NodeOk, Bounded
  <1>5. TypeOK'
    <2>1. E!TypeOK'
      BY <1>2 DEF E!TypeOK, EP!TypeOK, E!Term, EP!Term, E!HardState, EP!HardState, E!Follower, EP!Follower,
         E!Candidate, EP!Candidate, E!Leader, EP!Leader, E!Pos, EP!Pos, E!Round, EP!Round,
         E!VoteMsg, EP!VoteMsg, E!VoteRequest, EP!VoteRequest, E!VoteReply, EP!VoteReply,
         E!Victory, EP!Victory
    <2>2. \A n \in Node : (disk[n].snap)' \in Snap
      BY <1>1 DEF NodeOk, NodeFits, DiskFits, RestTypes
    <2> QED
      BY <1>1, <2>1, <2>2 DEF TypeOK, RestTypes, AppliedGrows, AppliedType
  <1>6. RequestsFit'
    <2>1. msgs' \subseteq AppendRequest \cup SnapshotRequest \cup Reply
      BY <1>1 DEF MessagesOk
    <2>2. ASSUME NEW m \in Requests' PROVE RequestFits(m)'
      <3>1. CASE NewRequest(m)
        BY <3>1 DEF NewRequest
      <3>2. CASE \E x \in Requests : Forwarded(x, m)
        BY <3>2, <1>1, <1>2, ForwardedFits
      <3> QED
        BY <2>2, <3>1, <3>2, <1>1 DEF MessagesOk
    <2>3. ASSUME NEW r \in Replies' PROVE [node |-> r.to, term |-> r.forTerm] \in leaders' /\ r.from # r.to
      BY <2>3, <1>1 DEF MessagesOk, ReplyFits, Fits, RequestsFit
    <2> QED
      BY <2>1, <2>2, <2>3 DEF RequestsFit
  <1> QED
    BY <1>3, <1>4, <1>5, <1>6 DEF Fits

\* Acknowledgements come from requests that have been taken over.
LEMMA AcksTraced ==
    ASSUME Fits, Elections, ElectionMoved, ElectionStep, StepOk
    PROVE  AckStep
  <1>1. ElectionShape /\ (\A v \in leaders' \ leaders : currentTerm'[v.node] = v.term)
        /\ currentTerm' \in [Node -> 0..MaxTerm] /\ \A n \in Node : currentTerm[n] <= currentTerm'[n]
    BY ElectionMovedFacts DEF ElectionMoved
  <1> SUFFICES ASSUME NEW l \in Node, NEW p \in Node, Crowned(l)', NEW i \in 1..MaxIndex, Acked(l, p, i)'
               PROVE  \/ NewAck(l, p, i)
                      \/ Crowned(l) /\ currentTerm'[l] = currentTerm[l] /\ Acked(l, p, i)
    BY DEF AckStep
  <1>2. /\ currentTerm[l] \in Nat /\ currentTerm'[l] \in Nat /\ currentTerm[l] <= currentTerm'[l]
        /\ i \in Nat /\ i > 0
    BY <1>1, Bounds DEF ElectionShape
  <1>3. matchIndex'[l][p] \in Nat
    <2>1. matchIndex' \in [Node -> [Node -> Index]]
      BY DEF StepOk, RestTypes
    <2> QED
      BY <2>1, Bounds DEF Index
  <1>4. \/ Crowned(l) /\ currentTerm'[l] = currentTerm[l]
        \/ [node |-> l, term |-> currentTerm'[l]] \in leaders' \ leaders
    BY CrownStep
  \* A victory of l that is recorded for its new term is one of its old.
  <1>5. ASSUME [node |-> l, term |-> currentTerm'[l]] \in leaders
        PROVE  Crowned(l) /\ currentTerm'[l] = currentTerm[l]
    <2>1. [node |-> l, term |-> currentTerm'[l]].term
            <= currentTerm[[node |-> l, term |-> currentTerm'[l]].node]
      BY <1>1, <1>5 DEF ElectionShape
    <2>2. currentTerm'[l] = currentTerm[l]
      BY <2>1, <1>2
    <2> QED
      BY <2>2, <1>5 DEF Crowned
  <1>6. CASE matchIndex'[l][p] >= i
    <2>1. matchIndex'[l][p] # 0
      BY <1>2, <1>3, <1>6
    <2>2. CASE /\ matchIndex'[l][p] = matchIndex[l][p]
               /\ \A e \in leaders' \ leaders : e.node # l
      <3>1. [node |-> l, term |-> currentTerm'[l]].node = l
        OBVIOUS
      <3>2. Crowned(l) /\ currentTerm'[l] = currentTerm[l]
        BY <1>4, <2>2, <3>1
      <3> QED
        BY <3>2, <2>2, <1>6 DEF Acked
    <2>3. CASE /\ currentTerm'[l] = currentTerm[l]
               /\ \E r \in Replies : /\ Accepting(r) /\ r.from = p /\ r.to = l
                                     /\ r.forTerm = currentTerm[l] /\ r.match = matchIndex'[l][p]
      <3>1. PICK r \in Replies : /\ Accepting(r) /\ r.from = p /\ r.to = l
                                 /\ r.forTerm = currentTerm[l] /\ r.match = matchIndex'[l][p]
        BY <2>3
      <3>2. Crowned(l)
        BY <3>1 DEF Fits, RequestsFit, Crowned
      <3>3. Acked(l, p, i)
        BY <3>1, <1>6 DEF Acked
      <3> QED
        BY <2>3, <3>2, <3>3
    <2> QED
      BY <2>1, <2>2, <2>3 DEF StepOk, MatchOk
  <1>7. CASE \E r \in Replies' : /\ Accepting(r) /\ r.from = p /\ r.to = l
                                 /\ r.forTerm = currentTerm'[l] /\ r.match >= i
    <2>1. PICK r \in Replies' : /\ Accepting(r) /\ r.from = p /\ r.to = l
                                /\ r.forTerm = currentTerm'[l] /\ r.match >= i
      BY <1>7
    <2>2. CASE r \in Replies
      <3>1. Crowned(l) /\ currentTerm'[l] = currentTerm[l]
        BY <2>1, <2>2, <1>5 DEF Fits, RequestsFit
      <3>2. Acked(l, p, i)
        BY <2>1, <2>2, <3>1 DEF Acked
      <3> QED
        BY <3>1, <3>2
    <2>3. CASE ReplyFits(r) /\ AckFits(r)
      <3>1. Crowned(l) /\ currentTerm'[l] = currentTerm[l]
        BY <2>1, <2>3, <1>5 DEF ReplyFits
      <3>2. PICK m \in Requests :
              /\ m.from = r.to /\ m.to = r.from /\ m.term = r.forTerm
              /\ r.match <= LastOf(m) /\ Followed(r.from, m) /\ Took(r.from, m)
        BY <2>1, <2>3 DEF AckFits
      <3>3. LastOf(m) \in 0..MaxIndex
        BY FragmentShape, Zenon
      <3>4. r.match \in Nat
        <4>1. r \in Reply
          BY <2>3 DEF ReplyFits
        <4>2. r.match \in 0..MaxIndex
          BY <4>1, <2>1 DEF Reply, Accepting, Index
        <4> QED
          BY <4>2, Bounds
      <3>5. i <= LastOf(m)
        BY <3>2, <3>3, <3>4, <2>1, <1>2, Bounds
      <3> QED
        BY <3>1, <3>2, <3>5, <2>1 DEF NewAck
    <2> QED
      BY <2>1, <2>2, <2>3 DEF StepOk, MessagesOk
  <1> QED
    BY <1>6, <1>7 DEF Acked

\* A step of the election part and of the rest is one RaftInvariant speaks of.
LEMMA StepFacts ==
    ASSUME RaftInv, ElectionMoved, EP!VotesKept, StepOk
    PROVE  Step2 /\ Fits' /\ Elections'
  <1>1. Fits /\ Elections /\ Histories /\ Commits /\ Sound
    BY DEF RaftInv, Fits, Sound
  <1>2. Elections' /\ ElectionStep
    BY <1>1, ElectionsNext
  <1>3. Fits'
    BY <1>1, FitsNext
  <1>4. /\ (\A n \in Node : NodeOk(n)) /\ LogsStep /\ SnapshotsGrow
        /\ MessagesOk /\ WinnersGrow /\ AppliedGrows /\ RestTypes'
    BY <1>1, EveryNodeOk DEF StepOk
  <1>5. AckStep
    BY <1>1, <1>2, AcksTraced
  <1>6. /\ ElectionShape /\ leaders \subseteq leaders' /\ currentTerm' \in [Node -> 0..MaxTerm]
        /\ \A n \in Node : currentTerm[n] <= currentTerm'[n]
    BY <1>1, ElectionMovedFacts DEF ElectionMoved
  <1>7. ASSUME NEW m \in Requests' PROVE RequestTraced(m) /\ RequestSecured(m)
    <2>1. CASE NewRequest(m)
      BY <2>1 DEF NewRequest, RequestTraced
    <2>2. CASE \E x \in Requests : Forwarded(x, m)
      <3>1. PICK x \in Requests : Forwarded(x, m)
        BY <2>2
      <3>2. Fragment(m)' = Fragment(x)
        BY <1>1, <1>4, <1>6, <3>1, ForwardedFits
      <3>3. RequestSecured(x)
        BY <1>1 DEF Commits, CommitsSecured
      <3>4. x.type = "AE" \/ x.type = "IS"
        BY DEF Requests
      <3>5. RequestSecured(m)
        BY <3>1, <3>3, <3>4 DEF RequestSecured, Forwarded
      <3> QED
        BY <3>2, <3>5 DEF RequestTraced
    <2> QED
      BY <2>1, <2>2, <1>4, <1>7 DEF MessagesOk
  <1>8. Step1
    BY <1>1, <1>2, <1>3, <1>4, <1>7 DEF Step1
  <1>9. Step2
    BY <1>1, <1>4, <1>5, <1>7, <1>8 DEF Step2, StepOk, NodeOk
  <1> QED
    BY <1>2, <1>3, <1>9

\* Such a step keeps the whole invariant.
LEMMA InvariantKept ==
    ASSUME RaftInv, ElectionMoved, EP!VotesKept, StepOk
    PROVE  RaftInv'
  <1>1. Step2 /\ Fits' /\ Elections'
    BY StepFacts
  <1>2. Histories' /\ Commits'
    BY <1>1, SafetyKept
  <1> QED
    BY <1>1, <1>2 DEF RaftInv, Fits

-----------------------------------------------------------------------------
(***************************************************************************)
(* What the operations on messages do to them.                             *)
(***************************************************************************)
ReplyOk(r) == r \in Replies \/ (ReplyFits(r) /\ AckFits(r))

RequestOk(m) ==
    /\ m \in AppendRequest \cup SnapshotRequest
    /\ NewRequest(m) \/ \E x \in Requests : Forwarded(x, m)
    /\ \A r \in m.answered : ReplyOk(r)

MessageOk(m) == RequestOk(m) \/ (m \in Reply /\ ReplyOk(m))

\* Requests and replies are told apart by their type.
LEMMA MessageTypes ==
    /\ \A m \in AppendRequest \cup SnapshotRequest : m.type \in {"AE", "IS"}
    /\ \A m \in Reply : m.type \notin {"AE", "IS"}
  BY DEF AppendRequest, SnapshotRequest, Reply

\* A step is right for the messages if it is for each.
LEMMA AllMessagesOk ==
    ASSUME \A m \in msgs' : MessageOk(m)
    PROVE  MessagesOk
  <1>1. ASSUME NEW m \in msgs', m.type \in {"AE", "IS"} PROVE RequestOk(m)
    BY <1>1, MessageTypes DEF MessageOk
  <1>2. ASSUME NEW m \in msgs', m.type \notin {"AE", "IS"} PROVE m \in Reply /\ ReplyOk(m)
    BY <1>2, MessageTypes DEF MessageOk, RequestOk
  <1>3. msgs' \subseteq AppendRequest \cup SnapshotRequest \cup Reply
    BY <1>1, <1>2 DEF RequestOk
  <1>4. \A m \in Requests' : NewRequest(m) \/ \E x \in Requests : Forwarded(x, m)
    BY <1>1 DEF Requests, RequestOk
  <1>5. \A r \in Replies' : ReplyOk(r)
    BY <1>1, <1>2 DEF Replies, Requests, RequestOk
  <1> QED
    BY <1>3, <1>4, <1>5 DEF MessagesOk, ReplyOk

\* A message that stays.
LEMMA OldMessage ==
    ASSUME Fits, NEW m \in msgs
    PROVE  MessageOk(m)
  <1>1. CASE m \in Requests
    <2>1. RequestFits(m) /\ m \in AppendRequest \cup SnapshotRequest
      BY <1>1 DEF Fits, RequestsFit, RequestFits
    <2>2. Forwarded(m, m)
      BY <2>1 DEF Forwarded, RequestFits
    <2>3. \A r \in m.answered : r \in Replies
      BY <1>1 DEF Replies
    <2> QED
      BY <1>1, <2>1, <2>2, <2>3 DEF MessageOk, RequestOk, ReplyOk
  <1>2. CASE m \notin Requests
    <2>1. m \in Replies /\ m \in Reply
      BY <1>2, MessageTypes DEF Replies, Requests, Fits, RequestsFit
    <2> QED
      BY <2>1 DEF MessageOk, ReplyOk
  <1> QED
    BY <1>1, <1>2

\* Losing a message is harmless.
LEMMA MessagesKept ==
    ASSUME Fits, msgs' \subseteq msgs
    PROVE  MessagesOk
  BY OldMessage, AllMessagesOk

\* A request whose caller has gone.
LEMMA AbandonedMessage ==
    ASSUME Fits, NEW x \in Requests
    PROVE  MessageOk([x EXCEPT !.live = FALSE])
  <1> DEFINE m == [x EXCEPT !.live = FALSE]
  <1>1. RequestFits(x) /\ x \in AppendRequest \cup SnapshotRequest
    BY DEF Fits, RequestsFit, RequestFits
  <1>2. /\ m \in AppendRequest \cup SnapshotRequest
        /\ m.type = x.type /\ m.from = x.from /\ m.to = x.to /\ m.term = x.term /\ m.answered = x.answered
        /\ x.type = "AE" => /\ m.prevIndex = x.prevIndex /\ m.prevTerm = x.prevTerm
                            /\ m.ents = x.ents /\ m.commit = x.commit
        /\ x.type = "IS" => m.snap = x.snap
    <2>1. CASE x \in AppendRequest
      BY <2>1, Zenon DEF AppendRequest
    <2>2. CASE x \in SnapshotRequest
      BY <2>2, Zenon DEF SnapshotRequest
    <2> QED
      BY <2>1, <2>2, <1>1
  <1>3. Forwarded(x, m)
    BY <1>1, <1>2 DEF Forwarded, RequestFits
  <1>4. \A r \in m.answered : r \in Replies
    BY <1>2 DEF Replies
  <1> QED
    BY <1>2, <1>3, <1>4, Zenon DEF MessageOk, RequestOk, ReplyOk

\* A reply goes to the caller, or to the network that delivers the request again.
LEMMA AnsweredMessages ==
    ASSUME Fits, NEW m \in Requests, NEW reply, Answer(m, reply), ReplyFits(reply), AckFits(reply),
           reply.from = m.to, reply.to = m.from, reply.forTerm = m.term
    PROVE  MessagesOk
  <1>1. RequestFits(m) /\ m \in AppendRequest \cup SnapshotRequest /\ m \in msgs
    BY DEF Fits, RequestsFit, RequestFits, Requests
  <1>2. MessageOk(reply)
    BY DEF MessageOk, ReplyOk, ReplyFits
  <1>3. ASSUME NEW r \in m.answered PROVE MessageOk(r)
    <2>1. r \in Replies
      BY DEF Replies
    <2>2. r \in Reply
      BY <1>1 DEF AppendRequest, SnapshotRequest
    <2> QED
      BY <2>1, <2>2 DEF MessageOk, ReplyOk
  <1>4. CASE msgs' = (msgs \ {m}) \cup
                       (IF m.live THEN (IF m.answered = {} THEN {reply} ELSE m.answered) ELSE {})
    BY <1>2, <1>3, <1>4, OldMessage, AllMessagesOk
  <1>5. CASE m.type = "AE" /\ msgs' = (msgs \ {m}) \cup {[m EXCEPT !.answered = {reply}]}
    <2> DEFINE x == [m EXCEPT !.answered = {reply}]
    <2>1. m \in AppendRequest
      BY <1>1, <1>5 DEF SnapshotRequest
    <2>2. reply \in Reply
      BY DEF ReplyFits
    <2>3. /\ x \in AppendRequest
          /\ x.type = m.type /\ x.from = m.from /\ x.to = m.to /\ x.term = m.term /\ x.answered = {reply}
          /\ x.prevIndex = m.prevIndex /\ x.prevTerm = m.prevTerm
          /\ x.ents = m.ents /\ x.commit = m.commit
      BY <2>1, <2>2 DEF AppendRequest
    <2>4. Forwarded(m, x)
      BY <1>5, <2>3 DEF Forwarded
    <2>5. MessageOk(x)
      BY <2>3, <2>4 DEF MessageOk, RequestOk, ReplyOk
    <2> QED
      BY <1>5, <2>5, OldMessage, AllMessagesOk
  <1> QED
    BY <1>4, <1>5 DEF Answer

\* A crash takes the callers of a node away.
LEMMA OrphanedMessages ==
    ASSUME Fits, NEW n \in Node, NEW S \in SUBSET msgs, msgs' = Orphaned(S, n)
    PROVE  MessagesOk
  <1>1. ASSUME NEW m \in msgs' PROVE MessageOk(m)
    <2>1. PICK x \in S : m = IF x.type \in {"AE", "IS"} /\ x.from = n
                             THEN [x EXCEPT !.live = FALSE] ELSE x
      BY <1>1 DEF Orphaned
    <2>2. CASE x.type \in {"AE", "IS"} /\ x.from = n
      <3>1. x \in Requests
        BY <2>2 DEF Requests
      <3> QED
        BY <2>1, <2>2, <3>1, AbandonedMessage
    <2>3. CASE ~(x.type \in {"AE", "IS"} /\ x.from = n)
      BY <2>1, <2>3, OldMessage
    <2> QED
      BY <2>2, <2>3
  <1> QED
    BY <1>1, AllMessagesOk

\* A new call to a peer gives up the one before.
LEMMA SentMessages ==
    ASSUME Fits, NEW n \in Node, NEW p \in Node, NEW req, Send(n, p, req), NewRequest(req),
           req \in AppendRequest \cup SnapshotRequest, req.answered = {}
    PROVE  MessagesOk
  <1>1. PICK kept \in SUBSET ((msgs \ CallUnderWay(n, p)) \cup Abandon(CallUnderWay(n, p))) :
            msgs' = kept \cup {req}
    BY DEF Send, Enqueue
  <1>2. CallUnderWay(n, p) \subseteq msgs
    BY DEF CallUnderWay
  <1>3. MessageOk(req)
    BY DEF MessageOk, RequestOk
  <1>4. ASSUME NEW m \in Abandon(CallUnderWay(n, p)) PROVE MessageOk(m)
    <2>1. PICK x \in CallUnderWay(n, p) : x.type \in {"AE", "IS"} /\ m = [x EXCEPT !.live = FALSE]
      BY DEF Abandon
    <2>2. x \in Requests
      BY <1>2, <2>1 DEF Requests
    <2> QED
      BY <2>1, <2>2, AbandonedMessage
  <1> QED
    BY <1>1, <1>3, <1>4, OldMessage, AllMessagesOk

-----------------------------------------------------------------------------
(***************************************************************************)
(* Steps that leave the logs alone.                                        *)
(***************************************************************************)

\* What the invariant gives.
LEMMA Given ==
    ASSUME RaftInv
    PROVE  /\ Fits /\ Sound /\ Elections /\ ElectionShape /\ TypeOK /\ RestTypes /\ AppliedType /\ StateMachineSafety
           /\ TermsSound /\ Coherent /\ WinnersOwn
           /\ CommitsSecured /\ AppliedSettled
           /\ \A n \in Node : role[n] = E!Leader => Crowned(n)
  <1>1. Fits /\ Sound /\ Elections /\ TypeOK /\ StateMachineSafety
    BY DEF RaftInv, Fits, Sound, NodesFit
  <1>2. ElectionShape
    BY <1>1, ElectionFacts
  <1>3. RestTypes /\ AppliedType
    BY <1>1 DEF TypeOK, RestTypes, Fits, NodesFit, AppliedType
  <1>4. \A n \in Node : role[n] = E!Leader => Crowned(n)
    BY <1>1 DEF Elections, EP!SafetyInv, EP!TypeInv, EP!LeaderRecorded, Crowned, E!Leader, EP!Leader
  <1> QED
    BY <1>1, <1>2, <1>3, <1>4 DEF RaftInv, Histories, Commits

\* Nothing is applied.
LEMMA NothingApplied ==
    ASSUME RaftInv, applied' = applied
    PROVE  AppliedGrows /\ \A a \in applied' : Settled(a[1], a[2])
  BY Given DEF AppliedGrows, AppliedType, StateMachineSafety, AppliedSettled

\* A step that touches neither logs nor indices is right if its messages are.
LEMMA QuietOk ==
    ASSUME RaftInv, UNCHANGED <<logVars, applyVars, leaderVars>>, faults' \in 0..MaxFaults,
           leaders' = leaders, MessagesOk
    PROVE  StepOk
  <1>1. UNCHANGED <<log, snap, disk, sm, commitIndex, lastApplied, applied, nextIndex, matchIndex>>
    BY DEF logVars, applyVars, leaderVars
  <1>2. RestTypes'
    BY <1>1, Given DEF RestTypes, Stores
  <1>3. AppliedGrows /\ \A a \in applied' : Settled(a[1], a[2])
    BY <1>1, NothingApplied
  <1>4. \A n \in Node : Calm(n)
    BY <1>1 DEF Calm
  <1>5. PICK p \in Node : TRUE
    BY NodeAssumption
  <1>6. NodeOk(p)
    BY <1>3, <1>4, <1>5, CalmNode, Given
  <1>7. MatchOk /\ WinnersGrow
    BY <1>1 DEF MatchOk, WinnersGrow
  <1> QED
    BY <1>2, <1>3, <1>4, <1>6, <1>7 DEF StepOk

\* The head of AppendEntries and InstallSnapshot.
LEMMA FollowIs ==
    ASSUME RaftInv, NEW m \in Requests, m.term >= currentTerm[m.to],
           E!FollowLeader(m.to, m.from, m.term) \/ E!DieFollowing(m.to, m.from, m.term)
    PROVE  Followed(m.to, m) /\ leaders' = leaders
  <1>1. m.to \in Node /\ m.term \in 1..MaxTerm /\ currentTerm \in [Node -> 0..MaxTerm]
    BY Given, FragmentShape, Zenon DEF ElectionShape
  <1>2. m.term \in Nat /\ currentTerm[m.to] \in Nat
    BY <1>1, Bounds
  <1>3. CASE m.term > currentTerm[m.to]
    BY <1>1, <1>2, <1>3 DEF E!FollowLeader, E!DieFollowing, E!stepDown, Followed
  <1>4. CASE ~(m.term > currentTerm[m.to])
    BY <1>1, <1>2, <1>4 DEF E!FollowLeader, E!DieFollowing, Followed
  <1> QED
    BY <1>3, <1>4

\* What the follower answers.
LEMMA AppendReplyFits ==
    ASSUME RaftInv, NEW m \in Requests, m.type = "AE", NEW ok \in BOOLEAN,
           NEW ci \in 0..MaxIndex + 1, NEW ct \in E!Term
    PROVE  LET r == AEReply(m, m.term, ok, ci, ct)
           IN  ReplyFits(r) /\ r.from = m.to /\ r.to = m.from /\ r.forTerm = m.term
               /\ (Accepting(r) <=> ok) /\ r.match = LastOf(m)
  <1> DEFINE r == AEReply(m, m.term, ok, ci, ct)
  <1>1. /\ m \in AppendRequest /\ m.from # m.to /\ [node |-> m.from, term |-> m.term] \in leaders
        /\ LastOf(m) \in 1..MaxIndex
    BY Given, FragmentShape
  <1>2. LastOf(m) = m.prevIndex + Len(m.ents) /\ LastOf(m) \in Index
    BY <1>1, Bounds DEF LastOf, LastNew, Index
  <1>3. /\ r.type = "AEReply" /\ r.from = m.to /\ r.to = m.from /\ r.forTerm = m.term /\ r.success = ok
        /\ r.match = LastOf(m)
    BY <1>2 DEF AEReply
  <1>4. /\ m.call = "replicate" /\ m.from \in Node /\ m.to \in Node /\ m.term \in 1..MaxTerm
    BY <1>1 DEF AppendRequest
  <1>5. r \in Reply
    BY <1>2, <1>4 DEF AEReply, Reply
  <1> QED
    BY <1>1, <1>3, <1>5 DEF ReplyFits, Accepting

\* The reply to InstallSnapshot acknowledges what the snapshot covers.
LEMMA SnapshotReplyFits ==
    ASSUME RaftInv, NEW m \in Requests, m.type = "IS"
    PROVE  LET r == ISReply(m)
           IN  ReplyFits(r) /\ r.from = m.to /\ r.to = m.from /\ r.forTerm = m.term /\ r.match = LastOf(m)
  <1> DEFINE r == ISReply(m)
  <1>1. /\ m \in SnapshotRequest /\ m.from # m.to /\ [node |-> m.from, term |-> m.term] \in leaders
        /\ LastOf(m) = m.snap.index
    BY Given, FragmentShape
  <1>2. /\ r.type = "ISReply" /\ r.from = m.to /\ r.to = m.from /\ r.forTerm = m.term
        /\ r.match = m.snap.index
    BY DEF ISReply
  <1>3. /\ m.call = "replicate" /\ m.from \in Node /\ m.to \in Node /\ m.term \in 1..MaxTerm
        /\ m.snap.index \in Index
    BY <1>1 DEF SnapshotRequest, Snap
  <1>4. r \in Reply
    BY <1>3 DEF ISReply, Reply
  <1> QED
    BY <1>1, <1>2, <1>4 DEF ReplyFits

\* A request of a deposed leader is refused: nothing but its reply changes.
LEMMA StaleLeaderOk ==
    ASSUME RaftInv, NEW m \in msgs, StaleLeader(m)
    PROVE  StepOk
  <1> DEFINE r == [type |-> "TermReply", call |-> m.call, from |-> m.to, to |-> m.from,
                   term |-> currentTerm[m.to], forTerm |-> m.term, live |-> TRUE]
  <1>1. m \in Requests /\ m.term < currentTerm[m.to] /\ Answer(m, r)
    BY DEF StaleLeader, Requests
  <1>2. /\ m.from # m.to /\ [node |-> m.from, term |-> m.term] \in leaders
        /\ m.from \in Node /\ m.to \in Node /\ m.term \in 1..MaxTerm /\ m.call = "replicate"
    BY <1>1, Given, FragmentShape DEF AppendRequest, SnapshotRequest
  <1>3. currentTerm[m.to] \in 1..MaxTerm
    BY <1>1, <1>2, Given, Bounds DEF ElectionShape
  <1>4. /\ r.type = "TermReply" /\ r.from = m.to /\ r.to = m.from /\ r.forTerm = m.term
    OBVIOUS
  <1>5. r \in Reply
    BY <1>2, <1>3 DEF Reply
  <1> HIDE DEF r
  <1>6. ReplyFits(r) /\ AckFits(r)
    BY <1>2, <1>4, <1>5 DEF ReplyFits, AckFits, Accepting
  <1>7. MessagesOk
    BY <1>1, <1>4, <1>6, Given, AnsweredMessages
  <1>8. UNCHANGED <<logVars, applyVars, leaderVars>> /\ faults' \in 0..MaxFaults /\ leaders' = leaders
    BY Given DEF StaleLeader, electionVars, RestTypes
  <1> QED
    BY <1>7, <1>8, QuietOk

\* The index a rejection proposes.
LEMMA FirstIndexType ==
    ASSUME RaftInv, NEW n \in Node, NEW t
    PROVE  firstIndexOfTerm(n, t) \in 0..MaxIndex + 1
  <1>1. lastIndex(n) \in Nat /\ lastIndex(n) <= MaxIndex /\ snap[n].index \in Nat /\ snap[n].index <= MaxIndex
    BY Given, FullLogShape, LogTypes, Bounds
  <1>2. CASE IndicesOfTerm(n, t) = {}
    BY <1>1, <1>2, Bounds DEF firstIndexOfTerm
  <1>3. CASE IndicesOfTerm(n, t) # {}
    <2>1. IndicesOfTerm(n, t) \in SUBSET Nat /\ \A i \in IndicesOfTerm(n, t) : i <= MaxIndex
      BY <1>1, Bounds DEF IndicesOfTerm
    <2>2. Min(IndicesOfTerm(n, t)) \in IndicesOfTerm(n, t)
      BY <1>3, <2>1, MinOfNaturals
    <2> QED
      BY <1>3, <2>1, <2>2, Bounds DEF firstIndexOfTerm
  <1> QED
    BY <1>2, <1>3

\* The terms a node looks up.
LEMMA TermAtType ==
    ASSUME RaftInv, NEW n \in Node, NEW i \in Int, i >= snap[n].index, i <= lastIndex(n)
    PROVE  termAt(n, i) \in E!Term
  <1>1. snap[n] \in Snap /\ snap[n].index \in Nat
    BY Given, LogTypes DEF RestTypes
  <1>2. CASE i = snap[n].index
    BY <1>1, <1>2 DEF termAt, Snap
  <1>3. CASE i # snap[n].index
    <2>1. i \in Held(n)
      BY <1>1, <1>3 DEF Held, lastIndex
    <2>2. entryAt(n, i) \in 1..MaxTerm
      BY <2>1, Given, LogTypes
    <2> QED
      BY <1>3, <2>2, Bounds DEF termAt, E!Term
  <1> QED
    BY <1>2, <1>3

\* AppendEntries that fails the check of PrevLogIndex changes no log.
LEMMA RejectAppendOk ==
    ASSUME RaftInv, NEW m \in msgs, RejectAppend(m)
    PROVE  StepOk
  <1>1. m \in Requests /\ m.type = "AE" /\ m.term >= currentTerm[m.to] /\ E!FollowLeader(m.to, m.from, m.term)
        /\ UNCHANGED <<logVars, applyVars, leaderVars, faults>> /\ (TooShort(m) \/ Mismatch(m))
    BY DEF RejectAppend, Requests
  <1>2. leaders' = leaders
    BY <1>1, FollowIs
  <1> DEFINE ct == IF TooShort(m) THEN 0 ELSE termAt(m.to, m.prevIndex)
             ci == IF TooShort(m) THEN lastIndex(m.to) + 1 ELSE firstIndexOfTerm(m.to, ct)
             r  == AEReply(m, m.term, FALSE, ci, ct)
  <1>3. m \in AppendRequest /\ m.to \in Node /\ m.prevIndex \in Nat
    <2>1. m \in AppendRequest /\ m.to \in Node
      BY <1>1, Given, FragmentShape, Zenon
    <2> QED
      BY <2>1, Bounds DEF AppendRequest, Index
  <1>4. lastIndex(m.to) \in Nat /\ lastIndex(m.to) <= MaxIndex
    BY <1>3, Given, FullLogShape, Bounds
  <1>5. ct \in E!Term
    <2>1. CASE TooShort(m)
      BY <2>1, Bounds DEF E!Term
    <2>2. CASE ~TooShort(m)
      BY <1>1, <1>3, <1>4, <2>2, TermAtType DEF Mismatch, TooShort
    <2> QED
      BY <2>1, <2>2
  <1>6. ci \in 0..MaxIndex + 1
    <2>1. CASE TooShort(m)
      BY <2>1, <1>4, Bounds
    <2>2. CASE ~TooShort(m)
      BY <1>3, <2>2, FirstIndexType
    <2> QED
      BY <2>1, <2>2
  <1>7. Answer(m, r)
    BY Zenon DEF RejectAppend
  <1> HIDE DEF ct, ci
  <1>8. ReplyFits(r) /\ r.from = m.to /\ r.to = m.from /\ r.forTerm = m.term /\ ~Accepting(r)
    BY <1>1, <1>5, <1>6, AppendReplyFits, Zenon
  <1> HIDE DEF r
  <1>9. MessagesOk
    BY <1>1, <1>7, <1>8, Given, AnsweredMessages DEF AckFits
  <1> QED
    BY <1>1, <1>2, <1>9, QuietOk, Given DEF RestTypes

\* InstallSnapshot of a snapshot the node already has changes no log.
LEMMA SkipSnapshotOk ==
    ASSUME RaftInv, NEW m \in msgs, SkipSnapshot(m)
    PROVE  StepOk
  <1>1. m \in Requests /\ m.type = "IS" /\ m.term >= currentTerm[m.to] /\ E!FollowLeader(m.to, m.from, m.term)
        /\ UNCHANGED <<logVars, applyVars, leaderVars, faults>> /\ m.snap.index <= snap[m.to].index
        /\ Answer(m, ISReply(m))
    BY DEF SkipSnapshot, Requests
  <1>2. leaders' = leaders /\ Followed(m.to, m)
    BY <1>1, FollowIs
  <1>3. UNCHANGED <<log, snap, applied>>
    BY <1>1 DEF logVars, applyVars
  <1>4. AppliedGrows
    BY <1>3, NothingApplied
  <1>5. m.to \in Node /\ LastOf(m) = m.snap.index /\ FirstOf(m) = 1 /\ OnInterval(Fragment(m), FirstOf(m), LastOf(m))
        /\ LastOf(m) \in 0..MaxIndex
    BY <1>1, Given, FragmentShape, Zenon
  <1>6. FullLog(m.to)' = FullLog(m.to)
    BY <1>3, <1>4, <1>5, SameLog, Given
  <1>7. LogShape(m.to) /\ snap[m.to].index \in Nat
    BY <1>5, LogShapes, LogTypes, Given
  <1>8. Took(m.to, m)
    <2> SUFFICES ASSUME NEW i \in DOMAIN Fragment(m)
                 PROVE  i \in DOMAIN FullLog(m.to)' /\ FullLog(m.to)'[i] = Fragment(m)[i]
      BY DEF Took
    <2>1. i \in 1..m.snap.index /\ i \in 1..snap[m.to].index
      BY <1>1, <1>5, <1>7, Bounds DEF OnInterval
    <2>2. Fragment(m)[i] = AppliedTerm(i)
      BY <2>1, <1>1, <1>5 DEF Fragment
    <2>3. i <= lastIndex(m.to) /\ FullLog(m.to)[i] = AppliedTerm(i)
      BY <2>1, <1>7 DEF LogShape
    <2>4. i \in DOMAIN FullLog(m.to)
      BY <2>1, <2>3, <1>7, Bounds DEF LogShape, OnInterval
    <2> QED
      BY <1>6, <2>2, <2>3, <2>4
  <1>9. ReplyFits(ISReply(m)) /\ ISReply(m).from = m.to /\ ISReply(m).to = m.from
        /\ ISReply(m).forTerm = m.term /\ ISReply(m).match = LastOf(m)
    BY <1>1, SnapshotReplyFits
  <1>10. AckFits(ISReply(m))
    BY <1>1, <1>2, <1>5, <1>8, <1>9, Bounds DEF AckFits
  <1>11. MessagesOk
    BY <1>1, <1>9, <1>10, Given, AnsweredMessages
  <1> QED
    BY <1>1, <1>2, <1>11, QuietOk, Given DEF RestTypes

\* Replies that only take a message away.
LEMMA ReplyDropsOk ==
    ASSUME RaftInv, NEW m \in msgs, ReplyNewerTerm(m) \/ ReplyStale(m)
    PROVE  StepOk
  <1>1. msgs' = msgs \ {m} /\ UNCHANGED <<logVars, applyVars, leaderVars, faults>>
    BY DEF ReplyNewerTerm, ReplyStale
  <1>2. leaders' = leaders
    BY DEF ReplyNewerTerm, ReplyStale, E!LearnTerm, electionVars
  <1>3. MessagesOk
    BY <1>1, Given, MessagesKept
  <1> QED
    BY <1>1, <1>2, <1>3, QuietOk, Given DEF RestTypes

\* What a leader has.
LEMMA LeaderIs ==
    ASSUME RaftInv, NEW n \in Node, role[n] = E!Leader
    PROVE  /\ Crowned(n) /\ currentTerm[n] \in 1..MaxTerm
           /\ lastTerm(n) = currentTerm[n] /\ lastIndex(n) \in 1..MaxIndex
           /\ FullLog(n)[lastIndex(n)] = currentTerm[n]
  <1>1. Crowned(n)
    BY Given
  <1>2. currentTerm[n] \in 1..MaxTerm
    <2>1. [node |-> n, term |-> currentTerm[n]].term \in 1..MaxTerm
      BY <1>1, Given DEF Crowned, ElectionShape
    <2> QED
      BY <2>1
  <1>3. lastTerm(n) = currentTerm[n]
    BY <1>1, Given DEF WinnersOwn
  <1>4. LogShape(n)
    BY LogShapes, Given
  <1>5. lastIndex(n) # 0
    BY <1>2, <1>3, <1>4, Bounds DEF LogShape
  <1>6. lastIndex(n) \in 1..MaxIndex
    BY <1>4, <1>5, Bounds DEF LogShape
  <1> QED
    BY <1>1, <1>2, <1>3, <1>4, <1>6, Bounds DEF LogShape

\* A committed entry of a node is secured, in a term the node has reached.
LEMMA CommitIs ==
    ASSUME RaftInv, NEW n \in Node, commitIndex[n] > 0
    PROVE  \E t \in 1..MaxTerm : t <= currentTerm[n] /\ Secured(commitIndex[n], t)
                                 /\ commitIndex[n] \in 1..lastIndex(n) /\ FullLog(n)[commitIndex[n]] = t
  <1>1. commitIndex[n] \in 0..MaxIndex /\ commitIndex[n] <= lastIndex(n) /\ lastIndex(n) \in Nat
    BY Given, LogTypes, Bounds DEF RestTypes, Index, Fits, IndicesInLog
  <1>2. commitIndex[n] \in 1..MaxIndex /\ commitIndex[n] \in 1..lastIndex(n)
    BY <1>1, Bounds
  <1>3. SecuredAt(n, commitIndex[n])
    BY <1>2, Given DEF CommitsSecured
  <1>4. LogShape(n)
    BY LogShapes, Given
  <1>5. FullLog(n)[commitIndex[n]] <= currentTerm[n]
    BY <1>2, <1>4, Given DEF TermsSound, LogShape, OnInterval
  <1> QED
    BY <1>2, <1>3, <1>5 DEF SecuredAt

-----------------------------------------------------------------------------
(***************************************************************************)
(* Sending.                                                                *)
(***************************************************************************)
LEMMA SliceIs ==
    ASSUME TypeOK, NEW n \in Node, NEW from \in Int, from >= snap[n].index + 1, from <= lastIndex(n) + 1
    PROVE  /\ sliceFrom(n, from) \in Seq(1..MaxTerm)
           /\ Len(sliceFrom(n, from)) = lastIndex(n) + 1 - from
           /\ \A k \in 1..lastIndex(n) + 1 - from : sliceFrom(n, from)[k] = entryAt(n, from + k - 1)
  <1>1. /\ snap[n].index \in Nat /\ log[n] \in Seq(1..MaxTerm) /\ Len(log[n]) \in Nat
        /\ lastIndex(n) = snap[n].index + Len(log[n])
    BY LogTypes DEF lastIndex
  <1> DEFINE lo == from - snap[n].index
             hi == Len(log[n])
  <1>2. lo \in Int /\ hi \in Int /\ lo >= 1 /\ lo <= hi + 1
    BY <1>1
  <1>3. ASSUME NEW i \in lo..hi PROVE log[n][i] \in 1..MaxTerm
    <2>1. i \in 1..Len(log[n])
      BY <1>1, <1>2
    <2> QED
      BY <1>1, <2>1, ElementOfSeq, Zenon
  <1>4. sliceFrom(n, from) = SubSeq(log[n], lo, hi)
    BY DEF sliceFrom
  <1>5. hi - lo + 1 = lastIndex(n) + 1 - from
    BY ONLY <1>1, from \in Int
  <1> HIDE DEF lo, hi
  <1>6. /\ SubSeq(log[n], lo, hi) \in Seq(1..MaxTerm)
        /\ Len(SubSeq(log[n], lo, hi)) = IF lo <= hi THEN hi - lo + 1 ELSE 0
        /\ \A i \in 1..hi - lo + 1 : SubSeq(log[n], lo, hi)[i] = log[n][lo + i - 1]
    BY <1>2, <1>3, SubSeqProperties
  <1>7. Len(SubSeq(log[n], lo, hi)) = hi - lo + 1
    BY <1>2, <1>6
  <1>8. ASSUME NEW k \in 1..hi - lo + 1
        PROVE  log[n][lo + k - 1] = entryAt(n, from + k - 1)
    <2>1. entryAt(n, from + k - 1) = log[n][(from + k - 1) - snap[n].index]
      BY DEF entryAt
    <2>2. (from + k - 1) - snap[n].index = lo + k - 1
      BY <1>1, <1>8, <1>2 DEF lo
    <2> QED
      BY <2>1, <2>2
  <1> QED
    BY <1>4, <1>5, <1>6, <1>7, <1>8

\* sendAppendEntries sends a piece of the leader's log, from PrevLogIndex on.
LEMMA SendAppendEntriesOk ==
    ASSUME RaftInv, NEW n \in Node, NEW p \in Node, SendAppendEntries(n, p)
    PROVE  StepOk
  <1> DEFINE ni == nextIndex[n][p]
             pt == termAt(n, ni - 1)
             es == sliceFrom(n, ni)
  <1>0. PICK req : req = [type |-> "AE", call |-> "replicate", from |-> n, to |-> p,
                          term |-> currentTerm[n], prevIndex |-> ni - 1,
                          prevTerm |-> pt, ents |-> es,
                          commit |-> commitIndex[n], live |-> TRUE, answered |-> {}]
    BY Zenon
  <1>1. /\ role[n] = E!Leader /\ p # n
        /\ ni > snap[n].index /\ ni - 1 >= snap[n].index /\ ni - 1 <= lastIndex(n)
        /\ Send(n, p, req)
        /\ UNCHANGED <<electionVars, logVars, applyVars, leaderVars, faults>>
    BY <1>0 DEF SendAppendEntries, HasIndex
  <1>2. /\ ni \in Nat /\ ni >= 1 /\ snap[n].index \in Nat /\ lastIndex(n) \in Nat /\ lastIndex(n) <= MaxIndex
        /\ commitIndex[n] \in Nat /\ commitIndex[n] <= lastIndex(n)
    <2>1. ni \in 1..MaxIndex + 1 /\ commitIndex[n] \in 0..MaxIndex
      BY Given DEF RestTypes, Index
    <2>2. commitIndex[n] <= lastIndex(n)
      BY Given DEF Fits, IndicesInLog
    <2>3. lastIndex(n) \in 0..MaxIndex /\ snap[n].index \in Nat
      BY Given, FullLogShape, LogTypes
    <2> QED
      BY <2>1, <2>2, <2>3, Bounds
  <1> HIDE DEF ni
  <1>3. UNCHANGED <<currentTerm, leaders, log, snap, applied, commitIndex>>
    BY <1>1 DEF electionVars, logVars, applyVars
  <1>4. /\ Crowned(n) /\ currentTerm[n] \in 1..MaxTerm /\ lastIndex(n) \in 1..MaxIndex
        /\ FullLog(n)[lastIndex(n)] = currentTerm[n]
    BY <1>1, LeaderIs
  <1>5. LogShape(n)
    BY LogShapes, Given
  <1>6. termAt(n, ni - 1) \in E!Term
    BY <1>1, <1>2, TermAtType
  <1>7. /\ sliceFrom(n, ni) \in Seq(1..MaxTerm)
        /\ Len(sliceFrom(n, ni)) = lastIndex(n) + 1 - ni
        /\ \A k \in 1..lastIndex(n) + 1 - ni : sliceFrom(n, ni)[k] = entryAt(n, ni + k - 1)
    <2>1. TypeOK /\ ni \in Int /\ ni >= snap[n].index + 1 /\ ni <= lastIndex(n) + 1
      BY <1>1, <1>2, Given
    <2> QED
      BY <2>1, SliceIs
  <1> HIDE DEF pt, es
  <1>8. /\ req.type = "AE" /\ req.from = n /\ req.to = p /\ req.term = currentTerm[n]
        /\ req.prevIndex = ni - 1 /\ req.prevTerm = pt /\ req.ents = es
        /\ req.commit = commitIndex[n] /\ req.answered = {}
    BY <1>0
  <1>9. req \in AppendRequest
    <2>1. pt \in E!Term /\ es \in Log /\ ni - 1 \in Index /\ commitIndex[n] \in Index
      BY <1>1, <1>2, <1>6, <1>7, Bounds DEF Log, Index, pt, es
    <2> QED
      BY <2>1, <1>4, <1>0 DEF AppendRequest
  <1>10. LastNew(req) = lastIndex(n) /\ LastOf(req) = lastIndex(n)
    BY <1>2, <1>7, <1>8 DEF LastNew, LastOf, es
  <1>11. FirstOf(req) = IF ni - 1 > 0 THEN ni - 1 ELSE 1
    BY <1>8 DEF FirstOf
  <1>12. ASSUME NEW i \in FirstOf(req)..LastOf(req) PROVE Fragment(req)[i] = FullLog(n)[i] /\ i \in 1..lastIndex(n)
    <2>1. i \in 1..lastIndex(n) /\ i \in Nat /\ i >= ni - 1
      BY <1>2, <1>10, <1>11, <1>12
    <2>2. CASE i = ni - 1
      <3>1. Fragment(req)[i] = pt
        BY <1>8, <2>2, <1>12 DEF Fragment
      <3>2. termAt(n, i) = FullLog(n)[i]
        BY <2>1, <2>2, <1>1, Given, TermAtIs
      <3> QED
        BY <2>1, <2>2, <3>1, <3>2 DEF pt
    <2>3. CASE i # ni - 1
      <3>1. Fragment(req)[i] = es[i - (ni - 1)]
        BY <1>8, <2>3, <1>12 DEF Fragment
      <3>2. i - (ni - 1) \in 1..lastIndex(n) + 1 - ni
        BY <2>1, <2>3, <1>2
      <3>3. ni + (i - (ni - 1)) - 1 = i
        BY <2>1, <1>2
      <3>4. es[i - (ni - 1)] = entryAt(n, i)
        BY <3>2, <3>3, <1>7 DEF es
      <3>5. i \in Held(n)
        BY <2>1, <2>3, <1>1, <1>2 DEF Held
      <3> QED
        BY <2>1, <3>1, <3>4, <3>5, <1>5 DEF LogShape
    <2> QED
      BY <2>2, <2>3
  <1>13. PartOf(Fragment(req), FullLog(n))
    <2>1. DOMAIN Fragment(req) = FirstOf(req)..LastOf(req)
      BY DEF Fragment
    <2>2. DOMAIN FullLog(n) = 1..lastIndex(n)
      BY <1>5 DEF LogShape, OnInterval
    <2> QED
      BY <1>12, <2>1, <2>2 DEF PartOf
  <1>14. RequestFits(req)
    <2>1. req.prevIndex = 0 <=> req.prevTerm = 0
      <3>1. CASE ni - 1 = 0
        <4>1. snap[n].index = 0 /\ SnapFits(snap[n])
          BY <3>1, <1>1, <1>2, Given DEF Fits, NodesFit, NodeFits
        <4>2. pt = 0
          BY <3>1, <4>1 DEF pt, termAt, SnapFits
        <4> QED
          BY <3>1, <4>2, <1>8
      <3>2. CASE ni - 1 # 0
        <4>1. ni - 1 \in 1..lastIndex(n)
          BY <3>2, <1>1, <1>2
        <4>2. pt = FullLog(n)[ni - 1]
          BY <4>1, <1>1, Given, TermAtIs DEF pt
        <4>3. pt \in 1..MaxTerm
          BY <4>1, <4>2, <1>5 DEF LogShape
        <4> QED
          BY <3>2, <4>3, <1>8, Bounds
      <3> QED
        BY <3>1, <3>2
    <2>2. LastNew(req) \in FirstOf(req)..LastOf(req)
      BY <1>2, <1>4, <1>10, <1>11, <1>1
    <2>3. Fragment(req)[LastNew(req)] = req.term
      BY <2>2, <1>12, <1>10, <1>4, <1>8
    <2> QED
      BY <1>1, <1>2, <1>4, <1>8, <1>9, <1>10, <2>1, <2>3 DEF RequestFits, Crowned
  <1>15. RequestSecured(req)
    <2>1. CASE commitIndex[n] = 0
      BY <2>1, <1>8 DEF RequestSecured
    <2>2. CASE commitIndex[n] # 0
      <3>1. PICK t \in 1..MaxTerm : t <= currentTerm[n] /\ Secured(commitIndex[n], t)
        BY <2>2, <1>2, CommitIs
      <3>2. t \in 1..currentTerm[n]
        BY <3>1, <1>4, Bounds
      <3> QED
        BY <3>1, <3>2, <1>8 DEF RequestSecured
    <2> QED
      BY <2>1, <2>2
  <1>16. NewRequest(req)
    <2>1. Fragment(req)' = Fragment(req)
      BY <1>8 DEF Fragment, FirstOf, LastOf, LastNew
    <2>2. RequestFits(req)'
      BY <1>8, <1>14, <1>3, <2>1 DEF RequestFits, LastNew
    <2> QED
      BY <1>13, <1>15, <2>1, <2>2 DEF NewRequest
  <1>17. MessagesOk
    BY <1>1, <1>8, <1>9, <1>16, Given, SentMessages
  <1> QED
    BY <1>1, <1>3, <1>17, QuietOk, Given DEF RestTypes

\* What a node has compacted is secured.
LEMMA SnapshotIs ==
    ASSUME RaftInv, NEW n \in Node
    PROVE  /\ snap[n] \in Snap /\ SnapFits(snap[n]) /\ snap[n].index \in Nat
           /\ snap[n].index <= lastIndex(n) /\ snap[n].index <= MaxIndex
           /\ snap[n].index > 0 => /\ Secured(snap[n].index, snap[n].term)
                                   /\ snap[n].index \in 1..lastIndex(n) /\ snap[n].index \in 1..MaxIndex
                                   /\ FullLog(n)[snap[n].index] = snap[n].term
  <1>1. snap[n] \in Snap /\ SnapFits(snap[n]) /\ snap[n].index \in Nat /\ snap[n].index <= MaxIndex
    BY Given, LogTypes DEF RestTypes, Fits, NodesFit, NodeFits
  <1>2. LogShape(n)
    BY LogShapes, Given
  <1>3. lastIndex(n) \in Nat
    BY <1>2, Bounds DEF LogShape
  <1>4. snap[n].index <= lastIndex(n)
    <2>1. CASE snap[n].index = 0
      BY <2>1, <1>3
    <2>2. CASE snap[n].index # 0
      <3>1. snap[n].index \in 1..snap[n].index
        BY <2>2, <1>1
      <3> QED
        BY <3>1, <1>2 DEF LogShape
    <2> QED
      BY <2>1, <2>2
  <1>5. ASSUME snap[n].index > 0
        PROVE  /\ snap[n].index \in 1..lastIndex(n) /\ snap[n].index \in 1..MaxIndex
               /\ FullLog(n)[snap[n].index] = snap[n].term
               /\ Secured(snap[n].index, snap[n].term)
    <2>1. snap[n].index \in 1..lastIndex(n) /\ snap[n].index \in 1..MaxIndex
      BY <1>1, <1>3, <1>4, <1>5, Bounds
    <2>2. FullLog(n)[snap[n].index] = termAt(n, snap[n].index)
      BY <2>1, <1>1, Given, TermAtIs
    <2>3. FullLog(n)[snap[n].index] = snap[n].term
      BY <2>2 DEF termAt
    <2>4. SecuredAt(n, snap[n].index)
      BY <2>1, Given DEF CommitsSecured
    <2> QED
      BY <2>1, <2>3, <2>4 DEF SecuredAt
  <1> QED
    BY <1>1, <1>4, <1>5

\* sendSnapshot sends applied entries.
LEMMA SendSnapshotOk ==
    ASSUME RaftInv, NEW n \in Node, NEW p \in Node, SendSnapshot(n, p)
    PROVE  StepOk
  <1>0. PICK req : req = [type |-> "IS", call |-> "replicate", from |-> n, to |-> p,
                          term |-> currentTerm[n], snap |-> snap[n], live |-> TRUE,
                          answered |-> {}]
    BY Zenon
  <1>1. /\ role[n] = E!Leader /\ p # n
        /\ Send(n, p, req)
        /\ UNCHANGED <<electionVars, logVars, applyVars, leaderVars, faults>>
    BY <1>0 DEF SendSnapshot
  <1>2. UNCHANGED <<currentTerm, leaders, log, snap, applied>>
    BY <1>1 DEF electionVars, logVars, applyVars
  <1>3. /\ Crowned(n) /\ currentTerm[n] \in 1..MaxTerm
    BY <1>1, LeaderIs
  <1>4. /\ snap[n] \in Snap /\ SnapFits(snap[n]) /\ snap[n].index \in Nat
        /\ snap[n].index <= lastIndex(n) /\ snap[n].index <= MaxIndex
        /\ snap[n].index > 0 => /\ Secured(snap[n].index, snap[n].term)
                                /\ snap[n].index \in 1..lastIndex(n)
                                /\ FullLog(n)[snap[n].index] = snap[n].term
    BY SnapshotIs
  <1>5. /\ req.type = "IS" /\ req.from = n /\ req.to = p /\ req.term = currentTerm[n]
        /\ req.snap = snap[n] /\ req.answered = {}
    BY <1>0
  <1>6. req \in SnapshotRequest
    BY <1>0, <1>3, <1>4 DEF SnapshotRequest
  <1>7. LogShape(n)
    BY LogShapes, Given
  <1>8. FirstOf(req) = 1 /\ LastOf(req) = snap[n].index
    BY <1>5 DEF FirstOf, LastOf
  <1>9. PartOf(Fragment(req), FullLog(n))
    <2>1. DOMAIN Fragment(req) = 1..snap[n].index
      BY <1>8 DEF Fragment
    <2>2. \A i \in 1..snap[n].index : Fragment(req)[i] = AppliedTerm(i)
      BY <1>5, <1>8 DEF Fragment
    <2>3. DOMAIN FullLog(n) = 1..lastIndex(n)
      BY <1>7 DEF LogShape, OnInterval
    <2>4. \A i \in 1..snap[n].index : i \in 1..lastIndex(n) /\ FullLog(n)[i] = AppliedTerm(i)
      BY <1>7, <1>4, Bounds DEF LogShape
    <2> QED
      BY <2>1, <2>2, <2>3, <2>4 DEF PartOf
  <1>10. snap[n].term <= currentTerm[n]
    <2>1. CASE snap[n].index > 0
      BY <2>1, <1>4, <1>7, Given DEF TermsSound, LogShape, OnInterval
    <2>2. CASE ~(snap[n].index > 0)
      BY <2>2, <1>3, <1>4, Bounds DEF SnapFits
    <2> QED
      BY <2>1, <2>2
  <1>11. RequestFits(req)
    BY <1>1, <1>3, <1>4, <1>5, <1>6, <1>10 DEF RequestFits, Crowned
  <1>12. RequestSecured(req)
    BY <1>4, <1>5 DEF RequestSecured
  <1>13. NewRequest(req)
    <2>1. Fragment(req)' = Fragment(req)
      BY <1>2, <1>5 DEF Fragment, FirstOf, LastOf, LastNew, AppliedTerm
    <2>2. RequestFits(req)'
      BY <1>5, <1>11, <1>2 DEF RequestFits, SnapFits, Known
    <2> QED
      BY <1>9, <1>12, <2>1, <2>2 DEF NewRequest
  <1>14. MessagesOk
    BY <1>1, <1>5, <1>6, <1>13, Given, SentMessages
  <1> QED
    BY <1>1, <1>2, <1>14, QuietOk, Given DEF RestTypes

-----------------------------------------------------------------------------
(***************************************************************************)
(* Replies that change the leader's bookkeeping.                           *)
(***************************************************************************)

\* A step that changes commit indices and bookkeeping only.
LEMMA BookkeepingOk ==
    ASSUME RaftInv, UNCHANGED <<electionVars, logVars, sm, lastApplied, applied, faults>>,
           NEW n \in Node, commitIndex' \in [Node -> Index], \A p \in Node \ {n} : commitIndex'[p] = commitIndex[p],
           commitIndex[n] <= commitIndex'[n], commitIndex'[n] <= lastIndex(n), CommitStep(n),
           nextIndex' \in [Node -> [Node -> 1..(MaxIndex + 1)]],
           matchIndex' \in [Node -> [Node -> Index]], MatchOk, MessagesOk
    PROVE  StepOk
  <1>1. UNCHANGED <<log, snap, disk, applied, lastApplied, sm, leaders, faults>>
    BY DEF logVars, electionVars
  <1>2. RestTypes'
    BY <1>1, Given DEF RestTypes, Stores
  <1>3. AppliedGrows /\ \A a \in applied' : Settled(a[1], a[2])
    BY <1>1, NothingApplied
  <1>4. \A p \in Node \ {n} : Calm(p)
    BY <1>1 DEF Calm
  <1>5. /\ FullLog(n)' = FullLog(n) /\ lastIndex(n)' = lastIndex(n) /\ Held(n)' = Held(n)
        /\ \A i : entryAt(n, i)' = entryAt(n, i)
        /\ LastPos'[n] = LastPos[n]
    BY <1>1, <1>3, Given, SameLog
  <1>6. NodeOk(n)
    <2>1. NodeFits(n)'
      <3>1. SnapFits(snap[n])'
        BY <1>1, Given, Zenon DEF SnapFits, Known, Fits, NodesFit, NodeFits
      <3>2. DiskFits(n)'
        BY <1>1, <1>5, Given DEF DiskFits, Fits, NodesFit, NodeFits
      <3> QED
        BY <1>1, <1>5, <3>1, <3>2, Given DEF Fits, NodesFit, NodeFits
    <2>2. Bounded(n)'
      <3>1. /\ snap[n].index <= lastApplied[n] /\ lastApplied[n] <= commitIndex[n]
        BY Given DEF Fits, IndicesInLog
      <3>2. lastApplied[n] \in Nat /\ commitIndex[n] \in Nat /\ commitIndex'[n] \in Nat
        BY Given, Bounds DEF RestTypes, Index
      <3> QED
        BY <1>1, <1>5, <3>1, <3>2 DEF Bounded
    <2>3. PositionAt(n)
      <3>1. LastPos[n].index \in Nat
        BY PosTypes, Given, Zenon
      <3>2. EP!UpToDate(LastPos[n], LastPos[n])
        BY <3>1 DEF EP!UpToDate
      <3> QED
        BY <1>5, <3>2 DEF PositionAt
    <2>4. SnapshotStep(n) /\ snap[n].index <= snap'[n].index
      BY <1>1, <1>5, LogTypes, Given DEF SnapshotStep
    <2> QED
      BY <1>5, <2>1, <2>2, <2>3, <2>4 DEF NodeOk, LogStep, Same
  <1>7. WinnersGrow
    BY <1>1 DEF WinnersGrow
  <1> QED
    BY <1>2, <1>3, <1>4, <1>6, <1>7 DEF StepOk

\* Who holds the log of n up to i, as n's match indices mi say.
Matching(n, mi, i) == {n} \cup {p \in Node \ {n} : mi[p] >= i}

\* The rule of advanceCommitLocked.
MayCommit(n, t, l, mi, i) ==
    i > commitIndex[n] /\ l[i - snap[n].index] = t /\ E!IsQuorum(Matching(n, mi, i))

\* The commit index a leader comes to.
LEMMA AdvanceIs ==
    ASSUME RaftInv, NEW n \in Node, NEW t, NEW l, NEW mi, snap[n].index + Len(l) \in Nat,
           commitIndex[n] <= snap[n].index + Len(l)
    PROVE  LET c == advanceCommit(n, t, l, mi)
           IN  /\ c \in Nat /\ commitIndex[n] <= c /\ c <= snap[n].index + Len(l)
               /\ c = commitIndex[n] \/ MayCommit(n, t, l, mi, c)
  <1> DEFINE hi == snap[n].index + Len(l)
             S  == {commitIndex[n]} \cup
                   {i \in commitIndex[n] + 1 .. hi :
                      /\ l[i - snap[n].index] = t
                      /\ E!IsQuorum(Matching(n, mi, i))}
  <1>1. commitIndex[n] \in Nat
    BY Given, Bounds DEF RestTypes, Index
  <1>2. advanceCommit(n, t, l, mi) = Max(S)
    BY DEF advanceCommit, Matching
  <1>3. S \in SUBSET (0..hi) /\ S # {}
    BY <1>1
  <1>4. Max(S) \in S /\ \A x \in S : x <= Max(S)
    <2>1. hi \in Nat
      OBVIOUS
    <2> HIDE DEF S, hi
    <2> QED
      BY <1>3, <2>1, MaxOfBounded, Zenon
  <1>5. commitIndex[n] \in S
    OBVIOUS
  <1>6. commitIndex[n] <= Max(S) /\ Max(S) \in Nat /\ Max(S) <= hi
    <2>1. hi \in Nat
      OBVIOUS
    <2>2. S \in SUBSET (0..hi) /\ Max(S) \in S /\ commitIndex[n] <= Max(S)
      <3> HIDE DEF S, hi
      <3> QED
        BY <1>3, <1>4, <1>5, Zenon
    <2> HIDE DEF S, hi
    <2>3. Max(S) \in 0..hi
      BY <2>2, Zenon
    <2> QED
      BY <2>1, <2>2, <2>3
  <1>7. \A c \in S : c = commitIndex[n] \/ MayCommit(n, t, l, mi, c)
    BY <1>1 DEF MayCommit
  <1> HIDE DEF S
  <1> QED
    BY <1>2, <1>4, <1>6, <1>7

\* A leader commits entries of its own term that a majority has acknowledged.
LEMMA LeaderCommitStep ==
    ASSUME RaftInv, NEW n \in Node, Crowned(n)', NEW l, NEW mi, NEW t, currentTerm'[n] = t,
           snap[n].index + Len(l) \in Nat, commitIndex[n] <= snap[n].index + Len(l),
           commitIndex'[n] = advanceCommit(n, t, l, mi), matchIndex'[n] = mi, ~Emptying(n),
           lastIndex(n)' = snap[n].index + Len(l),
           \A i \in snap[n].index + 1 .. snap[n].index + Len(l) : FullLog(n)'[i] = l[i - snap[n].index]
    PROVE  CommitStep(n)
  <1> SUFFICES ASSUME NEW k \in 1..MaxIndex, commitIndex'[n] = k, commitIndex[n] # k
               PROVE  /\ Crowned(n)' /\ k \in 1..lastIndex(n)' /\ FullLog(n)'[k] = currentTerm'[n]
                      /\ \E Q \in SUBSET Node : EP!IsQuorum(Q) /\ \A p \in Q : p = n \/ Acked(n, p, k)'
    BY DEF CommitStep
  <1>1. /\ k > commitIndex[n] /\ l[k - snap[n].index] = t /\ k <= snap[n].index + Len(l)
        /\ E!IsQuorum(Matching(n, mi, k))
    <2>1. LET c == advanceCommit(n, t, l, mi)
          IN  /\ c \in Nat /\ commitIndex[n] <= c /\ c <= snap[n].index + Len(l)
              /\ c = commitIndex[n] \/ MayCommit(n, t, l, mi, c)
      BY AdvanceIs, Zenon
    <2> QED
      BY <2>1 DEF MayCommit
  <1>2. commitIndex[n] \in Nat /\ snap[n].index \in Nat /\ snap[n].index <= commitIndex[n]
    <2>1. /\ snap[n].index <= lastApplied[n] /\ lastApplied[n] <= commitIndex[n] /\ lastApplied[n] \in Nat
          /\ commitIndex[n] \in Nat
      BY Given, Bounds DEF RestTypes, Index, Fits, IndicesInLog
    <2> QED
      BY <2>1, LogTypes, Given
  <1>3. k \in snap[n].index + 1 .. snap[n].index + Len(l) /\ k \in 1..lastIndex(n)'
    BY <1>1, <1>2, Bounds
  <1>4. FullLog(n)'[k] = currentTerm'[n]
    BY <1>1, <1>3
  <1> DEFINE Q == Matching(n, mi, k)
  <1>5. EP!IsQuorum(Q) /\ Q \in SUBSET Node
    BY <1>1, SameQuorum DEF Matching
  <1>6. \A p \in Q : p = n \/ Acked(n, p, k)'
    BY DEF Acked, Matching
  <1> QED
    BY <1>3, <1>4, <1>5, <1>6

\* A positive reply to a leader.
LEMMA AckIs ==
    ASSUME RaftInv, NEW m \in msgs, IsReply(m), m.type = "ISReply" \/ (m.type = "AEReply" /\ m.success),
           Wanted(m)
    PROVE  /\ m \in Replies /\ Accepting(m) /\ m.match \in Index /\ m.match + 1 \in 1..MaxIndex + 1
           /\ m.to \in Node /\ m.from \in Node /\ m.from # m.to
           /\ role[m.to] = E!Leader /\ m.forTerm = currentTerm[m.to]
  <1>1. m.type \notin {"AE", "IS"}
    BY DEF IsReply
  <1>2. m \in Reply
    BY <1>1, MessageTypes, Given DEF Fits, RequestsFit
  <1>3. m \in Replies
    BY <1>1 DEF Replies, Requests
  <1>4. m.match \in Index /\ m.to \in Node /\ m.from \in Node
    BY <1>2 DEF Reply
  <1>5. m.from # m.to
    BY <1>3, Given, Zenon DEF Fits, RequestsFit
  <1> QED
    BY <1>3, <1>4, <1>5, Bounds DEF Accepting, Wanted, Index

\* The bookkeeping of a positive reply.
LEMMA PeerMatchesOk ==
    ASSUME RaftInv, NEW m \in msgs, NEW commits \in BOOLEAN,
           IsReply(m), m.type = "ISReply" \/ (m.type = "AEReply" /\ m.success),
           Wanted(m), PeerMatches(m, commits), msgs' = msgs \ {m},
           UNCHANGED <<electionVars, logVars, sm, lastApplied, applied, faults>>
    PROVE  StepOk
  <1> DEFINE n  == m.to
             mi == [matchIndex[n] EXCEPT ![m.from] = m.match]
  <1>1. /\ m \in Replies /\ Accepting(m) /\ m.match \in Index /\ m.match + 1 \in 1..MaxIndex + 1
        /\ n \in Node /\ m.from \in Node /\ m.from # n
        /\ role[n] = E!Leader /\ m.forTerm = currentTerm[n]
    BY AckIs
  <1>2. /\ matchIndex' = [matchIndex EXCEPT ![n] = mi]
        /\ nextIndex' = [nextIndex EXCEPT ![n][m.from] = m.match + 1]
        /\ commitIndex' = IF commits
             THEN [commitIndex EXCEPT ![n] = advanceCommit(n, currentTerm[n], log[n], mi)]
             ELSE commitIndex
    BY DEF PeerMatches
  <1>3. /\ matchIndex \in [Node -> [Node -> Index]] /\ nextIndex \in [Node -> [Node -> 1..(MaxIndex + 1)]]
        /\ commitIndex \in [Node -> Index]
    BY Given DEF RestTypes
  <1>4. matchIndex' \in [Node -> [Node -> Index]] /\ nextIndex' \in [Node -> [Node -> 1..(MaxIndex + 1)]]
    BY <1>1, <1>2, <1>3
  <1>5. UNCHANGED <<currentTerm, leaders, log, snap, applied>>
    BY DEF electionVars, logVars
  <1>6. MatchOk
    <2> SUFFICES ASSUME NEW l \in Node, NEW p \in Node, matchIndex'[l][p] # matchIndex[l][p]
                 PROVE  /\ currentTerm'[l] = currentTerm[l]
                        /\ \E r \in Replies : /\ Accepting(r) /\ r.from = p /\ r.to = l
                                              /\ r.forTerm = currentTerm[l] /\ r.match = matchIndex'[l][p]
      BY <1>5 DEF MatchOk
    <2>1. l = n
      BY <1>1, <1>2, <1>3
    <2>2. matchIndex'[n] = mi
      BY <1>1, <1>2, <1>3
    <2>3. p = m.from /\ matchIndex'[l][p] = m.match
      BY <1>1, <1>3, <2>1, <2>2
    <2> QED
      BY <1>1, <1>5, <2>1, <2>3
  <1>7. MessagesOk
    BY Given, MessagesKept
  <1>8. /\ FullLog(n)' = FullLog(n) /\ lastIndex(n)' = lastIndex(n)
        /\ lastIndex(n) = snap[n].index + Len(log[n]) /\ lastIndex(n) \in Nat
    BY <1>1, <1>5, Given, NothingApplied, SameLog, LogTypes DEF lastIndex
  <1>9. commitIndex[n] <= lastIndex(n) /\ commitIndex[n] \in Nat
    BY <1>1, <1>3, Given, Bounds DEF Fits, IndicesInLog, Index
  <1>10. ~Emptying(n)
    BY <1>8 DEF Emptying, Same
  <1>11. LogShape(n) /\ lastIndex(n) <= MaxIndex
    BY <1>1, LogShapes, Given, Bounds DEF LogShape
  <1>12. CASE commits
    <2>1. commitIndex'[n] = advanceCommit(n, currentTerm[n], log[n], mi)
      BY <1>1, <1>2, <1>3, <1>12
    <2>2. commitIndex'[n] \in Nat /\ commitIndex[n] <= commitIndex'[n] /\ commitIndex'[n] <= lastIndex(n)
      <3> HIDE DEF n, mi
      <3>1. snap[n].index + Len(log[n]) \in Nat /\ commitIndex[n] <= snap[n].index + Len(log[n])
        BY <1>8, <1>9
      <3>2. LET c == advanceCommit(n, currentTerm[n], log[n], mi)
            IN  c \in Nat /\ commitIndex[n] <= c /\ c <= snap[n].index + Len(log[n])
        BY <1>1, <3>1, AdvanceIs
      <3> QED
        BY <1>8, <2>1, <3>2
    <2>3. commitIndex' \in [Node -> Index] /\ \A p \in Node \ {n} : commitIndex'[p] = commitIndex[p]
      <3>1. advanceCommit(n, currentTerm[n], log[n], mi) \in Index
        BY <2>1, <2>2, <1>8, <1>11, Bounds DEF Index
      <3> QED
        BY <3>1, <1>1, <1>2, <1>3, <1>12
    <2>4. Crowned(n)' /\ matchIndex'[n] = mi
      BY <1>1, <1>2, <1>3, <1>5, LeaderIs, Zenon DEF Crowned
    <2>5. \A i \in snap[n].index + 1 .. snap[n].index + Len(log[n]) : FullLog(n)'[i] = log[n][i - snap[n].index]
      BY <1>8, <1>11 DEF LogShape, Held, entryAt
    <2>6. CommitStep(n)
      <3> HIDE DEF n, mi
      <3> QED
        BY <1>1, <1>5, <1>8, <1>9, <1>10, <2>1, <2>4, <2>5, LeaderCommitStep, Zenon
    <2> QED
      BY <1>1, <1>4, <1>6, <1>7, <2>2, <2>3, <2>6, BookkeepingOk
  <1>13. CASE ~commits
    <2>1. commitIndex' = commitIndex
      BY <1>2, <1>13
    <2>2. CommitStep(n)
      BY <2>1, <1>10 DEF CommitStep
    <2> HIDE DEF n, mi
    <2>3. /\ commitIndex' \in [Node -> Index] /\ (\A p \in Node \ {n} : commitIndex'[p] = commitIndex[p])
          /\ commitIndex[n] <= commitIndex'[n] /\ commitIndex'[n] <= lastIndex(n)
      BY <1>3, <1>9, <2>1
    <2> QED
      BY <1>1, <1>4, <1>6, <1>7, <2>2, <2>3, BookkeepingOk
  <1> QED
    BY <1>12, <1>13

\* A reply that changes no commit index and no matchIndex.
LEMMA AckedOk ==
    ASSUME RaftInv, NEW m \in msgs, AppendAcked(m) \/ SnapshotAcked(m)
    PROVE  StepOk
  <1>1. /\ IsReply(m) /\ (m.type = "ISReply" \/ (m.type = "AEReply" /\ m.success)) /\ Wanted(m)
        /\ msgs' = msgs \ {m}
        /\ UNCHANGED <<electionVars, logVars, sm, lastApplied, applied, faults>>
        /\ PeerMatches(m, TRUE) \/ PeerMatches(m, FALSE) \/ UNCHANGED <<leaderVars, commitIndex>>
    BY Zenon DEF AppendAcked, SnapshotAcked
  <1>2. CASE UNCHANGED <<leaderVars, commitIndex>>
    <2>1. UNCHANGED <<logVars, applyVars, leaderVars>> /\ leaders' = leaders
      BY <1>1, <1>2 DEF applyVars, electionVars
    <2> QED
      BY <1>1, <2>1, QuietOk, MessagesKept, Given DEF RestTypes
  <1> QED
    BY <1>1, <1>2, PeerMatchesOk, Zenon

\* A refused AppendEntries only moves nextIndex back, within the log.
LEMMA AppendRejectedOk ==
    ASSUME RaftInv, NEW m \in msgs, AppendRejected(m)
    PROVE  StepOk
  <1>1. /\ IsReply(m) /\ m.type = "AEReply" /\ Wanted(m)
        /\ nextIndex' = [nextIndex EXCEPT ![m.to][m.from] = nextIndexAfterConflict(m.to, m)]
        /\ msgs' = msgs \ {m}
        /\ UNCHANGED <<electionVars, logVars, applyVars, matchIndex, faults>>
    BY DEF AppendRejected
  <1>2. m \in Reply /\ m.to \in Node /\ m.from \in Node /\ m.conflictIndex \in 0..MaxIndex + 1
        /\ m.conflictTerm \in E!Term
    <2>1. m \in Reply
      BY <1>1, MessageTypes, Given DEF Fits, RequestsFit, IsReply
    <2> QED
      BY <1>1, <2>1 DEF Reply
  <1>3. nextIndexAfterConflict(m.to, m) \in 1..MaxIndex + 1
    <2> DEFINE own == IndicesOfTerm(m.to, m.conflictTerm) \ {0}
    <2>1. lastIndex(m.to) \in Nat /\ lastIndex(m.to) <= MaxIndex /\ snap[m.to].index \in Nat
      BY <1>2, Given, FullLogShape, LogTypes, Bounds
    <2>2. CASE m.conflictTerm # 0 /\ own # {}
      <3>1. own \in SUBSET (0..MaxIndex) /\ own # {}
        BY <2>1, <2>2, Bounds DEF IndicesOfTerm
      <3>2. \A i \in own : i # 0
        OBVIOUS
      <3>3. Max(own) \in own
        <4> HIDE DEF own
        <4> QED
          BY <3>1, MaxOfBounded, Bounds
      <3>4. Max(own) \in 1..MaxIndex
        <4>1. Max(own) \in 0..MaxIndex /\ Max(own) # 0
          <5> HIDE DEF own
          <5> QED
            BY <3>1, <3>2, <3>3, Zenon
        <4> HIDE DEF own
        <4> QED
          BY <4>1, Bounds
      <3>5. nextIndexAfterConflict(m.to, m) = Max(own) + 1
        BY <2>2 DEF nextIndexAfterConflict
      <3> HIDE DEF own
      <3> QED
        BY <3>4, <3>5, Bounds
    <2>3. CASE ~(m.conflictTerm # 0 /\ own # {})
      <3>1. nextIndexAfterConflict(m.to, m) = Max({m.conflictIndex, 1})
        BY <2>3 DEF nextIndexAfterConflict
      <3>2. Max({m.conflictIndex, 1}) = IF m.conflictIndex >= 1 THEN m.conflictIndex ELSE 1
        BY <1>2, Bounds, MaxOfTwo
      <3> QED
        BY <3>1, <3>2, <1>2, Bounds
    <2> QED
      BY <2>2, <2>3
  <1>4. nextIndex' \in [Node -> [Node -> 1..(MaxIndex + 1)]]
    BY <1>1, <1>2, <1>3, Given DEF RestTypes
  <1>5. UNCHANGED <<log, snap, applied, leaders, matchIndex, commitIndex, sm, lastApplied>>
    BY <1>1 DEF logVars, electionVars, applyVars
  <1>6. MatchOk /\ MessagesOk
    BY <1>1, <1>5, MessagesKept, Given DEF MatchOk
  <1>7. CommitStep(m.to)
    <2>1. FullLog(m.to)' = FullLog(m.to)
      BY <1>2, <1>5, Given, NothingApplied, SameLog
    <2> QED
      BY <1>5, <2>1 DEF CommitStep, Emptying, Same
  <1>8. commitIndex[m.to] <= lastIndex(m.to) /\ commitIndex[m.to] <= commitIndex[m.to]
        /\ commitIndex' \in [Node -> Index] /\ matchIndex' \in [Node -> [Node -> Index]]
    BY <1>2, <1>5, Given, Bounds DEF Fits, IndicesInLog, RestTypes, Index
  <1> QED
    BY <1>1, <1>2, <1>4, <1>5, <1>6, <1>7, <1>8, BookkeepingOk

-----------------------------------------------------------------------------
(***************************************************************************)
(* Steps that change one node's log.                                       *)
(***************************************************************************)
IsStore(d) == d = [log |-> d.log, snap |-> d.snap]

\* The store's operations.
LEMMA StoreOps ==
    ASSUME NEW d, IsStore(d)
    PROVE  /\ \A e : /\ IsStore(Store!AppendLog(d, e)) /\ Store!AppendLog(d, e).snap = d.snap
                     /\ DOMAIN Store!AppendLog(d, e).log = DOMAIN e \cup DOMAIN d.log
                     /\ \A i \in DOMAIN e : Store!AppendLog(d, e).log[i] = e[i]
                     /\ \A i \in DOMAIN d.log \ DOMAIN e : Store!AppendLog(d, e).log[i] = d.log[i]
           /\ \A f : /\ IsStore(Store!TruncateSuffix(d, f)) /\ Store!TruncateSuffix(d, f).snap = d.snap
                     /\ \A i : i \in DOMAIN Store!TruncateSuffix(d, f).log <=> i \in DOMAIN d.log /\ i < f
                     /\ \A i \in DOMAIN Store!TruncateSuffix(d, f).log :
                          Store!TruncateSuffix(d, f).log[i] = d.log[i]
           /\ \A u : /\ IsStore(Store!TruncatePrefix(d, u)) /\ Store!TruncatePrefix(d, u).snap = d.snap
                     /\ \A i : i \in DOMAIN Store!TruncatePrefix(d, u).log <=> i \in DOMAIN d.log /\ i > u
                     /\ \A i \in DOMAIN Store!TruncatePrefix(d, u).log :
                          Store!TruncatePrefix(d, u).log[i] = d.log[i]
           /\ \A s : /\ IsStore(Store!SaveSnapshot(d, s)) /\ Store!SaveSnapshot(d, s).snap = s
                     /\ Store!SaveSnapshot(d, s).log = d.log
  <1>1. ASSUME NEW e
        PROVE  /\ IsStore(Store!AppendLog(d, e)) /\ Store!AppendLog(d, e).snap = d.snap
               /\ Store!AppendLog(d, e).log =
                    [i \in DOMAIN e \cup DOMAIN d.log |-> IF i \in DOMAIN e THEN e[i] ELSE d.log[i]]
    BY DEF IsStore, Store!AppendLog
  <1>2. ASSUME NEW f
        PROVE  /\ IsStore(Store!TruncateSuffix(d, f)) /\ Store!TruncateSuffix(d, f).snap = d.snap
               /\ Store!TruncateSuffix(d, f).log = [i \in {j \in DOMAIN d.log : j < f} |-> d.log[i]]
    BY DEF IsStore, Store!TruncateSuffix, Store!Restrict
  <1>3. ASSUME NEW u
        PROVE  /\ IsStore(Store!TruncatePrefix(d, u)) /\ Store!TruncatePrefix(d, u).snap = d.snap
               /\ Store!TruncatePrefix(d, u).log = [i \in {j \in DOMAIN d.log : j > u} |-> d.log[i]]
    BY DEF IsStore, Store!TruncatePrefix, Store!Restrict
  <1>4. ASSUME NEW s
        PROVE  /\ IsStore(Store!SaveSnapshot(d, s)) /\ Store!SaveSnapshot(d, s).snap = s
               /\ Store!SaveSnapshot(d, s).log = d.log
    BY DEF IsStore, Store!SaveSnapshot
  <1>5. ASSUME NEW e
        PROVE  /\ DOMAIN Store!AppendLog(d, e).log = DOMAIN e \cup DOMAIN d.log
               /\ \A i \in DOMAIN e : Store!AppendLog(d, e).log[i] = e[i]
               /\ \A i \in DOMAIN d.log \ DOMAIN e : Store!AppendLog(d, e).log[i] = d.log[i]
    <2>1. PICK L : L = Store!AppendLog(d, e).log
      OBVIOUS
    <2>2. L = [i \in DOMAIN e \cup DOMAIN d.log |-> IF i \in DOMAIN e THEN e[i] ELSE d.log[i]]
      BY <1>1, <2>1
    <2>3. /\ DOMAIN L = DOMAIN e \cup DOMAIN d.log
          /\ \A i \in DOMAIN e : L[i] = e[i]
          /\ \A i \in DOMAIN d.log \ DOMAIN e : L[i] = d.log[i]
      BY <2>2
    <2> QED
      BY <2>1, <2>3
  <1>6. ASSUME NEW f
        PROVE  /\ \A i : i \in DOMAIN Store!TruncateSuffix(d, f).log <=> i \in DOMAIN d.log /\ i < f
               /\ \A i \in DOMAIN Store!TruncateSuffix(d, f).log :
                    Store!TruncateSuffix(d, f).log[i] = d.log[i]
    BY <1>2, Zenon
  <1>7. ASSUME NEW u
        PROVE  /\ \A i : i \in DOMAIN Store!TruncatePrefix(d, u).log <=> i \in DOMAIN d.log /\ i > u
               /\ \A i \in DOMAIN Store!TruncatePrefix(d, u).log :
                    Store!TruncatePrefix(d, u).log[i] = d.log[i]
    BY <1>3, Zenon
  <1> QED
    BY <1>1, <1>2, <1>3, <1>4, <1>5, <1>6, <1>7

\* The store of a node.
LEMMA StoreIs ==
    ASSUME RaftInv, NEW n \in Node
    PROVE  /\ IsStore(disk[n]) /\ disk[n].snap = snap[n]
           /\ \A i : i \in DOMAIN disk[n].log /\ i > snap[n].index <=> i \in Held(n)
           /\ \A i \in Held(n) : disk[n].log[i] = entryAt(n, i)
           /\ DOMAIN disk[n].log \subseteq Index
  BY Given DEF RestTypes, Stores, IsStore, Fits, NodesFit, NodeFits, DiskFits

\* The variables of n get new values, those of the others stay.
Becomes(n, l, s, d, x, c, a) ==
    /\ log' = [log EXCEPT ![n] = l] /\ snap' = [snap EXCEPT ![n] = s] /\ disk' = [disk EXCEPT ![n] = d]
    /\ sm' = [sm EXCEPT ![n] = x] /\ commitIndex' = [commitIndex EXCEPT ![n] = c]
    /\ lastApplied' = [lastApplied EXCEPT ![n] = a]

\* A handler that assigns the log, the store and the indices of one node leaves
\* the other nodes as they were.
LEMMA OneNode ==
    ASSUME RestTypes, NEW n \in Node, NEW l \in Log, NEW s \in Snap, NEW d, IsStore(d), DOMAIN d.log \subseteq Index,
           NEW x \in Log, NEW c \in Index, NEW a \in Index,
           Becomes(n, l, s, d, x, c, a),
           nextIndex' \in [Node -> [Node -> 1..(MaxIndex + 1)]],
           matchIndex' \in [Node -> [Node -> Index]], faults' \in 0..MaxFaults
    PROVE  /\ RestTypes' /\ \A p \in Node \ {n} : Calm(p)
           /\ log'[n] = l /\ snap'[n] = s /\ disk'[n] = d /\ sm'[n] = x
           /\ commitIndex'[n] = c /\ lastApplied'[n] = a
  <1> USE DEF Becomes
  <1>1. /\ log \in [Node -> Log] /\ snap \in [Node -> Snap] /\ sm \in [Node -> Log]
        /\ commitIndex \in [Node -> Index] /\ lastApplied \in [Node -> Index]
        /\ disk = [p \in Node |-> [log |-> disk[p].log, snap |-> disk[p].snap]]
        /\ \A p \in Node : DOMAIN disk[p].log \subseteq Index
    BY DEF RestTypes, Stores
  <1>2. DOMAIN disk = Node
    BY <1>1
  <1>3. /\ log'[n] = l /\ snap'[n] = s /\ disk'[n] = d /\ sm'[n] = x
        /\ commitIndex'[n] = c /\ lastApplied'[n] = a
    BY <1>1, <1>2
  <1>4. \A p \in Node \ {n} : Calm(p)
    BY <1>1, <1>2 DEF Calm
  <1>5. \A p \in Node : disk'[p] = [log |-> disk'[p].log, snap |-> disk'[p].snap]
    BY <1>1, <1>2 DEF IsStore
  <1>6. disk' = [p \in Node |-> disk'[p]]
    BY <1>2, Zenon
  <1>7. Stores'
    BY <1>5, <1>6, Zenon DEF Stores
  <1>8. \A p \in Node : DOMAIN (disk'[p].log) \subseteq Index
    BY <1>1, <1>2
  <1>9. /\ log' \in [Node -> Log] /\ snap' \in [Node -> Snap] /\ sm' \in [Node -> Log]
        /\ commitIndex' \in [Node -> Index] /\ lastApplied' \in [Node -> Index]
    BY <1>1
  <1> QED
    BY <1>3, <1>4, <1>7, <1>8, <1>9 DEF RestTypes

\* A leader appends an entry of its term.
LEMMA AppendOwnOk ==
    ASSUME RaftInv, NEW n \in Node, NEW t \in 1..MaxTerm, NEW mi, AppendOwn(n, t, mi),
           Crowned(n)', currentTerm'[n] = t, currentTerm[n] <= t,
           nextIndex' \in [Node -> [Node -> 1..(MaxIndex + 1)]],
           matchIndex' \in [Node -> [Node -> Index]], matchIndex'[n] = mi, faults' \in 0..MaxFaults
    PROVE  /\ RestTypes' /\ AppliedGrows /\ (\A a \in applied' : Settled(a[1], a[2]))
           /\ NodeOk(n) /\ Grew(n) /\ (\A p \in Node \ {n} : Calm(p))
           /\ lastIndex(n)' = lastIndex(n) + 1 /\ lastTerm(n)' = t
  <1>0. PICK i \in Nat : i = lastIndex(n) + 1
    BY LogTypes, Given
  <1> DEFINE l2 == Append(log[n], t)
             c  == advanceCommit(n, t, l2, mi)
             d  == Store!AppendLog(disk[n], [j \in {i} |-> t])
  <1>1. /\ i <= MaxIndex
        /\ log'  = [log EXCEPT ![n] = l2]
        /\ disk' = [disk EXCEPT ![n] = d]
        /\ commitIndex' = [commitIndex EXCEPT ![n] = c]
        /\ UNCHANGED <<snap, sm, lastApplied, applied>>
    BY <1>0 DEF AppendOwn
  <1>2. /\ log[n] \in Seq(1..MaxTerm) /\ snap[n].index \in Nat /\ Len(log[n]) \in Nat /\ lastIndex(n) \in Nat
        /\ lastIndex(n) = snap[n].index + Len(log[n]) /\ snap[n].index <= lastIndex(n) /\ i = lastIndex(n) + 1
    BY <1>0, Given, LogTypes, SnapshotIs DEF lastIndex
  <1>3. /\ l2 \in Seq(1..MaxTerm) /\ Len(l2) = Len(log[n]) + 1
        /\ \A j \in 1..Len(log[n]) : l2[j] = log[n][j]
        /\ l2[Len(log[n]) + 1] = t /\ l2 # <<>>
    <2>1. /\ l2 \in Seq(1..MaxTerm) /\ Len(l2) = Len(log[n]) + 1
          /\ \A j \in 1..Len(log[n]) : l2[j] = log[n][j]
          /\ l2[Len(log[n]) + 1] = t
      BY <1>2, AppendProperties
    <2> HIDE DEF l2
    <2>2. l2 # <<>>
      BY <1>2, <2>1
    <2> QED
      BY <2>1, <2>2
  <1> HIDE DEF l2
  <1>4. snap[n].index + Len(l2) = i
    <2>1. PICK k \in Nat, s \in Nat : k = Len(log[n]) /\ s = snap[n].index
      BY <1>2, Zenon
    <2>2. Len(l2) = k + 1 /\ lastIndex(n) = s + k /\ i = lastIndex(n) + 1
      BY <1>2, <1>3, <2>1, Zenon
    <2>3. s + (k + 1) = (s + k) + 1
      OBVIOUS
    <2> QED
      BY <2>1, <2>2, <2>3, Zenon
  <1>5. /\ snap[n].index <= lastApplied[n] /\ lastApplied[n] <= commitIndex[n] /\ commitIndex[n] <= lastIndex(n)
        /\ commitIndex[n] \in Nat /\ lastApplied[n] \in Nat
    BY Given, Bounds DEF RestTypes, Index, Fits, IndicesInLog
  <1>6. c \in Nat /\ commitIndex[n] <= c /\ c <= i
    <2>1. snap[n].index + Len(l2) \in Nat /\ commitIndex[n] <= snap[n].index + Len(l2)
      BY <1>2, <1>4, <1>5
    <2>2. LET cc == advanceCommit(n, t, l2, mi)
          IN  cc \in Nat /\ commitIndex[n] <= cc /\ cc <= snap[n].index + Len(l2)
      BY <2>1, AdvanceIs
    <2> QED
      BY <2>2, <1>4
  <1> HIDE DEF c
  <1>7. IsStore(disk[n]) /\ disk[n].snap = snap[n] /\ DOMAIN disk[n].log \subseteq Index
    BY StoreIs
  <1>8. /\ IsStore(d) /\ d.snap = snap[n]
        /\ DOMAIN d.log = {i} \cup DOMAIN disk[n].log /\ d.log[i] = t
        /\ \A j \in DOMAIN disk[n].log \ {i} : d.log[j] = disk[n].log[j]
    <2> DEFINE e == [j \in {i} |-> t]
    <2>1. DOMAIN e = {i} /\ e[i] = t
      OBVIOUS
    <2>2. d = Store!AppendLog(disk[n], e)
      OBVIOUS
    <2> HIDE DEF e, d
    <2>3. /\ IsStore(d) /\ d.snap = disk[n].snap
          /\ DOMAIN d.log = DOMAIN e \cup DOMAIN disk[n].log
          /\ \A j \in DOMAIN e : d.log[j] = e[j]
          /\ \A j \in DOMAIN disk[n].log \ DOMAIN e : d.log[j] = disk[n].log[j]
      BY <1>7, <2>2, StoreOps
    <2> QED
      BY <1>7, <2>1, <2>3
  <1>9. DOMAIN d.log \subseteq Index
    <2>1. i \in Index
      BY <1>1, Bounds DEF Index
    <2> QED
      BY <1>7, <1>8, <2>1
  <1> HIDE DEF d
  <1>10. /\ RestTypes' /\ (\A p \in Node \ {n} : Calm(p))
         /\ log'[n] = l2 /\ snap'[n] = snap[n] /\ disk'[n] = d
         /\ commitIndex'[n] = c /\ lastApplied'[n] = lastApplied[n]
    <2>0. RestTypes
      BY Given
    <2>1. l2 \in Log /\ snap[n] \in Snap /\ sm[n] \in Log /\ c \in Index /\ lastApplied[n] \in Index
      <3>1. snap[n] \in Snap /\ sm[n] \in Log /\ lastApplied[n] \in Index
        BY <2>0 DEF RestTypes
      <3>2. c \in Index
        BY <1>1, <1>6, Bounds DEF Index
      <3> QED
        BY <1>3, <3>1, <3>2 DEF Log
    <2>2. /\ snap' = [snap EXCEPT ![n] = snap[n]] /\ sm' = [sm EXCEPT ![n] = sm[n]]
          /\ lastApplied' = [lastApplied EXCEPT ![n] = lastApplied[n]]
      BY <1>1, <2>0 DEF RestTypes
    <2>3. PICK l, s, dd, x, cc, a : l = l2 /\ s = snap[n] /\ dd = d /\ x = sm[n] /\ cc = c /\ a = lastApplied[n]
      OBVIOUS
    <2>4. Becomes(n, l, s, dd, x, cc, a)
      BY <1>1, <2>2, <2>3, Zenon DEF Becomes
    <2>5. l \in Log /\ s \in Snap /\ x \in Log /\ cc \in Index /\ a \in Index /\ IsStore(dd)
          /\ DOMAIN dd.log \subseteq Index
      BY <1>8, <1>9, <2>1, <2>3
    <2>6. /\ RestTypes' /\ (\A p \in Node \ {n} : Calm(p))
          /\ log'[n] = l /\ snap'[n] = s /\ disk'[n] = dd
          /\ commitIndex'[n] = cc /\ lastApplied'[n] = a
      BY <2>0, <2>4, <2>5, OneNode, Zenon
    <2> QED
      BY <2>3, <2>6
  <1>11. AppliedGrows /\ \A a \in applied' : Settled(a[1], a[2])
    BY <1>1, NothingApplied
  <1>12. lastIndex(n)' = i /\ lastTerm(n)' = t
    BY <1>3, <1>4, <1>10 DEF lastIndex, lastTerm
  <1>13. (\A j \in Held(n) : entryAt(n, j)' = entryAt(n, j)) /\ entryAt(n, i)' = t
    <2>1. ASSUME NEW j \in Held(n) PROVE entryAt(n, j)' = entryAt(n, j)
      <3>1. j \in snap[n].index + 1 .. lastIndex(n)
        BY Zenon DEF Held
      <3>2. j - snap[n].index \in 1..Len(log[n])
        BY ONLY <1>2, <3>1
      <3> QED
        BY <1>3, <1>10, <3>2, Zenon DEF entryAt
    <2>2. i - snap[n].index = Len(log[n]) + 1
      BY <1>2
    <2> QED
      BY <1>3, <1>10, <2>1, <2>2 DEF entryAt
  <1>14. LogShape(n)
    BY LogShapes, Given
  <1>15. /\ FullLog(n)' = [j \in 1..i |-> IF j <= snap[n].index THEN AppliedTerm(j) ELSE entryAt(n, j)']
    BY <1>1, <1>10, <1>12 DEF FullLog, AppliedTerm
  <1>16. (\A j \in 1..lastIndex(n) : FullLog(n)'[j] = FullLog(n)[j]) /\ FullLog(n)'[i] = t
    <2>1. ASSUME NEW j \in 1..lastIndex(n) PROVE FullLog(n)'[j] = FullLog(n)[j]
      <3>1. j \in 1..i
        BY <1>2
      <3>2. CASE j <= snap[n].index
        BY <1>15, <3>1, <3>2, Zenon DEF FullLog
      <3>3. CASE ~(j <= snap[n].index)
        <4>1. j \in Held(n)
          BY <1>2, <3>3 DEF Held
        <4> QED
          BY <1>13, <1>15, <3>1, <3>3, <4>1, Zenon DEF FullLog
      <3> QED
        BY <3>2, <3>3
    <2>2. i \in 1..i /\ ~(i <= snap[n].index)
      BY <1>2
    <2> QED
      BY <1>13, <1>15, <2>1, <2>2, Zenon
  <1>17. Grew(n)
    BY <1>2, <1>15, <1>16, Zenon DEF Grew, GrownFrom
  <1>18. ~Emptying(n)
    <2>1. ASSUME NEW K, LeftTo(n, K) PROVE FALSE
      <3>1. K \in 0..lastIndex(n) /\ 1..i = 1..K
        BY <1>15, <2>1 DEF LeftTo
      <3>2. i \in 1..i
        BY <1>2
      <3> QED
        BY <1>2, <3>1, <3>2
    <2> QED
      BY <2>1 DEF Emptying, Emptied
  <1>19. DiskFits(n)'
    <2>1. {j \in DOMAIN d.log : j > snap[n].index} = snap[n].index + 1 .. i
      <3>1. \A j : j \in DOMAIN disk[n].log /\ j > snap[n].index <=> j \in snap[n].index + 1 .. lastIndex(n)
        BY StoreIs DEF Held
      <3> QED
        BY <1>2, <1>8, <3>1
    <2>2. \A j \in snap[n].index + 1 .. i : d.log[j] = entryAt(n, j)'
      <3> SUFFICES ASSUME NEW j \in snap[n].index + 1 .. i PROVE d.log[j] = entryAt(n, j)'
        OBVIOUS
      <3>1. CASE j = i
        BY <1>8, <1>13, <3>1
      <3>2. CASE j # i
        <4>1. j \in Held(n)
          BY <1>2, <3>2 DEF Held
        <4> QED
          BY <1>8, <1>13, <3>2, <4>1, StoreIs, Zenon
      <3> QED
        BY <3>1, <3>2
    <2> QED
      BY <1>8, <1>10, <1>12, <2>1, <2>2 DEF DiskFits, Held
  <1>20. NodeFits(n)'
    <2>1. SnapFits(snap[n])'
      BY <1>1, SnapshotIs, Zenon DEF SnapFits, Known
    <2>2. \A j \in 1..lastApplied[n] : <<j, FullLog(n)'[j]>> \in applied
      <3>1. \A j \in 1..lastApplied[n] : <<j, FullLog(n)[j]>> \in applied /\ j \in 1..lastIndex(n)
        BY <1>2, <1>5, Given DEF Fits, NodesFit, NodeFits
      <3> QED
        BY <1>16, <3>1, Zenon
    <2> QED
      BY <1>1, <1>10, <1>12, <1>19, <2>1, <2>2 DEF NodeFits
  <1>21. Bounded(n)'
    BY <1>5, <1>6, <1>10, <1>12 DEF Bounded
  <1>22. PositionAt(n)
    <2>1. lastTerm(n) \in Nat /\ lastTerm(n) <= t
      <3>1. lastTerm(n) \in Nat /\ t \in Nat /\ currentTerm[n] \in Nat
        BY <1>14, Given, Bounds DEF LogShape, ElectionShape
      <3>2. lastTerm(n) <= currentTerm[n]
        <4>1. CASE lastIndex(n) > 0
          BY <4>1, <1>14, <1>2, Given DEF LogShape, TermsSound, OnInterval
        <4>2. CASE ~(lastIndex(n) > 0)
          BY <4>2, <1>2, <1>14, <3>1 DEF LogShape
        <4> QED
          BY <4>1, <4>2
      <3> QED
        BY <3>1, <3>2
    <2>2. LastPos'[n] = [term |-> t, index |-> i]
      BY <1>12 DEF LastPos
    <2>3. LastPos[n] = [term |-> lastTerm(n), index |-> lastIndex(n)]
      BY DEF LastPos
    <2>4. EP!UpToDate([term |-> t, index |-> i], [term |-> lastTerm(n), index |-> lastIndex(n)])
      BY <2>1, <1>2, Bounds DEF EP!UpToDate
    <2> QED
      BY <2>2, <2>3, <2>4 DEF PositionAt
  <1>23. CommitStep(n)
    <2>1. \A j \in snap[n].index + 1 .. snap[n].index + Len(l2) : FullLog(n)'[j] = l2[j - snap[n].index]
      <3> SUFFICES ASSUME NEW j \in snap[n].index + 1 .. i PROVE FullLog(n)'[j] = l2[j - snap[n].index]
        BY <1>4
      <3>1. j \in 1..i /\ ~(j <= snap[n].index)
        BY <1>2
      <3> QED
        BY <1>15, <1>10, <3>1 DEF entryAt
    <2>2. snap[n].index + Len(l2) \in Nat /\ commitIndex[n] <= snap[n].index + Len(l2)
          /\ lastIndex(n)' = snap[n].index + Len(l2)
      BY <1>2, <1>4, <1>5, <1>12
    <2>3. commitIndex'[n] = advanceCommit(n, t, l2, mi)
      BY <1>10 DEF c
    <2> QED
      BY <1>18, <2>1, <2>2, <2>3, LeaderCommitStep, Zenon
  <1>24. SnapshotStep(n) /\ snap[n].index <= snap'[n].index
    <2>1. \A k \in 1..MaxIndex : snap'[n].index = k => k \in 1..lastIndex(n)
      BY <1>2, <1>10, Bounds
    <2> QED
      BY <1>2, <1>10, <1>16, <2>1 DEF SnapshotStep
  <1> QED
    BY <1>0, <1>10, <1>11, <1>12, <1>17, <1>20, <1>21, <1>22, <1>23, <1>24 DEF NodeOk, LogStep

-----------------------------------------------------------------------------
(***************************************************************************)
(* Leaders and candidates.                                                 *)
(***************************************************************************)
\* Submit appends an entry of the leader's own term and commits it only where a
\* majority has it.
LEMMA ProposeOk ==
    ASSUME RaftInv, NEW n \in Node, Propose(n)
    PROVE  StepOk
  <1>1. /\ role[n] = E!Leader /\ AppendOwn(n, currentTerm[n], matchIndex[n]) /\ E!LeaderAppend(n)
        /\ UNCHANGED <<nextIndex, matchIndex, msgs, faults>>
    BY DEF Propose, leaderVars
  <1>2. UNCHANGED <<currentTerm, leaders>>
    BY <1>1 DEF E!LeaderAppend
  <1>3. Crowned(n) /\ currentTerm[n] \in 1..MaxTerm /\ RestTypes
    BY <1>1, LeaderIs, Given
  <1>4. PICK t, mi : t \in 1..MaxTerm /\ t = currentTerm[n] /\ mi = matchIndex[n]
    BY <1>3
  <1>5. AppendOwn(n, t, mi)
    BY <1>1, <1>4 DEF AppendOwn
  <1>6. /\ Crowned(n)' /\ currentTerm'[n] = t /\ currentTerm[n] <= t /\ matchIndex'[n] = mi
        /\ nextIndex' \in [Node -> [Node -> 1..(MaxIndex + 1)]]
        /\ matchIndex' \in [Node -> [Node -> Index]] /\ faults' \in 0..MaxFaults
    BY <1>1, <1>2, <1>3, <1>4, Bounds DEF Crowned, RestTypes
  <1>7. /\ RestTypes' /\ AppliedGrows /\ (\A a \in applied' : Settled(a[1], a[2]))
        /\ NodeOk(n) /\ (\A p \in Node \ {n} : Calm(p))
    BY <1>4, <1>5, <1>6, AppendOwnOk
  <1>8. MessagesOk
    BY <1>1, Given, MessagesKept
  <1>9. MatchOk /\ WinnersGrow
    BY <1>1, <1>2 DEF MatchOk, WinnersGrow
  <1> QED
    BY <1>7, <1>8, <1>9 DEF StepOk

\* becomeLeaderLocked appends a no-op on top of a log that holds everything
\* secured.
LEMMA BecomeLeaderOk ==
    ASSUME RaftInv, NEW n \in Node, NEW t \in 1..MaxTerm, BecomeLeader(n, t),
           currentTerm'[n] = t, currentTerm[n] <= t,
           leaders' = leaders \cup {[node |-> n, term |-> t]},
           msgs' = msgs, faults' \in 0..MaxFaults
    PROVE  StepOk
  <1>1. PICK mi : mi = [p \in Node |-> 0]
    BY Zenon
  <1>2. /\ AppendOwn(n, t, mi)
        /\ nextIndex'  = [nextIndex EXCEPT ![n] = [p \in Node |-> lastIndex(n) + 1]]
        /\ matchIndex' = [matchIndex EXCEPT ![n] = mi]
    BY <1>1 DEF BecomeLeader
  <1>3. RestTypes /\ lastIndex(n) \in Nat /\ lastIndex(n) + 1 <= MaxIndex
    BY <1>2, Given, LogTypes DEF AppendOwn
  <1>4. nextIndex' \in [Node -> [Node -> 1..(MaxIndex + 1)]]
    BY <1>2, <1>3, Bounds DEF RestTypes
  <1>5. mi \in [Node -> Index]
    BY <1>1, Bounds DEF Index
  <1>6. matchIndex' \in [Node -> [Node -> Index]] /\ matchIndex'[n] = mi
        /\ \A l \in Node \ {n} : matchIndex'[l] = matchIndex[l]
    BY <1>2, <1>3, <1>5 DEF RestTypes
  <1>7. Crowned(n)'
    BY DEF Crowned
  <1>8. /\ RestTypes' /\ AppliedGrows /\ (\A a \in applied' : Settled(a[1], a[2]))
        /\ NodeOk(n) /\ Grew(n) /\ (\A p \in Node \ {n} : Calm(p))
    BY <1>2, <1>4, <1>6, <1>7, AppendOwnOk
  <1>9. MessagesOk
    BY Given, MessagesKept
  <1>10. \A e \in leaders' \ leaders : e.node = n
    OBVIOUS
  <1>11. WinnersGrow
    BY <1>8, <1>10 DEF WinnersGrow
  <1>12. MatchOk
    BY <1>1, <1>6, <1>10 DEF MatchOk
  <1> QED
    BY <1>8, <1>9, <1>11, <1>12 DEF StepOk

\* startRealElectionLocked.
LEMMA ElectionStartOk ==
    ASSUME RaftInv, NEW n \in Node, NEW pos, ElectionLog(n), E!startRealElection(n, pos), msgs' = msgs,
           faults' \in 0..MaxFaults
    PROVE  StepOk
  <1>1. /\ currentTerm[n] + 1 <= MaxTerm /\ currentTerm' = [currentTerm EXCEPT ![n] = currentTerm[n] + 1]
        /\ IF E!IsQuorum({n}) THEN leaders' = leaders \cup {[node |-> n, term |-> currentTerm[n] + 1]}
           ELSE leaders' = leaders
    BY DEF E!startRealElection, E!becomeLeader
  <1>2. currentTerm \in [Node -> 0..MaxTerm] /\ currentTerm[n] \in Nat
    BY Given, Bounds DEF ElectionShape
  <1>3. CASE E!IsQuorum({n})
    <2>1. PICK t \in 1..MaxTerm : t = currentTerm[n] + 1
      BY <1>1, <1>2, Bounds
    <2>2. BecomeLeader(n, t)
      BY <1>3, <2>1 DEF ElectionLog, BecomeLeader, AppendOwn
    <2>3. currentTerm'[n] = t /\ currentTerm[n] <= t /\ leaders' = leaders \cup {[node |-> n, term |-> t]}
      BY <1>1, <1>2, <1>3, <2>1
    <2> QED
      BY <2>2, <2>3, BecomeLeaderOk
  <1>4. CASE ~E!IsQuorum({n})
    BY <1>1, <1>4, QuietOk, MessagesKept, Given DEF ElectionLog
  <1> QED
    BY <1>3, <1>4

\* A counted vote leaves the logs alone, or makes the candidate leader.
LEMMA VoteCountedOk ==
    ASSUME RaftInv, NEW m \in voteMsgs, VoteCounted(m)
    PROVE  StepOk
  <1>1. /\ m.type = "reply"
        /\ IF E!IsQuorum(votes[m.to] \cup {m.from})
           THEN BecomeLeader(m.to, currentTerm[m.to])
           ELSE UNCHANGED <<logVars, applyVars, leaderVars>>
        /\ E!VoteCounted(m) /\ msgs' = msgs /\ faults' = faults
    BY DEF VoteCounted
  <1>2. /\ currentTerm' = currentTerm /\ currentTerm[m.to] = m.forTerm
        /\ IF E!IsQuorum(votes[m.to] \cup {m.from})
           THEN leaders' = leaders \cup {[node |-> m.to, term |-> currentTerm[m.to]]}
           ELSE leaders' = leaders
    BY <1>1 DEF E!VoteCounted, E!becomeLeader, E!ReplyCurrent
  <1>3. m.to \in Node /\ m.forTerm \in 1..MaxTerm
    <2>1. m \in E!VoteReply
      BY <1>1, Given DEF TypeOK, E!TypeOK, E!VoteMsg, E!VoteRequest
    <2> QED
      BY <2>1 DEF E!VoteReply
  <1>4. faults' \in 0..MaxFaults
    BY <1>1, Given DEF RestTypes
  <1>5. CASE E!IsQuorum(votes[m.to] \cup {m.from})
    <2>1. PICK t \in 1..MaxTerm : t = currentTerm[m.to]
      BY <1>2, <1>3
    <2>2. BecomeLeader(m.to, t)
      BY <1>1, <1>5, <2>1 DEF BecomeLeader, AppendOwn
    <2>3. currentTerm'[m.to] = t /\ currentTerm[m.to] <= t /\ leaders' = leaders \cup {[node |-> m.to, term |-> t]}
      BY <1>2, <1>5, <2>1, Bounds
    <2> QED
      BY <1>1, <1>3, <1>4, <2>2, <2>3, BecomeLeaderOk
  <1>6. CASE ~E!IsQuorum(votes[m.to] \cup {m.from})
    BY <1>1, <1>2, <1>4, <1>6, QuietOk, MessagesKept, Given
  <1> QED
    BY <1>5, <1>6

\* The steps of an election that do not touch logs.
LEMMA FaultType ==
    ASSUME RaftInv, Fault
    PROVE  faults' \in 0..MaxFaults
  BY Given, BoundAssumption DEF Fault, RestTypes

\* Pre-vote rounds, refused votes and stepping down leave the logs alone.
LEMMA ElectionOnlyOk ==
    ASSUME RaftInv,
           \/ \E n \in Node : BeginPreVote(n) \/ LeaderSilent(n) \/ \E r, p : PreVoteGranted(n, r, p)
           \/ \E m \in voteMsgs : OtherVoting(m)
    PROVE  StepOk
  <1>1. UNCHANGED <<logVars, applyVars, leaderVars>> /\ msgs' = msgs /\ (Fault \/ faults' = faults)
    BY DEF BeginPreVote, LeaderSilent, PreVoteGranted, OtherVoting
  <1>2. leaders' = leaders
    BY Zenon DEF BeginPreVote, LeaderSilent, PreVoteGranted, OtherVoting, E!BeginPreVote, E!LeaderSilent,
           E!PreVoteGranted, E!HandleRequestVote, E!VoteReplyNewer, E!VoteReplyIgnored
  <1>3. faults' \in 0..MaxFaults
    BY <1>1, FaultType, Given DEF RestTypes
  <1> QED
    BY <1>1, <1>2, <1>3, QuietOk, MessagesKept, Given

\* An election that starts leaves the logs alone, except in a cluster of one,
\* where it is won at once.
LEMMA ElectionStartsOk ==
    ASSUME RaftInv, NEW n \in Node, BeginElection(n) \/ \E r : CampaignWon(n, r)
    PROVE  StepOk
  <1>1. CASE BeginElection(n)
    <2>1. ElectionLog(n) /\ E!startRealElection(n, LastPos[n]) /\ msgs' = msgs /\ faults' \in 0..MaxFaults
      BY <1>1, FaultType DEF BeginElection, E!BeginElection
    <2>2. PICK pos : pos = LastPos[n]
      OBVIOUS
    <2>3. E!startRealElection(n, pos)
      BY <2>1, <2>2 DEF E!startRealElection
    <2> QED
      BY <2>1, <2>3, ElectionStartOk
  <1>2. CASE \E r : CampaignWon(n, r)
    <2>1. PICK r : CampaignWon(n, r)
      BY <1>2
    <2>2. ElectionLog(n) /\ E!startRealElection(n, r.pos) /\ msgs' = msgs /\ faults' \in 0..MaxFaults
      BY <2>1, Given DEF CampaignWon, E!CampaignWon, RestTypes
    <2> QED
      BY <2>2, ElectionStartOk
  <1> QED
    BY <1>1, <1>2

-----------------------------------------------------------------------------
(***************************************************************************)
(* AppendEntries takes the request over.                                   *)
(***************************************************************************)

\* A request that is not stale agrees with what is secured in the log below.
LEMMA SecuredAgrees ==
    ASSUME RaftInv, NEW m \in Requests, m.type = "AE", m.term >= currentTerm[m.to],
           NEW c \in 1..lastIndex(m.to), Secured(c, FullLog(m.to)[c]),
           NEW i \in DOMAIN Fragment(m), i <= c
    PROVE  i \in 1..lastIndex(m.to) /\ Fragment(m)[i] = FullLog(m.to)[i]
  <1> DEFINE F == Fragment(m)
             G == FullLog(m.to)
             z == LastOf(m)
  <1>1. /\ m.to \in Node /\ OnInterval(F, FirstOf(m), z) /\ z \in DOMAIN F /\ F[z] = m.term
        /\ m.term \in Nat /\ z \in Nat
    <2>1. /\ m.to \in Node /\ OnInterval(F, FirstOf(m), z) /\ z >= FirstOf(m) /\ F[z] = m.term
          /\ m.term \in 1..MaxTerm
      BY Given, FragmentShape, Zenon
    <2> QED
      BY <2>1, Bounds DEF OnInterval
  <1>2. LogShape(m.to)
    BY <1>1, LogShapes, Given
  <1>3. /\ c \in DOMAIN G /\ c \in Nat /\ G[c] \in Nat /\ DOMAIN G = 1..lastIndex(m.to)
    BY <1>2 DEF LogShape, OnInterval
  <1>4. G[c] <= m.term
    <2>1. G[c] <= currentTerm[m.to]
      BY <1>1, <1>3, Given, Zenon DEF TermsSound
    <2>2. currentTerm[m.to] \in Nat
      BY <1>1, Given, Bounds DEF ElectionShape
    <2> QED
      BY <1>1, <1>3, <2>1, <2>2
  <1>5. F \in Carriers /\ G \in Carriers
    BY <1>1 DEF Carriers
  <1>6. Coheres(F, G) /\ CoverIn(F, c, G[c])
    BY <1>5, Given DEF Coherent, Secured, Covers
  <1>7. i \in Nat /\ i >= 1 /\ i <= z /\ i \in DOMAIN G /\ \A y \in FirstOf(m)..z : y \in DOMAIN F
    BY <1>1, <1>2, <1>3 DEF OnInterval, LogShape
  <1>8. CASE F[z] > G[c] \/ (F[z] = G[c] /\ z >= c)
    <2>1. c <= z
      BY <1>1, <1>6, <1>8 DEF CoverIn
    <2>2. c \in DOMAIN F
      BY <1>1, <1>3, <1>7, <2>1 DEF OnInterval
    <2>3. F[c] = G[c]
      BY <1>1, <1>3, <1>6, <1>8, <2>1, <2>2 DEF CoverIn
    <2>4. i \in DOMAIN F \cap DOMAIN G /\ c <= c
      BY <1>3, <1>7
    <2> HIDE DEF F, G
    <2>5. F[i] = G[i]
      BY <1>3, <1>6, <2>2, <2>3, <2>4 DEF Coheres
    <2> QED
      BY <1>3, <1>7, <2>5 DEF F, G
  <1>9. CASE F[z] = G[c] /\ z < c
    <2>1. i \in DOMAIN F \cap DOMAIN G /\ z <= c
      BY <1>1, <1>3, <1>7, <1>9
    <2> HIDE DEF F, G, z
    <2>2. F[i] = G[i]
      BY <1>1, <1>3, <1>6, <1>7, <1>9, <2>1 DEF Coheres
    <2> QED
      BY <1>3, <1>7, <2>2 DEF F, G
  <1> QED
    BY <1>1, <1>3, <1>4, <1>8, <1>9

\* Where the merge of m splits the log of its receiver.
MergesAt(m) ==
    /\ m.prevIndex \in Nat /\ LastNew(m) \in 1..MaxIndex /\ LastNew(m) = LastOf(m)
    /\ m.prevIndex <= LastNew(m) /\ LastNew(m) = m.prevIndex + Len(m.ents) /\ m.ents \in Seq(1..MaxTerm)
    /\ Len(m.ents) \in Nat
    /\ KeptTo(m) \in Nat /\ KeptTo(m) <= lastIndex(m.to)
    /\ snap[m.to].index <= KeptTo(m) /\ m.prevIndex <= KeptTo(m)
    /\ IF Conflicts(m) = {} THEN KeptTo(m) = lastIndex(m.to) ELSE Splits(m.to, m, KeptTo(m))
    /\ \A i \in DOMAIN Fragment(m) : i <= KeptTo(m) => Fragment(m)[i] = FullLog(m.to)[i]
    /\ \A i \in KeptTo(m) + 1 .. LastNew(m) : i \in DOMAIN Fragment(m) /\ Fragment(m)[i] = m.ents[i - m.prevIndex]

\* What AppendEntries leaves in memory and on disk: the log up to the first
\* conflict, then the entries of the request.
LEMMA MergeIs ==
    ASSUME RaftInv, NEW m \in Requests, m.type = "AE", m.term >= currentTerm[m.to],
           ~TooShort(m), ~Mismatch(m)
    PROVE  MergesAt(m)
  <1> DEFINE p == m.to
             s == snap[m.to].index
  <1>1. /\ p \in Node /\ m \in AppendRequest /\ LastOf(m) \in 1..MaxIndex /\ LastOf(m) >= FirstOf(m)
        /\ OnInterval(Fragment(m), FirstOf(m), LastOf(m)) /\ FirstOf(m) \in Nat
    BY Given, FragmentShape, Zenon
  <1>2. m.prevIndex \in 0..MaxIndex /\ m.ents \in Seq(1..MaxTerm) /\ LastOf(m) = LastNew(m)
    BY <1>1 DEF AppendRequest, Index, Log, LastOf
  <1>3. /\ m.prevIndex \in Nat /\ Len(m.ents) \in Nat /\ LastNew(m) = m.prevIndex + Len(m.ents)
        /\ LastNew(m) \in Nat /\ m.prevIndex <= LastNew(m)
    BY <1>2, Bounds DEF LastNew
  <1>4. /\ lastIndex(p) \in Nat /\ s \in Nat /\ s <= lastIndex(p) /\ LogShape(p) /\ TypeOK
        /\ m.prevIndex <= lastIndex(p)
        /\ m.prevIndex >= s => termAt(p, m.prevIndex) = m.prevTerm
    <2>1. lastIndex(p) \in Nat /\ s \in Nat /\ s <= lastIndex(p) /\ LogShape(p) /\ TypeOK
      BY <1>1, Given, LogTypes, SnapshotIs, LogShapes
    <2> QED
      BY <1>3, <2>1 DEF TooShort, Mismatch
  <1>5. Max({m.prevIndex, s}) = IF m.prevIndex >= s THEN m.prevIndex ELSE s
    BY <1>3, <1>4, MaxOfTwo
  <1>6. Min({LastNew(m), lastIndex(p)}) = IF LastNew(m) <= lastIndex(p) THEN LastNew(m) ELSE lastIndex(p)
    BY <1>3, <1>4, MinOfTwo
  <1>7. \A i : i \in Conflicts(m) <=>
            /\ i \in Nat /\ i > m.prevIndex /\ i > s /\ i <= LastNew(m) /\ i <= lastIndex(p)
            /\ entryAt(p, i) # m.ents[i - m.prevIndex]
    BY <1>3, <1>4, <1>5, <1>6 DEF Conflicts
  <1>8. ASSUME NEW i \in Nat, i > s, i <= lastIndex(p)
        PROVE  FullLog(p)[i] = entryAt(p, i) /\ i \in 1..lastIndex(p)
    <2>1. i \in Held(p) /\ i \in 1..lastIndex(p)
      BY <1>4, <1>8 DEF Held
    <2> QED
      BY <1>4, <2>1 DEF LogShape
  <1>9. ASSUME NEW i \in Nat, i > m.prevIndex, i <= LastNew(m)
        PROVE  i \in DOMAIN Fragment(m) /\ Fragment(m)[i] = m.ents[i - m.prevIndex] /\ i \in FirstOf(m)..LastOf(m)
    <2>1. i \in FirstOf(m)..LastOf(m)
      BY <1>2, <1>3, <1>9 DEF FirstOf
    <2> QED
      BY <1>3, <1>9, <2>1 DEF Fragment
  \* What is below the snapshot agrees.
  <1>10. ASSUME NEW i \in DOMAIN Fragment(m), i <= s
         PROVE  Fragment(m)[i] = FullLog(p)[i]
    <2>1. i \in Nat /\ i >= 1
      BY <1>1 DEF OnInterval
    <2>2. s > 0
      BY <1>4, <1>10, <2>1
    <2>3. Secured(s, snap[p].term) /\ s \in 1..lastIndex(p) /\ FullLog(p)[s] = snap[p].term
      BY <1>1, <2>2, SnapshotIs
    <2> QED
      BY <1>10, <2>3, SecuredAgrees
  \* So does everything before the first conflict.
  <1>11. ASSUME NEW i \in DOMAIN Fragment(m), i <= lastIndex(p), \A j \in Conflicts(m) : i < j
         PROVE  Fragment(m)[i] = FullLog(p)[i]
    <2>1. i \in Nat /\ i >= 1 /\ i <= LastNew(m) /\ i \in FirstOf(m)..LastOf(m)
      BY <1>1, <1>2 DEF OnInterval
    <2>2. CASE i <= s
      BY <1>10, <2>2
    <2>3. CASE i > s /\ i > m.prevIndex
      <3>1. i \notin Conflicts(m)
        BY <1>11, <2>1
      <3> QED
        BY <1>7, <1>8, <1>9, <1>11, <2>1, <2>3, <3>1
    <2>4. CASE i > s /\ i <= m.prevIndex
      <3>1. i = m.prevIndex
        BY <1>3, <2>1, <2>4 DEF FirstOf
      <3>2. Fragment(m)[i] = m.prevTerm
        BY <2>1, <3>1 DEF Fragment
      <3>3. termAt(p, i) = m.prevTerm
        BY <1>3, <1>4, <2>1, <2>4, <3>1
      <3>4. termAt(p, i) = FullLog(p)[i]
        BY <1>1, <1>4, <1>8, <2>1, <2>4, <1>11, TermAtIs, Given
      <3> QED
        BY <3>2, <3>3, <3>4
    <2> QED
      BY <1>3, <1>4, <2>1, <2>2, <2>3, <2>4
  <1>12. CASE Conflicts(m) = {}
    <2>1. KeptTo(m) = lastIndex(p)
      BY <1>12 DEF KeptTo
    <2>2. \A i \in DOMAIN Fragment(m) : i <= KeptTo(m) => Fragment(m)[i] = FullLog(p)[i]
      BY <1>11, <1>12, <2>1
    <2>3. \A i \in KeptTo(m) + 1 .. LastNew(m) : i \in DOMAIN Fragment(m) /\ Fragment(m)[i] = m.ents[i - m.prevIndex]
      BY <1>3, <1>4, <1>9, <2>1
    <2> QED
      BY <1>1, <1>2, <1>3, <1>4, <1>12, <2>1, <2>2, <2>3 DEF MergesAt
  <1>13. CASE Conflicts(m) # {}
    <2>1. PICK k : k = Min(Conflicts(m))
      OBVIOUS
    <2>2. Conflicts(m) \in SUBSET Nat
      BY <1>7
    <2>3. k \in Conflicts(m) /\ \A j \in Conflicts(m) : k <= j
      BY <1>13, <2>1, <2>2, MinOfNaturals
    <2>4. /\ k \in Nat /\ k > m.prevIndex /\ k > s /\ k <= LastNew(m) /\ k <= lastIndex(p)
          /\ entryAt(p, k) # m.ents[k - m.prevIndex]
      BY <1>7, <2>3
    <2>5. KeptTo(m) = k - 1
      BY <1>13, <2>1 DEF KeptTo
    <2>6. KeptTo(m) \in Nat /\ KeptTo(m) + 1 = k /\ KeptTo(m) <= lastIndex(p) /\ s <= KeptTo(m)
          /\ m.prevIndex <= KeptTo(m)
      BY <1>3, <1>4, <2>4, <2>5
    <2>7. Splits(p, m, KeptTo(m))
      <3>1. k \in FirstOf(m)..LastOf(m) /\ Fragment(m)[k] = m.ents[k - m.prevIndex]
        BY <1>9, <2>4
      <3>2. k \in 1..lastIndex(p) /\ FullLog(p)[k] = entryAt(p, k)
        BY <1>8, <2>4
      <3> QED
        BY <2>4, <2>6, <3>1, <3>2 DEF Splits
    <2>8. ASSUME NEW i \in DOMAIN Fragment(m), i <= KeptTo(m) PROVE Fragment(m)[i] = FullLog(p)[i]
      <3>1. i \in Nat
        BY <1>1 DEF OnInterval
      <3>2. i <= lastIndex(p) /\ i < k
        BY <1>4, <2>4, <2>6, <2>8, <3>1
      <3>3. \A j \in Conflicts(m) : i < j
        BY <2>2, <2>3, <2>4, <3>1, <3>2
      <3> QED
        BY <1>11, <3>2, <3>3
    <2>9. \A i \in KeptTo(m) + 1 .. LastNew(m) : i \in DOMAIN Fragment(m) /\ Fragment(m)[i] = m.ents[i - m.prevIndex]
      BY <1>3, <1>9, <2>6
    <2> QED
      BY <1>1, <1>2, <1>3, <1>13, <2>6, <2>7, <2>8, <2>9 DEF MergesAt
  <1> QED
    BY <1>12, <1>13

\* The log a merge leaves.
LEMMA MergedIs ==
    ASSUME RaftInv, NEW m \in Requests, m.type = "AE", MergesAt(m), NEW hi \in Nat,
           hi = IF LastNew(m) > KeptTo(m) THEN LastNew(m) ELSE KeptTo(m)
    PROVE  /\ Merged(m) \in Seq(1..MaxTerm) /\ Len(Merged(m)) = hi - snap[m.to].index
           /\ \A i \in snap[m.to].index + 1 .. KeptTo(m) : Merged(m)[i - snap[m.to].index] = entryAt(m.to, i)
           /\ \A i \in KeptTo(m) + 1 .. LastNew(m) :
                Merged(m)[i - snap[m.to].index] = m.ents[i - m.prevIndex]
  <1> DEFINE p  == m.to
             s  == snap[m.to].index
             K  == KeptTo(m)
             z  == LastNew(m)
             pv == m.prevIndex
             a  == SubSeq(log[p], 1, K - s)
             b  == SubSeq(m.ents, K - pv + 1, Len(m.ents))
  <1>1. /\ pv \in Nat /\ z \in Nat /\ pv <= z /\ z = pv + Len(m.ents) /\ m.ents \in Seq(1..MaxTerm)
        /\ Len(m.ents) \in Nat /\ K \in Nat /\ K <= lastIndex(p) /\ s <= K /\ pv <= K
    BY Bounds DEF MergesAt
  <1>2. /\ s \in Nat /\ log[p] \in Seq(1..MaxTerm) /\ Len(log[p]) \in Nat /\ lastIndex(p) = s + Len(log[p])
    BY Given, FragmentShape, LogTypes, Zenon DEF lastIndex
  <1>3. K - s \in Int /\ 0 <= K - s /\ K - s <= Len(log[p]) /\ 1 \in Int
    BY ONLY <1>1, <1>2
  <1>4. K - pv + 1 \in Int /\ Len(m.ents) \in Int /\ K - pv + 1 >= 1
    BY <1>1
  <1> HIDE DEF p, s, K, z, pv
  <1>5. \A i \in 1..K - s : log[p][i] \in 1..MaxTerm
    <2> SUFFICES ASSUME NEW i \in 1..K - s PROVE log[p][i] \in 1..MaxTerm
      OBVIOUS
    <2>1. i \in 1..Len(log[p])
      BY <1>2, <1>3
    <2> QED
      BY <1>2, <2>1, ElementOfSeq, Zenon
  <1>6. \A i \in K - pv + 1 .. Len(m.ents) : m.ents[i] \in 1..MaxTerm
    <2> SUFFICES ASSUME NEW i \in K - pv + 1 .. Len(m.ents) PROVE m.ents[i] \in 1..MaxTerm
      OBVIOUS
    <2>1. i \in 1..Len(m.ents)
      BY <1>1, <1>4
    <2> QED
      BY <1>1, <2>1, ElementOfSeq, Zenon
  <1>7. /\ a \in Seq(1..MaxTerm)
        /\ Len(a) = IF 1 <= K - s THEN K - s - 1 + 1 ELSE 0
        /\ \A i \in 1..K - s - 1 + 1 : a[i] = log[p][1 + i - 1]
    BY <1>3, <1>5, SubSeqProperties
  <1>8. /\ b \in Seq(1..MaxTerm)
        /\ Len(b) = IF K - pv + 1 <= Len(m.ents) THEN Len(m.ents) - (K - pv + 1) + 1 ELSE 0
        /\ \A i \in 1..Len(m.ents) - (K - pv + 1) + 1 : b[i] = m.ents[(K - pv + 1) + i - 1]
    BY <1>4, <1>6, SubSeqProperties
  <1> HIDE DEF a, b
  <1>9. Len(a) = K - s /\ Len(a) \in Nat /\ \A i \in 1..K - s : a[i] = log[p][i]
    BY <1>3, <1>7
  <1>10. /\ Len(b) = IF z > K THEN z - K ELSE 0
         /\ Len(b) \in Nat /\ \A i \in 1..z - K : b[i] = m.ents[K - pv + i]
    <2>1. Len(b) = (IF z > K THEN z - K ELSE 0) /\ Len(b) \in Nat
      BY <1>1, <1>8
    <2>2. ASSUME NEW i \in 1..z - K PROVE b[i] = m.ents[K - pv + i]
      <3>1. i \in 1..Len(m.ents) - (K - pv + 1) + 1 /\ (K - pv + 1) + i - 1 = K - pv + i
        BY <1>1
      <3> QED
        BY <1>8, <3>1
    <2> QED
      BY <2>1, <2>2
  <1>11. Merged(m) = a \o b
    BY DEF Merged, a, b, p, s, K, pv
  <1>12. /\ a \o b \in Seq(1..MaxTerm) /\ Len(a \o b) = Len(a) + Len(b)
         /\ \A i \in 1..Len(a) + Len(b) : (a \o b)[i] = IF i <= Len(a) THEN a[i] ELSE b[i - Len(a)]
    BY <1>7, <1>8, ConcatProperties
  <1>13. PICK M : M = a \o b
    BY Zenon
  <1>14. hi = IF z > K THEN z ELSE K
    BY DEF z, K
  <1>15. Len(M) = hi - s
    <2>1. Len(M) = (K - s) + (IF z > K THEN z - K ELSE 0)
      BY <1>9, <1>10, <1>12, <1>13, Zenon
    <2> QED
      BY ONLY <1>1, <1>2, <1>14, <2>1
  <1> DEFINE Lengths == /\ s \in Nat /\ K \in Nat /\ z \in Nat /\ pv \in Nat /\ s <= K /\ pv <= K
                        /\ Len(a) = K - s /\ Len(b) = IF z > K THEN z - K ELSE 0
  <1>16. Lengths
    BY <1>1, <1>2, <1>9, <1>10, Zenon
  <1> HIDE DEF Lengths
  <1>17. ASSUME NEW i \in s + 1 .. K PROVE M[i - s] = entryAt(p, i)
    <2>1. i - s \in 1..K - s /\ i - s <= Len(a) /\ i - s \in 1..Len(a) + Len(b)
      BY ONLY <1>16, i \in s + 1 .. K DEF Lengths
    <2>2. M[i - s] = log[p][i - s]
      BY <1>9, <1>12, <1>13, <2>1
    <2> QED
      BY <2>2 DEF entryAt, s, p
  <1>18. ASSUME NEW i \in K + 1 .. z PROVE M[i - s] = m.ents[i - pv]
    <2>1. /\ i - s \in 1..Len(a) + Len(b) /\ ~(i - s <= Len(a)) /\ (i - s) - Len(a) = i - K
          /\ i - K \in 1..z - K /\ K - pv + (i - K) = i - pv
      BY ONLY <1>16, i \in K + 1 .. z DEF Lengths
    <2>2. M[i - s] = b[i - K]
      BY <1>12, <1>13, <2>1
    <2> QED
      BY <1>10, <2>1, <2>2, Zenon
  <1> QED
    BY <1>11, <1>12, <1>13, <1>15, <1>17, <1>18, Zenon DEF p, s, K, z, pv

\* What a merge leaves on disk.
LEMMA PersistedIs ==
    ASSUME RaftInv, NEW m \in Requests, m.type = "AE", MergesAt(m)
    PROVE  LET d == Persisted(m, disk[m.to]) IN
           /\ IsStore(d) /\ d.snap = snap[m.to] /\ DOMAIN d.log \subseteq Index
           /\ \A i : i \in DOMAIN d.log /\ i > snap[m.to].index <=>
                       \/ i \in snap[m.to].index + 1 .. KeptTo(m)
                       \/ i \in KeptTo(m) + 1 .. LastNew(m)
           /\ \A i \in snap[m.to].index + 1 .. KeptTo(m) : d.log[i] = entryAt(m.to, i)
           /\ \A i \in KeptTo(m) + 1 .. LastNew(m) : d.log[i] = m.ents[i - m.prevIndex]
  <1> DEFINE p == m.to
             s == snap[m.to].index
             K == KeptTo(m)
             z == LastNew(m)
             e == [i \in K + 1 .. z |-> m.ents[i - m.prevIndex]]
  <1>1. /\ p \in Node /\ s \in Nat /\ z \in Nat /\ z <= MaxIndex /\ K \in Nat /\ K <= lastIndex(p) /\ s <= K
        /\ lastIndex(p) \in Nat
    <2>1. p \in Node
      BY Given, FragmentShape, Zenon
    <2>2. s \in Nat /\ lastIndex(p) \in Nat
      BY <2>1, Given, LogTypes
    <2>3. z \in 1..MaxIndex /\ K \in Nat /\ K <= lastIndex(p) /\ s <= K
      BY DEF MergesAt
    <2> QED
      BY <2>1, <2>2, <2>3, Bounds
  <1>2. /\ IsStore(disk[p]) /\ disk[p].snap = snap[p]
        /\ (\A i : i \in DOMAIN disk[p].log /\ i > s <=> i \in Held(p))
        /\ (\A i \in Held(p) : disk[p].log[i] = entryAt(p, i))
        /\ DOMAIN disk[p].log \subseteq Index
    BY <1>1, StoreIs
  <1>3. PICK D : D = Truncated(m, disk[p])
    OBVIOUS
  <1>4. /\ IsStore(D) /\ D.snap = snap[p] /\ DOMAIN D.log \subseteq Index
        /\ \A i : i \in DOMAIN D.log /\ i > s /\ i <= K <=> i \in s + 1 .. K
        /\ \A i \in s + 1 .. K : D.log[i] = entryAt(p, i)
        /\ \A i \in DOMAIN D.log : i <= K
    <2>1. CASE Conflicts(m) = {}
      <3>1. D = disk[p] /\ K = lastIndex(p)
        BY <1>3, <2>1 DEF Truncated, MergesAt
      <3>2. \A i \in DOMAIN disk[p].log : i \in Nat
        BY <1>2, Bounds DEF Index
      <3>3. \A i \in DOMAIN disk[p].log : i <= K
        BY <1>1, <1>2, <3>1, <3>2 DEF Held
      <3> QED
        BY <1>1, <1>2, <3>1, <3>3 DEF Held
    <2>2. CASE Conflicts(m) # {}
      <3>1. D = Store!TruncateSuffix(disk[p], K + 1)
        BY <1>3, <2>2 DEF Truncated
      <3>2. /\ IsStore(D) /\ D.snap = disk[p].snap
            /\ \A i : i \in DOMAIN D.log <=> i \in DOMAIN disk[p].log /\ i < K + 1
            /\ \A i \in DOMAIN D.log : D.log[i] = disk[p].log[i]
        BY <1>2, <3>1, StoreOps
      <3>3. \A i \in DOMAIN D.log : i \in Nat /\ i \in Index /\ i <= K
        BY <1>1, <1>2, <3>2, Bounds DEF Index
      <3>4. \A i \in s + 1 .. K : i \in Held(p) /\ i \in DOMAIN D.log /\ i < K + 1
        BY <1>1, <1>2, <3>2 DEF Held
      <3>5. \A i : i \in DOMAIN D.log /\ i > s /\ i <= K <=> i \in s + 1 .. K
        BY <1>1, <3>3, <3>4
      <3>6. \A i \in s + 1 .. K : D.log[i] = entryAt(p, i)
        BY <1>2, <3>2, <3>4
      <3> QED
        BY <1>2, <3>2, <3>3, <3>5, <3>6
    <2> QED
      BY <2>1, <2>2
  <1>5. DOMAIN e = K + 1 .. z /\ \A i \in K + 1 .. z : e[i] = m.ents[i - m.prevIndex]
    OBVIOUS
  <1>6. Persisted(m, disk[p]) = Store!AppendLog(D, e)
    BY <1>3 DEF Persisted
  <1> HIDE DEF e, p, s, K, z
  <1>7. PICK d : d = Persisted(m, disk[p])
    OBVIOUS
  <1>8. /\ IsStore(d) /\ d.snap = D.snap
        /\ DOMAIN d.log = DOMAIN e \cup DOMAIN D.log
        /\ \A i \in DOMAIN e : d.log[i] = e[i]
        /\ \A i \in DOMAIN D.log \ DOMAIN e : d.log[i] = D.log[i]
    BY <1>4, <1>6, <1>7, StoreOps
  <1>9. DOMAIN d.log \subseteq Index
    <2>1. \A i \in K + 1 .. z : i \in Index
      BY <1>1, Bounds DEF Index
    <2> QED
      BY <1>4, <1>5, <1>8, <2>1
  <1>10. \A i : i \in DOMAIN d.log /\ i > s <=> i \in s + 1 .. K \/ i \in K + 1 .. z
    BY <1>1, <1>4, <1>5, <1>8
  <1>11. \A i \in s + 1 .. K : d.log[i] = entryAt(p, i)
    <2> SUFFICES ASSUME NEW i \in s + 1 .. K PROVE d.log[i] = entryAt(p, i)
      OBVIOUS
    <2>1. i \in DOMAIN D.log /\ D.log[i] = entryAt(p, i)
      BY <1>4
    <2>2. i \notin DOMAIN e
      BY <1>1, <1>5
    <2> QED
      BY <1>8, <2>1, <2>2
  <1>12. \A i \in K + 1 .. z : d.log[i] = m.ents[i - m.prevIndex]
    BY <1>5, <1>8
  <1> QED
    BY <1>4, <1>7, <1>8, <1>9, <1>10, <1>11, <1>12 DEF p, s, K, z

\* The last term of a log, by its shape alone.
LEMMA LastTermOf ==
    RestTypes /\ AppliedType /\ StateMachineSafety =>
        \A n \in Node : SnapFits(snap[n]) =>
            /\ lastIndex(n) > 0 => lastTerm(n) = FullLog(n)[lastIndex(n)]
            /\ lastIndex(n) = 0 => lastTerm(n) = 0
  <1> SUFFICES ASSUME RestTypes, AppliedType, StateMachineSafety, NEW n \in Node, SnapFits(snap[n])
               PROVE  /\ lastIndex(n) > 0 => lastTerm(n) = FullLog(n)[lastIndex(n)]
                      /\ lastIndex(n) = 0 => lastTerm(n) = 0
    OBVIOUS
  <1>1. /\ snap[n].index \in Nat /\ log[n] \in Seq(1..MaxTerm)
        /\ lastIndex(n) = snap[n].index + Len(log[n])
    <2>1. snap[n] \in Snap /\ log[n] \in Log
      BY DEF RestTypes
    <2>2. snap[n].index \in 0..MaxIndex
      BY <2>1 DEF Snap, Index
    <2> QED
      BY <2>1, <2>2, Bounds DEF Log, lastIndex
  <1>2. Len(log[n]) \in Nat
    BY <1>1
  <1>3. CASE log[n] = <<>>
    <2>1. lastIndex(n) = snap[n].index /\ lastTerm(n) = snap[n].term
      BY <1>1, <1>3 DEF lastTerm
    <2>2. ASSUME snap[n].index > 0 PROVE FullLog(n)[snap[n].index] = snap[n].term
      <3>1. <<snap[n].index, snap[n].term>> \in applied
        BY <2>2 DEF SnapFits
      <3>2. AppliedTerm(<<snap[n].index, snap[n].term>>[1]) = <<snap[n].index, snap[n].term>>[2]
        BY <3>1, AppliedIs
      <3>3. snap[n].index \in 1..lastIndex(n) /\ snap[n].index <= snap[n].index
        BY <1>1, <2>1, <2>2
      <3> QED
        BY <3>2, <3>3 DEF FullLog
    <2> QED
      BY <1>1, <2>1, <2>2 DEF SnapFits
  <1>4. CASE log[n] # <<>>
    <2>1. Len(log[n]) > 0
      BY <1>1, <1>4
    <2>2. /\ lastIndex(n) \in 1..lastIndex(n) /\ ~(lastIndex(n) <= snap[n].index)
          /\ lastIndex(n) - snap[n].index = Len(log[n]) /\ lastIndex(n) > 0
      BY <1>1, <1>2, <2>1
    <2>3. FullLog(n)[lastIndex(n)] = log[n][Len(log[n])]
      BY <2>2 DEF FullLog, entryAt
    <2> QED
      BY <1>4, <2>2, <2>3 DEF lastTerm
  <1> QED
    BY <1>3, <1>4

\* lastTerm is the term at the end of the full log, after a step.
LEMMA LastTermOfNext ==
    (RestTypes /\ AppliedType /\ StateMachineSafety =>
        \A n \in Node : SnapFits(snap[n]) =>
            /\ lastIndex(n) > 0 => lastTerm(n) = FullLog(n)[lastIndex(n)]
            /\ lastIndex(n) = 0 => lastTerm(n) = 0)'
  BY LastTermOf, PTL

\* A merge is not a cut.
LEMMA SplicedCalm ==
    ASSUME RaftInv, NEW m \in Requests, Spliced(m.to, m)
    PROVE  ~Emptying(m.to)
  <1> DEFINE p == m.to
  <1>1. p \in Node
    BY Given, FragmentShape, Zenon
  <1>2. LogShape(p)
    BY <1>1, LogShapes, Given
  <1>3. DOMAIN FullLog(p) = 1..lastIndex(p) /\ lastIndex(p) \in Nat
    BY <1>2, Bounds DEF LogShape, OnInterval
  <1>4. OnInterval(Fragment(m), FirstOf(m), LastOf(m))
    BY Given, FragmentShape, Zenon
  <1>5. PICK K : /\ SpliceOf(FullLog(p)', FullLog(p), lastIndex(p), Fragment(m), FirstOf(m), LastOf(m), K)
                 /\ K = lastIndex(p) \/ Splits(p, m, K)
    BY DEF Spliced
  <1>6. SUFFICES ASSUME NEW H, LeftTo(p, H) PROVE Same(p)
    BY DEF Emptying, Emptied
  <1>7. /\ K \in Nat /\ K <= lastIndex(p) /\ H \in 0..lastIndex(p)
        /\ DOMAIN FullLog(p)' = 1 .. (IF LastOf(m) > K THEN LastOf(m) ELSE K)
        /\ DOMAIN FullLog(p)' = 1..H /\ LastOf(m) \in Nat
    BY <1>4, <1>5, <1>6 DEF SpliceOf, LeftTo, OnInterval
  <1>8. CASE Splits(p, m, K)
    <2>1. K + 1 \in FirstOf(m)..LastOf(m) /\ K + 1 \in 1..lastIndex(p) /\ FullLog(p)[K + 1] # Fragment(m)[K + 1]
      BY <1>8 DEF Splits
    <2>2. K + 1 \in DOMAIN FullLog(p)' /\ ~(K + 1 <= K)
      BY <1>4, <1>7, <2>1 DEF OnInterval
    <2>3. FullLog(p)'[K + 1] = Fragment(m)[K + 1]
      BY <1>5, <2>2 DEF SpliceOf
    <2>4. FullLog(p)'[K + 1] = FullLog(p)[K + 1]
      BY <1>6, <1>7, <2>2 DEF LeftTo
    <2> QED
      BY <2>1, <2>3, <2>4
  <1>9. CASE K = lastIndex(p)
    <2>1. K \in 1..K \/ K = 0
      BY <1>7
    <2>2. 1..H = 1..lastIndex(p)
      <3>1. CASE K = 0
        BY <1>3, <1>7, <1>9, <3>1
      <3>2. CASE K # 0
        <4>1. K \in 1..(IF LastOf(m) > K THEN LastOf(m) ELSE K)
          BY <1>7, <3>2
        <4>2. K \in 1..H
          BY <1>7, <4>1
        <4>3. H = K
          BY <1>7, <1>9, <4>2
        <4> QED
          BY <1>9, <4>3
      <3> QED
        BY <3>1, <3>2
    <2>3. \A i \in 1..H : FullLog(p)'[i] = FullLog(p)[i]
      BY <1>6 DEF LeftTo
    <2>4. FullLog(p)' = [i \in 1..lastIndex(p)' |-> FullLog(p)'[i]]
      BY DEF FullLog
    <2>5. FullLog(p) = [i \in 1..lastIndex(p) |-> FullLog(p)[i]]
      BY DEF FullLog
    <2>6. 1..lastIndex(p)' = 1..lastIndex(p)
      BY <1>7, <2>2, <2>4
    <2>7. \A i \in 1..lastIndex(p) : FullLog(p)'[i] = FullLog(p)[i]
      BY <2>2, <2>3, Zenon
    <2> QED
      BY <2>4, <2>5, <2>6, <2>7, Zenon DEF Same
  <1> QED
    BY <1>5, <1>8, <1>9

\* The log of a node with what its snapshot covers, index by index.
LEMMA FullLogAt ==
    ASSUME NEW n \in Node, NEW hi \in Nat, lastIndex(n)' = hi
    PROVE  /\ DOMAIN FullLog(n)' = 1..hi
           /\ \A i \in 1..hi : i <= snap'[n].index => FullLog(n)'[i] = AppliedTerm(i)'
           /\ \A i \in 1..hi : ~(i <= snap'[n].index) => FullLog(n)'[i] = entryAt(n, i)'
           /\ FullLog(n)' = [i \in 1..hi |-> FullLog(n)'[i]]
  BY DEF FullLog

\* The log a merge leaves, with what the snapshot covers.
LEMMA MergedLog ==
    ASSUME RaftInv, NEW m \in Requests, m.type = "AE", MergesAt(m), NEW hi \in Nat,
           hi = IF LastNew(m) > KeptTo(m) THEN LastNew(m) ELSE KeptTo(m),
           log'[m.to] = Merged(m), UNCHANGED <<snap, applied>>
    PROVE  /\ lastIndex(m.to)' = hi
           /\ \A i \in snap[m.to].index + 1 .. KeptTo(m) : entryAt(m.to, i)' = entryAt(m.to, i)
           /\ \A i \in KeptTo(m) + 1 .. LastNew(m) : entryAt(m.to, i)' = m.ents[i - m.prevIndex]
           /\ DOMAIN FullLog(m.to)' = 1..hi
           /\ \A i \in 1..hi : i <= KeptTo(m) => FullLog(m.to)'[i] = FullLog(m.to)[i]
           /\ \A i \in 1..hi : ~(i <= KeptTo(m)) => FullLog(m.to)'[i] = Fragment(m)[i]
           /\ Spliced(m.to, m) /\ Took(m.to, m)
  <1>1. PICK p, s, K, z, lo : p = m.to /\ s = snap[m.to].index /\ K = KeptTo(m) /\ z = LastNew(m) /\ lo = FirstOf(m)
    OBVIOUS
  <1>2. /\ p \in Node /\ s \in Nat /\ z \in Nat /\ K \in Nat /\ K <= lastIndex(p) /\ s <= K /\ lastIndex(p) \in Nat
        /\ LogShape(p) /\ z = LastOf(m) /\ m.prevIndex \in Nat /\ m.prevIndex <= K /\ m.prevIndex <= z
        /\ lo \in Nat \ {0} /\ lo <= z /\ OnInterval(Fragment(m), lo, z) /\ OnInterval(FullLog(p), 1, lastIndex(p))
    <2>1. p \in Node /\ OnInterval(Fragment(m), lo, LastOf(m)) /\ lo \in Nat \ {0} /\ LastOf(m) >= lo
      BY <1>1, Given, FragmentShape, Zenon
    <2>2. s \in Nat /\ lastIndex(p) \in Nat /\ LogShape(p)
      BY <1>1, <2>1, Given, LogTypes, LogShapes
    <2>3. z \in 1..MaxIndex /\ K \in Nat /\ K <= lastIndex(p) /\ s <= K /\ z = LastOf(m)
          /\ m.prevIndex \in Nat /\ m.prevIndex <= K /\ m.prevIndex <= z
      BY <1>1 DEF MergesAt
    <2> QED
      BY <2>1, <2>2, <2>3, Bounds DEF LogShape
  <1>3. hi = IF z > K THEN z ELSE K
    BY <1>1
  <1>4. /\ Merged(m) \in Seq(1..MaxTerm) /\ Len(Merged(m)) = hi - s
        /\ \A i \in s + 1 .. K : Merged(m)[i - s] = entryAt(p, i)
        /\ \A i \in K + 1 .. z : Merged(m)[i - s] = m.ents[i - m.prevIndex]
    BY <1>1, MergedIs
  <1>5. PICK M : M = Merged(m)
    OBVIOUS
  <1>6. log'[p] = M /\ snap'[p].index = s /\ snap' = snap /\ applied' = applied
    BY <1>1, <1>5
  <1>7. lastIndex(p)' = hi
    BY <1>2, <1>4, <1>5, <1>6 DEF lastIndex
  <1>8. \A i \in s + 1 .. K : entryAt(p, i)' = entryAt(p, i)
    BY <1>4, <1>5, <1>6 DEF entryAt
  <1>9. \A i \in K + 1 .. z : entryAt(p, i)' = m.ents[i - m.prevIndex]
    BY <1>4, <1>5, <1>6 DEF entryAt
  <1>10. PICK F : F = [i \in 1..hi |-> IF i <= K THEN FullLog(p)[i] ELSE Fragment(m)[i]]
    BY Zenon
  <1>11. FullLog(p)' = F
    <2>1. ASSUME NEW i \in 1..hi, i <= s PROVE AppliedTerm(i)' = F[i]
      <3>1. AppliedTerm(i)' = AppliedTerm(i)
        BY <1>6 DEF AppliedTerm
      <3>2. i \in 1..s /\ i <= K
        BY <1>2, <2>1
      <3>3. FullLog(p)[i] = AppliedTerm(i)
        BY <1>1, <1>2, <3>2 DEF LogShape
      <3> QED
        BY <1>10, <3>1, <3>2, <3>3
    <2>2. ASSUME NEW i \in 1..hi, ~(i <= s) PROVE entryAt(p, i)' = F[i]
      <3>1. CASE i <= K
        <4>1. i \in s + 1 .. K /\ i \in Held(p)
          BY <1>1, <1>2, <2>2, <3>1 DEF Held
        <4>2. FullLog(p)[i] = entryAt(p, i)
          BY <1>2, <4>1 DEF LogShape
        <4> QED
          BY <1>8, <1>10, <3>1, <4>1, <4>2
      <3>2. CASE ~(i <= K)
        <4>1. i \in K + 1 .. z
          BY <1>2, <1>3, <2>2, <3>2
        <4>2. Fragment(m)[i] = m.ents[i - m.prevIndex]
          BY <1>1, <4>1 DEF MergesAt
        <4> QED
          BY <1>9, <1>10, <3>2, <4>1, <4>2
      <3> QED
        BY <3>1, <3>2
    <2>3. \A i \in 1..hi : FullLog(p)'[i] = F[i]
      BY <1>2, <1>6, <1>7, <2>1, <2>2, FullLogAt
    <2>4. FullLog(p)' = [i \in 1..hi |-> FullLog(p)'[i]]
      BY <1>2, <1>7, FullLogAt
    <2>5. F = [i \in 1..hi |-> F[i]]
      BY <1>10
    <2> HIDE DEF FullLog
    <2> QED
      BY <2>3, <2>4, <2>5
  <1>12. PICK f, a, La : f = Fragment(m) /\ a = FullLog(p) /\ La = lastIndex(p)
    OBVIOUS
  <1>13. SpliceOf(F, a, La, f, lo, z, K)
    <2>1. lo = 1 \/ (lo <= K /\ lo <= z)
      BY <1>1, <1>2 DEF FirstOf
    <2>2. \A i \in lo..z : i <= K => a[i] = f[i]
      <3>1. \A i \in lo..z : i \in DOMAIN f
        BY <1>2, <1>12 DEF OnInterval
      <3> QED
        BY <1>1, <1>12, <3>1 DEF MergesAt
    <2>3. DOMAIN F = 1..hi /\ \A i \in DOMAIN F : F[i] = IF i <= K THEN a[i] ELSE f[i]
      BY <1>10, <1>12
    <2> QED
      BY <1>2, <1>3, <1>12, <2>1, <2>2, <2>3 DEF SpliceOf
  <1>14. Spliced(p, m)
    <2>1. K = lastIndex(p) \/ Splits(p, m, K)
      BY <1>1 DEF MergesAt
    <2> QED
      BY <1>1, <1>2, <1>11, <1>12, <1>13, <2>1 DEF Spliced
  <1>15. Took(p, m)
    <2> SUFFICES ASSUME NEW i \in DOMAIN f PROVE i \in DOMAIN F /\ F[i] = f[i]
      BY <1>11, <1>12 DEF Took
    <2>1. i \in lo..z /\ i \in Nat /\ i >= 1 /\ i <= z
      BY <1>2, <1>12 DEF OnInterval
    <2>2. i \in 1..hi
      BY <1>2, <1>3, <2>1
    <2>3. i <= K => a[i] = f[i]
      BY <1>13, <2>1 DEF SpliceOf
    <2> QED
      BY <1>10, <1>12, <2>2, <2>3
  <1> QED
    BY <1>1, <1>7, <1>8, <1>9, <1>10, <1>11, <1>14, <1>15

\* A merge does not reach down to what is committed.
LEMMA MergeAboveCommit ==
    ASSUME RaftInv, NEW m \in Requests, m.type = "AE", m.term >= currentTerm[m.to], MergesAt(m)
    PROVE  commitIndex[m.to] <= KeptTo(m)
  <1>1. PICK p : p = m.to
    OBVIOUS
  <1>2. p \in Node /\ OnInterval(Fragment(m), FirstOf(m), LastOf(m))
    BY <1>1, Given, FragmentShape, Zenon
  <1>3. commitIndex[p] \in Nat /\ commitIndex[p] <= lastIndex(p) /\ KeptTo(m) \in Nat
    BY <1>1, <1>2, Given, Bounds DEF RestTypes, Index, Fits, IndicesInLog, MergesAt
  <1>4. CASE Conflicts(m) = {}
    BY <1>1, <1>3, <1>4 DEF MergesAt
  <1>5. CASE Conflicts(m) # {}
    <2>1. Splits(p, m, KeptTo(m))
      BY <1>1, <1>5 DEF MergesAt
    <2>2. SUFFICES ASSUME commitIndex[p] > KeptTo(m) PROVE FALSE
      BY <1>1, <1>3
    <2>3. commitIndex[p] > 0
      BY <1>3, <2>2
    <2>4. /\ commitIndex[p] \in 1..lastIndex(p) /\ Secured(commitIndex[p], FullLog(p)[commitIndex[p]])
      BY <1>2, <2>3, CommitIs
    <2>5. /\ KeptTo(m) + 1 \in DOMAIN Fragment(m) /\ KeptTo(m) + 1 <= commitIndex[p]
          /\ FullLog(p)[KeptTo(m) + 1] # Fragment(m)[KeptTo(m) + 1]
      BY <1>2, <1>3, <2>1, <2>2 DEF Splits, OnInterval
    <2> QED
      BY <1>1, <2>4, <2>5, SecuredAgrees
  <1> QED
    BY <1>4, <1>5

\* In the same term a merge does not make the log end earlier.
LEMMA MergePosition ==
    ASSUME RaftInv, NEW m \in Requests, m.type = "AE", m.term = currentTerm[m.to], MergesAt(m),
           NEW hi \in Nat, hi = IF LastNew(m) > KeptTo(m) THEN LastNew(m) ELSE KeptTo(m),
           NEW lt, hi > 0 => lt = (IF hi <= KeptTo(m) THEN FullLog(m.to)[hi] ELSE Fragment(m)[hi]),
           hi = 0 => lt = 0
    PROVE  EP!UpToDate([term |-> lt, index |-> hi], LastPos[m.to])
  <1>1. PICK p, K, z, F, G : p = m.to /\ K = KeptTo(m) /\ z = LastNew(m) /\ F = Fragment(m) /\ G = FullLog(p)
    OBVIOUS
  <1>2. /\ p \in Node /\ OnInterval(F, FirstOf(m), z) /\ z >= FirstOf(m) /\ F[z] = m.term
        /\ m.term \in Nat /\ FirstOf(m) \in Nat /\ z = LastOf(m)
    <2>1. /\ p \in Node /\ OnInterval(F, FirstOf(m), LastOf(m)) /\ LastOf(m) >= FirstOf(m)
          /\ F[LastOf(m)] = m.term /\ m.term \in 1..MaxTerm /\ FirstOf(m) \in Nat
      BY <1>1, Given, FragmentShape, Zenon
    <2>2. z = LastOf(m)
      BY <1>1 DEF MergesAt
    <2> QED
      BY <2>1, <2>2, Bounds
  <1>3. /\ LogShape(p) /\ K \in Nat /\ z \in Nat /\ K <= lastIndex(p) /\ lastIndex(p) \in Nat
        /\ IF Conflicts(m) = {} THEN K = lastIndex(p) ELSE Splits(p, m, K)
    BY <1>1, <1>2, Given, LogShapes, LogTypes, Bounds DEF MergesAt
  <1>4. LastPos[p] = [term |-> lastTerm(p), index |-> lastIndex(p)] /\ lastTerm(p) \in Nat
    BY <1>2, <1>3 DEF LastPos, LogShape
  <1>5. lastIndex(p) > 0 => lastIndex(p) \in DOMAIN G /\ G[lastIndex(p)] = lastTerm(p)
    BY <1>1, <1>3 DEF LogShape, OnInterval
  <1>6. lastTerm(p) <= m.term
    <2>1. CASE lastIndex(p) > 0
      BY <2>1, <1>1, <1>2, <1>5, Given DEF TermsSound
    <2>2. CASE ~(lastIndex(p) > 0)
      BY <2>2, <1>2, <1>3 DEF LogShape
    <2> QED
      BY <2>1, <2>2
  <1>7. hi = IF z > K THEN z ELSE K
    BY <1>1
  <1>8. hi > 0 => lt = IF hi <= K THEN G[hi] ELSE F[hi]
    BY <1>1
  <1>9. CASE Conflicts(m) = {}
    <2>1. K = lastIndex(p)
      BY <1>3, <1>9
    <2>2. CASE z > K
      <3>1. lt = m.term /\ hi = z
        BY <1>2, <1>3, <1>7, <1>8, <2>2
      <3> QED
        BY <1>1, <1>2, <1>3, <1>4, <1>6, <2>1, <2>2, <3>1 DEF EP!UpToDate
    <2>3. CASE ~(z > K)
      <3>1. hi = lastIndex(p)
        BY <1>7, <2>1, <2>3
      <3>2. lt = lastTerm(p)
        <4>1. CASE hi > 0
          BY <1>3, <1>5, <1>8, <2>1, <3>1, <4>1
        <4>2. CASE ~(hi > 0)
          BY <1>3, <3>1, <4>2 DEF LogShape
        <4> QED
          BY <4>1, <4>2
      <3> QED
        BY <1>1, <1>3, <1>4, <3>1, <3>2 DEF EP!UpToDate
    <2> QED
      BY <2>2, <2>3
  <1>10. CASE Conflicts(m) # {}
    <2>1. /\ K + 1 \in FirstOf(m)..z /\ K + 1 \in 1..lastIndex(p) /\ G[K + 1] # F[K + 1]
      BY <1>1, <1>2, <1>3, <1>10 DEF Splits
    <2>2. z > K /\ hi = z /\ lt = m.term
      BY <1>2, <1>3, <1>7, <1>8, <2>1
    <2>3. lastTerm(p) = m.term => z > lastIndex(p)
      <3> SUFFICES ASSUME lastTerm(p) = m.term, z <= lastIndex(p) PROVE FALSE
        BY <1>3
      <3>1. lastIndex(p) \in DOMAIN G /\ G[lastIndex(p)] = F[z] /\ z \in DOMAIN F
        BY <1>2, <1>3, <1>5, <2>1 DEF OnInterval
      <3>2. Coheres(F, G)
        BY <1>1, <1>2, Given DEF Coherent, Carriers
      <3>3. K + 1 \in DOMAIN F \cap DOMAIN G /\ K + 1 <= z
        BY <1>1, <1>2, <1>3, <2>1 DEF LogShape, OnInterval
      <3> QED
        BY <2>1, <3>1, <3>2, <3>3 DEF Coheres
    <2> QED
      BY <1>1, <1>2, <1>3, <1>4, <1>6, <2>2, <2>3 DEF EP!UpToDate
  <1> QED
    BY <1>9, <1>10

\* The commit index a follower comes to.
LEMMA FollowerCommitIs ==
    ASSUME RaftInv, NEW m \in Requests, m.type = "AE", m.term >= currentTerm[m.to], MergesAt(m),
           NEW hi \in Nat, hi = IF LastNew(m) > KeptTo(m) THEN LastNew(m) ELSE KeptTo(m)
    PROVE  /\ FollowerCommit(m) = (IF m.commit <= commitIndex[m.to] THEN commitIndex[m.to] ELSE m.commit)
           /\ FollowerCommit(m) \in Nat /\ commitIndex[m.to] <= FollowerCommit(m) /\ FollowerCommit(m) <= hi
  <1>1. PICK p, K, z : p = m.to /\ K = KeptTo(m) /\ z = LastNew(m)
    OBVIOUS
  <1>2. p \in Node /\ m \in AppendRequest
    BY <1>1, Given, FragmentShape, Zenon
  <1>3. m.commit \in 0..MaxIndex
    BY <1>2 DEF AppendRequest, Index
  <1>4. /\ commitIndex[p] \in 0..MaxIndex /\ commitIndex[p] <= K
    BY <1>1, <1>2, Given, MergeAboveCommit DEF RestTypes, Index
  <1>5. /\ K \in Nat /\ z \in 1..MaxIndex /\ m.commit <= z
    BY <1>1, Given, Zenon DEF MergesAt, Fits, RequestsFit, RequestFits
  <1>6. /\ m.commit \in Nat /\ commitIndex[p] \in Nat /\ K \in Nat /\ z \in Nat
    BY <1>3, <1>4, <1>5, Bounds
  <1>7. hi = IF z > K THEN z ELSE K
    BY <1>1
  <1>8. Max({K, z}) = hi
    BY <1>6, <1>7, MaxOfTwo
  <1>9. Min({m.commit, hi}) = m.commit
    BY <1>5, <1>6, <1>7, MinOfTwo
  <1> QED
    BY <1>1, <1>4, <1>5, <1>6, <1>7, <1>8, <1>9 DEF FollowerCommit

\* Following the sender of m, in a newer term, clears the campaign; so does dying.
LEMMA FollowNewer ==
    ASSUME RaftInv, NEW m \in Requests, m.term > currentTerm[m.to],
           E!FollowLeader(m.to, m.from, m.term) \/ E!DieFollowing(m.to, m.from, m.term)
    PROVE  PositionAt(m.to)
  <1>1. /\ m.to \in Node /\ m.term \in Nat /\ currentTerm \in [Node -> 0..MaxTerm] /\ currentTerm[m.to] \in Nat
        /\ [node |-> m.from, term |-> m.term] \in leaders
    <2>1. m.to \in Node /\ m.term \in 1..MaxTerm /\ [node |-> m.from, term |-> m.term] \in leaders
      BY Given, FragmentShape
    <2>2. currentTerm \in [Node -> 0..MaxTerm]
      BY Given DEF ElectionShape
    <2> QED
      BY <2>1, <2>2, Bounds
  <1>2. preVotes \in [Node -> SUBSET E!Round]
    BY Given DEF TypeOK, E!TypeOK
  <1>3. E!stepDown(m.to, m.term)
    BY <1>1 DEF E!FollowLeader, E!DieFollowing
  <1>4. preVotes'[m.to] = {} /\ currentTerm'[m.to] = m.term
    BY <1>1, <1>2, <1>3 DEF E!stepDown
  <1>5. \E v \in leaders : v.term = currentTerm'[m.to]
    BY <1>1, <1>4
  <1> QED
    BY <1>4, <1>5 DEF PositionAt

\* AppendEntries takes over the piece of the leader's log it carries, keeps what
\* the node acknowledged, and commits no more than the leader did.
LEMMA AcceptAppendOk ==
    ASSUME RaftInv, NEW m \in msgs, AcceptAppend(m)
    PROVE  StepOk /\ Took(m.to, m)
  <1>1. /\ m \in Requests /\ m.type = "AE" /\ m.term >= currentTerm[m.to]
        /\ ~TooShort(m) /\ ~Mismatch(m)
        /\ log'  = [log EXCEPT ![m.to] = Merged(m)]
        /\ disk' = [disk EXCEPT ![m.to] = Persisted(m, disk[m.to])]
        /\ commitIndex' = [commitIndex EXCEPT ![m.to] = FollowerCommit(m)]
        /\ UNCHANGED <<snap, sm, lastApplied, applied, nextIndex, matchIndex, faults>>
        /\ E!FollowLeader(m.to, m.from, m.term)
        /\ Answer(m, AEReply(m, m.term, TRUE, 0, 0))
    BY Zenon DEF AcceptAppend, Requests, leaderVars
  <1>2. Followed(m.to, m) /\ leaders' = leaders
    BY <1>1, FollowIs
  <1>3. MergesAt(m)
    BY <1>1, MergeIs
  <1>4. PICK p, s, K, z : p = m.to /\ s = snap[m.to].index /\ K = KeptTo(m) /\ z = LastNew(m)
    OBVIOUS
  <1>5. /\ p \in Node /\ m \in AppendRequest /\ OnInterval(Fragment(m), FirstOf(m), z) /\ z = LastOf(m)
        /\ Fragment(m)[z] = m.term /\ m.from # m.to
    <2>1. z = LastOf(m)
      BY <1>3, <1>4 DEF MergesAt
    <2> QED
      BY <1>1, <1>4, <2>1, Given, FragmentShape, Zenon
  <1>6. /\ s \in Nat /\ z \in Nat /\ K \in Nat /\ K <= lastIndex(p) /\ s <= K /\ lastIndex(p) \in Nat
        /\ z <= MaxIndex /\ LogShape(p) /\ lastIndex(p) <= MaxIndex /\ MaxIndex \in Nat
    <2>1. z \in 1..MaxIndex /\ K \in Nat /\ K <= lastIndex(p) /\ s <= K
      BY <1>3, <1>4 DEF MergesAt
    <2>2. s \in Nat /\ lastIndex(p) \in Nat /\ LogShape(p) /\ lastIndex(p) \in 0..MaxIndex
      BY <1>4, <1>5, Given, LogTypes, LogShapes, FullLogShape
    <2> QED
      BY <2>1, <2>2, Bounds
  <1>7. PICK hi \in Nat : hi = IF LastNew(m) > KeptTo(m) THEN LastNew(m) ELSE KeptTo(m)
    BY <1>4, <1>6
  <1>8. (hi = IF z > K THEN z ELSE K) /\ hi \in Index /\ s <= hi /\ K <= hi
    BY <1>4, <1>6, <1>7 DEF Index
  <1>9. /\ Merged(m) \in Seq(1..MaxTerm)
    BY <1>1, <1>3, <1>7, MergedIs
  <1>10. LET d == Persisted(m, disk[m.to]) IN
         /\ IsStore(d) /\ d.snap = snap[m.to] /\ DOMAIN d.log \subseteq Index
         /\ \A i : i \in DOMAIN d.log /\ i > snap[m.to].index <=>
                     \/ i \in snap[m.to].index + 1 .. KeptTo(m)
                     \/ i \in KeptTo(m) + 1 .. LastNew(m)
         /\ \A i \in snap[m.to].index + 1 .. KeptTo(m) : d.log[i] = entryAt(m.to, i)
         /\ \A i \in KeptTo(m) + 1 .. LastNew(m) : d.log[i] = m.ents[i - m.prevIndex]
    BY <1>1, <1>3, PersistedIs
  <1>11. PICK l, d, c : l = Merged(m) /\ d = Persisted(m, disk[m.to]) /\ c = FollowerCommit(m)
    OBVIOUS
  <1>12. /\ IsStore(d) /\ d.snap = snap[p] /\ DOMAIN d.log \subseteq Index
         /\ \A i : i \in DOMAIN d.log /\ i > s <=> i \in s + 1 .. K \/ i \in K + 1 .. z
         /\ \A i \in s + 1 .. K : d.log[i] = entryAt(p, i)
         /\ \A i \in K + 1 .. z : d.log[i] = m.ents[i - m.prevIndex]
    BY <1>4, <1>10, <1>11
  <1>13. /\ c = (IF m.commit <= commitIndex[p] THEN commitIndex[p] ELSE m.commit)
         /\ c \in Nat /\ commitIndex[p] <= c /\ c <= hi
    BY <1>1, <1>3, <1>4, <1>7, <1>11, FollowerCommitIs
  <1>14. /\ RestTypes' /\ (\A q \in Node \ {p} : Calm(q))
         /\ log'[p] = l /\ snap'[p] = snap[p] /\ disk'[p] = d
         /\ commitIndex'[p] = c /\ lastApplied'[p] = lastApplied[p]
    <2>0. RestTypes
      BY Given
    <2>1. PICK sn, x, a : sn = snap[p] /\ x = sm[p] /\ a = lastApplied[p]
      OBVIOUS
    <2>2. /\ snap' = [snap EXCEPT ![p] = sn] /\ sm' = [sm EXCEPT ![p] = x]
          /\ lastApplied' = [lastApplied EXCEPT ![p] = a]
      BY <1>1, <2>0, <2>1 DEF RestTypes
    <2>3. Becomes(p, l, sn, d, x, c, a)
      BY <1>1, <1>4, <1>11, <2>2, Zenon DEF Becomes
    <2>4. l \in Log /\ sn \in Snap /\ x \in Log /\ a \in Index
      BY <1>5, <1>9, <1>11, <2>0, <2>1 DEF RestTypes, Log
    <2>5. c \in Index
      BY <1>6, <1>8, <1>13 DEF Index
    <2>6. /\ nextIndex' \in [Node -> [Node -> 1..(MaxIndex + 1)]]
          /\ matchIndex' \in [Node -> [Node -> Index]] /\ faults' \in 0..MaxFaults
      BY <1>1, <2>0 DEF RestTypes
    <2>7. /\ RestTypes' /\ (\A q \in Node \ {p} : Calm(q))
          /\ log'[p] = l /\ snap'[p] = sn /\ disk'[p] = d
          /\ commitIndex'[p] = c /\ lastApplied'[p] = a
      <3>1. p \in Node /\ IsStore(d) /\ DOMAIN d.log \subseteq Index
        BY <1>5, <1>12
      <3> QED
        BY <2>0, <2>3, <2>4, <2>5, <2>6, <3>1, OneNode, Zenon
    <2> QED
      BY <2>1, <2>7
  <1>15. AppliedGrows /\ \A a \in applied' : Settled(a[1], a[2])
    BY <1>1, NothingApplied
  <1>16. /\ lastIndex(p)' = hi
         /\ \A i \in s + 1 .. K : entryAt(p, i)' = entryAt(p, i)
         /\ \A i \in K + 1 .. z : entryAt(p, i)' = m.ents[i - m.prevIndex]
         /\ DOMAIN FullLog(p)' = 1..hi
         /\ \A i \in 1..hi : i <= K => FullLog(p)'[i] = FullLog(p)[i]
         /\ \A i \in 1..hi : ~(i <= K) => FullLog(p)'[i] = Fragment(m)[i]
         /\ Spliced(p, m) /\ Took(p, m)
    BY <1>1, <1>3, <1>4, <1>7, <1>11, <1>14, MergedLog
  <1>17. LogStep(p)
    BY <1>1, <1>2, <1>4, <1>16 DEF LogStep
  <1>18. ~Emptying(p)
    BY <1>1, <1>4, <1>16, SplicedCalm
  <1>19. DiskFits(p)'
    <2>1. {i \in DOMAIN d.log : i > s} = s + 1 .. hi
      <3>1. \A i : i \in s + 1 .. K \/ i \in K + 1 .. z <=> i \in s + 1 .. hi
        BY <1>6, <1>8
      <3>2. \A i : i \in DOMAIN d.log /\ i > s <=> i \in s + 1 .. hi
        BY <1>12, <3>1
      <3> QED
        BY <3>2
    <2>2. \A i \in s + 1 .. hi : d.log[i] = entryAt(p, i)'
      <3> SUFFICES ASSUME NEW i \in s + 1 .. hi PROVE d.log[i] = entryAt(p, i)'
        OBVIOUS
      <3>1. i \in s + 1 .. K \/ i \in K + 1 .. z
        BY <1>6, <1>8
      <3> QED
        BY <1>12, <1>16, <3>1
    <2>3. Held(p)' = s + 1 .. hi
      BY <1>4, <1>14, <1>16 DEF Held
    <2>4. snap'[p].index = s
      BY <1>4, <1>14
    <2> QED
      BY <1>12, <1>14, <2>1, <2>2, <2>3, <2>4 DEF DiskFits
  <1>20. /\ s <= lastApplied[p] /\ lastApplied[p] <= commitIndex[p] /\ commitIndex[p] <= K
         /\ lastApplied[p] \in Nat /\ commitIndex[p] \in Nat
    <2>1. commitIndex[p] <= K
      BY <1>1, <1>3, <1>4, MergeAboveCommit
    <2> QED
      BY <1>4, <1>5, <2>1, Given, Bounds DEF RestTypes, Index, Fits, IndicesInLog
  <1>21. SnapFits(snap[p])'
    BY <1>1, <1>5, <1>14, SnapshotIs, <1>15, SnapshotStays
  <1>22. NodeFits(p)'
    <2>1. \A i \in 1..lastApplied[p] : <<i, FullLog(p)'[i]>> \in applied
      <3> SUFFICES ASSUME NEW i \in 1..lastApplied[p] PROVE <<i, FullLog(p)'[i]>> \in applied
        OBVIOUS
      <3>1. <<i, FullLog(p)[i]>> \in applied
        BY <1>5, Given DEF Fits, NodesFit, NodeFits
      <3>2. i \in 1..hi /\ i <= K
        BY <1>6, <1>8, <1>20
      <3> QED
        BY <1>16, <3>1, <3>2
    <2>2. lastIndex(p)' <= MaxIndex
      BY <1>6, <1>8, <1>16
    <2> QED
      BY <1>1, <1>14, <1>19, <1>21, <2>1, <2>2 DEF NodeFits
  <1>23. Bounded(p)'
    <2>1. snap'[p].index = s
      BY <1>4, <1>14
    <2>2. lastApplied[p] <= c
      BY <1>13, <1>20
    <2> QED
      BY <1>13, <1>14, <1>16, <1>20, <2>1, <2>2 DEF Bounded
  <1>24. PositionAt(p)
    <2>1. CASE m.term > currentTerm[m.to]
      BY <1>1, <1>4, <2>1, FollowNewer
    <2>2. CASE ~(m.term > currentTerm[m.to])
      <3>1. m.term = currentTerm[m.to]
        <4>1. m.term \in Nat /\ currentTerm[m.to] \in Nat
          <5>1. m.term \in 1..MaxTerm /\ currentTerm[m.to] \in 0..MaxTerm
            BY <1>1, <1>4, <1>5, Given, FragmentShape, Zenon DEF ElectionShape
          <5> QED
            BY <5>1, Bounds
        <4> QED
          BY <1>1, <2>2, <4>1
      <3>2. PICK lt : lt = lastTerm(p)'
        OBVIOUS
      <3>3. /\ hi > 0 => lt = FullLog(p)'[hi]
            /\ hi = 0 => lt = 0
        BY <1>5, <1>14, <1>15, <1>16, <1>21, <3>2, LastTermOfNext DEF AppliedGrows
      <3>4. hi > 0 => lt = IF hi <= K THEN FullLog(p)[hi] ELSE Fragment(m)[hi]
        BY <1>16, <3>3
      <3>5. EP!UpToDate([term |-> lt, index |-> hi], LastPos[p])
        BY <1>1, <1>3, <1>4, <1>7, <3>1, <3>3, <3>4, MergePosition
      <3>6. LastPos'[p] = [term |-> lt, index |-> hi]
        BY <1>5, <1>16, <3>2 DEF LastPos
      <3> QED
        BY <3>5, <3>6 DEF PositionAt
    <2> QED
      BY <2>1, <2>2
  <1>25. CommitStep(p)
    <2> SUFFICES ASSUME NEW k \in 1..MaxIndex, c = k
                 PROVE  \/ commitIndex[p] = k /\ ~Emptying(p)
                        \/ \E x \in Requests : x.type = "AE" /\ x.commit = k /\ Followed(p, x) /\ Took(p, x)
      BY <1>14 DEF CommitStep
    <2>1. CASE m.commit <= commitIndex[p]
      BY <1>13, <1>18, <2>1
    <2>2. CASE ~(m.commit <= commitIndex[p])
      BY <1>1, <1>2, <1>4, <1>13, <1>16, <2>2
    <2> QED
      BY <2>1, <2>2
  <1>26. SnapshotStep(p)
    <2> SUFFICES ASSUME NEW k \in 1..MaxIndex, snap'[p].index = k
                 PROVE  snap[p].index = k /\ FullLog(p)'[k] = FullLog(p)[k]
      BY DEF SnapshotStep
    <2>1. k = s /\ k \in 1..hi /\ k <= K
      BY <1>4, <1>6, <1>8, <1>14
    <2> QED
      BY <1>4, <1>16, <2>1
  <1>27. NodeOk(p)
    BY <1>4, <1>6, <1>14, <1>17, <1>22, <1>23, <1>24, <1>25, <1>26 DEF NodeOk
  <1>28. MessagesOk
    <2>1. 0 \in 0..MaxIndex + 1 /\ 0 \in E!Term
      BY Bounds DEF E!Term
    <2>2. PICK r : r = AEReply(m, m.term, TRUE, 0, 0)
      BY Zenon
    <2>3. LET q == AEReply(m, m.term, TRUE, 0, 0)
          IN  ReplyFits(q) /\ q.from = m.to /\ q.to = m.from /\ q.forTerm = m.term
              /\ (Accepting(q) <=> TRUE) /\ q.match = LastOf(m)
      BY <1>1, <2>1, AppendReplyFits, Zenon
    <2>4. ReplyFits(r) /\ r.from = m.to /\ r.to = m.from /\ r.forTerm = m.term /\ r.match = LastOf(m)
      BY <2>2, <2>3, Zenon
    <2>5. Answer(m, r)
      BY <1>1, <2>2, Zenon DEF Answer
    <2>6. AckFits(r)
      <3>1. r.match <= LastOf(m)
        BY <1>5, <1>6, <2>4
      <3>2. m.from = r.to /\ m.to = r.from /\ m.term = r.forTerm /\ Followed(r.from, m) /\ Took(r.from, m)
        BY <1>2, <1>4, <1>16, <2>4
      <3> QED
        BY <1>1, <3>1, <3>2 DEF AckFits
    <2> QED
      BY <1>1, <2>4, <2>5, <2>6, Given, AnsweredMessages
  <1>29. MatchOk /\ WinnersGrow
    BY <1>1, <1>2 DEF MatchOk, WinnersGrow
  <1> QED
    BY <1>4, <1>5, <1>14, <1>15, <1>16, <1>27, <1>28, <1>29 DEF StepOk

-----------------------------------------------------------------------------
(***************************************************************************)
(* Snapshots: the log stays what it is, its lower part moves out of sight. *)
(***************************************************************************)

\* A step that only moves the snapshot, what is applied and the commit index.
LEMMA SameNode ==
    ASSUME RaftInv, RestTypes', AppliedGrows, NEW n \in Node, NEW s \in Nat, NEW a \in Nat, NEW c \in Nat,
           snap'[n].index = s, lastApplied'[n] = a, commitIndex'[n] = c,
           snap[n].index <= s, s <= a, a <= c, c <= lastIndex(n), lastIndex(n)' = lastIndex(n),
           \A i \in s + 1 .. lastIndex(n) : entryAt(n, i)' = FullLog(n)[i],
           \A i \in 1..a : <<i, FullLog(n)[i]>> \in applied',
           SnapFits(snap[n])', DiskFits(n)',
           c = commitIndex[n] \/ c = s,
           \/ s = snap[n].index \/ s = commitIndex[n]
           \/ \E m \in Requests : m.type = "IS" /\ m.snap.index = s /\ Followed(n, m) /\ (Same(n) => Took(n, m))
    PROVE  NodeOk(n) /\ Same(n)
  <1>1. LogShape(n) /\ lastIndex(n) \in Nat /\ lastIndex(n) <= MaxIndex
    <2>1. LogShape(n) /\ lastIndex(n) \in 0..MaxIndex
      BY Given, LogShapes, FullLogShape
    <2> QED
      BY <2>1, Bounds
  <1>2. PICK hi \in Nat : hi = lastIndex(n)
    BY <1>1
  <1>3. /\ DOMAIN FullLog(n)' = 1..hi
        /\ \A i \in 1..hi : i <= s => FullLog(n)'[i] = AppliedTerm(i)'
        /\ \A i \in 1..hi : ~(i <= s) => FullLog(n)'[i] = entryAt(n, i)'
        /\ FullLog(n)' = [i \in 1..hi |-> FullLog(n)'[i]]
    <2>1. lastIndex(n)' = hi
      BY <1>2
    <2> QED
      BY <2>1, FullLogAt
  <1>4. ASSUME NEW i \in 1..hi PROVE FullLog(n)'[i] = FullLog(n)[i]
    <2>1. CASE i <= s
      <3>1. i \in 1..a
        BY <1>2, <2>1
      <3>2. PICK e : e = <<i, FullLog(n)[i]>>
        BY Zenon
      <3>3. e \in applied' /\ e[1] = i /\ e[2] = FullLog(n)[i]
        BY <3>1, <3>2
      <3>4. AppliedTerm(e[1])' = e[2]
        BY <3>3, AppliedIsNext DEF AppliedGrows
      <3>5. AppliedTerm(i)' = FullLog(n)[i]
        BY <3>3, <3>4
      <3> QED
        BY <1>3, <2>1, <3>5
    <2>2. CASE ~(i <= s)
      <3>1. i \in s + 1 .. lastIndex(n)
        BY <1>2, <2>2
      <3> QED
        BY <1>3, <2>2, <3>1
    <2> QED
      BY <2>1, <2>2
  <1>5. FullLog(n)' = FullLog(n)
    <2>1. FullLog(n) = [i \in 1..hi |-> FullLog(n)[i]]
      BY <1>2 DEF FullLog
    <2> QED
      BY <1>3, <1>4, <2>1
  <1>6. Same(n)
    BY <1>5 DEF Same
  <1>7. NodeFits(n)'
    <2>1. lastIndex(n)' <= MaxIndex
      BY <1>1
    <2>2. \A i \in 1..a : <<i, FullLog(n)'[i]>> \in applied'
      BY <1>5
    <2> QED
      BY <2>1, <2>2 DEF NodeFits
  <1>8. Bounded(n)'
    BY <1>2 DEF Bounded
  <1>9. PositionAt(n)
    <2>1. /\ lastIndex(n)' > 0 => lastTerm(n)' = FullLog(n)'[lastIndex(n)']
          /\ lastIndex(n)' = 0 => lastTerm(n)' = 0
      BY LastTermOfNext DEF AppliedGrows
    <2>2. lastTerm(n)' = lastTerm(n)
      <3>1. CASE hi > 0
        BY <1>1, <1>2, <1>5, <2>1, <3>1 DEF LogShape
      <3>2. CASE ~(hi > 0)
        BY <1>1, <1>2, <2>1, <3>2 DEF LogShape
      <3> QED
        BY <3>1, <3>2
    <2>3. LastPos'[n] = LastPos[n]
      BY <2>2 DEF LastPos
    <2>4. LastPos[n].index \in Nat
      BY Given, PosTypes, Zenon
    <2>5. EP!UpToDate(LastPos[n], LastPos[n])
      BY <2>4 DEF EP!UpToDate
    <2> QED
      BY <2>3, <2>5 DEF PositionAt
  <1>10. ~Emptying(n)
    BY <1>6 DEF Emptying
  <1>11. CommitStep(n)
    BY <1>10 DEF CommitStep
  <1>12. SnapshotStep(n)
    BY <1>5, <1>6, <1>10 DEF SnapshotStep
  <1> QED
    BY <1>6, <1>7, <1>8, <1>9, <1>11, <1>12 DEF NodeOk, LogStep

\* Two logs of one length have the same last index.
LEMMA IntervalSame ==
    ASSUME NEW x \in Nat, NEW y \in Nat, 1..x = 1..y
    PROVE  x = y
  <1>1. CASE x > y
    <2>1. x \in 1..x /\ x \notin 1..y
      BY <1>1
    <2> QED
      BY <2>1
  <1>2. CASE x < y
    <2>1. y \in 1..y /\ y \notin 1..x
      BY <1>2
    <2> QED
      BY <2>1
  <1> QED
    BY <1>1, <1>2

\* What loadFromStorage reads back.
LEMMA LoadedIs ==
    ASSUME NEW d, NEW lo \in Nat, NEW hi \in Nat, lo <= hi, d.snap.index = lo,
           \A i : i \in DOMAIN d.log /\ i > lo <=> i \in lo + 1 .. hi,
           \A i \in lo + 1 .. hi : d.log[i] \in 1..MaxTerm
    PROVE  /\ Store!LoadedLog(d) \in Seq(1..MaxTerm)
           /\ Len(Store!LoadedLog(d)) = hi - lo
           /\ \A i \in lo + 1 .. hi : Store!LoadedLog(d)[i - lo] = d.log[i]
  <1> DEFINE above == {i \in DOMAIN d.log : i > d.snap.index}
             Nth(k) == CHOOSE i \in above : Cardinality({j \in above : j <= i}) = k
             L == [k \in 1..hi - lo |-> d.log[lo + k]]
  <1>1. above = lo + 1 .. hi
    OBVIOUS
  <1>2. Cardinality(above) = hi - lo
    <2>1. lo + 1 \in Int /\ hi \in Int /\ (lo + 1 > hi => hi - lo = 0) /\ hi - (lo + 1) + 1 = hi - lo
      OBVIOUS
    <2> QED
      BY <1>1, <2>1, FS_Interval, Zenon
  <1>3. ASSUME NEW k \in 1..hi - lo PROVE Nth(k) = lo + k
    <2>1. /\ lo + 1 \in Int /\ hi \in Int /\ k \in 1..hi - (lo + 1) + 1
          /\ (lo + 1) + k - 1 = lo + k
      OBVIOUS
    <2>2. (CHOOSE i \in lo + 1 .. hi : Cardinality({j \in lo + 1 .. hi : j <= i}) = k) = lo + k
      BY <2>1, NthOfInterval, Zenon
    <2> HIDE DEF above
    <2> QED
      BY <1>1, <2>2, Zenon
  <1>4. Store!LoadedLog(d) = L
    <2>1. Store!LoadedLog(d) = [k \in 1..Cardinality(above) |-> d.log[Nth(k)]]
      BY DEF Store!LoadedLog, Store!Cardinality, Cardinality
    <2> HIDE DEF above, Nth
    <2>2. Store!LoadedLog(d) = [k \in 1..hi - lo |-> d.log[Nth(k)]]
      BY <1>2, <2>1
    <2> QED
      BY <1>3, <2>2
  <1>5. \A k \in 1..hi - lo : L[k] \in 1..MaxTerm
    <2> SUFFICES ASSUME NEW k \in 1..hi - lo PROVE d.log[lo + k] \in 1..MaxTerm
      OBVIOUS
    <2>1. lo + k \in lo + 1 .. hi
      OBVIOUS
    <2> QED
      BY <2>1
  <1>6. L \in Seq(1..MaxTerm) /\ Len(L) = hi - lo
    <2>1. hi - lo \in Nat
      OBVIOUS
    <2>2. L \in [1..hi - lo -> 1..MaxTerm]
      BY <1>5
    <2>3. PICK w \in Nat : w = hi - lo
      BY <2>1
    <2> HIDE DEF L
    <2>4. L \in Seq(1..MaxTerm)
      <3>1. Seq(1..MaxTerm) = UNION {[1..n -> 1..MaxTerm] : n \in Nat}
        BY SeqDef, Zenon
      <3>2. L \in [1..w -> 1..MaxTerm]
        BY <2>2, <2>3
      <3> QED
        BY <3>1, <3>2, Zenon
    <2>5. Len(L) \in Nat /\ DOMAIN L = 1..Len(L) /\ DOMAIN L = 1..w
      BY <2>2, <2>3, <2>4, LenProperties, Zenon
    <2>6. Len(L) = w
      BY <2>5, IntervalSame
    <2> QED
      BY <2>3, <2>4, <2>6
  <1>7. ASSUME NEW i \in lo + 1 .. hi PROVE L[i - lo] = d.log[i]
    <2>1. i - lo \in 1..hi - lo /\ lo + (i - lo) = i
      OBVIOUS
    <2> QED
      BY <2>1
  <1> QED
    BY <1>4, <1>6, <1>7, Zenon

-----------------------------------------------------------------------------
(***************************************************************************)
(* Applying what is committed.                                             *)
(***************************************************************************)

\* The entries a node is about to apply are settled.
LEMMA ToApplyIs ==
    ASSUME RaftInv, NEW n \in Node
    PROVE  /\ lastApplied[n] \in Nat /\ commitIndex[n] \in Nat /\ snap[n].index \in Nat
           /\ snap[n].index <= lastApplied[n] /\ lastApplied[n] <= commitIndex[n]
           /\ commitIndex[n] <= lastIndex(n) /\ lastIndex(n) \in Nat /\ lastIndex(n) <= MaxIndex
           /\ ToApply(n) = lastApplied[n] + 1 .. commitIndex[n]
           /\ \A i \in ToApply(n) : /\ i \in Held(n) /\ i \in 1..MaxIndex /\ entryAt(n, i) = FullLog(n)[i]
                                    /\ entryAt(n, i) \in 1..MaxTerm /\ Settled(i, entryAt(n, i))
  <1>1. /\ lastApplied[n] \in Nat /\ commitIndex[n] \in Nat /\ snap[n].index \in Nat
        /\ snap[n].index <= lastApplied[n] /\ lastApplied[n] <= commitIndex[n]
        /\ commitIndex[n] <= lastIndex(n) /\ lastIndex(n) \in Nat /\ lastIndex(n) <= MaxIndex
    <2>1. lastApplied[n] \in 0..MaxIndex /\ commitIndex[n] \in 0..MaxIndex /\ lastIndex(n) \in 0..MaxIndex
      BY Given, FullLogShape DEF RestTypes, Index
    <2>2. snap[n].index \in Nat
      BY SnapshotIs
    <2> QED
      BY <2>1, <2>2, Given, Bounds DEF Fits, IndicesInLog
  <1>2. ToApply(n) = lastApplied[n] + 1 .. commitIndex[n]
    BY <1>1 DEF ToApply
  <1>3. ASSUME NEW i \in ToApply(n)
        PROVE  /\ i \in Held(n) /\ i \in 1..MaxIndex /\ entryAt(n, i) = FullLog(n)[i]
               /\ entryAt(n, i) \in 1..MaxTerm /\ Settled(i, entryAt(n, i))
    <2>1. i \in Held(n) /\ i \in 1..commitIndex[n] /\ i \in 1..MaxIndex
      BY <1>1, <1>2, <1>3, Bounds DEF Held
    <2>2. entryAt(n, i) = FullLog(n)[i] /\ entryAt(n, i) \in 1..MaxTerm
      BY <2>1, Given, FullLogShape, LogTypes
    <2>3. Settled(i, FullLog(n)[i])
      BY <2>1, Given, CommittedSettled
    <2> QED
      BY <2>1, <2>2, <2>3
  <1> QED
    BY <1>1, <1>2, <1>3

\* applyReady applies settled entries only, in the order of their indices.
LEMMA ApplyIs ==
    ASSUME RaftInv, NEW n \in Node, applied' = applied \cup {<<i, entryAt(n, i)>> : i \in ToApply(n)}
    PROVE  /\ AppliedGrows /\ (\A e \in applied' : Settled(e[1], e[2]))
           /\ \A i \in 1..commitIndex[n] : <<i, FullLog(n)[i]>> \in applied'
  <1>1. /\ lastApplied[n] \in Nat /\ commitIndex[n] \in Nat
        /\ ToApply(n) = lastApplied[n] + 1 .. commitIndex[n]
        /\ \A i \in ToApply(n) : /\ i \in 1..MaxIndex /\ entryAt(n, i) = FullLog(n)[i]
                                 /\ entryAt(n, i) \in 1..MaxTerm /\ Settled(i, entryAt(n, i))
    BY ToApplyIs
  <1>2. AppliedType /\ StateMachineSafety /\ Sound /\ \A e \in applied : Settled(e[1], e[2])
    BY Given DEF AppliedSettled
  <1>3. ASSUME NEW e \in applied'
        PROVE  e \in Index \X (1..MaxTerm) /\ Settled(e[1], e[2])
    <2>1. CASE e \in applied
      BY <1>2, <2>1 DEF AppliedType
    <2>2. CASE e \notin applied
      <3>1. PICK i \in ToApply(n) : e = <<i, entryAt(n, i)>>
        BY <1>3, <2>2
      <3>2. i \in Index
        BY <1>1, Bounds DEF Index
      <3> QED
        BY <1>1, <3>1, <3>2
    <2> QED
      BY <2>1, <2>2
  <1>4. StateMachineSafety'
    <2> SUFFICES ASSUME NEW e \in applied', NEW f \in applied', e[1] = f[1] PROVE e[2] = f[2]
      BY DEF StateMachineSafety
    <2>1. Settled(e[1], e[2]) /\ Settled(e[1], f[2])
      BY <1>3
    <2>2. e[1] \in Nat \ {0}
      <3>1. PICK k \in 1..MaxIndex : e[1] \in 1..k
        BY <2>1 DEF Settled
      <3> QED
        BY <3>1, Bounds
    <2> QED
      BY <1>2, <2>1, <2>2, SettledUnique
  <1>5. AppliedGrows
    BY <1>2, <1>3, <1>4 DEF AppliedGrows, AppliedType
  <1>6. ASSUME NEW i \in 1..commitIndex[n] PROVE <<i, FullLog(n)[i]>> \in applied'
    <2>1. CASE i <= lastApplied[n]
      <3>1. i \in 1..lastApplied[n]
        BY <1>1, <2>1
      <3> QED
        BY <3>1, Given DEF Fits, NodesFit, NodeFits
    <2>2. CASE ~(i <= lastApplied[n])
      <3>1. i \in ToApply(n)
        BY <1>1, <2>2
      <3> QED
        BY <1>1, <3>1
    <2> QED
      BY <2>1, <2>2
  <1> QED
    BY <1>3, <1>5, <1>6

\* The state machine after applying.
LEMMA AppliedStateType ==
    ASSUME RaftInv, NEW n \in Node
    PROVE  AppliedState(n) \in Log
  <1>1. PICK lo, hi, T : lo = lastApplied[n] /\ hi = commitIndex[n] /\ T = ToApply(n)
    OBVIOUS
  <1>2. /\ lo \in Nat /\ hi \in Nat /\ lo <= hi /\ T = lo + 1 .. hi
        /\ \A i \in T : entryAt(n, i) \in 1..MaxTerm
    BY <1>1, ToApplyIs
  <1>3. Cardinality(T) = hi - lo
    <2>1. lo + 1 \in Int /\ hi \in Int /\ (lo + 1 > hi => hi - lo = 0) /\ hi - (lo + 1) + 1 = hi - lo
      BY <1>2
    <2> QED
      BY <1>2, <2>1, FS_Interval, Zenon
  <1>4. PICK w \in Nat : w = hi - lo
    BY <1>2
  <1>5. PICK L : L = [k \in 1..w |-> entryAt(n, Min(T) + k - 1)]
    BY Zenon
  <1>6. AppliedState(n) = sm[n] \o L
    BY <1>1, <1>3, <1>4, <1>5 DEF AppliedState
  <1>7. L \in [1..w -> 1..MaxTerm]
    <2> SUFFICES ASSUME NEW k \in 1..w PROVE entryAt(n, Min(T) + k - 1) \in 1..MaxTerm
      BY <1>5
    <2>1. lo + 1 \in T /\ T \in SUBSET Nat /\ T # {}
      BY <1>2, <1>4
    <2>2. Min(T) \in T /\ \A x \in T : Min(T) <= x
      BY <2>1, MinOfNaturals
    <2>3. PICK b : b = Min(T)
      OBVIOUS
    <2>4. b = lo + 1
      BY <1>2, <2>1, <2>2, <2>3
    <2>5. b + k - 1 \in T
      BY <1>2, <1>4, <2>4
    <2> QED
      BY <1>2, <2>3, <2>5
  <1>8. L \in Seq(1..MaxTerm)
    <2>1. Seq(1..MaxTerm) = UNION {[1..j -> 1..MaxTerm] : j \in Nat}
      BY SeqDef, Zenon
    <2> QED
      BY <1>7, <2>1, Zenon
  <1>9. sm[n] \in Seq(1..MaxTerm)
    BY Given DEF RestTypes, Log
  <1>10. sm[n] \o L \in Seq(1..MaxTerm)
    BY <1>8, <1>9, ConcatProperties
  <1> QED
    BY <1>6, <1>10 DEF Log

\* The snapshot s covers the log of n so far; l and d hold what lies above it.
CutsLog(n, s) ==
    /\ s \in Snap /\ snap[n].index <= s.index /\ s.index <= lastIndex(n)
    /\ IF s.index = 0 THEN s.term = 0 ELSE s.term = FullLog(n)[s.index]
LogAbove(n, s, l) ==
    /\ l \in Log /\ Len(l) = lastIndex(n) - s.index
    /\ \A i \in s.index + 1 .. lastIndex(n) : l[i - s.index] = FullLog(n)[i]
DiskAbove(n, s, d) ==
    /\ IsStore(d) /\ d.snap = s /\ DOMAIN d.log \subseteq Index
    /\ \A i : i \in DOMAIN d.log /\ i > s.index <=> i \in s.index + 1 .. lastIndex(n)
    /\ \A i \in s.index + 1 .. lastIndex(n) : d.log[i] = FullLog(n)[i]

\* The log of n is applied up to a, after the step.
AppliedTo(n, a) == \A i \in 1..a : <<i, FullLog(n)[i]>> \in applied'
NewSettled == \A e \in applied' : Settled(e[1], e[2])

\* Where a snapshot at s comes from.
SnapshotFrom(n, s) ==
    \/ s.index = snap[n].index \/ s.index = commitIndex[n]
    \/ \E m \in Requests : m.type = "IS" /\ m.snap.index = s.index /\ Followed(n, m) /\ (Same(n) => Took(n, m))

\* A step that leaves the log of a node as it is, and moves its snapshot up.
LEMMA SameStep ==
    ASSUME RaftInv, AppliedGrows, NewSettled, NEW n \in Node,
           NEW l, NEW s, NEW d, NEW x \in Log, NEW c \in Index, NEW a \in Index, Becomes(n, l, s, d, x, c, a),
           UNCHANGED <<nextIndex, matchIndex, leaders>>, faults' \in 0..MaxFaults,
           CutsLog(n, s), LogAbove(n, s, l), DiskAbove(n, s, d), SnapshotFrom(n, s),
           s.index <= a, a <= c, c <= lastIndex(n), AppliedTo(n, a),
           c = commitIndex[n] \/ c = s.index
    PROVE  Same(n) /\ (MessagesOk => StepOk)
  <1>0. s \in Snap /\ l \in Log /\ IsStore(d) /\ DOMAIN d.log \subseteq Index
    BY DEF CutsLog, LogAbove, DiskAbove
  <1>1. /\ s.index \in 0..MaxIndex /\ c \in 0..MaxIndex /\ a \in 0..MaxIndex
    BY <1>0 DEF Snap, Index
  <1>2. /\ s.index \in Nat /\ c \in Nat /\ a \in Nat
    BY <1>1, Bounds
  <1>3. LogShape(n) /\ lastIndex(n) \in Nat /\ RestTypes
    BY Given, LogShapes, LogTypes
  <1>4. \A i \in 1..lastIndex(n) : FullLog(n)[i] \in 1..MaxTerm
    BY <1>3 DEF LogShape
  <1>5. /\ RestTypes' /\ \A p \in Node \ {n} : Calm(p)
        /\ log'[n] = l /\ snap'[n] = s /\ disk'[n] = d
        /\ commitIndex'[n] = c /\ lastApplied'[n] = a
    <2>1. /\ nextIndex' \in [Node -> [Node -> 1..(MaxIndex + 1)]] /\ matchIndex' \in [Node -> [Node -> Index]]
      BY <1>3 DEF RestTypes
    <2>2. RestTypes
      BY <1>3
    <2> QED
      BY <1>0, <2>1, <2>2, OneNode, Zenon
  <1>6. lastIndex(n)' = lastIndex(n)
    BY <1>2, <1>3, <1>5 DEF lastIndex, LogAbove
  <1>7. \A i \in s.index + 1 .. lastIndex(n) : entryAt(n, i)' = FullLog(n)[i]
    BY <1>5 DEF entryAt, LogAbove
  <1>8. SnapFits(snap[n])'
    <2>1. \A i \in 1..s.index : <<i, FullLog(n)[i]>> \in applied' /\ i \in 1..lastIndex(n)
      BY <1>2, <1>3 DEF AppliedTo
    <2>2. \A i \in 1..s.index : Known(i)'
      BY <1>4, <2>1, Zenon DEF Known
    <2>3. s.index > 0 => /\ s.index \in 1..s.index /\ s.term = FullLog(n)[s.index]
                         /\ <<s.index, s.term>> \in applied' /\ s.term \in 1..MaxTerm
      BY <1>2, <1>4, <2>1 DEF CutsLog
    <2>4. s.index = 0 <=> s.term = 0
      BY <1>2, <2>3, Bounds DEF CutsLog
    <2> QED
      BY <1>5, <2>2, <2>3, <2>4 DEF SnapFits
  <1>9. DiskFits(n)'
    <2>1. Held(n)' = s.index + 1 .. lastIndex(n)
      BY <1>5, <1>6 DEF Held
    <2>2. {i \in DOMAIN d.log : i > s.index} = s.index + 1 .. lastIndex(n)
      BY DEF DiskAbove
    <2>3. \A i \in s.index + 1 .. lastIndex(n) : d.log[i] = entryAt(n, i)'
      BY <1>7 DEF DiskAbove
    <2>4. d.snap = s
      BY DEF DiskAbove
    <2> QED
      BY <1>5, <2>1, <2>2, <2>3, <2>4 DEF DiskFits
  <1>10. NodeOk(n) /\ Same(n)
    <2>1. PICK si \in Nat : si = s.index
      BY <1>2
    <2>2. /\ snap'[n].index = si /\ snap[n].index <= si /\ si <= a /\ (c = commitIndex[n] \/ c = si)
          /\ \A i \in si + 1 .. lastIndex(n) : entryAt(n, i)' = FullLog(n)[i]
          /\ \/ si = snap[n].index \/ si = commitIndex[n]
             \/ \E m \in Requests : m.type = "IS" /\ m.snap.index = si /\ Followed(n, m) /\ (Same(n) => Took(n, m))
      BY <1>5, <1>7, <2>1 DEF CutsLog, SnapshotFrom
    <2>3. c \in Nat /\ a \in Nat
      BY <1>2
    <2>4. \A i \in 1..a : <<i, FullLog(n)[i]>> \in applied'
      BY DEF AppliedTo
    <2> QED
      BY <1>5, <1>6, <1>8, <1>9, <2>2, <2>3, <2>4, SameNode
  <1>11. MatchOk /\ WinnersGrow
    BY DEF MatchOk, WinnersGrow
  <1> QED
    BY <1>5, <1>10, <1>11 DEF StepOk, NewSettled

\* A node comes back with the store d, which holds its log.
LEMMA ReloadSame ==
    ASSUME RaftInv, AppliedGrows, NewSettled, NEW n \in Node, NEW s, NEW d, Reload(n, d),
           leaders' = leaders, faults' \in 0..MaxFaults,
           CutsLog(n, s), DiskAbove(n, s, d), SnapshotFrom(n, s), AppliedTo(n, s.index)
    PROVE  Same(n) /\ (MessagesOk => StepOk)
  <1>1. PICK l, x, c : l = Store!LoadedLog(d) /\ x = s.data /\ c = s.index
    OBVIOUS
  <1>2. Becomes(n, l, s, d, x, c, c) /\ UNCHANGED <<nextIndex, matchIndex, leaders>>
    BY <1>1 DEF Reload, Becomes, leaderVars, DiskAbove
  <1>3. s \in Snap /\ s.index <= lastIndex(n)
    BY DEF CutsLog
  <1>4. x \in Log /\ c \in Index /\ c \in Nat
    <2>1. x \in Log /\ c \in Index
      BY <1>1, <1>3 DEF Snap
    <2> QED
      BY <2>1, Bounds DEF Index
  <1>5. LogShape(n) /\ lastIndex(n) \in Nat
    BY Given, LogShapes, LogTypes
  <1>6. LogAbove(n, s, l)
    <2>1. PICK lo, hi : lo = s.index /\ hi = lastIndex(n)
      OBVIOUS
    <2>2. /\ lo \in Nat /\ hi \in Nat /\ lo <= hi /\ d.snap.index = lo
          /\ \A i : i \in DOMAIN d.log /\ i > lo <=> i \in lo + 1 .. hi
          /\ \A i \in lo + 1 .. hi : d.log[i] = FullLog(n)[i]
      BY <1>1, <1>3, <1>4, <1>5, <2>1 DEF DiskAbove
    <2>3. \A i \in lo + 1 .. hi : i \in 1..lastIndex(n)
      BY <2>1, <2>2
    <2>4. \A i \in lo + 1 .. hi : d.log[i] \in 1..MaxTerm
      BY <1>5, <2>2, <2>3 DEF LogShape
    <2>5. /\ Store!LoadedLog(d) \in Seq(1..MaxTerm)
          /\ Len(Store!LoadedLog(d)) = hi - lo
          /\ \A i \in lo + 1 .. hi : Store!LoadedLog(d)[i - lo] = d.log[i]
      BY <2>2, <2>4, LoadedIs, Zenon
    <2> QED
      BY <1>1, <2>1, <2>2, <2>5 DEF Log, LogAbove
  <1>7. s.index <= c /\ c <= c /\ c <= lastIndex(n) /\ AppliedTo(n, c) /\ c = s.index
    BY <1>1, <1>3, <1>4
  <1> QED
    BY <1>2, <1>4, <1>6, <1>7, SameStep

\* The log and the store of a node as they are.
LEMMA StoreAbove ==
    ASSUME RaftInv, NEW n \in Node
    PROVE  CutsLog(n, snap[n]) /\ DiskAbove(n, snap[n], disk[n]) /\ LogAbove(n, snap[n], log[n])
  <1>1. PICK d, s, l : d = disk[n] /\ s = snap[n] /\ l = log[n]
    OBVIOUS
  <1>2. /\ IsStore(d) /\ DOMAIN d.log \subseteq Index /\ d.snap = s
        /\ \A i : i \in DOMAIN d.log /\ i > s.index <=> i \in Held(n)
        /\ \A i \in Held(n) : d.log[i] = entryAt(n, i)
    BY <1>1, StoreIs
  <1>3. \A i \in Held(n) : FullLog(n)[i] = entryAt(n, i)
    BY Given, FullLogShape
  <1>4. Held(n) = s.index + 1 .. lastIndex(n)
    BY <1>1 DEF Held
  <1>5. /\ s \in Snap /\ SnapFits(s) /\ s.index \in Nat /\ s.index <= lastIndex(n)
        /\ (s.index > 0 => FullLog(n)[s.index] = s.term)
    BY <1>1, SnapshotIs
  <1>6. CutsLog(n, s)
    BY <1>1, <1>5 DEF SnapFits, CutsLog
  <1>7. DiskAbove(n, s, d)
    BY <1>2, <1>3, <1>4 DEF DiskAbove
  <1>8. LogAbove(n, s, l)
    <2>1. l \in Log /\ Len(l) \in Nat /\ lastIndex(n) = s.index + Len(l)
      BY <1>1, Given, LogTypes DEF RestTypes, lastIndex
    <2>2. \A i \in s.index + 1 .. lastIndex(n) : l[i - s.index] = FullLog(n)[i]
      BY <1>1, <1>3, <1>4 DEF entryAt
    <2> QED
      BY <1>5, <2>1, <2>2 DEF LogAbove
  <1> QED
    BY <1>1, <1>6, <1>7, <1>8

\* New rebuilds from the store the log that was lost with the memory.
LEMMA RestartOk ==
    ASSUME RaftInv, NEW n \in Node, Restart(n)
    PROVE  StepOk /\ Same(n)
  <1>1. Reload(n, disk[n]) /\ Fault /\ msgs' = Orphaned(msgs, n) /\ applied' = applied /\ leaders' = leaders
    BY DEF Restart, E!Reboot
  <1>2. faults' \in 0..MaxFaults
    BY <1>1, FaultType
  <1>3. AppliedGrows /\ NewSettled
    BY <1>1, NothingApplied DEF NewSettled
  <1>4. PICK d, s : d = disk[n] /\ s = snap[n]
    OBVIOUS
  <1>5. Reload(n, d)
    BY <1>1, <1>4 DEF Reload
  <1>6. CutsLog(n, s) /\ DiskAbove(n, s, d)
    BY <1>4, StoreAbove
  <1>7. AppliedTo(n, s.index)
    <2>1. s.index <= lastApplied[n] /\ lastApplied[n] \in Nat /\ s.index \in Nat
      BY <1>4, ToApplyIs
    <2>2. \A i \in 1..s.index : i \in 1..lastApplied[n]
      BY <2>1
    <2> QED
      BY <1>1, <2>2, Given DEF Fits, NodesFit, NodeFits, AppliedTo
  <1>8. SnapshotFrom(n, s)
    BY <1>4 DEF SnapshotFrom
  <1>9. MessagesOk
    BY <1>1, Given, OrphanedMessages
  <1> QED
    BY <1>1, <1>2, <1>3, <1>5, <1>6, <1>7, <1>8, <1>9, ReloadSame

\* What is left in memory and on disk above a snapshot that covers part of the log.
LEMMA CutIs ==
    ASSUME RaftInv, NEW n \in Node, NEW s, CutsLog(n, s), NEW a, a = s.index
    PROVE  /\ LogAbove(n, s, sliceFrom(n, a + 1))
           /\ DiskAbove(n, s, Store!SaveSnapshot(disk[n], s))
           /\ DiskAbove(n, s, Store!TruncatePrefix(Store!SaveSnapshot(disk[n], s), a))
  <1>2. PICK lo, hi : lo = snap[n].index /\ hi = lastIndex(n)
    OBVIOUS
  <1>3. /\ a \in Nat /\ lo \in Nat /\ hi \in Nat /\ lo <= a /\ a <= hi /\ hi <= MaxIndex
    <2>1. a \in 0..MaxIndex /\ lo <= a /\ a <= hi
      BY <1>2 DEF CutsLog, Snap, Index
    <2> QED
      BY <1>2, <2>1, ToApplyIs, Bounds
  <1>8. Held(n) = lo + 1 .. hi /\ \A i \in Held(n) : FullLog(n)[i] = entryAt(n, i)
    BY <1>2, Given, FullLogShape DEF Held
  <1>9. \A i \in a + 1 .. hi : i \in Held(n) /\ i \in Nat /\ i > lo /\ i > a
    BY <1>3, <1>8
  <1>10. LogAbove(n, s, sliceFrom(n, a + 1))
    <2>1. PICK f : f = a + 1
      OBVIOUS
    <2>2. f \in Int /\ f >= snap[n].index + 1 /\ f <= lastIndex(n) + 1
      BY <1>2, <1>3, <2>1
    <2>3. /\ sliceFrom(n, f) \in Seq(1..MaxTerm)
          /\ Len(sliceFrom(n, f)) = hi + 1 - f
          /\ \A k \in 1..hi + 1 - f : sliceFrom(n, f)[k] = entryAt(n, f + k - 1)
      BY <1>2, <2>2, Given, SliceIs
    <2>4. ASSUME NEW i \in a + 1 .. hi PROVE sliceFrom(n, f)[i - a] = FullLog(n)[i]
      <3>1. i - a \in 1..hi + 1 - f /\ f + (i - a) - 1 = i
        BY <1>3, <2>1
      <3> QED
        BY <1>8, <1>9, <2>3, <3>1
    <2>5. Len(sliceFrom(n, f)) = hi - a
      BY <1>3, <2>1, <2>3
    <2> QED
      BY <1>2, <2>1, <2>3, <2>4, <2>5 DEF LogAbove, Log
  <1>11. PICK d : d = disk[n]
    OBVIOUS
  <1>12. /\ IsStore(d) /\ DOMAIN d.log \subseteq Index
         /\ \A i : i \in DOMAIN d.log /\ i > lo <=> i \in lo + 1 .. hi
         /\ \A i \in lo + 1 .. hi : d.log[i] = FullLog(n)[i]
    BY <1>2, <1>8, <1>11, StoreIs, Zenon
  <1>13. \A i : i \in DOMAIN d.log /\ i > a <=> i \in a + 1 .. hi
    <2>1. \A i \in DOMAIN d.log : i \in Nat
      BY <1>12, Bounds DEF Index
    <2>2. \A i : i \in DOMAIN d.log /\ i > a => i \in lo + 1 .. hi
      BY <1>3, <1>12, <2>1
    <2>3. \A i : i \in a + 1 .. hi => i \in lo + 1 .. hi /\ i > a
      BY <1>3
    <2>4. \A i : i \in lo + 1 .. hi /\ i > a => i \in a + 1 .. hi
      BY <1>3
    <2> QED
      BY <1>12, <2>2, <2>3, <2>4
  <1>14. \A i \in a + 1 .. hi : d.log[i] = FullLog(n)[i]
    BY <1>3, <1>12
  <1>15. PICK e : e = Store!SaveSnapshot(d, s)
    OBVIOUS
  <1>16. IsStore(e) /\ e.snap = s /\ e.log = d.log
    BY <1>12, <1>15, StoreOps
  <1>17. DiskAbove(n, s, e)
    BY <1>2, <1>12, <1>13, <1>14, <1>16 DEF DiskAbove
  <1>18. PICK g : g = Store!TruncatePrefix(e, a)
    OBVIOUS
  <1>19. /\ IsStore(g) /\ g.snap = s
         /\ \A i : i \in DOMAIN g.log <=> i \in DOMAIN d.log /\ i > a
         /\ \A i \in DOMAIN g.log : g.log[i] = d.log[i]
    BY <1>16, <1>18, StoreOps
  <1>20. DiskAbove(n, s, g)
    <2>1. \A i : i \in DOMAIN g.log /\ i > a <=> i \in a + 1 .. hi
      BY <1>13, <1>19
    <2>2. \A i \in a + 1 .. hi : g.log[i] = FullLog(n)[i]
      BY <1>14, <1>19, <2>1
    <2>3. DOMAIN g.log \subseteq Index
      BY <1>12, <1>19
    <2> QED
      BY <1>2, <1>19, <2>1, <2>2, <2>3 DEF DiskAbove
  <1> QED
    BY <1>10, <1>11, <1>15, <1>17, <1>18, <1>20

\* A snapshot of what is committed, and what lies above it.
LEMMA SnapshotTaken ==
    ASSUME RaftInv, NEW n \in Node, NEW a, a = commitIndex[n], WantsSnapshot(n, a), NEW x \in Log,
           NEW s, s = SnapshotAt(n, a, x)
    PROVE  /\ s.index = a /\ CutsLog(n, s) /\ SnapshotFrom(n, s)
           /\ LogAbove(n, s, sliceFrom(n, a + 1))
           /\ DiskAbove(n, s, Store!SaveSnapshot(disk[n], s))
           /\ DiskAbove(n, s, Store!TruncatePrefix(Store!SaveSnapshot(disk[n], s), a))
  <1>1. /\ s.index = a /\ s.term = termAt(n, a) /\ s.data = x
        /\ s = [index |-> a, term |-> termAt(n, a), data |-> x]
    BY DEF SnapshotAt
  <1>2. PICK lo, hi : lo = snap[n].index /\ hi = lastIndex(n)
    OBVIOUS
  <1>3. /\ a \in Nat /\ lo \in Nat /\ hi \in Nat /\ lo < a /\ a <= hi /\ hi <= MaxIndex
    BY <1>2, ToApplyIs DEF WantsSnapshot
  <1>4. a \in 1..lastIndex(n) /\ a \in Index
    BY <1>2, <1>3, Bounds DEF Index
  <1>5. termAt(n, a) = FullLog(n)[a] /\ termAt(n, a) \in E!Term
    <2>1. a \in Int /\ a >= snap[n].index /\ a <= lastIndex(n)
      BY <1>2, <1>3
    <2> QED
      BY <1>4, <2>1, Given, TermAtIs, TermAtType
  <1>6. CutsLog(n, s)
    <2>1. s \in Snap
      BY <1>1, <1>4, <1>5 DEF Snap
    <2> QED
      BY <1>1, <1>2, <1>3, <1>5, <2>1 DEF CutsLog
  <1>7. SnapshotFrom(n, s)
    BY <1>1 DEF SnapshotFrom
  <1> QED
    BY <1>1, <1>6, <1>7, CutIs

\* applyReady and the snapshot maybeSnapshotLocked takes after it change no entry
\* of the log.
LEMMA ApplyReadyOk ==
    ASSUME RaftInv, NEW n \in Node, ApplyReady(n)
    PROVE  StepOk /\ Same(n)
  <1>1. PICK a, x : a = commitIndex[n] /\ x = AppliedState(n)
    OBVIOUS
  <1>2. /\ applied' = applied \cup {<<i, entryAt(n, i)>> : i \in ToApply(n)}
        /\ UNCHANGED <<electionVars, commitIndex, leaderVars, msgs, faults>>
    BY DEF ApplyReady
  <1>3. AppliedGrows /\ NewSettled /\ AppliedTo(n, a)
    BY <1>1, <1>2, ApplyIs DEF NewSettled, AppliedTo
  <1>4. x \in Log /\ a \in Index /\ commitIndex' = [commitIndex EXCEPT ![n] = a]
    <2>1. commitIndex \in [Node -> Index]
      BY Given DEF RestTypes
    <2> QED
      BY <1>1, <1>2, <2>1, AppliedStateType
  <1>5. \E l, s, d : /\ Becomes(n, l, s, d, x, a, a) /\ CutsLog(n, s) /\ LogAbove(n, s, l)
                     /\ DiskAbove(n, s, d) /\ SnapshotFrom(n, s)
    <2>1. CASE WantsSnapshot(n, a)
      <3>1. PICK s : s = SnapshotAt(n, a, x)
        OBVIOUS
      <3>2. PICK l, d : l = sliceFrom(n, a + 1) /\ d = Store!TruncatePrefix(Store!SaveSnapshot(disk[n], s), a)
        OBVIOUS
      <3>3. Becomes(n, l, s, d, x, a, a)
        BY <1>1, <1>4, <2>1, <3>1, <3>2, Zenon DEF ApplyReady, Becomes
      <3>4. CutsLog(n, s) /\ SnapshotFrom(n, s) /\ LogAbove(n, s, l) /\ DiskAbove(n, s, d)
        BY <1>1, <1>4, <2>1, <3>1, <3>2, SnapshotTaken
      <3> QED
        BY <3>3, <3>4
    <2>2. CASE ~WantsSnapshot(n, a)
      <3>1. PICK l, s, d : l = log[n] /\ s = snap[n] /\ d = disk[n]
        OBVIOUS
      <3>2. log \in [Node -> Log] /\ snap \in [Node -> Snap]
            /\ disk = [p \in Node |-> [log |-> disk[p].log, snap |-> disk[p].snap]]
        BY Given DEF RestTypes, Stores
      <3>3. /\ UNCHANGED logVars /\ sm' = [sm EXCEPT ![n] = x]
            /\ lastApplied' = [lastApplied EXCEPT ![n] = a]
        BY <1>1, <2>2 DEF ApplyReady
      <3>4. Becomes(n, l, s, d, x, a, a)
        <4>1. log' = [log EXCEPT ![n] = l] /\ snap' = [snap EXCEPT ![n] = s]
          BY <3>1, <3>2, <3>3 DEF logVars
        <4>2. disk' = [disk EXCEPT ![n] = d]
          BY <3>1, <3>2, <3>3 DEF logVars
        <4> QED
          BY <1>4, <3>3, <4>1, <4>2 DEF Becomes
      <3>5. CutsLog(n, s) /\ LogAbove(n, s, l) /\ DiskAbove(n, s, d)
        BY <3>1, StoreAbove
      <3>6. SnapshotFrom(n, s)
        BY <3>1 DEF SnapshotFrom
      <3> QED
        BY <3>4, <3>5, <3>6
    <2> QED
      BY <2>1, <2>2
  <1>6. PICK l, s, d : /\ Becomes(n, l, s, d, x, a, a) /\ CutsLog(n, s) /\ LogAbove(n, s, l)
                       /\ DiskAbove(n, s, d) /\ SnapshotFrom(n, s)
    BY <1>5
  <1>7. s.index <= a /\ a <= a /\ a <= lastIndex(n)
    <2>1. /\ a \in Nat /\ snap[n].index \in Nat /\ snap[n].index <= a /\ a <= lastIndex(n)
      BY <1>1, ToApplyIs
    <2>2. s = snap[n] \/ s.index = a
      <3>1. CASE WantsSnapshot(n, a)
        <4>1. snap' = [snap EXCEPT ![n] = SnapshotAt(n, a, x)]
          BY <1>1, <3>1 DEF ApplyReady
        <4>2. snap \in [Node -> Snap]
          BY Given DEF RestTypes
        <4>3. s = SnapshotAt(n, a, x)
          BY <1>6, <4>1, <4>2 DEF Becomes
        <4> QED
          BY <4>3 DEF SnapshotAt
      <3>2. CASE ~WantsSnapshot(n, a)
        <4>1. snap' = snap
          BY <1>1, <3>2 DEF ApplyReady, logVars
        <4>2. snap \in [Node -> Snap]
          BY Given DEF RestTypes
        <4> QED
          BY <1>6, <4>1, <4>2 DEF Becomes
      <3> QED
        BY <3>1, <3>2
    <2> QED
      BY <2>1, <2>2
  <1>8. UNCHANGED <<nextIndex, matchIndex, leaders>> /\ faults' \in 0..MaxFaults
    <2>1. UNCHANGED <<nextIndex, matchIndex, leaders>> /\ faults' = faults
      BY <1>2 DEF leaderVars, electionVars
    <2> QED
      BY <2>1, Given DEF RestTypes
  <1>9. MessagesOk
    BY <1>2, Given, MessagesKept
  <1> QED
    BY <1>1, <1>3, <1>4, <1>6, <1>7, <1>8, <1>9, SameStep

\* A crash between SaveSnapshot and TruncatePrefix loses no entry.
LEMMA CrashInCompactionOk ==
    ASSUME RaftInv, NEW n \in Node, CrashInCompaction(n)
    PROVE  StepOk /\ Same(n)
  <1>1. PICK a, x : a = commitIndex[n] /\ x = AppliedState(n)
    OBVIOUS
  <1>2. PICK s : s = SnapshotAt(n, a, x)
    OBVIOUS
  <1>3. PICK d : d = Store!SaveSnapshot(disk[n], s)
    OBVIOUS
  <1>4. /\ Fault /\ WantsSnapshot(n, a) /\ Reload(n, d)
        /\ msgs' = Orphaned(msgs, n) /\ leaders' = leaders
        /\ applied' = applied \cup {<<i, entryAt(n, i)>> : i \in ToApply(n)}
    BY <1>1, <1>2, <1>3 DEF CrashInCompaction, E!Reboot
  <1>5. faults' \in 0..MaxFaults
    BY <1>4, FaultType
  <1>6. AppliedGrows /\ NewSettled /\ AppliedTo(n, a)
    BY <1>1, <1>4, ApplyIs DEF NewSettled, AppliedTo
  <1>7. x \in Log
    BY <1>1, AppliedStateType
  <1>8. s.index = a /\ CutsLog(n, s) /\ SnapshotFrom(n, s) /\ DiskAbove(n, s, d)
    BY <1>1, <1>2, <1>3, <1>4, <1>7, SnapshotTaken
  <1>9. MessagesOk
    BY <1>4, Given, OrphanedMessages
  <1> QED
    BY <1>4, <1>5, <1>6, <1>8, <1>9, ReloadSame

-----------------------------------------------------------------------------
(***************************************************************************)
(* InstallSnapshot takes the snapshot over.                                *)
(***************************************************************************)

\* A snapshot that a node lacks.
NewSnapshot(m) == m \in Requests /\ m.type = "IS" /\ m.snap.index > snap[m.to].index

\* A snapshot in flight covers applied entries, and its last one is secured.
LEMMA SentSnapshotIs ==
    ASSUME RaftInv, NEW m, NewSnapshot(m)
    PROVE  /\ m.to \in Node /\ m.snap \in Snap /\ SnapFits(m.snap)
           /\ m.snap.index \in Nat /\ m.snap.index \in 1..MaxIndex /\ m.snap.term \in 1..MaxTerm
           /\ snap[m.to].index \in Nat /\ snap[m.to].index < m.snap.index
           /\ LastOf(m) = m.snap.index /\ DOMAIN Fragment(m) = 1..m.snap.index
           /\ Fragment(m) = [i \in 1..m.snap.index |-> AppliedTerm(i)]
           /\ \A i \in 1..m.snap.index : Fragment(m)[i] = AppliedTerm(i) /\ <<i, Fragment(m)[i]>> \in applied
           /\ Fragment(m)[m.snap.index] = m.snap.term
           /\ Secured(m.snap.index, m.snap.term)
  <1>1. m \in Requests /\ m.type = "IS" /\ m.snap.index > snap[m.to].index
    BY DEF NewSnapshot
  <1>2. /\ m.to \in Node /\ m \in SnapshotRequest /\ FirstOf(m) = 1 /\ LastOf(m) = m.snap.index
        /\ OnInterval(Fragment(m), FirstOf(m), LastOf(m))
        /\ (m.snap.index > 0 => Fragment(m)[m.snap.index] = m.snap.term)
    BY <1>1, Given, FragmentShape, Zenon
  <1>3. m.snap \in Snap
    BY <1>2 DEF SnapshotRequest
  <1>4. m.snap.index \in 0..MaxIndex /\ m.snap.term \in 0..MaxTerm
    BY <1>3 DEF Snap, Index, E!Term
  <1>5. snap[m.to].index \in Nat
    BY <1>2, SnapshotIs
  <1>6. m.snap.index \in Nat /\ m.snap.index > 0 /\ m.snap.index \in 1..MaxIndex
    BY <1>1, <1>4, <1>5, Bounds
  <1>7. SnapFits(m.snap) /\ Secured(m.snap.index, m.snap.term)
    BY <1>1, <1>6, Given, Zenon DEF Fits, RequestsFit, RequestFits, CommitsSecured, RequestSecured
  <1>8. m.snap.term \in 1..MaxTerm
    BY <1>7 DEF Secured
  <1>9. DOMAIN Fragment(m) = 1..m.snap.index
    BY <1>2 DEF OnInterval
  <1>10. Fragment(m) = [i \in 1..m.snap.index |-> AppliedTerm(i)]
    BY <1>1, <1>2 DEF Fragment
  <1>11. \A i \in 1..m.snap.index : Fragment(m)[i] = AppliedTerm(i) /\ <<i, Fragment(m)[i]>> \in applied
    <2> SUFFICES ASSUME NEW i \in 1..m.snap.index
                 PROVE  Fragment(m)[i] = AppliedTerm(i) /\ <<i, Fragment(m)[i]>> \in applied
      OBVIOUS
    <2>1. Fragment(m)[i] = AppliedTerm(i)
      BY <1>10
    <2>2. Known(i)
      BY <1>7 DEF SnapFits
    <2> QED
      BY <2>1, <2>2, Given, KnownTerm
  <1> QED
    BY <1>1, <1>2, <1>3, <1>5, <1>6, <1>7, <1>8, <1>9, <1>10, <1>11, Zenon

\* The log of the node has the entry of the snapshot.
LEMMA ConsistentIs ==
    ASSUME RaftInv, NEW m, NewSnapshot(m)
    PROVE  Consistent(m) <=> m.snap.index \in 1..lastIndex(m.to) /\ FullLog(m.to)[m.snap.index] = m.snap.term
  <1>1. PICK n, k, t : n = m.to /\ k = m.snap.index /\ t = m.snap.term
    OBVIOUS
  <1>2. n \in Node /\ k \in Nat /\ snap[n].index \in Nat /\ snap[n].index < k /\ lastIndex(n) \in Nat
    BY <1>1, SentSnapshotIs, ToApplyIs
  <1>3. k \in 1..lastIndex(n) <=> HasIndex(n, k)
    BY <1>2 DEF HasIndex
  <1>4. k \in 1..lastIndex(n) => termAt(n, k) = FullLog(n)[k]
    BY <1>2, Given, TermAtIs
  <1> QED
    BY <1>1, <1>3, <1>4 DEF Consistent

\* A log with the entry of the snapshot has all that the snapshot covers.
LEMMA ConsistentCuts ==
    ASSUME RaftInv, NEW m, NewSnapshot(m), Consistent(m), Followed(m.to, m), applied' = applied
    PROVE  /\ CutsLog(m.to, m.snap) /\ AppliedTo(m.to, m.snap.index) /\ SnapshotFrom(m.to, m.snap)
           /\ (Same(m.to) => Took(m.to, m))
  <1>1. PICK n, k, t, F, G : n = m.to /\ k = m.snap.index /\ t = m.snap.term /\ F = Fragment(m) /\ G = FullLog(n)
    OBVIOUS
  <1>2. /\ n \in Node /\ m.snap \in Snap /\ k \in Nat /\ k \in 1..MaxIndex /\ snap[n].index \in Nat /\ snap[n].index < k
        /\ DOMAIN F = 1..k /\ F[k] = t
        /\ \A i \in 1..k : <<i, F[i]>> \in applied
    BY <1>1, SentSnapshotIs
  <1>3. k \in 1..lastIndex(n) /\ G[k] = t /\ lastIndex(n) \in Nat /\ DOMAIN G = 1..lastIndex(n)
    BY <1>1, <1>2, ConsistentIs, ToApplyIs DEF FullLog
  <1>4. \A i \in 1..k : i \in DOMAIN G /\ G[i] = F[i]
    <2>1. F \in Carriers /\ G \in Carriers
      BY <1>1, <1>2 DEF Carriers, NewSnapshot
    <2>2. k \in DOMAIN F \cap DOMAIN G /\ F[k] = G[k]
      BY <1>2, <1>3
    <2>3. \A i \in DOMAIN F \cap DOMAIN G : i <= k => F[i] = G[i]
      BY <1>2, <2>1, <2>2, Given, SharedPrefix
    <2>4. \A i \in 1..k : i \in DOMAIN F \cap DOMAIN G /\ i <= k
      BY <1>2, <1>3
    <2> QED
      BY <2>3, <2>4
  <1>5. AppliedTo(n, k)
    BY <1>1, <1>2, <1>4 DEF AppliedTo
  <1>6. CutsLog(n, m.snap)
    <2>1. snap[n].index <= k /\ k <= lastIndex(n) /\ k # 0
      BY <1>2, <1>3
    <2> QED
      BY <1>1, <1>2, <1>3, <2>1 DEF CutsLog
  <1>7. Same(n) => Took(n, m)
    BY <1>1, <1>2, <1>4 DEF Same, Took
  <1>8. SnapshotFrom(n, m.snap)
    BY <1>1, <1>7 DEF SnapshotFrom, NewSnapshot
  <1> QED
    BY <1>1, <1>5, <1>6, <1>7, <1>8

\* A log without that entry ends before it, and what is committed lies below.
LEMMA UnlikeIs ==
    ASSUME RaftInv, NEW m, NewSnapshot(m), ~Consistent(m)
    PROVE  Unlike(m.to, m) /\ commitIndex[m.to] <= m.snap.index
  <1>1. PICK n, k, t : n = m.to /\ k = m.snap.index /\ t = m.snap.term
    OBVIOUS
  <1>2. /\ n \in Node /\ k \in Nat \ {0} /\ t \in Nat \ {0} /\ Secured(k, t)
        /\ snap[n].index \in Nat /\ snap[n].index < k
    <2>1. n \in Node /\ k \in 1..MaxIndex /\ t \in 1..MaxTerm /\ Secured(k, t)
          /\ snap[n].index \in Nat /\ snap[n].index < k
      BY <1>1, SentSnapshotIs
    <2> QED
      BY <2>1, Bounds
  <1>3. ~(k \in 1..lastIndex(n) /\ FullLog(n)[k] = t)
    BY <1>1, ConsistentIs
  <1>4. Unlike(n, m)
    <2>1. CoverIn(FullLog(n), k, t)
      BY <1>2 DEF Secured, Covers, Carriers
    <2>2. ~Past(LastPos[n], k, t)
      BY <1>2, <1>3, <2>1, Given, PastHolds
    <2> QED
      BY <1>1, <1>2, <2>2 DEF Unlike, NewSnapshot
  <1>5. commitIndex[n] <= k
    <2>1. PICK c : c = commitIndex[n]
      OBVIOUS
    <2>2. c \in Nat
      BY <1>2, <2>1, ToApplyIs
    <2> SUFFICES ASSUME c > k PROVE FALSE
      BY <1>2, <2>1, <2>2
    <2>3. PICK u \in 1..MaxTerm : Secured(c, u) /\ c \in 1..lastIndex(n) /\ FullLog(n)[c] = u
      BY <1>2, <2>1, <2>2, CommitIs
    <2>4. u \in Nat
      BY Bounds
    <2>5. CASE t < u \/ t = u
      <3>1. t < u \/ (t = u /\ k <= c)
        BY <1>2, <2>2, <2>5
      <3>2. PICK q \in Node : /\ k \in 1..lastIndex(q) /\ FullLog(q)[k] = t
                              /\ c \in 1..lastIndex(q) /\ FullLog(q)[c] = u
        BY <1>2, <2>3, <3>1, Given, SecuredChain
      <3>3. FullLog(q) \in Carriers /\ FullLog(n) \in Carriers
        BY <1>2 DEF Carriers
      <3>4. /\ DOMAIN FullLog(q) = 1..lastIndex(q) /\ DOMAIN FullLog(n) = 1..lastIndex(n)
            /\ lastIndex(n) \in Nat
        BY <1>2, ToApplyIs DEF FullLog
      <3>5. k \in 1..lastIndex(n)
        BY <1>2, <2>2, <2>3, <3>4
      <3>6. k \in DOMAIN FullLog(q) \cap DOMAIN FullLog(n) /\ k <= c
        BY <1>2, <2>2, <3>2, <3>4, <3>5
      <3>7. c \in DOMAIN FullLog(q) \cap DOMAIN FullLog(n) /\ FullLog(q)[c] = FullLog(n)[c]
        BY <2>3, <3>2, <3>4
      <3>8. FullLog(q)[k] = FullLog(n)[k]
        BY <2>2, <3>3, <3>6, <3>7, Given, SharedPrefix
      <3> QED
        BY <1>3, <3>2, <3>5, <3>8
    <2>6. CASE ~(t < u \/ t = u)
      <3>1. u < t
        BY <1>2, <2>4, <2>6
      <3>2. c <= k
        BY <1>2, <2>3, <3>1, Given, SecuredChain
      <3> QED
        BY <1>2, <2>2, <3>2
    <2> QED
      BY <2>5, <2>6
  <1> QED
    BY <1>1, <1>4, <1>5

\* What is left on disk of a log that gives way to the snapshot.
Replaces(m, l, d) ==
    /\ l \in Log /\ Len(l) = 0
    /\ IsStore(d) /\ d.snap = m.snap /\ DOMAIN d.log \subseteq Index
    /\ \A i \in DOMAIN d.log : ~(i > m.snap.index)

\* The snapshot takes the place of the log.
LEMMA ReplacedOk ==
    ASSUME RaftInv, NEW m, NewSnapshot(m), ~Consistent(m), Followed(m.to, m), applied' = applied,
           NEW l, NEW d, Replaces(m, l, d), NEW k, k = m.snap.index,
           Becomes(m.to, l, m.snap, d, m.snap.data, k, k),
           UNCHANGED <<nextIndex, matchIndex, leaders>>, faults' \in 0..MaxFaults
    PROVE  Took(m.to, m) /\ (MessagesOk => StepOk)
  <1>1. PICK n, s, t, F : n = m.to /\ s = m.snap /\ t = m.snap.term /\ F = Fragment(m)
    OBVIOUS
  <1>2. /\ n \in Node /\ s \in Snap /\ SnapFits(s) /\ k \in Nat /\ k \in 1..MaxIndex /\ t \in Nat
        /\ snap[n].index \in Nat /\ snap[n].index < k
        /\ LastOf(m) = k /\ DOMAIN F = 1..k
        /\ \A i \in 1..k : <<i, F[i]>> \in applied
        /\ s.index = k /\ s.term = t /\ s.data \in Log /\ k \in Index
    <2>1. /\ n \in Node /\ s \in Snap /\ SnapFits(s) /\ k \in Nat /\ k \in 1..MaxIndex /\ t \in 1..MaxTerm
          /\ snap[n].index \in Nat /\ snap[n].index < k
          /\ LastOf(m) = k /\ DOMAIN F = 1..k
          /\ \A i \in 1..k : <<i, F[i]>> \in applied
          /\ s.index = k /\ s.term = t
      BY <1>1, SentSnapshotIs
    <2>2. s.data \in Log /\ k \in Index
      BY <2>1 DEF Snap
    <2> QED
      BY <2>1, <2>2, Bounds
  <1>3. /\ l \in Log /\ Len(l) = 0 /\ IsStore(d) /\ d.snap = s /\ DOMAIN d.log \subseteq Index
        /\ \A i \in DOMAIN d.log : ~(i > k)
    BY <1>1 DEF Replaces
  <1>4. Unlike(n, m) /\ commitIndex[n] <= k
    BY <1>1, UnlikeIs
  <1>5. /\ RestTypes' /\ (\A p \in Node \ {n} : Calm(p))
        /\ log'[n] = l /\ snap'[n] = s /\ disk'[n] = d
        /\ commitIndex'[n] = k /\ lastApplied'[n] = k
    <2>0. RestTypes
      BY Given
    <2>1. /\ nextIndex' \in [Node -> [Node -> 1..(MaxIndex + 1)]] /\ matchIndex' \in [Node -> [Node -> Index]]
      BY <2>0 DEF RestTypes
    <2>2. PICK x : x = s.data
      OBVIOUS
    <2>3. Becomes(n, l, s, d, x, k, k)
      BY <1>1, <2>2
    <2>4. n \in Node /\ l \in Log /\ s \in Snap /\ IsStore(d) /\ DOMAIN d.log \subseteq Index /\ x \in Log /\ k \in Index
      BY <1>2, <1>3, <2>2
    <2>5. faults' \in 0..MaxFaults
      OBVIOUS
    <2>6. /\ RestTypes' /\ (\A p \in Node \ {n} : Calm(p))
          /\ log'[n] = l /\ snap'[n] = s /\ disk'[n] = d /\ sm'[n] = x
          /\ commitIndex'[n] = k /\ lastApplied'[n] = k
      BY ONLY <2>0, <2>1, <2>3, <2>4, <2>5, OneNode, Zenon
    <2> QED
      BY <2>6
  <1>6. lastIndex(n)' = k
    BY <1>2, <1>3, <1>5 DEF lastIndex
  <1>7. AppliedGrows /\ \A a \in applied' : Settled(a[1], a[2])
    BY NothingApplied
  <1>8. FullLog(n)' = F
    <2>1. /\ \A i \in 1..k : i <= snap'[n].index => FullLog(n)'[i] = AppliedTerm(i)'
          /\ FullLog(n)' = [i \in 1..k |-> FullLog(n)'[i]]
      BY <1>2, <1>6, FullLogAt
    <2>2. ASSUME NEW i \in 1..k PROVE FullLog(n)'[i] = F[i]
      <3>1. i <= snap'[n].index
        BY <1>2, <1>5
      <3>2. PICK e : e = <<i, F[i]>>
        BY Zenon
      <3>3. e \in applied' /\ e[1] = i /\ e[2] = F[i]
        BY <1>2, <3>2
      <3>4. AppliedTerm(e[1])' = e[2]
        BY <1>7, <3>3, AppliedIsNext DEF AppliedGrows
      <3>5. AppliedTerm(i)' = F[i]
        BY <3>3, <3>4
      <3> QED
        BY <2>1, <3>1, <3>5, Zenon
    <2>3. F = [i \in 1..k |-> F[i]]
      <3>1. F = [i \in 1..k |-> AppliedTerm(i)]
        BY <1>1, SentSnapshotIs
      <3> QED
        BY <3>1
    <2> QED
      BY <2>1, <2>2, <2>3
  <1>9. Took(n, m)
    BY <1>1, <1>8 DEF Took
  <1>10. Replaced(n, m)
    BY <1>1, <1>4, <1>8 DEF Replaced
  <1>11. LogStep(n)
    BY <1>1, <1>10 DEF LogStep, NewSnapshot
  <1>12. SnapFits(snap[n])'
    BY <1>2, <1>5, <1>7, SnapshotStays
  <1>13. DiskFits(n)'
    <2>1. Held(n)' = {}
      BY <1>2, <1>5, <1>6 DEF Held
    <2>2. {i \in DOMAIN d.log : i > k} = {}
      BY <1>3
    <2> QED
      BY <1>2, <1>3, <1>5, <2>1, <2>2 DEF DiskFits
  <1>14. NodeFits(n)'
    <2>1. \A i \in 1..k : <<i, FullLog(n)'[i]>> \in applied'
      BY <1>2, <1>8
    <2>2. lastIndex(n)' <= MaxIndex
      BY <1>2, <1>6
    <2> QED
      BY <1>5, <1>12, <1>13, <2>1, <2>2 DEF NodeFits
  <1>15. Bounded(n)'
    BY <1>2, <1>5, <1>6 DEF Bounded
  <1>16. PositionAt(n)
    <2>1. lastTerm(n)' = t
      <3>1. l = <<>>
        BY <1>3, EmptySeq DEF Log
      <3> QED
        BY <1>1, <1>5, <3>1 DEF lastTerm
    <2>2. LastPos'[n] = [term |-> t, index |-> k]
      BY <1>2, <1>6, <2>1 DEF LastPos
    <2>3. LastPos[n].term \in Nat /\ LastPos[n].index \in Nat
      BY <1>2, Given, PosTypes, Zenon
    <2>4. ~Past(LastPos[n], k, t)
      BY <1>1, <1>4 DEF Unlike
    <2>5. EP!UpToDate(LastPos'[n], LastPos[n])
      BY <1>2, <2>2, <2>3, <2>4 DEF Past, EP!UpToDate
    <2> QED
      BY <2>5 DEF PositionAt
  <1>17. CommitStep(n)
    <2>1. \A j : commitIndex'[n] = j => snap'[n].index = j
      BY <1>2, <1>5
    <2> QED
      BY <2>1 DEF CommitStep
  <1>18. SnapshotStep(n)
    <2>1. \A j : snap'[n].index = j => m.snap.index = j
      BY <1>1, <1>2, <1>5
    <2>2. m \in Requests /\ m.type = "IS" /\ Followed(n, m)
      BY <1>1 DEF NewSnapshot
    <2> QED
      BY <1>9, <2>1, <2>2 DEF SnapshotStep
  <1>19. NodeOk(n)
    BY <1>2, <1>5, <1>11, <1>14, <1>15, <1>16, <1>17, <1>18 DEF NodeOk
  <1>20. MatchOk /\ WinnersGrow
    BY DEF MatchOk, WinnersGrow
  <1> QED
    BY <1>1, <1>2, <1>5, <1>7, <1>9, <1>19, <1>20 DEF StepOk

\* The first write of InstallSnapshot takes the log off, if it is not consistent.
LEMMA DroppedIs ==
    ASSUME RaftInv, NEW m, NewSnapshot(m), ~Consistent(m), NEW d, d = Dropped(m, disk[m.to])
    PROVE  /\ IsStore(d) /\ d.snap = snap[m.to] /\ DOMAIN d.log \subseteq Index
           /\ \A i \in DOMAIN d.log : ~(i > snap[m.to].index) /\ i \in Nat
  <1>1. PICK n, e, s : n = m.to /\ e = disk[m.to] /\ s = snap[m.to]
    OBVIOUS
  <1>2. n \in Node /\ s.index \in Nat
    BY <1>1, SentSnapshotIs
  <1>3. IsStore(e) /\ e.snap = s /\ DOMAIN e.log \subseteq Index
    BY <1>1, <1>2, StoreIs
  <1>4. PICK f : f = s.index + 1
    OBVIOUS
  <1>5. d = Store!TruncateSuffix(e, f)
    BY <1>1, <1>4 DEF Dropped
  <1>6. /\ IsStore(d) /\ d.snap = e.snap
        /\ \A i : i \in DOMAIN d.log <=> i \in DOMAIN e.log /\ i < f
    BY <1>3, <1>5, StoreOps
  <1>7. \A i \in DOMAIN d.log : i \in Index /\ i < f
    BY <1>3, <1>6
  <1>8. \A i \in DOMAIN d.log : i \in Nat /\ ~(i > s.index)
    BY <1>2, <1>4, <1>7, Bounds DEF Index
  <1> QED
    BY <1>1, <1>3, <1>6, <1>7, <1>8

\* The second and the third write.
LEMMA SavedIs ==
    ASSUME RaftInv, NEW m, NewSnapshot(m), ~Consistent(m),
           NEW l, l \in Log, Len(l) = 0
    PROVE  Replaces(m, l, Saved(m, disk[m.to])) /\ Replaces(m, l, Compacted(m, disk[m.to]))
  <1>1. PICK d : d = Dropped(m, disk[m.to])
    OBVIOUS
  <1>2. /\ IsStore(d) /\ DOMAIN d.log \subseteq Index
        /\ \A i \in DOMAIN d.log : ~(i > snap[m.to].index) /\ i \in Nat
    BY <1>1, DroppedIs
  <1>3. snap[m.to].index \in Nat /\ m.snap.index \in Nat /\ snap[m.to].index < m.snap.index
    BY SentSnapshotIs
  <1>4. \A i \in DOMAIN d.log : ~(i > m.snap.index)
    BY <1>2, <1>3
  <1>5. PICK s, k : s = m.snap /\ k = m.snap.index
    BY Zenon
  <1>6. PICK e : e = Store!SaveSnapshot(d, s)
    OBVIOUS
  <1>7. PICK g : g = Store!TruncatePrefix(e, k)
    OBVIOUS
  <1>8. IsStore(e) /\ e.snap = s /\ e.log = d.log
    BY <1>2, <1>6, StoreOps
  <1>9. IsStore(g) /\ g.snap = s /\ \A i : i \in DOMAIN g.log <=> i \in DOMAIN d.log /\ i > k
    BY <1>7, <1>8, StoreOps
  <1>10. Saved(m, disk[m.to]) = e /\ Compacted(m, disk[m.to]) = g
    BY <1>1, <1>5, <1>6, <1>7 DEF Saved, Compacted
  <1>11. Replaces(m, l, e)
    BY <1>2, <1>4, <1>5, <1>8 DEF Replaces
  <1>12. Replaces(m, l, g)
    BY <1>2, <1>4, <1>5, <1>9 DEF Replaces
  <1> QED
    BY <1>10, <1>11, <1>12

\* commitIndex and lastApplied catch up with the snapshot.
LEMMA RaisedIs ==
    ASSUME RaftInv, NEW m, NewSnapshot(m), NEW c, NEW a,
           c = Raised(commitIndex[m.to], m), a = Raised(lastApplied[m.to], m)
    PROVE  /\ c = IF commitIndex[m.to] >= m.snap.index THEN commitIndex[m.to] ELSE m.snap.index
           /\ a = IF lastApplied[m.to] >= m.snap.index THEN lastApplied[m.to] ELSE m.snap.index
  <1>1. m.to \in Node /\ m.snap.index \in Nat
    BY SentSnapshotIs
  <1>2. commitIndex[m.to] \in Nat /\ lastApplied[m.to] \in Nat
    BY <1>1, ToApplyIs
  <1> QED
    BY <1>1, <1>2, MaxOfTwo DEF Raised

\* InstallSnapshot takes over the entries of the snapshot, with the suffix
\* that is consistent with it.
LEMMA InstallSnapshotOk ==
    ASSUME RaftInv, NEW m \in msgs, InstallSnapshot(m)
    PROVE  StepOk /\ Took(m.to, m)
  <1>1. PICK n, s, k : n = m.to /\ s = m.snap /\ k = m.snap.index
    OBVIOUS
  <1>2. /\ NewSnapshot(m) /\ m.term >= currentTerm[m.to] /\ m \in Requests
        /\ E!FollowLeader(m.to, m.from, m.term) /\ Answer(m, ISReply(m))
        /\ applied' = applied /\ UNCHANGED <<nextIndex, matchIndex, faults>>
    BY DEF InstallSnapshot, NewSnapshot, Requests, leaderVars
  <1>3. Followed(n, m) /\ leaders' = leaders
    BY <1>1, <1>2, FollowIs
  <1>4. PICK c, a, l, d, x : /\ c = Raised(commitIndex[n], m) /\ a = Raised(lastApplied[n], m)
                             /\ l = (IF Consistent(m) THEN sliceFrom(n, k + 1) ELSE <<>>)
                             /\ d = Compacted(m, disk[n]) /\ x = s.data
    OBVIOUS
  <1>5. /\ n \in Node /\ s \in Snap /\ s.index = k /\ k \in Nat /\ k \in Index /\ x \in Log
        /\ commitIndex[n] \in Nat /\ lastApplied[n] \in Nat /\ lastApplied[n] <= commitIndex[n]
        /\ commitIndex[n] <= lastIndex(n) /\ commitIndex[n] \in Index /\ lastApplied[n] \in Index
    <2>1. n \in Node /\ s \in Snap /\ s.index = k /\ k \in Nat
      BY <1>1, <1>2, SentSnapshotIs
    <2>2. x \in Log /\ k \in Index
      BY <1>4, <2>1 DEF Snap
    <2>3. commitIndex[n] \in Index /\ lastApplied[n] \in Index
      BY <2>1, Given DEF RestTypes
    <2> QED
      BY <2>1, <2>2, <2>3, ToApplyIs
  <1>6. /\ c = IF commitIndex[n] >= k THEN commitIndex[n] ELSE k
        /\ a = IF lastApplied[n] >= k THEN lastApplied[n] ELSE k
    BY <1>1, <1>2, <1>4, RaisedIs
  <1>7. Becomes(n, l, s, d, x, c, a)
    BY <1>1, <1>4 DEF InstallSnapshot, Becomes
  <1>8. faults' \in 0..MaxFaults /\ AppliedGrows /\ NewSettled
    BY <1>2, Given, NothingApplied DEF RestTypes, NewSettled
  <1>9. Took(n, m) /\ (MessagesOk => StepOk)
    <2>1. CASE Consistent(m)
      <3>1. CutsLog(n, s) /\ AppliedTo(n, k) /\ SnapshotFrom(n, s) /\ (Same(n) => Took(n, m))
        BY <1>1, <1>2, <1>3, <2>1, ConsistentCuts
      <3>2. LogAbove(n, s, l)
        BY <1>4, <1>5, <2>1, <3>1, CutIs
      <3>3. d = Store!TruncatePrefix(Store!SaveSnapshot(disk[n], s), k)
        BY <1>1, <1>4, <2>1 DEF Compacted, Saved, Dropped
      <3>4. DiskAbove(n, s, d)
        BY <1>5, <3>1, <3>3, CutIs
      <3>5. s.index <= a /\ a <= c /\ c <= lastIndex(n) /\ c \in Index /\ a \in Index
            /\ (c = commitIndex[n] \/ c = s.index)
        <4>1. k <= lastIndex(n)
          BY <1>5, <3>1 DEF CutsLog
        <4> QED
          BY <1>5, <1>6, <4>1
      <3>6. AppliedTo(n, a)
        <4>1. CASE lastApplied[n] >= k
          BY <1>2, <1>5, <1>6, <4>1, Given DEF Fits, NodesFit, NodeFits, AppliedTo
        <4>2. CASE ~(lastApplied[n] >= k)
          BY <1>6, <3>1, <4>2
        <4> QED
          BY <4>1, <4>2
      <3>7. Same(n) /\ (MessagesOk => StepOk)
        BY <1>2, <1>3, <1>5, <1>7, <1>8, <3>1, <3>2, <3>4, <3>5, <3>6, SameStep
      <3> QED
        BY <3>1, <3>7
    <2>2. CASE ~Consistent(m)
      <3>1. commitIndex[n] <= k
        BY <1>1, <1>2, <2>2, UnlikeIs
      <3>2. c = k /\ a = k
        BY <1>5, <1>6, <3>1
      <3>3. l \in Log /\ Len(l) = 0
        <4>1. l = <<>>
          BY <1>4, <2>2
        <4>2. <<>> \in Seq(1..MaxTerm) /\ Len(<<>>) = 0
          BY EmptySeq
        <4> QED
          BY <4>1, <4>2 DEF Log
      <3>4. Replaces(m, l, d)
        BY <1>1, <1>2, <1>4, <2>2, <3>3, SavedIs
      <3>5. Becomes(m.to, l, m.snap, d, m.snap.data, k, k) /\ Followed(m.to, m)
        BY <1>1, <1>3, <1>4, <1>7, <3>2
      <3>6. Took(m.to, m) /\ (MessagesOk => StepOk)
        BY <1>1, <1>2, <1>3, <1>8, <2>2, <3>4, <3>5, ReplacedOk
      <3> QED
        BY <1>1, <3>6
    <2> QED
      BY <2>1, <2>2
  <1>10. MessagesOk
    <2>1. PICK r : r = ISReply(m)
      OBVIOUS
    <2>2. LET q == ISReply(m)
          IN  ReplyFits(q) /\ q.from = m.to /\ q.to = m.from /\ q.forTerm = m.term /\ q.match = LastOf(m)
      BY <1>2, SnapshotReplyFits DEF NewSnapshot
    <2>3. ReplyFits(r) /\ r.from = m.to /\ r.to = m.from /\ r.forTerm = m.term /\ r.match = LastOf(m)
      BY <2>1, <2>2
    <2>4. AckFits(r)
      <3>1. r.match <= LastOf(m)
        <4>1. LastOf(m) \in Nat
          BY <1>2, SentSnapshotIs
        <4> QED
          BY <2>3, <4>1
      <3>2. m.from = r.to /\ m.to = r.from /\ m.term = r.forTerm /\ Followed(r.from, m) /\ Took(r.from, m)
        BY <1>1, <1>3, <1>9, <2>3
      <3> QED
        BY <1>2, <3>1, <3>2 DEF AckFits
    <2> QED
      BY <1>2, <2>1, <2>3, <2>4, Given, AnsweredMessages
  <1> QED
    BY <1>1, <1>9, <1>10

-----------------------------------------------------------------------------
(***************************************************************************)
(* Crashes between two writes.                                             *)
(***************************************************************************)

\* The store d holds the log of n up to K.
DiskUpTo(n, K, d) ==
    /\ K \in Nat /\ snap[n].index <= K /\ K <= lastIndex(n)
    /\ IsStore(d) /\ d.snap = snap[n] /\ DOMAIN d.log \subseteq Index
    /\ \A i : i \in DOMAIN d.log /\ i > snap[n].index <=> i \in snap[n].index + 1 .. K
    /\ \A i \in snap[n].index + 1 .. K : d.log[i] = FullLog(n)[i]

\* Dying clears the campaign.
LEMMA DyingPosition ==
    ASSUME RaftInv, NEW m \in Requests, m.term >= currentTerm[m.to], E!DieFollowing(m.to, m.from, m.term)
    PROVE  PositionAt(m.to)
  <1>1. /\ m.to \in Node /\ currentTerm \in [Node -> 0..MaxTerm] /\ [node |-> m.from, term |-> m.term] \in leaders
    BY Given, FragmentShape DEF ElectionShape
  <1>2. preVotes \in [Node -> SUBSET E!Round]
    BY Given DEF TypeOK, E!TypeOK
  <1>3. preVotes'[m.to] = {}
    <2>1. CASE m.term > currentTerm[m.to]
      <3>1. E!stepDown(m.to, m.term)
        BY <2>1 DEF E!DieFollowing
      <3> QED
        BY <1>1, <1>2, <3>1 DEF E!stepDown
    <2>2. CASE ~(m.term > currentTerm[m.to])
      <3>1. preVotes' = [preVotes EXCEPT ![m.to] = {}]
        BY <2>2 DEF E!DieFollowing
      <3> QED
        BY <1>1, <1>2, <3>1
    <2> QED
      BY <2>1, <2>2
  <1>4. currentTerm'[m.to] = m.term
    BY FollowIs DEF Followed
  <1>5. \E v \in leaders : v.term = currentTerm'[m.to]
    BY <1>1, <1>4
  <1> QED
    BY <1>3, <1>5 DEF PositionAt

\* A node comes back with a part of its log.
LEMMA ReloadCut ==
    ASSUME RaftInv, NEW n \in Node, NEW m \in Requests, Followed(n, m), applied' = applied,
           NEW K, NEW d, DiskUpTo(n, K, d), Reload(n, d), faults' \in 0..MaxFaults,
           LeftTo(n, K) => CutAt(n, m) \/ Emptied(n, m), PositionAt(n)
    PROVE  LeftTo(n, K) /\ (MessagesOk => StepOk)
  <1>1. PICK l, s, x, c, lo, hi : /\ l = Store!LoadedLog(d) /\ s = snap[n] /\ x = s.data /\ c = s.index
                                  /\ lo = s.index /\ hi = lastIndex(n)
    OBVIOUS
  <1>2. /\ K \in Nat /\ lo <= K /\ K <= hi
        /\ IsStore(d) /\ d.snap = s /\ DOMAIN d.log \subseteq Index
        /\ \A i : i \in DOMAIN d.log /\ i > lo <=> i \in lo + 1 .. K
        /\ \A i \in lo + 1 .. K : d.log[i] = FullLog(n)[i]
    BY <1>1 DEF DiskUpTo
  <1>3. /\ s \in Snap /\ SnapFits(s) /\ lo \in Nat /\ hi \in Nat /\ hi <= MaxIndex /\ lo = s.index
        /\ lo <= lastApplied[n] /\ lastApplied[n] \in Nat
    BY <1>1, SnapshotIs, ToApplyIs
  <1>4. x \in Log /\ c \in Index /\ c = lo
    BY <1>1, <1>3 DEF Snap
  <1>5. /\ \A i \in 1..hi : FullLog(n)[i] \in 1..MaxTerm
        /\ DOMAIN FullLog(n) = 1..hi
        /\ \A i \in 1..lo : FullLog(n)[i] = AppliedTerm(i)
    BY <1>1, Given, FullLogShape DEF OnInterval
  <1>6. /\ l \in Log /\ Len(l) = K - lo
        /\ \A i \in lo + 1 .. K : l[i - lo] = FullLog(n)[i]
    <2>1. \A i \in lo + 1 .. K : i \in 1..hi
      BY <1>2, <1>3
    <2>2. \A i \in lo + 1 .. K : d.log[i] \in 1..MaxTerm
      BY <1>2, <1>5, <2>1
    <2>3. d.snap.index = lo
      BY <1>2, <1>3
    <2>4. /\ Store!LoadedLog(d) \in Seq(1..MaxTerm) /\ Len(Store!LoadedLog(d)) = K - lo
          /\ \A i \in lo + 1 .. K : Store!LoadedLog(d)[i - lo] = d.log[i]
      BY <1>2, <1>3, <2>2, <2>3, LoadedIs, Zenon
    <2> QED
      BY <1>1, <1>2, <2>4 DEF Log
  <1>7. Becomes(n, l, s, d, x, c, c) /\ UNCHANGED <<nextIndex, matchIndex>>
    BY <1>1, <1>2 DEF Reload, Becomes, leaderVars
  <1>8. /\ RestTypes' /\ (\A p \in Node \ {n} : Calm(p))
        /\ log'[n] = l /\ snap'[n] = s /\ disk'[n] = d
        /\ commitIndex'[n] = c /\ lastApplied'[n] = c
    <2>0. RestTypes
      BY Given
    <2>1. /\ nextIndex' \in [Node -> [Node -> 1..(MaxIndex + 1)]] /\ matchIndex' \in [Node -> [Node -> Index]]
      BY <1>7, <2>0 DEF RestTypes
    <2>2. faults' \in 0..MaxFaults
      OBVIOUS
    <2>3. n \in Node /\ l \in Log /\ s \in Snap /\ IsStore(d) /\ DOMAIN d.log \subseteq Index /\ x \in Log /\ c \in Index
      BY <1>2, <1>3, <1>4, <1>6
    <2>4. /\ RestTypes' /\ (\A p \in Node \ {n} : Calm(p))
          /\ log'[n] = l /\ snap'[n] = s /\ disk'[n] = d /\ sm'[n] = x
          /\ commitIndex'[n] = c /\ lastApplied'[n] = c
      BY ONLY <1>7, <2>0, <2>1, <2>2, <2>3, OneNode, Zenon
    <2> QED
      BY <2>4
  <1>9. AppliedGrows /\ \A a \in applied' : Settled(a[1], a[2])
    BY NothingApplied
  <1>10. lastIndex(n)' = K
    BY <1>2, <1>3, <1>6, <1>8 DEF lastIndex
  <1>11. \A i \in lo + 1 .. K : entryAt(n, i)' = FullLog(n)[i]
    BY <1>3, <1>6, <1>8 DEF entryAt
  <1>12. DOMAIN FullLog(n)' = 1..K /\ \A i \in 1..K : FullLog(n)'[i] = FullLog(n)[i]
    <2>1. /\ DOMAIN FullLog(n)' = 1..K
          /\ \A i \in 1..K : i <= snap'[n].index => FullLog(n)'[i] = AppliedTerm(i)'
          /\ \A i \in 1..K : ~(i <= snap'[n].index) => FullLog(n)'[i] = entryAt(n, i)'
      BY <1>2, <1>10, FullLogAt
    <2>2. ASSUME NEW i \in 1..K PROVE FullLog(n)'[i] = FullLog(n)[i]
      <3>1. CASE i <= lo
        <4>1. i \in 1..lo /\ i \in 1..lastApplied[n]
          BY <1>2, <1>3, <3>1
        <4>2. <<i, FullLog(n)[i]>> \in applied
          BY <4>1, Given DEF Fits, NodesFit, NodeFits
        <4>3. PICK e : e = <<i, FullLog(n)[i]>>
          BY Zenon
        <4>4. e \in applied' /\ e[1] = i /\ e[2] = FullLog(n)[i]
          BY <4>2, <4>3
        <4>5. AppliedTerm(e[1])' = e[2]
          BY <1>9, <4>4, AppliedIsNext DEF AppliedGrows
        <4>6. AppliedTerm(i)' = FullLog(n)[i]
          BY <4>4, <4>5
        <4>7. i <= snap'[n].index
          BY <1>3, <1>8, <3>1
        <4> QED
          BY <2>1, <4>6, <4>7
      <3>2. CASE ~(i <= lo)
        <4>1. i \in lo + 1 .. K /\ ~(i <= snap'[n].index)
          BY <1>2, <1>3, <1>8, <3>2
        <4> QED
          BY <1>11, <2>1, <4>1
      <3> QED
        BY <3>1, <3>2
    <2> QED
      BY <2>1, <2>2
  <1>13. LeftTo(n, K)
    <2>1. K \in 0..lastIndex(n)
      BY <1>1, <1>2, <1>3
    <2> QED
      BY <1>12, <2>1 DEF LeftTo
  <1>14. LogStep(n)
    BY <1>13 DEF LogStep
  <1>15. SnapFits(snap[n])'
    BY <1>3, <1>8, <1>9, SnapshotStays
  <1>16. DiskFits(n)'
    <2>1. Held(n)' = lo + 1 .. K
      BY <1>3, <1>8, <1>10 DEF Held
    <2>2. {i \in DOMAIN d.log : i > lo} = lo + 1 .. K
      BY <1>2
    <2>3. \A i \in lo + 1 .. K : d.log[i] = entryAt(n, i)'
      BY <1>2, <1>11
    <2> QED
      BY <1>2, <1>3, <1>8, <2>1, <2>2, <2>3 DEF DiskFits
  <1>17. NodeFits(n)'
    <2>1. \A i \in 1..c : <<i, FullLog(n)'[i]>> \in applied'
      <3> SUFFICES ASSUME NEW i \in 1..c PROVE <<i, FullLog(n)'[i]>> \in applied'
        OBVIOUS
      <3>1. i \in 1..K /\ i \in 1..lastApplied[n]
        BY <1>2, <1>3, <1>4
      <3>2. <<i, FullLog(n)[i]>> \in applied
        BY <3>1, Given DEF Fits, NodesFit, NodeFits
      <3> QED
        BY <1>12, <3>1, <3>2
    <2>2. lastIndex(n)' <= MaxIndex
      BY <1>2, <1>3, <1>10, Bounds
    <2> QED
      BY <1>8, <1>15, <1>16, <2>1, <2>2 DEF NodeFits
  <1>18. Bounded(n)'
    BY <1>2, <1>3, <1>4, <1>8, <1>10 DEF Bounded
  <1>19. CommitStep(n)
    <2>1. \A j : commitIndex'[n] = j => snap'[n].index = j
      BY <1>3, <1>4, <1>8
    <2> QED
      BY <2>1 DEF CommitStep
  <1>20. SnapshotStep(n)
    <2> SUFFICES ASSUME NEW k \in 1..MaxIndex, snap'[n].index = k
                 PROVE  snap[n].index = k /\ FullLog(n)'[k] = FullLog(n)[k]
      BY DEF SnapshotStep
    <2>1. k = lo /\ k \in 1..K
      BY <1>2, <1>3, <1>8
    <2> QED
      BY <1>1, <1>12, <2>1
  <1>21. NodeOk(n)
    <2>1. snap[n].index <= snap'[n].index
      BY <1>1, <1>3, <1>8
    <2> QED
      BY <1>14, <1>17, <1>18, <1>19, <1>20, <2>1 DEF NodeOk
  <1>22. MatchOk /\ WinnersGrow
    BY <1>7 DEF MatchOk, WinnersGrow, Followed
  <1>23. MessagesOk => StepOk
    BY <1>8, <1>9, <1>21, <1>22 DEF StepOk
  <1> QED
    BY <1>13, <1>23

\* A crash between TruncateSuffix and Append of one AppendEntries cuts off only
\* what conflicts with the leader's log, and acknowledges nothing.
LEMMA CrashInAppendOk ==
    ASSUME RaftInv, NEW m \in msgs, CrashInAppend(m)
    PROVE  StepOk
  <1>1. /\ m \in Requests /\ m.type = "AE" /\ m.term >= currentTerm[m.to] /\ Fault
        /\ ~TooShort(m) /\ ~Mismatch(m) /\ Conflicts(m) # {}
        /\ Reload(m.to, Truncated(m, disk[m.to])) /\ E!DieFollowing(m.to, m.from, m.term)
        /\ msgs' = Orphaned(msgs \ {m}, m.to) /\ applied' = applied
    BY DEF CrashInAppend, Requests
  <1>2. PICK n, K, d, e, lo, f : /\ n = m.to /\ K = KeptTo(m) /\ d = Truncated(m, disk[m.to]) /\ e = disk[m.to]
                                 /\ lo = snap[m.to].index /\ f = K + 1
    OBVIOUS
  <1>3. Followed(n, m) /\ PositionAt(n) /\ n \in Node
    BY <1>1, <1>2, FollowIs, DyingPosition, Given, FragmentShape, Zenon
  <1>4. faults' \in 0..MaxFaults
    BY <1>1, FaultType
  <1>5. MessagesOk
    <2>1. msgs \ {m} \in SUBSET msgs
      OBVIOUS
    <2> QED
      BY <1>1, <1>2, <1>3, <2>1, Given, OrphanedMessages
  <1>6. K \in Nat /\ K <= lastIndex(n) /\ lo <= K /\ Splits(n, m, K) /\ lo \in Nat /\ lastIndex(n) \in Nat
    <2>1. MergesAt(m)
      BY <1>1, MergeIs
    <2> QED
      BY <1>1, <1>2, <1>3, <2>1, ToApplyIs DEF MergesAt
  <1>7. /\ IsStore(e) /\ e.snap = snap[n] /\ DOMAIN e.log \subseteq Index
        /\ \A i : i \in DOMAIN e.log /\ i > lo <=> i \in lo + 1 .. lastIndex(n)
        /\ \A i \in lo + 1 .. lastIndex(n) : e.log[i] = FullLog(n)[i]
    <2>1. Held(n) = lo + 1 .. lastIndex(n) /\ \A i \in Held(n) : FullLog(n)[i] = entryAt(n, i)
      BY <1>2, <1>3, Given, FullLogShape DEF Held
    <2>2. /\ IsStore(disk[n]) /\ disk[n].snap = snap[n]
          /\ \A i : i \in DOMAIN disk[n].log /\ i > snap[n].index <=> i \in Held(n)
          /\ \A i \in Held(n) : disk[n].log[i] = entryAt(n, i)
          /\ DOMAIN disk[n].log \subseteq Index
      BY <1>3, StoreIs
    <2>3. e = disk[n] /\ lo = snap[n].index
      BY <1>2
    <2> QED
      BY <2>1, <2>2, <2>3
  <1>8. d = Store!TruncateSuffix(e, f)
    BY <1>1, <1>2 DEF Truncated
  <1>9. /\ IsStore(d) /\ d.snap = e.snap
        /\ \A i : i \in DOMAIN d.log <=> i \in DOMAIN e.log /\ i < f
        /\ \A i \in DOMAIN d.log : d.log[i] = e.log[i]
    BY <1>7, <1>8, StoreOps
  <1>10. \A i : i \in DOMAIN d.log /\ i > lo <=> i \in lo + 1 .. K
    <2>1. \A i : i \in DOMAIN d.log /\ i > lo => i \in lo + 1 .. lastIndex(n) /\ i < f
      BY <1>7, <1>9
    <2>2. \A i : i \in lo + 1 .. lastIndex(n) /\ i < f => i \in lo + 1 .. K
      BY <1>2, <1>6
    <2>3. \A i : i \in lo + 1 .. K => i \in lo + 1 .. lastIndex(n) /\ i < f
      BY <1>2, <1>6
    <2> QED
      BY <1>7, <1>9, <2>1, <2>2, <2>3
  <1>11. \A i \in lo + 1 .. K : d.log[i] = FullLog(n)[i]
    <2>1. \A i \in lo + 1 .. K : i \in DOMAIN d.log /\ i \in lo + 1 .. lastIndex(n)
      BY <1>6, <1>10
    <2> QED
      BY <1>7, <1>9, <2>1
  <1>12. DiskUpTo(n, K, d)
    <2>1. DOMAIN d.log \subseteq Index
      BY <1>7, <1>9
    <2> QED
      BY <1>2, <1>6, <1>7, <1>9, <1>10, <1>11, <2>1 DEF DiskUpTo
  <1>13. LeftTo(n, K) => CutAt(n, m) \/ Emptied(n, m)
    BY <1>1, <1>6 DEF CutAt
  <1> QED
    BY <1>1, <1>2, <1>3, <1>4, <1>5, <1>12, <1>13, ReloadCut

\* A crash between the writes of InstallSnapshot leaves the old log, a part of
\* it that the snapshot does not conflict with, or the snapshot.
LEMMA CrashInInstallOk ==
    ASSUME RaftInv, NEW m \in msgs, CrashInInstall(m)
    PROVE  StepOk /\ (snap'[m.to] = m.snap \/ \E K : LeftTo(m.to, K))
  <1>1. /\ NewSnapshot(m) /\ m \in Requests /\ m.type = "IS" /\ m.term >= currentTerm[m.to] /\ Fault
        /\ E!DieFollowing(m.to, m.from, m.term)
        /\ msgs' = Orphaned(msgs \ {m}, m.to) /\ applied' = applied
    BY DEF CrashInInstall, Requests, NewSnapshot
  <1>2. PICK n, s, k, lo : n = m.to /\ s = m.snap /\ k = m.snap.index /\ lo = snap[m.to].index
    OBVIOUS
  <1>3. PICK d \in {Dropped(m, disk[m.to]), Saved(m, disk[m.to])} : Reload(m.to, d)
    BY DEF CrashInInstall
  <1>4. Followed(n, m) /\ PositionAt(n) /\ n \in Node /\ leaders' = leaders
    BY <1>1, <1>2, FollowIs, DyingPosition, Given, FragmentShape, Zenon
  <1>5. faults' \in 0..MaxFaults
    BY <1>1, FaultType
  <1>6. MessagesOk
    <2>1. msgs \ {m} \in SUBSET msgs
      OBVIOUS
    <2> QED
      BY <1>1, <1>2, <1>4, <2>1, Given, OrphanedMessages
  <1>7. AppliedGrows /\ NewSettled
    BY <1>1, NothingApplied DEF NewSettled
  <1>8. /\ lo \in Nat /\ s \in Snap /\ s.index = k /\ k \in Nat /\ lastIndex(n) \in Nat /\ lo <= lastIndex(n)
        /\ lo <= lastApplied[n] /\ lastApplied[n] \in Nat
    BY <1>1, <1>2, SentSnapshotIs, ToApplyIs, SnapshotIs
  <1>9. Reload(n, d)
    BY <1>2, <1>3
  <1>12. d = Saved(m, disk[m.to]) => snap'[m.to] = m.snap
    <2>1. IsStore(disk[m.to]) /\ (Store!SaveSnapshot(Dropped(m, disk[m.to]), m.snap)).snap = m.snap
      BY <1>2, <1>4, StoreIs DEF Store!SaveSnapshot
    <2>2. snap \in [Node -> Snap]
      BY Given DEF RestTypes
    <2> QED
      BY <1>2, <1>3, <1>4, <2>1, <2>2 DEF Reload, Saved
  <1>10. CASE Consistent(m)
    <2>1. CASE d = Dropped(m, disk[m.to])
      <3>1. PICK z : z = snap[n]
        OBVIOUS
      <3>2. d = disk[n]
        BY <1>2, <1>10, <2>1 DEF Dropped
      <3>3. CutsLog(n, z) /\ DiskAbove(n, z, d)
        BY <1>4, <3>1, <3>2, StoreAbove
      <3>4. AppliedTo(n, z.index)
        <4>1. \A i \in 1..z.index : i \in 1..lastApplied[n]
          BY <1>2, <1>8, <3>1
        <4> QED
          BY <1>1, <1>4, <4>1, Given DEF Fits, NodesFit, NodeFits, AppliedTo
      <3>5. SnapshotFrom(n, z)
        BY <3>1 DEF SnapshotFrom
      <3>6. Same(n) /\ StepOk
        BY <1>4, <1>5, <1>6, <1>7, <1>9, <3>3, <3>4, <3>5, ReloadSame
      <3>7. LeftTo(n, lastIndex(n))
        <4>1. DOMAIN FullLog(n) = 1..lastIndex(n)
          BY <1>4, Given, FullLogShape DEF OnInterval
        <4> QED
          BY <1>8, <3>6, <4>1 DEF LeftTo, Same
      <3> QED
        BY <1>2, <3>6, <3>7
    <2>2. CASE d = Saved(m, disk[m.to])
      <3>1. CutsLog(n, s) /\ AppliedTo(n, s.index) /\ SnapshotFrom(n, s)
        BY <1>1, <1>2, <1>4, <1>10, ConsistentCuts
      <3>2. d = Store!SaveSnapshot(disk[n], s)
        BY <1>2, <1>10, <2>2 DEF Saved, Dropped
      <3>3. DiskAbove(n, s, d)
        BY <1>4, <3>1, <3>2, CutIs
      <3>4. StepOk
        BY <1>4, <1>5, <1>6, <1>7, <1>9, <3>1, <3>3, ReloadSame
      <3> QED
        BY <1>12, <2>2, <3>4
    <2> QED
      BY <2>1, <2>2
  <1>11. CASE ~Consistent(m)
    <2>1. CASE d = Dropped(m, disk[m.to])
      <3>1. /\ IsStore(d) /\ d.snap = snap[n] /\ DOMAIN d.log \subseteq Index
            /\ \A i \in DOMAIN d.log : ~(i > lo) /\ i \in Nat
        BY <1>1, <1>2, <1>11, <2>1, DroppedIs
      <3>2. lo + 1 .. lo = {}
        BY <1>8
      <3>3. DiskUpTo(n, lo, d)
        BY <1>2, <1>8, <3>1, <3>2 DEF DiskUpTo
      <3>4. Unlike(n, m)
        BY <1>1, <1>2, <1>11, UnlikeIs
      <3>5. LeftTo(n, lo) => CutAt(n, m) \/ Emptied(n, m)
        BY <3>4 DEF Emptied
      <3> QED
        BY <1>1, <1>2, <1>4, <1>5, <1>6, <1>9, <3>3, <3>5, ReloadCut
    <2>2. CASE d = Saved(m, disk[m.to])
      <3>1. PICK l : l = Store!LoadedLog(d)
        OBVIOUS
      <3>2. /\ IsStore(d) /\ d.snap = m.snap /\ DOMAIN d.log \subseteq Index
            /\ \A i \in DOMAIN d.log : ~(i > m.snap.index)
        <4>1. <<>> \in Log /\ Len(<<>>) = 0
          BY EmptySeq DEF Log
        <4>2. PICK z : z = <<>>
          OBVIOUS
        <4>3. z \in Log /\ Len(z) = 0
          BY <4>1, <4>2
        <4>4. Replaces(m, z, d)
          BY <1>1, <1>11, <2>2, <4>3, SavedIs
        <4> QED
          BY <4>4 DEF Replaces
      <3>3. l \in Log /\ Len(l) = 0
        <4>1. k + 1 .. k = {} /\ k <= k /\ k - k = 0
          BY <1>8
        <4>2. /\ d.snap.index = k
              /\ \A i : i \in DOMAIN d.log /\ i > k <=> i \in k + 1 .. k
              /\ \A i \in k + 1 .. k : d.log[i] \in 1..MaxTerm
          BY <1>2, <3>2, <4>1
        <4>3. /\ Store!LoadedLog(d) \in Seq(1..MaxTerm) /\ Len(Store!LoadedLog(d)) = k - k
          BY <1>8, <4>1, <4>2, LoadedIs, Zenon
        <4> QED
          BY <3>1, <4>1, <4>3 DEF Log
      <3>4. Replaces(m, l, d)
        BY <3>2, <3>3 DEF Replaces
      <3>5. Becomes(m.to, l, m.snap, d, m.snap.data, k, k) /\ UNCHANGED <<nextIndex, matchIndex>>
        BY <1>2, <1>9, <3>1, <3>2 DEF Reload, Becomes, leaderVars
      <3>6. Took(m.to, m) /\ (MessagesOk => StepOk)
        BY <1>1, <1>2, <1>4, <1>5, <1>11, <3>4, <3>5, ReplacedOk
      <3> QED
        BY <1>6, <1>12, <2>2, <3>6
    <2> QED
      BY <1>3, <2>1, <2>2
  <1> QED
    BY <1>10, <1>11

=============================================================================
