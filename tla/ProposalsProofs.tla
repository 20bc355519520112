-------------------------- MODULE ProposalsProofs ---------------------------
(***************************************************************************)
(* Proofs about Proposals, for any number of callers, terms and entries.   *)
(***************************************************************************)
EXTENDS Proposals, TLAPS

-----------------------------------------------------------------------------
(***************************************************************************)
(* The inductive invariant.                                                *)
(***************************************************************************)

\* What is applied is committed and what is committed is in the log; a leader
\* has a term.
Progress ==
    /\ lastApplied <= commitIndex
    /\ commitIndex <= Len(log)
    /\ leading => currentTerm > 0

\* A call has nothing before Submit has run, and a reply only at its end. Its
\* slot is of no later term than the node's, and within the leadership it was
\* made in it lies inside the log.
CallsFit ==
    \A c \in Call :
        /\ pc[c] = "idle" => slot[c].index = 0 /\ ch[c] = "empty"
        /\ pc[c] # "done" => reply[c] = "empty"
        /\ slot[c].term <= currentTerm
        /\ leading /\ slot[c].term = currentTerm => slot[c].index <= Len(log)

\* No two calls were given the same index in the same term.
SlotsDistinct ==
    \A c, d \in Call : slot[c] = slot[d] /\ slot[c].index > 0 => c = d

TypeInv == TypeOK /\ Progress

Inv ==
    /\ TypeInv
    /\ CallsFit
    /\ SlotsDistinct
    /\ WaitersAreCurrent
    /\ OwnAnswer
    /\ OnlyLateCancelAbandons

LEMMA InitInv == Init => Inv
  <1> SUFFICES ASSUME Init PROVE Inv
    OBVIOUS
  <1>1. TypeInv
    <2>1. log \in Seq(Entry) /\ Len(log) = 0
      BY DEF Init
    <2>2. slot \in [Call -> [index : 0..MaxIndex, term : 0..MaxTerm]]
      BY BoundAssumption DEF Init
    <2>3. /\ pending \in [Index -> Call \cup {None}]
          /\ pc \in [Call -> {"idle", "waiting", "cancelling", "done"}]
          /\ ch \in [Call -> Cmd \cup {"empty", "lost", "stopped"}]
          /\ reply \in [Call -> Cmd \cup {"empty", "lost", "stopped", "cancelled", "notLeader"}]
          /\ proposed \subseteq [index : Index, term : 1..MaxTerm, cmd : Cmd]
      BY DEF Init
    <2>4. /\ leading \in BOOLEAN /\ ~leading /\ applyCh \in BOOLEAN /\ running \in BOOLEAN
          /\ applier \in {"idle", "woken"}
      BY DEF Init
    <2>5. /\ currentTerm \in 0..MaxTerm
          /\ commitIndex = 0 /\ lastApplied = 0 /\ 0 \in 0..MaxIndex
      BY BoundAssumption DEF Init
    <2>6. Len(log) <= MaxIndex
      BY <2>1, BoundAssumption
    <2>7. Progress
      BY <2>1, <2>4, <2>5 DEF Progress
    <2> QED
      BY <2>1, <2>2, <2>3, <2>4, <2>5, <2>6, <2>7 DEF TypeInv, TypeOK
  <1>2. CallsFit /\ SlotsDistinct
    BY DEF Init, CallsFit, SlotsDistinct
  <1>3. WaitersAreCurrent
    BY CallAssumption DEF Init, WaitersAreCurrent
  <1>4. OwnAnswer
    BY CallAssumption DEF Init, OwnAnswer, Cmd
  <1>5. OnlyLateCancelAbandons
    BY DEF Init, OnlyLateCancelAbandons, Abandoned
  <1> QED
    BY <1>1, <1>2, <1>3, <1>4, <1>5 DEF Inv

-----------------------------------------------------------------------------
(***************************************************************************)
(* What the operators on the log do.                                       *)
(***************************************************************************)

\* TakenOver keeps the log below k and ends with e at k.
LEMMA TakenOverLog ==
    ASSUME log \in Seq(Entry), NEW k \in 1..Len(log) + 1, NEW e \in Entry
    PROVE  /\ TakenOver(k, e) \in Seq(Entry)
           /\ Len(TakenOver(k, e)) = k
           /\ \A i \in 1..k - 1 : TakenOver(k, e)[i] = log[i]
  <1>1. /\ SubSeq(log, 1, k - 1) \in Seq(Entry)
        /\ Len(SubSeq(log, 1, k - 1)) = k - 1
        /\ \A i \in 1..k - 1 : SubSeq(log, 1, k - 1)[i] = log[i]
    OBVIOUS
  <1> QED
    BY <1>1 DEF TakenOver

\* AppendOwn adds one entry of the term at the end of the log.
LEMMA AppendOwnLog ==
    ASSUME TypeInv, NEW t \in 1..MaxTerm, NEW cmd \in Cmd, AppendOwn(t, cmd)
    PROVE  /\ log' \in Seq(Entry)
           /\ Len(log') = Len(log) + 1
           /\ Len(log') <= MaxIndex
           /\ \A i \in 1..Len(log) : log'[i] = log[i]
           /\ log'[Len(log) + 1] = [term |-> t, cmd |-> cmd]
           /\ commitIndex' \in {commitIndex, Len(log) + 1}
           /\ lastApplied' = lastApplied
           /\ running' = running
           /\ proposed' \subseteq [index : Index, term : 1..MaxTerm, cmd : Cmd]
           /\ applyCh' \in BOOLEAN
           /\ applier' = applier
  <1>1. [term |-> t, cmd |-> cmd] \in Entry
    BY DEF Entry
  <1>2. log \in Seq(Entry) /\ Len(log) + 1 \in Index
    BY BoundAssumption DEF TypeInv, TypeOK, Index, AppendOwn
  <1>3. log' = Append(log, [term |-> t, cmd |-> cmd])
    BY DEF AppendOwn
  <1>4. [index |-> Len(log) + 1, term |-> t, cmd |-> cmd]
          \in [index : Index, term : 1..MaxTerm, cmd : Cmd]
    BY <1>2
  <1>5. proposed' \subseteq [index : Index, term : 1..MaxTerm, cmd : Cmd]
    BY <1>4 DEF AppendOwn, TypeInv, TypeOK
  <1>6. applyCh' \in BOOLEAN
    BY AloneAssumption DEF AppendOwn, TypeInv, TypeOK
  <1> QED
    BY <1>1, <1>2, <1>3, <1>5, <1>6 DEF AppendOwn, Index

\* A request of another leader leaves the committed entries as they are.
LEMMA RequestLog ==
    ASSUME TypeInv, NEW t \in 1..MaxTerm,
           AppendEntries(t) \/ \E s \in Index : InstallSnapshot(t, s)
    PROVE  /\ log' \in Seq(Entry)
           /\ Len(log') <= MaxIndex
           /\ \A i \in 1..commitIndex : log'[i] = log[i]
           /\ commitIndex <= commitIndex' /\ commitIndex' <= Len(log')
           /\ lastApplied <= lastApplied' /\ lastApplied' <= commitIndex'
           /\ commitIndex' \in 0..MaxIndex /\ lastApplied' \in 0..MaxIndex
  <1>0. /\ log \in Seq(Entry) /\ Len(log) <= MaxIndex
        /\ commitIndex \in Nat /\ commitIndex <= Len(log)
        /\ lastApplied \in Nat /\ lastApplied <= commitIndex
    BY DEF TypeInv, TypeOK, Progress
  <1>1. CASE AppendEntries(t)
    <2>1. /\ log' \in Seq(Entry) /\ Len(log') <= MaxIndex /\ commitIndex <= Len(log')
          /\ \A i \in 1..commitIndex : log'[i] = log[i]
      <3>1. CASE UNCHANGED log
        BY <1>0, <3>1
      <3>2. ASSUME NEW k \in commitIndex + 1 .. Len(log) + 1, NEW e \in Entry,
                   k <= MaxIndex, log' = TakenOver(k, e)
            PROVE  <2>1!1 /\ <2>1!2
        <4>1. k \in 1..Len(log) + 1
          BY <1>0
        <4>2. /\ log' \in Seq(Entry) /\ Len(log') = k
              /\ \A i \in 1..k - 1 : log'[i] = log[i]
          BY <1>0, <3>2, <4>1, TakenOverLog
        <4> QED
          BY <1>0, <3>2, <4>2
      <3> QED
        BY <1>1, <3>1, <3>2 DEF AppendEntries
    <2>2. PICK i \in commitIndex .. Len(log') : Commit(i)
      BY <1>1 DEF AppendEntries
    <2> QED
      BY <1>0, <1>1, <2>1, <2>2, BoundAssumption DEF AppendEntries, Commit
  <1>2. ASSUME NEW s \in Index, InstallSnapshot(t, s)
        PROVE  /\ log' \in Seq(Entry)
               /\ Len(log') <= MaxIndex
               /\ \A i \in 1..commitIndex : log'[i] = log[i]
               /\ commitIndex <= commitIndex' /\ commitIndex' <= Len(log')
               /\ lastApplied <= lastApplied' /\ lastApplied' <= commitIndex'
               /\ commitIndex' \in 0..MaxIndex /\ lastApplied' \in 0..MaxIndex
    <2>0. s \in 1..MaxIndex
      BY DEF Index
    <2>1. /\ log' \in Seq(Entry) /\ Len(log') <= MaxIndex /\ s <= Len(log')
          /\ \A i \in 1..commitIndex : log'[i] = log[i]
      <3>1. CASE s <= Len(log) /\ log' = log
        BY <1>0, <3>1
      <3>2. CASE s <= Len(log) /\ log' = SubSeq(log, 1, s)
        <4>1. Len(log') >= commitIndex
          BY <1>2 DEF InstallSnapshot
        <4>2. /\ log' \in Seq(Entry) /\ Len(log') = s
              /\ \A i \in 1..s : log'[i] = log[i]
          BY <1>0, <2>0, <3>2
        <4> QED
          BY <1>0, <2>0, <4>1, <4>2
      <3>3. ASSUME NEW e \in Entry, s > commitIndex, s <= Len(log) + 1,
                   log' = TakenOver(s, e)
            PROVE  <2>1!1 /\ <2>1!2
        <4>1. s \in 1..Len(log) + 1
          BY <1>0, <2>0, <3>3
        <4>2. /\ log' \in Seq(Entry) /\ Len(log') = s
              /\ \A i \in 1..s - 1 : log'[i] = log[i]
          BY <1>0, <3>3, <4>1, TakenOverLog
        <4> QED
          BY <1>0, <2>0, <3>3, <4>2
      <3> QED
        BY <1>2, <3>1, <3>2, <3>3 DEF InstallSnapshot
    <2>2. /\ commitIndex' = IF s > commitIndex THEN s ELSE commitIndex
          /\ lastApplied' = IF s > lastApplied THEN s ELSE lastApplied
          /\ Len(log') >= commitIndex
      BY <1>2 DEF InstallSnapshot
    <2>3. Len(log') \in Nat
      BY <2>1
    <2> QED
      BY <1>0, <2>0, <2>1, <2>2, <2>3, BoundAssumption
  <1> QED
    BY <1>1, <1>2

-----------------------------------------------------------------------------
(***************************************************************************)
(* Type correctness, with the order of the indices.                        *)
(***************************************************************************)

\* failPending leaves no waiter, and its answer in the channels of those it had.
LEMMA FailPendingType ==
    ASSUME TypeInv, NEW answer \in {"lost", "stopped"}, failPending(answer)
    PROVE  /\ pending' = [i \in Index |-> None]
           /\ pending' \in [Index -> Call \cup {None}]
           /\ ch' \in [Call -> Cmd \cup {"empty", "lost", "stopped"}]
  BY DEF failPending, TypeInv, TypeOK

\* What a request of another leader does to the term, the role and the waiters.
LEMMA FollowLeaderType ==
    ASSUME TypeInv, NEW t \in 1..MaxTerm, FollowLeader(t)
    PROVE  /\ currentTerm' = t /\ currentTerm <= t
           /\ leading' \in BOOLEAN /\ ~leading'
           /\ leading => t > currentTerm
           /\ pending' \in [Index -> Call \cup {None}]
           /\ ch' \in [Call -> Cmd \cup {"empty", "lost", "stopped"}]
           /\ failPending("lost") \/ UNCHANGED waitVars
           /\ leading => failPending("lost")
  <1>1. /\ currentTerm' = t /\ leading' \in BOOLEAN /\ ~leading'
        /\ IF leading THEN t > currentTerm ELSE t >= currentTerm
        /\ IF t > currentTerm THEN failPending("lost") ELSE UNCHANGED waitVars
    BY DEF FollowLeader
  <1>2. currentTerm \in Nat /\ t \in Nat
    BY DEF TypeInv, TypeOK
  <1>3. CASE t > currentTerm
    BY <1>1, <1>2, <1>3, FailPendingType
  <1>4. CASE ~(t > currentTerm)
    BY <1>1, <1>2, <1>4 DEF waitVars, TypeInv, TypeOK
  <1> QED
    BY <1>3, <1>4

LEMMA ClusterType ==
    ASSUME TypeInv, Cluster
    PROVE  TypeInv'
  <1>0. TypeOK /\ Progress
    BY DEF TypeInv
  <1>1. ASSUME NEW t \in 1..MaxTerm, BecomeLeader(t)
        PROVE  TypeInv'
    <2>1. AppendOwn(t, "noop") /\ "noop" \in Cmd
      BY <1>1 DEF BecomeLeader, Cmd
    <2>2. /\ log' \in Seq(Entry) /\ Len(log') <= MaxIndex /\ Len(log') = Len(log) + 1
          /\ commitIndex' \in {commitIndex, Len(log) + 1} /\ lastApplied' = lastApplied
          /\ running' = running /\ applyCh' \in BOOLEAN /\ applier' = applier
          /\ proposed' \subseteq [index : Index, term : 1..MaxTerm, cmd : Cmd]
      BY <2>1, AppendOwnLog
    <2>3. /\ leading' = TRUE /\ currentTerm' = t
          /\ UNCHANGED <<pc, slot, reply, pending, ch>>
      BY <1>1 DEF BecomeLeader, callVars, waitVars
    <2> QED
      BY <1>0, <2>2, <2>3 DEF TypeInv, TypeOK, Progress
  <1>2. ASSUME NEW t \in 1..MaxTerm, StepDown(t)
        PROVE  TypeInv'
    <2>1. /\ pending' \in [Index -> Call \cup {None}]
          /\ ch' \in [Call -> Cmd \cup {"empty", "lost", "stopped"}]
      BY <1>2, FailPendingType DEF StepDown
    <2>2. leading' \in BOOLEAN /\ ~leading'
      BY <1>2 DEF StepDown
    <2>3. /\ currentTerm' = t
          /\ UNCHANGED <<log, commitIndex, lastApplied, proposed, applyCh, applier,
                         running, pc, slot, reply>>
      BY <1>2 DEF StepDown, loopVars, callVars
    <2> QED
      BY <1>0, <2>1, <2>2, <2>3 DEF TypeInv, TypeOK, Progress
  <1>3. ASSUME NEW t \in 1..MaxTerm,
               AppendEntries(t) \/ \E s \in Index : InstallSnapshot(t, s)
        PROVE  TypeInv'
    <2>1. FollowLeader(t)
      BY <1>3 DEF AppendEntries, InstallSnapshot
    <2>2. /\ currentTerm' = t /\ leading' \in BOOLEAN /\ ~leading'
          /\ pending' \in [Index -> Call \cup {None}]
          /\ ch' \in [Call -> Cmd \cup {"empty", "lost", "stopped"}]
      BY <2>1, FollowLeaderType
    <2>3. /\ log' \in Seq(Entry) /\ Len(log') <= MaxIndex
          /\ commitIndex' <= Len(log') /\ lastApplied' <= commitIndex'
          /\ commitIndex' \in 0..MaxIndex /\ lastApplied' \in 0..MaxIndex
      BY <1>3, RequestLog
    <2>4. /\ UNCHANGED <<proposed, applier, running, pc, slot, reply>>
          /\ applyCh' \in BOOLEAN
      BY <1>0, <1>3 DEF AppendEntries, InstallSnapshot, Commit, loopVars, callVars, TypeOK
    <2> QED
      BY <1>0, <2>2, <2>3, <2>4 DEF TypeInv, TypeOK, Progress
  <1>4. ASSUME NEW i \in Index, AdvanceCommit(i)
        PROVE  TypeInv'
    <2>1. /\ commitIndex' = i /\ i > commitIndex /\ i <= Len(log) /\ i \in 0..MaxIndex
          /\ UNCHANGED <<leading, currentTerm, log, lastApplied, proposed, applier,
                         running, pc, slot, reply, pending, ch>>
      BY <1>4, BoundAssumption DEF AdvanceCommit, Commit, callVars, waitVars, Index
    <2>2. applyCh' \in BOOLEAN
      BY <1>0, <1>4 DEF AdvanceCommit, Commit, TypeOK
    <2> QED
      BY <1>0, <2>1, <2>2 DEF TypeInv, TypeOK, Progress
  <1> QED
    BY <1>1, <1>2, <1>3, <1>4 DEF Cluster

LEMMA CallerType ==
    ASSUME TypeInv, NEW c \in Call, Caller(c)
    PROVE  TypeInv'
  <1>0. TypeOK /\ Progress
    BY DEF TypeInv
  <1>1. CASE Submit(c)
    <2>1. /\ AppendOwn(currentTerm, c) /\ c \in Cmd /\ leading
          /\ currentTerm \in 1..MaxTerm
      BY <1>0, <1>1 DEF Submit, Cmd, TypeOK, Progress
    <2>2. /\ log' \in Seq(Entry) /\ Len(log') <= MaxIndex /\ Len(log') = Len(log) + 1
          /\ commitIndex' \in {commitIndex, Len(log) + 1} /\ lastApplied' = lastApplied
          /\ running' = running /\ applyCh' \in BOOLEAN /\ applier' = applier
          /\ proposed' \subseteq [index : Index, term : 1..MaxTerm, cmd : Cmd]
      BY <2>1, AppendOwnLog
    <2>3. [index |-> Len(log) + 1, term |-> currentTerm]
            \in [index : 0..MaxIndex, term : 0..MaxTerm]
      BY <1>0, <2>1, <2>2, BoundAssumption DEF TypeOK
    <2>4. slot' \in [Call -> [index : 0..MaxIndex, term : 0..MaxTerm]]
      BY <1>0, <1>1, <2>3 DEF Submit, TypeOK
    <2>5. /\ pending' \in [Index -> Call \cup {None}]
          /\ pc' \in [Call -> {"idle", "waiting", "cancelling", "done"}]
      BY <1>0, <1>1 DEF Submit, Register, TypeOK
    <2>6. UNCHANGED <<leading, currentTerm, reply, ch>>
      BY <1>1 DEF Submit
    <2> QED
      BY <1>0, <2>2, <2>4, <2>5, <2>6 DEF TypeInv, TypeOK, Progress
  <1>2. CASE SubmitRefused(c)
    BY <1>0, <1>2 DEF SubmitRefused, TypeInv, TypeOK, Progress, raftVars, loopVars, waitVars
  <1>3. CASE TakeAnswer(c)
    BY <1>0, <1>3 DEF TakeAnswer, TypeInv, TypeOK, Progress, raftVars, loopVars
  <1>4. CASE SeeStop(c)
    BY <1>0, <1>4 DEF SeeStop, TypeInv, TypeOK, Progress, raftVars, loopVars
  <1>5. CASE SeeCancel(c)
    BY <1>0, <1>5 DEF SeeCancel, TypeInv, TypeOK, Progress, raftVars, loopVars, waitVars
  <1>6. CASE ForgetWaiter(c)
    BY <1>0, <1>6 DEF ForgetWaiter, TypeInv, TypeOK, Progress, raftVars, loopVars
  <1> QED
    BY <1>1, <1>2, <1>3, <1>4, <1>5, <1>6 DEF Caller

\* What applyReady sends is the command of an entry, or "lost".
LEMMA AnswerType ==
    ASSUME TypeInv, NEW c \in Call, NEW i \in 1..Len(log)
    PROVE  AnswerAt(c, i) \in Cmd \cup {"lost"}
  <1>1. log[i] \in Entry
    BY DEF TypeInv, TypeOK
  <1> QED
    BY <1>1 DEF AnswerAt, Entry

LEMMA ApplyReadyType ==
    ASSUME TypeInv, ApplyReady
    PROVE  TypeInv'
  <1> DEFINE S == lastApplied + 1 .. commitIndex
  <1>0. TypeOK /\ Progress
    BY DEF TypeInv
  <1>1. AnswerWaiters(S)
    BY DEF ApplyReady
  <1>2. S \subseteq 1..Len(log)
    BY <1>0 DEF TypeOK, Progress
  <1>3. \A c \in Call : (\E i \in S : pending[i] = c) =>
           AnswerAt(c, CHOOSE i \in S : pending[i] = c) \in Cmd \cup {"lost"}
    <2> SUFFICES ASSUME NEW c \in Call, \E i \in S : pending[i] = c
                 PROVE  AnswerAt(c, CHOOSE i \in S : pending[i] = c) \in Cmd \cup {"lost"}
      OBVIOUS
    <2>1. (CHOOSE i \in S : pending[i] = c) \in 1..Len(log)
      BY <1>2
    <2> QED
      BY <2>1, AnswerType
  <1> HIDE DEF S
  <1>4. ch' \in [Call -> Cmd \cup {"empty", "lost", "stopped"}]
    BY <1>0, <1>1, <1>3 DEF AnswerWaiters, TypeOK
  <1>5. pending' \in [Index -> Call \cup {None}]
    BY <1>0, <1>1 DEF AnswerWaiters, TypeOK
  <1>6. /\ lastApplied' = commitIndex /\ applier' = "idle"
        /\ UNCHANGED <<leading, currentTerm, log, commitIndex, proposed, applyCh,
                       running, pc, slot, reply>>
    BY DEF ApplyReady, callVars
  <1> QED
    BY <1>0, <1>4, <1>5, <1>6 DEF TypeInv, TypeOK, Progress

LEMMA NextType ==
    ASSUME TypeInv, [Next]_vars
    PROVE  TypeInv'
  <1>0. TypeOK /\ Progress
    BY DEF TypeInv
  <1>1. CASE Cluster
    BY <1>1, ClusterType
  <1>2. ASSUME NEW c \in Call, Caller(c)
        PROVE  TypeInv'
    BY <1>2, CallerType
  <1>3. CASE Propose
    <2>1. AppendOwn(currentTerm, "other") /\ "other" \in Cmd /\ currentTerm \in 1..MaxTerm
      BY <1>0, <1>3 DEF Propose, Cmd, TypeOK, Progress
    <2>2. /\ log' \in Seq(Entry) /\ Len(log') <= MaxIndex /\ Len(log') = Len(log) + 1
          /\ commitIndex' \in {commitIndex, Len(log) + 1} /\ lastApplied' = lastApplied
          /\ running' = running /\ applyCh' \in BOOLEAN /\ applier' = applier
          /\ proposed' \subseteq [index : Index, term : 1..MaxTerm, cmd : Cmd]
      BY <2>1, AppendOwnLog
    <2>3. UNCHANGED <<leading, currentTerm, pc, slot, reply, pending, ch>>
      BY <1>3 DEF Propose, callVars, waitVars
    <2> QED
      BY <1>0, <2>2, <2>3 DEF TypeInv, TypeOK, Progress
  <1>4. CASE WakeApplier
    BY <1>0, <1>4 DEF WakeApplier, TypeInv, TypeOK, Progress, raftVars, callVars, waitVars
  <1>5. CASE ApplyReady
    BY <1>5, ApplyReadyType
  <1>6. CASE Stop
    <2>1. /\ pending' \in [Index -> Call \cup {None}]
          /\ ch' \in [Call -> Cmd \cup {"empty", "lost", "stopped"}]
      BY <1>6, FailPendingType DEF Stop
    <2> QED
      BY <1>0, <1>6, <2>1 DEF Stop, TypeInv, TypeOK, Progress, raftVars, callVars
  <1>7. CASE UNCHANGED vars
    BY <1>0, <1>7 DEF vars, raftVars, loopVars, callVars, waitVars, TypeInv, TypeOK, Progress
  <1> QED
    BY <1>1, <1>2, <1>3, <1>4, <1>5, <1>6, <1>7 DEF Next

-----------------------------------------------------------------------------
(***************************************************************************)
(* Facts the steps below share.                                            *)
(***************************************************************************)

\* An entry once committed stays where it is, and no applied entry is undone.
LEMMA LogKept ==
    ASSUME TypeInv, [Next]_vars
    PROVE  /\ \A i \in 1..commitIndex : log'[i] = log[i]
           /\ lastApplied <= lastApplied'
  <1>0. /\ log \in Seq(Entry) /\ commitIndex \in Nat /\ lastApplied \in Nat
        /\ commitIndex <= Len(log) /\ lastApplied <= commitIndex
        /\ leading => currentTerm \in 1..MaxTerm
    BY DEF TypeInv, TypeOK, Progress
  <1>1. ASSUME NEW t \in 1..MaxTerm, NEW cmd \in Cmd, AppendOwn(t, cmd)
        PROVE  /\ \A i \in 1..commitIndex : log'[i] = log[i]
               /\ lastApplied <= lastApplied'
    <2>1. (\A i \in 1..Len(log) : log'[i] = log[i]) /\ lastApplied' = lastApplied
      BY <1>1, AppendOwnLog
    <2> QED
      BY <1>0, <2>1
  <1>2. CASE Cluster
    <2>1. ASSUME NEW t \in 1..MaxTerm, BecomeLeader(t)
          PROVE  AppendOwn(t, "noop") /\ "noop" \in Cmd
      BY <2>1 DEF BecomeLeader, Cmd
    <2>2. ASSUME NEW t \in 1..MaxTerm, StepDown(t)
          PROVE  UNCHANGED <<log, lastApplied>>
      BY <2>2 DEF StepDown
    <2>3. ASSUME NEW i \in Index, AdvanceCommit(i)
          PROVE  UNCHANGED <<log, lastApplied>>
      BY <2>3 DEF AdvanceCommit
    <2> QED
      BY <1>0, <1>1, <1>2, <2>1, <2>2, <2>3, RequestLog DEF Cluster
  <1>3. ASSUME NEW c \in Call, Caller(c)
        PROVE  /\ \A i \in 1..commitIndex : log'[i] = log[i]
               /\ lastApplied <= lastApplied'
    <2>1. CASE Submit(c)
      <3>1. AppendOwn(currentTerm, c) /\ leading /\ c \in Cmd
        BY <2>1 DEF Submit, Cmd
      <3> QED
        BY <1>0, <1>1, <3>1
    <2>2. CASE ~Submit(c)
      BY <1>0, <1>3, <2>2 DEF Caller, SubmitRefused, TakeAnswer, SeeStop, SeeCancel,
                             ForgetWaiter, raftVars
    <2> QED
      BY <2>1, <2>2
  <1>4. CASE Propose
    <2>1. AppendOwn(currentTerm, "other") /\ leading /\ "other" \in Cmd
      BY <1>4 DEF Propose, Cmd
    <2> QED
      BY <1>0, <1>1, <2>1
  <1>5. CASE WakeApplier \/ ApplyReady \/ Stop \/ UNCHANGED vars
    BY <1>0, <1>5 DEF WakeApplier, ApplyReady, Stop, vars, raftVars
  <1> QED
    BY <1>2, <1>3, <1>4, <1>5 DEF Next

\* Only a call that Submit has placed can be registered.
LEMMA RegisteredPlaced ==
    ASSUME Inv, NEW c \in Call, NEW i \in Index, pending[i] = c
    PROVE  /\ leading /\ ch[c] = "empty" /\ pc[c] # "idle"
           /\ slot[c] = [index |-> i, term |-> currentTerm]
           /\ i > lastApplied /\ i <= Len(log)
           /\ log[i] = [term |-> currentTerm, cmd |-> c]
  <1>1. /\ leading /\ ch[c] = "empty"
        /\ slot[c] = [index |-> i, term |-> currentTerm]
        /\ i > lastApplied /\ i <= Len(log)
        /\ log[i] = [term |-> currentTerm, cmd |-> c]
    BY DEF Inv, WaitersAreCurrent
  <1>2. slot[c].index # 0
    BY <1>1 DEF Index
  <1>3. pc[c] # "idle"
    BY <1>2 DEF Inv, CallsFit
  <1> QED
    BY <1>1, <1>3

\* failPending answers exactly the registered calls.
LEMMA FailPendingAnswers ==
    ASSUME Inv, NEW answer \in {"lost", "stopped"}, failPending(answer)
    PROVE  /\ \A i \in Index : pending'[i] = None
           /\ \A c \in Call : ch'[c] = IF Registered(c) THEN answer ELSE ch[c]
           /\ \A c \in Call : pc[c] = "idle" => ch'[c] = ch[c]
  <1>1. \A c \in Call : Registered(c) => ch[c] = "empty" /\ pc[c] # "idle"
    BY RegisteredPlaced DEF Registered
  <1>2. \A c \in Call : ch'[c] = IF Registered(c) THEN answer ELSE ch[c]
    BY <1>1 DEF failPending
  <1>3. \A i \in Index : pending'[i] = None
    BY DEF failPending
  <1> QED
    BY <1>1, <1>2, <1>3

\* applyReady answers the calls registered for the entries it has applied, each
\* with its own command.
LEMMA ApplyReadyAnswers ==
    ASSUME Inv, ApplyReady
    PROVE  /\ \A i \in Index : pending'[i] = IF i \in lastApplied + 1 .. commitIndex
                                             THEN None ELSE pending[i]
           /\ \A c \in Call : \/ ch'[c] = ch[c]
                                 /\ \A i \in lastApplied + 1 .. commitIndex : pending[i] # c
                              \/ /\ ch'[c] = c
                                 /\ slot[c].index \in lastApplied + 1 .. commitIndex
                                 /\ log[slot[c].index] = [term |-> slot[c].term, cmd |-> c]
                                 /\ pc[c] # "idle"
  <1> DEFINE S == lastApplied + 1 .. commitIndex
  <1>1. AnswerWaiters(S)
    BY DEF ApplyReady
  <1>2. S \subseteq Index
    BY BoundAssumption DEF Inv, TypeInv, TypeOK, Progress, Index
  <1>3. \A i \in Index : pending'[i] = IF i \in S THEN None ELSE pending[i]
    BY <1>1 DEF AnswerWaiters
  <1>4. ASSUME NEW c \in Call, NEW i \in S, pending[i] = c
        PROVE  /\ ch'[c] = c
               /\ slot[c].index \in S
               /\ log[slot[c].index] = [term |-> slot[c].term, cmd |-> c]
               /\ pc[c] # "idle"
    <2> DEFINE j == CHOOSE k \in S : pending[k] = c
    <2>1. j \in S /\ pending[j] = c
      BY <1>4
    <2>2. j \in Index
      BY <1>2, <2>1
    <2>3. ch'[c] = AnswerAt(c, j)
      BY <1>1, <1>4 DEF AnswerWaiters
    <2> HIDE DEF j, S
    <2>4. /\ slot[c] = [index |-> j, term |-> currentTerm] /\ pc[c] # "idle"
          /\ log[j] = [term |-> currentTerm, cmd |-> c]
      BY <2>1, <2>2, RegisteredPlaced
    <2>5. AnswerAt(c, j) = c
      BY <2>4 DEF AnswerAt
    <2> QED
      BY <2>1, <2>3, <2>4, <2>5
  <1>5. ASSUME NEW c \in Call, \A i \in S : pending[i] # c
        PROVE  ch'[c] = ch[c]
    BY <1>1, <1>5 DEF AnswerWaiters
  <1>6. \A c \in Call : \/ \E i \in S : pending[i] = c
                        \/ \A i \in S : pending[i] # c
    OBVIOUS
  <1> QED
    BY <1>3, <1>4, <1>5, <1>6, Zenon

-----------------------------------------------------------------------------
(***************************************************************************)
(* The calls and their slots.                                              *)
(***************************************************************************)

\* What keeps CallsFit and SlotsDistinct: the calls are left alone but for
\* channels of calls that have been placed, terms only grow, and a leadership
\* that goes on does not shorten its log.
LEMMA CallsKept ==
    ASSUME Inv, UNCHANGED <<pc, slot, reply>>,
           \A c \in Call : pc[c] = "idle" => ch'[c] = ch[c],
           currentTerm' \in Nat, currentTerm <= currentTerm', Len(log') \in Nat,
           (leading' /\ currentTerm' = currentTerm) => (leading /\ Len(log) <= Len(log'))
    PROVE  CallsFit' /\ SlotsDistinct'
  <1>1. /\ CallsFit /\ SlotsDistinct
        /\ currentTerm \in Nat /\ Len(log) \in Nat
        /\ \A c \in Call : slot[c].term \in Nat /\ slot[c].index \in Nat
    BY DEF Inv, TypeInv, TypeOK
  <1>2. SlotsDistinct'
    BY <1>1 DEF SlotsDistinct
  <1>3. ASSUME NEW c \in Call
        PROVE  /\ pc'[c] = "idle" => slot'[c].index = 0 /\ ch'[c] = "empty"
               /\ pc'[c] # "done" => reply'[c] = "empty"
               /\ slot'[c].term <= currentTerm'
    BY <1>1 DEF CallsFit
  <1>4. ASSUME NEW c \in Call, leading', slot'[c].term = currentTerm'
        PROVE  slot'[c].index <= Len(log')
    <2>1. currentTerm' = currentTerm
      BY <1>1, <1>4 DEF CallsFit
    <2>2. leading /\ Len(log) <= Len(log') /\ slot[c].index <= Len(log)
      BY <1>1, <1>4, <2>1 DEF CallsFit
    <2> QED
      BY <1>1, <2>2
  <1> QED
    BY <1>2, <1>3, <1>4 DEF CallsFit

LEMMA SubmitCalls ==
    ASSUME Inv, NEW c \in Call, Submit(c)
    PROVE  CallsFit' /\ SlotsDistinct'
  <1>0. /\ TypeOK /\ Progress /\ CallsFit /\ SlotsDistinct
        /\ currentTerm \in Nat /\ Len(log) \in Nat
        /\ \A d \in Call : slot[d].term \in Nat /\ slot[d].index \in Nat
    BY DEF Inv, TypeInv, TypeOK
  <1>1. /\ AppendOwn(currentTerm, c) /\ c \in Cmd /\ leading
        /\ currentTerm \in 1..MaxTerm /\ pc[c] = "idle"
        /\ UNCHANGED <<leading, currentTerm, reply, ch>>
        /\ pc' = [pc EXCEPT ![c] = "waiting"]
        /\ slot' = [slot EXCEPT ![c] = [index |-> Len(log) + 1, term |-> currentTerm]]
    BY <1>0 DEF Submit, Cmd, TypeOK, Progress
  <1>2. Len(log') = Len(log) + 1
    BY <1>1, AppendOwnLog DEF Inv
  <1>3. /\ \A d \in Call \ {c} : slot'[d] = slot[d] /\ pc'[d] = pc[d]
        /\ slot'[c] = [index |-> Len(log) + 1, term |-> currentTerm]
        /\ pc'[c] = "waiting"
    BY <1>0, <1>1 DEF TypeOK
  <1>4. \A d \in Call : slot[d].term = currentTerm => slot[d].index <= Len(log)
    BY <1>0, <1>1 DEF CallsFit
  <1>5. CallsFit'
    <2>1. ASSUME NEW d \in Call \ {c}
          PROVE  /\ pc'[d] = "idle" => slot'[d].index = 0 /\ ch'[d] = "empty"
                 /\ pc'[d] # "done" => reply'[d] = "empty"
                 /\ slot'[d].term <= currentTerm'
                 /\ leading' /\ slot'[d].term = currentTerm' => slot'[d].index <= Len(log')
      BY <1>0, <1>1, <1>2, <1>3, <1>4 DEF CallsFit
    <2>2. /\ pc'[c] = "idle" => slot'[c].index = 0 /\ ch'[c] = "empty"
          /\ pc'[c] # "done" => reply'[c] = "empty"
          /\ slot'[c].term <= currentTerm'
          /\ leading' /\ slot'[c].term = currentTerm' => slot'[c].index <= Len(log')
      BY <1>0, <1>1, <1>2, <1>3 DEF CallsFit
    <2> QED
      BY <2>1, <2>2 DEF CallsFit
  <1>6. SlotsDistinct'
    <2>1. \A d \in Call \ {c} : slot'[d] # slot'[c]
      BY <1>0, <1>3, <1>4
    <2> QED
      BY <1>0, <1>3, <2>1 DEF SlotsDistinct
  <1> QED
    BY <1>5, <1>6

\* Submit gives a call its slot; its end leaves the slot as it is.
LEMMA CallerCalls ==
    ASSUME Inv, NEW c \in Call, Caller(c)
    PROVE  CallsFit' /\ SlotsDistinct'
  <1>0. /\ CallsFit /\ SlotsDistinct
        /\ pc \in [Call -> {"idle", "waiting", "cancelling", "done"}]
        /\ ch \in [Call -> Cmd \cup {"empty", "lost", "stopped"}]
        /\ reply \in [Call -> Cmd \cup {"empty", "lost", "stopped", "cancelled", "notLeader"}]
    BY DEF Inv, TypeInv, TypeOK
  <1>1. CASE Submit(c)
    BY <1>1, SubmitCalls
  <1>2. CASE ~Submit(c)
    <2>1. /\ UNCHANGED <<slot, leading, currentTerm, log>>
          /\ \A d \in Call \ {c} : pc'[d] = pc[d] /\ ch'[d] = ch[d] /\ reply'[d] = reply[d]
          /\ \/ pc'[c] = "done"
             \/ pc'[c] = "cancelling" /\ reply'[c] = reply[c] /\ pc[c] # "done"
      <3>1. CASE SubmitRefused(c)
        <4>1. /\ UNCHANGED <<slot, leading, currentTerm, log, ch>>
              /\ pc' = [pc EXCEPT ![c] = "done"]
              /\ reply' = [reply EXCEPT ![c] = "notLeader"]
          BY <3>1 DEF SubmitRefused, raftVars, waitVars
        <4> QED
          BY <1>0, <4>1
      <3>2. CASE TakeAnswer(c) \/ SeeStop(c) \/ ForgetWaiter(c)
        <4>1. PICK a : /\ UNCHANGED <<slot, leading, currentTerm, log>>
                       /\ pc' = [pc EXCEPT ![c] = "done"]
                       /\ reply' = [reply EXCEPT ![c] = a]
                       /\ ch' = [ch EXCEPT ![c] = "empty"]
          BY <3>2 DEF TakeAnswer, SeeStop, ForgetWaiter, raftVars
        <4> QED
          BY <1>0, <4>1
      <3>3. CASE SeeCancel(c)
        BY <1>0, <3>3 DEF SeeCancel, raftVars, waitVars
      <3> QED
        BY <1>2, <3>1, <3>2, <3>3 DEF Caller
    <2> QED
      BY <1>0, <2>1 DEF CallsFit, SlotsDistinct
  <1> QED
    BY <1>1, <1>2

LEMMA NextCalls ==
    ASSUME Inv, [Next]_vars
    PROVE  CallsFit' /\ SlotsDistinct'
  <1>0. /\ TypeInv /\ TypeInv'
        /\ currentTerm \in Nat /\ currentTerm' \in Nat /\ Len(log) \in Nat /\ Len(log') \in Nat
        /\ leading => currentTerm \in 1..MaxTerm
    <2>1. TypeInv /\ TypeInv'
      BY NextType DEF Inv
    <2> QED
      BY <2>1 DEF TypeInv, TypeOK, Progress
  <1>1. ASSUME NEW t \in 1..MaxTerm, BecomeLeader(t)
        PROVE  CallsFit' /\ SlotsDistinct'
    <2>1. /\ UNCHANGED <<pc, slot, reply, ch>>
          /\ currentTerm <= currentTerm' /\ currentTerm' # currentTerm
      BY <1>0, <1>1 DEF BecomeLeader, callVars, waitVars
    <2> QED
      BY <1>0, <2>1, CallsKept
  <1>2. ASSUME NEW t \in 1..MaxTerm, StepDown(t)
        PROVE  CallsFit' /\ SlotsDistinct'
    BY <1>0, <1>2, CallsKept, FailPendingAnswers DEF StepDown, callVars
  <1>3. ASSUME NEW t \in 1..MaxTerm,
               AppendEntries(t) \/ \E s \in Index : InstallSnapshot(t, s)
        PROVE  CallsFit' /\ SlotsDistinct'
    <2>1. FollowLeader(t) /\ UNCHANGED <<pc, slot, reply>>
      BY <1>3 DEF AppendEntries, InstallSnapshot, callVars
    <2>2. currentTerm <= currentTerm' /\ ~leading' /\ (failPending("lost") \/ ch' = ch)
      BY <1>0, <2>1, FollowLeaderType DEF waitVars
    <2> QED
      BY <1>0, <2>1, <2>2, CallsKept, FailPendingAnswers
  <1>4. ASSUME NEW i \in Index, AdvanceCommit(i)
        PROVE  CallsFit' /\ SlotsDistinct'
    BY <1>0, <1>4, CallsKept DEF AdvanceCommit, callVars, waitVars
  <1>5. ASSUME NEW c \in Call, Caller(c)
        PROVE  CallsFit' /\ SlotsDistinct'
    BY <1>5, CallerCalls
  <1>6. CASE Propose
    <2>1. AppendOwn(currentTerm, "other") /\ "other" \in Cmd /\ leading
      BY <1>6 DEF Propose, Cmd
    <2>2. Len(log') = Len(log) + 1
      BY <1>0, <2>1, AppendOwnLog
    <2> QED
      BY <1>0, <1>6, <2>2, CallsKept DEF Propose, callVars, waitVars
  <1>7. CASE ApplyReady
    <2>1. \A c \in Call : pc[c] = "idle" => ch'[c] = ch[c]
      BY <1>7, ApplyReadyAnswers
    <2>2. UNCHANGED <<pc, slot, reply, leading, currentTerm, log>>
      BY <1>7 DEF ApplyReady, callVars
    <2> QED
      BY <1>0, <2>1, <2>2, CallsKept
  <1>8. CASE Stop
    BY <1>0, <1>8, CallsKept, FailPendingAnswers DEF Stop, raftVars, callVars
  <1>9. CASE WakeApplier \/ UNCHANGED vars
    BY <1>0, <1>9, CallsKept DEF WakeApplier, vars, raftVars, callVars, waitVars
  <1> QED
    BY <1>1, <1>2, <1>3, <1>4, <1>5, <1>6, <1>7, <1>8, <1>9 DEF Next, Cluster

-----------------------------------------------------------------------------
(***************************************************************************)
(* The waiters.                                                            *)
(***************************************************************************)

\* A node that does not lead has no waiters, and keeps none when it is deposed.
LEMMA NoWaiters ==
    ASSUME \A i \in Index : pending'[i] = None
    PROVE  WaitersAreCurrent'
  BY CallAssumption DEF WaitersAreCurrent

\* Waiters are not disturbed by what only adds to the log of their leadership.
LEMMA WaitersKept ==
    ASSUME Inv, leading => leading' /\ currentTerm' = currentTerm,
           lastApplied' = lastApplied, Len(log') \in Nat, Len(log) <= Len(log'),
           \A i \in 1..Len(log) : log'[i] = log[i],
           UNCHANGED <<pending, slot, ch>>
    PROVE  WaitersAreCurrent'
  <1> SUFFICES ASSUME NEW i \in Index, NEW c \in Call, pending[i] = c
               PROVE  /\ leading'
                      /\ slot[c] = [index |-> i, term |-> currentTerm']
                      /\ i > lastApplied
                      /\ i <= Len(log') /\ log'[i] = [term |-> currentTerm', cmd |-> c]
                      /\ ch[c] = "empty"
    BY DEF WaitersAreCurrent
  <1>1. /\ leading /\ ch[c] = "empty"
        /\ slot[c] = [index |-> i, term |-> currentTerm]
        /\ i > lastApplied /\ i <= Len(log)
        /\ log[i] = [term |-> currentTerm, cmd |-> c]
    BY RegisteredPlaced
  <1>2. i \in Nat /\ i > 0 /\ Len(log) \in Nat
    BY DEF Index, Inv, TypeInv, TypeOK
  <1> QED
    BY <1>1, <1>2

LEMMA SubmitWaiters ==
    ASSUME Inv, NEW c \in Call, Submit(c)
    PROVE  WaitersAreCurrent'
  <1>0. TypeInv /\ TypeOK /\ Progress /\ Len(log) \in Nat /\ lastApplied \in Nat
    BY DEF Inv, TypeInv, TypeOK
  <1>1. /\ AppendOwn(currentTerm, c) /\ c \in Cmd /\ leading
        /\ currentTerm \in 1..MaxTerm /\ pc[c] = "idle" /\ ch[c] = "empty"
        /\ UNCHANGED <<leading, currentTerm, ch>>
        /\ pending' = [pending EXCEPT ![Len(log) + 1] = c]
        /\ slot' = [slot EXCEPT ![c] = [index |-> Len(log) + 1, term |-> currentTerm]]
    BY <1>0 DEF Inv, CallsFit, Submit, Register, Cmd, TypeOK, Progress
  <1>2. /\ Len(log') = Len(log) + 1 /\ lastApplied' = lastApplied
        /\ \A i \in 1..Len(log) : log'[i] = log[i]
        /\ log'[Len(log) + 1] = [term |-> currentTerm, cmd |-> c]
    BY <1>0, <1>1, AppendOwnLog
  <1> SUFFICES ASSUME NEW i \in Index, NEW d \in Call, pending'[i] = d
               PROVE  /\ leading
                      /\ slot'[d] = [index |-> i, term |-> currentTerm]
                      /\ i > lastApplied
                      /\ i <= Len(log') /\ log'[i] = [term |-> currentTerm, cmd |-> d]
                      /\ ch[d] = "empty"
    BY <1>1, <1>2 DEF WaitersAreCurrent
  <1>3. CASE i = Len(log) + 1
    <2>1. d = c
      BY <1>0, <1>1, <1>3 DEF TypeOK
    <2> QED
      BY <1>0, <1>1, <1>2, <1>3, <2>1 DEF TypeOK, Progress
  <1>4. CASE i # Len(log) + 1
    <2>1. pending[i] = d
      BY <1>0, <1>1, <1>4 DEF TypeOK
    <2>2. /\ leading /\ ch[d] = "empty" /\ pc[d] # "idle"
          /\ slot[d] = [index |-> i, term |-> currentTerm]
          /\ i > lastApplied /\ i <= Len(log)
          /\ log[i] = [term |-> currentTerm, cmd |-> d]
      BY <2>1, RegisteredPlaced
    <2>3. d # c /\ i \in 1..Len(log)
      BY <1>0, <1>1, <2>2 DEF Index
    <2> QED
      BY <1>0, <1>1, <1>2, <2>2, <2>3 DEF TypeOK
  <1> QED
    BY <1>3, <1>4

LEMMA NextWaiters ==
    ASSUME Inv, [Next]_vars
    PROVE  WaitersAreCurrent'
  <1>0. /\ TypeInv /\ TypeOK /\ Len(log) \in Nat /\ Len(log') \in Nat
        /\ leading => currentTerm \in 1..MaxTerm
    <2>1. TypeInv /\ TypeInv'
      BY NextType DEF Inv
    <2> QED
      BY <2>1 DEF TypeInv, TypeOK, Progress
  <1>1. ASSUME ~leading
        PROVE  \A i \in Index : pending[i] = None
    BY <1>0, <1>1, RegisteredPlaced DEF TypeOK
  <1>2. ASSUME NEW t \in 1..MaxTerm, BecomeLeader(t)
        PROVE  WaitersAreCurrent'
    BY <1>1, <1>2, NoWaiters DEF BecomeLeader, waitVars
  <1>3. ASSUME NEW t \in 1..MaxTerm, StepDown(t)
        PROVE  WaitersAreCurrent'
    BY <1>3, NoWaiters, FailPendingAnswers DEF StepDown
  <1>4. ASSUME NEW t \in 1..MaxTerm,
               AppendEntries(t) \/ \E s \in Index : InstallSnapshot(t, s)
        PROVE  WaitersAreCurrent'
    <2>1. FollowLeader(t)
      BY <1>4 DEF AppendEntries, InstallSnapshot
    <2>2. /\ failPending("lost") \/ pending' = pending
          /\ leading => failPending("lost")
      BY <1>0, <2>1, FollowLeaderType DEF waitVars
    <2> QED
      BY <1>1, <2>2, NoWaiters, FailPendingAnswers
  <1>5. ASSUME NEW i \in Index, AdvanceCommit(i)
        PROVE  WaitersAreCurrent'
    BY <1>0, <1>5, WaitersKept DEF AdvanceCommit, callVars, waitVars
  <1>6. ASSUME NEW c \in Call, Caller(c)
        PROVE  WaitersAreCurrent'
    <2>1. CASE Submit(c)
      BY <2>1, SubmitWaiters
    <2>2. CASE ~Submit(c)
      <3>1. /\ UNCHANGED <<slot, leading, currentTerm, log, lastApplied>>
            /\ \A d \in Call : ch'[d] \in {ch[d], "empty"}
            /\ \A i \in Index : pending'[i] \in {pending[i], None}
        BY <1>0, <1>6, <2>2 DEF Caller, SubmitRefused, TakeAnswer, SeeStop, SeeCancel,
             ForgetWaiter, raftVars, loopVars, waitVars, TypeOK
      <3> QED
        BY <3>1, CallAssumption DEF Inv, WaitersAreCurrent
    <2> QED
      BY <2>1, <2>2
  <1>7. CASE Propose
    <2>1. AppendOwn(currentTerm, "other") /\ "other" \in Cmd /\ leading
      BY <1>7 DEF Propose, Cmd
    <2>2. /\ Len(log') = Len(log) + 1 /\ lastApplied' = lastApplied
          /\ \A i \in 1..Len(log) : log'[i] = log[i]
      BY <1>0, <2>1, AppendOwnLog
    <2>3. UNCHANGED <<leading, currentTerm, pending, slot, ch>>
      BY <1>7 DEF Propose, callVars, waitVars
    <2> QED
      BY <1>0, <2>2, <2>3, WaitersKept
  <1>8. CASE ApplyReady
    <2>1. /\ UNCHANGED <<leading, currentTerm, log, commitIndex, slot>>
          /\ lastApplied' = commitIndex
      BY <1>8 DEF ApplyReady, callVars
    <2>2. commitIndex \in Nat /\ lastApplied \in Nat
      BY <1>0 DEF TypeOK
    <2> SUFFICES ASSUME NEW i \in Index, NEW c \in Call, pending'[i] = c
                 PROVE  /\ leading
                        /\ slot[c] = [index |-> i, term |-> currentTerm]
                        /\ i > commitIndex
                        /\ i <= Len(log) /\ log[i] = [term |-> currentTerm, cmd |-> c]
                        /\ ch'[c] = "empty"
      BY <2>1 DEF WaitersAreCurrent
    <2>3. i \notin lastApplied + 1 .. commitIndex /\ pending[i] = c
      BY <1>8, ApplyReadyAnswers, CallAssumption
    <2>4. /\ leading /\ ch[c] = "empty"
          /\ slot[c] = [index |-> i, term |-> currentTerm]
          /\ i > lastApplied /\ i <= Len(log)
          /\ log[i] = [term |-> currentTerm, cmd |-> c]
      BY <2>3, RegisteredPlaced
    <2>5. i > commitIndex
      BY <2>2, <2>3, <2>4 DEF Index
    <2>6. ch'[c] = ch[c]
      BY <1>8, <2>3, <2>4, ApplyReadyAnswers
    <2> QED
      BY <2>4, <2>5, <2>6
  <1>9. CASE Stop
    BY <1>9, NoWaiters, FailPendingAnswers DEF Stop
  <1>10. CASE WakeApplier \/ UNCHANGED vars
    BY <1>0, <1>10, WaitersKept DEF WakeApplier, vars, raftVars, callVars, waitVars
  <1> QED
    BY <1>2, <1>3, <1>4, <1>5, <1>6, <1>7, <1>8, <1>9, <1>10 DEF Next, Cluster

-----------------------------------------------------------------------------
(***************************************************************************)
(* The answers.                                                            *)
(***************************************************************************)

\* What a step can do to the calls: it is a step of a caller, or it touches
\* nothing but the waiters, and these in one of two ways.
LEMMA StepShape ==
    ASSUME [Next]_vars
    PROVE  \/ \E c \in Call : Caller(c)
           \/ /\ UNCHANGED <<pc, slot, reply>>
              /\ running' => running
              /\ \/ UNCHANGED <<pending, ch>>
                 \/ failPending("lost") \/ failPending("stopped")
                 \/ ApplyReady
  <1>1. ASSUME NEW t \in 1..MaxTerm, BecomeLeader(t)
        PROVE  UNCHANGED <<pc, slot, reply, running, pending, ch>>
    BY <1>1 DEF BecomeLeader, AppendOwn, callVars, waitVars
  <1>2. ASSUME NEW t \in 1..MaxTerm, StepDown(t)
        PROVE  UNCHANGED <<pc, slot, reply, running>> /\ failPending("lost")
    BY <1>2 DEF StepDown, callVars, loopVars
  <1>3. ASSUME NEW t \in 1..MaxTerm,
               AppendEntries(t) \/ \E s \in Index : InstallSnapshot(t, s)
        PROVE  /\ UNCHANGED <<pc, slot, reply, running>>
               /\ failPending("lost") \/ UNCHANGED <<pending, ch>>
    BY <1>3 DEF AppendEntries, InstallSnapshot, FollowLeader, callVars, loopVars, waitVars
  <1>4. ASSUME NEW i \in Index, AdvanceCommit(i)
        PROVE  UNCHANGED <<pc, slot, reply, running, pending, ch>>
    BY <1>4 DEF AdvanceCommit, callVars, waitVars
  <1>5. CASE Propose
    BY <1>5 DEF Propose, AppendOwn, callVars, waitVars
  <1>6. CASE ApplyReady
    BY <1>6 DEF ApplyReady, callVars
  <1>7. CASE Stop
    BY <1>7 DEF Stop, callVars
  <1>8. CASE WakeApplier \/ UNCHANGED vars
    BY <1>8 DEF WakeApplier, vars, callVars, waitVars, loopVars
  <1> QED
    BY <1>1, <1>2, <1>3, <1>4, <1>5, <1>6, <1>7, <1>8 DEF Next, Cluster

\* An applied entry stays the entry its call was given.
LEMMA AppliedOwnKept ==
    ASSUME Inv, [Next]_vars, NEW c \in Call, AppliedOwn(c), slot'[c] = slot[c]
    PROVE  AppliedOwn(c)'
  <1>1. /\ lastApplied \in Nat /\ lastApplied' \in Nat /\ commitIndex \in Nat
        /\ lastApplied <= commitIndex
    <2>1. TypeInv /\ TypeInv'
      BY NextType DEF Inv
    <2> QED
      BY <2>1 DEF TypeInv, TypeOK, Progress
  <1>2. /\ \A i \in 1..commitIndex : log'[i] = log[i]
        /\ lastApplied <= lastApplied'
    BY LogKept DEF Inv
  <1>3. slot[c].index \in 1..commitIndex /\ slot[c].index \in 1..lastApplied'
    BY <1>1, <1>2 DEF AppliedOwn
  <1> QED
    BY <1>2, <1>3 DEF AppliedOwn

\* How a step changes what a call has been sent and told.
LEMMA StepAnswers ==
    ASSUME Inv, [Next]_vars, NEW c \in Call
    PROVE  /\ \/ slot'[c] = slot[c]
              \/ ch'[c] = "empty" /\ reply'[c] = "empty"
           /\ \/ ch'[c] \in {ch[c], "empty", "lost", "stopped"}
              \/ ch'[c] = c /\ AppliedOwn(c)'
           /\ reply'[c] \in {reply[c], ch[c], "stopped", "cancelled", "notLeader"}
  <1>0. TypeOK /\ CallsFit /\ TypeOK'
    BY NextType DEF Inv, TypeInv
  <1>1. ASSUME NEW d \in Call, Caller(d)
        PROVE  /\ \/ slot'[c] = slot[c]
                  \/ ch'[c] = "empty" /\ reply'[c] = "empty"
               /\ ch'[c] \in {ch[c], "empty", "lost", "stopped"}
               /\ reply'[c] \in {reply[c], ch[c], "stopped", "cancelled", "notLeader"}
    <2>1. CASE Submit(d)
      <3>1. UNCHANGED <<reply, ch>> /\ pc[d] = "idle" /\ (c # d => slot'[c] = slot[c])
        BY <1>0, <2>1 DEF Submit, TypeOK
      <3>2. reply[d] = "empty" /\ ch[d] = "empty"
        BY <1>0, <3>1 DEF CallsFit
      <3> QED
        BY <3>1, <3>2
    <2>2. CASE SubmitRefused(d)
      BY <1>0, <2>2 DEF SubmitRefused, waitVars, TypeOK
    <2>3. CASE TakeAnswer(d)
      BY <1>0, <2>3 DEF TakeAnswer, TypeOK
    <2>4. CASE SeeStop(d)
      BY <1>0, <2>4 DEF SeeStop, TypeOK
    <2>5. CASE SeeCancel(d)
      BY <1>0, <2>5 DEF SeeCancel, waitVars, TypeOK
    <2>6. CASE ForgetWaiter(d)
      BY <1>0, <2>6 DEF ForgetWaiter, TypeOK
    <2> QED
      BY <1>1, <2>1, <2>2, <2>3, <2>4, <2>5, <2>6 DEF Caller
  <1>2. ASSUME failPending("lost") \/ failPending("stopped")
        PROVE  ch'[c] \in {ch[c], "lost", "stopped"}
    BY <1>2, FailPendingAnswers
  <1>3. ASSUME ApplyReady, ch'[c] # ch[c]
        PROVE  ch'[c] = c /\ AppliedOwn(c)'
    <2>1. /\ ch'[c] = c
          /\ slot[c].index \in lastApplied + 1 .. commitIndex
          /\ log[slot[c].index] = [term |-> slot[c].term, cmd |-> c]
      BY <1>3, ApplyReadyAnswers
    <2>2. log' = log /\ slot' = slot /\ lastApplied' = commitIndex
      BY <1>3 DEF ApplyReady, callVars
    <2>3. slot[c].index \in 1..commitIndex
      BY <1>0, <2>1 DEF TypeOK
    <2> QED
      BY <2>1, <2>2, <2>3 DEF AppliedOwn
  <1> QED
    BY <1>1, <1>2, <1>3, StepShape

LEMMA NextOwnAnswer ==
    ASSUME Inv, [Next]_vars
    PROVE  OwnAnswer'
  <1> SUFFICES ASSUME NEW c \in Call, NEW a \in {ch'[c], reply'[c]} \cap Cmd
               PROVE  a = c /\ AppliedOwn(c)'
    BY DEF OwnAnswer, Cmd
  <1>1. a \notin {"empty", "lost", "stopped", "cancelled", "notLeader"}
    BY CallAssumption DEF Cmd
  <1>2. slot'[c] = slot[c]
    BY <1>1, StepAnswers
  <1>3. a \in {ch[c], reply[c]} \/ (a = c /\ AppliedOwn(c)')
    BY <1>1, StepAnswers
  <1>4. CASE a \in {ch[c], reply[c]}
    <2>1. a = c /\ AppliedOwn(c)
      BY <1>4 DEF Inv, OwnAnswer
    <2> QED
      BY <1>2, <2>1, AppliedOwnKept
  <1> QED
    BY <1>3, <1>4

-----------------------------------------------------------------------------
(***************************************************************************)
(* The callers that wait in vain.                                          *)
(***************************************************************************)

\* A call that has ended stays as it is, and a waiting one keeps its slot and
\* is only left waiting with what it has been sent.
LEMMA StepCall ==
    ASSUME Inv, [Next]_vars, NEW c \in Call
    PROVE  /\ pc[c] = "done" => reply'[c] = reply[c] /\ slot'[c] = slot[c]
           /\ pc[c] = "waiting" => slot'[c] = slot[c]
           /\ pc'[c] = "waiting" => pc[c] = "waiting" \/ Submit(c)
           /\ pc'[c] = "waiting" /\ ch'[c] = "empty" => ch[c] = "empty"
           /\ running' => running
  <1>0. TypeOK
    BY DEF Inv, TypeInv
  <1>1. ASSUME NEW d \in Call, Caller(d)
        PROVE  /\ pc[c] = "done" => reply'[c] = reply[c] /\ slot'[c] = slot[c]
               /\ pc[c] = "waiting" => slot'[c] = slot[c]
               /\ pc'[c] = "waiting" => pc[c] = "waiting" \/ Submit(c)
               /\ pc'[c] = "waiting" /\ ch'[c] = "empty" => ch[c] = "empty"
               /\ running' = running
    <2>1. CASE Submit(d)
      BY <1>0, <2>1 DEF Submit, AppendOwn, TypeOK
    <2>2. CASE SubmitRefused(d)
      BY <1>0, <2>2 DEF SubmitRefused, waitVars, loopVars, TypeOK
    <2>3. CASE TakeAnswer(d)
      BY <1>0, <2>3 DEF TakeAnswer, loopVars, TypeOK
    <2>4. CASE SeeStop(d)
      BY <1>0, <2>4 DEF SeeStop, loopVars, TypeOK
    <2>5. CASE SeeCancel(d)
      BY <1>0, <2>5 DEF SeeCancel, waitVars, loopVars, TypeOK
    <2>6. CASE ForgetWaiter(d)
      BY <1>0, <2>6 DEF ForgetWaiter, loopVars, TypeOK
    <2> QED
      BY <1>1, <2>1, <2>2, <2>3, <2>4, <2>5, <2>6 DEF Caller
  <1>2. ASSUME failPending("lost") \/ failPending("stopped"), ch'[c] = "empty"
        PROVE  ch[c] = "empty"
    BY <1>2, FailPendingAnswers
  <1>3. ASSUME ApplyReady, ch'[c] = "empty"
        PROVE  ch[c] = "empty"
    <2>1. c # "empty"
      BY CallAssumption
    <2> QED
      BY <1>3, <2>1, ApplyReadyAnswers
  <1>4. \/ \E d \in Call : Caller(d)
        \/ /\ UNCHANGED <<pc, slot, reply>>
           /\ running' => running
           /\ ch'[c] = "empty" => ch[c] = "empty"
    BY <1>2, <1>3, StepShape
  <1> QED
    BY <1>1, <1>4

\* A waiting call loses its place without an answer in one way only: a caller
\* with the same index deletes it.
LEMMA LostPlace ==
    ASSUME Inv, [Next]_vars, NEW c \in Call, NEW i \in Index, pending[i] = c,
           ~Registered(c)', pc'[c] = "waiting", ch'[c] = "empty"
    PROVE  \E d \in Call \ {c} : ForgetWaiter(d) /\ slot[d].index = i
  <1>0. /\ TypeOK /\ pending'[i] # c /\ "empty" # c /\ i <= Len(log)
        /\ Len(log) \in Nat /\ i \in Nat
    <2>1. i <= Len(log)
      BY RegisteredPlaced
    <2> QED
      BY <2>1, CallAssumption DEF Inv, TypeInv, TypeOK, Registered, Index
  <1>1. ~failPending("lost") /\ ~failPending("stopped")
    <2>1. Registered(c)
      BY DEF Registered
    <2> QED
      BY <2>1, FailPendingAnswers
  <1>2. ~ApplyReady
    BY <1>0, ApplyReadyAnswers
  <1>3. PICK d \in Call : Caller(d)
    BY <1>0, <1>1, <1>2, StepShape
  <1>4. ~Submit(d)
    BY <1>0 DEF Submit, Register, TypeOK
  <1>5. ForgetWaiter(d)
    BY <1>0, <1>3, <1>4 DEF Caller, SubmitRefused, TakeAnswer, SeeStop, SeeCancel, waitVars
  <1>6. slot[d].index = i /\ d # c
    BY <1>0, <1>5 DEF ForgetWaiter, TypeOK
  <1> QED
    BY <1>5, <1>6

LEMMA NextAbandons ==
    ASSUME Inv, [Next]_vars
    PROVE  OnlyLateCancelAbandons'
  <1>0. TypeOK /\ CallsFit /\ SlotsDistinct
    BY DEF Inv, TypeInv
  <1> SUFFICES ASSUME NEW c \in Call, Abandoned(c)'
               PROVE  \E d \in Call : /\ reply'[d] = "cancelled"
                                      /\ slot'[d].index = slot'[c].index
                                      /\ slot'[d].term < slot'[c].term
    BY DEF OnlyLateCancelAbandons
  <1>1. pc'[c] = "waiting" /\ running' /\ ch'[c] = "empty" /\ ~Registered(c)'
    BY DEF Abandoned
  <1>2. ~Submit(c)
    <2>1. ASSUME Submit(c)
          PROVE  pending'[Len(log) + 1] = c /\ Len(log) + 1 \in Index
      BY <1>0, <2>1, BoundAssumption DEF Submit, AppendOwn, Register, TypeOK, Index
    <2> QED
      BY <1>1, <2>1 DEF Registered
  <1>3. /\ pc[c] = "waiting" /\ running /\ ch[c] = "empty"
        /\ slot'[c] = slot[c]
    BY <1>1, <1>2, StepCall
  <1>4. CASE ~Registered(c)
    <2>1. PICK d \in Call : /\ reply[d] = "cancelled"
                            /\ slot[d].index = slot[c].index
                            /\ slot[d].term < slot[c].term
      BY <1>3, <1>4 DEF Inv, OnlyLateCancelAbandons, Abandoned
    <2>2. pc[d] = "done"
      BY <1>0, <2>1 DEF CallsFit
    <2>3. reply'[d] = reply[d] /\ slot'[d] = slot[d]
      BY <2>2, StepCall
    <2> QED
      BY <1>3, <2>1, <2>3, Zenon
  <1>5. CASE Registered(c)
    <2>1. PICK i \in Index : pending[i] = c
      BY <1>5 DEF Registered
    <2>2. PICK d \in Call \ {c} : ForgetWaiter(d) /\ slot[d].index = i
      BY <1>1, <2>1, LostPlace
    <2>3. slot[c] = [index |-> i, term |-> currentTerm] /\ i > 0
      <3>1. slot[c] = [index |-> i, term |-> currentTerm]
        BY <2>1, RegisteredPlaced
      <3> QED
        BY <3>1 DEF Index
    <2>4. reply'[d] = "cancelled" /\ slot' = slot
      BY <1>0, <2>2 DEF ForgetWaiter, TypeOK
    <2>5. /\ slot[d] \in [index : 0..MaxIndex, term : 0..MaxTerm]
          /\ currentTerm \in Nat /\ slot[d].term \in Nat
      BY <1>0 DEF TypeOK
    <2>6. slot[d].term <= currentTerm
      BY <1>0 DEF CallsFit
    <2>7. slot[d].term # currentTerm
      <3>1. ASSUME slot[d].term = currentTerm
            PROVE  slot[d] = slot[c]
        BY <2>2, <2>3, <2>5, <3>1
      <3> QED
        BY <1>0, <2>2, <2>3, <3>1 DEF SlotsDistinct
    <2>8. slot[d].term < currentTerm
      BY <2>5, <2>6, <2>7
    <2> QED
      BY <2>2, <2>3, <2>4, <2>8
  <1> QED
    BY <1>4, <1>5

-----------------------------------------------------------------------------
(***************************************************************************)
(* The theorems.                                                           *)
(***************************************************************************)

LEMMA InvInductive ==
    ASSUME Inv, [Next]_vars
    PROVE  Inv'
  BY NextType, NextCalls, NextWaiters, NextOwnAnswer, NextAbandons DEF Inv

LEMMA SpecInv == Spec => []Inv
  BY InitInv, InvInductive, PTL DEF Spec

\* Whatever the callers, the cluster and Stop do to a node, its log, its indices
\* and its waiters keep the types the code gives them.
THEOREM ProposalsTyped == Spec => []TypeOK
  BY SpecInv, PTL DEF Inv, TypeInv

\* Every registered waiter belongs to the leadership under way and to an entry
\* still to be applied, and its channel is free: the sends of applyReady and
\* Stop cannot block the node while it holds its mutex.
THEOREM WaitersStayCurrent == Spec => []WaitersAreCurrent
  BY SpecInv, PTL DEF Inv

\* A caller that Submit tells a result is told that of its own command, applied
\* where Submit put it.
THEOREM AnswersAreOwn == Spec => []OwnAnswer
  BY SpecInv, PTL DEF Inv

\* A waiting caller of a running node is never forgotten, but for the deletion
\* of its waiter by an earlier caller with the same index that gave up late.
THEOREM OnlyLateCancelForgets == Spec => []OnlyLateCancelAbandons
  BY SpecInv, PTL DEF Inv

=============================================================================
