----------------------------- MODULE Proposals ------------------------------
(***************************************************************************)
(* The client-facing half of one jamraft node (internal/raft/node.go):     *)
(* Submit registers a waiter under the index of its entry, and the apply   *)
(* loop, a loss of leadership, Stop or the caller's own context ends the   *)
(* wait. The callers, the apply loop and the handlers of the node only     *)
(* share what the node's mutex guards, so every critical section is one    *)
(* step, and a caller may be anywhere between two of them.                 *)
(*                                                                         *)
(* The rest of the cluster is what it can do to this node: make it leader, *)
(* depose it, replicate to it, acknowledge its entries. Module Raft        *)
(* derives those steps; here they keep to what Raft guarantees: committed  *)
(* entries stay, and index and term identify an entry.                     *)
(***************************************************************************)
EXTENDS Integers, Sequences

CONSTANTS
    Call,      \* the calls of Submit, each with a command of its own
    None,      \* no waiter
    MaxTerm,   \* bound: terms
    MaxIndex,  \* bound: length of the log
    Alone      \* the cluster has this node only

ASSUME CallAssumption ==
    /\ None \notin Call
    /\ Call \cap {"noop", "other", "empty", "lost", "stopped", "cancelled",
                  "notLeader"} = {}
ASSUME BoundAssumption == MaxTerm \in Nat /\ MaxIndex \in Nat
ASSUME AloneAssumption == Alone \in BOOLEAN

VARIABLES
    leading,      \* role = Leader
    currentTerm,
    log,          \* the whole log, entries under the snapshot included
    commitIndex,
    lastApplied,
    applyCh,      \* the one-place channel that wakes the apply loop is full
    applier,      \* where the apply loop is
    running,      \* stopCh is not closed
    pending,      \* per index: the call whose waiter is registered there
    pc,           \* per call: where Submit is
    slot,         \* per call: index and term of its entry
    ch,           \* per call: what the one-place channel of its waiter holds
    reply,        \* per call: what Submit returned
    proposed      \* history: the entries this node has created as leader

raftVars  == <<leading, currentTerm, log, commitIndex, lastApplied, proposed>>
loopVars  == <<applyCh, applier, running>>
callVars  == <<pc, slot, reply>>
waitVars  == <<pending, ch>>
vars      == <<raftVars, loopVars, callVars, waitVars>>

Index == 1..MaxIndex
Cmd   == Call \cup {"noop", "other"}
Entry == [term : 1..MaxTerm, cmd : Cmd]

Init ==
    /\ leading = FALSE
    /\ currentTerm = 0
    /\ log = <<>>
    /\ commitIndex = 0
    /\ lastApplied = 0
    /\ applyCh = FALSE
    /\ applier = "idle"
    /\ running = TRUE
    /\ pending = [i \in Index |-> None]
    /\ pc = [c \in Call |-> "idle"]
    /\ slot = [c \in Call |-> [index |-> 0, term |-> 0]]
    /\ ch = [c \in Call |-> "empty"]
    /\ reply = [c \in Call |-> "empty"]
    /\ proposed = {}

-----------------------------------------------------------------------------
(***************************************************************************)
(* Appending as leader.                                                    *)
(***************************************************************************)

\* A leader of term t appends an entry; alone in its cluster it commits it.
AppendOwn(t, cmd) ==
    LET i == Len(log) + 1 IN
    /\ i <= MaxIndex
    /\ log' = Append(log, [term |-> t, cmd |-> cmd])
    /\ proposed' = proposed \cup {[index |-> i, term |-> t, cmd |-> cmd]}
    /\ commitIndex' = IF Alone THEN i ELSE commitIndex
    /\ applyCh' = (Alone \/ applyCh)
    /\ UNCHANGED <<lastApplied, applier, running>>

\* The node wins an election: becomeLeaderLocked. It won in a term it had
\* started itself, newer than any it was deposed in.
BecomeLeader(t) ==
    /\ ~leading
    /\ t = currentTerm + 1
    /\ leading' = TRUE
    /\ currentTerm' = t
    /\ AppendOwn(t, "noop")
    /\ UNCHANGED <<callVars, waitVars>>

\* Propose: an entry nobody waits for.
Propose ==
    /\ leading
    /\ AppendOwn(currentTerm, "other")
    /\ UNCHANGED <<leading, currentTerm, callVars, waitVars>>

\* The waiter of an entry just created.
Bug_RegisterBefore(c, i) == pending' = [pending EXCEPT ![i - 1] = c]
Register(c, i) == pending' = [pending EXCEPT ![i] = c]

\* Submit, first critical section, on a leader.
Submit(c) ==
    LET i == Len(log) + 1 IN
    /\ pc[c] = "idle"
    /\ leading
    /\ AppendOwn(currentTerm, c)
    /\ Register(c, i)
    /\ pc' = [pc EXCEPT ![c] = "waiting"]
    /\ slot' = [slot EXCEPT ![c] = [index |-> i, term |-> currentTerm]]
    /\ UNCHANGED <<leading, currentTerm, reply, ch>>

\* Submit on any other node.
SubmitRefused(c) ==
    /\ pc[c] = "idle"
    /\ ~leading
    /\ pc' = [pc EXCEPT ![c] = "done"]
    /\ reply' = [reply EXCEPT ![c] = "notLeader"]
    /\ UNCHANGED <<raftVars, loopVars, waitVars, slot>>

-----------------------------------------------------------------------------
(***************************************************************************)
(* What the rest of the cluster does to the node.                          *)
(***************************************************************************)

Registered(c) == \E i \in Index : pending[i] = c

\* Every registered waiter is sent answer and forgotten.
Bug_ForgetSilently(answer) ==
    /\ pending' = [i \in Index |-> None]
    /\ UNCHANGED ch
failPending(answer) ==
    /\ ch' = [c \in Call |-> IF Registered(c) /\ ch[c] = "empty" THEN answer ELSE ch[c]]
    /\ pending' = [i \in Index |-> None]

\* stepDown(t) for a newer term.
StepDown(t) ==
    /\ t > currentTerm
    /\ currentTerm' = t
    /\ leading' = FALSE
    /\ failPending("lost")
    /\ UNCHANGED <<log, commitIndex, lastApplied, proposed, loopVars, callVars>>

\* An entry another leader may send for index i: one of its own terms, or one
\* this node created and the other leader had received.
Foreign(i, e) ==
    IF \E p \in proposed : p.term = e.term
    THEN [index |-> i, term |-> e.term, cmd |-> e.cmd] \in proposed
    ELSE e.cmd = "other"

\* The log after AppendEntries or InstallSnapshot took over the first new entry
\* in which the leader's log differs: it stands at k, all after it is gone.
Bug_KeepsConflict(k, e) == Append(log, e)
TakenOver(k, e) == Append(SubSeq(log, 1, k - 1), e)

\* commitIndex becomes i; signalApply if that is an advance.
Bug_NoSignal(i) == commitIndex' = i /\ UNCHANGED applyCh
Commit(i) == commitIndex' = i /\ applyCh' = (applyCh \/ i > commitIndex)

\* The head of AppendEntries and InstallSnapshot. A stopped node is off the
\* network (Crash deregisters it, a process exits), so no requests reach it;
\* replies to its own calls still may.
FollowLeader(t) ==
    /\ running
    /\ IF leading THEN t > currentTerm ELSE t >= currentTerm
    /\ t > 0
    /\ currentTerm' = t
    /\ leading' = FALSE
    /\ IF t > currentTerm THEN failPending("lost") ELSE UNCHANGED waitVars

\* AppendEntries: at most one entry is new (a longer request is as good as
\* several), and the commit index may rise.
AppendEntries(t) ==
    /\ FollowLeader(t)
    /\ \/ UNCHANGED log
       \/ \E k \in commitIndex + 1 .. Len(log) + 1, e \in Entry :
             /\ k <= MaxIndex
             /\ e.term <= t
             /\ k > 1 => log[k - 1].term <= e.term
             /\ k <= Len(log) => log[k].term # e.term
             /\ Foreign(k, e)
             /\ log' = TakenOver(k, e)
    /\ \E i \in commitIndex .. Len(log') : Commit(i)
    /\ UNCHANGED <<lastApplied, proposed, applier, running, callVars>>

\* InstallSnapshot of the entries up to s: they count as applied, and the apply
\* loop is not woken. Entries the node lacked stand in the log as the leader
\* created them; the rest of the log is kept or gone.
InstallSnapshot(t, s) ==
    /\ FollowLeader(t)
    /\ \/ s <= Len(log) /\ log' \in {log, SubSeq(log, 1, s)}
       \/ \E e \in Entry :
             /\ s > commitIndex /\ s <= Len(log) + 1
             /\ e.term <= t
             /\ s > 1 => log[s - 1].term <= e.term
             /\ Foreign(s, e)
             /\ log' = TakenOver(s, e)
    /\ Len(log') >= commitIndex
    /\ commitIndex' = IF s > commitIndex THEN s ELSE commitIndex
    /\ lastApplied' = IF s > lastApplied THEN s ELSE lastApplied
    /\ UNCHANGED <<proposed, loopVars, callVars>>

\* A majority holds the entry at i: advanceCommitLocked.
AdvanceCommit(i) ==
    /\ leading
    /\ i > commitIndex /\ i <= Len(log)
    /\ log[i].term = currentTerm
    /\ Commit(i)
    /\ UNCHANGED <<leading, currentTerm, log, lastApplied, proposed, applier,
                   running, callVars, waitVars>>

-----------------------------------------------------------------------------
(***************************************************************************)
(* The apply loop.                                                         *)
(***************************************************************************)

\* applyLoop receives from applyCh. With stopCh closed as well, select may
\* choose either: a loop that never wakes again has exited.
WakeApplier ==
    /\ applier = "idle"
    /\ applyCh
    /\ applyCh' = FALSE
    /\ applier' = "woken"
    /\ UNCHANGED <<raftVars, running, callVars, waitVars>>

\* What applyReady sends to the waiter of call c at index i.
AnswerAt(c, i) == IF slot[c].term = log[i].term THEN log[i].cmd ELSE "lost"

\* A plain send blocks, with the mutex held, when the channel is full.
CanSend(S) == \A i \in S : pending[i] # None => ch[pending[i]] = "empty"

\* applyReady under its lock. The state machine's result stands for the command
\* it is the result of.
Bug_KeepsWaiter(S) ==
    /\ ch' = [c \in Call |->
                IF \E i \in S : pending[i] = c
                THEN AnswerAt(c, CHOOSE i \in S : pending[i] = c)
                ELSE ch[c]]
    /\ UNCHANGED pending
AnswerWaiters(S) ==
    /\ ch' = [c \in Call |->
                IF \E i \in S : pending[i] = c
                THEN AnswerAt(c, CHOOSE i \in S : pending[i] = c)
                ELSE ch[c]]
    /\ pending' = [i \in Index |-> IF i \in S THEN None ELSE pending[i]]

ApplyReady ==
    LET S == lastApplied + 1 .. commitIndex IN
    /\ applier = "woken"
    /\ CanSend(S)
    /\ AnswerWaiters(S)
    /\ lastApplied' = commitIndex
    /\ applier' = "idle"
    /\ UNCHANGED <<leading, currentTerm, log, commitIndex, proposed, applyCh,
                   running, callVars>>

-----------------------------------------------------------------------------
(***************************************************************************)
(* The end of a call, and of the node.                                     *)
(***************************************************************************)

\* Submit's select takes the answer.
TakeAnswer(c) ==
    /\ pc[c] = "waiting"
    /\ ch[c] # "empty"
    /\ pc' = [pc EXCEPT ![c] = "done"]
    /\ reply' = [reply EXCEPT ![c] = ch[c]]
    /\ ch' = [ch EXCEPT ![c] = "empty"]
    /\ UNCHANGED <<raftVars, loopVars, slot, pending>>

\* It sees that the node has stopped. Its channel is garbage from now on.
SeeStop(c) ==
    /\ pc[c] = "waiting"
    /\ ~running
    /\ pc' = [pc EXCEPT ![c] = "done"]
    /\ reply' = [reply EXCEPT ![c] = "stopped"]
    /\ ch' = [ch EXCEPT ![c] = "empty"]
    /\ UNCHANGED <<raftVars, loopVars, slot, pending>>

\* It sees that its context is done, and goes for the lock.
SeeCancel(c) ==
    /\ pc[c] = "waiting"
    /\ pc' = [pc EXCEPT ![c] = "cancelling"]
    /\ UNCHANGED <<raftVars, loopVars, slot, reply, waitVars>>

\* With the lock it deletes what is registered under its index by now.
ForgetWaiter(c) ==
    /\ pc[c] = "cancelling"
    /\ pending' = [pending EXCEPT ![slot[c].index] = None]
    /\ pc' = [pc EXCEPT ![c] = "done"]
    /\ reply' = [reply EXCEPT ![c] = "cancelled"]
    /\ ch' = [ch EXCEPT ![c] = "empty"]
    /\ UNCHANGED <<raftVars, loopVars, slot>>

\* Stop. Handlers and calls already under way go on, and so may the role.
Stop ==
    /\ running
    /\ CanSend(Index)
    /\ running' = FALSE
    /\ failPending("stopped")
    /\ UNCHANGED <<raftVars, applyCh, applier, callVars>>

-----------------------------------------------------------------------------
Cluster ==
    \/ \E t \in 1..MaxTerm : \/ BecomeLeader(t)
                             \/ StepDown(t)
                             \/ AppendEntries(t)
                             \/ \E s \in Index : InstallSnapshot(t, s)
    \/ \E i \in Index : AdvanceCommit(i)

Caller(c) ==
    \/ Submit(c)
    \/ SubmitRefused(c)
    \/ TakeAnswer(c)
    \/ SeeStop(c)
    \/ SeeCancel(c)
    \/ ForgetWaiter(c)

Next ==
    \/ Cluster
    \/ \E c \in Call : Caller(c)
    \/ Propose
    \/ WakeApplier
    \/ ApplyReady
    \/ Stop

\* The apply loop and a caller whose select is ready are runnable goroutines,
\* and the mutex is handed on in the end. No context need ever be cancelled.
Fairness ==
    /\ WF_vars(running /\ WakeApplier)
    /\ WF_vars(ApplyReady)
    /\ \A c \in Call : WF_vars(TakeAnswer(c)) /\ WF_vars(SeeStop(c))

Spec == Init /\ [][Next]_vars /\ Fairness

-----------------------------------------------------------------------------
(***************************************************************************)
(* Properties.                                                             *)
(***************************************************************************)

\* Every variable has the type the code gives it.
TypeOK ==
    /\ leading \in BOOLEAN
    /\ currentTerm \in 0..MaxTerm
    /\ log \in Seq(Entry) /\ Len(log) <= MaxIndex
    /\ commitIndex \in 0..MaxIndex
    /\ lastApplied \in 0..MaxIndex
    /\ applyCh \in BOOLEAN
    /\ applier \in {"idle", "woken"}
    /\ running \in BOOLEAN
    /\ pending \in [Index -> Call \cup {None}]
    /\ pc \in [Call -> {"idle", "waiting", "cancelling", "done"}]
    /\ slot \in [Call -> [index : 0..MaxIndex, term : 0..MaxTerm]]
    /\ ch \in [Call -> Cmd \cup {"empty", "lost", "stopped"}]
    /\ reply \in [Call -> Cmd \cup {"empty", "lost", "stopped", "cancelled", "notLeader"}]
    /\ proposed \subseteq [index : Index, term : 1..MaxTerm, cmd : Cmd]

\* The log holds the entry of call c, and the state machine has applied it.
AppliedOwn(c) ==
    /\ slot[c].index \in 1..lastApplied
    /\ log[slot[c].index] = [term |-> slot[c].term, cmd |-> c]

\* A caller that is told a result is told that of its own command, applied
\* where Submit put it: never that of a command a later leader put at the same
\* index, however often this node lost and regained the leadership meanwhile
\* (the term check of applyReady, failPending).
OwnAnswer ==
    \A c \in Call : \A a \in {ch[c], reply[c]} \cap Cmd : a = c /\ AppliedOwn(c)

\* Every registered waiter belongs to the leadership under way and to an entry
\* still to be applied, and its channel is free: the sends of applyReady and
\* Stop, which hold the mutex and have no default case, never block the node.
WaitersAreCurrent ==
    \A i \in Index, c \in Call : pending[i] = c =>
        /\ leading
        /\ slot[c] = [index |-> i, term |-> currentTerm]
        /\ i > lastApplied
        /\ i <= Len(log) /\ log[i] = [term |-> currentTerm, cmd |-> c]
        /\ ch[c] = "empty"

\* Nobody will ever answer c.
Abandoned(c) ==
    /\ pc[c] = "waiting"
    /\ running
    /\ ch[c] = "empty"
    /\ ~Registered(c)

\* A waiting caller is never forgotten, but in one case: a caller of an earlier
\* leadership with the same index gave up late and deleted the waiter that is
\* registered there now (the delete in Submit goes by the index alone).
OnlyLateCancelAbandons ==
    \A c \in Call : Abandoned(c) =>
        \E d \in Call : /\ reply[d] = "cancelled"
                        /\ slot[d].index = slot[c].index
                        /\ slot[d].term < slot[c].term

\* No wake-up of the apply loop is lost between signalApply, the one-place
\* channel and applyReady, on a leader or a follower: the state machine catches
\* up with the commit index again and again until the node stops.
CommittedIsApplied == []<>(~running \/ lastApplied = commitIndex)

\* A caller whose entry is committed is answered without any help of its own
\* context, unless it was abandoned.
CommittedIsAnswered ==
    \A c \in Call :
        (pc[c] = "waiting" /\ slot[c].index <= commitIndex)
            ~> (pc[c] # "waiting" \/ Abandoned(c))

=============================================================================
