# JamRaft in TLA+

A TLA+ development of JamRaft, a Raft implementation in Go that replicates a
shared music queue: what its consensus code, its stable storage, its
linearizable reads and its exactly-once sessions do, what TLC checks of them on
small instances, and what TLAPS proves for clusters of every size.

## The system and its hard parts

| Component | State | Operations | Hard behaviour | What makes it correct |
|---|---|---|---|---|
| Leader election (`internal/raft/election.go`, `node.go`) | term, vote, role, leaderID, lastLeaderContact, rounds under way | election timeout, pre-vote round, real vote, step down, recovery | votes counted after the campaign they belong to; crashes between vote and reply; state read before a round and used after it | one leader per term; a counted vote is on disk and never changes; a live majority recovers a leader |
| Replication and commitment (`replication.go`) | log, nextIndex, matchIndex, commitIndex | Propose, replication loop per peer, AppendEntries, conflict back-off, commit rule | abandoned calls handled late, duplicates, stale replies, several leader changes | logs match, a leader has everything applied, nobody applies different entries at an index |
| Snapshots (`snapshot.go`) | snapshot index, term and data | compaction after applying, sendSnapshot, InstallSnapshot | crash between two writes; an index below the snapshot makes the node panic | the state machine is always the exact result of a log prefix |
| Apply loop (`node.go`) | lastApplied, the one-place wake-up channel | signalApply, applyLoop, applyReady | a wake-up lost between channel and loop; runs beside everything else | applies each committed entry once, in order, in the end |
| Proposals (`node.go`) | pending waiters by index, a channel per caller | Propose, Submit, failPending, Stop | an index reused by a later leadership, a timeout racing the answer, plain sends with the mutex held | a caller gets the result of its own command or an error; no send blocks the node |
| Stable storage (`internal/store`) | hard state, log bucket, snapshot | SaveHardState, Append, TruncateSuffix, TruncatePrefix, SaveSnapshot | every write may be the last one before a crash; errors are only logged | what was acknowledged survives |
| Linearizable reads (`readindex.go`) | read index, acknowledgements | LinearizableRead, confirmLeadership, waitApplied | elections between its critical sections; its heartbeats run beside replication | the answer contains everything committed before the call |
| Jukebox (`internal/jukebox`) | queue, song playing, history, skip votes, session table | enqueue, play-next, vote-skip, reorder, Snapshot, Restore | a command committed twice, or after its successor | deterministic; each command takes effect at most once; no song lost |
| HTTP server (`internal/server`) | none of its own; reads role and leaderID | opHandler, handleQueue, forward | leadership moves between IsLeader, Submit and LeaderID, and at every hop | a request is not passed round in circles nor back to an older leadership |
| Client, in-process cluster (`internal/client`, `internal/cluster`) | sequence numbers, attempts | do, Queue, Submit, Crash, Restart | timeout while the command still commits; two calls of one client at once | linearizable, at most once |
| Simulated network, gRPC (`internal/transport`) | partitions, drop and duplicate rates | calls between nodes | loss, delay, late handling, double delivery | none of its own |
| Chaos harness (`chaos`) | history of operations | random faults, linearizability check | | its sequential queue is the abstract specification used here |

The nodes talk by synchronous calls (RequestVote, AppendEntries,
InstallSnapshot), each made by a goroutine that takes the node's lock again when
the reply arrives. Inside a node the election loop, one replication loop per
peer, the apply loop, the RPC handlers, reads and proposals share the state under
one mutex, so a critical section is the unit of atomicity: an action is a
handler, or the part of one between two places where the lock is released.

## Modules

| Module | Models | How |
|---|---|---|
| `Election` | `election.go`, hard state of `node.go` | timeouts, pre-vote rounds, votes, step-down, restart. The log is abstracted to the position of its last entry; a deadline may pass at any moment; `heard` says that lastLeaderContact is younger than ElectionTimeoutMin |
| `ElectionProofs`, `ProposalsProofs`, `RoutingProofs`, `SessionsProofs` | | the theorems about `Election`, `Proposals`, `Routing` and `Sessions`, and their proofs |
| `Store` | `internal/store` | the log bucket as a function from indices, and its operations |
| `Raft` | `replication.go`, `snapshot.go`, `node.go`, and `Election` by `INSTANCE` with the real log | one action per handler or reply branch; a crash between two handlers, or between any two writes of AppendEntries, InstallSnapshot or compaction |
| `RaftInvariant`, `RaftHandlers`, `RaftProofs` | | the inductive invariant of `Raft`; what its actions do, tools first, then leaders, candidates, followers and crashes; the theorems |
| `RaftReads` | `readindex.go` | `Raft` with one read at a time |
| `RaftReadsProofs` | | the theorems about `RaftReads` |
| `Proposals` | the client-facing half of `node.go`: Submit, its waiters, the apply loop, Stop | one node; the rest of the cluster is what it can do to it (elect it, depose it, replicate and send snapshots to it, acknowledge its entries). A caller may be anywhere between two critical sections |
| `Routing` | `server.go`, `client.go` | one request followed over `Election`: each look at the role, at leaderID and each Submit is a step of its own |
| `Jukebox` | `jukebox.go` | operators: what a command makes of the state, the session table, Restore |
| `Sessions` | clients, retries, applying and restoring replicas | over `Jukebox`, with Raft abstracted to one committed log that replicas apply; a client may have several calls under way |
| `QueueModel` | `chaos/model.go` | abstract specification: `Spec`, operations that take effect atomically, at most once, between call and return, and return what they saw; `SessionSpec`, the weaker promise that the session table keeps to a client with several calls under way |
| `MC*` | | instances for TLC: symmetry, views, starting states, schedules |

Conventions. A message that is never handled is lost. `live` on a request says
that the caller still waits; an abandoned request (the RPC deadline has passed)
may still be handled, its reply goes nowhere. An AppendEntries entry is its term:
one leader per term creates entries, so index and term name the command. The
state machine inside `Raft` is the sequence of entries applied, which separates
any two states the jukebox could be in. Operators named `Bug_...` are plausible
mistakes in the code, kept next to the definition they would replace; with one of
them in its place the property named in `PROJECT.json` fails.

Time is left out: every timeout may fire at any moment it is enabled. The one
thing the code derives from time, leader stickiness, is the flag `heard`: contact
sets it, and a node with it set has not reached its deadline, because every
contact moves the deadline at least ElectionTimeoutMin ahead.

## What TLC checks

All runs use three nodes, the smallest cluster with a majority that is not
everyone; Sessions uses two clients and two replicas.

| Run | Bounds | Shows |
|---|---|---|
| `election_prevote` | 2 terms, 1 entry, 2 vote messages | `TypeOK`, `ElectionSafety`, `VoteDurable`, `VoteStable` with pre-vote, restarts, late and lost votes |
| `routing` | 2 terms, 2 entries, 2 vote messages, no pre-vote | `NoForwardingCycle`, `NeverBackwards`, and `ElectionSafety`, `VoteDurable` when every timeout raises the term. 525,642 states |
| `raft_log` | 3 terms, 3 entries, 2 faults | `LogMatching`, `LeaderCompleteness`, `StateMachineSafety`, `StateIsReplay`. In three terms a node can lead, be replaced and lead again with an entry of its first term |
| `raft_snapshot` | 2 terms, 2 entries, 1 fault, compaction after 1 entry, 2 calls to a follower in flight, duplicates | `TypeOK`, `StateMachineSafety`, `StateIsReplay`, `IndicesInLog`, `AckedIsDurable`, `CommittedStays`: a crash between any two writes, an abandoned or duplicated call handled after a later one. About 294,000 states |
| `raft_reads` | 2 terms, 1 entry, 1 fault, pre-vote | `NoReadByDeposedLeader`, and `ImplementsElection`: every step of the cluster with its real log, its replication and its reads is a step of `Election`, so what is proved there holds of its elections. 297,750 states |
| `proposals` | 2 calls, 3 terms, 3 entries | `TypeOK`, `OwnAnswer`, `WaitersAreCurrent`, `OnlyLateCancelAbandons`, and the liveness properties `CommittedIsApplied` and `CommittedIsAnswered`. 319,766 states |
| `sessions` | 3 calls, 2 of one client at once, 3 committed entries, 1 fault, compaction after 1 entry | `ReplicaIsReplay`, `SongsConserved`, `ImplementsSessionModel`. 499,670 states |
| `election_recovers` | 3 terms | violated: finding 3 |
| `election_stickiness` | 2 terms | violated: finding 4 |
| `sessions_overtaken` | 2 calls of one client at once, no faults | violated: finding 5 |
| `read_commits` | 2 terms, 2 entries | violated: finding 1 |
| `read_fresh` | 2 terms, 2 entries | violated: finding 2 |

Bounds on the environment are constants whose names begin with `Max`. `MaxFaults`
counts crashes and election timeouts (in `Sessions` retries, calls given up, leader
changes and snapshots loaded) over a whole behaviour. A new election makes room
for its requests by dropping older vote messages: a loss, which is always
possible. With two vote messages a new campaign drops those of the one before it,
but the votes already given, and the replies to a node that has moved on, stay; the
theorems cover every number of messages. The Raft runs start right after an
undisturbed first election (`InitLed`); `Election` covers the interleavings up to
there. `ImplementsElection` therefore speaks of the steps; that `Init` of `Raft`
implies `Init` of `Election` is visible, since it is a conjunct. The Raft runs other
than `raft_reads` disable pre-vote, which only removes elections.
`SpecPreVote` leaves out what its constants disable anyway: going straight to the vote.

Some runs look at some schedules only, to leave room for what they are about:
`raft_log` and `raft_reads` apply committed entries at once; in `raft_snapshot` the
messages in flight at one time belong to the calls of one follower (calls to two
followers meet only at the leader, which takes their replies one by one), a second
message joins the first while no vote is under way that still matters, and the apply
loop takes its time while there is one message and no vote under way and runs at once
otherwise; `sessions` lets some replica apply a committed entry before
anything else happens, because what an entry does and answers is settled once it is
committed, and the other replica stays as far behind as it likes; `routing` lets a
node die between handlers only, because a torn log plays no part in routing.
The views drop what no later step reads, with the reason next to each; symmetry is
sound because no definition names a node. It is not used where a liveness property
is checked. `CHECK_DEADLOCK` is off: with bounds on terms, indices and faults every
run ends in states where nothing is left to do.

Not every bound is a formality. With two terms only, `raft_log` would never have a
leader with an entry of its own from before another leader's term; with one message
in flight, `raft_snapshot` would never see a request out of order; `sessions` needs
three calls to enqueue, start and finish a song; and `proposals` needs three terms
for a node to lead, lose an index to another leader and get the same index again for
another caller. One fault in `sessions` is a retry, a call given up, a leader change
or a snapshot loaded, but not two of them together, such as a retry after a loaded
snapshot; and `raft_snapshot` has no third term, in which a reply to an earlier
leadership of the same node would arrive. What the theorems below say holds of these
too.

`LeaderCompleteness` speaks of every node that could win the next election, not
only of the one that has won, so an entry committed too early is noticed one term
before it is lost. The commit rule of `advanceCommitLocked` (only entries of the
current term are counted) turns out to be implied by another decision in this code:
a leader appends its no-op before it sends anything and always sends its whole
suffix, so no peer ever matches an older entry without the no-op. The rule is kept in
the model because the code has it; nothing here depends on it.

### What the properties of proposals, routing and sessions say

`OnlyLateCancelAbandons` describes a flaw exactly. Submit's timeout deletes
`pending` by index alone, so a caller of an earlier leadership that gives up late
removes the waiter of a newer proposal at the same index. That caller then waits for
its own timeout although its entry is applied. The run shows that nothing else ever
leaves a caller without an answer, and that even then nobody gets a wrong one.

`NoForwardingCycle` has one exception, stated in it: a node that names itself.
stepDown leaves leaderID as it was, so a deposed leader forwards to itself until its
next election timeout or the new leader's first message; and handleQueue forwards a
read after any error, so a leader that cannot confirm its leadership forwards the read
to itself. Both are steps of `Routing`, and no property here bounds how often they
repeat, which depends on timeouts. Longer cycles do not exist, because a node learns
the id and the term of a leader together.

`ImplementsQueueModel` says that the jukebox is the harness's linearizable queue: an
answered call has taken effect, once, and is told what it saw. It holds for clients
that make one call at a time, which is a theorem (`SerialClientsSeeTheQueue`), and the
clients of the harness are such. With two calls of one client at once it is false:
finding 5. `ImplementsSessionModel` says what is left of it then: no effect twice, none
out of the order of the numbers, and no answer but what the call or a later one of its
client saw. It does not say that a call that was answered OK has taken effect.

The properties of `Sessions` take the song ids as the shipped clients of the HTTP
server make them. `internal/client` never names an id for a song it enqueues, and the
server then joins client id and sequence number, so ids are unique and not empty. A
request may name its own id (`server.go:133-136`), and the browser demo, which has no
server, enqueues songs with an empty one (`cmd/wasm/main.go:91`): with those,
`SongsConserved` and a reorder by id mean nothing.

### Fairness

`proposals` assumes weak fairness of the apply loop (waking up while the node runs,
and applyReady) and of a caller whose select is ready, by an answer or by stopCh:
they are goroutines with nothing to wait for but the mutex, and Go's mutex starves
nobody. No fairness is given to contexts: `CommittedIsAnswered` holds without any
timeout firing. Nor is any given to the cluster.

On the nodes in `Alive`, a majority that keeps running and whose members reach one
another, `election_recovers` assumes

- weak fairness of starting a pre-vote round and of time passing (`electionLoop`
  ticks for ever),
- strong fairness of a peer's yes to a pre-vote: the request is sent anew in every
  round, and between live nodes it is answered again and again,
- strong fairness of `campaign` going on after a round it has won.

No fairness is given to real vote requests: one sent while the network was
partitioned is lost. The schedules (`QuietNext`) contain no AppendEntries and no
writes; they are some of the behaviours of `Election`, so what they refute is
refuted. The property excludes behaviours stopped by the bound on terms.

## Findings

1. **A read can make a follower commit a wrong entry** (`readindex.go:92`). The
   heartbeat of a read carries the leader's commit index, no entries, and as
   PrevLogIndex only what the leader knows the follower to have. The follower
   raises its commit index to the end of its own log, conflicting suffix included.
   `StateMachineSafety` holds without reads, which is a theorem (`StateMachinesAgree`);
   `read_commits` shows it violated with one. The same heartbeat lets a follower apply
   entries that a snapshot under way to it contains: InstallSnapshot compares the
   snapshot with the receiver's own, not with lastApplied, and takes the state machine
   back while lastApplied stays.
2. **A new leader can answer a stale read** (`readindex.go:31`). It takes its commit
   index before an entry of its own term is committed.
3. **Pre-vote can leave a live majority without a leader** (`election.go:120`). A
   node with a higher term and a shorter log, and a node with a lower term and a
   longer log, refuse each other's pre-votes, and nobody adopts the term a refusal
   carries.
4. **A live leader does not protect itself by stickiness** (`election.go:168`). It
   never sets its own lastLeaderContact, so it grants a pre-vote itself; two of
   three nodes are a majority.

5. **Concurrent calls of one client can be lost and reported as done**
   (`jukebox.go:111`). `do` hands out the sequence numbers before it sends, the later
   call may commit first, and the session table, which keeps one number per client,
   then takes the earlier one for a retry: it never takes effect, and its caller is
   answered with what the later one saw. `client.go` says that a `Client` is safe for
   concurrent use, and the browser demo starts a goroutine per click under one id.

The quotations these disagree with are in `PROJECT.json`.

Beyond the runs, two limits of these guarantees deserve a note. The model with
`StorageMayFail = TRUE` breaks `VoteDurable`: `persistHardState` logs an error and
the vote is granted all the same. A planned shutdown (`cmd/node/main.go:136`) produces
such an error by itself: it closes the store after Node.Stop, which does not wait for
campaigns, so until the process exits a campaign may still win its pre-vote, vote for
itself over the closed store and win. After its restart the node votes again in that
term. And in the simulated cluster a request that was delayed across a crash reaches
the stopped node, whose handler writes to the store that its successor has loaded.

## What is proved

For every number of nodes, callers, clients and replicas, and every value of the
bounds, TLAPS checks:

| Theorem | Statement | Assumes |
|---|---|---|
| `ElectionProofs!TypeCorrect` | `Spec => []TypeOK` | writes may fail |
| `ElectionProofs!AtMostOneLeader` | `Spec => []ElectionSafety` | `~StorageMayFail` |
| `ElectionProofs!VotesAreDurable` | `Spec => []VoteDurable` | `~StorageMayFail` |
| `ElectionProofs!VotesAreStable` | `Spec => VoteStable` | `~StorageMayFail` |
| `RaftProofs!RaftInvariantHolds` | `Spec => []RaftInv` | `~StorageMayFail` |
| `RaftProofs!RaftTyped` | `Spec => []TypeOK` | `~StorageMayFail` |
| `RaftProofs!LogsMatch` | `Spec => []LogMatching` | `~StorageMayFail` |
| `RaftProofs!LeadersAreComplete` | `Spec => []LeaderCompleteness` | `~StorageMayFail` |
| `RaftProofs!StateMachinesAgree` | `Spec => []StateMachineSafety` | `~StorageMayFail` |
| `RaftProofs!StatesAreReplays` | `Spec => []StateIsReplay` | `~StorageMayFail` |
| `RaftProofs!AcksAreDurable` | `Spec => []AckedIsDurable` | `~StorageMayFail` |
| `RaftProofs!IndicesStayInLog` | `Spec => []IndicesInLog` | `~StorageMayFail` |
| `RaftProofs!CommittedEntriesStay` | `Spec => CommittedStays` | `~StorageMayFail` |
| `RaftProofs!ClusterImplementsElection` | `Spec => ImplementsElection` | `~StorageMayFail` |
| `RaftReadsProofs!NoDeposedReader` | `ReadSpec => []NoReadByDeposedLeader` | `~StorageMayFail` |
| `RaftReadsProofs!ElectionsSafeBesideReads` | `ReadSpec => []E!ElectionSafety` | `~StorageMayFail` |
| `ProposalsProofs!ProposalsTyped` | `Spec => []TypeOK` | |
| `ProposalsProofs!WaitersStayCurrent` | `Spec => []WaitersAreCurrent` | |
| `ProposalsProofs!AnswersAreOwn` | `Spec => []OwnAnswer` | |
| `ProposalsProofs!OnlyLateCancelForgets` | `Spec => []OnlyLateCancelAbandons` | |
| `RoutingProofs!RequestsDoNotCircle` | `Spec => []NoForwardingCycle` | `~StorageMayFail` |
| `RoutingProofs!RequestsMoveForward` | `Spec => []NeverBackwards` | `~StorageMayFail` |
| `SessionsProofs!ReplicasShowTheReplay` | `Spec => []ReplicaIsReplay` | |
| `SessionsProofs!SongsAreConserved` | `Spec => []SongsConserved` | |
| `SessionsProofs!SessionsImplementSessionModel` | `Spec => ImplementsSessionModel` | |
| `SessionsProofs!SerialClientsSeeTheQueue` | `Spec => ImplementsQueueModel` | `MaxOutstanding = 1` |

All of them use the assumptions on constants in the modules: finitely many nodes,
`None` is none of them, bounds are numbers. `SessionsAssumption` says that a song id
is never the empty string (the server makes it of a client id, a dash and a sequence
number) and that a reorder names an integer.

**Elections.** `ElectionSafety` is not inductive. That no two nodes win a term follows
from two majorities sharing a node, and that node having one vote; but the votes
behind a past victory are gone from memory after a restart or a step-down. The
inductive invariant `SafetyInv` therefore adds what remains of them on disk:

- `Synced`: the hard state in memory is the one on disk;
- `HeldIsPledged`: every vote a candidate has counted, and every yes on its way, is a
  pledge of the voter: a hard state of that term naming the candidate, or a newer term;
- `HeldByOne`: no vote of a term is held by two candidates;
- `LeaderBacked`: behind every victory there is a majority that can no longer vote
  for anyone else in that term.

Each action is shown to preserve each of them; quorum intersection is a lemma from
`FiniteSetTheorems`. `~StorageMayFail` is needed: the invariant's first part is
exactly what an ignored write error breaks.

`ClaimsInv` adds what replication asks of elections: nobody asks for votes, in a
request in flight or in a round under way, with a log better than the one it has.

**Replication.** None of the properties of `Raft` is inductive, and each needs the
others: a follower never truncates below its commit index because the leader holds
everything committed; the leader does because a majority that acknowledged an entry
refuses its votes to anyone who lacks it; and that majority still holds the entry
because no late request makes it truncate what it acknowledged. `RaftInv` therefore
carries all of it at once:

- `NodesFit`, `RequestsFit`: what is on disk is what is in memory; snapshots are of
  applied entries; a request in flight comes from the winner of its term and ends with
  an entry of that term or with an applied one.
- `TermsSound`, `Coherent`, `WinnersOwn`: a node's log, its compacted part included,
  and the piece of a log that each request carries, all belong to one history. Coherent
  is stronger than log matching: an entry is never written below the first entry of its
  term, which is what makes the conflict hints and the splice of AppendEntries sound.
- `Secured(k, t)`: nobody wins a later election without the entry of term t at index k.
  For every later term not yet won there is a majority whose members vote, and have
  voted, for no candidate that lacks it; votes on their way count, and so do campaigns
  begun in a pre-vote round, whose log position may be out of date.
- `AcksHold`, `AcksSecure`: a peer still holds what it acknowledged, or is about to;
  and each peer that acknowledged an entry of the leader's own term shields it in the
  elections to come. So once a majority has, the entry is secured, and the commit rule
  of `advanceCommitLocked` is right. An entry whose majority has moved on to later
  terms (`Blocked`) can no longer be committed by this leader.
- `CommitsSecured`, `AppliedSettled`: whatever is committed, under a snapshot, or
  claimed as committed by a request in flight, is secured; what is applied lies under a
  secured entry.

A step is summarised by what it does to one node's log: it stays (`Same`), takes over a
piece of a leader's log up to the first conflict (`Took`), is cut or emptied by a crash
between two writes, or grows by an entry of a term the node leads. `RaftInvariant`
proves that any step of these kinds, with votes and acknowledgements that only grow,
preserves the invariant; `RaftHandlers` that each action is such a step
(`StepOk`); `RaftProofs` joins them. The same case analysis gives the refinement: where
a log may end after a step is what `Election` lets its `lastPos` do. The theorems speak
of `Spec`, from the empty cluster on and with every schedule; the runs start after the
first election and restrict schedules as described above.

**Snapshots and the state machine.** `StateIsReplay` needs more than `RaftInv`:
InstallSnapshot replaces the state machine without looking at lastApplied, so no
snapshot that can still be installed may be older than what its receiver has applied.
That rests on the books of the leader. `ReplayInv` adds them to `RaftInv`:

- `Safe(p, t, s)`: no AppendEntries of term t, whenever it is handled, makes p commit
  beyond index s unless p's own snapshot is then as new. Every snapshot in flight is
  safe for its receiver (`SnapshotsSafe`), and so is the one a leader would send next
  (`NextSafe`).
- `OneCall`: a replication loop has one call under way and one answer to it, so of all
  the requests and replies between two nodes only one still counts.
- `PairFits`: what nextIndex and matchIndex say of the peer. Until a first success
  nextIndex only falls, and a refusal that counts says that the peer lacks the leader's
  entry at nextIndex - 1 (`Narrows`), hence can accept none of the requests abandoned
  before it. No commit index in flight is above the leader's own.
- `Retired`: who has led and crashed does not lead the same term again, so the books of
  a term are those of one leadership.

A leader compacts at or below its commit index, which no commit index it has sent
exceeds. When it sends a snapshot, then, what the peer may still commit by an older
request lies under that snapshot, or the peer's own snapshot is as new. One lemma per
action shows that the books stay right; `SnapshotsAreReplays` (a snapshot holds the
state its entries lead to) does the rest.

`~StorageMayFail` excludes failing writes of the hard state, as in `Election`; writes of
the log and the snapshot do not fail in the model. `Raft` has no reads, and with the
heartbeats of `RaftReads` the theorems are false: finding 1.

**Reads.** `RaftInv` does not hold beside a read (finding 1), so the proof uses only
the part of the election's invariant that speaks of terms and votes: `VotesInv` in
`ElectionProofs`, which says nothing of where logs end and therefore survives whatever
heartbeats do to them. `ReadInv` adds that a read which began after a newer leader was
elected has lost a majority for good (`GivenUp`): its members are in newer terms, have
not said yes, and no yes of theirs is on its way, a second delivery of a heartbeat
included. Such a majority exists when the read begins, because behind the newer
leader's victory stands one (`LeaderBacked`). A yes takes a request of the receiver's
own term or a newer one, so no step can give one. confirmLeadership needs a majority,
which would share a node with the other.

**Proposals.** The inductive invariant `Inv` joins to the type of the state, and to the
three properties, what Submit's critical section promises a caller between its steps:
`CallsFit` (a caller that has proposed knows an index and a term at which the log holds
its entry, or the log of that leadership is gone; an answer in its channel was sent by
an apply of that index or by failPending) and `SlotsDistinct` (no two callers that are
entitled to the same waiter slot belong to the same leadership). `OwnAnswer` needs
`WaitersAreCurrent`: an entry is applied for whoever waits at its index, so it is the
clearing of the waiters at every change of leadership that makes the answer the
caller's own. The flaw described above is the one exception `OnlyLateCancelAbandons`
has to make, and the proof shows that it is the only one.

**Routing.** `NamesInv` gives every node the term of the leadership that its leaderID
stands for: not above its own term, that leadership was won by the node named, and a
node that names itself leads or has led. With `ElectionSafety` (the invariant
of the election is a part of `RoutingInv`) a term has one leader, so along a chain of
forwards between different nodes these terms grow; a finite cycle would contain a
largest one. `RequestFits` ties the request under way to the terms of the nodes it has
visited.

**Sessions.** `SessionsInv` says where everything a replica shows comes from. `CallsFit`
and `LogFits`: an entry of the log was asked for by its client, with that sequence
number, and no two calls enqueue one song. `ReplayFits`: each state of the replay is
what `Apply` makes of the one before it, well formed, with every song in one place and
the songs of exactly the enqueues that took effect, and its session table remembers
every session in the log. `ReplicasFit`: a replica's state and its snapshot are the
replay's states at its lastApplied and at the snapshot's index. Half of the proof is
about `Jukebox`: that each command conserves the songs, reorder (a removal and an
insertion at a clamped place) and play-next included.

For the two refinements of `QueueModel`, `RefinementInv` adds two facts about the calls.
`EffectsFit`: a call has had an effect at most once, and then its session has reached
its number, so a second proposal of it changes nothing and neither does a proposal that
a later one has overtaken. `SessionsRemember`: the result that a session keeps, at
every point of the replay, is what the call it has reached saw, and it is what every
entry of that session is answered with from there on. `CommitRefines` then shows that a
commit takes effect in the order of the session or shows nothing: each command does to
the queue what the harness's sequential model says (`InnerEffects`, in which the
insertion at a clamped place becomes the model's move). `ApplyNextRefines` shows that a
client is told what its own call saw, or a later one that overtook it, whichever replica
answers and however far behind it is. With one call of each client at a time
(`LastOpen`: only a client's last call is ever under way) there is no later one, and
every step is one of the sequential queue itself.

### What is only model-checked, and why

- Liveness (`CommittedIsApplied`, `CommittedIsAnswered`): fairness and ENABLED are out of
  the prover's reach.
- What the runs that expect a violation show: each is a counterexample.

## Not modelled

- Marshalling, connection handling and logging (`grpc.go`, `raft.pb.go`), the web
  pages, the bindings of the browser demo, flags and wiring of the commands, the
  benchmarks, metrics and status pages: no state of the protocol.
- A failing write of the log or of a snapshot, and errors of `Restore`: like those of
  the hard state they are only logged, and nothing that is claimed survives them.
- The shutdown sequence of the command, and two incarnations of one simulated node on
  one store (both described above).
- More than one read at once: reads share nothing but the messages they send.
- More than one forwarded request at once: a request changes nothing but the log.
- The chaos harness's search for a linearization: its sequential model is
  `QueueModel`.

## Plan

Done: all modules above, and the theorems about `Election`, `Raft`, `RaftReads`,
`Proposals`, `Routing` and `Sessions`. Next, in this order:

1. Replication liveness: a connected follower catches up after conflicts and
   snapshots.
2. Errors of log and snapshot writes, and the shutdown sequence.
