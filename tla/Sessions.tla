------------------------------ MODULE Sessions ------------------------------
(***************************************************************************)
(* Clients of the jukebox (internal/client, and Submit of                  *)
(* internal/cluster) and the replicas that serve them. A client retries a  *)
(* command until one of its proposals is answered, or gives up; a proposal *)
(* may commit late, out of order, beside its retries, or never.            *)
(*                                                                         *)
(* Raft is abstracted to what it guarantees: one committed log, of which   *)
(* every replica applies a prefix, after a crash again from its snapshot.  *)
(***************************************************************************)
EXTENDS Jukebox

CONSTANTS
    Replica,
    MaxCalls,        \* bound: calls of all clients together
    MaxLog,          \* bound: committed entries
    MaxFaults,       \* bound: retries, calls given up, leader changes, snapshots loaded
    SnapshotThreshold,
    MaxOutstanding,  \* calls of one client under way at once
    ToIndex          \* targets of a reorder

VARIABLES
    calls,    \* per client: its calls, in the order of their sequence numbers
    log,      \* the committed commands
    applied,  \* per replica: lastApplied
    st,       \* per replica: the jukebox
    saved,    \* per replica: its snapshot and the index it covers
    replay,   \* history: the jukebox after each entry of the log
    faults    \* how many retries, calls given up, leader changes, snapshots loaded

sessionVars == <<calls, log, applied, st, saved, replay, faults>>

-----------------------------------------------------------------------------
\* The ID the HTTP server gives a song when the request names none, which the
\* requests of internal/client never do: client id and sequence number.
SongID == Client \X (1..MaxCalls)

\* No song ID is the empty string, and a reorder names an int.
ASSUME SessionsAssumption == None \notin SongID /\ ToIndex \subseteq Int

\* What a client may ask for; client and seq are filled in when it calls. Songs
\* have titles and a vote is the client's own: Jukebox covers the other cases.
Command ==
    {[op |-> "enqueue", song |-> s, to |-> 0, voter |-> None] : s \in SongID}
    \cup {[op |-> op, song |-> None, to |-> 0, voter |-> None] : op \in {"play-next", "vote-skip"}}
    \cup {[op |-> "reorder", song |-> s, to |-> i, voter |-> None] : s \in SongID, i \in ToIndex}

Asked(c, s, cmd) == [op |-> cmd.op, client |-> c, seq |-> s, song |-> cmd.song,
                     to |-> cmd.to, voter |-> cmd.voter]

Init ==
    /\ calls   = [c \in Client |-> <<>>]
    /\ log     = <<>>
    /\ applied = [r \in Replica |-> 0]
    /\ st      = [r \in Replica |-> New]
    /\ saved   = [r \in Replica |-> [index |-> 0, image |-> New]]
    /\ replay  = <<>>
    /\ faults  = 0

Outstanding(c) == {s \in 1..Len(calls[c]) : calls[c][s].phase = "open"}

SumCalls == MapThenSumSet(LAMBDA c : Len(calls[c]), Client)

\* The IDs a client can have seen: songs that somebody has asked to enqueue.
SongsNamed == UNION {{calls[c][s].cmd.song : s \in 1..Len(calls[c])} : c \in Client} \ {None}

\* Client.do: take a sequence number and make the first proposal.
Call(c, cmd) ==
    LET s == Len(calls[c]) + 1 IN
    /\ SumCalls < MaxCalls
    /\ Cardinality(Outstanding(c)) < MaxOutstanding
    /\ cmd.op = "enqueue" => cmd.song = <<c, s>>
    /\ cmd.op = "reorder" => cmd.song \in SongsNamed
    /\ calls' = [calls EXCEPT ![c] = Append(@,
                   [cmd |-> cmd, phase |-> "open", proposals |-> 1, res |-> NoResult,
                    effect |-> {}])]
    /\ UNCHANGED <<log, applied, st, saved, replay, faults>>

\* What makes a history hard is bounded as a whole.
Fault == faults < MaxFaults /\ faults' = faults + 1

\* Another attempt, after an error or a timeout: a second proposal of the same
\* command, with the same sequence number.
Retry(c, s) ==
    /\ Fault
    /\ calls[c][s].phase = "open"
    /\ calls' = [calls EXCEPT ![c][s].proposals = @ + 1]
    /\ UNCHANGED <<log, applied, st, saved, replay>>

\* The attempts are used up or the context has ended.
GiveUp(c, s) ==
    /\ Fault
    /\ calls[c][s].phase = "open"
    /\ calls' = [calls EXCEPT ![c][s].phase = "failed"]
    /\ UNCHANGED <<log, applied, st, saved, replay>>

Committed(c, s) == {i \in 1..Len(log) : log[i].client = c /\ log[i].seq = s}

\* The jukebox after the first i entries of the log.
ReplayedTo(i) == IF i = 0 THEN New ELSE replay[i]

\* An entry is committed at the end of the log.
CommitEntry(cmd) ==
    /\ Len(log) < MaxLog
    /\ log'    = Append(log, cmd)
    /\ replay' = Append(replay, Apply(ReplayedTo(Len(log)), cmd).st)
    /\ UNCHANGED <<applied, st, saved>>

\* A proposal commits, whatever its caller does by then. History: effect is what
\* the call does, unless its session has moved past it.
Commit(c, s) ==
    LET cmd == Asked(c, s, calls[c][s].cmd)
        now == ReplayedTo(Len(log))
    IN
    /\ Cardinality(Committed(c, s)) < calls[c][s].proposals
    /\ CommitEntry(cmd)
    /\ UNCHANGED faults
    /\ calls' = [calls EXCEPT ![c][s].effect =
                   IF Repeated(now, cmd) THEN @ ELSE @ \cup {applyInner(now, cmd).res}]

\* A new leader's no-op commits.
CommitNoop ==
    /\ Fault
    /\ CommitEntry(Noop)
    /\ UNCHANGED calls

\* applyReady at r, with commitIndex one further. The waiter of the proposal, if it
\* is at r, gets the result and answers the client; then the log, which is taken to
\* hold what is committed, is compacted.
ApplyNext(r) ==
    LET i   == applied[r] + 1
        cmd == log[i]
        out == Apply(st[r], cmd)
    IN
    /\ i <= Len(log)
    /\ st' = [st EXCEPT ![r] = out.st]
    /\ applied' = [applied EXCEPT ![r] = i]
    /\ \/ UNCHANGED calls
       \/ /\ cmd # Noop
          /\ calls[cmd.client][cmd.seq].phase = "open"
          /\ calls' = [calls EXCEPT ![cmd.client][cmd.seq].phase = "done",
                                    ![cmd.client][cmd.seq].res = out.res]
    /\ saved' = IF Len(log) - saved[r].index > SnapshotThreshold
                THEN [saved EXCEPT ![r] = [index |-> i, image |-> out.st]]
                ELSE saved
    /\ UNCHANGED <<log, replay, faults>>

\* A restart loads r's own snapshot (loadFromStorage), or r installs one another
\* replica took: a leader sends it only for entries r's log lacks, so r has not
\* applied them.
LoadSnapshot(r, from) ==
    /\ Fault
    /\ r = from \/ saved[from].index > applied[r]
    /\ st'      = [st EXCEPT ![r] = IF saved[from].index = 0 THEN New
                                    ELSE Restore(saved[from].image)]
    /\ applied' = [applied EXCEPT ![r] = saved[from].index]
    /\ saved'   = [saved EXCEPT ![r] = saved[from]]
    /\ UNCHANGED <<calls, log, replay>>

Next ==
    \/ \E c \in Client :
          \/ \E cmd \in Command : Call(c, cmd)
          \/ \E s \in 1..Len(calls[c]) : Retry(c, s) \/ GiveUp(c, s) \/ Commit(c, s)
    \/ CommitNoop
    \/ \E r \in Replica : \/ ApplyNext(r)
                          \/ \E from \in Replica : LoadSnapshot(r, from)

Spec == Init /\ [][Next]_sessionVars

-----------------------------------------------------------------------------
(***************************************************************************)
(* Properties.                                                             *)
(***************************************************************************)

\* Every replica is where replaying the log alone would take it, whatever
\* snapshots and restarts lie behind it (Snapshot, Restore): two replicas that
\* have applied the same entries show the same jukebox.
ReplicaIsReplay == \A r \in Replica : st[r] = ReplayedTo(applied[r])

\* No song is lost or doubled: the songs enqueued, once for each call that took
\* effect, are the songs queued, playing or played (applyInner, Apply).
SongsConserved ==
    \A r \in Replica :
        LET kept    == st[r].queue \o st[r].history
                         \o (IF st[r].nowPlaying = None THEN <<>> ELSE <<st[r].nowPlaying>>)
            effects == {i \in 1..applied[r] : ~Repeated(ReplayedTo(i - 1), log[i])}
            added   == {log[i].song : i \in {j \in effects : log[j].op = "enqueue"}} \ {None}
        IN  ToSet(kept) = added /\ Len(kept) = Cardinality(added)

\* The refinement: an operation takes effect when it commits for the first time
\* and its session has not moved past it.
CallsWhere(P(_)) == {k \in UNION {{c} \X (1..Len(calls[c])) : c \in Client} :
                       P(calls[k[1]][k[2]])}

\* The jukebox after the whole log.
Now == ReplayedTo(Len(log))

\* What clients have asked for, what took effect, and what they were told.
AskedFor == [c \in Client |-> [s \in 1..Len(calls[c]) |-> calls[c][s].cmd]]

Output(res) == [ok |-> res.ok, playing |-> res.nowPlaying]

Saw(call) == Output(CHOOSE res \in call.effect : TRUE)

Outcomes == [k \in CallsWhere(LAMBDA call : call.effect # {}) |-> Saw(calls[k[1]][k[2]])]

Answers == [k \in CallsWhere(LAMBDA call : call.phase = "done") |->
              Output(calls[k[1]][k[2]].res)]

Q == INSTANCE QueueModel WITH
        queue   <- Now.queue,
        playing <- Now.nowPlaying,
        asked   <- AskedFor,
        outcome <- Outcomes,
        answer  <- Answers

\* The jukebox is linearizable and each call takes effect at most once: an
\* answered call has taken effect and is told what it saw (chaos/model.go; "Client
\* is safe for concurrent use", client.go). It holds while every client makes one
\* call at a time. With two under way do hands out their numbers before it sends
\* them, the later may commit first, and Apply takes the earlier for a retry: it
\* never takes effect and is answered with what the later one saw.
ImplementsQueueModel == Q!Spec

\* What holds however many calls of a client are under way, and however their
\* proposals are delayed, repeated and reordered: no call takes effect twice, or
\* after a later one of its client, and none is told anything but what it saw or
\* what a later call of its client saw (Apply, Client.do, applyReady).
ImplementsSessionModel == Q!SessionSpec

=============================================================================
