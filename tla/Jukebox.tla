------------------------------- MODULE Jukebox ------------------------------
(***************************************************************************)
(* The state machine the log drives (internal/jukebox): a queue of songs,  *)
(* the song that plays, the votes to skip it, and the client sessions that *)
(* make a retried command take effect once.                                *)
(*                                                                         *)
(* A song is its ID. An enqueue whose song is None is one without a title. *)
(***************************************************************************)
EXTENDS Integers, Sequences, FiniteSets, SequencesExt

CONSTANTS
    Client,        \* client ids
    None,          \* no song, no voter, no client
    SkipThreshold  \* votes that skip the song that plays (3 in New)

ASSUME JukeboxAssumption == None \notin Client /\ SkipThreshold \in Nat \ {0}

NoResult == [ok |-> FALSE, nowPlaying |-> None, queue |-> <<>>, skipVotes |-> 0]

New == [queue |-> <<>>, nowPlaying |-> None, history |-> <<>>, skipVotes |-> {},
        lastSeq    |-> [c \in Client |-> 0],
        lastResult |-> [c \in Client |-> NoResult]]

Noop == [op |-> "noop", client |-> None, seq |-> 0, song |-> None, to |-> 0, voter |-> None]

-----------------------------------------------------------------------------
\* snapshotResult: what a command that succeeded shows of the state st.
snapshotResult(st) == [ok |-> TRUE, nowPlaying |-> st.nowPlaying, queue |-> st.queue,
                       skipVotes |-> Cardinality(st.skipVotes)]

\* A command of applyInner leaves the state st behind and returns res.
Succeeds(st) == [st |-> st, res |-> snapshotResult(st)]
Fails(st)    == [st |-> st, res |-> NoResult]

Enqueue(st, song) == [st EXCEPT !.queue = Append(@, song)]

\* The song that played goes to the history, the first one queued plays.
Bug_ForgetsPlayed(st) ==
    [st EXCEPT
        !.nowPlaying = IF st.queue = <<>> THEN None ELSE Head(st.queue),
        !.queue      = IF @ = <<>> THEN @ ELSE Tail(@),
        !.skipVotes  = {}]
PlayNext(st) ==
    [st EXCEPT
        !.history    = IF st.nowPlaying = None THEN @ ELSE Append(@, st.nowPlaying),
        !.nowPlaying = IF st.queue = <<>> THEN None ELSE Head(st.queue),
        !.queue      = IF @ = <<>> THEN @ ELSE Tail(@),
        !.skipVotes  = {}]

VoteSkip(st, voter) ==
    LET voted == [st EXCEPT !.skipVotes = @ \cup {voter}] IN
    IF Cardinality(voted.skipVotes) >= SkipThreshold THEN PlayNext(voted) ELSE voted

\* The song at position from moves to the 0-based index to, cut to the queue.
Moved(q, from, to) ==
    LET at == Min({Max({to, 0}), Len(q) - 1}) + 1 IN
    InsertAt(RemoveAt(q, from), at, q[from])

\* The first position of song in the queue, 0 if it is not there.
Position(st, song) == SelectInSeq(st.queue, LAMBDA s : s = song)

Voter(c) == IF c.voter # None THEN c.voter ELSE c.client

applyInner(st, c) ==
    CASE c.op = "noop" -> [st |-> st, res |-> [NoResult EXCEPT !.ok = TRUE]]
      [] c.op = "enqueue" ->
           IF c.song = None THEN Fails(st) ELSE Succeeds(Enqueue(st, c.song))
      [] c.op = "play-next" -> Succeeds(PlayNext(st))
      [] c.op = "vote-skip" ->
           IF st.nowPlaying = None \/ Voter(c) = None THEN Fails(st)
           ELSE Succeeds(VoteSkip(st, Voter(c)))
      [] c.op = "reorder" ->
           IF Position(st, c.song) = 0 THEN Fails(st)
           ELSE Succeeds([st EXCEPT !.queue = Moved(@, Position(st, c.song), c.to)])

\* The command belongs to a session, which has already moved past it.
HasSession(c) == c.client # None /\ c.seq # 0
Bug_NeverRepeated(st, c) == FALSE
Repeated(st, c) == HasSession(c) /\ c.seq <= st.lastSeq[c.client]

Apply(st, c) ==
    LET out == applyInner(st, c) IN
    IF Repeated(st, c) THEN [st |-> st, res |-> st.lastResult[c.client]]
    ELSE IF HasSession(c)
         THEN [out EXCEPT !.st.lastSeq[c.client]    = c.seq,
                          !.st.lastResult[c.client] = out.res]
         ELSE out

\* Restore of the image img that Snapshot took: every field is replaced, the
\* sessions too.
Bug_RestoresNoSessions(img) ==
    [New EXCEPT !.queue = img.queue, !.nowPlaying = img.nowPlaying,
                !.history = img.history, !.skipVotes = img.skipVotes]
Restore(img) ==
    [New EXCEPT !.queue = img.queue, !.nowPlaying = img.nowPlaying,
                !.history = img.history, !.skipVotes = img.skipVotes,
                !.lastSeq = img.lastSeq, !.lastResult = img.lastResult]

=============================================================================
