----------------------------- MODULE QueueModel -----------------------------
(***************************************************************************)
(* What the jukebox promises its clients, as the chaos harness checks it   *)
(* (chaos/model.go): every operation takes effect atomically, at most      *)
(* once, between its call and its return, and returns what it saw then.    *)
(* This is Spec, whatever calls of one client are under way at once.       *)
(*                                                                         *)
(* enqueue and play-next are the harness's sequential queue. A vote to     *)
(* skip may or may not advance the queue; a reorder moves one song.        *)
(*                                                                         *)
(* SessionSpec is what the session table of the jukebox gives instead. It  *)
(* is not linearizable: a call that a later one of the same client has     *)
(* overtaken never takes effect, and yet returns what the later one saw.   *)
(***************************************************************************)
EXTENDS Integers, Sequences, SequencesExt

CONSTANTS
    Client, None,
    Command  \* what a client may ask for

VARIABLES
    queue,
    playing,
    asked,    \* per client: what it has asked for, in the order of its sequence numbers
    outcome,  \* of each call that has taken effect: what it saw
    answer    \* of each call that has returned: what it was told

queueVars == <<queue, playing, asked, outcome, answer>>

\* The function f, with x for k.
With(f, k, x) == [i \in DOMAIN f \cup {k} |-> IF i = k THEN x ELSE f[i]]

Refusal == [ok |-> FALSE, playing |-> None]

Init ==
    /\ queue   = <<>>
    /\ playing = None
    /\ asked   = [c \in Client |-> <<>>]
    /\ outcome = <<>>
    /\ answer  = <<>>

Invoke(c, cmd) ==
    /\ asked' = [asked EXCEPT ![c] = Append(@, cmd)]
    /\ UNCHANGED <<queue, playing, outcome, answer>>

Dequeue ==
    /\ playing' = IF queue = <<>> THEN None ELSE Head(queue)
    /\ queue'   = IF queue = <<>> THEN queue ELSE Tail(queue)

\* The song is at index to, or at the nearer end; the others keep their order.
Move(song, to) ==
    LET i == SelectInSeq(queue', LAMBDA s : s = song) IN
    /\ i # 0
    /\ \/ i = to + 1
       \/ to < 0 /\ i = 1
       \/ to >= Len(queue) /\ i = Len(queue)
    /\ RemoveAt(queue', i) = RemoveFirst(queue, song)
    /\ playing' = playing

Effect(cmd) ==
    CASE cmd.op = "enqueue"   -> queue' = Append(queue, cmd.song) /\ playing' = playing
      [] cmd.op = "play-next" -> Dequeue
      [] cmd.op = "vote-skip" -> Dequeue \/ UNCHANGED <<queue, playing>>
      [] cmd.op = "reorder"   -> Move(cmd.song, cmd.to)

\* The operation has nothing to act on.
Refused(cmd) ==
    \/ cmd.op = "enqueue" /\ cmd.song = None
    \/ cmd.op = "vote-skip" /\ playing = None
    \/ cmd.op = "reorder" /\ ~\E i \in 1..Len(queue) : queue[i] = cmd.song

Execute(c, s) ==
    LET cmd == asked[c][s] IN
    /\ <<c, s>> \notin DOMAIN outcome
    /\ \/ /\ Refused(cmd)
          /\ outcome' = With(outcome, <<c, s>>, Refusal)
          /\ UNCHANGED <<queue, playing>>
       \/ /\ ~Refused(cmd)
          /\ Effect(cmd)
          /\ outcome' = With(outcome, <<c, s>>, [ok |-> TRUE, playing |-> playing'])
    /\ UNCHANGED <<asked, answer>>

\* It returns what it saw.
Return(c, s) ==
    /\ <<c, s>> \in DOMAIN outcome \ DOMAIN answer
    /\ answer' = With(answer, <<c, s>>, outcome[<<c, s>>])
    /\ UNCHANGED <<queue, playing, asked, outcome>>

Next ==
    \E c \in Client :
        \/ \E cmd \in Command : Invoke(c, cmd)
        \/ \E s \in 1..Len(asked[c]) : Execute(c, s) \/ Return(c, s)

Spec == Init /\ [][Next]_queueVars

-----------------------------------------------------------------------------
\* A later call of the same client has taken effect.
Overtaken(c, s) == \E t \in s + 1 .. Len(asked[c]) : <<c, t>> \in DOMAIN outcome

\* It returns what a later call of the same client saw, whether or not it has
\* taken effect itself.
ReturnLater(c, s) ==
    /\ <<c, s>> \notin DOMAIN answer
    /\ \E t \in s + 1 .. Len(asked[c]) :
          /\ <<c, t>> \in DOMAIN outcome
          /\ answer' = With(answer, <<c, s>>, outcome[<<c, t>>])
    /\ UNCHANGED <<queue, playing, asked, outcome>>

SessionNext ==
    \E c \in Client :
        \/ \E cmd \in Command : Invoke(c, cmd)
        \/ \E s \in 1..Len(asked[c]) :
              \/ ~Overtaken(c, s) /\ Execute(c, s)
              \/ Return(c, s)
              \/ ReturnLater(c, s)

SessionSpec == Init /\ [][SessionNext]_queueVars

=============================================================================
