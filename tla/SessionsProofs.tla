--------------------------- MODULE SessionsProofs ---------------------------
(***************************************************************************)
(* Proofs about Sessions: every replica shows what replaying the log alone *)
(* shows, no song is lost or doubled, and clients see what QueueModel      *)
(* promises them: the sequential queue if each makes one call at a time,   *)
(* and what the session table gives otherwise.                             *)
(***************************************************************************)
EXTENDS Sessions, FiniteSetTheorems, SequenceTheorems, NaturalsInduction, TLAPS

-----------------------------------------------------------------------------
(***************************************************************************)
(* Sequences of songs.                                                     *)
(***************************************************************************)

LEMMA MinOfNats ==
  ASSUME NEW T \in SUBSET Nat, T # {}
  PROVE  Min(T) \in T /\ \A z \in T : Min(T) <= z
  <1> DEFINE R == OpToRel(<, Nat)
  <1>1. IsWellFoundedOn(R, Nat)
    BY NatLessThanWellFounded
  <1>2. \A x, y \in Nat : <<x, y>> \in R <=> x < y
    BY DEF OpToRel
  <1> HIDE DEF R
  <1>3. PICK y \in T : \A z \in T : ~(<<z, y>> \in R)
    BY <1>1, WFMin
  <1>4. ASSUME NEW z \in T PROVE y <= z
    <2>1. z \in Nat /\ y \in Nat /\ ~(z < y)
      BY <1>2, <1>3
    <2> QED
      BY <2>1
  <1>5. \E x \in T : \A z \in T : x <= z
    BY <1>4
  <1> QED
    BY <1>5 DEF Min

LEMMA ConcatIs ==
  ASSUME NEW S, NEW s \in Seq(S), NEW t \in Seq(S), NEW n \in Nat, NEW k \in Nat,
         Len(s) = k, Len(t) = n - k
  PROVE  /\ s \o t \in Seq(S) /\ Len(s \o t) = n
         /\ \A i \in 1..n : (s \o t)[i] = IF i <= k THEN s[i] ELSE t[i - k]
  <1>1. Len(s) + Len(t) = n
    OBVIOUS
  <1> QED
    BY <1>1, ConcatProperties

\* No element occurs twice.
Injective(s) == \A i, j \in 1..Len(s) : s[i] = s[j] => i = j

Apart(s, t) == \A i \in 1..Len(s), j \in 1..Len(t) : s[i] # t[j]

\* What is left of a sequence without its element at from.
LEMMA RemovedShape ==
  ASSUME NEW S, NEW q \in Seq(S), NEW from \in 1..Len(q)
  PROVE  /\ RemoveAt(q, from) \in Seq(S)
         /\ Len(RemoveAt(q, from)) = Len(q) - 1
         /\ \A i \in 1 .. Len(q) - 1 :
              RemoveAt(q, from)[i] = IF i < from THEN q[i] ELSE q[i + 1]
  <1> DEFINE L == Len(q)
             r == RemoveAt(q, from)
  <1>1. L \in Nat /\ from \in 1..L /\ \A i \in 1..L : q[i] \in S
    BY LenProperties, ElementOfSeq
  <1> DEFINE a == SubSeq(q, 1, from - 1)
             b == SubSeq(q, from + 1, L)
  <1>2. /\ a \in Seq(S) /\ Len(a) = from - 1
        /\ \A i \in 1 .. from - 1 : a[i] = q[i]
    BY <1>1, SubSeqProperties
  <1>3. /\ b \in Seq(S) /\ Len(b) = L - from
        /\ \A i \in 1 .. L - from : b[i] = q[from + i]
    BY <1>1, SubSeqProperties
  <1>4. r = a \o b
    BY DEF RemoveAt
  <1> HIDE DEF a, b, r
  <1>5. /\ r \in Seq(S) /\ Len(r) = L - 1
        /\ \A i \in 1 .. L - 1 : r[i] = IF i <= from - 1 THEN a[i] ELSE b[i - (from - 1)]
    <2>1. L - 1 \in Nat /\ from - 1 \in Nat /\ L - from = (L - 1) - (from - 1)
      BY <1>1
    <2>2. Len(b) = (L - 1) - (from - 1)
      BY <1>3, <2>1
    <2>3. /\ a \o b \in Seq(S) /\ Len(a \o b) = L - 1
          /\ \A i \in 1 .. L - 1 : (a \o b)[i] = IF i <= from - 1 THEN a[i] ELSE b[i - (from - 1)]
      BY <1>2, <1>3, <2>1, <2>2, ConcatIs
    <2> QED
      BY <1>4, <2>3
  <1>6. ASSUME NEW i \in 1 .. L - 1 PROVE r[i] = IF i < from THEN q[i] ELSE q[i + 1]
    <2>1. CASE i < from
      BY <1>1, <1>2, <1>5, <2>1
    <2>2. CASE ~(i < from)
      <3>1. i - (from - 1) \in 1 .. L - from
        BY <1>1, <2>2
      <3>2. r[i] = b[i - (from - 1)]
        BY <1>1, <1>5, <2>2
      <3>3. b[i - (from - 1)] = q[from + (i - (from - 1))]
        BY <1>3, <3>1
      <3>4. from + (i - (from - 1)) = i + 1
        BY <1>1
      <3> QED
        BY <2>2, <3>2, <3>3, <3>4
    <2> QED
      BY <2>1, <2>2
  <1> QED
    BY <1>5, <1>6 DEF r

\* What the move of reorder does, position by position.
LEMMA MovedShape ==
  ASSUME NEW S, NEW q \in Seq(S), NEW from \in 1..Len(q), NEW to \in Int
  PROVE  \E at \in 1..Len(q) :
            /\ at = to + 1 \/ (to < 0 /\ at = 1) \/ (to >= Len(q) /\ at = Len(q))
            /\ Moved(q, from, to) \in Seq(S)
            /\ Len(Moved(q, from, to)) = Len(q)
            /\ \A i \in 1..Len(q) :
                 Moved(q, from, to)[i] =
                   IF i = at THEN q[from]
                   ELSE LET j == IF i < at THEN i ELSE i - 1
                        IN  IF j < from THEN q[j] ELSE q[j + 1]
  <1> DEFINE L  == Len(q)
             hi == Max({to, 0})
             at == Min({hi, L - 1}) + 1
             r  == RemoveAt(q, from)
             lo == SubSeq(r, 1, at - 1)
             up == SubSeq(r, at, Len(r))
  <1>1. L \in Nat /\ from \in 1..L /\ \A i \in 1..L : q[i] \in S
    BY LenProperties, ElementOfSeq
  <1>2. hi \in Nat /\ hi = IF to >= 0 THEN to ELSE 0
    <2>1. hi = IF to >= 0 THEN to ELSE 0
      BY DEF Max
    <2> QED
      BY <2>1
  <1>3. at \in 1..L /\ (at = to + 1 \/ (to < 0 /\ at = 1) \/ (to >= L /\ at = L))
    <2> HIDE DEF hi
    <2>0. L \in Nat \ {0} /\ hi \in Int /\ L - 1 \in Int
      BY <1>1, <1>2
    <2>1. Min({hi, L - 1}) = IF hi <= L - 1 THEN hi ELSE L - 1
      BY <2>0 DEF Min
    <2> QED
      BY <1>1, <1>2, <2>0, <2>1
  <1> HIDE DEF hi, at
  <1>4. /\ r \in Seq(S)
        /\ Len(r) = L - 1
        /\ \A i \in 1 .. L - 1 : r[i] = IF i < from THEN q[i] ELSE q[i + 1]
    BY RemovedShape
  <1> HIDE DEF r
  <1>5. /\ lo \in Seq(S) /\ Len(lo) = at - 1
        /\ \A i \in 1 .. at - 1 : lo[i] = r[i]
    <2>1. \A i \in 1 .. at - 1 : r[i] \in S
      BY <1>1, <1>3, <1>4, ElementOfSeq
    <2> QED
      BY <1>1, <1>3, <2>1, SubSeqProperties
  <1>6. /\ up \in Seq(S) /\ Len(up) = L - at
        /\ \A i \in 1 .. L - at : up[i] = r[at + i - 1]
    <2>1. \A i \in at .. L - 1 : r[i] \in S
      BY <1>1, <1>3, <1>4, ElementOfSeq
    <2>2. /\ SubSeq(r, at, L - 1) \in Seq(S)
          /\ Len(SubSeq(r, at, L - 1)) = IF at <= L - 1 THEN L - 1 - at + 1 ELSE 0
          /\ \A i \in 1 .. L - 1 - at + 1 : SubSeq(r, at, L - 1)[i] = r[at + i - 1]
      BY <1>1, <1>3, <2>1, SubSeqProperties
    <2> QED
      BY <1>1, <1>3, <1>4, <2>2
  <1>7. Moved(q, from, to) = lo \o <<q[from]>> \o up
    BY <1>4 DEF Moved, InsertAt, at, hi, r
  <1> HIDE DEF lo, up
  <1> DEFINE x == <<q[from]>>
             lx == lo \o x
             m  == lx \o up
  <1>8. x \in Seq(S) /\ Len(x) = 1 /\ x[1] = q[from]
    BY <1>1
  <1> HIDE DEF x
  <1>9. /\ lx \in Seq(S) /\ Len(lx) = at
        /\ \A i \in 1 .. at : lx[i] = IF i <= at - 1 THEN lo[i] ELSE x[i - (at - 1)]
    <2>1. at \in Nat /\ at - 1 \in Nat /\ 1 = at - (at - 1)
      BY <1>3
    <2>2. Len(lo) + Len(x) = at
      BY <1>5, <1>8, <2>1
    <2>3. /\ lo \o x \in Seq(S) /\ Len(lo \o x) = at
          /\ \A i \in 1 .. at : (lo \o x)[i] = IF i <= at - 1 THEN lo[i] ELSE x[i - (at - 1)]
      <3>1. lo \in Seq(S) /\ x \in Seq(S) /\ Len(lo) = at - 1
        BY <1>5, <1>8
      <3>2. /\ lo \o x \in Seq(S)
            /\ Len(lo \o x) = Len(lo) + Len(x)
            /\ \A i \in 1 .. Len(lo) + Len(x) :
                 (lo \o x)[i] = IF i <= Len(lo) THEN lo[i] ELSE x[i - Len(lo)]
        BY <3>1, ConcatProperties
      <3> QED
        BY <2>2, <3>1, <3>2
    <2> QED
      BY <2>3 DEF lx
  <1> HIDE DEF lx, m
  <1>10. /\ m \in Seq(S) /\ Len(m) = L
         /\ \A i \in 1 .. L : m[i] = IF i <= at THEN lx[i] ELSE up[i - at]
    <2>1. L \in Nat /\ at \in Nat
      BY <1>1, <1>3
    <2> QED
      BY <1>6, <1>9, <2>1, ConcatIs DEF m
  <1>11. m = Moved(q, from, to)
    BY <1>7 DEF lx, x, m
  <1>12. ASSUME NEW i \in 1 .. L
         PROVE  m[i] = IF i = at THEN q[from]
                       ELSE LET j == IF i < at THEN i ELSE i - 1
                            IN  IF j < from THEN q[j] ELSE q[j + 1]
    <2>1. CASE i = at
      <3>1. m[i] = lx[i] /\ lx[i] = x[1]
        <4>1. at \in 1..L /\ at \in 1..at /\ ~(at <= at - 1) /\ at - (at - 1) = 1
          BY <1>1, <1>3
        <4>2. m[at] = lx[at]
          BY <1>10, <4>1
        <4>3. lx[at] = x[at - (at - 1)]
          BY <1>9, <4>1
        <4> QED
          BY <2>1, <4>1, <4>2, <4>3
      <3> QED
        BY <1>8, <2>1, <3>1
    <2>2. CASE i < at
      <3>0. i \in 1 .. L - 1 /\ i \in 1 .. at - 1 /\ i \in 1 .. at /\ i <= at - 1 /\ i <= at
        BY <1>1, <1>3, <2>2
      <3>1. m[i] = lx[i] /\ lx[i] = lo[i] /\ lo[i] = r[i] /\ i \in 1 .. L - 1
        <4>1. m[i] = lx[i]
          BY <1>10, <3>0
        <4>2. lx[i] = lo[i]
          BY <1>9, <3>0
        <4>3. lo[i] = r[i]
          BY <1>5, <3>0
        <4> QED
          BY <3>0, <4>1, <4>2, <4>3
      <3>2. r[i] = IF i < from THEN q[i] ELSE q[i + 1]
        BY <1>4, <3>1
      <3>3. i # at
        BY <1>3, <2>2
      <3> QED
        BY ONLY <2>2, <3>1, <3>2, <3>3
    <2>3. CASE i > at
      <3>1. i - at \in 1 .. L - at /\ i - 1 \in 1 .. L - 1 /\ at + (i - at) - 1 = i - 1
        BY <1>1, <1>3, <2>3
      <3>2. m[i] = up[i - at]
        BY <1>3, <1>10, <2>3
      <3>3. up[i - at] = r[i - 1]
        BY <1>6, <3>1
      <3> QED
        BY <1>3, <1>4, <2>3, <3>1, <3>2, <3>3
    <2> QED
      BY <1>1, <1>3, <2>1, <2>2, <2>3
  <1> QED
    BY <1>3, <1>10, <1>11, <1>12


\* The songs of a sequence.
Songs(s) == {s[i] : i \in 1..Len(s)}

LEMMA MovedSongs ==
  ASSUME NEW S, NEW q \in Seq(S), NEW from \in 1..Len(q), NEW to \in Int
  PROVE  /\ Moved(q, from, to) \in Seq(S)
         /\ Songs(Moved(q, from, to)) = Songs(q)
         /\ Injective(q) => Injective(Moved(q, from, to))
  <1> DEFINE L == Len(q)
             m == Moved(q, from, to)
  <1>1. L \in Nat /\ from \in 1..L
    BY LenProperties
  <1>2. PICK at \in 1..L :
            /\ at = to + 1 \/ (to < 0 /\ at = 1) \/ (to >= L /\ at = L)
            /\ m \in Seq(S)
            /\ Len(m) = L
            /\ \A i \in 1..L :
                 m[i] = IF i = at THEN q[from]
                        ELSE LET j == IF i < at THEN i ELSE i - 1
                             IN  IF j < from THEN q[j] ELSE q[j + 1]
    BY MovedShape
  <1> HIDE DEF m
  \* where position i of the new queue comes from, and where j goes
  <1> DEFINE old(i) == IF i = at THEN from
                       ELSE LET j == IF i < at THEN i ELSE i - 1
                            IN  IF j < from THEN j ELSE j + 1
             new(j) == IF j = from THEN at
                       ELSE LET i == IF j < from THEN j ELSE j - 1
                            IN  IF i < at THEN i ELSE i + 1
  <1>3. \A i \in 1..L : old(i) \in 1..L /\ m[i] = q[old(i)]
    BY <1>1, <1>2
  <1>4. \A j \in 1..L : new(j) \in 1..L /\ old(new(j)) = j
    BY <1>1
  <1>5. \A i, k \in 1..L : old(i) = old(k) => i = k
    BY <1>1
  <1> HIDE DEF old, new
  <1>6. Songs(m) = Songs(q)
    <2>1. \A i \in 1..L : m[i] \in Songs(q)
      BY <1>3 DEF Songs
    <2>2. \A j \in 1..L : q[j] = m[new(j)] /\ new(j) \in 1..L
      BY <1>3, <1>4
    <2>3. Songs(m) \subseteq Songs(q)
      BY <1>2, <2>1 DEF Songs
    <2>4. Songs(q) \subseteq Songs(m)
      <3> SUFFICES ASSUME NEW j \in 1..L PROVE q[j] \in Songs(m)
        BY DEF Songs
      <3> QED
        BY <1>2, <2>2 DEF Songs
    <2> QED
      BY <2>3, <2>4
  <1>7. ASSUME Injective(q) PROVE Injective(m)
    <2> SUFFICES ASSUME NEW i \in 1..L, NEW k \in 1..L, m[i] = m[k] PROVE i = k
      BY <1>2 DEF Injective
    <2>1. old(i) \in 1..L /\ old(k) \in 1..L /\ q[old(i)] = q[old(k)]
      BY <1>3
    <2>2. old(i) = old(k)
      BY <1>7, <2>1 DEF Injective
    <2> QED
      BY <1>5, <2>2
  <1> QED
    BY <1>2, <1>6, <1>7 DEF m

LEMMA AppendSongs ==
  ASSUME NEW S, NEW s \in Seq(S), NEW x \in S
  PROVE  /\ Append(s, x) \in Seq(S)
         /\ Songs(Append(s, x)) = Songs(s) \cup {x}
         /\ Injective(s) /\ x \notin Songs(s) => Injective(Append(s, x))
  <1> DEFINE a == Append(s, x)
             n == Len(s)
  <1>1. /\ a \in Seq(S) /\ n \in Nat /\ Len(a) = n + 1
        /\ \A i \in 1..n : a[i] = s[i]
        /\ a[n + 1] = x
    OBVIOUS
  <1> HIDE DEF a
  <1>2. \A i \in 1..n + 1 : i \in 1..n \/ i = n + 1
    BY <1>1
  <1>3. Songs(a) = Songs(s) \cup {x}
    <2>1. Songs(a) \subseteq Songs(s) \cup {x}
      BY <1>1, <1>2 DEF Songs
    <2>2. Songs(s) \cup {x} \subseteq Songs(a)
      BY <1>1 DEF Songs
    <2> QED
      BY <2>1, <2>2
  <1>4. ASSUME Injective(s), x \notin Songs(s) PROVE Injective(a)
    <2>1. \A i \in 1..n : s[i] # x
      BY <1>4 DEF Songs
    <2> QED
      BY <1>1, <1>2, <1>4, <2>1 DEF Injective
  <1> QED
    BY <1>1, <1>3, <1>4 DEF a

LEMMA TailSongs ==
  ASSUME NEW S, NEW q \in Seq(S), q # <<>>
  PROVE  /\ Tail(q) \in Seq(S) /\ Head(q) \in S
         /\ Songs(q) = Songs(Tail(q)) \cup {Head(q)}
         /\ Injective(q) => Injective(Tail(q)) /\ Head(q) \notin Songs(Tail(q))
  <1> DEFINE t == Tail(q)
             n == Len(q)
             h == Head(q)
  <1>1. /\ t \in Seq(S) /\ n \in Nat \ {0} /\ Len(t) = n - 1
        /\ \A i \in 1..n - 1 : t[i] = q[i + 1]
        /\ h = q[1] /\ h \in S
    BY EmptySeq, HeadTailProperties
  <1> HIDE DEF t, h
  <1>2. \A i \in 1..n : i = 1 \/ i - 1 \in 1..n - 1
    BY <1>1
  <1>3. Songs(q) = Songs(t) \cup {h}
    <2>1. \A i \in 1..n : q[i] = h \/ (i - 1 \in 1..n - 1 /\ q[i] = t[i - 1])
      BY <1>1, <1>2
    <2>2. Songs(q) \subseteq Songs(t) \cup {h}
      BY <1>1, <2>1 DEF Songs
    <2>3. \A i \in 1..n - 1 : i + 1 \in 1..n
      BY <1>1
    <2>4. Songs(t) \cup {h} \subseteq Songs(q)
      BY <1>1, <2>3 DEF Songs
    <2> QED
      BY <2>2, <2>4
  <1>4. ASSUME Injective(q) PROVE Injective(t) /\ h \notin Songs(t)
    <2>1. \A i, j \in 1..n - 1 : q[i + 1] = q[j + 1] => i = j
      BY <1>1, <1>4 DEF Injective
    <2>2. \A i \in 1..n - 1 : q[i + 1] # q[1]
      BY <1>1, <1>4 DEF Injective
    <2> QED
      BY <1>1, <2>1, <2>2 DEF Injective, Songs
  <1> QED
    BY <1>1, <1>3, <1>4 DEF t, h


-----------------------------------------------------------------------------
(***************************************************************************)
(* What one command does to a jukebox.                                     *)
(***************************************************************************)

Record(s) == [queue |-> s.queue, nowPlaying |-> s.nowPlaying, history |-> s.history,
              skipVotes |-> s.skipVotes, lastSeq |-> s.lastSeq, lastResult |-> s.lastResult]

IsJukebox(s) ==
    /\ s = Record(s)
    /\ s.queue \in Seq(SongID)
    /\ s.history \in Seq(SongID)
    /\ s.nowPlaying \in SongID \cup {None}
    /\ s.lastSeq \in [Client -> Nat]

SongsOf(s) == Songs(s.queue) \cup Songs(s.history) \cup ({s.nowPlaying} \ {None})

\* No song is in two places.
EachOnce(s) ==
    /\ Injective(s.queue)
    /\ Injective(s.history)
    /\ Songs(s.queue) \cap Songs(s.history) = {}
    /\ s.nowPlaying \notin Songs(s.queue) \cup Songs(s.history)

\* What commits: a no-op, or what a client asked for.
IsCommand(c) ==
    \/ c = Noop
    \/ /\ c.op \in {"enqueue", "play-next", "vote-skip", "reorder"}
       /\ c.client \in Client
       /\ c.seq \in Nat \ {0}
       /\ c.song \in SongID \cup {None}
       /\ c.to \in Int
       /\ c.op = "enqueue" => c.song = <<c.client, c.seq>> /\ c.song \in SongID

Adds(c) == IF c.op = "enqueue" THEN {c.song} ELSE {}

LEMMA PlayNextIs ==
  ASSUME NEW s, s = Record(s)
  PROVE  PlayNext(s) =
            [queue      |-> IF s.queue = <<>> THEN s.queue ELSE Tail(s.queue),
             nowPlaying |-> IF s.queue = <<>> THEN None ELSE Head(s.queue),
             history    |-> IF s.nowPlaying = None THEN s.history
                            ELSE Append(s.history, s.nowPlaying),
             skipVotes  |-> {}, lastSeq |-> s.lastSeq, lastResult |-> s.lastResult]
  <1> DEFINE q == s.queue
             h == s.history
             p == s.nowPlaying
             q2 == IF q = <<>> THEN q ELSE Tail(q)
             p2 == IF q = <<>> THEN None ELSE Head(q)
             h2 == IF p = None THEN h ELSE Append(h, p)
             t  == [queue |-> q2, nowPlaying |-> p2, history |-> h2, skipVotes |-> {},
                    lastSeq |-> s.lastSeq, lastResult |-> s.lastResult]
  <1> SUFFICES PlayNext(s) = t
    OBVIOUS
  <1> DEFINE r1 == [queue |-> q, nowPlaying |-> p, history |-> h2,
                    skipVotes |-> s.skipVotes, lastSeq |-> s.lastSeq, lastResult |-> s.lastResult]
             r2 == [queue |-> q, nowPlaying |-> p2, history |-> h2,
                    skipVotes |-> s.skipVotes, lastSeq |-> s.lastSeq, lastResult |-> s.lastResult]
             r3 == [queue |-> q2, nowPlaying |-> p2, history |-> h2,
                    skipVotes |-> s.skipVotes, lastSeq |-> s.lastSeq, lastResult |-> s.lastResult]
  <1>1. PlayNext(s) = [[[[s EXCEPT !.history = h2] EXCEPT !.nowPlaying = p2]
                           EXCEPT !.queue = q2] EXCEPT !.skipVotes = {}]
    BY DEF PlayNext
  <1> HIDE DEF q2, p2, h2
  <1>2. [s EXCEPT !.history = h2] = r1
    BY DEF Record
  <1>3. [r1 EXCEPT !.nowPlaying = p2] = r2
    OBVIOUS
  <1>4. [r2 EXCEPT !.queue = q2] = r3
    OBVIOUS
  <1>5. [r3 EXCEPT !.skipVotes = {}] = t
    OBVIOUS
  <1> HIDE DEF r1, r2, r3, t
  <1> QED
    BY <1>1, <1>2, <1>3, <1>4, <1>5

LEMMA PlayNextKeeps ==
  ASSUME NEW s, IsJukebox(s), EachOnce(s)
  PROVE  /\ IsJukebox(PlayNext(s)) /\ EachOnce(PlayNext(s))
         /\ SongsOf(PlayNext(s)) = SongsOf(s)
         /\ PlayNext(s).lastSeq = s.lastSeq
  <1> DEFINE q == s.queue
             h == s.history
             p == s.nowPlaying
             q2 == IF q = <<>> THEN q ELSE Tail(q)
             p2 == IF q = <<>> THEN None ELSE Head(q)
             h2 == IF p = None THEN h ELSE Append(h, p)
             t  == [queue |-> q2, nowPlaying |-> p2, history |-> h2, skipVotes |-> {},
                    lastSeq |-> s.lastSeq, lastResult |-> s.lastResult]
  <1>1. PlayNext(s) = t
    BY PlayNextIs DEF IsJukebox
  <1>2. /\ q \in Seq(SongID) /\ h \in Seq(SongID) /\ p \in SongID \cup {None}
        /\ s.lastSeq \in [Client -> Nat] /\ None \notin SongID
    BY SessionsAssumption DEF IsJukebox
  <1>3. /\ Injective(q) /\ Injective(h) /\ Songs(q) \cap Songs(h) = {}
        /\ p \notin Songs(q) \cup Songs(h)
    BY DEF EachOnce
  <1>4. /\ q2 \in Seq(SongID) /\ p2 \in SongID \cup {None}
        /\ Injective(q2) /\ p2 \notin Songs(q2)
        /\ Songs(q) = Songs(q2) \cup ({p2} \ {None})
    <2>1. CASE q = <<>>
      <3>1. Songs(q) = {} /\ q2 = q /\ p2 = None
        BY <2>1 DEF Songs
      <3> QED
        BY <1>2, <1>3, <3>1
    <2>2. CASE q # <<>>
      <3>1. q2 = Tail(q) /\ p2 = Head(q)
        BY <2>2
      <3>2. /\ Tail(q) \in Seq(SongID) /\ Head(q) \in SongID
            /\ Songs(q) = Songs(Tail(q)) \cup {Head(q)}
            /\ Injective(Tail(q)) /\ Head(q) \notin Songs(Tail(q))
        BY <1>2, <1>3, <2>2, TailSongs
      <3> QED
        BY <1>2, <3>1, <3>2
    <2> QED
      BY <2>1, <2>2
  <1>5. /\ h2 \in Seq(SongID) /\ Injective(h2)
        /\ Songs(h2) = Songs(h) \cup ({p} \ {None})
    <2>1. CASE p = None
      BY <1>2, <1>3, <2>1
    <2>2. CASE p # None
      <3>1. p \in SongID
        BY <1>2, <2>2
      <3>2. /\ Append(h, p) \in Seq(SongID)
            /\ Songs(Append(h, p)) = Songs(h) \cup {p}
            /\ Injective(Append(h, p))
        BY <1>2, <1>3, <3>1, AppendSongs
      <3> QED
        BY <2>2, <3>2
    <2> QED
      BY <2>1, <2>2
  <1>6. None \notin Songs(h) /\ None \notin Songs(q)
    <2>1. \A i \in 1..Len(h) : h[i] \in SongID
      BY <1>2, ElementOfSeq
    <2>2. \A i \in 1..Len(q) : q[i] \in SongID
      BY <1>2, ElementOfSeq
    <2> QED
      BY <1>2, <2>1, <2>2 DEF Songs
  <1>7. /\ t.queue = q2 /\ t.nowPlaying = p2 /\ t.history = h2 /\ t.lastSeq = s.lastSeq
        /\ t = Record(t)
    BY DEF Record
  <1> HIDE DEF t, q2, p2, h2, q, p, h
  <1>8. IsJukebox(t)
    BY <1>2, <1>4, <1>5, <1>7 DEF IsJukebox
  <1>9. EachOnce(t)
    <2>1. Songs(q2) \cap Songs(h2) = {}
      BY <1>3, <1>4, <1>5
    <2>2. p2 \notin Songs(h2)
      BY <1>3, <1>4, <1>5, <1>6
    <2> QED
      BY <1>4, <1>5, <1>7, <2>1, <2>2 DEF EachOnce
  <1>10. SongsOf(t) = SongsOf(s)
    BY <1>4, <1>5, <1>7 DEF SongsOf, q, p, h
  <1> QED
    BY <1>1, <1>7, <1>8, <1>9, <1>10

LEMMA InnerKeeps ==
  ASSUME NEW s, NEW c, IsJukebox(s), EachOnce(s), IsCommand(c), Adds(c) \cap SongsOf(s) = {}
  PROVE  LET t == applyInner(s, c).st IN
         /\ IsJukebox(t) /\ EachOnce(t)
         /\ SongsOf(t) = SongsOf(s) \cup Adds(c)
         /\ t.lastSeq = s.lastSeq
  <1> DEFINE t == applyInner(s, c).st
  <1>0. /\ s = Record(s) /\ s.queue \in Seq(SongID) /\ s.history \in Seq(SongID)
        /\ s.nowPlaying \in SongID \cup {None} /\ s.lastSeq \in [Client -> Nat]
        /\ Injective(s.queue) /\ Injective(s.history)
        /\ Songs(s.queue) \cap Songs(s.history) = {}
        /\ s.nowPlaying \notin Songs(s.queue) \cup Songs(s.history)
        /\ None \notin SongID
    BY SessionsAssumption DEF IsJukebox, EachOnce
  <1>s. SUFFICES /\ IsJukebox(t) /\ EachOnce(t)
                 /\ SongsOf(t) = SongsOf(s) \cup Adds(c)
                 /\ t.lastSeq = s.lastSeq
    OBVIOUS
  <1>a. ASSUME t = s, c.op # "enqueue"
        PROVE  /\ IsJukebox(t) /\ EachOnce(t)
               /\ SongsOf(t) = SongsOf(s) \cup Adds(c)
               /\ t.lastSeq = s.lastSeq
    BY <1>a DEF Adds
  <1>1. CASE c = Noop
    <2>1. c.op = "noop"
      BY <1>1 DEF Noop
    <2>2. t = s
      BY <2>1 DEF applyInner
    <2> QED
      BY <1>a, <2>1, <2>2
  <1>2. CASE c.op = "enqueue" /\ c # Noop
    <2>1. /\ c.song \in SongID /\ c.song # None
      BY <1>0, <1>2 DEF IsCommand
    <2>2. t = Enqueue(s, c.song)
      BY <1>2, <2>1 DEF applyInner, Succeeds
    <2>3. /\ t.queue = Append(s.queue, c.song) /\ t.history = s.history
          /\ t.nowPlaying = s.nowPlaying /\ t.lastSeq = s.lastSeq
          /\ t = Record(t)
      BY <1>0, <2>2 DEF Enqueue, Record
    <2>4. Adds(c) = {c.song}
      BY <1>2 DEF Adds
    <2>5. c.song \notin Songs(s.queue) \cup Songs(s.history) /\ c.song # s.nowPlaying
      BY <2>1, <2>4 DEF SongsOf
    <2>6. /\ t.queue \in Seq(SongID) /\ Injective(t.queue)
          /\ Songs(t.queue) = Songs(s.queue) \cup {c.song}
      BY <1>0, <2>1, <2>3, <2>5, AppendSongs
    <2> HIDE DEF t
    <2>7. IsJukebox(t)
      BY <1>0, <2>3, <2>6 DEF IsJukebox
    <2>8. EachOnce(t)
      BY <1>0, <2>3, <2>5, <2>6 DEF EachOnce
    <2>9. SongsOf(t) = SongsOf(s) \cup Adds(c)
      BY <2>3, <2>4, <2>6 DEF SongsOf
    <2> QED
      BY <2>3, <2>7, <2>8, <2>9
  <1>3. CASE c.op = "play-next" /\ c # Noop
    <2>1. t = PlayNext(s)
      BY <1>3 DEF applyInner, Succeeds
    <2>2. Adds(c) = {}
      BY <1>3 DEF Adds
    <2> QED
      BY <2>1, <2>2, PlayNextKeeps
  <1>4. CASE c.op = "vote-skip" /\ c # Noop
    <2> DEFINE voted == [s EXCEPT !.skipVotes = @ \cup {Voter(c)}]
    <2>1. t = s \/ t = PlayNext(voted) \/ t = voted
      BY <1>4 DEF applyInner, Succeeds, Fails, VoteSkip
    <2>2. /\ voted.queue = s.queue /\ voted.history = s.history
          /\ voted.nowPlaying = s.nowPlaying /\ voted.lastSeq = s.lastSeq
          /\ voted = Record(voted)
      <3> DEFINE v(x) == [x EXCEPT !.skipVotes = @ \cup {Voter(c)}]
      <3>1. /\ v(Record(s)).queue = s.queue /\ v(Record(s)).history = s.history
            /\ v(Record(s)).nowPlaying = s.nowPlaying /\ v(Record(s)).lastSeq = s.lastSeq
            /\ v(Record(s)) = Record(v(Record(s)))
        BY DEF Record
      <3>2. voted = v(s)
        OBVIOUS
      <3> HIDE DEF v, voted
      <3> QED
        BY <1>0, <3>1, <3>2
    <2> HIDE DEF voted, t
    <2>3. /\ IsJukebox(voted) /\ EachOnce(voted) /\ SongsOf(voted) = SongsOf(s)
      BY <1>0, <2>2 DEF IsJukebox, EachOnce, SongsOf
    <2>4. Adds(c) = {}
      BY <1>4 DEF Adds
    <2>5. /\ IsJukebox(PlayNext(voted)) /\ EachOnce(PlayNext(voted))
          /\ SongsOf(PlayNext(voted)) = SongsOf(s)
          /\ PlayNext(voted).lastSeq = s.lastSeq
      BY <2>2, <2>3, PlayNextKeeps
    <2> QED
      BY <2>1, <2>2, <2>3, <2>4, <2>5
  <1>5. CASE c.op = "reorder" /\ c # Noop
    <2>1. c.to \in Int
      BY <1>5 DEF IsCommand
    <2>2. CASE Position(s, c.song) = 0
      <3>1. t = s
        BY <1>5, <2>2 DEF applyInner, Fails
      <3> QED
        BY <1>5, <1>a, <3>1
    <2>3. CASE Position(s, c.song) # 0
      <3> DEFINE from == Position(s, c.song)
                 m    == Moved(s.queue, from, c.to)
                 I    == {i \in 1..Len(s.queue) : s.queue[i] = c.song}
      <3>1. from = IF I # {} THEN Min(I) ELSE 0
        BY DEF Position, SelectInSeq
      <3>2. from \in 1..Len(s.queue)
        <4>1. I # {} /\ I \in SUBSET Nat
          BY <1>0, <2>3, <3>1
        <4>2. from \in I
          BY <3>1, <4>1, MinOfNats
        <4> QED
          BY <4>2
      <3>3. t = [s EXCEPT !.queue = m]
        BY <1>5, <2>3 DEF applyInner, Succeeds
      <3>4. /\ t.queue = m /\ t.history = s.history
            /\ t.nowPlaying = s.nowPlaying /\ t.lastSeq = s.lastSeq
            /\ t = Record(t)
        BY <1>0, <3>3 DEF Record
      <3> HIDE DEF from, t
      <3>5. m \in Seq(SongID) /\ Songs(m) = Songs(s.queue) /\ Injective(m)
        <4>1. s.queue \in Seq(SongID) /\ Injective(s.queue)
          BY <1>0
        <4> QED
          BY <2>1, <3>2, <4>1, MovedSongs
      <3>6. Adds(c) = {}
        BY <1>5 DEF Adds
      <3> HIDE DEF m
      <3>7. IsJukebox(t) /\ EachOnce(t) /\ SongsOf(t) = SongsOf(s)
        BY <1>0, <3>4, <3>5 DEF IsJukebox, EachOnce, SongsOf
      <3> QED
        BY <3>4, <3>6, <3>7
    <2> QED
      BY <2>2, <2>3
  <1> QED
    BY <1>1, <1>2, <1>3, <1>4, <1>5 DEF IsCommand


LEMMA InnerRecord ==
  ASSUME NEW s, NEW c, IsCommand(c)
  PROVE  applyInner(s, c) = [st |-> applyInner(s, c).st, res |-> applyInner(s, c).res]
  <1> DEFINE out == applyInner(s, c)
  <1>1. \A x, y : [st |-> x, res |-> y] = [st |-> [st |-> x, res |-> y].st,
                                          res |-> [st |-> x, res |-> y].res]
    OBVIOUS
  <1>2. \E x, y : out = [st |-> x, res |-> y]
    <2>1. CASE c.op = "noop"
      BY <2>1 DEF applyInner
    <2>2. CASE c.op = "enqueue"
      BY <2>2 DEF applyInner, Succeeds, Fails
    <2>3. CASE c.op = "play-next"
      BY <2>3 DEF applyInner, Succeeds
    <2>4. CASE c.op = "vote-skip"
      BY <2>4 DEF applyInner, Succeeds, Fails
    <2>5. CASE c.op = "reorder"
      BY <2>5 DEF applyInner, Succeeds, Fails
    <2> QED
      BY <2>1, <2>2, <2>3, <2>4, <2>5 DEF IsCommand, Noop
  <1> HIDE DEF out
  <1> QED
    BY <1>1, <1>2 DEF out

LEMMA EditRecord ==
  ASSUME NEW a, NEW b, NEW c, NEW d, NEW e, NEW f, NEW g, NEW k, NEW x, NEW y
  PROVE  [[st  |-> [queue |-> a, nowPlaying |-> b, history |-> c, skipVotes |-> d,
                    lastSeq |-> e, lastResult |-> f],
           res |-> g] EXCEPT !.st.lastSeq[k] = x, !.st.lastResult[k] = y].st
         = [queue |-> a, nowPlaying |-> b, history |-> c, skipVotes |-> d,
            lastSeq |-> [e EXCEPT ![k] = x], lastResult |-> [f EXCEPT ![k] = y]]
  OBVIOUS

\* Apply: a repeated command changes nothing, any other what applyInner says and
\* its own session.
LEMMA ApplyKeeps ==
  ASSUME NEW s, NEW c, IsJukebox(s), EachOnce(s), IsCommand(c),
         ~Repeated(s, c) => Adds(c) \cap SongsOf(s) = {}
  PROVE  LET t == Apply(s, c).st IN
         /\ IsJukebox(t) /\ EachOnce(t)
         /\ SongsOf(t) = SongsOf(s) \cup (IF Repeated(s, c) THEN {} ELSE Adds(c))
         /\ \A d \in Client : s.lastSeq[d] <= t.lastSeq[d]
         /\ HasSession(c) => c.seq <= t.lastSeq[c.client]
  <1> DEFINE t == Apply(s, c).st
             out == applyInner(s, c)
  <1>s. SUFFICES
         /\ IsJukebox(t) /\ EachOnce(t)
         /\ SongsOf(t) = SongsOf(s) \cup (IF Repeated(s, c) THEN {} ELSE Adds(c))
         /\ \A d \in Client : s.lastSeq[d] <= t.lastSeq[d]
         /\ HasSession(c) => c.seq <= t.lastSeq[c.client]
    OBVIOUS
  <1>0. s.lastSeq \in [Client -> Nat]
    BY DEF IsJukebox
  <1>1. CASE Repeated(s, c)
    <2>1. t = s
      BY <1>1 DEF Apply
    <2>2. c.seq <= s.lastSeq[c.client]
      BY <1>1 DEF Repeated
    <2>3. \A d \in Client : s.lastSeq[d] <= s.lastSeq[d]
      BY <1>0
    <2> HIDE DEF t
    <2> QED
      BY <1>1, <2>1, <2>2, <2>3
  <1>2. CASE ~Repeated(s, c)
    <2>1. /\ IsJukebox(out.st) /\ EachOnce(out.st)
          /\ SongsOf(out.st) = SongsOf(s) \cup Adds(c)
          /\ out.st.lastSeq = s.lastSeq
      BY <1>2, InnerKeeps
    <2>2. CASE ~HasSession(c)
      <3>1. t = out.st
        BY <1>2, <2>2 DEF Apply
      <3>2. \A d \in Client : s.lastSeq[d] <= s.lastSeq[d]
        BY <1>0
      <3> HIDE DEF t, out
      <3> QED
        BY <1>2, <2>1, <2>2, <3>1, <3>2
    <2>3. CASE HasSession(c)
      <3>1. c.client \in Client /\ c.seq \in Nat
        BY <2>3 DEF IsCommand, HasSession, Noop
      <3>2. ~(c.seq <= s.lastSeq[c.client])
        BY <1>2, <2>3 DEF Repeated
      <3> DEFINE u == out.st
                 w == [queue |-> u.queue, nowPlaying |-> u.nowPlaying, history |-> u.history,
                       skipVotes |-> u.skipVotes,
                       lastSeq |-> [u.lastSeq EXCEPT ![c.client] = c.seq],
                       lastResult |-> [u.lastResult EXCEPT ![c.client] = out.res]]
                 edited(o) == [o EXCEPT !.st.lastSeq[c.client]    = c.seq,
                                        !.st.lastResult[c.client] = out.res]
      <3>3. t = edited(out).st
        BY <1>2, <2>3 DEF Apply
      <3>4. out = [st |-> Record(u), res |-> out.res]
        BY <2>1, InnerRecord DEF IsJukebox
      <3>5. edited([st |-> Record(u), res |-> out.res]).st = w
        BY EditRecord DEF Record
      <3> HIDE DEF edited, out, t
      <3>6. t = w
        BY <3>3, <3>4, <3>5
      <3>7. /\ t.queue = u.queue /\ t.history = u.history /\ t.nowPlaying = u.nowPlaying
            /\ t.lastSeq = [s.lastSeq EXCEPT ![c.client] = c.seq]
            /\ t = Record(t)
        BY <2>1, <3>6 DEF Record
      <3> HIDE DEF u, w
      <3>8. t.lastSeq \in [Client -> Nat]
        BY <1>0, <3>1, <3>7
      <3>9. IsJukebox(t) /\ EachOnce(t) /\ SongsOf(t) = SongsOf(u)
        BY <2>1, <3>7, <3>8 DEF IsJukebox, EachOnce, SongsOf, u
      <3>10. /\ \A d \in Client : s.lastSeq[d] <= t.lastSeq[d]
             /\ c.seq <= t.lastSeq[c.client]
        BY <1>0, <3>1, <3>2, <3>7
      <3> QED
        BY <1>2, <2>1, <3>9, <3>10 DEF u
    <2> QED
      BY <2>2, <2>3
  <1> QED
    BY <1>1, <1>2


-----------------------------------------------------------------------------
(***************************************************************************)
(* The inductive invariant.                                                *)
(***************************************************************************)

IsSeq(s) == s \in Seq({s[i] : i \in DOMAIN s})

IsCall(r) == r = [cmd |-> r.cmd, phase |-> r.phase, proposals |-> r.proposals,
                  res |-> r.res, effect |-> r.effect]

\* Every call is for a command of its own.
CallsFit ==
    /\ calls = [c \in Client |-> calls[c]]
    /\ \A c \in Client :
          /\ IsSeq(calls[c])
          /\ \A s \in 1..Len(calls[c]) :
                IsCall(calls[c][s]) /\ IsCommand(Asked(c, s, calls[c][s].cmd))

\* What commits has been asked for, or is a no-op.
LogFits ==
    /\ IsSeq(log)
    /\ \A i \in 1..Len(log) :
          /\ IsCommand(log[i])
          /\ log[i] # Noop => log[i].seq \in 1..Len(calls[log[i].client])

\* The songs enqueued for good by the first i entries of the log.
Added(i) ==
    {log[k].song : k \in {j \in {e \in 1..i : ~Repeated(ReplayedTo(e - 1), log[e])} :
                            log[j].op = "enqueue"}} \ {None}

\* The replay: each state comes of the one before by Apply, holds each song that
\* was added exactly once, and remembers every session in the log so far.
ReplayFits ==
    /\ IsSeq(replay) /\ Len(replay) = Len(log)
    /\ \A i \in 1..Len(log) : replay[i] = Apply(ReplayedTo(i - 1), log[i]).st
    /\ \A i \in 0..Len(log) :
          /\ IsJukebox(ReplayedTo(i))
          /\ EachOnce(ReplayedTo(i))
          /\ SongsOf(ReplayedTo(i)) = Added(i)
          /\ \A k \in 1..i : HasSession(log[k]) =>
                log[k].seq <= ReplayedTo(i).lastSeq[log[k].client]

\* Replicas and snapshots are somewhere on the replay.
ReplicasFit ==
    /\ applied = [r \in Replica |-> applied[r]]
    /\ st = [r \in Replica |-> st[r]]
    /\ saved = [r \in Replica |-> saved[r]]
    /\ \A r \in Replica :
          /\ applied[r] \in 0..Len(log)
          /\ st[r] = ReplayedTo(applied[r])
          /\ saved[r] = [index |-> saved[r].index, image |-> saved[r].image]
          /\ saved[r].index \in 0..Len(log)
          /\ saved[r].image = ReplayedTo(saved[r].index)

SessionsInv == CallsFit /\ LogFits /\ ReplayFits /\ ReplicasFit

LEMMA AppendAny ==
  ASSUME NEW s, NEW x, IsSeq(s)
  PROVE  /\ IsSeq(Append(s, x)) /\ Len(s) \in Nat /\ Len(Append(s, x)) = Len(s) + 1
         /\ \A i \in 1..Len(s) : Append(s, x)[i] = s[i]
         /\ Append(s, x)[Len(s) + 1] = x
  <1> DEFINE S == {s[i] : i \in DOMAIN s} \cup {x}
             a == Append(s, x)
  <1>1. s \in Seq(S) /\ x \in S
    BY SeqMonotonic DEF IsSeq
  <1>2. /\ a \in Seq(S) /\ Len(s) \in Nat /\ Len(a) = Len(s) + 1
        /\ DOMAIN s = 1..Len(s) /\ DOMAIN a = 1..Len(a)
        /\ \A i \in 1..Len(s) : a[i] = s[i]
        /\ a[Len(s) + 1] = x
    BY <1>1
  <1> HIDE DEF a
  <1>3. \A y \in S : \E i \in DOMAIN a : y = a[i]
    BY <1>2
  <1>4. S \subseteq {a[i] : i \in DOMAIN a}
    BY <1>3
  <1>5. a \in Seq({a[i] : i \in DOMAIN a})
    BY <1>2, <1>4, SeqMonotonic
  <1> QED
    BY <1>2, <1>5 DEF IsSeq, a

LEMMA ExceptAny ==
  ASSUME NEW s, NEW x, IsSeq(s), NEW i \in 1..Len(s)
  PROVE  /\ IsSeq([s EXCEPT ![i] = x]) /\ Len([s EXCEPT ![i] = x]) = Len(s)
         /\ \A j \in 1..Len(s) : [s EXCEPT ![i] = x][j] = IF j = i THEN x ELSE s[j]
  <1> DEFINE S == {s[j] : j \in DOMAIN s} \cup {x}
             a == [s EXCEPT ![i] = x]
  <1>1. s \in Seq(S) /\ x \in S
    BY SeqMonotonic DEF IsSeq
  <1>2. /\ a \in Seq(S) /\ Len(a) = Len(s)
        /\ \A j \in 1..Len(s) : a[j] = IF j = i THEN x ELSE s[j]
    BY <1>1, ExceptSeq
  <1> HIDE DEF a
  <1>3. a \in Seq({a[j] : j \in DOMAIN a})
    <2>1. \A j \in 1..Len(a) : a[j] \in {a[k] : k \in DOMAIN a}
      BY <1>2, LenProperties
    <2>2. a = [j \in 1..Len(a) |-> a[j]] /\ Len(a) \in Nat
      BY <1>2, LenProperties
    <2> QED
      BY <2>1, <2>2
  <1> QED
    BY <1>2, <1>3 DEF IsSeq, a

LEMMA NewFits == IsJukebox(New) /\ EachOnce(New) /\ SongsOf(New) = {}
  <1>1. /\ New.queue = <<>> /\ New.history = <<>> /\ New.nowPlaying = None
        /\ New.lastSeq = [c \in Client |-> 0] /\ New = Record(New)
    BY DEF New, Record
  <1>2. Songs(<<>>) = {} /\ Injective(<<>>) /\ <<>> \in Seq(SongID)
    BY DEF Songs, Injective
  <1> QED
    BY <1>1, <1>2 DEF IsJukebox, EachOnce, SongsOf

LEMMA RestoreIsIdentity ==
  ASSUME NEW s, IsJukebox(s)
  PROVE  Restore(s) = s
  <1> DEFINE new(a, b, c, d, e, f) ==
               [queue |-> a, nowPlaying |-> b, history |-> c, skipVotes |-> d,
                lastSeq |-> e, lastResult |-> f]
             z == New.lastSeq
             y == New.lastResult
             o == <<>>
             n0 == new(o, None, o, {}, z, y)
             n1 == new(s.queue, None, o, {}, z, y)
             n2 == new(s.queue, s.nowPlaying, o, {}, z, y)
             n3 == new(s.queue, s.nowPlaying, s.history, {}, z, y)
             n4 == new(s.queue, s.nowPlaying, s.history, s.skipVotes, z, y)
             n5 == new(s.queue, s.nowPlaying, s.history, s.skipVotes, s.lastSeq, y)
             n6 == new(s.queue, s.nowPlaying, s.history, s.skipVotes, s.lastSeq, s.lastResult)
  <1>1. Restore(s) = [[[[[[New EXCEPT !.queue = s.queue] EXCEPT !.nowPlaying = s.nowPlaying]
                            EXCEPT !.history = s.history] EXCEPT !.skipVotes = s.skipVotes]
                          EXCEPT !.lastSeq = s.lastSeq] EXCEPT !.lastResult = s.lastResult]
    BY DEF Restore
  <1>2. New = n0
    BY DEF New
  <1> HIDE DEF z, y, o
  <1>3. [n0 EXCEPT !.queue = s.queue] = n1
    OBVIOUS
  <1>4. [n1 EXCEPT !.nowPlaying = s.nowPlaying] = n2
    OBVIOUS
  <1>5. [n2 EXCEPT !.history = s.history] = n3
    OBVIOUS
  <1>6. [n3 EXCEPT !.skipVotes = s.skipVotes] = n4
    OBVIOUS
  <1>7. [n4 EXCEPT !.lastSeq = s.lastSeq] = n5
    OBVIOUS
  <1>8. [n5 EXCEPT !.lastResult = s.lastResult] = n6
    OBVIOUS
  <1>9. s = n6
    BY DEF IsJukebox, Record
  <1> HIDE DEF n0, n1, n2, n3, n4, n5, n6
  <1> QED
    BY <1>1, <1>2, <1>3, <1>4, <1>5, <1>6, <1>7, <1>8, <1>9


-----------------------------------------------------------------------------
(***************************************************************************)
(* The invariant holds at first and every step keeps it.                   *)
(***************************************************************************)

LEMMA SessionsInit == Init => SessionsInv
  <1> SUFFICES ASSUME Init PROVE SessionsInv
    OBVIOUS
  <1>1. IsSeq(<<>>) /\ Len(<<>>) = 0
    BY EmptySeq DEF IsSeq
  <1>2. CallsFit
    BY <1>1 DEF Init, CallsFit
  <1>3. LogFits
    BY <1>1 DEF Init, LogFits
  <1>4. ReplayedTo(0) = New
    BY DEF ReplayedTo
  <1>5. ReplayFits
    <2>1. \A i \in 0..Len(log) : i = 0
      BY <1>1 DEF Init
    <2>2. Added(0) = {}
      BY DEF Added
    <2>3. IsSeq(replay) /\ Len(replay) = 0 /\ Len(log) = 0
      BY <1>1 DEF Init
    <2>4. \A i \in 1..Len(log) : FALSE
      BY <2>3
    <2>5. ASSUME NEW i \in 0..Len(log)
          PROVE  /\ IsJukebox(ReplayedTo(i))
                 /\ EachOnce(ReplayedTo(i))
                 /\ SongsOf(ReplayedTo(i)) = Added(i)
                 /\ \A k \in 1..i : FALSE
      <3>1. i = 0
        BY <2>1
      <3> QED
        BY <1>4, <2>2, <3>1, NewFits
    <2> QED
      BY <2>3, <2>4, <2>5 DEF ReplayFits
  <1>6. ReplicasFit
    BY <1>1, <1>4 DEF Init, ReplicasFit
  <1> QED
    BY <1>2, <1>3, <1>5, <1>6 DEF SessionsInv

\* One call of a client changes, its command does not.
LEMMA CallChanges ==
  ASSUME SessionsInv, NEW c \in Client, NEW s \in 1..Len(calls[c]), NEW r,
         IsCall(r), r.cmd = calls[c][s].cmd,
         calls' = [calls EXCEPT ![c] = [calls[c] EXCEPT ![s] = r]]
  PROVE  CallsFit' /\ \A d \in Client : Len(calls'[d]) = Len(calls[d])
  <1>1. /\ calls' = [d \in Client |-> calls'[d]]
        /\ \A d \in Client : d # c => calls'[d] = calls[d]
        /\ calls'[c] = [calls[c] EXCEPT ![s] = r]
    BY DEF SessionsInv, CallsFit
  <1>2. /\ IsSeq(calls'[c]) /\ Len(calls'[c]) = Len(calls[c])
        /\ \A k \in 1..Len(calls[c]) : calls'[c][k] = IF k = s THEN r ELSE calls[c][k]
    <2>1. IsSeq(calls[c])
      BY DEF SessionsInv, CallsFit
    <2>2. /\ IsSeq([calls[c] EXCEPT ![s] = r]) /\ Len([calls[c] EXCEPT ![s] = r]) = Len(calls[c])
          /\ \A k \in 1..Len(calls[c]) :
               [calls[c] EXCEPT ![s] = r][k] = IF k = s THEN r ELSE calls[c][k]
      <3> DEFINE q == calls[c]
      <3>1. IsSeq(q) /\ s \in 1..Len(q)
        BY <2>1
      <3> HIDE DEF q
      <3>2. IsSeq([q EXCEPT ![s] = r])
        BY <3>1, ExceptAny
      <3>3. Len([q EXCEPT ![s] = r]) = Len(q)
        BY <3>1, ExceptAny
      <3>4. ASSUME NEW k \in 1..Len(q)
            PROVE  [q EXCEPT ![s] = r][k] = IF k = s THEN r ELSE q[k]
        BY <3>1, ExceptAny
      <3> QED
        BY <3>2, <3>3, <3>4 DEF q
    <2> QED
      BY <1>1, <2>2
  <1>3. ASSUME NEW d \in Client
        PROVE  /\ IsSeq(calls'[d]) /\ Len(calls'[d]) = Len(calls[d])
               /\ \A k \in 1..Len(calls'[d]) :
                     IsCall(calls'[d][k]) /\ IsCommand(Asked(d, k, calls'[d][k].cmd))
    <2>1. CASE d # c
      BY <1>1, <2>1 DEF SessionsInv, CallsFit
    <2>2. CASE d = c
      <3>1. ASSUME NEW k \in 1..Len(calls[c])
            PROVE  /\ IsCall(calls'[c][k])
                   /\ calls'[c][k].cmd = calls[c][k].cmd
        BY <1>2 DEF SessionsInv, CallsFit
      <3>2. \A k \in 1..Len(calls[c]) : IsCommand(Asked(c, k, calls[c][k].cmd))
        BY DEF SessionsInv, CallsFit
      <3> QED
        BY <1>2, <2>2, <3>1, <3>2
    <2> QED
      BY <2>1, <2>2
  <1> QED
    BY <1>1, <1>3 DEF CallsFit

\* The log and the replay are left alone, no client loses a call.
LEMMA LogKept ==
  ASSUME SessionsInv, UNCHANGED <<log, replay>>,
         \A d \in Client : Len(calls[d]) <= Len(calls'[d]) /\ Len(calls'[d]) \in Nat
  PROVE  LogFits' /\ ReplayFits' /\ \A i : ReplayedTo(i)' = ReplayedTo(i)
  <1>1. \A i : ReplayedTo(i)' = ReplayedTo(i)
    BY DEF ReplayedTo
  <1>2. \A i : Added(i)' = Added(i)
    BY DEF Added, ReplayedTo
  <1>3. ReplayFits'
    BY DEF SessionsInv, ReplayFits, Added, ReplayedTo
  <1>4. LogFits'
    <2> SUFFICES ASSUME NEW i \in 1..Len(log), log[i] # Noop
                 PROVE  log[i].seq \in 1..Len(calls'[log[i].client])
      BY DEF SessionsInv, LogFits
    <2>1. log[i].client \in Client /\ log[i].seq \in 1..Len(calls[log[i].client])
      BY DEF SessionsInv, LogFits, IsCommand
    <2>2. Len(calls[log[i].client]) \in Nat
      BY <2>1, LenProperties DEF SessionsInv, CallsFit, IsSeq
    <2> QED
      BY <2>1, <2>2
  <1> QED
    BY <1>1, <1>3, <1>4

LEMMA ReplicasKept ==
  ASSUME SessionsInv, UNCHANGED <<applied, st, saved>>,
         Len(log) <= Len(log'), Len(log') \in Nat,
         \A i \in 0..Len(log) : ReplayedTo(i)' = ReplayedTo(i)
  PROVE  ReplicasFit'
  <1>0. Len(log) \in Nat
    BY LenProperties DEF SessionsInv, LogFits, IsSeq
  <1> SUFFICES ASSUME NEW r \in Replica
               PROVE  /\ applied[r] \in 0..Len(log')
                      /\ st[r] = ReplayedTo(applied[r])'
                      /\ saved[r].index \in 0..Len(log')
                      /\ saved[r].image = ReplayedTo(saved[r].index)'
    BY DEF SessionsInv, ReplicasFit
  <1>1. /\ applied[r] \in 0..Len(log) /\ saved[r].index \in 0..Len(log)
        /\ st[r] = ReplayedTo(applied[r])
        /\ saved[r].image = ReplayedTo(saved[r].index)
    BY DEF SessionsInv, ReplicasFit
  <1>2. /\ ReplayedTo(applied[r])' = ReplayedTo(applied[r])
        /\ ReplayedTo(saved[r].index)' = ReplayedTo(saved[r].index)
    BY <1>1
  <1> QED
    BY <1>0, <1>1, <1>2


\* Client.do takes a new sequence number.
LEMMA CallAdded ==
  ASSUME SessionsInv, NEW c \in Client, NEW cmd \in Command, Call(c, cmd)
  PROVE  CallsFit' /\ \A d \in Client : Len(calls[d]) <= Len(calls'[d]) /\ Len(calls'[d]) \in Nat
  <1> DEFINE k == Len(calls[c]) + 1
             r == [cmd |-> cmd, phase |-> "open", proposals |-> 1, res |-> NoResult,
                   effect |-> {}]
  <1>1. /\ calls' = [calls EXCEPT ![c] = Append(@, r)]
        /\ cmd.op = "enqueue" => cmd.song = <<c, k>>
    BY DEF Call
  <1>2. /\ calls = [d \in Client |-> calls[d]] /\ \A d \in Client : IsSeq(calls[d])
        /\ \A d \in Client : Len(calls[d]) \in Nat
    BY LenProperties DEF SessionsInv, CallsFit, IsSeq
  <1>3. r.cmd = cmd /\ IsCall(r)
    BY DEF IsCall
  <1> HIDE DEF r
  <1>4. /\ IsSeq(Append(calls[c], r)) /\ Len(Append(calls[c], r)) = k
        /\ \A i \in 1..Len(calls[c]) : Append(calls[c], r)[i] = calls[c][i]
        /\ Append(calls[c], r)[k] = r
    BY <1>2, AppendAny
  <1>5. /\ calls' = [d \in Client |-> calls'[d]]
        /\ calls'[c] = Append(calls[c], r)
        /\ \A d \in Client : d # c => calls'[d] = calls[d]
    BY <1>1, <1>2
  <1>6. IsCommand(Asked(c, k, cmd))
    <2>1. k \in Nat \ {0}
      BY <1>2
    <2>2. \A x \in ToIndex : x \in Int
      BY SessionsAssumption
    <2>3. /\ cmd.op \in {"enqueue", "play-next", "vote-skip", "reorder"}
          /\ cmd.song \in SongID \cup {None} /\ cmd.to \in Int
          /\ cmd.op = "enqueue" => cmd.song \in SongID
      BY <2>2 DEF Command
    <2> DEFINE a == Asked(c, k, cmd)
    <2>4. a.op = cmd.op /\ a.client = c /\ a.seq = k /\ a.song = cmd.song /\ a.to = cmd.to
      BY DEF Asked
    <2> HIDE DEF a
    <2>5. IsCommand(a)
      BY <1>1, <2>1, <2>3, <2>4 DEF IsCommand
    <2> QED
      BY <2>5 DEF a
  <1>7. ASSUME NEW d \in Client
        PROVE  /\ IsSeq(calls'[d]) /\ Len(calls[d]) <= Len(calls'[d]) /\ Len(calls'[d]) \in Nat
               /\ \A i \in 1..Len(calls'[d]) :
                     IsCall(calls'[d][i]) /\ IsCommand(Asked(d, i, calls'[d][i].cmd))
    <2>1. CASE d # c
      BY <1>2, <1>5, <2>1 DEF SessionsInv, CallsFit
    <2>2. CASE d = c
      <3>1. ASSUME NEW i \in 1..k
            PROVE  IsCall(calls'[c][i]) /\ IsCommand(Asked(c, i, calls'[c][i].cmd))
        <4>1. CASE i = k
          BY <1>3, <1>4, <1>5, <1>6, <4>1
        <4>2. CASE i # k
          <5>1. i \in 1..Len(calls[c])
            BY <1>2, <4>2
          <5>2. calls'[c][i] = calls[c][i]
            BY <1>4, <1>5, <5>1
          <5> QED
            BY <5>1, <5>2 DEF SessionsInv, CallsFit
        <4> QED
          BY <4>1, <4>2
      <3>2. IsSeq(calls'[c]) /\ Len(calls'[c]) = k /\ k \in Nat /\ Len(calls[c]) <= k
        BY <1>2, <1>4, <1>5
      <3> QED
        BY <2>2, <3>1, <3>2
    <2> QED
      BY <2>1, <2>2
  <1> QED
    BY <1>5, <1>7 DEF CallsFit

\* What a commit does to the log and the replay.
LEMMA EntryAppended ==
  ASSUME SessionsInv, NEW cmd, CommitEntry(cmd), NEW n \in Nat, n = Len(log)
  PROVE  /\ IsSeq(log') /\ Len(log') = n + 1
         /\ \A i \in 1..n : log'[i] = log[i]
         /\ log'[n + 1] = cmd
         /\ IsSeq(replay') /\ Len(replay') = n + 1
         /\ \A i \in 1..n : replay'[i] = replay[i]
         /\ replay'[n + 1] = Apply(ReplayedTo(n), cmd).st
         /\ \A i \in 0..n : ReplayedTo(i)' = ReplayedTo(i)
         /\ ReplayedTo(n + 1)' = Apply(ReplayedTo(n), cmd).st
         /\ UNCHANGED <<applied, st, saved>>
  <1> DEFINE s == ReplayedTo(n)
             t == Apply(s, cmd).st
             l == log'
             rp == replay'
  <1>1. log' = Append(log, cmd) /\ replay' = Append(replay, t) /\ UNCHANGED <<applied, st, saved>>
    BY DEF CommitEntry
  <1>2. /\ IsSeq(l) /\ n \in Nat /\ Len(l) = n + 1
        /\ \A i \in 1..n : l[i] = log[i]
        /\ l[n + 1] = cmd
    BY <1>1, AppendAny DEF SessionsInv, LogFits
  <1>3. /\ IsSeq(rp) /\ Len(rp) = n + 1
        /\ \A i \in 1..n : rp[i] = replay[i]
        /\ rp[n + 1] = t
    <2>1. IsSeq(replay) /\ Len(replay) = n
      BY DEF SessionsInv, ReplayFits
    <2> HIDE DEF t
    <2>2. /\ IsSeq(Append(replay, t)) /\ Len(Append(replay, t)) = Len(replay) + 1
          /\ \A i \in 1..Len(replay) : Append(replay, t)[i] = replay[i]
          /\ Append(replay, t)[Len(replay) + 1] = t
      BY <2>1, AppendAny
    <2> QED
      BY <1>1, <2>1, <2>2
  <1>4. \A i \in 0..n : ReplayedTo(i)' = ReplayedTo(i)
    BY <1>2, <1>3 DEF ReplayedTo
  <1>5. ReplayedTo(n + 1)' = t
    <2> HIDE DEF t
    <2> QED
      BY <1>2, <1>3 DEF ReplayedTo
  <1> HIDE DEF l, rp, t
  <1> QED
    BY <1>1, <1>2, <1>3, <1>4, <1>5 DEF l, rp, t, s

\* A command that is no repetition adds a song that no entry has added before.
LEMMA SongIsNew ==
  ASSUME SessionsInv, NEW n \in Nat, n = Len(log), NEW cmd, IsCommand(cmd),
         ~Repeated(ReplayedTo(n), cmd)
  PROVE  Adds(cmd) \cap SongsOf(ReplayedTo(n)) = {}
  <1> DEFINE s == ReplayedTo(n)
  <1>0. /\ SongsOf(s) = Added(n)
        /\ \A k \in 1..n : HasSession(log[k]) => log[k].seq <= s.lastSeq[log[k].client]
    BY DEF SessionsInv, ReplayFits
  <1> HIDE DEF s
  <1> SUFFICES ASSUME cmd.op = "enqueue", cmd.song \in SongsOf(s)
               PROVE  FALSE
    BY DEF Adds, s
  <1>1. /\ cmd.client \in Client /\ cmd.seq \in Nat \ {0}
        /\ cmd.song = <<cmd.client, cmd.seq>>
    BY DEF IsCommand, Noop
  <1>2. PICK k \in 1..n : log[k].op = "enqueue" /\ log[k].song = cmd.song
    BY <1>0 DEF Added
  <1>3. IsCommand(log[k])
    BY <1>2 DEF SessionsInv, LogFits
  <1>4. /\ log[k].client \in Client /\ log[k].seq \in Nat \ {0}
        /\ log[k].song = <<log[k].client, log[k].seq>>
    BY <1>2, <1>3 DEF IsCommand, Noop
  <1>5. log[k].client = cmd.client /\ log[k].seq = cmd.seq
    BY <1>1, <1>2, <1>4
  <1>6. HasSession(log[k]) /\ HasSession(cmd)
    BY <1>1, <1>5, JukeboxAssumption DEF HasSession
  <1>7. cmd.seq <= s.lastSeq[cmd.client]
    BY <1>0, <1>5, <1>6
  <1> QED
    BY <1>6, <1>7 DEF Repeated, s

\* A command is committed: the replay goes on, each song of it still held once.
LEMMA EntryCommitted ==
  ASSUME SessionsInv, NEW cmd, IsCommand(cmd), CommitEntry(cmd),
         cmd # Noop => cmd.seq \in 1..Len(calls[cmd.client]),
         \A d \in Client : Len(calls'[d]) = Len(calls[d])
  PROVE  LogFits' /\ ReplayFits' /\ ReplicasFit'
  <1>0. PICK n \in Nat : n = Len(log)
    BY LenProperties DEF SessionsInv, LogFits, IsSeq
  <1> DEFINE s == ReplayedTo(n)
             t == Apply(s, cmd).st
             l == log'
             rp == replay'
  <1>1. UNCHANGED <<applied, st, saved>>
    BY <1>0, EntryAppended
  <1>2. /\ IsSeq(l) /\ n \in Nat /\ Len(l) = n + 1
        /\ \A i \in 1..n : l[i] = log[i]
        /\ l[n + 1] = cmd
    BY <1>0, EntryAppended
  <1>3. /\ IsSeq(rp) /\ Len(rp) = n + 1
        /\ \A i \in 1..n : rp[i] = replay[i]
        /\ rp[n + 1] = t
    BY <1>0, EntryAppended
  <1>4. \A i \in 0..n : ReplayedTo(i)' = ReplayedTo(i)
    BY <1>0, EntryAppended
  <1>5. ReplayedTo(n + 1)' = t
    BY <1>0, EntryAppended
  <1>6. \A i \in 1..n + 1 : i \in 1..n \/ i = n + 1
    BY <1>2
  <1>7. LogFits'
    <2>1. ASSUME NEW i \in 1..n + 1
          PROVE  IsCommand(l[i]) /\ (l[i] # Noop => l[i].seq \in 1..Len(calls'[l[i].client]))
      <3>1. CASE i \in 1..n
        <4>1. IsCommand(log[i]) /\ (log[i] # Noop => log[i].seq \in 1..Len(calls[log[i].client]))
          BY <1>0, <3>1 DEF SessionsInv, LogFits
        <4>2. log[i] # Noop => log[i].client \in Client
          BY <4>1 DEF IsCommand
        <4> QED
          BY <1>2, <3>1, <4>1, <4>2
      <3>2. CASE i = n + 1
        <4>1. cmd # Noop => cmd.client \in Client
          BY DEF IsCommand
        <4> QED
          BY <1>2, <3>2, <4>1
      <3> QED
        BY <1>6, <3>1, <3>2
    <2> QED
      BY <1>2, <2>1 DEF LogFits
  <1>8. /\ IsJukebox(s) /\ EachOnce(s) /\ SongsOf(s) = Added(n)
        /\ \A k \in 1..n : HasSession(log[k]) => log[k].seq <= s.lastSeq[log[k].client]
    BY <1>0 DEF SessionsInv, ReplayFits
  <1> HIDE DEF l, rp, t, s
  <1>9. ~Repeated(s, cmd) => Adds(cmd) \cap SongsOf(s) = {}
    BY <1>0, SongIsNew DEF s
  <1>10. /\ IsJukebox(t) /\ EachOnce(t)
         /\ SongsOf(t) = SongsOf(s) \cup (IF Repeated(s, cmd) THEN {} ELSE Adds(cmd))
         /\ \A d \in Client : s.lastSeq[d] <= t.lastSeq[d]
         /\ HasSession(cmd) => cmd.seq <= t.lastSeq[cmd.client]
    BY <1>8, <1>9, ApplyKeeps DEF t
  <1>11. \A i \in 0..n : Added(i)' = Added(i)
    <2> SUFFICES ASSUME NEW i \in 0..n PROVE Added(i)' = Added(i)
      OBVIOUS
    <2>1. \A e \in 1..i : e - 1 \in 0..n /\ e \in 1..n
      BY <1>2
    <2>2. \A e \in 1..i : ReplayedTo(e - 1)' = ReplayedTo(e - 1) /\ l[e] = log[e]
      BY <1>2, <1>4, <2>1
    <2> QED
      BY <2>2 DEF Added, l
  <1>12. Added(n + 1)' = Added(n) \cup (IF Repeated(s, cmd) THEN {} ELSE Adds(cmd))
    <2>1. \A e \in 1..n : e - 1 \in 0..n
      BY <1>2
    <2>2. \A e \in 1..n : /\ Repeated(ReplayedTo(e - 1)', l[e]) <=> Repeated(ReplayedTo(e - 1), log[e])
                          /\ l[e] = log[e]
      BY <1>2, <1>4, <2>1
    <2>3. Repeated(ReplayedTo(n + 1 - 1)', l[n + 1]) <=> Repeated(s, cmd)
      <3>1. n + 1 - 1 = n /\ n \in 0..n
        BY <1>2
      <3> QED
        BY <1>2, <1>4, <3>1 DEF s
    <2> DEFINE gives(e, x) == ~Repeated(ReplayedTo(e - 1), log[e]) /\ log[e].op = "enqueue"
                               /\ x = log[e].song /\ x # None
               gives2(e, x) == ~Repeated(ReplayedTo(e - 1)', l[e]) /\ l[e].op = "enqueue"
                               /\ x = l[e].song /\ x # None
    <2>4. \A x : x \in Added(n) <=> \E e \in 1..n : gives(e, x)
      BY DEF Added
    <2>5. \A x : x \in Added(n + 1)' <=> \E e \in 1..n + 1 : gives2(e, x)
      BY DEF Added, l
    <2>6. \A x : \A e \in 1..n : gives(e, x) <=> gives2(e, x)
      BY <2>2
    <2>7. \A x : gives2(n + 1, x) <=> x \in (IF Repeated(s, cmd) THEN {} ELSE Adds(cmd))
      <3>1. cmd.op = "enqueue" => cmd.song # None
        BY SessionsAssumption DEF IsCommand, Noop
      <3> QED
        BY <1>2, <2>3, <3>1 DEF Adds
    <2> HIDE DEF gives, gives2
    <2>8. \A x : (\E e \in 1..n + 1 : gives2(e, x)) <=> (\E e \in 1..n : gives2(e, x)) \/ gives2(n + 1, x)
      BY <1>2, <1>6
    <2>9. \A x : x \in Added(n + 1)' <=> x \in Added(n) \/ gives2(n + 1, x)
      BY <2>4, <2>5, <2>6, <2>8
    <2> QED
      BY <2>7, <2>9
  <1>13. ReplayFits'
    <2>1. ASSUME NEW i \in 1..n + 1 PROVE rp[i] = Apply(ReplayedTo(i - 1)', l[i]).st
      <3>1. CASE i \in 1..n
        <4>1. i - 1 \in 0..n
          BY <1>2, <3>1
        <4>2. rp[i] = replay[i] /\ l[i] = log[i] /\ ReplayedTo(i - 1)' = ReplayedTo(i - 1)
          BY <1>2, <1>3, <1>4, <3>1, <4>1
        <4>3. replay[i] = Apply(ReplayedTo(i - 1), log[i]).st
          BY <1>0, <3>1 DEF SessionsInv, ReplayFits
        <4> QED
          BY <4>2, <4>3
      <3>2. CASE i = n + 1
        <4>1. i - 1 = n /\ n \in 0..n
          BY <1>2, <3>2
        <4> QED
          BY <1>2, <1>3, <1>4, <3>2, <4>1 DEF s, t
      <3> QED
        BY <1>6, <3>1, <3>2
    <2>2. ASSUME NEW i \in 0..n + 1
          PROVE  /\ IsJukebox(ReplayedTo(i)') /\ EachOnce(ReplayedTo(i)')
                 /\ SongsOf(ReplayedTo(i)') = Added(i)'
                 /\ \A k \in 1..i : HasSession(l[k]) =>
                       l[k].seq <= ReplayedTo(i)'.lastSeq[l[k].client]
      <3>1. CASE i \in 0..n
        <4>1. \A k \in 1..i : k \in 1..n /\ l[k] = log[k]
          BY <1>2, <3>1
        <4>2. ReplayedTo(i)' = ReplayedTo(i) /\ Added(i)' = Added(i)
          BY <1>4, <1>11, <3>1
        <4>3. /\ IsJukebox(ReplayedTo(i)) /\ EachOnce(ReplayedTo(i))
              /\ SongsOf(ReplayedTo(i)) = Added(i)
              /\ \A k \in 1..i : HasSession(log[k]) =>
                    log[k].seq <= ReplayedTo(i).lastSeq[log[k].client]
          BY <1>0, <3>1 DEF SessionsInv, ReplayFits
        <4> QED
          BY <4>1, <4>2, <4>3
      <3>2. CASE i = n + 1
        <4>1. ASSUME NEW k \in 1..n, HasSession(log[k])
              PROVE  log[k].seq <= t.lastSeq[log[k].client]
          <5>1. IsCommand(log[k])
            BY <1>0 DEF SessionsInv, LogFits
          <5>2. log[k].client \in Client /\ log[k].seq \in Nat
            BY <4>1, <5>1 DEF IsCommand, HasSession, Noop
          <5>3. log[k].seq <= s.lastSeq[log[k].client]
            BY <1>8, <4>1
          <5>4. s.lastSeq[log[k].client] \in Nat /\ t.lastSeq[log[k].client] \in Nat
            BY <1>8, <1>10, <5>2 DEF IsJukebox
          <5>5. s.lastSeq[log[k].client] <= t.lastSeq[log[k].client]
            BY <1>10, <5>2
          <5> QED
            BY <5>2, <5>3, <5>4, <5>5
        <4>2. ASSUME NEW k \in 1..n + 1, HasSession(l[k])
              PROVE  l[k].seq <= t.lastSeq[l[k].client]
          BY <1>2, <1>6, <1>10, <4>1, <4>2
        <4>3. ReplayedTo(i)' = t /\ Added(i)' = SongsOf(t)
          BY <1>5, <1>8, <1>10, <1>12, <3>2
        <4> QED
          BY <1>10, <3>2, <4>2, <4>3
      <3> QED
        BY <1>2, <3>1, <3>2
    <2> QED
      BY <1>2, <1>3, <2>1, <2>2 DEF ReplayFits, l, rp
  <1>14. ReplicasFit'
    BY <1>0, <1>1, <1>2, <1>4, ReplicasKept DEF l
  <1> QED
    BY <1>7, <1>13, <1>14


\* f with another phase, number of proposals, answer or effect in call s of c.
Put(f, c, s, a, b, d, e) ==
    [f EXCEPT ![c] = [f[c] EXCEPT ![s] =
        [cmd |-> f[c][s].cmd, phase |-> a, proposals |-> b, res |-> d, effect |-> e]]]

LEMMA CallEdited ==
  ASSUME SessionsInv, NEW c \in Client, NEW s \in 1..Len(calls[c]), NEW a, NEW b, NEW d, NEW e,
         calls' = Put(calls, c, s, a, b, d, e)
  PROVE  CallsFit' /\ \A x \in Client : Len(calls'[x]) = Len(calls[x])
  <1> DEFINE r == [cmd |-> calls[c][s].cmd, phase |-> a, proposals |-> b, res |-> d,
                   effect |-> e]
  <1>1. IsCall(r) /\ r.cmd = calls[c][s].cmd
    BY DEF IsCall
  <1>2. calls' = [calls EXCEPT ![c] = [calls[c] EXCEPT ![s] = r]]
    BY DEF Put
  <1> HIDE DEF r
  <1> QED
    BY <1>1, <1>2, CallChanges

SetPhase(f, c, s, x)     == [f EXCEPT ![c][s].phase = x]
SetCount(f, c, s, x)     == [f EXCEPT ![c][s].proposals = x]
SetEffect(f, c, s, x)    == [f EXCEPT ![c][s].effect = x]
SetAnswer(f, c, s, x, y) == [f EXCEPT ![c][s].phase = x, ![c][s].res = y]

LEMMA EditCall ==
  ASSUME NEW f, NEW c \in DOMAIN f, NEW s \in DOMAIN f[c], IsCall(f[c][s]), NEW x, NEW y
  PROVE  /\ SetPhase(f, c, s, x)
               = Put(f, c, s, x, f[c][s].proposals, f[c][s].res, f[c][s].effect)
         /\ SetCount(f, c, s, x)
               = Put(f, c, s, f[c][s].phase, x, f[c][s].res, f[c][s].effect)
         /\ SetEffect(f, c, s, x)
               = Put(f, c, s, f[c][s].phase, f[c][s].proposals, f[c][s].res, x)
         /\ SetAnswer(f, c, s, x, y)
               = Put(f, c, s, x, f[c][s].proposals, y, f[c][s].effect)
  <1> DEFINE r == f[c][s]
  <1>1. r = [cmd |-> r.cmd, phase |-> r.phase, proposals |-> r.proposals,
             res |-> r.res, effect |-> r.effect]
    BY DEF IsCall
  <1>2. [r EXCEPT !.phase = x] = [cmd |-> r.cmd, phase |-> x, proposals |-> r.proposals,
                                  res |-> r.res, effect |-> r.effect]
    BY <1>1
  <1>3. [r EXCEPT !.proposals = x] = [cmd |-> r.cmd, phase |-> r.phase, proposals |-> x,
                                      res |-> r.res, effect |-> r.effect]
    BY <1>1
  <1>4. [r EXCEPT !.effect = x] = [cmd |-> r.cmd, phase |-> r.phase,
                                   proposals |-> r.proposals, res |-> r.res, effect |-> x]
    BY <1>1
  <1>5. [f EXCEPT ![c][s].phase = x] = [f EXCEPT ![c] = [f[c] EXCEPT ![s] = [r EXCEPT !.phase = x]]]
    OBVIOUS
  <1>6. [f EXCEPT ![c][s].proposals = x]
          = [f EXCEPT ![c] = [f[c] EXCEPT ![s] = [r EXCEPT !.proposals = x]]]
    OBVIOUS
  <1>7. [f EXCEPT ![c][s].effect = x]
          = [f EXCEPT ![c] = [f[c] EXCEPT ![s] = [r EXCEPT !.effect = x]]]
    OBVIOUS
  <1>8. [f EXCEPT ![c][s].phase = x, ![c][s].res = y]
               = [f EXCEPT ![c] = [f[c] EXCEPT ![s] =
                    [cmd |-> r.cmd, phase |-> x, proposals |-> r.proposals, res |-> y,
                     effect |-> r.effect]]]
    <2> DEFINE r1 == [cmd |-> r.cmd, phase |-> x, proposals |-> r.proposals, res |-> r.res,
                      effect |-> r.effect]
               r2 == [cmd |-> r.cmd, phase |-> x, proposals |-> r.proposals, res |-> y,
                      effect |-> r.effect]
               h1 == [f[c] EXCEPT ![s] = r1]
               g  == [f EXCEPT ![c] = h1]
    <2>1. [f EXCEPT ![c][s].phase = x, ![c][s].res = y] = [[f EXCEPT ![c][s].phase = x] EXCEPT ![c][s].res = y]
      OBVIOUS
    <2>2. [f EXCEPT ![c][s].phase = x] = g
      BY <1>2, <1>5
    <2>3. g[c] = h1 /\ h1[s] = r1
      <3> HIDE DEF r1
      <3> QED
        OBVIOUS
    <2>4. [r1 EXCEPT !.res = y] = r2
      OBVIOUS
    <2>5. [g EXCEPT ![c][s].res = y] = [g EXCEPT ![c] = [g[c] EXCEPT ![s] = [g[c][s] EXCEPT !.res = y]]]
      <3> HIDE DEF g
      <3> QED
        OBVIOUS
    <2>6. [g EXCEPT ![c] = [h1 EXCEPT ![s] = r2]] = [f EXCEPT ![c] = [f[c] EXCEPT ![s] = r2]]
      <3> HIDE DEF r1, r2
      <3>1. [h1 EXCEPT ![s] = r2] = [f[c] EXCEPT ![s] = r2]
        OBVIOUS
      <3> HIDE DEF h1
      <3>2. \A h : [g EXCEPT ![c] = h] = [f EXCEPT ![c] = h]
        OBVIOUS
      <3> HIDE DEF g
      <3> QED
        BY <3>1, <3>2
    <2>7. g[c][s] = r1
      <3> HIDE DEF r1, g, h1
      <3> QED
        BY <2>3
    <2> HIDE DEF r1, r2, g, h1
    <2> QED
      BY <2>1, <2>2, <2>3, <2>4, <2>5, <2>6, <2>7 DEF r2
  <1> QED
    BY <1>2, <1>3, <1>4, <1>5, <1>6, <1>7, <1>8 DEF Put, SetPhase, SetCount, SetEffect, SetAnswer


\* Whatever a step writes into one call, the calls still fit.
LEMMA CallWritten ==
  ASSUME SessionsInv, NEW c \in Client, NEW s \in 1..Len(calls[c]), NEW x, NEW y,
         \/ calls' = SetPhase(calls, c, s, x)
         \/ calls' = SetCount(calls, c, s, x)
         \/ calls' = SetEffect(calls, c, s, x)
         \/ calls' = SetAnswer(calls, c, s, x, y)
  PROVE  CallsFit' /\ \A d \in Client : Len(calls'[d]) = Len(calls[d])
  <1>1. c \in DOMAIN calls /\ IsCall(calls[c][s]) /\ IsSeq(calls[c])
    BY DEF SessionsInv, CallsFit
  <1>2. s \in DOMAIN calls[c]
    BY <1>1, LenProperties DEF IsSeq
  <1>3. \E a, b, d, e : calls' = Put(calls, c, s, a, b, d, e)
    <2> DEFINE r == calls[c][s]
    <2>1. /\ SetPhase(calls, c, s, x) = Put(calls, c, s, x, r.proposals, r.res, r.effect)
          /\ SetCount(calls, c, s, x) = Put(calls, c, s, r.phase, x, r.res, r.effect)
          /\ SetEffect(calls, c, s, x) = Put(calls, c, s, r.phase, r.proposals, r.res, x)
          /\ SetAnswer(calls, c, s, x, y) = Put(calls, c, s, x, r.proposals, y, r.effect)
      BY <1>1, <1>2, EditCall
    <2> QED
      BY <2>1
  <1> QED
    BY <1>3, CallEdited

LEMMA CallsStill ==
  ASSUME SessionsInv, UNCHANGED calls
  PROVE  CallsFit' /\ \A d \in Client : Len(calls'[d]) = Len(calls[d])
  BY DEF SessionsInv, CallsFit

LEMMA LengthsAreNat ==
  ASSUME SessionsInv
  PROVE  Len(log) \in Nat /\ \A d \in Client : Len(calls[d]) \in Nat
  BY LenProperties DEF SessionsInv, CallsFit, LogFits, IsSeq

\* A step that leaves the log alone and fits the calls and the replicas.
LEMMA NoCommit ==
  ASSUME SessionsInv, UNCHANGED <<log, replay, applied, st, saved>>, CallsFit',
         \A d \in Client : Len(calls[d]) <= Len(calls'[d]) /\ Len(calls'[d]) \in Nat
  PROVE  SessionsInv'
  <1>1. LogFits' /\ ReplayFits' /\ \A i : ReplayedTo(i)' = ReplayedTo(i)
    BY LogKept
  <1>2. Len(log) \in Nat
    BY LengthsAreNat
  <1>3. ReplicasFit'
    BY <1>1, <1>2, ReplicasKept
  <1> QED
    BY <1>1, <1>3 DEF SessionsInv

LEMMA ApplyNextKeeps ==
  ASSUME SessionsInv, NEW r \in Replica, ApplyNext(r)
  PROVE  SessionsInv'
  <1>0. PICK i \in Nat : i = applied[r] + 1
    BY LengthsAreNat DEF SessionsInv, ReplicasFit
  <1> DEFINE cmd == log[i]
             out == Apply(st[r], cmd)
  <1>1. /\ i \in 1..Len(log)
        /\ st' = [st EXCEPT ![r] = out.st]
        /\ applied' = [applied EXCEPT ![r] = i]
        /\ saved' = saved \/ saved' = [saved EXCEPT ![r] = [index |-> i, image |-> out.st]]
        /\ UNCHANGED <<log, replay>>
    <2>1. Len(log) \in Nat
      BY LengthsAreNat
    <2>2. applied[r] \in 0..Len(log)
      BY DEF SessionsInv, ReplicasFit
    <2>3. i <= Len(log)
      BY <1>0 DEF ApplyNext
    <2>4. i \in 1..Len(log)
      BY <1>0, <2>1, <2>2, <2>3
    <2>5. saved' = saved \/ saved' = [saved EXCEPT ![r] = [index |-> i, image |-> out.st]]
      BY <1>0 DEF ApplyNext
    <2> QED
      BY <1>0, <2>4, <2>5 DEF ApplyNext
  <1>2. CallsFit' /\ \A d \in Client : Len(calls'[d]) = Len(calls[d])
    <2>1. CASE UNCHANGED calls
      BY <2>1, CallsStill
    <2>2. CASE cmd # Noop /\ calls' = [calls EXCEPT ![cmd.client][cmd.seq].phase = "done",
                                                  ![cmd.client][cmd.seq].res = out.res]
      <3>1. cmd.client \in Client /\ cmd.seq \in 1..Len(calls[cmd.client])
        BY <1>1, <2>2 DEF SessionsInv, LogFits, IsCommand
      <3>2. calls' = SetAnswer(calls, cmd.client, cmd.seq, "done", out.res)
        BY <2>2 DEF SetAnswer
      <3> HIDE DEF cmd, out
      <3> QED
        BY <3>1, <3>2, CallWritten
    <2> QED
      BY <1>0, <2>1, <2>2 DEF ApplyNext
  <1>3. LogFits' /\ ReplayFits' /\ \A k : ReplayedTo(k)' = ReplayedTo(k)
    BY <1>1, <1>2, LogKept, LengthsAreNat
  <1>4. out.st = ReplayedTo(i)
    <2>1. st[r] = ReplayedTo(applied[r]) /\ applied[r] = i - 1 /\ i # 0
      BY <1>0, <1>1, LengthsAreNat DEF SessionsInv, ReplicasFit
    <2>2. replay[i] = Apply(ReplayedTo(i - 1), log[i]).st
      BY <1>1 DEF SessionsInv, ReplayFits
    <2> QED
      BY <2>1, <2>2 DEF ReplayedTo
  <1> HIDE DEF out, cmd
  <1>5. ReplicasFit'
    <2>1. ASSUME NEW p \in Replica
          PROVE  /\ applied'[p] \in 0..Len(log)
                 /\ st'[p] = ReplayedTo(applied'[p])
                 /\ saved'[p] = [index |-> saved'[p].index, image |-> saved'[p].image]
                 /\ saved'[p].index \in 0..Len(log)
                 /\ saved'[p].image = ReplayedTo(saved'[p].index)
      <3>1. CASE p # r
        BY <1>1, <3>1 DEF SessionsInv, ReplicasFit
      <3>2. CASE p = r
        <4>1. applied'[r] = i /\ st'[r] = ReplayedTo(i)
          BY <1>1, <1>4 DEF SessionsInv, ReplicasFit
        <4>2. CASE saved' = saved
          BY <1>1, <3>2, <4>1, <4>2 DEF SessionsInv, ReplicasFit
        <4>3. CASE saved' = [saved EXCEPT ![r] = [index |-> i, image |-> out.st]]
          <5>1. saved'[r] = [index |-> i, image |-> out.st]
            BY <4>3 DEF SessionsInv, ReplicasFit
          <5> QED
            BY <1>1, <1>4, <3>2, <4>1, <5>1
        <4> QED
          BY <1>1, <4>2, <4>3
      <3> QED
        BY <3>1, <3>2
    <2>2. /\ applied' = [p \in Replica |-> applied'[p]]
          /\ st' = [p \in Replica |-> st'[p]]
          /\ saved' = [p \in Replica |-> saved'[p]]
      BY <1>1 DEF SessionsInv, ReplicasFit
    <2>3. \A p \in Replica : /\ ReplayedTo(applied[p])' = ReplayedTo(applied'[p])
                             /\ ReplayedTo(saved[p].index)' = ReplayedTo(saved'[p].index)
      BY <1>1 DEF ReplayedTo
    <2> QED
      BY <1>1, <2>1, <2>2, <2>3 DEF ReplicasFit
  <1> QED
    BY <1>2, <1>3, <1>5 DEF SessionsInv

LEMMA LoadSnapshotKeeps ==
  ASSUME SessionsInv, NEW r \in Replica, NEW from \in Replica, LoadSnapshot(r, from)
  PROVE  SessionsInv'
  <1>1. /\ st' = [st EXCEPT ![r] = IF saved[from].index = 0 THEN New ELSE Restore(saved[from].image)]
        /\ applied' = [applied EXCEPT ![r] = saved[from].index]
        /\ saved' = [saved EXCEPT ![r] = saved[from]]
        /\ UNCHANGED <<calls, log, replay>>
    BY DEF LoadSnapshot
  <1>2. CallsFit' /\ \A d \in Client : Len(calls'[d]) = Len(calls[d])
    BY <1>1, CallsStill
  <1>3. LogFits' /\ ReplayFits'
    BY <1>1, <1>2, LogKept, LengthsAreNat
  <1>4. /\ saved[from].index \in 0..Len(log)
        /\ saved[from] = [index |-> saved[from].index, image |-> saved[from].image]
        /\ saved[from].image = ReplayedTo(saved[from].index)
    BY DEF SessionsInv, ReplicasFit
  <1>5. IsJukebox(saved[from].image)
    BY <1>4 DEF SessionsInv, ReplayFits
  <1>6. (IF saved[from].index = 0 THEN New ELSE Restore(saved[from].image))
          = ReplayedTo(saved[from].index)
    BY <1>4, <1>5, RestoreIsIdentity DEF ReplayedTo
  <1>7. ReplicasFit'
    <2>1. ASSUME NEW p \in Replica
          PROVE  /\ applied'[p] \in 0..Len(log)
                 /\ st'[p] = ReplayedTo(applied'[p])
                 /\ saved'[p] = [index |-> saved'[p].index, image |-> saved'[p].image]
                 /\ saved'[p].index \in 0..Len(log)
                 /\ saved'[p].image = ReplayedTo(saved'[p].index)
      <3>1. CASE p # r
        BY <1>1, <3>1 DEF SessionsInv, ReplicasFit
      <3>2. CASE p = r
        <4>1. /\ applied'[r] = saved[from].index
              /\ st'[r] = ReplayedTo(saved[from].index)
              /\ saved'[r] = saved[from]
          BY <1>1, <1>6 DEF SessionsInv, ReplicasFit
        <4> QED
          BY <1>4, <3>2, <4>1
      <3> QED
        BY <3>1, <3>2
    <2>2. /\ applied' = [p \in Replica |-> applied'[p]]
          /\ st' = [p \in Replica |-> st'[p]]
          /\ saved' = [p \in Replica |-> saved'[p]]
      BY <1>1 DEF SessionsInv, ReplicasFit
    <2>3. \A p \in Replica : /\ ReplayedTo(applied[p])' = ReplayedTo(applied'[p])
                             /\ ReplayedTo(saved[p].index)' = ReplayedTo(saved'[p].index)
      BY <1>1 DEF ReplayedTo
    <2> QED
      BY <1>1, <2>1, <2>2, <2>3 DEF ReplicasFit
  <1> QED
    BY <1>2, <1>3, <1>7 DEF SessionsInv


LEMMA CommitKeeps ==
  ASSUME SessionsInv, NEW c \in Client, NEW s \in 1..Len(calls[c]), Commit(c, s)
  PROVE  SessionsInv'
  <1> DEFINE cmd == Asked(c, s, calls[c][s].cmd)
             now == ReplayedTo(Len(log))
             eff == IF Repeated(now, cmd) THEN calls[c][s].effect
                    ELSE calls[c][s].effect \cup {applyInner(now, cmd).res}
  <1>1. CommitEntry(cmd) /\ calls' = SetEffect(calls, c, s, eff)
    BY DEF Commit, SetEffect
  <1>2. IsCommand(cmd)
    BY DEF SessionsInv, CallsFit
  <1>3. cmd.client = c /\ cmd.seq = s
    BY DEF Asked
  <1> HIDE DEF eff, cmd, now
  <1>4. CallsFit' /\ \A d \in Client : Len(calls'[d]) = Len(calls[d])
    BY <1>1, CallWritten
  <1>5. LogFits' /\ ReplayFits' /\ ReplicasFit'
    BY <1>1, <1>2, <1>3, <1>4, EntryCommitted
  <1> QED
    BY <1>4, <1>5 DEF SessionsInv

LEMMA SessionsNext == SessionsInv /\ [Next]_sessionVars => SessionsInv'
  <1> SUFFICES ASSUME SessionsInv, [Next]_sessionVars PROVE SessionsInv'
    OBVIOUS
  <1>0. ASSUME UNCHANGED calls
        PROVE  CallsFit' /\ \A d \in Client : Len(calls[d]) <= Len(calls'[d]) /\ Len(calls'[d]) \in Nat
    BY <1>0, CallsStill, LengthsAreNat
  <1>1. CASE UNCHANGED sessionVars
    BY <1>0, <1>1, NoCommit DEF sessionVars
  <1>2. ASSUME NEW c \in Client, NEW cmd \in Command, Call(c, cmd) PROVE SessionsInv'
    <2>1. UNCHANGED <<log, replay, applied, st, saved>>
      BY <1>2 DEF Call
    <2> QED
      BY <1>2, <2>1, CallAdded, NoCommit
  <1>3. ASSUME NEW c \in Client, NEW s \in 1..Len(calls[c]), Retry(c, s) \/ GiveUp(c, s)
        PROVE  SessionsInv'
    <2>1. /\ UNCHANGED <<log, replay, applied, st, saved>>
          /\ \/ calls' = SetCount(calls, c, s, calls[c][s].proposals + 1)
             \/ calls' = SetPhase(calls, c, s, "failed")
      BY <1>3 DEF Retry, GiveUp, SetCount, SetPhase
    <2>2. CallsFit' /\ \A d \in Client : Len(calls'[d]) = Len(calls[d])
      BY <2>1, CallWritten
    <2> QED
      BY <2>1, <2>2, NoCommit, LengthsAreNat
  <1>4. ASSUME NEW c \in Client, NEW s \in 1..Len(calls[c]), Commit(c, s) PROVE SessionsInv'
    BY <1>4, CommitKeeps
  <1>5. CASE CommitNoop
    <2>1. CommitEntry(Noop) /\ UNCHANGED calls
      BY <1>5 DEF CommitNoop
    <2>2. IsCommand(Noop)
      BY DEF IsCommand
    <2>3. CallsFit' /\ \A d \in Client : Len(calls'[d]) = Len(calls[d])
      BY <2>1, CallsStill
    <2>4. LogFits' /\ ReplayFits' /\ ReplicasFit'
      BY <2>1, <2>2, <2>3, EntryCommitted
    <2> QED
      BY <2>3, <2>4 DEF SessionsInv
  <1>6. ASSUME NEW r \in Replica, ApplyNext(r) PROVE SessionsInv'
    BY <1>6, ApplyNextKeeps
  <1>7. ASSUME NEW r \in Replica, NEW from \in Replica, LoadSnapshot(r, from) PROVE SessionsInv'
    BY <1>7, LoadSnapshotKeeps
  <1> QED
    BY <1>1, <1>2, <1>3, <1>4, <1>5, <1>6, <1>7 DEF Next

LEMMA SessionsInductive == Spec => []SessionsInv
  BY SessionsInit, SessionsNext, PTL DEF Spec

\* Whatever snapshots, restarts and retries lie behind it, a replica shows what
\* replaying the log alone shows (Apply, Snapshot, Restore), for any clients,
\* replicas and bounds.
THEOREM ReplicasShowTheReplay == Spec => []ReplicaIsReplay
  <1>1. SessionsInv => ReplicaIsReplay
    BY DEF SessionsInv, ReplicasFit, ReplicaIsReplay
  <1> QED
    BY <1>1, SessionsInductive, PTL

-----------------------------------------------------------------------------
(***************************************************************************)
(* Counting songs.                                                         *)
(***************************************************************************)

LEMMA InjectiveCount ==
  ASSUME NEW S, NEW s \in Seq(S), Injective(s)
  PROVE  Cardinality(Songs(s)) = Len(s)
  <1>1. Len(s) \in Nat /\ s \in [1..Len(s) -> S] /\ DOMAIN s = 1..Len(s)
    BY LenProperties
  <1> DEFINE T == Songs(s)
  <1>2. s \in Bijection(1..Len(s), T)
    <2>1. s \in [1..Len(s) -> T]
      BY <1>1 DEF Songs
    <2>2. IsInjective(s)
      BY <1>1 DEF IsInjective, Injective
    <2>3. \A x \in T : \E i \in 1..Len(s) : s[i] = x
      BY DEF Songs
    <2> HIDE DEF T
    <2> QED
      BY <2>1, <2>2, <2>3 DEF Bijection, Injection, Surjection
  <1>3. IsFiniteSet(1..Len(s)) /\ Cardinality(1..Len(s)) = Len(s)
    BY <1>1, FS_Interval
  <1>4. ExistsBijection(1..Len(s), T)
    BY <1>2 DEF ExistsBijection
  <1> QED
    BY <1>3, <1>4, FS_Bijection

LEMMA ConcatSongs ==
  ASSUME NEW S, NEW s \in Seq(S), NEW t \in Seq(S), Injective(s), Injective(t),
         Songs(s) \cap Songs(t) = {}
  PROVE  /\ s \o t \in Seq(S) /\ Injective(s \o t)
         /\ Songs(s \o t) = Songs(s) \cup Songs(t)
  <1> DEFINE u == s \o t
             a == Len(s)
             b == Len(t)
  <1>1. /\ u \in Seq(S) /\ Len(u) = a + b /\ a \in Nat /\ b \in Nat
        /\ \A i \in 1..a + b : u[i] = IF i <= a THEN s[i] ELSE t[i - a]
    BY ConcatProperties, LenProperties
  <1> HIDE DEF u
  <1>2. /\ \A i \in 1..a : i \in 1..a + b /\ u[i] = s[i]
        /\ \A i \in 1..b : i + a \in 1..a + b /\ u[i + a] = t[i]
        /\ \A i \in 1..a + b : i \in 1..a \/ (i - a \in 1..b /\ u[i] = t[i - a])
    BY <1>1
  <1>3. Songs(u) = Songs(s) \cup Songs(t)
    <2>1. Songs(u) \subseteq Songs(s) \cup Songs(t)
      BY <1>1, <1>2 DEF Songs
    <2>2. Songs(s) \cup Songs(t) \subseteq Songs(u)
      BY <1>1, <1>2 DEF Songs
    <2> QED
      BY <2>1, <2>2
  <1>4. Injective(u)
    <2> SUFFICES ASSUME NEW i \in 1..a + b, NEW j \in 1..a + b, u[i] = u[j] PROVE i = j
      BY <1>1 DEF Injective
    <2>1. \A x \in 1..a, y \in 1..b : s[x] # t[y]
      BY DEF Songs
    <2>2. CASE i \in 1..a /\ j \in 1..a
      BY <1>2, <2>2 DEF Injective
    <2>3. CASE i \notin 1..a /\ j \notin 1..a
      <3>1. i - a \in 1..b /\ j - a \in 1..b /\ t[i - a] = t[j - a]
        BY <1>2, <2>3
      <3>2. i - a = j - a
        BY <3>1 DEF Injective
      <3> QED
        BY <1>1, <3>2
    <2>4. CASE i \in 1..a /\ j \notin 1..a
      BY <1>2, <2>1, <2>4
    <2>5. CASE i \notin 1..a /\ j \in 1..a
      BY <1>2, <2>1, <2>5
    <2> QED
      BY <2>2, <2>3, <2>4, <2>5
  <1> QED
    BY <1>1, <1>3, <1>4 DEF u

\* No song is lost or doubled (applyInner, Apply): what replicas queue, play and
\* have played are the songs enqueued, once for each call that took effect.
THEOREM SongsAreConserved == Spec => []SongsConserved
  <1>1. SessionsInv => SongsConserved
    <2> SUFFICES ASSUME SessionsInv, NEW r \in Replica
                 PROVE  LET kept == st[r].queue \o st[r].history
                              \o (IF st[r].nowPlaying = None THEN <<>> ELSE <<st[r].nowPlaying>>)
                        IN  ToSet(kept) = Added(applied[r])
                            /\ Len(kept) = Cardinality(Added(applied[r]))
      BY DEF SongsConserved, Added
    <2> DEFINE s    == st[r]
               now  == IF s.nowPlaying = None THEN <<>> ELSE <<s.nowPlaying>>
               qh   == s.queue \o s.history
               kept == qh \o now
    <2>1. /\ s = ReplayedTo(applied[r]) /\ applied[r] \in 0..Len(log)
          /\ IsJukebox(ReplayedTo(applied[r])) /\ EachOnce(ReplayedTo(applied[r]))
          /\ SongsOf(ReplayedTo(applied[r])) = Added(applied[r])
      BY DEF SessionsInv, ReplicasFit, ReplayFits
    <2> HIDE DEF s
    <2>2. /\ s.queue \in Seq(SongID) /\ s.history \in Seq(SongID)
          /\ s.nowPlaying \in SongID \cup {None}
          /\ Injective(s.queue) /\ Injective(s.history)
          /\ Songs(s.queue) \cap Songs(s.history) = {}
          /\ s.nowPlaying \notin Songs(s.queue) \cup Songs(s.history)
          /\ Added(applied[r]) = Songs(s.queue) \cup Songs(s.history) \cup ({s.nowPlaying} \ {None})
      BY <2>1 DEF IsJukebox, EachOnce, SongsOf
    <2>3. /\ now \in Seq(SongID) /\ Injective(now) /\ Songs(now) = {s.nowPlaying} \ {None}
      <3>1. CASE s.nowPlaying = None
        <4>1. now = <<>>
          BY <3>1
        <4> HIDE DEF now
        <4> QED
          BY <3>1, <4>1 DEF Injective, Songs
      <3>2. CASE s.nowPlaying # None
        <4>1. now = <<s.nowPlaying>> /\ s.nowPlaying \in SongID
          BY <2>2, <3>2
        <4>2. now \in Seq(SongID) /\ Len(now) = 1 /\ now[1] = s.nowPlaying
          BY <4>1
        <4> HIDE DEF now
        <4> QED
          BY <3>2, <4>2 DEF Injective, Songs
      <3> QED
        BY <3>1, <3>2
    <2> HIDE DEF now
    <2>4. /\ qh \in Seq(SongID) /\ Injective(qh)
          /\ Songs(qh) = Songs(s.queue) \cup Songs(s.history)
      BY <2>2, ConcatSongs
    <2> HIDE DEF qh
    <2>5. Songs(qh) \cap Songs(now) = {}
      BY <2>2, <2>3, <2>4
    <2>6. /\ kept \in Seq(SongID) /\ Injective(kept)
          /\ Songs(kept) = Songs(qh) \cup Songs(now)
      BY <2>3, <2>4, <2>5, ConcatSongs
    <2> HIDE DEF kept
    <2>7. Songs(kept) = Added(applied[r])
      BY <2>2, <2>3, <2>4, <2>6
    <2>8. Len(kept) = Cardinality(Songs(kept))
      BY <2>6, InjectiveCount
    <2>9. ToSet(kept) = Songs(kept)
      BY <2>6, LenProperties DEF ToSet, Songs
    <2> QED
      BY <2>7, <2>8, <2>9 DEF kept, qh, now, s
  <1> QED
    BY <1>1, SessionsInductive, PTL

-----------------------------------------------------------------------------
(***************************************************************************)
(* The refinement: what one command does to the sequential queue.          *)
(***************************************************************************)

\* The first position of song in q, 0 if it is not there.
First(q, song) == SelectInSeq(q, LAMBDA x : x = song)

\* The command c has nothing to act on in the jukebox s.
Refuses(s, c) ==
    \/ c.op = "enqueue" /\ c.song = None
    \/ c.op = "vote-skip" /\ s.nowPlaying = None
    \/ c.op = "reorder" /\ ~\E i \in 1..Len(s.queue) : s.queue[i] = c.song

\* From s to t the next song plays.
Advances(s, t) ==
    /\ t.nowPlaying = IF s.queue = <<>> THEN None ELSE Head(s.queue)
    /\ t.queue      = IF s.queue = <<>> THEN s.queue ELSE Tail(s.queue)

\* From s to t the song is moved to the index to, or to the nearer end.
Reorders(s, t, song, to) ==
    LET i == First(t.queue, song) IN
    /\ i # 0
    /\ \/ i = to + 1
       \/ to < 0 /\ i = 1
       \/ to >= Len(s.queue) /\ i = Len(s.queue)
    /\ RemoveAt(t.queue, i) = RemoveFirst(s.queue, song)
    /\ t.nowPlaying = s.nowPlaying

\* What the sequential queue says of the command c, from s to t.
Effects(s, t, c) ==
    CASE c.op = "enqueue"   -> t.queue = Append(s.queue, c.song) /\ t.nowPlaying = s.nowPlaying
      [] c.op = "play-next" -> Advances(s, t)
      [] c.op = "vote-skip" ->
           Advances(s, t) \/ (t.queue = s.queue /\ t.nowPlaying = s.nowPlaying)
      [] c.op = "reorder"   -> Reorders(s, t, c.song, c.to)

\* The first song of a queue that is what one looks for.
LEMMA FirstIs ==
  ASSUME NEW S, NEW q \in Seq(S), NEW song
  PROVE  LET i == First(q, song) IN
         /\ i = 0 <=> ~\E j \in 1..Len(q) : q[j] = song
         /\ i # 0 => i \in 1..Len(q) /\ q[i] = song
  <1> DEFINE I == {j \in 1..Len(q) : q[j] = song}
             i == First(q, song)
  <1>1. i = IF I # {} THEN Min(I) ELSE 0
    BY DEF SelectInSeq, First
  <1>2. I \in SUBSET Nat
    BY LenProperties
  <1>3. I # {} => Min(I) \in I
    BY <1>2, MinOfNats
  <1> QED
    BY <1>1, <1>3, LenProperties

\* The move of applyInner is the move of the sequential queue: the song lands at
\* its index, or at the nearer end, and the other songs keep their order.
LEMMA MoveReorders ==
  ASSUME NEW s, NEW t, NEW to \in Int, NEW song, IsJukebox(s), Injective(s.queue),
         NEW from, from = First(s.queue, song), from # 0,
         t.queue = Moved(s.queue, from, to), t.nowPlaying = s.nowPlaying
  PROVE  Reorders(s, t, song, to)
  <1> DEFINE q == s.queue
             m == t.queue
             L == Len(q)
  <1>1. q \in Seq(SongID)
    BY DEF IsJukebox
  <1>2. L \in Nat /\ from \in 1..L /\ q[from] = song
    BY <1>1, FirstIs, LenProperties
  <1>3. PICK at \in 1..L :
            /\ at = to + 1 \/ (to < 0 /\ at = 1) \/ (to >= L /\ at = L)
            /\ m \in Seq(SongID)
            /\ Len(m) = L
            /\ \A i \in 1..L :
                 m[i] = IF i = at THEN q[from]
                        ELSE LET j == IF i < at THEN i ELSE i - 1
                             IN  IF j < from THEN q[j] ELSE q[j + 1]
    <2>1. m = Moved(q, from, to)
      OBVIOUS
    <2> HIDE DEF q, m
    <2>2. q \in Seq(SongID) /\ L = Len(q) /\ from \in 1..Len(q) /\ to \in Int
      BY <1>1, <1>2
    <2>3. PICK at \in 1..Len(q) :
            /\ at = to + 1 \/ (to < 0 /\ at = 1) \/ (to >= Len(q) /\ at = Len(q))
            /\ Moved(q, from, to) \in Seq(SongID)
            /\ Len(Moved(q, from, to)) = Len(q)
            /\ \A i \in 1..Len(q) :
                 Moved(q, from, to)[i] = IF i = at THEN q[from]
                        ELSE LET j == IF i < at THEN i ELSE i - 1
                             IN  IF j < from THEN q[j] ELSE q[j + 1]
      BY ONLY <2>2, MovedShape
    <2> QED
      BY <2>1, <2>2, <2>3
  <1>4. Injective(m)
    <2>1. m = Moved(q, from, to) /\ Injective(q)
      OBVIOUS
    <2> HIDE DEF q, m
    <2> QED
      BY <1>1, <1>2, <2>1, MovedSongs
  <1> DEFINE i == First(m, song)
             r == RemoveAt(m, at)
             o == RemoveAt(q, from)
  <1> HIDE DEF q, m, L, i, r, o
  <1>5. m[at] = song
    BY <1>2, <1>3
  <1>6. i = at
    <2>1. i # 0 => i \in 1..L /\ m[i] = song
      BY <1>3, FirstIs DEF i
    <2>2. i # 0
      BY <1>3, <1>5, FirstIs DEF i
    <2> QED
      BY <1>3, <1>4, <1>5, <2>1, <2>2 DEF Injective
  <1>7. /\ r \in Seq(SongID) /\ Len(r) = L - 1
        /\ \A k \in 1 .. L - 1 : r[k] = IF k < at THEN m[k] ELSE m[k + 1]
    BY <1>3, RemovedShape DEF r
  <1>8. /\ o \in Seq(SongID) /\ Len(o) = L - 1
        /\ \A k \in 1 .. L - 1 : o[k] = IF k < from THEN q[k] ELSE q[k + 1]
    BY <1>1, <1>2, RemovedShape DEF o, L
  <1>9. ASSUME NEW k \in 1 .. L - 1 PROVE r[k] = o[k]
    <2>1. CASE k < at
      <3>1. r[k] = m[k] /\ k \in 1..L /\ k # at
        BY <1>2, <1>7, <2>1
      <3>2. m[k] = IF k < from THEN q[k] ELSE q[k + 1]
        BY <1>3, <2>1, <3>1
      <3> QED
        BY <1>8, <3>1, <3>2
    <2>2. CASE ~(k < at)
      <3>1. r[k] = m[k + 1] /\ k + 1 \in 1..L /\ k + 1 # at /\ ~(k + 1 < at) /\ k + 1 - 1 = k
        BY <1>2, <1>7, <2>2
      <3>2. m[k + 1] = IF k < from THEN q[k] ELSE q[k + 1]
        BY <1>3, <3>1
      <3> QED
        BY <1>8, <3>1, <3>2
    <2> QED
      BY <2>1, <2>2
  <1>10. r = o
    <2>1. Len(r) = Len(o) /\ \A k \in 1..Len(r) : r[k] = o[k]
      BY <1>7, <1>8, <1>9
    <2> QED
      BY <1>7, <1>8, <2>1, SeqEqual
  <1>11. RemoveFirst(q, song) = o
    <2>1. \E j \in 1..Len(q) : q[j] = song
      BY <1>2 DEF L
    <2>2. RemoveFirst(q, song) = RemoveAt(q, First(q, song))
      BY <2>1 DEF RemoveFirst, First
    <2> QED
      BY <2>2 DEF o, q
  <1> QED
    BY <1>2, <1>3, <1>6, <1>10, <1>11 DEF Reorders, i, r, q, m, L

\* play-next plays the head of the queue.
LEMMA PlayNextAdvances ==
  ASSUME NEW s, s = Record(s)
  PROVE  Advances(s, PlayNext(s)) /\ PlayNext(s).lastResult = s.lastResult
  <1> DEFINE t == PlayNext(s)
             q == IF s.queue = <<>> THEN s.queue ELSE Tail(s.queue)
             p == IF s.queue = <<>> THEN None ELSE Head(s.queue)
             h == IF s.nowPlaying = None THEN s.history ELSE Append(s.history, s.nowPlaying)
             r == [queue |-> q, nowPlaying |-> p, history |-> h, skipVotes |-> {},
                   lastSeq |-> s.lastSeq, lastResult |-> s.lastResult]
  <1>1. t = r
    BY PlayNextIs
  <1> HIDE DEF t, q, p, h
  <1>2. r.queue = q /\ r.nowPlaying = p /\ r.lastResult = s.lastResult
    OBVIOUS
  <1> HIDE DEF r
  <1>3. t.queue = q /\ t.nowPlaying = p /\ t.lastResult = s.lastResult
    BY <1>1, <1>2
  <1> QED
    BY <1>3 DEF Advances, t, q, p

\* A command does to queue and song playing what the sequential queue says, and
\* reports it; the sessions are not its business.
LEMMA InnerEffects ==
  ASSUME NEW s, NEW c, IsJukebox(s), EachOnce(s), IsCommand(c), c # Noop
  PROVE  LET t   == applyInner(s, c).st
             res == applyInner(s, c).res
         IN  /\ t.lastResult = s.lastResult
             /\ \/ Refuses(s, c) /\ t = s /\ res = NoResult
                \/ /\ ~Refuses(s, c) /\ Effects(s, t, c)
                   /\ res.ok = TRUE /\ res.nowPlaying = t.nowPlaying
  <1> DEFINE t   == applyInner(s, c).st
             res == applyInner(s, c).res
             Goal == /\ t.lastResult = s.lastResult
                     /\ \/ Refuses(s, c) /\ t = s /\ res = NoResult
                        \/ /\ ~Refuses(s, c) /\ Effects(s, t, c)
                           /\ res.ok = TRUE /\ res.nowPlaying = t.nowPlaying
  <1> SUFFICES Goal
    OBVIOUS
  <1>0. /\ s = Record(s) /\ s.queue \in Seq(SongID) /\ Injective(s.queue)
        /\ c.client # None
    BY JukeboxAssumption DEF IsJukebox, EachOnce, IsCommand
  <1>a. \A y : Succeeds(y).st = y /\ Succeeds(y).res.ok = TRUE
                 /\ Succeeds(y).res.nowPlaying = y.nowPlaying
    BY DEF Succeeds, snapshotResult
  <1>b. Fails(s).st = s /\ Fails(s).res = NoResult
    BY DEF Fails
  <1>1. CASE c.op = "enqueue"
    <2>1. CASE c.song = None
      <3>1. applyInner(s, c) = Fails(s)
        BY <1>1, <2>1 DEF applyInner
      <3> QED
        BY <1>1, <1>b, <2>1, <3>1 DEF Refuses
    <2>2. CASE c.song # None
      <3>1. applyInner(s, c) = Succeeds(Enqueue(s, c.song))
        BY <1>1, <2>2 DEF applyInner
      <3>2. t = Enqueue(s, c.song)
        BY <1>a, <3>1
      <3>3. /\ t.queue = Append(s.queue, c.song) /\ t.nowPlaying = s.nowPlaying
            /\ t.lastResult = s.lastResult
        BY <1>0, <3>2 DEF Enqueue, Record
      <3>4. res.ok = TRUE /\ res.nowPlaying = t.nowPlaying
        BY <1>a, <3>1
      <3> HIDE DEF t, res
      <3> QED
        BY <1>1, <2>2, <3>3, <3>4 DEF Refuses, Effects
    <2> QED
      BY <2>1, <2>2
  <1>2. CASE c.op = "play-next"
    <2>1. applyInner(s, c) = Succeeds(PlayNext(s))
      BY <1>2 DEF applyInner
    <2>2. t = PlayNext(s) /\ res.ok = TRUE /\ res.nowPlaying = t.nowPlaying
      BY <1>a, <2>1
    <2> HIDE DEF t, res
    <2>3. Advances(s, t) /\ t.lastResult = s.lastResult
      BY <1>0, <2>2, PlayNextAdvances
    <2> QED
      BY <1>2, <2>2, <2>3 DEF Refuses, Effects
  <1>3. CASE c.op = "vote-skip"
    <2>1. Voter(c) # None
      BY <1>0 DEF Voter
    <2>2. CASE s.nowPlaying = None
      <3>1. applyInner(s, c) = Fails(s)
        BY <1>3, <2>2 DEF applyInner
      <3> QED
        BY <1>3, <1>b, <2>2, <3>1 DEF Refuses
    <2>3. CASE s.nowPlaying # None
      <3> DEFINE voted == [s EXCEPT !.skipVotes = @ \cup {Voter(c)}]
      <3>1. applyInner(s, c) = Succeeds(VoteSkip(s, Voter(c)))
        BY <1>3, <2>1, <2>3 DEF applyInner
      <3>2. t = VoteSkip(s, Voter(c)) /\ res.ok = TRUE /\ res.nowPlaying = t.nowPlaying
        BY <1>a, <3>1
      <3>3. t = voted \/ t = PlayNext(voted)
        BY <3>2 DEF VoteSkip
      <3>4. /\ voted.queue = s.queue /\ voted.nowPlaying = s.nowPlaying
            /\ voted.lastResult = s.lastResult /\ voted = Record(voted)
        <4> DEFINE v(x) == [x EXCEPT !.skipVotes = @ \cup {Voter(c)}]
        <4>1. /\ v(Record(s)).queue = s.queue /\ v(Record(s)).nowPlaying = s.nowPlaying
              /\ v(Record(s)).lastResult = s.lastResult
              /\ v(Record(s)) = Record(v(Record(s)))
          BY DEF Record
        <4>2. voted = v(s)
          OBVIOUS
        <4> HIDE DEF v, voted
        <4> QED
          BY <1>0, <4>1, <4>2
      <3> HIDE DEF t, res, voted
      <3>5. CASE t = voted
        BY <1>3, <2>3, <3>2, <3>4, <3>5 DEF Refuses, Effects
      <3>6. CASE t = PlayNext(voted)
        <4>1. Advances(s, t) /\ t.lastResult = s.lastResult
          BY <3>4, <3>6, PlayNextAdvances DEF Advances
        <4> QED
          BY <1>3, <2>3, <3>2, <4>1 DEF Refuses, Effects
      <3> QED
        BY <3>3, <3>5, <3>6
    <2> QED
      BY <2>2, <2>3
  <1>4. CASE c.op = "reorder"
    <2> DEFINE from == First(s.queue, c.song)
    <2>0. c.to \in Int /\ Position(s, c.song) = from
      BY <1>4 DEF IsCommand, Noop, Position, First
    <2>1. /\ from = 0 <=> ~\E i \in 1..Len(s.queue) : s.queue[i] = c.song
      BY <1>0, FirstIs
    <2>2. CASE from = 0
      <3>1. applyInner(s, c) = Fails(s)
        BY <1>4, <2>0, <2>2 DEF applyInner
      <3> QED
        BY <1>4, <1>b, <2>1, <2>2, <3>1 DEF Refuses
    <2>3. CASE from # 0
      <3> DEFINE m == Moved(s.queue, from, c.to)
      <3>1. applyInner(s, c) = Succeeds([s EXCEPT !.queue = m])
        BY <1>4, <2>0, <2>3 DEF applyInner
      <3>2. t = [s EXCEPT !.queue = m] /\ res.ok = TRUE /\ res.nowPlaying = t.nowPlaying
        BY <1>a, <3>1
      <3> HIDE DEF t, res
      <3>3. t.queue = m /\ t.nowPlaying = s.nowPlaying /\ t.lastResult = s.lastResult
        BY <1>0, <3>2 DEF Record
      <3>4. Reorders(s, t, c.song, c.to)
        BY <1>0, <2>0, <2>3, <3>3, MoveReorders
      <3> HIDE DEF from
      <3> QED
        BY <1>4, <2>1, <2>3, <3>2, <3>3, <3>4 DEF Refuses, Effects
    <2> QED
      BY <2>2, <2>3
  <1> QED
    BY <1>1, <1>2, <1>3, <1>4 DEF IsCommand

\* What a command leaves behind is a jukebox with the same sessions.
LEMMA InnerKept ==
  ASSUME NEW s, NEW c, IsJukebox(s), EachOnce(s), IsCommand(c), Adds(c) \cap SongsOf(s) = {}
  PROVE  LET t == applyInner(s, c).st IN t = Record(t) /\ t.lastSeq = s.lastSeq
  BY InnerKeeps DEF IsJukebox

\* A function of the clients.
PerClient(f) == f = [d \in Client |-> f[d]]

\* A command that its session has not moved past takes effect; the session then
\* remembers its number and result. Any other changes nothing.
LEMMA ApplyRemembers ==
  ASSUME NEW s, NEW c, IsJukebox(s), EachOnce(s), IsCommand(c), c # Noop,
         ~Repeated(s, c) => Adds(c) \cap SongsOf(s) = {},
         PerClient(s.lastResult)
  PROVE  LET out == Apply(s, c) IN
         /\ Repeated(s, c) => out.st = s /\ out.res = s.lastResult[c.client]
         /\ ~Repeated(s, c) =>
              /\ out.st.queue = applyInner(s, c).st.queue
              /\ out.st.nowPlaying = applyInner(s, c).st.nowPlaying
              /\ out.res = applyInner(s, c).res
              /\ out.st.lastSeq = [s.lastSeq EXCEPT ![c.client] = c.seq]
              /\ out.st.lastResult = [s.lastResult EXCEPT ![c.client] = out.res]
  <1> DEFINE out == Apply(s, c)
             i   == applyInner(s, c)
             u   == i.st
             edited(o) == [o EXCEPT !.st.lastSeq[c.client]    = c.seq,
                                    !.st.lastResult[c.client] = i.res]
             w   == [queue |-> u.queue, nowPlaying |-> u.nowPlaying, history |-> u.history,
                     skipVotes |-> u.skipVotes,
                     lastSeq |-> [u.lastSeq EXCEPT ![c.client] = c.seq],
                     lastResult |-> [u.lastResult EXCEPT ![c.client] = i.res]]
  <1>1. ASSUME Repeated(s, c)
        PROVE  out.st = s /\ out.res = s.lastResult[c.client]
    BY <1>1 DEF Apply
  <1>2. ASSUME ~Repeated(s, c)
        PROVE  /\ out.st.queue = u.queue
               /\ out.st.nowPlaying = u.nowPlaying
               /\ out.res = i.res
               /\ out.st.lastSeq = [s.lastSeq EXCEPT ![c.client] = c.seq]
               /\ out.st.lastResult = [s.lastResult EXCEPT ![c.client] = out.res]
    <2>1. HasSession(c)
      BY JukeboxAssumption DEF IsCommand, HasSession
    <2>2. out = edited(i)
      BY <1>2, <2>1 DEF Apply
    <2>3. u = Record(u) /\ u.lastSeq = s.lastSeq /\ u.lastResult = s.lastResult
      BY <1>2, InnerEffects, InnerKept
    <2>4. i = [st |-> Record(u), res |-> i.res]
      BY <2>3, InnerRecord
    <2>5. \A x, y : /\ [[st |-> Record(x), res |-> y] EXCEPT !.st.lastSeq[c.client] = c.seq,
                                         !.st.lastResult[c.client] = y].res = y
      BY DEF Record
    <2>6. edited([st |-> Record(u), res |-> i.res]).st = w
      BY EditRecord DEF Record
    <2>7. edited([st |-> Record(u), res |-> i.res]).res = i.res
      BY <2>5
    <2> HIDE DEF edited, i, out
    <2>8. out.st = w /\ out.res = i.res
      BY <2>2, <2>4, <2>6, <2>7
    <2>9. /\ w.queue = u.queue /\ w.nowPlaying = u.nowPlaying
          /\ w.lastSeq = [u.lastSeq EXCEPT ![c.client] = c.seq]
          /\ w.lastResult = [u.lastResult EXCEPT ![c.client] = i.res]
      OBVIOUS
    <2> HIDE DEF w, u
    <2> QED
      BY <2>3, <2>8, <2>9
  <1> HIDE DEF out, i, u
  <1>3. /\ Repeated(s, c) => out.st = s /\ out.res = s.lastResult[c.client]
        /\ ~Repeated(s, c) =>
              /\ out.st.queue = u.queue
              /\ out.st.nowPlaying = u.nowPlaying
              /\ out.res = i.res
              /\ out.st.lastSeq = [s.lastSeq EXCEPT ![c.client] = c.seq]
              /\ out.st.lastResult = [s.lastResult EXCEPT ![c.client] = out.res]
    BY <1>1, <1>2
  <1> QED
    BY <1>3 DEF out, u, i

-----------------------------------------------------------------------------
(***************************************************************************)
(* The refinement: what the calls of the clients show of it.               *)
(***************************************************************************)

\* The sequential queue's view of the calls f: what was asked, what took effect,
\* what was answered.
CallsOf(f) == UNION {{c} \X (1..Len(f[c])) : c \in Client}
AskedOf(f) == [c \in Client |-> [s \in 1..Len(f[c]) |-> f[c][s].cmd]]
OutcomesOf(f) ==
    [k \in {k \in CallsOf(f) : f[k[1]][k[2]].effect # {}} |-> Saw(f[k[1]][k[2]])]
AnswersOf(f) ==
    [k \in {k \in CallsOf(f) : f[k[1]][k[2]].phase = "done"} |-> Output(f[k[1]][k[2]].res)]

\* These are the views that Sessions maps to the variables of QueueModel.
LEMMA ViewsAre ==
  /\ AskedFor = AskedOf(calls) /\ Outcomes = OutcomesOf(calls) /\ Answers = AnswersOf(calls)
  /\ AskedFor' = AskedOf(calls') /\ Outcomes' = OutcomesOf(calls') /\ Answers' = AnswersOf(calls')
  BY DEF AskedFor, AskedOf, Outcomes, OutcomesOf, Answers, AnswersOf, CallsWhere, CallsOf

\* The calls are the pairs of a client and one of its sequence numbers.
LEMMA CallsAre ==
  ASSUME NEW f
  PROVE  /\ \A k : k \in CallsOf(f) <=> \E c \in Client : \E s \in 1..Len(f[c]) : k = <<c, s>>
         /\ \A c, s : <<c, s>> \in CallsOf(f) <=> c \in Client /\ s \in 1..Len(f[c])
         /\ \A k \in CallsOf(f) :
              k = <<k[1], k[2]>> /\ k[1] \in Client /\ k[2] \in 1..Len(f[k[1]])
  <1>1. \A k : k \in CallsOf(f) <=> \E c \in Client : \E s \in 1..Len(f[c]) : k = <<c, s>>
    BY DEF CallsOf
  <1> QED
    BY <1>1

\* f and g hold the same calls, but for that of c under s.
ButFor(f, g, c, s) ==
    /\ \A d \in Client : Len(g[d]) = Len(f[d])
    /\ \A d \in Client : \A t \in 1..Len(f[d]) :
          /\ g[d][t].cmd = f[d][t].cmd
          /\ <<d, t>> # <<c, s>> => g[d][t] = f[d][t]

\* Nobody asks for anything else.
LEMMA SameAsked ==
  ASSUME NEW f, NEW g, NEW c, NEW s, ButFor(f, g, c, s)
  PROVE  AskedOf(g) = AskedOf(f) /\ CallsOf(g) = CallsOf(f)
  BY DEF AskedOf, CallsOf, ButFor

\* No outcome changes with a write that leaves the effect of the call.
LEMMA SameOutcomes ==
  ASSUME NEW f, NEW g, NEW c \in Client, NEW s \in 1..Len(f[c]), ButFor(f, g, c, s),
         g[c][s].effect = f[c][s].effect
  PROVE  OutcomesOf(g) = OutcomesOf(f)
  <1>1. CallsOf(g) = CallsOf(f)
    BY SameAsked
  <1>2. ASSUME NEW k \in CallsOf(f) PROVE g[k[1]][k[2]].effect = f[k[1]][k[2]].effect
    <2>1. k = <<k[1], k[2]>> /\ k[1] \in Client /\ k[2] \in 1..Len(f[k[1]])
      BY CallsAre
    <2>2. k # <<c, s>> => g[k[1]][k[2]] = f[k[1]][k[2]]
      BY <2>1 DEF ButFor
    <2>3. k = <<c, s>> => k[1] = c /\ k[2] = s
      OBVIOUS
    <2> QED
      BY <2>2, <2>3
  <1>3. \A k \in CallsOf(f) : Saw(g[k[1]][k[2]]) = Saw(f[k[1]][k[2]])
    BY <1>2 DEF Saw
  <1> QED
    BY <1>1, <1>2, <1>3 DEF OutcomesOf

\* No answer changes with a write that leaves the call answered or unanswered.
LEMMA SameAnswers ==
  ASSUME NEW f, NEW g, NEW c \in Client, NEW s \in 1..Len(f[c]), ButFor(f, g, c, s),
         g[c][s].phase = "done" <=> f[c][s].phase = "done",
         g[c][s].res = f[c][s].res
  PROVE  AnswersOf(g) = AnswersOf(f)
  <1>1. CallsOf(g) = CallsOf(f)
    BY SameAsked
  <1>2. \A k \in CallsOf(f) : /\ g[k[1]][k[2]].phase = "done" <=> f[k[1]][k[2]].phase = "done"
                              /\ g[k[1]][k[2]].res = f[k[1]][k[2]].res
    <2> SUFFICES ASSUME NEW k \in CallsOf(f)
                 PROVE  /\ g[k[1]][k[2]].phase = "done" <=> f[k[1]][k[2]].phase = "done"
                        /\ g[k[1]][k[2]].res = f[k[1]][k[2]].res
      OBVIOUS
    <2>1. k = <<k[1], k[2]>> /\ k[1] \in Client /\ k[2] \in 1..Len(f[k[1]])
      BY CallsAre
    <2>2. k # <<c, s>> => g[k[1]][k[2]] = f[k[1]][k[2]]
      BY <2>1 DEF ButFor
    <2>3. k = <<c, s>> => k[1] = c /\ k[2] = s
      OBVIOUS
    <2> QED
      BY <2>2, <2>3
  <1>3. {k \in CallsOf(g) : g[k[1]][k[2]].phase = "done"}
          = {k \in CallsOf(f) : f[k[1]][k[2]].phase = "done"}
    BY <1>1, <1>2
  <1> QED
    BY <1>2, <1>3 DEF AnswersOf

\* A call takes effect: it now has an outcome.
LEMMA NewOutcome ==
  ASSUME NEW f, NEW g, NEW c \in Client, NEW s \in 1..Len(f[c]), ButFor(f, g, c, s),
         g[c][s].effect # {}
  PROVE  OutcomesOf(g) = Q!With(OutcomesOf(f), <<c, s>>, Saw(g[c][s]))
  <1> DEFINE D == {k \in CallsOf(f) : f[k[1]][k[2]].effect # {}}
             E == {k \in CallsOf(g) : g[k[1]][k[2]].effect # {}}
  <1>1. CallsOf(g) = CallsOf(f) /\ <<c, s>> \in CallsOf(f)
    BY SameAsked, CallsAre
  <1>2. \A k \in CallsOf(f) : k # <<c, s>> => g[k[1]][k[2]] = f[k[1]][k[2]]
    BY CallsAre DEF ButFor
  <1>3. E = D \cup {<<c, s>>}
    <2>1. <<c, s>> \in E
      BY <1>1
    <2> QED
      BY <1>1, <1>2, <2>1
  <1> DEFINE a(k) == Saw(g[k[1]][k[2]])
             b(k) == Saw(f[k[1]][k[2]])
  <1>5. \A k \in E : a(k) = IF k = <<c, s>> THEN Saw(g[c][s]) ELSE b(k)
    BY <1>1, <1>2
  <1>6. OutcomesOf(g) = [k \in E |-> a(k)] /\ OutcomesOf(f) = [k \in D |-> b(k)]
    BY DEF OutcomesOf
  <1> HIDE DEF a, b, D, E
  <1> QED
    BY <1>3, <1>5, <1>6 DEF Q!With

\* A client gets its answer.
LEMMA NewAnswer ==
  ASSUME NEW f, NEW g, NEW c \in Client, NEW s \in 1..Len(f[c]), ButFor(f, g, c, s),
         g[c][s].phase = "done"
  PROVE  AnswersOf(g) = Q!With(AnswersOf(f), <<c, s>>, Output(g[c][s].res))
  <1> DEFINE D == {k \in CallsOf(f) : f[k[1]][k[2]].phase = "done"}
             E == {k \in CallsOf(g) : g[k[1]][k[2]].phase = "done"}
             a(k) == Output(g[k[1]][k[2]].res)
             b(k) == Output(f[k[1]][k[2]].res)
  <1>1. CallsOf(g) = CallsOf(f) /\ <<c, s>> \in CallsOf(f)
    BY SameAsked, CallsAre
  <1>2. \A k \in CallsOf(f) : k # <<c, s>> => g[k[1]][k[2]] = f[k[1]][k[2]]
    BY CallsAre DEF ButFor
  <1>3. E = D \cup {<<c, s>>}
    BY <1>1, <1>2
  <1>4. \A k \in E : a(k) = IF k = <<c, s>> THEN Output(g[c][s].res) ELSE b(k)
    BY <1>1, <1>2
  <1>5. AnswersOf(g) = [k \in E |-> a(k)] /\ AnswersOf(f) = [k \in D |-> b(k)]
    BY DEF AnswersOf
  <1> HIDE DEF a, b, D, E
  <1> QED
    BY <1>3, <1>4, <1>5 DEF Q!With

\* The calls f and one more of c.
Extended(f, c, r) == [f EXCEPT ![c] = Append(@, r)]

\* A client makes a new call, which has no effect and no answer yet.
LEMMA NewCall ==
  ASSUME NEW f, NEW g, NEW c \in Client, NEW r, PerClient(f),
         \A d \in Client : IsSeq(f[d]),
         g = Extended(f, c, r), r.effect = {}, r.phase # "done"
  PROVE  /\ AskedOf(g) = Extended(AskedOf(f), c, r.cmd)
         /\ OutcomesOf(g) = OutcomesOf(f)
         /\ AnswersOf(g) = AnswersOf(f)
  <1> USE DEF Extended, PerClient
  <1>1. PICK n \in Nat : n = Len(f[c])
    BY LenProperties DEF IsSeq
  <1>2. /\ Len(g[c]) = n + 1
        /\ \A t \in 1..n : g[c][t] = f[c][t]
        /\ g[c][n + 1] = r
    BY <1>1, AppendAny
  <1>3. \A d \in Client : d # c => g[d] = f[d]
    OBVIOUS
  <1>4. AskedOf(g) = [AskedOf(f) EXCEPT ![c] = Append(@, r.cmd)]
    <2>1. AskedOf(f)[c] = [t \in 1..n |-> f[c][t].cmd]
      BY <1>1 DEF AskedOf
    <2>2. AskedOf(g)[c] = [t \in 1 .. n + 1 |-> IF t = n + 1 THEN r.cmd ELSE f[c][t].cmd]
      <3>1. \A t \in 1 .. n + 1 : t \in 1..n \/ t = n + 1
        BY <1>1
      <3>2. \A t \in 1 .. n + 1 : g[c][t].cmd = IF t = n + 1 THEN r.cmd ELSE f[c][t].cmd
        BY <1>2, <3>1
      <3> QED
        BY <1>2, <3>2 DEF AskedOf
    <2> DEFINE h == [t \in 1..n |-> f[c][t].cmd]
               a == [t \in 1 .. n + 1 |-> IF t = n + 1 THEN r.cmd ELSE f[c][t].cmd]
    <2>3. Append(h, r.cmd) = a
      <3>1. h \in Seq({h[t] : t \in 1..n} \cup {r.cmd}) /\ Len(h) = n
        BY <1>1
      <3>2. \A t \in 1..n : h[t] = f[c][t].cmd
        OBVIOUS
      <3> HIDE DEF h
      <3>3. Append(h, r.cmd) = [t \in 1 .. n + 1 |-> IF t = n + 1 THEN r.cmd ELSE h[t]]
        BY <1>1, <3>1
      <3>4. \A t \in 1 .. n + 1 : t # n + 1 => t \in 1..n
        BY <1>1
      <3> QED
        BY <3>2, <3>3, <3>4
    <2>4. AskedOf(g)[c] = Append(AskedOf(f)[c], r.cmd)
      BY <2>1, <2>2, <2>3
    <2>5. \A d \in Client : d # c => AskedOf(g)[d] = AskedOf(f)[d]
      BY <1>3 DEF AskedOf
    <2>6. /\ AskedOf(g) = [d \in Client |-> AskedOf(g)[d]]
          /\ AskedOf(f) = [d \in Client |-> AskedOf(f)[d]]
      BY DEF AskedOf
    <2> QED
      BY <2>4, <2>5, <2>6
  <1>5. ASSUME NEW k
        PROVE  /\ k \in CallsOf(f) => k \in CallsOf(g) /\ g[k[1]][k[2]] = f[k[1]][k[2]]
               /\ k \in CallsOf(g) /\ k \notin CallsOf(f) => g[k[1]][k[2]] = r
    <2>1. \A d \in Client : \A t \in 1..Len(f[d]) : t \in 1..Len(g[d]) /\ g[d][t] = f[d][t]
      BY <1>1, <1>2, <1>3
    <2>2. \A d \in Client : \A t \in 1..Len(g[d]) : t \notin 1..Len(f[d]) => g[d][t] = r
      BY <1>1, <1>2, <1>3
    <2>3. k \in CallsOf(f) =>
             k = <<k[1], k[2]>> /\ k[1] \in Client /\ k[2] \in 1..Len(f[k[1]])
      BY CallsAre
    <2>4. k \in CallsOf(g) =>
             k = <<k[1], k[2]>> /\ k[1] \in Client /\ k[2] \in 1..Len(g[k[1]])
      BY CallsAre
    <2>5. /\ \A d, t : <<d, t>> \in CallsOf(f) <=> d \in Client /\ t \in 1..Len(f[d])
          /\ \A d, t : <<d, t>> \in CallsOf(g) <=> d \in Client /\ t \in 1..Len(g[d])
      BY CallsAre
    <2>6. k \in CallsOf(f) => k \in CallsOf(g) /\ g[k[1]][k[2]] = f[k[1]][k[2]]
      BY <2>1, <2>3, <2>5
    <2>7. k \in CallsOf(g) /\ k \notin CallsOf(f) => g[k[1]][k[2]] = r
      BY <2>2, <2>4, <2>5
    <2> QED
      BY <2>6, <2>7
  <1>6. {k \in CallsOf(g) : g[k[1]][k[2]].effect # {}}
          = {k \in CallsOf(f) : f[k[1]][k[2]].effect # {}}
    BY <1>5
  <1>7. {k \in CallsOf(g) : g[k[1]][k[2]].phase = "done"}
          = {k \in CallsOf(f) : f[k[1]][k[2]].phase = "done"}
    BY <1>5
  <1>8. OutcomesOf(g) = OutcomesOf(f)
    <2> DEFINE D == {k \in CallsOf(f) : f[k[1]][k[2]].effect # {}}
               a(k) == Saw(g[k[1]][k[2]])
               b(k) == Saw(f[k[1]][k[2]])
    <2>1. \A k \in D : a(k) = b(k)
      BY <1>5
    <2>2. OutcomesOf(g) = [k \in D |-> a(k)] /\ OutcomesOf(f) = [k \in D |-> b(k)]
      BY <1>6 DEF OutcomesOf
    <2> HIDE DEF D, a, b
    <2> QED
      BY <2>1, <2>2
  <1>9. AnswersOf(g) = AnswersOf(f)
    <2> DEFINE D == {k \in CallsOf(f) : f[k[1]][k[2]].phase = "done"}
               a(k) == Output(g[k[1]][k[2]].res)
               b(k) == Output(f[k[1]][k[2]].res)
    <2>1. \A k \in D : a(k) = b(k)
      BY <1>5
    <2>2. AnswersOf(g) = [k \in D |-> a(k)] /\ AnswersOf(f) = [k \in D |-> b(k)]
      BY <1>7 DEF AnswersOf
    <2> HIDE DEF D, a, b
    <2> QED
      BY <2>1, <2>2
  <1> QED
    BY <1>4, <1>8, <1>9

\* What one write to a call leaves of the calls.
LEMMA WrittenIs ==
  ASSUME SessionsInv, NEW c \in Client, NEW s \in 1..Len(calls[c])
  PROVE  /\ \A x : calls' = SetPhase(calls, c, s, x) =>
              /\ ButFor(calls, calls', c, s)
              /\ calls'[c][s].phase = x /\ calls'[c][s].res = calls[c][s].res
              /\ calls'[c][s].effect = calls[c][s].effect
         /\ \A x : calls' = SetCount(calls, c, s, x) =>
              /\ ButFor(calls, calls', c, s)
              /\ calls'[c][s].phase = calls[c][s].phase /\ calls'[c][s].res = calls[c][s].res
              /\ calls'[c][s].effect = calls[c][s].effect
         /\ \A x : calls' = SetEffect(calls, c, s, x) =>
              /\ ButFor(calls, calls', c, s)
              /\ calls'[c][s].phase = calls[c][s].phase /\ calls'[c][s].res = calls[c][s].res
              /\ calls'[c][s].effect = x
         /\ \A x, y : calls' = SetAnswer(calls, c, s, x, y) =>
              /\ ButFor(calls, calls', c, s)
              /\ calls'[c][s].phase = x /\ calls'[c][s].res = y
              /\ calls'[c][s].effect = calls[c][s].effect
  <1>1. c \in DOMAIN calls /\ IsCall(calls[c][s]) /\ IsSeq(calls[c])
        /\ \A d \in Client : IsSeq(calls[d])
    BY DEF SessionsInv, CallsFit
  <1>2. s \in DOMAIN calls[c]
    BY <1>1, LenProperties DEF IsSeq
  <1> DEFINE w == calls[c][s]
  <1>2a. ASSUME NEW x, NEW y
         PROVE  SetAnswer(calls, c, s, x, y) = Put(calls, c, s, x, w.proposals, y, w.effect)
    BY <1>1, <1>2, EditCall
  <1>3. ASSUME NEW x
        PROVE
        /\ SetPhase(calls, c, s, x) = Put(calls, c, s, x, w.proposals, w.res, w.effect)
        /\ SetCount(calls, c, s, x) = Put(calls, c, s, w.phase, x, w.res, w.effect)
        /\ SetEffect(calls, c, s, x) = Put(calls, c, s, w.phase, w.proposals, w.res, x)
        /\ SetAnswer(calls, c, s, x, x) = Put(calls, c, s, x, w.proposals, x, w.effect)
    BY <1>1, <1>2, EditCall
  <1>4. ASSUME NEW a, NEW b, NEW d, NEW e, calls' = Put(calls, c, s, a, b, d, e)
        PROVE  /\ ButFor(calls, calls', c, s)
               /\ calls'[c][s].phase = a /\ calls'[c][s].res = d /\ calls'[c][s].effect = e
    <2> DEFINE r == [cmd |-> w.cmd, phase |-> a, proposals |-> b, res |-> d, effect |-> e]
               row == [calls[c] EXCEPT ![s] = r]
    <2>1. /\ r.cmd = w.cmd /\ r.phase = a /\ r.res = d /\ r.effect = e
      OBVIOUS
    <2>2. calls' = [calls EXCEPT ![c] = row]
      BY <1>4 DEF Put
    <2> HIDE DEF r
    <2>3. Len(row) = Len(calls[c]) /\ \A t \in 1..Len(calls[c]) :
             row[t] = IF t = s THEN r ELSE calls[c][t]
      BY <1>1, ExceptAny
    <2> HIDE DEF row
    <2>4. calls'[c] = row /\ \A z \in Client : z # c => calls'[z] = calls[z]
      BY <1>1, <2>2
    <2>5. calls'[c][s] = r
      BY <2>3, <2>4
    <2>6. ASSUME NEW z \in Client
          PROVE  /\ Len(calls'[z]) = Len(calls[z])
                 /\ \A t \in 1..Len(calls[z]) :
                      /\ calls'[z][t].cmd = calls[z][t].cmd
                      /\ <<z, t>> # <<c, s>> => calls'[z][t] = calls[z][t]
      <3>1. CASE z = c
        BY <2>1, <2>3, <2>4, <3>1
      <3>2. CASE z # c
        BY <2>4, <3>2
      <3> QED
        BY <3>1, <3>2
    <2> QED
      BY <2>1, <2>5, <2>6 DEF ButFor
  <1> HIDE DEF w
  <1>5. ASSUME NEW x, calls' = SetPhase(calls, c, s, x)
        PROVE  /\ ButFor(calls, calls', c, s)
               /\ calls'[c][s].phase = x /\ calls'[c][s].res = w.res
               /\ calls'[c][s].effect = w.effect
    BY <1>3, <1>4, <1>5
  <1>6. ASSUME NEW x, calls' = SetCount(calls, c, s, x)
        PROVE  /\ ButFor(calls, calls', c, s)
               /\ calls'[c][s].phase = w.phase /\ calls'[c][s].res = w.res
               /\ calls'[c][s].effect = w.effect
    BY <1>3, <1>4, <1>6
  <1>7. ASSUME NEW x, calls' = SetEffect(calls, c, s, x)
        PROVE  /\ ButFor(calls, calls', c, s)
               /\ calls'[c][s].phase = w.phase /\ calls'[c][s].res = w.res
               /\ calls'[c][s].effect = x
    BY <1>3, <1>4, <1>7
  <1>8. ASSUME NEW x, NEW y, calls' = SetAnswer(calls, c, s, x, y)
        PROVE  /\ ButFor(calls, calls', c, s)
               /\ calls'[c][s].phase = x /\ calls'[c][s].res = y
               /\ calls'[c][s].effect = w.effect
    BY <1>2a, <1>4, <1>8
  <1> QED
    BY <1>5, <1>6, <1>7, <1>8 DEF w

\* A call has an effect at most once, and then its session has reached it.
EffectsFit ==
    \A c \in Client : \A s \in 1..Len(calls[c]) :
        calls[c][s].effect # {} =>
            /\ s <= Now.lastSeq[c]
            /\ \E x \in calls[c][s].effect : calls[c][s].effect = {x}

\* The result a session remembers is that of the call it remembers; it is what
\* the entries of that session are answered with.
SessionsRemember ==
    /\ \A i \in 0..Len(log) :
          /\ PerClient(ReplayedTo(i).lastResult)
          /\ \A c \in Client : ReplayedTo(i).lastSeq[c] # 0 =>
                /\ ReplayedTo(i).lastSeq[c] \in 1..Len(calls[c])
                /\ calls[c][ReplayedTo(i).lastSeq[c]].effect = {ReplayedTo(i).lastResult[c]}
    /\ \A i \in 1..Len(log) : log[i] # Noop =>
          Apply(ReplayedTo(i - 1), log[i]).res = ReplayedTo(i).lastResult[log[i].client]

\* What the refinement rests on.
RefinementInv == SessionsInv /\ EffectsFit /\ SessionsRemember

\* It holds at first.
LEMMA RefinementInit == Init => RefinementInv
  <1> USE DEF PerClient
  <1> SUFFICES ASSUME Init PROVE EffectsFit /\ SessionsRemember
    BY SessionsInit DEF RefinementInv
  <1>1. EffectsFit
    BY DEF Init, EffectsFit
  <1>2. SessionsRemember
    <2>1. Len(log) = 0 /\ ReplayedTo(0) = New
      BY DEF Init, ReplayedTo
    <2>2. /\ PerClient(New.lastResult)
          /\ \A c \in Client : New.lastSeq[c] = 0
      BY DEF New
    <2>3. \A i \in 0..Len(log) : ReplayedTo(i) = New
      BY <2>1
    <2>4. \A i \in 1..Len(log) : FALSE
      BY <2>1
    <2> QED
      BY <2>2, <2>3, <2>4 DEF SessionsRemember
  <1> QED
    BY <1>1, <1>2

\* No step but a commit gives an effect.
LEMMA EffectsKept ==
  ASSUME RefinementInv, UNCHANGED <<log, replay>>,
         \A c \in Client : \A s \in 1..Len(calls[c]) :
            s \in 1..Len(calls'[c]) /\ calls'[c][s].effect = calls[c][s].effect,
         \A c \in Client : \A s \in 1..Len(calls'[c]) :
            s \in 1..Len(calls[c]) \/ calls'[c][s].effect = {}
  PROVE  EffectsFit' /\ SessionsRemember' /\ Now' = Now
  <1>1. \A i : ReplayedTo(i)' = ReplayedTo(i)
    BY DEF ReplayedTo
  <1>2. Now' = Now
    BY DEF Now, ReplayedTo
  <1>3. EffectsFit'
    <2> SUFFICES ASSUME NEW c \in Client, NEW s \in 1..Len(calls'[c]), calls'[c][s].effect # {}
                 PROVE  /\ s <= Now'.lastSeq[c]
                        /\ \E x \in calls'[c][s].effect : calls'[c][s].effect = {x}
      BY DEF EffectsFit
    <2>1. s \in 1..Len(calls[c]) /\ calls'[c][s].effect = calls[c][s].effect
      OBVIOUS
    <2> QED
      BY <1>2, <2>1 DEF RefinementInv, EffectsFit
  <1>4. SessionsRemember'
    <2>1. ASSUME NEW i \in 0..Len(log)
          PROVE  /\ PerClient(ReplayedTo(i)'.lastResult)
                 /\ \A c \in Client : ReplayedTo(i)'.lastSeq[c] # 0 =>
                     /\ ReplayedTo(i)'.lastSeq[c] \in 1..Len(calls'[c])
                     /\ calls'[c][ReplayedTo(i)'.lastSeq[c]].effect = {ReplayedTo(i)'.lastResult[c]}
      <3>0. SessionsRemember
        BY DEF RefinementInv
      <3>a. /\ PerClient(ReplayedTo(i).lastResult)
            /\ \A c \in Client : ReplayedTo(i).lastSeq[c] # 0 =>
                  /\ ReplayedTo(i).lastSeq[c] \in 1..Len(calls[c])
                  /\ calls[c][ReplayedTo(i).lastSeq[c]].effect = {ReplayedTo(i).lastResult[c]}
        BY ONLY <3>0, i \in 0..Len(log) DEF SessionsRemember
      <3>1. PICK u : u = ReplayedTo(i) /\ u = ReplayedTo(i)'
        BY <1>1
      <3>2. /\ PerClient(u.lastResult)
            /\ \A c \in Client : u.lastSeq[c] # 0 =>
                  u.lastSeq[c] \in 1..Len(calls[c]) /\ calls[c][u.lastSeq[c]].effect = {u.lastResult[c]}
        BY <3>a, <3>1
      <3>3. ASSUME NEW c \in Client, u.lastSeq[c] # 0
            PROVE  u.lastSeq[c] \in 1..Len(calls'[c]) /\ calls'[c][u.lastSeq[c]].effect = {u.lastResult[c]}
        BY <3>2, <3>3
      <3> HIDE DEF RefinementInv
      <3> QED
        BY <3>1, <3>2, <3>3
    <2>2. ASSUME NEW i \in 1..Len(log), log'[i] # Noop
          PROVE  Apply(ReplayedTo(i - 1)', log'[i]).res = ReplayedTo(i)'.lastResult[log'[i].client]
      BY <1>1, <2>2 DEF RefinementInv, SessionsRemember
    <2> QED
      BY <2>1, <2>2 DEF SessionsRemember
  <1> QED
    BY <1>2, <1>3, <1>4

\* An entry commits that changes nothing: a no-op, or a command its session has
\* moved past.
LEMMA IdleCommit ==
  ASSUME RefinementInv, NEW cmd, CommitEntry(cmd), IsCommand(cmd), UNCHANGED calls,
         NEW now, now = Now,
         Apply(now, cmd).st = now,
         cmd # Noop => Apply(now, cmd).res = now.lastResult[cmd.client]
  PROVE  EffectsFit' /\ SessionsRemember' /\ Now' = Now
  <1>0. PICK n \in Nat : n = Len(log)
    BY LengthsAreNat DEF RefinementInv
  <1>1. now = ReplayedTo(n)
    BY <1>0 DEF Now
  <1>2. /\ Len(log') = n + 1
        /\ \A i \in 1..n : log'[i] = log[i]
        /\ log'[n + 1] = cmd
        /\ \A i \in 0..n : ReplayedTo(i)' = ReplayedTo(i)
        /\ ReplayedTo(n + 1)' = now
    BY <1>0, <1>1, EntryAppended DEF RefinementInv
  <1>3. Now' = Now
    <2>1. PICK k : k = n + 1
      OBVIOUS
    <2>2. Now' = ReplayedTo(k)'
      BY <1>2, <2>1 DEF Now, ReplayedTo
    <2> QED
      BY <1>2, <2>1, <2>2
  <1>4. EffectsFit'
    BY <1>3 DEF RefinementInv, EffectsFit
  <1>5. SessionsRemember'
    <2>1. ASSUME NEW i \in 0 .. n + 1
          PROVE  \E j \in 0..n : ReplayedTo(i)' = ReplayedTo(j)
      <3>1. CASE i = n + 1
        BY <1>1, <1>2, <3>1
      <3>2. CASE i # n + 1
        <4>1. i \in 0..n
          BY <3>2
        <4> QED
          BY <1>2, <4>1
      <3> QED
        BY <3>1, <3>2
    <2>2. ASSUME NEW i \in 1 .. n + 1, log'[i] # Noop
          PROVE  Apply(ReplayedTo(i - 1)', log'[i]).res = ReplayedTo(i)'.lastResult[log'[i].client]
      <3>1. CASE i = n + 1
        <4>1. i - 1 = n /\ n \in 0..n
          BY <3>1
        <4>2. ReplayedTo(i - 1)' = now
          BY <1>1, <1>2, <4>1
        <4> QED
          BY <1>2, <2>2, <3>1, <4>2
      <3>2. CASE i # n + 1
        <4>1. i \in 1..n /\ i - 1 \in 0..n /\ i \in 0..n
          BY <3>2
        <4> QED
          BY <1>0, <1>2, <2>2, <4>1 DEF RefinementInv, SessionsRemember
      <3> QED
        BY <3>1, <3>2
    <2>3. ASSUME NEW i \in 0 .. n + 1
          PROVE  /\ PerClient(ReplayedTo(i)'.lastResult)
                 /\ \A c \in Client : ReplayedTo(i)'.lastSeq[c] # 0 =>
                     /\ ReplayedTo(i)'.lastSeq[c] \in 1..Len(calls[c])
                     /\ calls[c][ReplayedTo(i)'.lastSeq[c]].effect = {ReplayedTo(i)'.lastResult[c]}
      <3>1. PICK j \in 0..n : ReplayedTo(i)' = ReplayedTo(j)
        BY <2>1
      <3>2. PICK u : u = ReplayedTo(j) /\ u = ReplayedTo(i)'
        BY <3>1
      <3>3. /\ PerClient(u.lastResult)
            /\ \A c \in Client : u.lastSeq[c] # 0 =>
                  u.lastSeq[c] \in 1..Len(calls[c]) /\ calls[c][u.lastSeq[c]].effect = {u.lastResult[c]}
        BY <1>0, <3>2 DEF RefinementInv, SessionsRemember
      <3> QED
        BY <3>2, <3>3
    <2> QED
      BY <1>2, <2>2, <2>3 DEF SessionsRemember
  <1> QED
    BY <1>3, <1>4, <1>5

\* What every jukebox of the replay is.
LEMMA NowIs ==
  ASSUME RefinementInv, NEW n \in Nat, n = Len(log)
  PROVE  /\ Now = ReplayedTo(n)
         /\ IsJukebox(Now) /\ EachOnce(Now)
         /\ PerClient(Now.lastResult)
         /\ \A d \in Client : Now.lastSeq[d] \in Nat
         /\ \A cmd : IsCommand(cmd) /\ ~Repeated(Now, cmd) => Adds(cmd) \cap SongsOf(Now) = {}
  <1>1. Now = ReplayedTo(n)
    BY DEF Now
  <1>2. n \in 0..Len(log)
    OBVIOUS
  <1>3. IsJukebox(ReplayedTo(n)) /\ EachOnce(ReplayedTo(n))
    BY <1>2 DEF RefinementInv, SessionsInv, ReplayFits
  <1>4. SessionsInv /\ SessionsRemember
    BY DEF RefinementInv
  <1>5. PerClient(ReplayedTo(n).lastResult)
    BY ONLY <1>2, <1>4 DEF SessionsRemember
  <1>6. \A d \in Client : ReplayedTo(n).lastSeq[d] \in Nat
    BY <1>3 DEF IsJukebox
  <1>7. \A cmd : IsCommand(cmd) /\ ~Repeated(ReplayedTo(n), cmd)
                   => Adds(cmd) \cap SongsOf(ReplayedTo(n)) = {}
    BY <1>4, SongIsNew
  <1> QED
    BY <1>1, <1>3, <1>5, <1>6, <1>7

\* A proposal commits whose session has not moved past it: the call takes effect,
\* and the session remembers it.
LEMMA EffectCommit ==
  ASSUME RefinementInv, NEW c \in Client, NEW s \in 1..Len(calls[c]), Commit(c, s),
         NEW cmd, cmd = Asked(c, s, calls[c][s].cmd), NEW now, now = Now,
         ~Repeated(now, cmd), NEW out, out = applyInner(now, cmd)
  PROVE  /\ EffectsFit' /\ SessionsRemember'
         /\ ButFor(calls, calls', c, s)
         /\ calls[c][s].effect = {} /\ calls'[c][s].effect = {out.res}
         /\ calls'[c][s].phase = calls[c][s].phase /\ calls'[c][s].res = calls[c][s].res
         /\ Now'.queue = out.st.queue /\ Now'.nowPlaying = out.st.nowPlaying
  <1>0. PICK n \in Nat : n = Len(log)
    BY LengthsAreNat DEF RefinementInv
  <1>1. /\ now = ReplayedTo(n) /\ IsJukebox(now) /\ EachOnce(now)
        /\ PerClient(now.lastResult)
        /\ \A d \in Client : now.lastSeq[d] \in Nat
        /\ IsCommand(cmd) => Adds(cmd) \cap SongsOf(now) = {}
    BY <1>0, NowIs
  <1>2. /\ IsCommand(cmd) /\ cmd.client = c /\ cmd.seq = s /\ cmd # Noop
        /\ SessionsInv
    <2>1. IsCommand(cmd) /\ cmd.client = c /\ cmd.seq = s
      BY DEF RefinementInv, SessionsInv, CallsFit, Asked
    <2>2. cmd # Noop
      BY <2>1, JukeboxAssumption DEF Noop
    <2> QED
      BY <2>1, <2>2 DEF RefinementInv
  <1>3. s \in Nat \ {0} /\ now.lastSeq[c] < s
    <2>1. s \in Nat \ {0}
      BY <1>2, LengthsAreNat
    <2>2. HasSession(cmd)
      BY <1>2, <2>1, JukeboxAssumption DEF HasSession
    <2> QED
      BY <1>1, <1>2, <2>1, <2>2 DEF Repeated
  <1>4. calls[c][s].effect = {}
    BY <1>1, <1>3 DEF RefinementInv, EffectsFit
  <1>5. CommitEntry(cmd) /\ calls' = SetEffect(calls, c, s, {out.res})
    <2>1. CommitEntry(cmd)
      BY DEF Commit
    <2>2. calls' = [calls EXCEPT ![c][s].effect =
                      IF Repeated(now, cmd) THEN @ ELSE @ \cup {out.res}]
      BY DEF Commit, Now
    <2>3. calls' = SetEffect(calls, c, s, calls[c][s].effect \cup {out.res})
      BY <2>2 DEF SetEffect
    <2> QED
      BY <1>4, <2>1, <2>3
  <1>6. /\ ButFor(calls, calls', c, s) /\ calls'[c][s].effect = {out.res}
        /\ calls'[c][s].phase = calls[c][s].phase /\ calls'[c][s].res = calls[c][s].res
    <2>1. PICK e : e = {out.res}
      OBVIOUS
    <2>2. SessionsInv /\ calls' = SetEffect(calls, c, s, e)
      BY <1>2, <1>5, <2>1
    <2>3. /\ ButFor(calls, calls', c, s) /\ calls'[c][s].effect = e
          /\ calls'[c][s].phase = calls[c][s].phase /\ calls'[c][s].res = calls[c][s].res
      BY ONLY <2>2, c \in Client, s \in 1..Len(calls[c]), WrittenIs
    <2> QED
      BY <2>1, <2>3
  <1> DEFINE a == Apply(now, cmd)
  <1>7. /\ a.st.queue = out.st.queue /\ a.st.nowPlaying = out.st.nowPlaying
        /\ a.res = out.res
        /\ a.st.lastSeq = [now.lastSeq EXCEPT ![c] = s]
        /\ a.st.lastResult = [now.lastResult EXCEPT ![c] = out.res]
    <2>1. /\ a.st.queue = applyInner(now, cmd).st.queue
          /\ a.st.nowPlaying = applyInner(now, cmd).st.nowPlaying
          /\ a.res = applyInner(now, cmd).res
          /\ a.st.lastSeq = [now.lastSeq EXCEPT ![cmd.client] = cmd.seq]
          /\ a.st.lastResult = [now.lastResult EXCEPT ![cmd.client] = a.res]
      <3>1. /\ ~Repeated(now, cmd) => Adds(cmd) \cap SongsOf(now) = {}
            /\ IsJukebox(now) /\ EachOnce(now) /\ IsCommand(cmd) /\ cmd # Noop
            /\ PerClient(now.lastResult) /\ ~Repeated(now, cmd)
        BY <1>1, <1>2
      <3> QED
        BY ONLY <3>1, ApplyRemembers
    <2> HIDE DEF a
    <2> QED
      BY <1>2, <2>1
  <1>8. /\ Len(log') = n + 1
        /\ \A i \in 1..n : log'[i] = log[i]
        /\ log'[n + 1] = cmd
        /\ \A i \in 0..n : ReplayedTo(i)' = ReplayedTo(i)
        /\ ReplayedTo(n + 1)' = a.st
    BY <1>0, <1>1, <1>2, <1>5, EntryAppended
  <1>9. Now' = a.st
    <2>1. PICK k : k = n + 1
      OBVIOUS
    <2>2. Now' = ReplayedTo(k)'
      BY <1>8, <2>1 DEF Now, ReplayedTo
    <2> QED
      BY <1>8, <2>1, <2>2
  <1>10. /\ a.st.lastSeq[c] = s /\ a.st.lastResult[c] = out.res
         /\ \A d \in Client : d # c => /\ a.st.lastSeq[d] = now.lastSeq[d]
                                       /\ a.st.lastResult[d] = now.lastResult[d]
         /\ PerClient(a.st.lastResult)
    <2>1. now.lastSeq \in [Client -> Nat]
      BY <1>1 DEF IsJukebox
    <2> HIDE DEF a
    <2> QED
      BY <1>1, <1>7, <2>1 DEF PerClient
  <1> HIDE DEF a
  <1>11. \A d \in Client : Len(calls'[d]) = Len(calls[d])
    BY <1>6 DEF ButFor
  <1>12. \A d \in Client : \A t \in 1..Len(calls[d]) :
            <<d, t>> # <<c, s>> => calls'[d][t] = calls[d][t]
    BY <1>6 DEF ButFor
  <1>13. EffectsFit'
    <2> SUFFICES ASSUME NEW d \in Client, NEW t \in 1..Len(calls[d]), calls'[d][t].effect # {}
                 PROVE  /\ t <= a.st.lastSeq[d]
                        /\ \E x \in calls'[d][t].effect : calls'[d][t].effect = {x}
      BY <1>9, <1>11 DEF EffectsFit
    <2>1. CASE d = c /\ t = s
      BY <1>3, <1>6, <1>10, <2>1
    <2>2. CASE ~(d = c /\ t = s)
      <3>1. calls'[d][t].effect = calls[d][t].effect
        BY <1>12, <2>2
      <3>2. /\ t <= now.lastSeq[d]
            /\ \E x \in calls'[d][t].effect : calls'[d][t].effect = {x}
        BY <3>1 DEF RefinementInv, EffectsFit
      <3>3. t \in Nat
        BY <1>2, LengthsAreNat
      <3>4. now.lastSeq[d] <= a.st.lastSeq[d]
        BY <1>1, <1>3, <1>10
      <3>5. a.st.lastSeq[d] \in Nat
        BY <1>1, <1>3, <1>10
      <3> QED
        BY <1>1, <3>2, <3>3, <3>4, <3>5
    <2> QED
      BY <2>1, <2>2
  <1>14. SessionsRemember'
    <2>1. \A i \in 0..n :
            /\ PerClient(ReplayedTo(i).lastResult)
            /\ \A d \in Client : ReplayedTo(i).lastSeq[d] # 0 =>
                 /\ ReplayedTo(i).lastSeq[d] \in 1..Len(calls[d])
                 /\ calls[d][ReplayedTo(i).lastSeq[d]].effect = {ReplayedTo(i).lastResult[d]}
      <3>1. SessionsRemember
        BY DEF RefinementInv
      <3> QED
        BY ONLY <1>0, <3>1 DEF SessionsRemember
    <2>2. \A i \in 1..n : log[i] # Noop =>
             Apply(ReplayedTo(i - 1), log[i]).res = ReplayedTo(i).lastResult[log[i].client]
      <3>1. SessionsRemember
        BY DEF RefinementInv
      <3> QED
        BY ONLY <1>0, <3>1 DEF SessionsRemember
    <2>3. ASSUME NEW i \in 0 .. n + 1
          PROVE  /\ PerClient(ReplayedTo(i)'.lastResult)
                 /\ \A d \in Client : ReplayedTo(i)'.lastSeq[d] # 0 =>
                     /\ ReplayedTo(i)'.lastSeq[d] \in 1..Len(calls'[d])
                     /\ calls'[d][ReplayedTo(i)'.lastSeq[d]].effect = {ReplayedTo(i)'.lastResult[d]}
      <3>1. CASE i = n + 1
        <4>1. ReplayedTo(i)' = a.st
          BY <1>8, <3>1
        <4>2. ASSUME NEW d \in Client, a.st.lastSeq[d] # 0
              PROVE  /\ a.st.lastSeq[d] \in 1..Len(calls'[d])
                     /\ calls'[d][a.st.lastSeq[d]].effect = {a.st.lastResult[d]}
          <5>1. CASE d = c
            BY <1>6, <1>10, <1>11, <5>1
          <5>2. CASE d # c
            <6>1. /\ now.lastSeq[d] \in 1..Len(calls[d])
                  /\ calls[d][now.lastSeq[d]].effect = {now.lastResult[d]}
              BY <1>0, <1>1, <1>10, <2>1, <4>2, <5>2
            <6>2. calls'[d][now.lastSeq[d]] = calls[d][now.lastSeq[d]]
              BY <1>12, <5>2, <6>1
            <6> QED
              BY <1>10, <1>11, <5>2, <6>1, <6>2
          <5> QED
            BY <5>1, <5>2
        <4> QED
          BY <1>10, <4>1, <4>2
      <3>2. CASE i # n + 1
        <4>1. i \in 0..n
          BY <3>2
        <4>2. PICK u : u = ReplayedTo(i) /\ u = ReplayedTo(i)'
          BY <1>8, <4>1
        <4>3. /\ PerClient(u.lastResult)
              /\ \A d \in Client : u.lastSeq[d] # 0 =>
                   u.lastSeq[d] \in 1..Len(calls[d]) /\ calls[d][u.lastSeq[d]].effect = {u.lastResult[d]}
          BY <2>1, <4>1, <4>2
        <4>4. ASSUME NEW d \in Client, u.lastSeq[d] # 0
              PROVE  u.lastSeq[d] \in 1..Len(calls'[d]) /\ calls'[d][u.lastSeq[d]].effect = {u.lastResult[d]}
          <5>1. /\ u.lastSeq[d] \in 1..Len(calls[d])
                /\ calls[d][u.lastSeq[d]].effect = {u.lastResult[d]}
            BY <4>3, <4>4
          <5>2. <<d, u.lastSeq[d]>> # <<c, s>>
            BY <1>4, <5>1
          <5> QED
            BY <1>11, <1>12, <5>1, <5>2
        <4> QED
          BY <4>2, <4>3, <4>4
      <3> QED
        BY <3>1, <3>2
    <2>4. ASSUME NEW i \in 1 .. n + 1, log'[i] # Noop
          PROVE  Apply(ReplayedTo(i - 1)', log'[i]).res = ReplayedTo(i)'.lastResult[log'[i].client]
      <3>1. CASE i = n + 1
        <4>1. i - 1 = n /\ n \in 0..n
          BY <3>1
        <4>2. ReplayedTo(i - 1)' = now /\ ReplayedTo(i)' = a.st /\ log'[i] = cmd
          BY <1>1, <1>8, <3>1, <4>1
        <4>3. Apply(now, cmd).res = out.res
          BY <1>7 DEF a
        <4> QED
          BY <1>2, <1>10, <4>2, <4>3
      <3>2. CASE i # n + 1
        <4>1. i \in 1..n /\ i - 1 \in 0..n /\ i \in 0..n
          BY <3>2
        <4> QED
          BY <1>8, <2>2, <2>4, <4>1
      <3> QED
        BY <3>1, <3>2
    <2> QED
      BY <1>8, <2>3, <2>4 DEF SessionsRemember
  <1> QED
    BY <1>4, <1>6, <1>7, <1>9, <1>13, <1>14

\* Of the calls of a client only the last may be under way.
LastOpen ==
    \A c \in Client : \A s \in 1..Len(calls[c]) :
        calls[c][s].phase = "open" => s = Len(calls[c])

\* A step of Sessions is one that the session table allows, or changes nothing
\* that clients see; where only last calls are under way it is one of the
\* sequential queue.
QueueStep ==
    /\ [Q!SessionNext]_Q!queueVars
    /\ LastOpen => [Q!Next]_Q!queueVars

\* Nothing the sequential queue shows changes.
LEMMA Stutters ==
  ASSUME Now' = Now, AskedOf(calls') = AskedOf(calls),
         OutcomesOf(calls') = OutcomesOf(calls), AnswersOf(calls') = AnswersOf(calls)
  PROVE  QueueStep
  <1>1. AskedFor' = AskedFor /\ Outcomes' = Outcomes /\ Answers' = Answers
    BY ViewsAre
  <1> QED
    BY <1>1 DEF QueueStep, Q!queueVars

\* What the views tell of the calls f of one client.
Viewed(f, c) ==
    /\ Len(AskedOf(f)[c]) = Len(f[c])
    /\ \A s \in 1..Len(f[c]) :
          /\ AskedOf(f)[c][s] = f[c][s].cmd
          /\ <<c, s>> \in DOMAIN OutcomesOf(f) <=> f[c][s].effect # {}
          /\ f[c][s].effect # {} => OutcomesOf(f)[<<c, s>>] = Saw(f[c][s])
          /\ <<c, s>> \in DOMAIN AnswersOf(f) <=> f[c][s].phase = "done"

\* The views tell that of any calls.
LEMMA ViewOf ==
  ASSUME NEW f, NEW c \in Client, \A d \in Client : IsSeq(f[d])
  PROVE  Viewed(f, c)
  <1>0. PICK n \in Nat : n = Len(f[c])
    BY LenProperties DEF IsSeq
  <1>1. AskedOf(f)[c] = [s \in 1..n |-> f[c][s].cmd]
    BY <1>0 DEF AskedOf
  <1> DEFINE h == [s \in 1..n |-> f[c][s].cmd]
  <1>2. h \in Seq({h[t] : t \in 1..n}) /\ Len(h) = n
    BY <1>0
  <1>3. \A s \in 1..n : h[s] = f[c][s].cmd
    OBVIOUS
  <1> HIDE DEF h
  <1>4. Len(AskedOf(f)[c]) = n /\ \A s \in 1..n : AskedOf(f)[c][s] = f[c][s].cmd
    BY <1>1, <1>2, <1>3 DEF h
  <1>5. ASSUME NEW s \in 1..n
        PROVE  /\ <<c, s>> \in DOMAIN OutcomesOf(f) <=> f[c][s].effect # {}
               /\ f[c][s].effect # {} => OutcomesOf(f)[<<c, s>>] = Saw(f[c][s])
               /\ <<c, s>> \in DOMAIN AnswersOf(f) <=> f[c][s].phase = "done"
    <2>1. <<c, s>> \in CallsOf(f)
      BY <1>0, CallsAre
    <2>2. <<c, s>> \in DOMAIN OutcomesOf(f) <=> f[c][s].effect # {}
      BY <2>1 DEF OutcomesOf
    <2>3. <<c, s>> \in DOMAIN AnswersOf(f) <=> f[c][s].phase = "done"
      BY <2>1 DEF AnswersOf
    <2>4. f[c][s].effect # {} => OutcomesOf(f)[<<c, s>>] = Saw(f[c][s])
      BY <2>1 DEF OutcomesOf
    <2> QED
      BY <2>2, <2>3, <2>4
  <1> QED
    BY <1>0, <1>4, <1>5 DEF Viewed

\* Client.do makes a call.
LEMMA CallRefines ==
  ASSUME RefinementInv, NEW c \in Client, NEW cmd \in Command, Call(c, cmd)
  PROVE  EffectsFit' /\ SessionsRemember' /\ QueueStep
  <1> DEFINE r == [cmd |-> cmd, phase |-> "open", proposals |-> 1, res |-> NoResult,
                   effect |-> {}]
  <1>1. calls' = [calls EXCEPT ![c] = Append(@, r)] /\ UNCHANGED <<log, replay>>
    BY DEF Call
  <1>2. r.effect = {} /\ r.phase # "done" /\ r.cmd = cmd
    OBVIOUS
  <1>3. /\ calls = [d \in Client |-> calls[d]]
        /\ \A d \in Client : IsSeq(calls[d]) /\ Len(calls[d]) \in Nat
    BY LengthsAreNat DEF RefinementInv, SessionsInv, CallsFit
  <1> HIDE DEF r
  <1>4. /\ AskedOf(calls') = [AskedOf(calls) EXCEPT ![c] = Append(@, cmd)]
        /\ OutcomesOf(calls') = OutcomesOf(calls)
        /\ AnswersOf(calls') = AnswersOf(calls)
    <2>1. PICK f : f = calls
      OBVIOUS
    <2>2. PICK g : g = calls'
      OBVIOUS
    <2>3. g = Extended(f, c, r)
      BY <1>1, <2>1, <2>2 DEF Extended
    <2>4. PerClient(f) /\ \A d \in Client : IsSeq(f[d])
      BY <1>3, <2>1 DEF PerClient
    <2>5. /\ AskedOf(g) = Extended(AskedOf(f), c, r.cmd)
          /\ OutcomesOf(g) = OutcomesOf(f)
          /\ AnswersOf(g) = AnswersOf(f)
      BY ONLY <1>2, <2>3, <2>4, c \in Client, NewCall
    <2> QED
      BY <1>2, <2>1, <2>2, <2>5 DEF Extended
  <1>5. /\ Len(calls'[c]) = Len(calls[c]) + 1
        /\ \A t \in 1..Len(calls[c]) : calls'[c][t] = calls[c][t]
        /\ calls'[c][Len(calls[c]) + 1] = r
        /\ \A d \in Client : d # c => calls'[d] = calls[d]
    <2>1. /\ Len(Append(calls[c], r)) = Len(calls[c]) + 1
          /\ \A t \in 1..Len(calls[c]) : Append(calls[c], r)[t] = calls[c][t]
          /\ Append(calls[c], r)[Len(calls[c]) + 1] = r
      BY <1>3, AppendAny
    <2> QED
      BY <1>1, <1>3, <2>1
  <1>6. ASSUME NEW d \in Client, NEW s \in 1..Len(calls[d])
        PROVE  s \in 1..Len(calls'[d]) /\ calls'[d][s].effect = calls[d][s].effect
    BY <1>3, <1>5
  <1>7. ASSUME NEW d \in Client, NEW s \in 1..Len(calls'[d])
        PROVE  s \in 1..Len(calls[d]) \/ calls'[d][s].effect = {}
    BY <1>2, <1>3, <1>5
  <1>8. EffectsFit' /\ SessionsRemember' /\ Now' = Now
    BY <1>1, <1>6, <1>7, EffectsKept
  <1>9. Q!Invoke(c, cmd)
    <2>1. AskedFor' = [AskedFor EXCEPT ![c] = Append(@, cmd)]
          /\ Outcomes' = Outcomes /\ Answers' = Answers
      BY <1>4, ViewsAre
    <2> QED
      BY <1>8, <2>1 DEF Q!Invoke
  <1>10. Q!SessionNext /\ Q!Next
    BY <1>9 DEF Q!SessionNext, Q!Next
  <1> QED
    BY <1>8, <1>10 DEF QueueStep

\* A retry or a call given up.
LEMMA QuietCallRefines ==
  ASSUME RefinementInv, NEW c \in Client, NEW s \in 1..Len(calls[c]),
         Retry(c, s) \/ GiveUp(c, s)
  PROVE  EffectsFit' /\ SessionsRemember' /\ QueueStep
  <1>1. /\ UNCHANGED <<log, replay>>
        /\ calls[c][s].phase = "open"
        /\ \/ calls' = SetCount(calls, c, s, calls[c][s].proposals + 1)
           \/ calls' = SetPhase(calls, c, s, "failed")
    BY DEF Retry, GiveUp, SetCount, SetPhase
  <1>2. SessionsInv
    BY DEF RefinementInv
  <1>3. /\ ButFor(calls, calls', c, s)
        /\ calls'[c][s].phase # "done" /\ calls[c][s].phase # "done"
        /\ calls'[c][s].res = calls[c][s].res /\ calls'[c][s].effect = calls[c][s].effect
    <2>1. CASE calls' = SetCount(calls, c, s, calls[c][s].proposals + 1)
      BY <1>1, <1>2, <2>1, WrittenIs
    <2>2. CASE calls' = SetPhase(calls, c, s, "failed")
      BY <1>1, <1>2, <2>2, WrittenIs
    <2> QED
      BY <1>1, <2>1, <2>2
  <1>4. /\ AskedOf(calls') = AskedOf(calls) /\ OutcomesOf(calls') = OutcomesOf(calls)
        /\ AnswersOf(calls') = AnswersOf(calls)
    BY <1>3, SameAsked, SameOutcomes, SameAnswers
  <1>5. \A d \in Client : \A t \in 1..Len(calls[d]) :
            t \in 1..Len(calls'[d]) /\ calls'[d][t].effect = calls[d][t].effect
    BY <1>3 DEF ButFor
  <1>6. \A d \in Client : \A t \in 1..Len(calls'[d]) : t \in 1..Len(calls[d])
    BY <1>3 DEF ButFor
  <1>7. EffectsFit' /\ SessionsRemember' /\ Now' = Now
    BY <1>1, <1>5, <1>6, EffectsKept
  <1> QED
    BY <1>4, <1>7, Stutters

\* Nothing happens to the calls and the log.
LEMMA CallsAndLogKept ==
  ASSUME RefinementInv, UNCHANGED <<calls, log, replay>>
  PROVE  EffectsFit' /\ SessionsRemember' /\ QueueStep
  <1>1. EffectsFit' /\ SessionsRemember' /\ Now' = Now
    BY EffectsKept
  <1> QED
    BY <1>1, Stutters

\* A leader's no-op commits.
LEMMA NoopRefines ==
  ASSUME RefinementInv, CommitNoop
  PROVE  EffectsFit' /\ SessionsRemember' /\ QueueStep
  <1>1. CommitEntry(Noop) /\ UNCHANGED calls
    BY DEF CommitNoop
  <1>2. IsCommand(Noop)
    BY DEF IsCommand
  <1>3. Apply(Now, Noop).st = Now
    <2>1. ~HasSession(Noop) /\ Noop.op = "noop"
      BY DEF HasSession, Noop
    <2>2. ~Repeated(Now, Noop)
      BY <2>1 DEF Repeated
    <2>3. Apply(Now, Noop) = applyInner(Now, Noop)
      BY <2>1, <2>2 DEF Apply
    <2> QED
      BY <2>1, <2>3 DEF applyInner
  <1>4. PICK now : now = Now
    OBVIOUS
  <1>5. EffectsFit' /\ SessionsRemember' /\ Now' = Now
    BY <1>1, <1>2, <1>3, <1>4, IdleCommit
  <1> QED
    BY <1>1, <1>5, Stutters

\* The move that QueueModel states of the jukebox after the log.
LEMMA MoveView ==
  ASSUME NEW song, NEW to, NEW i, i # 0, i = First(Now'.queue, song),
         \/ i = to + 1
         \/ to < 0 /\ i = 1
         \/ to >= Len(Now.queue) /\ i = Len(Now.queue),
         RemoveAt(Now'.queue, i) = RemoveFirst(Now.queue, song),
         Now'.nowPlaying = Now.nowPlaying
  PROVE  Q!Move(song, to)
  BY DEF Q!Move, First, Q!SelectInSeq, SelectInSeq, Q!RemoveAt, RemoveAt, Q!RemoveFirst,
         RemoveFirst, Q!Min, Min

\* Writing the value that is there.
LEMMA SameEntry ==
  ASSUME NEW q, IsSeq(q), NEW i \in 1..Len(q)
  PROVE  [q EXCEPT ![i] = q[i]] = q
  <1>1. q \in [1..Len(q) -> {q[j] : j \in DOMAIN q}]
    BY LenProperties DEF IsSeq
  <1>2. q = [j \in 1..Len(q) |-> q[j]]
    BY <1>1
  <1> QED
    BY <1>2

\* A proposal commits.
LEMMA CommitRefines ==
  ASSUME RefinementInv, NEW c \in Client, NEW s \in 1..Len(calls[c]), Commit(c, s)
  PROVE  EffectsFit' /\ SessionsRemember' /\ QueueStep
  <1>0. PICK n \in Nat : n = Len(log)
    BY LengthsAreNat DEF RefinementInv
  <1>1. PICK now : now = Now
    OBVIOUS
  <1>2. PICK cmd : cmd = Asked(c, s, calls[c][s].cmd)
    OBVIOUS
  <1>3. /\ IsCommand(cmd) /\ cmd.client = c /\ cmd.seq = s /\ cmd # Noop
        /\ cmd.op = calls[c][s].cmd.op /\ cmd.song = calls[c][s].cmd.song
        /\ cmd.to = calls[c][s].cmd.to
        /\ SessionsInv /\ \A d \in Client : IsSeq(calls[d]) /\ Len(calls[d]) \in Nat
    <2>1. /\ IsCommand(cmd) /\ cmd.client = c /\ cmd.seq = s
          /\ cmd.op = calls[c][s].cmd.op /\ cmd.song = calls[c][s].cmd.song
          /\ cmd.to = calls[c][s].cmd.to
      BY <1>2 DEF RefinementInv, SessionsInv, CallsFit, Asked
    <2>2. cmd # Noop
      BY <2>1, JukeboxAssumption DEF Noop
    <2> QED
      BY <2>1, <2>2, LengthsAreNat DEF RefinementInv, SessionsInv, CallsFit
  <1>4. /\ now = ReplayedTo(n) /\ IsJukebox(now) /\ EachOnce(now) /\ PerClient(now.lastResult)
        /\ \A d \in Client : now.lastSeq[d] \in Nat
        /\ IsCommand(cmd) /\ ~Repeated(now, cmd) => Adds(cmd) \cap SongsOf(now) = {}
    BY <1>0, <1>1, NowIs
  <1>5. CASE Repeated(now, cmd)
    <2>1. CommitEntry(cmd)
      BY <1>2 DEF Commit
    <2>2. calls' = SetEffect(calls, c, s, calls[c][s].effect)
      BY <1>1, <1>2, <1>5 DEF Commit, SetEffect, Now
    <2>3. ButFor(calls, calls', c, s) /\ calls'[c][s].effect = calls[c][s].effect
          /\ calls'[c][s].phase = calls[c][s].phase /\ calls'[c][s].res = calls[c][s].res
      <3>1. PICK e : e = calls[c][s].effect
        OBVIOUS
      <3>2. SessionsInv /\ calls' = SetEffect(calls, c, s, e)
        BY <1>3, <2>2, <3>1
      <3>3. /\ ButFor(calls, calls', c, s) /\ calls'[c][s].effect = e
            /\ calls'[c][s].phase = calls[c][s].phase /\ calls'[c][s].res = calls[c][s].res
        BY ONLY <3>2, c \in Client, s \in 1..Len(calls[c]), WrittenIs
      <3> QED
        BY <3>1, <3>3
    <2>4. calls' = calls
      <3>1. calls = [d \in Client |-> calls[d]] /\ IsCall(calls[c][s])
        BY <1>3 DEF SessionsInv, CallsFit
      <3> QED
        <4> DEFINE w == calls[c][s]
        <4>1. s \in DOMAIN calls[c]
          BY <1>3, LenProperties DEF IsSeq
        <4>2. c \in DOMAIN calls
          BY <3>1
        <4>3. calls' = Put(calls, c, s, w.phase, w.proposals, w.res, w.effect)
          BY <2>2, <3>1, <4>1, <4>2, EditCall
        <4>4. calls' = [calls EXCEPT ![c] = [calls[c] EXCEPT ![s] = w]]
          BY <3>1, <4>3 DEF Put, IsCall
        <4> HIDE DEF w
        <4>5. [calls[c] EXCEPT ![s] = w] = calls[c]
          BY <1>3, SameEntry DEF w
        <4> QED
          BY <3>1, <4>4, <4>5
    <2>5. Apply(now, cmd).st = now /\ Apply(now, cmd).res = now.lastResult[cmd.client]
      BY <1>5 DEF Apply
    <2>6. EffectsFit' /\ SessionsRemember' /\ Now' = Now
      BY <1>1, <1>3, <2>1, <2>4, <2>5, IdleCommit
    <2> QED
      BY <2>4, <2>6, Stutters
  <1>6. CASE ~Repeated(now, cmd)
    <2>0. PICK out : out = applyInner(now, cmd)
      OBVIOUS
    <2>1. /\ EffectsFit' /\ SessionsRemember'
          /\ ButFor(calls, calls', c, s)
          /\ calls[c][s].effect = {} /\ calls'[c][s].effect = {out.res}
          /\ calls'[c][s].phase = calls[c][s].phase /\ calls'[c][s].res = calls[c][s].res
          /\ Now'.queue = out.st.queue /\ Now'.nowPlaying = out.st.nowPlaying
      BY <1>1, <1>2, <1>6, <2>0, EffectCommit
    <2>2. /\ AskedFor' = AskedFor /\ Answers' = Answers
          /\ Outcomes' = Q!With(Outcomes, <<c, s>>, Output(out.res))
      <3>1. AskedOf(calls') = AskedOf(calls)
        BY <2>1, SameAsked
      <3>2. AnswersOf(calls') = AnswersOf(calls)
        BY <2>1, SameAnswers
      <3>3. PICK x : x = out.res
        OBVIOUS
      <3>4. OutcomesOf(calls') = Q!With(OutcomesOf(calls), <<c, s>>, Output(x))
        <4>1. PICK f : f = calls
          OBVIOUS
        <4>2. PICK g : g = calls'
          OBVIOUS
        <4>3. s \in 1..Len(f[c]) /\ ButFor(f, g, c, s) /\ g[c][s].effect = {x}
          BY <2>1, <3>3, <4>1, <4>2
        <4>4. g[c][s].effect # {}
          BY <4>3
        <4>5. OutcomesOf(g) = Q!With(OutcomesOf(f), <<c, s>>, Saw(g[c][s]))
          BY ONLY <4>3, <4>4, c \in Client, NewOutcome
        <4>6. (CHOOSE res \in {x} : TRUE) = x
          OBVIOUS
        <4>7. Saw(g[c][s]) = Output(x)
          BY <4>3, <4>6 DEF Saw
        <4> QED
          BY <4>1, <4>2, <4>5, <4>7
      <3> QED
        BY <3>1, <3>2, <3>3, <3>4, ViewsAre
    <2>3. /\ Len(AskedFor[c]) = Len(calls[c])
          /\ \A t \in 1..Len(calls[c]) :
               /\ AskedFor[c][t] = calls[c][t].cmd
               /\ <<c, t>> \in DOMAIN Outcomes <=> calls[c][t].effect # {}
      BY <1>3, ViewOf, ViewsAre DEF Viewed
    <2>4. <<c, s>> \notin DOMAIN Outcomes
      BY <2>1, <2>3
    <2>5. ~Q!Overtaken(c, s)
      <3>1. ASSUME NEW t \in s + 1 .. Len(calls[c]), <<c, t>> \in DOMAIN Outcomes PROVE FALSE
        <4>1. s \in Nat \ {0} /\ t \in 1..Len(calls[c]) /\ s < t
          BY <1>3
        <4>2. t <= now.lastSeq[c]
          BY <1>1, <2>3, <3>1, <4>1 DEF RefinementInv, EffectsFit
        <4>3. HasSession(cmd)
          BY <1>3, <4>1, JukeboxAssumption DEF HasSession
        <4>4. now.lastSeq[c] < s
          BY <1>3, <1>4, <1>6, <4>1, <4>3 DEF Repeated
        <4> QED
          BY <1>4, <4>1, <4>2, <4>4
      <3> QED
        BY <2>3, <3>1 DEF Q!Overtaken
    <2>6. PICK ask : ask = AskedFor[c][s] /\ ask.op = cmd.op /\ ask.song = cmd.song /\ ask.to = cmd.to
      BY <1>3, <2>3
    <2>7. \/ Refuses(now, cmd) /\ out.st = now /\ out.res = NoResult
          \/ /\ ~Refuses(now, cmd) /\ Effects(now, out.st, cmd)
             /\ out.res.ok = TRUE /\ out.res.nowPlaying = out.st.nowPlaying
      BY <1>3, <1>4, <2>0, InnerEffects
    <2>8. Q!Refused(ask) <=> Refuses(now, cmd)
      BY <1>1, <2>6 DEF Q!Refused, Refuses
    <2>11. Q!Execute(c, s) => QueueStep
      BY <2>3, <2>5 DEF Q!SessionNext, Q!Next, QueueStep
    <2>9. CASE Refuses(now, cmd)
      <3>1. Output(out.res) = Q!Refusal
        <4>1. Output(NoResult) = Q!Refusal
          BY DEF Output, NoResult, Q!Refusal
        <4> QED
          BY <2>7, <2>9, <4>1
      <3>2. Q!Execute(c, s)
        BY <1>1, <2>1, <2>2, <2>4, <2>6, <2>7, <2>8, <2>9, <3>1 DEF Q!Execute
      <3> QED
        BY <2>1, <2>11, <3>2
    <2>10. CASE ~Refuses(now, cmd)
      <3>1. Output(out.res) = [ok |-> TRUE, playing |-> Now'.nowPlaying]
        BY <2>1, <2>7, <2>10 DEF Output
      <3>2. Q!Effect(ask)
        <4>0. cmd.op \in {"enqueue", "play-next", "vote-skip", "reorder"}
          BY <1>3 DEF IsCommand
        <4>1. CASE cmd.op = "enqueue"
          BY <1>1, <2>1, <2>6, <2>7, <2>10, <4>1 DEF Q!Effect, Effects
        <4>2. CASE cmd.op = "play-next"
          BY <1>1, <2>1, <2>6, <2>7, <2>10, <4>2 DEF Q!Effect, Q!Dequeue, Effects, Advances
        <4>3. CASE cmd.op = "vote-skip"
          BY <1>1, <2>1, <2>6, <2>7, <2>10, <4>3 DEF Q!Effect, Q!Dequeue, Effects, Advances
        <4>4. CASE cmd.op = "reorder"
          <5>1. Reorders(now, out.st, cmd.song, cmd.to)
            BY <2>7, <2>10, <4>4 DEF Effects
          <5>2. Q!Move(cmd.song, cmd.to)
            <6>1. PICK i : i = First(out.st.queue, cmd.song)
              OBVIOUS
            <6>2. /\ i # 0
                  /\ \/ i = cmd.to + 1
                     \/ cmd.to < 0 /\ i = 1
                     \/ cmd.to >= Len(now.queue) /\ i = Len(now.queue)
                  /\ RemoveAt(out.st.queue, i) = RemoveFirst(now.queue, cmd.song)
                  /\ out.st.nowPlaying = now.nowPlaying
              BY <5>1, <6>1 DEF Reorders
            <6>3. i = First(Now'.queue, cmd.song)
              BY <2>1, <6>1
            <6>4. RemoveAt(Now'.queue, i) = RemoveFirst(Now.queue, cmd.song)
              BY <1>1, <2>1, <6>2
            <6>5. /\ \/ i = cmd.to + 1
                     \/ cmd.to < 0 /\ i = 1
                     \/ cmd.to >= Len(Now.queue) /\ i = Len(Now.queue)
                  /\ Now'.nowPlaying = Now.nowPlaying
              BY <1>1, <2>1, <6>2
            <6> QED
              BY <6>2, <6>3, <6>4, <6>5, MoveView
          <5> QED
            BY <2>6, <4>4, <5>2 DEF Q!Effect
        <4> QED
          BY <4>0, <4>1, <4>2, <4>3, <4>4
      <3>3. Q!Execute(c, s)
        BY <2>2, <2>4, <2>6, <2>8, <2>10, <3>1, <3>2 DEF Q!Execute
      <3> QED
        BY <2>1, <2>11, <3>3
    <2> QED
      BY <2>1, <2>9, <2>10
  <1> QED
    BY <1>5, <1>6

\* A replica answers call s of c with x, which a call m of c, that one or a later
\* one, has seen.
LEMMA AnswerReturns ==
  ASSUME RefinementInv, UNCHANGED <<log, replay>>,
         NEW c \in Client, NEW s \in 1..Len(calls[c]), NEW m \in s..Len(calls[c]), NEW x,
         calls[c][s].phase = "open", calls[c][m].effect = {x},
         calls' = SetAnswer(calls, c, s, "done", x)
  PROVE  EffectsFit' /\ SessionsRemember' /\ QueueStep
  <1>1. SessionsInv /\ \A d \in Client : IsSeq(calls[d]) /\ Len(calls[d]) \in Nat
    BY LengthsAreNat DEF RefinementInv, SessionsInv, CallsFit
  <1>2. /\ ButFor(calls, calls', c, s)
        /\ calls'[c][s].phase = "done" /\ calls'[c][s].res = x
        /\ calls'[c][s].effect = calls[c][s].effect
    BY <1>1, WrittenIs
  <1>3. /\ \A d \in Client : \A t \in 1..Len(calls[d]) :
             t \in 1..Len(calls'[d]) /\ calls'[d][t].effect = calls[d][t].effect
        /\ \A d \in Client : \A t \in 1..Len(calls'[d]) : t \in 1..Len(calls[d])
    BY <1>2 DEF ButFor
  <1>4. EffectsFit' /\ SessionsRemember' /\ Now' = Now
    BY <1>3, EffectsKept
  <1>5. AskedFor' = AskedFor /\ Outcomes' = Outcomes
    <2>1. AskedOf(calls') = AskedOf(calls) /\ OutcomesOf(calls') = OutcomesOf(calls)
      BY <1>2, SameAsked, SameOutcomes
    <2> QED
      BY <2>1, ViewsAre
  <1>6. Answers' = Q!With(Answers, <<c, s>>, Output(x))
    <2>1. PICK f : f = calls
      OBVIOUS
    <2>2. PICK g : g = calls'
      OBVIOUS
    <2>3. s \in 1..Len(f[c]) /\ ButFor(f, g, c, s) /\ g[c][s].phase = "done"
      BY <1>2, <2>1, <2>2
    <2>4. AnswersOf(g) = Q!With(AnswersOf(f), <<c, s>>, Output(g[c][s].res))
      BY ONLY <2>3, c \in Client, NewAnswer
    <2> QED
      BY <1>2, <2>1, <2>2, <2>4, ViewsAre
  <1>7. PICK k \in Nat : k = Len(calls[c])
    BY <1>1
  <1>8. s \in 1..k /\ m \in s..k /\ m \in 1..k
    BY <1>7
  <1>9. /\ Len(AskedFor[c]) = k
        /\ <<c, m>> \in DOMAIN Outcomes /\ Outcomes[<<c, m>>] = Output(x)
        /\ <<c, s>> \notin DOMAIN Answers
    <2>1. /\ Len(AskedOf(calls)[c]) = k
          /\ <<c, m>> \in DOMAIN OutcomesOf(calls)
          /\ OutcomesOf(calls)[<<c, m>>] = Output(x)
          /\ <<c, s>> \notin DOMAIN AnswersOf(calls)
      <3>1. Viewed(calls, c)
        BY <1>1, ViewOf
      <3>2. calls[c][m].effect # {} /\ calls[c][s].phase # "done"
        OBVIOUS
      <3>3. (CHOOSE res \in {x} : TRUE) = x
        OBVIOUS
      <3>4. Saw(calls[c][m]) = Output(x)
        BY <3>3 DEF Saw
      <3> QED
        BY <1>7, <1>8, <3>1, <3>2, <3>4 DEF Viewed
    <2> QED
      BY <2>1, ViewsAre
  <1>10. CASE m = s
    <2>1. Q!Return(c, s)
      BY <1>4, <1>5, <1>6, <1>9, <1>10 DEF Q!Return
    <2>2. Q!SessionNext /\ Q!Next
      BY <1>8, <1>9, <2>1 DEF Q!SessionNext, Q!Next
    <2> QED
      BY <1>4, <2>2 DEF QueueStep
  <1>11. CASE m # s
    <2>1. m \in s + 1 .. k /\ s # k
      BY <1>7, <1>8, <1>11
    <2>2. Q!ReturnLater(c, s)
      BY <1>4, <1>5, <1>6, <1>9, <2>1 DEF Q!ReturnLater
    <2>3. Q!SessionNext
      BY <1>8, <1>9, <2>2 DEF Q!SessionNext
    <2>4. ~LastOpen
      BY <1>7, <2>1 DEF LastOpen
    <2> QED
      BY <1>4, <2>3, <2>4 DEF QueueStep
  <1> QED
    BY <1>10, <1>11

\* A replica applies an entry; the waiter may answer the client.
LEMMA ApplyNextRefines ==
  ASSUME RefinementInv, NEW r \in Replica, ApplyNext(r)
  PROVE  EffectsFit' /\ SessionsRemember' /\ QueueStep
  <1>0. PICK n \in Nat : n = Len(log)
    BY LengthsAreNat DEF RefinementInv
  <1>1. PICK i : i = applied[r] + 1
    OBVIOUS
  <1>2. PICK cmd : cmd = log[i]
    OBVIOUS
  <1>3. UNCHANGED <<log, replay>> /\ i <= n
    BY <1>0, <1>1 DEF ApplyNext
  <1>4. i \in 1..n /\ i - 1 \in 0..n /\ i \in 0..n /\ st[r] = ReplayedTo(i - 1)
    BY <1>0, <1>1, <1>3 DEF RefinementInv, SessionsInv, ReplicasFit
  <1>5. CASE UNCHANGED calls
    BY <1>3, <1>5, CallsAndLogKept
  <1>6. CASE ~UNCHANGED calls
    <2>0. PICK x : x = Apply(st[r], cmd).res
      OBVIOUS
    <2>1. PICK c : c = cmd.client
      OBVIOUS
    <2>2. PICK s : s = cmd.seq
      OBVIOUS
    <2>3. /\ cmd # Noop /\ calls[c][s].phase = "open"
          /\ calls' = SetAnswer(calls, c, s, "done", x)
      BY <1>1, <1>2, <1>6, <2>0, <2>1, <2>2 DEF ApplyNext, SetAnswer
    <2>4. c \in Client /\ s \in 1..Len(calls[c])
      BY <1>0, <1>2, <1>4, <2>1, <2>2, <2>3
         DEF RefinementInv, SessionsInv, LogFits, IsCommand
    <2>5. PICK u : u = ReplayedTo(i)
      OBVIOUS
    <2>6. x = u.lastResult[c]
      BY <1>0, <1>2, <1>4, <2>0, <2>1, <2>3, <2>5 DEF RefinementInv, SessionsRemember
    <2>7. PICK m : m = u.lastSeq[c]
      OBVIOUS
    <2>8. Len(calls[c]) \in Nat
      BY <2>4, LengthsAreNat DEF RefinementInv
    <2>9. s <= m
      <3>1. HasSession(cmd)
        BY <2>1, <2>2, <2>4, <2>8, JukeboxAssumption DEF HasSession
      <3> QED
        BY <1>0, <1>2, <1>4, <2>1, <2>2, <2>5, <2>7, <3>1
           DEF RefinementInv, SessionsInv, ReplayFits
    <2>10. m \in Nat
      BY <1>0, <1>4, <2>4, <2>5, <2>7
         DEF RefinementInv, SessionsInv, ReplayFits, IsJukebox
    <2>11. m \in 1..Len(calls[c]) /\ calls[c][m].effect = {x}
      <3>1. m # 0
        BY <2>4, <2>8, <2>9, <2>10
      <3>2. SessionsRemember
        BY DEF RefinementInv
      <3>3. \A d \in Client : ReplayedTo(i).lastSeq[d] # 0 =>
               /\ ReplayedTo(i).lastSeq[d] \in 1..Len(calls[d])
               /\ calls[d][ReplayedTo(i).lastSeq[d]].effect = {ReplayedTo(i).lastResult[d]}
        BY ONLY <1>0, <1>4, <3>2 DEF SessionsRemember
      <3> QED
        BY <2>4, <2>5, <2>6, <2>7, <3>1, <3>3
    <2>12. m \in s..Len(calls[c])
      BY <2>4, <2>8, <2>9, <2>11
    <2> QED
      BY <1>3, <2>3, <2>4, <2>11, <2>12, AnswerReturns
  <1> QED
    BY <1>5, <1>6

\* Every step keeps the invariant, and is a step of the sequential queue or shows
\* nothing of itself.
LEMMA RefinementNext == RefinementInv /\ [Next]_sessionVars => RefinementInv' /\ QueueStep
  <1> SUFFICES ASSUME RefinementInv, [Next]_sessionVars
               PROVE  EffectsFit' /\ SessionsRemember' /\ QueueStep
    BY SessionsNext DEF RefinementInv
  <1>1. ASSUME NEW c \in Client, NEW cmd \in Command, Call(c, cmd)
        PROVE  EffectsFit' /\ SessionsRemember' /\ QueueStep
    BY <1>1, CallRefines
  <1>2. ASSUME NEW c \in Client, NEW s \in 1..Len(calls[c]), Retry(c, s) \/ GiveUp(c, s)
        PROVE  EffectsFit' /\ SessionsRemember' /\ QueueStep
    BY <1>2, QuietCallRefines
  <1>3. ASSUME NEW c \in Client, NEW s \in 1..Len(calls[c]), Commit(c, s)
        PROVE  EffectsFit' /\ SessionsRemember' /\ QueueStep
    BY <1>3, CommitRefines
  <1>4. CASE CommitNoop
    BY <1>4, NoopRefines
  <1>5. ASSUME NEW r \in Replica, ApplyNext(r)
        PROVE  EffectsFit' /\ SessionsRemember' /\ QueueStep
    BY <1>5, ApplyNextRefines
  <1>6. ASSUME NEW r \in Replica, NEW from \in Replica, LoadSnapshot(r, from)
        PROVE  EffectsFit' /\ SessionsRemember' /\ QueueStep
    BY <1>6, CallsAndLogKept DEF LoadSnapshot
  <1>7. CASE UNCHANGED sessionVars
    BY <1>7, CallsAndLogKept DEF sessionVars
  <1> QED
    BY <1>1, <1>2, <1>3, <1>4, <1>5, <1>6, <1>7 DEF Next

\* With no calls and no log there is nothing to show.
LEMMA QueueInit == Init => Q!Init
  <1> SUFFICES ASSUME Init PROVE Q!Init
    OBVIOUS
  <1>1. Now = New
    BY DEF Init, Now, ReplayedTo
  <1>2. Now.queue = <<>> /\ Now.nowPlaying = None
    BY <1>1 DEF New
  <1>3. \A c \in Client : calls[c] = <<>> /\ Len(calls[c]) = 0
    BY DEF Init
  <1>4. CallsOf(calls) = {}
    BY <1>3, CallsAre
  <1>5. AskedFor = [c \in Client |-> <<>>]
    <2>1. \A c \in Client : 1..Len(calls[c]) = {}
      BY <1>3
    <2>2. \A c \in Client : [s \in 1..Len(calls[c]) |-> calls[c][s].cmd] = <<>>
      BY <2>1
    <2> QED
      BY <2>2 DEF AskedFor
  <1>6. OutcomesOf(calls) = <<>> /\ AnswersOf(calls) = <<>>
    BY <1>4 DEF OutcomesOf, AnswersOf
  <1> QED
    BY <1>2, <1>5, <1>6, ViewsAre DEF Q!Init

\* Where clients may have one call under way, a new call follows one that has
\* been answered or given up (Client.do).
LEMMA LastOpenNext ==
  ASSUME MaxOutstanding = 1, SessionsInv, LastOpen, [Next]_sessionVars
  PROVE  LastOpen'
  <1>0. \A d \in Client : IsSeq(calls[d]) /\ Len(calls[d]) \in Nat
    BY LengthsAreNat DEF SessionsInv, CallsFit
  <1>1. ASSUME NEW c \in Client, NEW s \in 1..Len(calls[c]), ButFor(calls, calls', c, s),
               calls'[c][s].phase = "open" => calls[c][s].phase = "open"
        PROVE  LastOpen'
    BY <1>1 DEF LastOpen, ButFor
  <1>2. CASE UNCHANGED calls
    BY <1>2 DEF LastOpen
  <1>3. ASSUME NEW c \in Client, NEW cmd \in Command, Call(c, cmd)
        PROVE  LastOpen'
    <2>1. PICK n \in Nat : n = Len(calls[c])
      BY <1>0
    <2>2. Outstanding(c) = {}
      <3>1. IsFiniteSet(1..n)
        BY <2>1, FS_Interval
      <3>2. IsFiniteSet(Outstanding(c))
        BY <2>1, <3>1, FS_Subset DEF Outstanding
      <3>3. Cardinality(Outstanding(c)) \in Nat /\ Cardinality(Outstanding(c)) < 1
        BY <1>3, <3>2, FS_CardinalityType DEF Call
      <3> QED
        BY <3>2, <3>3, FS_EmptySet
    <2>3. \A s \in 1..n : calls[c][s].phase # "open"
      BY <2>1, <2>2 DEF Outstanding
    <2>4. PICK r : calls' = [calls EXCEPT ![c] = Append(@, r)]
      BY <1>3 DEF Call
    <2>5. /\ Len(Append(calls[c], r)) = n + 1
          /\ \A s \in 1..n : Append(calls[c], r)[s] = calls[c][s]
      BY <1>0, <2>1, AppendAny
    <2>6. /\ calls'[c] = Append(calls[c], r)
          /\ \A d \in Client : d # c => calls'[d] = calls[d]
      <3>1. calls = [d \in Client |-> calls[d]]
        BY DEF SessionsInv, CallsFit
      <3> QED
        BY <2>4, <3>1
    <2>7. ASSUME NEW s \in 1..Len(calls'[c]), calls'[c][s].phase = "open"
          PROVE  s = Len(calls'[c])
      BY <2>1, <2>3, <2>5, <2>6, <2>7
    <2> QED
      BY <2>6, <2>7 DEF LastOpen
  <1>4. ASSUME NEW c \in Client, NEW s \in 1..Len(calls[c]),
               Retry(c, s) \/ GiveUp(c, s) \/ Commit(c, s)
        PROVE  LastOpen'
    <2>1. \/ \E x : calls' = SetCount(calls, c, s, x)
          \/ calls' = SetPhase(calls, c, s, "failed")
          \/ \E x : calls' = SetEffect(calls, c, s, x)
      BY <1>4 DEF Retry, GiveUp, Commit, SetCount, SetPhase, SetEffect
    <2>2. /\ ButFor(calls, calls', c, s)
          /\ calls'[c][s].phase = "open" => calls[c][s].phase = "open"
      BY <2>1, WrittenIs
    <2> QED
      BY <1>1, <2>2
  <1>5. ASSUME NEW r \in Replica, ApplyNext(r)
        PROVE  LastOpen'
    <2>1. CASE UNCHANGED calls
      BY <1>2, <2>1
    <2>2. CASE ~UNCHANGED calls
      <3>1. PICK cmd : cmd = log[applied[r] + 1]
        OBVIOUS
      <3>2. PICK x : x = Apply(st[r], cmd).res
        OBVIOUS
      <3>3. PICK c, s : c = cmd.client /\ s = cmd.seq
        OBVIOUS
      <3>4. cmd # Noop /\ calls' = SetAnswer(calls, c, s, "done", x)
        BY <1>5, <2>2, <3>1, <3>2, <3>3 DEF ApplyNext, SetAnswer
      <3>5. c \in Client /\ s \in 1..Len(calls[c])
        <4>1. PICK n \in Nat : n = Len(log)
          BY LengthsAreNat
        <4>2. PICK i : i = applied[r] + 1
          OBVIOUS
        <4>3. i <= n
          BY <1>5, <4>1, <4>2 DEF ApplyNext
        <4>4. i \in 1..n
          BY <4>1, <4>2, <4>3 DEF SessionsInv, ReplicasFit
        <4> QED
          BY <3>1, <3>3, <3>4, <4>1, <4>2, <4>4 DEF SessionsInv, LogFits, IsCommand
      <3>6. ButFor(calls, calls', c, s) /\ calls'[c][s].phase = "done"
        BY <3>4, <3>5, WrittenIs
      <3> QED
        BY <1>1, <3>5, <3>6
    <2> QED
      BY <2>1, <2>2
  <1>6. CASE CommitNoop \/ \E r, from \in Replica : LoadSnapshot(r, from)
    BY <1>2, <1>6 DEF CommitNoop, LoadSnapshot
  <1>7. CASE UNCHANGED sessionVars
    BY <1>2, <1>7 DEF sessionVars
  <1> QED
    BY <1>3, <1>4, <1>5, <1>6, <1>7 DEF Next

\* At first there are no calls.
LEMMA LastOpenInit == Init => LastOpen
  BY DEF Init, LastOpen

\* Whatever proposals are retried, delayed and reordered, whatever snapshots
\* replicas load and however many calls of a client are under way (Apply,
\* Client.do, applyReady): no call takes effect twice or after a later one of its
\* client, and none is told anything but what it saw or a later one saw.
THEOREM SessionsImplementSessionModel == Spec => ImplementsSessionModel
  <1>1. Init => RefinementInv /\ Q!Init
    BY RefinementInit, QueueInit
  <1>2. RefinementInv /\ [Next]_sessionVars => RefinementInv' /\ [Q!SessionNext]_Q!queueVars
    BY RefinementNext DEF QueueStep
  <1> QED
    BY <1>1, <1>2, PTL DEF Spec, ImplementsSessionModel, Q!SessionSpec

\* The jukebox is linearizable and every call takes effect at most once (Apply,
\* Client.do, applyReady), as the chaos harness checks it (chaos/model.go), for
\* clients that make one call at a time, as those of the harness do. Of clients
\* that do not it is false.
THEOREM SerialClientsSeeTheQueue ==
  ASSUME MaxOutstanding = 1
  PROVE  Spec => ImplementsQueueModel
  <1>1. Init => RefinementInv /\ LastOpen /\ Q!Init
    BY RefinementInit, LastOpenInit, QueueInit
  <1>2. RefinementInv /\ LastOpen /\ [Next]_sessionVars
        => (RefinementInv /\ LastOpen)' /\ [Q!Next]_Q!queueVars
    BY RefinementNext, LastOpenNext DEF QueueStep, RefinementInv
  <1> QED
    BY <1>1, <1>2, PTL DEF Spec, ImplementsQueueModel, Q!Spec

=============================================================================
