--------------------------- MODULE RaftInvariant ----------------------------
(***************************************************************************)
(* The inductive invariant behind the safety of module Raft, when the      *)
(* store works: what logs, requests, votes and acknowledgements have to do *)
(* with each other in every reachable state; what follows from it in one   *)
(* state; and that a step which changes logs, requests, votes and          *)
(* acknowledgements in certain ways preserves it. Which action makes which *)
(* change is the matter of RaftHandlers.                                   *)
(*                                                                         *)
(* A node's log is seen as a function from all its indices, compacted ones *)
(* included, to terms; a request in flight carries a piece of such a log.  *)
(* The heart is Secured: an entry that no future leader can lack. Votes in *)
(* flight, requests in flight and acknowledgements in flight are part of   *)
(* what it says, because any of them may be handled much later.            *)
(***************************************************************************)
EXTENDS Raft, SequenceTheorems, FiniteSetTheorems, WellFoundedInduction, TLAPS

-----------------------------------------------------------------------------
(***************************************************************************)
(* Logs and pieces of logs as functions from indices to the terms of the   *)
(* entries: what it means that two of them belong to one history, and that *)
(* this survives what the handlers of internal/raft do to a log: append an *)
(* entry, cut a suffix off, replace a suffix by the entries of a message.  *)
(***************************************************************************)
\* e is g, or what is left of g.
PartOf(e, g) == DOMAIN e \subseteq DOMAIN g /\ \A x \in DOMAIN e : e[x] = g[x]

\* Terms never fall along a log.
Ascending(e) == \A i, j \in DOMAIN e : i <= j => e[i] <= e[j]

\* Log matching for two logs, and a little more: if e has at i the term that g
\* has at i or later, g has that term from i on, and both agree up to i. (An
\* entry of a term is never written below the first entry of that term.)
Coheres(e, g) ==
    \A i \in DOMAIN e, j \in DOMAIN g :
       e[i] = g[j] /\ i <= j =>
          /\ \A y \in DOMAIN g : i <= y /\ y <= j => g[y] = e[i]
          /\ \A x \in DOMAIN e \cap DOMAIN g : x <= i => e[x] = g[x]

\* Whatever e holds from after the entry of term t at index k, e was written on
\* top of that entry.
CoverIn(e, k, t) ==
    \A j \in DOMAIN e :
       (e[j] > t \/ (e[j] = t /\ j >= k)) =>
          /\ k <= j
          /\ \A y \in DOMAIN e : k <= y /\ y <= j => e[y] >= t /\ (y = k => e[y] = t)

\* e holds the entries lo..hi.
OnInterval(e, lo, hi) ==
    /\ lo \in Nat \ {0} /\ hi \in Nat
    /\ DOMAIN e = lo..hi
    /\ \A i \in lo..hi : e[i] \in Nat

\* new is a up to index K and continues as f, which agrees with a up to there.
SpliceOf(new, a, La, f, lo, hi, K) ==
    /\ K \in Nat /\ K <= La
    /\ lo = 1 \/ (lo <= K /\ lo <= hi)
    /\ DOMAIN new = 1 .. (IF hi > K THEN hi ELSE K)
    /\ \A i \in DOMAIN new : new[i] = IF i <= K THEN a[i] ELSE f[i]
    /\ \A i \in lo..hi : i <= K => a[i] = f[i]

\* new is a with one more entry, of term t.
GrownFrom(new, a, La, t) ==
    /\ La \in Nat
    /\ DOMAIN new = 1..La + 1
    /\ \A i \in 1..La : new[i] = a[i]
    /\ new[La + 1] = t

\* Nothing outside a holds an entry of term t that a does not.
OwnsIn(a, La, t, g) == \A i \in DOMAIN g : g[i] = t => i \in 1..La /\ a[i] = t

EP == INSTANCE ElectionProofs WITH lastPos <- LastPos

-----------------------------------------------------------------------------
(***************************************************************************)
(* Logs and pieces of logs.                                                *)
(***************************************************************************)

\* Some node has applied an entry at index i; its term.
Known(i)       == \E t \in 1..MaxTerm : <<i, t>> \in applied
AppliedTerm(i) == CHOOSE t \in 1..MaxTerm : <<i, t>> \in applied

\* The log of a node with what its snapshot covers.
FullLog(n) ==
    [i \in 1..lastIndex(n) |-> IF i <= snap[n].index THEN AppliedTerm(i) ELSE entryAt(n, i)]

Requests == {m \in msgs : m.type \in {"AE", "IS"}}
Replies  == (msgs \ Requests) \cup UNION {m.answered : m \in Requests}

\* The piece of its sender's log that a request carries: the previous entry and
\* the new ones, or everything under the snapshot.
FirstOf(m) == IF m.type = "AE" /\ m.prevIndex > 0 THEN m.prevIndex ELSE 1
LastOf(m)  == IF m.type = "AE" THEN LastNew(m) ELSE m.snap.index
Fragment(m) ==
    [i \in FirstOf(m)..LastOf(m) |->
        IF m.type = "IS" THEN AppliedTerm(i)
        ELSE IF i = m.prevIndex THEN m.prevTerm ELSE m.ents[i - m.prevIndex]]

Carriers == {FullLog(n) : n \in Node} \cup {Fragment(m) : m \in Requests}

\* Somebody has won the election of term t; n has won that of its own term. n
\* may have crashed since.
Won(t)     == \E v \in leaders : v.term = t
Crowned(n) == [node |-> n, term |-> currentTerm[n]] \in leaders

-----------------------------------------------------------------------------
(***************************************************************************)
(* Types and shapes.                                                       *)
(***************************************************************************)
Reply ==
    [type : {"AEReply"}, call : {"replicate"}, from : Node, to : Node, term : 1..MaxTerm,
     forTerm : 1..MaxTerm, success : BOOLEAN, match : Index,
     conflictIndex : 0..MaxIndex + 1, conflictTerm : E!Term, live : BOOLEAN]
    \cup
    [type : {"ISReply"}, call : {"replicate"}, from : Node, to : Node, term : 1..MaxTerm,
     forTerm : 1..MaxTerm, match : Index, live : BOOLEAN]
    \cup
    [type : {"TermReply"}, call : {"replicate"}, from : Node, to : Node, term : 1..MaxTerm,
     forTerm : 1..MaxTerm, live : BOOLEAN]

AppendRequest ==
    [type : {"AE"}, call : {"replicate"}, from : Node, to : Node, term : 1..MaxTerm,
     prevIndex : Index, prevTerm : E!Term, ents : Log, commit : Index, live : BOOLEAN,
     answered : SUBSET Reply]

SnapshotRequest ==
    [type : {"IS"}, call : {"replicate"}, from : Node, to : Node, term : 1..MaxTerm,
     snap : Snap, live : BOOLEAN, answered : {{}}]

\* A snapshot of applied entries.
SnapFits(s) ==
    /\ s.index = 0 <=> s.term = 0
    /\ s.index > 0 => <<s.index, s.term>> \in applied
    /\ \A i \in 1..s.index : Known(i)

\* What is on disk is what is in memory; entries under the snapshot may linger.
DiskFits(n) ==
    /\ disk[n].snap = snap[n]
    /\ {i \in DOMAIN disk[n].log : i > snap[n].index} = Held(n)
    /\ \A i \in Held(n) : disk[n].log[i] = entryAt(n, i)

NodeFits(n) ==
    /\ lastIndex(n) <= MaxIndex
    /\ SnapFits(snap[n])
    /\ DiskFits(n)
    /\ \A i \in 1..lastApplied[n] : <<i, FullLog(n)[i]>> \in applied

\* Every node has its own store.
Stores == disk = [n \in Node |-> [log |-> disk[n].log, snap |-> disk[n].snap]]

NodesFit == Stores /\ StateMachineSafety /\ \A n \in Node : NodeFits(n)

\* A request comes from the winner of its term; its entries end with one of
\* that term, or are applied.
RequestFits(m) ==
    /\ m \in AppendRequest \cup SnapshotRequest
    /\ m.from # m.to
    /\ [node |-> m.from, term |-> m.term] \in leaders
    /\ m.type = "AE" =>
         /\ m.prevIndex = 0 <=> m.prevTerm = 0
         /\ LastNew(m) \in 1..MaxIndex
         /\ Fragment(m)[LastNew(m)] = m.term
         /\ m.commit <= LastNew(m)
         /\ \A r \in m.answered : r.from = m.to /\ r.to = m.from /\ r.forTerm = m.term
    /\ m.type = "IS" =>
         /\ SnapFits(m.snap)
         /\ m.snap.term <= m.term
         /\ m.term = currentTerm[m.from] => m.snap.index <= snap[m.from].index

RequestsFit ==
    /\ msgs \subseteq AppendRequest \cup SnapshotRequest \cup Reply
    /\ \A m \in Requests : RequestFits(m)
    /\ \A r \in Replies : [node |-> r.to, term |-> r.forTerm] \in leaders /\ r.from # r.to

-----------------------------------------------------------------------------
(***************************************************************************)
(* One history.                                                            *)
(***************************************************************************)

\* Terms ascend along every log, come from elections that were won, and are
\* not ahead of the node.
TermsSound ==
    /\ \A e \in Carriers : Ascending(e) /\ \A i \in DOMAIN e : Won(e[i])
    /\ \A n \in Node : \A i \in DOMAIN FullLog(n) : FullLog(n)[i] <= currentTerm[n]

Coherent == \A e, g \in Carriers : Coheres(e, g)

\* The winner of a term has all its entries.
WinnersOwn ==
    \A l \in Node : Crowned(l) =>
        /\ lastTerm(l) = currentTerm[l]
        /\ \A e \in Carriers : OwnsIn(FullLog(l), lastIndex(l), currentTerm[l], e)

-----------------------------------------------------------------------------
(***************************************************************************)
(* Secured entries.                                                        *)
(***************************************************************************)

\* A log that ends at pos ends at or after the entry of term t at index k.
Past(pos, k, t) == pos.term > t \/ (pos.term = t /\ pos.index >= k)

\* Every log that ends after that entry holds it.
Covers(k, t) == \A e \in Carriers : CoverIn(e, k, t)

\* One term more than there are elections.
Epoch == 0..MaxTerm + 1

\* v gives no more votes in term u to a candidate that lacks the entry, and the
\* votes it has given went to none.
Shields(v, u, k, t) ==
    /\ currentTerm[v] > u \/ Past(LastPos[v], k, t)
    /\ \A c \in Node : EP!Held(v, u, c) /\ currentTerm[c] = u => Past(LastPos[c], k, t)

Protected(k, t, u) ==
    \E Q \in SUBSET Node : EP!IsQuorum(Q) /\ \A v \in Q : Shields(v, u, k, t)

\* Nobody wins a later term without the entry.
Secured(k, t) ==
    /\ k \in 1..MaxIndex /\ t \in 1..MaxTerm
    /\ Covers(k, t)
    /\ \A u \in Epoch : u > t /\ ~Won(u) => Protected(k, t, u)

-----------------------------------------------------------------------------
(***************************************************************************)
(* Acknowledgements.                                                       *)
(***************************************************************************)
Accepting(r) == r.type = "ISReply" \/ (r.type = "AEReply" /\ r.success)

\* p has told l, or is telling it, that it holds l's log up to i.
Acked(l, p, i) ==
    \/ matchIndex[l][p] >= i
    \/ \E r \in Replies : /\ Accepting(r)
                          /\ r.from = p /\ r.to = l /\ r.forTerm = currentTerm[l]
                          /\ r.match >= i

\* p still holds what it acknowledged, while it is in the leader's term.
AcksHold ==
    \A l, p \in Node : Crowned(l) =>
        /\ \A i \in 1..MaxIndex : Acked(l, p, i) =>
              i <= lastIndex(l) /\ currentTerm[p] >= currentTerm[l] /\ p # l
        /\ p # l /\ currentTerm[p] <= currentTerm[l] =>
              \A i \in 1..MaxIndex : i >= snap[l].index /\ Acked(l, p, i) =>
                  i <= lastIndex(p) /\ FullLog(p)[i] = FullLog(l)[i]

\* Too many nodes have moved on for l ever to commit its entry at k.
Blocked(l, k) ==
    \E Q \in SUBSET Node :
        /\ EP!IsQuorum(Q)
        /\ \A v \in Q : currentTerm[v] > currentTerm[l] /\ ~Acked(l, v, k)

\* Each node that acknowledged the entry shields it, or a majority does.
Backers(l, k) == {l} \cup {p \in Node : Acked(l, p, k)}
Guarded(l, k, t) ==
    /\ Covers(k, t)
    /\ \A u \in Epoch : u > t /\ ~Won(u) =>
          (\A v \in Backers(l, k) : Shields(v, u, k, t)) \/ Protected(k, t, u)

AcksSecure ==
    \A l \in Node, t \in 1..MaxTerm : Crowned(l) /\ currentTerm[l] = t =>
        \A k \in 1..lastIndex(l) : FullLog(l)[k] = t =>
            Blocked(l, k) \/ Guarded(l, k, t)

-----------------------------------------------------------------------------
(***************************************************************************)
(* What is committed, anywhere, is secured.                                *)
(***************************************************************************)
SecuredAt(n, k) == \E t \in 1..MaxTerm : FullLog(n)[k] = t /\ Secured(k, t)

RequestSecured(m) ==
    IF m.type = "AE"
    THEN m.commit > 0 => \E t \in 1..m.term : Secured(m.commit, t)
    ELSE m.snap.index > 0 => Secured(m.snap.index, m.snap.term)

CommitsSecured ==
    /\ \A n \in Node : \A k \in 1..MaxIndex :
         commitIndex[n] = k \/ snap[n].index = k => SecuredAt(n, k)
    /\ \A m \in Requests : RequestSecured(m)

\* The entry of term u at index i lies under a secured entry in every log that
\* holds that.
Settled(i, u) ==
    \E k \in 1..MaxIndex, t \in 1..MaxTerm :
        /\ i \in 1..k /\ Secured(k, t)
        /\ \A n \in Node : k \in DOMAIN FullLog(n) /\ FullLog(n)[k] = t => FullLog(n)[i] = u

AppliedSettled == \A a \in applied : Settled(a[1], a[2])

-----------------------------------------------------------------------------
Elections == EP!SafetyInv /\ EP!ClaimsInv
Histories == TermsSound /\ Coherent /\ WinnersOwn
Commits   == AcksHold /\ AcksSecure /\ CommitsSecured /\ AppliedSettled

RaftInv ==
    /\ TypeOK /\ Elections /\ NodesFit /\ RequestsFit /\ IndicesInLog
    /\ Histories /\ Commits

-----------------------------------------------------------------------------
\* What belongs to one history still does after a cut.
LEMMA CohPart ==
  ASSUME NEW e, NEW g, NEW e1, NEW g1, Coheres(e, g), PartOf(e1, e), PartOf(g1, g)
  PROVE Coheres(e1, g1)
  BY DEF Coheres, PartOf

\* A part of what is written on top of an entry is.
LEMMA CoverPart ==
  ASSUME NEW g, NEW g1, NEW k, NEW t, CoverIn(g, k, t), PartOf(g1, g)
  PROVE CoverIn(g1, k, t)
  BY DEF CoverIn, PartOf

\* A part of an ascending log ascends.
LEMMA SortedPart ==
  ASSUME NEW g, NEW g1, Ascending(g), PartOf(g1, g)
  PROVE Ascending(g1)
  BY DEF Ascending, PartOf

\* An index on each side of the seam: the seam is in both logs.
LEMMA SpliceAnchor ==
  ASSUME NEW new, NEW a, NEW La, NEW f, NEW lo, NEW hi, NEW K,
         OnInterval(a, 1, La), OnInterval(f, lo, hi), SpliceOf(new, a, La, f, lo, hi, K),
         NEW i \in DOMAIN new, NEW j \in DOMAIN new, i <= K, K < j
  PROVE  /\ i \in DOMAIN a /\ K \in DOMAIN a /\ K \in DOMAIN f /\ j \in DOMAIN f
         /\ new[i] = a[i] /\ new[j] = f[j] /\ a[K] = f[K]
         /\ i \in Nat /\ j \in Nat /\ K \in Nat
  BY DEF OnInterval, SpliceOf

\* Each entry of a splice comes from one of the two logs.
LEMMA SpliceParts ==
  ASSUME NEW new, NEW a, NEW La, NEW f, NEW lo, NEW hi, NEW K,
         OnInterval(a, 1, La), OnInterval(f, lo, hi), SpliceOf(new, a, La, f, lo, hi, K)
  PROVE  \A i \in DOMAIN new :
           /\ i \in Nat
           /\ i <= K => i \in DOMAIN a /\ new[i] = a[i]
           /\ i > K  => i \in DOMAIN f /\ new[i] = f[i]
           /\ (i \in DOMAIN f) => new[i] = f[i]
           /\ i > K => \A y \in DOMAIN new : y <= K => K \in DOMAIN a /\ K \in DOMAIN f /\ a[K] = f[K]
  BY DEF OnInterval, SpliceOf

\* A splice ascends.
LEMMA SpliceSorted ==
  ASSUME NEW new, NEW a, NEW La, NEW f, NEW lo, NEW hi, NEW K,
         OnInterval(a, 1, La), OnInterval(f, lo, hi), SpliceOf(new, a, La, f, lo, hi, K),
         Ascending(a), Ascending(f)
  PROVE Ascending(new)
  <1> SUFFICES ASSUME NEW i \in DOMAIN new, NEW j \in DOMAIN new, i <= j
               PROVE new[i] <= new[j]
    BY DEF Ascending
  <1>0. K \in Nat /\ i \in Nat /\ j \in Nat /\ DOMAIN a = 1..La /\ DOMAIN f = lo..hi
        /\ La \in Nat /\ lo \in Nat /\ hi \in Nat
        /\ (\A x \in DOMAIN a : a[x] \in Nat) /\ (\A x \in DOMAIN f : f[x] \in Nat)
    BY SpliceParts DEF SpliceOf, OnInterval
  <1>1. CASE j <= K
    BY <1>1, <1>0, SpliceParts DEF Ascending
  <1>2. CASE i > K
    BY <1>2, <1>0, SpliceParts DEF Ascending
  <1>3. CASE i <= K /\ K < j
    <2>1. /\ i \in DOMAIN a /\ K \in DOMAIN a /\ K \in DOMAIN f /\ j \in DOMAIN f
          /\ new[i] = a[i] /\ new[j] = f[j] /\ a[K] = f[K]
      BY <1>3, SpliceAnchor
    <2>2. a[i] <= a[K] /\ f[K] <= f[j]
      BY <2>1, <1>3, <1>0 DEF Ascending
    <2> QED BY <2>1, <2>2, <1>0
  <1> QED BY <1>1, <1>2, <1>3, <1>0

\* A splice of logs written on top of an entry is written on top of it.
LEMMA SpliceCover ==
  ASSUME NEW new, NEW a, NEW La, NEW f, NEW lo, NEW hi, NEW K,
         OnInterval(a, 1, La), OnInterval(f, lo, hi), SpliceOf(new, a, La, f, lo, hi, K),
         NEW k \in Nat, NEW t \in Nat, CoverIn(a, k, t), CoverIn(f, k, t)
  PROVE CoverIn(new, k, t)
  <1> SUFFICES ASSUME NEW j \in DOMAIN new, new[j] > t \/ (new[j] = t /\ j >= k)
               PROVE  /\ k <= j
                      /\ \A y \in DOMAIN new : k <= y /\ y <= j => new[y] >= t /\ (y = k => new[y] = t)
    BY DEF CoverIn
  <1>0. K \in Nat /\ (\A x \in DOMAIN a : a[x] \in Nat) /\ (\A x \in DOMAIN f : f[x] \in Nat)
    BY DEF SpliceOf, OnInterval
  <1>1. CASE j <= K
    <2>1. j \in DOMAIN a /\ new[j] = a[j]
      BY <1>1, SpliceParts
    <2>2. \A y \in DOMAIN new : y <= j => y \in DOMAIN a /\ new[y] = a[y]
      BY <1>0, <1>1, SpliceParts
    <2> QED BY <2>1, <2>2 DEF CoverIn
  <1>2. CASE j > K
    <2>1. j \in DOMAIN f /\ new[j] = f[j] /\ j \in Nat
      BY <1>2, SpliceParts
    <2>2. k <= j
      BY <2>1 DEF CoverIn
    <2>3. ASSUME NEW y \in DOMAIN new, k <= y, y <= j
          PROVE new[y] >= t /\ (y = k => new[y] = t)
      <3>1. CASE y > K
        BY <2>1, <2>3, <3>1, SpliceParts DEF CoverIn
      <3>2. CASE y <= K
        <4>1. /\ y \in DOMAIN a /\ K \in DOMAIN a /\ K \in DOMAIN f
              /\ new[y] = a[y] /\ a[K] = f[K] /\ y \in Nat
          BY <1>2, <3>2, SpliceAnchor
        <4>2. k <= K /\ K <= j
          BY <1>0, <1>2, <2>1, <2>3, <3>2, <4>1
        <4>3. f[K] >= t
          BY <2>1, <4>1, <4>2 DEF CoverIn
        <4>4. a[K] > t \/ (a[K] = t /\ K >= k)
          BY <1>0, <4>1, <4>2, <4>3
        <4> QED
          BY <4>1, <4>4, <3>2, <2>3 DEF CoverIn
      <3> QED BY <1>0, <3>1, <3>2, SpliceParts
    <2> QED BY <2>2, <2>3
  <1> QED BY <1>0, <1>1, <1>2, SpliceParts

\* A splice belongs to the history its two logs belong to.
LEMMA SpliceCohLeft ==
  ASSUME NEW new, NEW a, NEW La, NEW f, NEW lo, NEW hi, NEW K,
         OnInterval(a, 1, La), OnInterval(f, lo, hi), SpliceOf(new, a, La, f, lo, hi, K),
         NEW g, NEW l2, NEW h2, OnInterval(g, l2, h2),
         Coheres(a, g), Coheres(f, g)
  PROVE Coheres(new, g)
  <1> SUFFICES ASSUME NEW i \in DOMAIN new, NEW j \in DOMAIN g, new[i] = g[j], i <= j
               PROVE  /\ \A y \in DOMAIN g : i <= y /\ y <= j => g[y] = new[i]
                      /\ \A x \in DOMAIN new \cap DOMAIN g : x <= i => new[x] = g[x]
    BY DEF Coheres
  <1>0. K \in Nat /\ i \in Nat /\ j \in Nat /\ DOMAIN g = l2..h2 /\ l2 \in Nat /\ h2 \in Nat
    BY SpliceParts DEF SpliceOf, OnInterval
  <1>1. CASE i <= K
    <2>1. i \in DOMAIN a /\ new[i] = a[i]
      BY <1>1, SpliceParts
    <2>2. \A x \in DOMAIN new : x <= i => x \in DOMAIN a /\ new[x] = a[x]
      BY <1>0, <1>1, SpliceParts
    <2>3. /\ \A y \in DOMAIN g : i <= y /\ y <= j => g[y] = a[i]
          /\ \A x \in DOMAIN a \cap DOMAIN g : x <= i => a[x] = g[x]
      BY <2>1 DEF Coheres
    <2> QED BY <2>1, <2>2, <2>3
  <1>2. CASE i > K
    <2>1. i \in DOMAIN f /\ new[i] = f[i]
      BY <1>2, SpliceParts
    <2>a. /\ \A y \in DOMAIN g : i <= y /\ y <= j => g[y] = new[i]
          /\ \A x \in DOMAIN f \cap DOMAIN g : x <= i => f[x] = g[x]
      BY <2>1 DEF Coheres
    <2>2. ASSUME NEW x \in DOMAIN new \cap DOMAIN g, x <= i
          PROVE new[x] = g[x]
      <3>1. CASE x > K
        <4>1. x \in DOMAIN f /\ new[x] = f[x]
          BY <3>1, SpliceParts
        <4> QED
          BY <2>a, <2>2, <4>1
      <3>2. CASE x <= K
        <4>1. /\ x \in DOMAIN a /\ K \in DOMAIN a /\ K \in DOMAIN f
              /\ new[x] = a[x] /\ a[K] = f[K] /\ x \in Nat
          BY <1>2, <3>2, SpliceAnchor
        <4>2. K \in DOMAIN g
          BY <1>0, <1>2, <4>1, <3>2
        <4>3. f[K] = g[K]
          BY <1>0, <1>2, <2>a, <4>1, <4>2
        <4>4. a[K] = g[K]
          BY <4>1, <4>3
        <4>5. a[x] = g[x]
          BY <1>0, <4>1, <4>2, <4>4, <3>2 DEF Coheres
        <4> QED
          BY <4>1, <4>5
      <3>3. x \in Nat
        BY SpliceParts
      <3> QED BY <1>0, <3>1, <3>2, <3>3
    <2> QED BY <2>a, <2>2
  <1> QED BY <1>0, <1>1, <1>2

\* And the other way round.
LEMMA SpliceCohRight ==
  ASSUME NEW new, NEW a, NEW La, NEW f, NEW lo, NEW hi, NEW K,
         OnInterval(a, 1, La), OnInterval(f, lo, hi), SpliceOf(new, a, La, f, lo, hi, K),
         NEW g, NEW l2, NEW h2, OnInterval(g, l2, h2),
         Coheres(g, a), Coheres(g, f)
  PROVE Coheres(g, new)
  <1> SUFFICES ASSUME NEW i \in DOMAIN g, NEW j \in DOMAIN new, g[i] = new[j], i <= j
               PROVE  /\ \A y \in DOMAIN new : i <= y /\ y <= j => new[y] = g[i]
                      /\ \A x \in DOMAIN g \cap DOMAIN new : x <= i => g[x] = new[x]
    BY DEF Coheres
  <1>0. K \in Nat /\ i \in Nat /\ j \in Nat /\ DOMAIN g = l2..h2 /\ l2 \in Nat /\ h2 \in Nat
    BY SpliceParts DEF SpliceOf, OnInterval
  <1>1. CASE j <= K
    <2>1. j \in DOMAIN a /\ new[j] = a[j]
      BY <1>1, SpliceParts
    <2>2. \A x \in DOMAIN new : x <= j => x \in DOMAIN a /\ new[x] = a[x]
      BY <1>0, <1>1, SpliceParts
    <2>3. \A x \in DOMAIN new : x <= i => x <= j
      BY <1>0, SpliceParts
    <2> QED BY <2>1, <2>2, <2>3 DEF Coheres
  <1>2. CASE j > K
    <2>1. j \in DOMAIN f /\ new[j] = f[j]
      BY <1>2, SpliceParts
    <2>a. ASSUME NEW y \in DOMAIN new, y <= K, i <= K
          PROVE K \in DOMAIN a /\ a[K] = g[i]
      <3>1. K \in DOMAIN a /\ K \in DOMAIN f /\ a[K] = f[K]
        BY <1>2, <2>a, SpliceAnchor
      <3>2. f[K] = g[i]
        BY <1>0, <1>2, <2>1, <2>a, <3>1 DEF Coheres
      <3> QED BY <3>1, <3>2
    <2>2. ASSUME NEW y \in DOMAIN new, i <= y, y <= j
          PROVE new[y] = g[i]
      <3>1. CASE y > K
        BY <2>1, <2>2, <3>1, SpliceParts DEF Coheres
      <3>2. CASE y <= K
        <4>1. K \in DOMAIN a /\ a[K] = g[i] /\ i <= K /\ y \in DOMAIN a /\ new[y] = a[y]
          BY <1>0, <2>2, <2>a, <3>2, SpliceParts
        <4> QED
          BY <4>1, <2>2, <3>2 DEF Coheres
      <3> QED BY <1>0, <3>1, <3>2, SpliceParts
    <2>3. ASSUME NEW x \in DOMAIN g \cap DOMAIN new, x <= i
          PROVE g[x] = new[x]
      <3>1. CASE x > K
        BY <2>1, <2>3, <3>1, SpliceParts DEF Coheres
      <3>2. CASE x <= K /\ i <= K
        <4>1. K \in DOMAIN a /\ a[K] = g[i] /\ x \in DOMAIN a /\ new[x] = a[x]
          BY <2>3, <2>a, <3>2, SpliceParts
        <4> QED
          BY <4>1, <2>3, <3>2 DEF Coheres
      <3>3. CASE x <= K /\ i > K
        <4>1. /\ x \in DOMAIN a /\ K \in DOMAIN a /\ K \in DOMAIN f
              /\ new[x] = a[x] /\ a[K] = f[K] /\ x \in Nat
          BY <1>2, <3>3, SpliceAnchor
        <4>2. K \in DOMAIN g
          BY <1>0, <3>3, <4>1
        <4>3. g[K] = f[K]
          BY <1>0, <2>1, <3>3, <4>1, <4>2 DEF Coheres
        <4> QED
          BY <1>0, <4>1, <4>2, <4>3, <3>3 DEF Coheres
      <3> QED BY <1>0, <3>1, <3>2, <3>3, SpliceParts
    <2> QED BY <2>2, <2>3
  <1> QED BY <1>0, <1>1, <1>2, SpliceParts

\* The first conflict lies above every entry that f was written on top of.
LEMMA SpliceKeeps ==
  ASSUME NEW a, NEW La, NEW f, NEW lo, NEW hi, NEW K,
         OnInterval(a, 1, La), OnInterval(f, lo, hi), Coheres(f, a),
         K \in Nat, K + 1 \in lo..hi, K + 1 \in 1..La, a[K + 1] # f[K + 1],
         NEW k \in 1..La, CoverIn(f, k, a[k]), a[k] <= f[hi]
  PROVE  k <= K
  <1> SUFFICES ASSUME K + 1 <= k PROVE FALSE
    BY DEF OnInterval
  <1>0. /\ k \in Nat /\ a[k] \in Nat /\ hi \in DOMAIN f /\ f[hi] \in Nat /\ hi \in Nat /\ lo \in Nat
        /\ k \in DOMAIN a /\ K + 1 \in DOMAIN f /\ K + 1 \in DOMAIN a
        /\ DOMAIN f = lo..hi
    BY DEF OnInterval
  <1>1. CASE k <= hi
    <2>1. k \in DOMAIN f
      BY <1>0, <1>1
    <2>2. f[k] = a[k]
      BY <1>0, <1>1, <2>1 DEF CoverIn
    <2> QED
      BY <1>0, <2>1, <2>2 DEF Coheres
  <1>2. CASE hi < k
    <2>1. ~(f[hi] > a[k])
      BY <1>0, <1>2 DEF CoverIn
    <2>2. f[hi] = a[k]
      BY <1>0, <2>1
    <2> QED
      BY <1>0, <1>2, <2>2 DEF Coheres
  <1> QED BY <1>0, <1>1, <1>2

\* The entries of a log that has grown.
LEMMA GrownParts ==
    ASSUME NEW new, NEW a, NEW La, NEW t, OnInterval(a, 1, La), GrownFrom(new, a, La, t),
           t \in Nat
    PROVE  /\ OnInterval(new, 1, La + 1)
           /\ PartOf(a, new)
           /\ \A i \in DOMAIN new : (i \in DOMAIN a /\ new[i] = a[i] /\ i <= La) \/ (i = La + 1 /\ new[i] = t)
  <1>1. DOMAIN a = 1..La /\ La \in Nat /\ DOMAIN new = 1..La + 1
    BY DEF OnInterval, GrownFrom
  <1> QED BY <1>1 DEF OnInterval, GrownFrom, PartOf

\* A log that grows by an entry of the newest term ascends.
LEMMA GrownAscending ==
    ASSUME NEW new, NEW a, NEW La, NEW t, OnInterval(a, 1, La), GrownFrom(new, a, La, t),
           t \in Nat, Ascending(a), \A i \in 1..La : a[i] <= t
    PROVE  Ascending(new)
  <1>1. /\ DOMAIN a = 1..La /\ La \in Nat /\ DOMAIN new = 1..La + 1 
        /\ \A i \in 1..La : new[i] = a[i] /\ a[i] \in Nat
        /\ new[La + 1] = t
    BY DEF OnInterval, GrownFrom
  <1> QED BY <1>1 DEF Ascending

\* A log that grows by an entry of its own term stays in the history.
LEMMA GrownCohLeft ==
    ASSUME NEW new, NEW a, NEW La, NEW t, OnInterval(a, 1, La), GrownFrom(new, a, La, t),
           NEW g, NEW l2, NEW h2, OnInterval(g, l2, h2), Coheres(a, g), OwnsIn(a, La, t, g)
    PROVE  Coheres(new, g)
  <1>1. /\ DOMAIN a = 1..La /\ La \in Nat /\ DOMAIN new = 1..La + 1 
        /\ \A i \in 1..La : new[i] = a[i] /\ a[i] \in Nat
        /\ new[La + 1] = t /\ \A i \in DOMAIN g : i \in Nat
    BY DEF OnInterval, GrownFrom
  <1> SUFFICES ASSUME NEW i \in DOMAIN new, NEW j \in DOMAIN g, new[i] = g[j], i <= j
               PROVE  /\ \A y \in DOMAIN g : i <= y /\ y <= j => g[y] = new[i]
                      /\ \A x \in DOMAIN new \cap DOMAIN g : x <= i => new[x] = g[x]
    BY DEF Coheres
  <1>2. i \in DOMAIN a
    BY <1>1 DEF OwnsIn
  <1> QED
    BY <1>1, <1>2 DEF Coheres

\* And the other way round.
LEMMA GrownCohRight ==
    ASSUME NEW new, NEW a, NEW La, NEW t, OnInterval(a, 1, La), GrownFrom(new, a, La, t),
           NEW g, NEW l2, NEW h2, OnInterval(g, l2, h2), Coheres(g, a), OwnsIn(a, La, t, g),
           (\E i \in 1..La : a[i] = t) => a[La] = t
    PROVE  Coheres(g, new)
  <1>1. /\ DOMAIN a = 1..La /\ La \in Nat /\ DOMAIN new = 1..La + 1 
        /\ \A i \in 1..La : new[i] = a[i] /\ a[i] \in Nat
        /\ new[La + 1] = t /\ \A i \in DOMAIN g : i \in Nat
    BY DEF OnInterval, GrownFrom
  <1> SUFFICES ASSUME NEW i \in DOMAIN g, NEW j \in DOMAIN new, g[i] = new[j], i <= j
               PROVE  /\ \A y \in DOMAIN new : i <= y /\ y <= j => new[y] = g[i]
                      /\ \A x \in DOMAIN g \cap DOMAIN new : x <= i => g[x] = new[x]
    BY DEF Coheres
  <1>2. CASE j \in DOMAIN a
    BY <1>1, <1>2 DEF Coheres
  <1>3. CASE j = La + 1
    <2>1. i \in 1..La /\ a[i] = t /\ a[La] = t /\ La \in DOMAIN a
      BY <1>1, <1>3 DEF OwnsIn
    <2>2. /\ \A y \in DOMAIN a : i <= y /\ y <= La => a[y] = g[i]
          /\ \A x \in DOMAIN g \cap DOMAIN a : x <= i => g[x] = a[x]
      BY <1>1, <1>3, <2>1 DEF Coheres
    <2> QED
      BY <1>1, <1>3, <2>1, <2>2
  <1> QED BY <1>1, <1>2, <1>3

\* The grown log belongs to one history with itself.
LEMMA GrownCohSelf ==
    ASSUME NEW new, NEW a, NEW La, NEW t, OnInterval(a, 1, La), GrownFrom(new, a, La, t),
           Coheres(a, a), Ascending(a), (\E i \in 1..La : a[i] = t) => a[La] = t, t \in Nat
    PROVE  Coheres(new, new)
  <1>1. /\ DOMAIN a = 1..La /\ La \in Nat /\ DOMAIN new = 1..La + 1 
        /\ \A i \in 1..La : new[i] = a[i] /\ a[i] \in Nat
        /\ new[La + 1] = t
    BY DEF OnInterval, GrownFrom
  <1> SUFFICES ASSUME NEW i \in DOMAIN new, NEW j \in DOMAIN new, new[i] = new[j], i <= j,
                      NEW y \in DOMAIN new, i <= y, y <= j
               PROVE  new[y] = new[i]
    BY DEF Coheres
  <1>2. CASE j \in 1..La
    BY <1>1, <1>2 DEF Ascending
  <1>3. CASE j = La + 1 /\ i \in 1..La
    <2>1. a[La] = t
      BY <1>1, <1>3
    <2> QED
      BY <1>1, <1>3, <2>1 DEF Ascending
  <1>4. CASE i = La + 1
    BY <1>1, <1>4
  <1> QED BY <1>1, <1>2, <1>3, <1>4

\* The new entry lies above every covered one that its term reaches.
\* A log that grows by an entry of a newer term is still written on top.
LEMMA GrownCover ==
    ASSUME NEW new, NEW a, NEW La, NEW t, OnInterval(a, 1, La), GrownFrom(new, a, La, t), t \in Nat,
           NEW k \in Nat \ {0}, NEW u \in Nat, CoverIn(a, k, u),
           t > u => La >= 1 /\ (a[La] > u \/ (a[La] = u /\ La >= k)),
           t = u => k > La \/ a[La] = u
    PROVE  CoverIn(new, k, u)
  <1>1. /\ DOMAIN a = 1..La /\ La \in Nat /\ DOMAIN new = 1..La + 1 
        /\ \A i \in 1..La : new[i] = a[i] /\ a[i] \in Nat
        /\ new[La + 1] = t
    BY DEF OnInterval, GrownFrom
  <1> SUFFICES ASSUME NEW j \in DOMAIN new, new[j] > u \/ (new[j] = u /\ j >= k)
               PROVE  /\ k <= j
                      /\ \A y \in DOMAIN new : k <= y /\ y <= j => new[y] >= u /\ (y = k => new[y] = u)
    BY DEF CoverIn
  <1>2. CASE j \in 1..La
    BY <1>1, <1>2 DEF CoverIn
  <1>3. CASE j = La + 1
    <2>1. CASE t = u /\ k > La
      BY <1>1, <1>3, <2>1
    <2>2. CASE ~(t = u /\ k > La)
      <3>1. La \in 1..La /\ (a[La] > u \/ (a[La] = u /\ La >= k))
        BY <1>1, <1>3, <2>2
      <3>2. k <= La /\ \A y \in DOMAIN a : k <= y /\ y <= La => a[y] >= u /\ (y = k => a[y] = u)
        BY <1>1, <3>1 DEF CoverIn
      <3> QED BY <1>1, <1>3, <3>1, <3>2
    <2> QED BY <2>1, <2>2
  <1> QED BY <1>1, <1>2, <1>3

-----------------------------------------------------------------------------
(***************************************************************************)
(* Maxima, minima and ranks.                                               *)
(***************************************************************************)
\* The greatest of some bounded numbers.
LEMMA MaxOfBounded ==
    ASSUME NEW m \in Nat, NEW S \in SUBSET (0..m), S # {}
    PROVE  Max(S) \in S /\ \A x \in S : x <= Max(S)
  <1> DEFINE T == {m - x : x \in S}
             R == OpToRel(<, Nat)
  <1>1. T \subseteq Nat /\ T # {}
    <2>1. PICK x \in S : TRUE
      OBVIOUS
    <2>2. m - x \in T
      OBVIOUS
    <2>3. \A z \in S : m - z \in Nat
      OBVIOUS
    <2> QED
      BY <2>2, <2>3
  <1>2. IsWellFoundedOn(R, Nat)
    BY NatLessThanWellFounded
  <1>3. \A x, y \in Nat : <<x, y>> \in R <=> x < y
    BY DEF OpToRel
  <1> HIDE DEF R, T
  <1>4. PICK y \in T : \A z \in T : ~(<<z, y>> \in R)
    BY <1>1, <1>2, WFMin
  <1>5. \A z \in T : y <= z
    <2> SUFFICES ASSUME NEW z \in T PROVE y <= z
      OBVIOUS
    <2>1. z \in Nat /\ y \in Nat
      BY <1>1
    <2>2. ~(z < y)
      BY <1>3, <1>4, <2>1
    <2> QED
      BY <2>1, <2>2
  <1>6. PICK x \in S : y = m - x
    BY DEF T
  <1>7. \A z \in S : z <= x
    BY <1>5, <1>6 DEF T
  <1> QED
    BY <1>7 DEF Max

\* The smallest of some numbers.
LEMMA MinOfNaturals ==
    ASSUME NEW S \in SUBSET Nat, S # {}
    PROVE  Min(S) \in S /\ \A x \in S : Min(S) <= x
  <1> DEFINE R == OpToRel(<, Nat)
  <1>1. IsWellFoundedOn(R, Nat)
    BY NatLessThanWellFounded
  <1>2. \A x, y \in Nat : <<x, y>> \in R <=> x < y
    BY DEF OpToRel
  <1> HIDE DEF R
  <1>3. PICK y \in S : \A z \in S : ~(<<z, y>> \in R)
    BY <1>1, WFMin
  <1>4. \A z \in S : y <= z
    <2> SUFFICES ASSUME NEW z \in S PROVE y <= z
      OBVIOUS
    <2>1. z \in Nat /\ y \in Nat
      OBVIOUS
    <2>2. ~(z < y)
      BY <1>2, <1>3, <2>1
    <2> QED
      BY <2>1, <2>2
  <1> QED
    BY <1>4 DEF Min

\* The greater of two.
LEMMA MaxOfTwo ==
    ASSUME NEW a \in Int, NEW b \in Int
    PROVE  Max({a, b}) = IF a >= b THEN a ELSE b
  BY DEF Max

\* The smaller of two.
LEMMA MinOfTwo ==
    ASSUME NEW a \in Int, NEW b \in Int
    PROVE  Min({a, b}) = IF a <= b THEN a ELSE b
  BY DEF Min

\* The k-th member of an interval.
LEMMA NthOfInterval ==
    ASSUME NEW lo \in Int, NEW hi \in Int, NEW k \in 1..hi - lo + 1
    PROVE  (CHOOSE i \in lo..hi : Cardinality({j \in lo..hi : j <= i}) = k) = lo + k - 1
  <1>1. ASSUME NEW i \in lo..hi
        PROVE  Cardinality({j \in lo..hi : j <= i}) = i - lo + 1
    <2>1. {j \in lo..hi : j <= i} = lo..i
      OBVIOUS
    <2>2. i \in Int /\ ~(lo > i)
      OBVIOUS
    <2>3. Cardinality(lo..i) = i - lo + 1
      BY <2>2, FS_Interval
    <2> QED
      BY <2>1, <2>3
  <1>2. lo + k - 1 \in lo..hi /\ k \in Int
    OBVIOUS
  <1> DEFINE Rank(i) == Cardinality({j \in lo..hi : j <= i})
             x == CHOOSE i \in lo..hi : Rank(i) = k
  <1>3. \A i \in lo..hi : Rank(i) = i - lo + 1
    BY <1>1
  <1> HIDE DEF Rank
  <1>4. \E i \in lo..hi : Rank(i) = k
    BY <1>2, <1>3
  <1>5. x \in lo..hi /\ Rank(x) = k
    BY <1>4
  <1> HIDE DEF x
  <1>6. x = lo + k - 1
    BY <1>2, <1>3, <1>5
  <1> QED
    BY <1>6 DEF x, Rank

-----------------------------------------------------------------------------
(***************************************************************************)
(* Elections and quorums.                                                  *)
(***************************************************************************)

\* The bounds are numbers.
LEMMA Bounds == MaxTerm \in Nat /\ MaxIndex \in Nat /\ SnapshotThreshold \in Nat
  BY BoundAssumption

\* The cluster is finite.
LEMMA NodeFinite == EP!IsFiniteSet(Node)
  BY NodeAssumption DEF EP!IsFiniteSet, IsFiniteSet

\* One definition of a majority.
LEMMA SameQuorum == \A S : E!IsQuorum(S) <=> EP!IsQuorum(S)
  BY DEF E!IsQuorum, EP!IsQuorum, E!Quorum, EP!Quorum, E!Cardinality, EP!Cardinality

\* Two majorities share a node.
LEMMA QuorumsMeet ==
    ASSUME NEW P \in SUBSET Node, NEW Q \in SUBSET Node, EP!IsQuorum(P), EP!IsQuorum(Q)
    PROVE  \E v \in Node : v \in P /\ v \in Q
  BY EP!QuorumsIntersect, NodeFinite, NodeAssumption, BoundAssumption, FlagAssumption

\* Terms and victories.
ElectionShape ==
    /\ currentTerm \in [Node -> 0..MaxTerm]
    /\ MaxTerm \in Nat /\ MaxIndex \in Nat
    /\ \A v \in leaders : v.node \in Node /\ v.term \in 1..MaxTerm
                   /\ v = [node |-> v.node, term |-> v.term]
    /\ \A v, w \in leaders : v.term = w.term => v = w
    /\ \A v \in leaders : v.term <= currentTerm[v.node]
    /\ \A a, b \in Node : \A t : [node |-> a, term |-> t] \in leaders
      /\ [node |-> b, term |-> t] \in leaders => a = b

\* What the proofs on logs use of the invariants of Election.
LEMMA ElectionFacts == Elections => ElectionShape
  <1> SUFFICES ASSUME Elections PROVE ElectionShape
    OBVIOUS
  <1>1. EP!TypeOK /\ EP!ElectionSafety
    BY DEF Elections, EP!SafetyInv, EP!TypeInv
  <1>2. /\ currentTerm \in [Node -> 0..MaxTerm]
        /\ leaders \subseteq [node : Node, term : 1..MaxTerm]
    BY <1>1 DEF EP!TypeOK, EP!Victory, EP!Term
  <1>3. \A v, w \in leaders : v.term = w.term => v.node = w.node
    BY <1>1 DEF EP!ElectionSafety
  <1>4. \A v \in leaders : v.term <= currentTerm[v.node]
    BY DEF Elections, EP!ClaimsInv
  <1>5. MaxTerm \in Nat /\ MaxIndex \in Nat
    BY BoundAssumption
  <1>6. \A a, b \in Node : \A t : [node |-> a, term |-> t] \in leaders
             /\ [node |-> b, term |-> t] \in leaders => a = b
    <2> TAKE a, b \in Node
    <2> TAKE t
    <2> HAVE [node |-> a, term |-> t] \in leaders /\ [node |-> b, term |-> t] \in leaders
    <2>1. [node |-> a, term |-> t].node = [node |-> b, term |-> t].node
      BY <1>3
    <2> QED
      BY <2>1
  <1> QED
    BY <1>2, <1>3, <1>4, <1>5, <1>6 DEF ElectionShape

\* The same after a step.
LEMMA ElectionFactsNext == (Elections => ElectionShape)'
  BY ElectionFacts, PTL

-----------------------------------------------------------------------------
(***************************************************************************)
(* Logs and fragments as functions.                                        *)
(***************************************************************************)

\* The snapshot and the entries above it.
LEMMA LogTypes ==
    ASSUME TypeOK, NEW n \in Node
    PROVE  /\ snap[n].index \in Nat /\ snap[n].term \in Nat /\ snap[n].index <= MaxIndex
           /\ log[n] \in Seq(1..MaxTerm) /\ Len(log[n]) \in Nat
           /\ lastIndex(n) \in Nat
           /\ \A i \in Held(n) : entryAt(n, i) \in 1..MaxTerm
           /\ lastTerm(n) \in Nat
  <1>1. snap[n] \in [index : 0..MaxIndex, term : 0..MaxTerm, data : Log] /\ log[n] \in Seq(1..MaxTerm)
    BY DEF TypeOK, Snap, Log, Index, E!Term
  <1>2. /\ snap[n].index \in Nat /\ snap[n].term \in Nat /\ snap[n].index <= MaxIndex
        /\ Len(log[n]) \in Nat
    BY <1>1, Bounds
  <1>3. lastIndex(n) \in Nat
    BY <1>2 DEF lastIndex
  <1>4. ASSUME NEW i \in Held(n) PROVE entryAt(n, i) \in 1..MaxTerm
    <2>1. i - snap[n].index \in 1..Len(log[n])
      BY <1>2, <1>4 DEF Held, lastIndex
    <2> QED
      BY <1>1, <2>1, ElementOfSeq DEF entryAt
  <1>5. lastTerm(n) \in Nat
    <2>1. CASE log[n] = <<>>
      BY <1>2, <2>1 DEF lastTerm
    <2>2. CASE log[n] # <<>>
      <3>1. Len(log[n]) \in 1..Len(log[n])
        BY <1>1, <2>2
      <3> QED
        BY <1>1, <2>2, <3>1, ElementOfSeq, Bounds DEF lastTerm
    <2> QED
      BY <2>1, <2>2
  <1> QED
    BY <1>1, <1>2, <1>3, <1>4, <1>5

\* The term of an applied entry.
LEMMA KnownTerm ==
    ASSUME TypeOK, NEW i, Known(i)
    PROVE  AppliedTerm(i) \in 1..MaxTerm /\ <<i, AppliedTerm(i)>> \in applied
  BY DEF Known, AppliedTerm

\* The entry applied at an index is the only one there.
LEMMA KnownTermIs ==
    ASSUME TypeOK, StateMachineSafety, NEW i, NEW t, <<i, t>> \in applied
    PROVE  Known(i) /\ AppliedTerm(i) = t
  <1>1. t \in 1..MaxTerm
    BY DEF TypeOK
  <1>2. Known(i)
    BY <1>1 DEF Known
  <1>3. <<i, AppliedTerm(i)>> \in applied
    BY <1>2, KnownTerm
  <1>4. <<i, AppliedTerm(i)>>[2] = <<i, t>>[2]
    BY <1>3 DEF StateMachineSafety
  <1> QED
    BY <1>2, <1>4

Fits == TypeOK /\ NodesFit /\ RequestsFit /\ IndicesInLog

\* The full log of a node.
LEMMA FullLogShape ==
    ASSUME Fits, NEW n \in Node
    PROVE  /\ OnInterval(FullLog(n), 1, lastIndex(n))
           /\ lastIndex(n) \in 0..MaxIndex
           /\ \A i \in 1..lastIndex(n) : FullLog(n)[i] \in 1..MaxTerm
           /\ \A i \in 1..snap[n].index : FullLog(n)[i] = AppliedTerm(i) /\ i <= lastIndex(n)
           /\ \A i \in Held(n) : FullLog(n)[i] = entryAt(n, i)
  <1>0. TypeOK /\ SnapFits(snap[n]) /\ lastIndex(n) <= MaxIndex
    BY DEF Fits, NodesFit, NodeFits
  <1>1. /\ snap[n].index \in Nat /\ lastIndex(n) \in Nat /\ snap[n].index <= lastIndex(n)
        /\ \A i \in Held(n) : entryAt(n, i) \in 1..MaxTerm
        /\ MaxIndex \in Nat /\ MaxTerm \in Nat
    BY <1>0, LogTypes, Bounds DEF lastIndex
  <1>2. \A i \in 1..snap[n].index : AppliedTerm(i) \in 1..MaxTerm
    BY <1>0, KnownTerm DEF SnapFits
  <1>3. \A i \in 1..lastIndex(n) : i > snap[n].index => i \in Held(n)
    BY <1>1 DEF Held
  <1>4. \A i \in 1..lastIndex(n) : FullLog(n)[i] \in 1..MaxTerm
    BY <1>1, <1>2, <1>3 DEF FullLog
  <1>5. DOMAIN FullLog(n) = 1..lastIndex(n)
    BY DEF FullLog
  <1>6. \A i \in 1..snap[n].index : FullLog(n)[i] = AppliedTerm(i) /\ i <= lastIndex(n)
    BY <1>1 DEF FullLog
  <1>7. \A i \in Held(n) : FullLog(n)[i] = entryAt(n, i)
    BY <1>1 DEF FullLog, Held
  <1> QED
    BY <1>0, <1>1, <1>4, <1>5, <1>6, <1>7 DEF OnInterval

\* The sentinel of the snapshot is the last entry it covers.
LEMMA TermAtIs ==
    ASSUME Fits, NEW n \in Node, NEW i \in 1..lastIndex(n), i >= snap[n].index
    PROVE  termAt(n, i) = FullLog(n)[i]
  <1>0. /\ TypeOK /\ StateMachineSafety /\ SnapFits(snap[n])
        /\ snap[n].index \in Nat /\ lastIndex(n) \in Nat
    BY LogTypes DEF Fits, NodesFit, NodeFits
  <1>1. CASE i = snap[n].index
    <2>1. <<i, snap[n].term>> \in applied
      BY <1>0, <1>1 DEF SnapFits
    <2> QED
      BY <1>0, <1>1, <2>1, KnownTermIs, FullLogShape DEF termAt
  <1>2. CASE i > snap[n].index
    <2>1. i \in Held(n)
      BY <1>0, <1>2 DEF Held
    <2> QED
      BY <1>0, <1>2, <2>1, FullLogShape DEF termAt
  <1> QED
    BY <1>0, <1>1, <1>2

\* The position a node claims is that of the last entry of its log.
LEMMA LastPosIs ==
    ASSUME Fits, NEW n \in Node
    PROVE  /\ LastPos[n].index = lastIndex(n)
           /\ LastPos[n].term = lastTerm(n)
           /\ lastTerm(n) \in Nat
           /\ lastIndex(n) > 0 => lastTerm(n) = FullLog(n)[lastIndex(n)]
           /\ lastIndex(n) = 0 => lastTerm(n) = 0
  <1>0. /\ TypeOK /\ StateMachineSafety /\ SnapFits(snap[n])
        /\ snap[n].index \in Nat /\ lastIndex(n) \in Nat /\ lastTerm(n) \in Nat
        /\ log[n] \in Seq(1..MaxTerm) /\ Len(log[n]) \in Nat
    BY LogTypes DEF Fits, NodesFit, NodeFits
  <1>1. LastPos[n].index = lastIndex(n) /\ LastPos[n].term = lastTerm(n)
    BY DEF LastPos
  <1>2. CASE log[n] = <<>>
    <2>1. lastIndex(n) = snap[n].index /\ lastTerm(n) = snap[n].term
      BY <1>0, <1>2 DEF lastIndex, lastTerm
    <2>2. lastIndex(n) > 0 => lastTerm(n) = FullLog(n)[lastIndex(n)]
      BY <1>0, <2>1, TermAtIs DEF termAt
    <2> QED
      BY <1>0, <1>1, <2>1, <2>2 DEF SnapFits
  <1>3. CASE log[n] # <<>>
    <2>1. Len(log[n]) > 0
      BY <1>0, <1>3
    <2>2. /\ lastIndex(n) > 0 /\ lastIndex(n) \in Held(n)
          /\ lastTerm(n) = entryAt(n, lastIndex(n))
      <3>1. lastIndex(n) = snap[n].index + Len(log[n])
        BY DEF lastIndex
      <3>2. lastIndex(n) - snap[n].index = Len(log[n])
        BY <1>0, <3>1
      <3> QED
        BY <1>0, <1>3, <2>1, <3>1, <3>2 DEF lastTerm, Held, entryAt
    <2> QED
      BY <1>0, <1>1, <2>2, FullLogShape
  <1> QED
    BY <1>2, <1>3

\* What a request carries.
LEMMA FragmentShape ==
    ASSUME Fits, NEW m \in Requests
    PROVE  /\ m.from \in Node /\ m.to \in Node /\ m.from # m.to
           /\ m.term \in 1..MaxTerm /\ [node |-> m.from, term |-> m.term] \in leaders
           /\ FirstOf(m) \in Nat \ {0} /\ LastOf(m) \in 0..MaxIndex
           /\ OnInterval(Fragment(m), FirstOf(m), LastOf(m))
           /\ \A i \in FirstOf(m)..LastOf(m) : Fragment(m)[i] \in 1..MaxTerm
           /\ m.type = "AE" => /\ m \in AppendRequest
                               /\ LastOf(m) >= FirstOf(m) /\ LastOf(m) \in 1..MaxIndex
                               /\ Fragment(m)[LastOf(m)] = m.term
           /\ m.type = "IS" => /\ m \in SnapshotRequest
                               /\ FirstOf(m) = 1 /\ LastOf(m) = m.snap.index
                               /\ m.snap.index > 0 => Fragment(m)[m.snap.index] = m.snap.term
           /\ m.type = "AE" \/ m.type = "IS"
  <1>0. /\ TypeOK /\ StateMachineSafety /\ RequestFits(m) /\ MaxTerm \in Nat /\ MaxIndex \in Nat
    BY Bounds DEF Fits, NodesFit, NodeFits, RequestsFit
  <1>1. /\ m.from \in Node /\ m.to \in Node /\ m.from # m.to /\ m.term \in 1..MaxTerm
        /\ [node |-> m.from, term |-> m.term] \in leaders
        /\ m.type = "AE" \/ m.type = "IS"
    <2>1. m \in AppendRequest \/ m \in SnapshotRequest
      BY <1>0 DEF RequestFits
    <2>2. CASE m \in AppendRequest
      BY <1>0, <2>2 DEF RequestFits, AppendRequest
    <2>3. CASE m \in SnapshotRequest
      BY <1>0, <2>3 DEF RequestFits, SnapshotRequest
    <2> QED
      BY <2>1, <2>2, <2>3
  <1>2. CASE m.type = "AE"
    <2>1. /\ m \in AppendRequest /\ m.prevIndex \in Nat /\ m.ents \in Seq(1..MaxTerm)
          /\ m.prevTerm \in 0..MaxTerm /\ Len(m.ents) \in Nat
          /\ LastOf(m) = m.prevIndex + Len(m.ents) /\ LastOf(m) \in 1..MaxIndex
      BY <1>0, <1>2 DEF RequestFits, AppendRequest, SnapshotRequest, Index, E!Term, Log, LastOf, LastNew
    <2>2. FirstOf(m) \in Nat \ {0} /\ LastOf(m) >= FirstOf(m) /\ FirstOf(m) >= m.prevIndex
      BY <1>2, <2>1 DEF FirstOf
    <2>3. ASSUME NEW i \in FirstOf(m)..LastOf(m)
          PROVE  Fragment(m)[i] \in 1..MaxTerm
      <3>1. CASE i = m.prevIndex
        <4>1. m.prevTerm # 0
          BY <1>0, <1>2, <2>1, <2>2, <2>3, <3>1 DEF RequestFits
        <4> QED
          BY <1>0, <1>2, <2>1, <2>3, <3>1, <4>1 DEF Fragment
      <3>2. CASE i # m.prevIndex
        <4>1. i - m.prevIndex \in 1..Len(m.ents)
          BY <2>1, <2>2, <2>3, <3>2
        <4>2. m.ents[i - m.prevIndex] \in 1..MaxTerm
          BY <2>1, <4>1, ElementOfSeq
        <4> QED
          BY <1>2, <2>3, <3>2, <4>2 DEF Fragment
      <3> QED
        BY <3>1, <3>2
    <2>4. DOMAIN Fragment(m) = FirstOf(m)..LastOf(m)
      BY DEF Fragment
    <2>5. OnInterval(Fragment(m), FirstOf(m), LastOf(m))
      BY <1>0, <2>1, <2>2, <2>3, <2>4 DEF OnInterval
    <2>6. Fragment(m)[LastOf(m)] = m.term
      BY <1>0, <1>2 DEF RequestFits, LastOf
    <2> QED
      BY <1>0, <1>1, <1>2, <2>1, <2>2, <2>3, <2>5, <2>6
  <1>3. CASE m.type = "IS"
    <2>1. /\ m \in SnapshotRequest /\ m.snap.index \in 0..MaxIndex /\ SnapFits(m.snap)
      BY <1>0, <1>3 DEF RequestFits, AppendRequest, SnapshotRequest, Index, Snap
    <2>2. FirstOf(m) = 1 /\ LastOf(m) = m.snap.index
      BY <1>3 DEF FirstOf, LastOf
    <2>3. \A i \in 1..m.snap.index : Fragment(m)[i] = AppliedTerm(i) /\ Fragment(m)[i] \in 1..MaxTerm
      BY <1>0, <1>3, <2>1, <2>2, KnownTerm DEF Fragment, SnapFits
    <2>4. DOMAIN Fragment(m) = FirstOf(m)..LastOf(m)
      BY DEF Fragment
    <2>5. OnInterval(Fragment(m), FirstOf(m), LastOf(m))
      BY <1>0, <2>1, <2>2, <2>3, <2>4 DEF OnInterval
    <2>6. m.snap.index > 0 => Fragment(m)[m.snap.index] = m.snap.term
      <3> SUFFICES ASSUME m.snap.index > 0 PROVE Fragment(m)[m.snap.index] = m.snap.term
        OBVIOUS
      <3>1. <<m.snap.index, m.snap.term>> \in applied /\ m.snap.index \in 1..m.snap.index
        BY <2>1 DEF SnapFits
      <3> QED
        BY <1>0, <2>3, <3>1, KnownTermIs
    <2> QED
      BY <1>0, <1>1, <1>3, <2>1, <2>2, <2>3, <2>5, <2>6
  <1> QED
    BY <1>1, <1>2, <1>3

\* Every carrier covers an interval.
LEMMA CarrierShape ==
    ASSUME Fits, NEW e \in Carriers
    PROVE  \E lo, hi : OnInterval(e, lo, hi)
  BY FullLogShape, FragmentShape DEF Carriers

-----------------------------------------------------------------------------
(***************************************************************************)
(* Secured entries in one state.                                           *)
(***************************************************************************)
Sound == Fits /\ Elections /\ Histories

\* A log that ends after a covered entry holds it.
LEMMA PastHolds ==
    ASSUME Fits, NEW n \in Node, NEW k \in Nat \ {0}, NEW t \in Nat \ {0},
           CoverIn(FullLog(n), k, t), Past(LastPos[n], k, t)
    PROVE  k \in 1..lastIndex(n) /\ FullLog(n)[k] = t
  <1>1. /\ lastIndex(n) \in Nat /\ DOMAIN FullLog(n) = 1..lastIndex(n)
        /\ LastPos[n].index = lastIndex(n) /\ LastPos[n].term = lastTerm(n)
        /\ lastTerm(n) \in Nat
        /\ lastIndex(n) > 0 => lastTerm(n) = FullLog(n)[lastIndex(n)]
        /\ lastIndex(n) = 0 => lastTerm(n) = 0
    BY FullLogShape, LastPosIs, Bounds DEF OnInterval
  <1>2. lastIndex(n) > 0
    BY <1>1 DEF Past
  <1>3. lastIndex(n) \in DOMAIN FullLog(n)
    BY <1>1, <1>2
  <1>4. k <= lastIndex(n)
    BY <1>1, <1>2, <1>3 DEF Past, CoverIn
  <1> QED
    BY <1>1, <1>2, <1>3, <1>4 DEF Past, CoverIn

\* A log ends after every entry it holds.
LEMMA HoldsPast ==
    ASSUME Fits, TermsSound, NEW n \in Node, NEW k \in 1..lastIndex(n)
    PROVE  Past(LastPos[n], k, FullLog(n)[k])
  <1>1. /\ lastIndex(n) \in Nat /\ DOMAIN FullLog(n) = 1..lastIndex(n)
        /\ LastPos[n].index = lastIndex(n) /\ LastPos[n].term = FullLog(n)[lastIndex(n)]
        /\ \A i \in 1..lastIndex(n) : FullLog(n)[i] \in Nat
    BY FullLogShape, LastPosIs, Bounds DEF OnInterval
  <1>2. FullLog(n)[k] <= FullLog(n)[lastIndex(n)]
    BY <1>1 DEF TermsSound, Carriers, Ascending
  <1> QED
    BY <1>1, <1>2 DEF Past

\* An entry that two logs share is preceded by the same entries in both.
LEMMA SharedPrefix ==
    ASSUME Coherent, NEW e \in Carriers, NEW g \in Carriers,
           NEW k \in DOMAIN e \cap DOMAIN g, e[k] = g[k], k \in Nat
    PROVE  \A i \in DOMAIN e \cap DOMAIN g : i <= k => e[i] = g[i]
  BY DEF Coherent, Coheres

\* A secured entry is in some log.
LEMMA SecuredHolder ==
    ASSUME Fits, Elections, NEW k, NEW t, Secured(k, t)
    PROVE  \E n \in Node : k \in 1..lastIndex(n) /\ FullLog(n)[k] = t
  <1>0. k \in Nat \ {0} /\ t \in Nat \ {0} /\ t <= MaxTerm /\ MaxTerm \in Nat /\ Covers(k, t)
    BY Bounds DEF Secured
  <1>1. ~Won(MaxTerm + 1)
    BY <1>0, ElectionFacts DEF Won, ElectionShape
  <1>2. MaxTerm + 1 \in Epoch /\ MaxTerm + 1 > t
    BY <1>0 DEF Epoch
  <1>3. Protected(k, t, MaxTerm + 1)
    BY <1>1, <1>2 DEF Secured
  <1>4. PICK Q \in SUBSET Node : EP!IsQuorum(Q) /\ \A v \in Q : Shields(v, MaxTerm + 1, k, t)
    BY <1>3 DEF Protected
  <1>5. PICK n \in Node : n \in Q
    BY <1>4, QuorumsMeet
  <1>6. currentTerm[n] \in Nat /\ currentTerm[n] <= MaxTerm
    BY <1>0, ElectionFacts DEF ElectionShape
  <1>7. Past(LastPos[n], k, t)
    BY <1>0, <1>4, <1>5, <1>6 DEF Shields
  <1>8. CoverIn(FullLog(n), k, t)
    BY <1>0 DEF Covers, Carriers
  <1> QED
    BY <1>0, <1>7, <1>8, PastHolds

\* Of two secured entries the later one is written on top of the earlier.
LEMMA SecuredChain ==
    ASSUME Sound, NEW k1, NEW t1, NEW k2, NEW t2, Secured(k1, t1), Secured(k2, t2),
           t1 < t2 \/ (t1 = t2 /\ k1 <= k2)
    PROVE  \E n \in Node : /\ k1 \in 1..lastIndex(n) /\ FullLog(n)[k1] = t1
                           /\ k2 \in 1..lastIndex(n) /\ FullLog(n)[k2] = t2
                           /\ k1 <= k2
  <1>0. /\ Fits /\ Elections
        /\ k1 \in Nat /\ k1 > 0 /\ t1 \in Nat /\ k2 \in Nat /\ t2 \in Nat /\ Covers(k1, t1)
    BY Bounds DEF Sound, Secured
  <1>1. PICK n \in Node : k2 \in 1..lastIndex(n) /\ FullLog(n)[k2] = t2
    BY <1>0, SecuredHolder
  <1>2. CoverIn(FullLog(n), k1, t1) /\ DOMAIN FullLog(n) = 1..lastIndex(n) /\ lastIndex(n) \in Nat
    BY <1>0, FullLogShape, Bounds DEF Covers, Carriers, OnInterval
  <1>3. k1 <= k2
    BY <1>0, <1>1, <1>2 DEF CoverIn
  <1>4. k1 \in 1..lastIndex(n)
    BY <1>0, <1>1, <1>2, <1>3
  <1>5. FullLog(n)[k1] = t1
    BY <1>0, <1>1, <1>2, <1>3, <1>4 DEF CoverIn
  <1> QED
    BY <1>1, <1>3, <1>4, <1>5

\* Two entries at one index cannot both be settled.
LEMMA SettledUnique ==
    ASSUME Sound, NEW i \in Nat \ {0}, NEW u, NEW w, Settled(i, u), Settled(i, w)
    PROVE  u = w
  <1>1. PICK k1 \in 1..MaxIndex, t1 \in 1..MaxTerm :
            /\ i \in 1..k1 /\ Secured(k1, t1)
            /\ \A n \in Node : k1 \in DOMAIN FullLog(n) /\ FullLog(n)[k1] = t1 => FullLog(n)[i] = u
    BY DEF Settled
  <1>2. PICK k2 \in 1..MaxIndex, t2 \in 1..MaxTerm :
            /\ i \in 1..k2 /\ Secured(k2, t2)
            /\ \A n \in Node : k2 \in DOMAIN FullLog(n) /\ FullLog(n)[k2] = t2 => FullLog(n)[i] = w
    BY DEF Settled
  <1>3. \E n \in Node : /\ k1 \in 1..lastIndex(n) /\ FullLog(n)[k1] = t1
                        /\ k2 \in 1..lastIndex(n) /\ FullLog(n)[k2] = t2
    <2>1. CASE t1 < t2 \/ (t1 = t2 /\ k1 <= k2)
      BY <1>1, <1>2, <2>1, SecuredChain
    <2>2. CASE t2 < t1 \/ (t2 = t1 /\ k2 <= k1)
      BY <1>1, <1>2, <2>2, SecuredChain
    <2> QED
      BY <1>1, <1>2, <2>1, <2>2, Bounds
  <1>4. PICK n \in Node : /\ k1 \in 1..lastIndex(n) /\ FullLog(n)[k1] = t1
                          /\ k2 \in 1..lastIndex(n) /\ FullLog(n)[k2] = t2
    BY <1>3
  <1>5. DOMAIN FullLog(n) = 1..lastIndex(n)
    BY FullLogShape DEF OnInterval, Sound
  <1> QED
    BY <1>1, <1>2, <1>4, <1>5

\* A node's log up to a secured entry is settled.
LEMMA PrefixSettled ==
    ASSUME Sound, NEW n \in Node, NEW k \in 1..lastIndex(n), Secured(k, FullLog(n)[k]),
           NEW i \in 1..k
    PROVE  Settled(i, FullLog(n)[i])
  <1>0. Fits /\ Coherent /\ lastIndex(n) \in Nat
    BY FullLogShape, Bounds DEF Sound, Histories
  <1>1. k \in 1..MaxIndex /\ FullLog(n)[k] \in 1..MaxTerm
    BY DEF Secured
  <1>2. ASSUME NEW p \in Node, k \in DOMAIN FullLog(p), FullLog(p)[k] = FullLog(n)[k]
        PROVE  FullLog(p)[i] = FullLog(n)[i]
    <2>1. FullLog(p) \in Carriers /\ FullLog(n) \in Carriers
      BY DEF Carriers
    <2>2. DOMAIN FullLog(p) = 1..lastIndex(p) /\ DOMAIN FullLog(n) = 1..lastIndex(n)
          /\ lastIndex(p) \in Nat
      BY <1>0, FullLogShape, Bounds DEF OnInterval
    <2>3. i \in DOMAIN FullLog(p) \cap DOMAIN FullLog(n) /\ i <= k /\ k \in Nat
          /\ k \in DOMAIN FullLog(p) \cap DOMAIN FullLog(n)
      BY <1>0, <1>2, <2>2
    <2> QED
      BY <1>0, <1>2, <2>1, <2>3, SharedPrefix
  <1> QED
    BY <1>1, <1>2 DEF Settled

\* What a node may apply is settled.
LEMMA CommittedSettled ==
    ASSUME Sound, CommitsSecured, NEW n \in Node, NEW i \in 1..commitIndex[n]
    PROVE  Settled(i, FullLog(n)[i]) /\ i \in 1..lastIndex(n)
  <1>1. /\ commitIndex[n] \in Nat /\ commitIndex[n] <= lastIndex(n) /\ lastIndex(n) \in Nat
        /\ commitIndex[n] <= MaxIndex
    BY FullLogShape, Bounds DEF Sound, Fits, IndicesInLog, TypeOK, Index
  <1>2. commitIndex[n] \in 1..MaxIndex /\ commitIndex[n] \in 1..lastIndex(n)
    BY <1>1, Bounds
  <1>3. Secured(commitIndex[n], FullLog(n)[commitIndex[n]])
    BY <1>2 DEF CommitsSecured, SecuredAt
  <1> QED
    BY <1>1, <1>2, <1>3, PrefixSettled

-----------------------------------------------------------------------------
(***************************************************************************)
(* What a step may do to logs and requests.                                *)
(***************************************************************************)

\* The log of n with what its snapshot covers stays as it is.
Same(n) == FullLog(n)' = FullLog(n)

\* n leads and appends one entry.
Grew(n) ==
    /\ Crowned(n)'
    /\ GrownFrom(FullLog(n)', FullLog(n), lastIndex(n), currentTerm'[n])

\* The first conflict of the log of n with the request m comes after K.
Splits(n, m, K) ==
    /\ K \in Nat
    /\ K + 1 \in FirstOf(m)..LastOf(m) /\ K + 1 \in 1..lastIndex(n)
    /\ FullLog(n)[K + 1] # Fragment(m)[K + 1]

\* The merge of AppendEntries.
Spliced(n, m) ==
    /\ m.type = "AE"
    /\ \E K : /\ SpliceOf(FullLog(n)', FullLog(n), lastIndex(n),
                          Fragment(m), FirstOf(m), LastOf(m), K)
              /\ K = lastIndex(n) \/ Splits(n, m, K)

\* The log of n up to K is left.
LeftTo(n, K) ==
    /\ K \in 0..lastIndex(n)
    /\ DOMAIN FullLog(n)' = 1..K
    /\ \A i \in 1..K : FullLog(n)'[i] = FullLog(n)[i]

\* A crash between the two writes of the merge.
CutAt(n, m) == m.type = "AE" /\ \E K : Splits(n, m, K) /\ LeftTo(n, K)

\* n holds nothing like the snapshot of m.
Unlike(n, m) ==
    /\ m.type = "IS" /\ m.snap.index > 0
    /\ ~Past(LastPos[n], m.snap.index, m.snap.term)

\* The log gives way to the snapshot; or a crash comes before the snapshot.
Replaced(n, m) == Unlike(n, m) /\ FullLog(n)' = Fragment(m)
Emptied(n, m)  == Unlike(n, m) /\ \E K : LeftTo(n, K)

Followed(n, m) ==
    m.to = n /\ currentTerm[n] <= m.term /\ currentTerm'[n] = m.term /\ leaders' = leaders

LogStep(n) ==
    \/ Same(n)
    \/ Grew(n)
    \/ \E m \in Requests : /\ Followed(n, m)
                           /\ Spliced(n, m) \/ CutAt(n, m) \/ Replaced(n, m) \/ Emptied(n, m)

\* One node's log changes.
LogsStep == \E p \in Node : LogStep(p) /\ \A n \in Node \ {p} : Same(n)

\* A request carries what another carried or a piece of a log.
RequestTraced(m) ==
    \/ \E x \in Requests : Fragment(m)' = Fragment(x)
    \/ \E n \in Node : PartOf(Fragment(m)', FullLog(n))

\* Who wins appends its no-op.
WinnersGrow == \A n \in Node : (\E e \in leaders' \ leaders : e.node = n) => Grew(n)

ElectionStep ==
    /\ Elections /\ Elections'
    /\ leaders \subseteq leaders'
    /\ \A n \in Node : currentTerm[n] <= currentTerm'[n]
    /\ EP!ClaimStep

Step1 ==
    /\ Sound /\ Fits' /\ ElectionStep
    /\ LogsStep /\ WinnersGrow
    /\ \A m \in Requests' : RequestTraced(m)

\* A node that leads its term has done so before or has just won it.
LEMMA CrownStep ==
    ASSUME ElectionStep, NEW n \in Node, Crowned(n)'
    PROVE  \/ Crowned(n) /\ currentTerm'[n] = currentTerm[n]
           \/ [node |-> n, term |-> currentTerm'[n]] \in leaders' \ leaders /\ ~Won(currentTerm'[n])
  <1> DEFINE e == [node |-> n, term |-> currentTerm'[n]]
  <1>0. /\ e \in leaders' /\ leaders \subseteq leaders'
        /\ currentTerm[n] \in Nat /\ currentTerm'[n] \in Nat /\ currentTerm[n] <= currentTerm'[n]
        /\ \A v \in leaders : v.term <= currentTerm[v.node]
        /\ \A v, w \in leaders' : v.term = w.term => v = w
    BY ElectionFacts, ElectionFactsNext, Bounds DEF ElectionShape, ElectionStep, Crowned
  <1>1. CASE e \in leaders
    <2>1. e.node = n /\ e.term = currentTerm'[n]
      OBVIOUS
    <2>2. currentTerm'[n] = currentTerm[n]
      <3>1. e.term <= currentTerm[e.node]
        BY <1>0, <1>1
      <3> QED
        BY <1>0, <2>1, <3>1
    <2> QED
      BY <1>1, <2>2 DEF Crowned
  <1>2. CASE e \notin leaders
    <2>1. ASSUME NEW v \in leaders, v.term = currentTerm'[n] PROVE FALSE
      <3>1. v \in leaders' /\ e.term = v.term
        BY <1>0, <2>1
      <3>2. v = e
        BY <1>0, <3>1
      <3> QED
        BY <1>2, <3>2
    <2> QED
      BY <1>0, <1>2, <2>1 DEF Won
  <1> QED
    BY <1>1, <1>2

\* Terms of a request.
LEMMA FragmentTerms ==
    ASSUME Sound, NEW m \in Requests
    PROVE  \A i \in DOMAIN Fragment(m) : Fragment(m)[i] <= m.term
  <1>0. /\ Fits /\ TermsSound /\ Fragment(m) \in Carriers
        /\ MaxTerm \in Nat
    BY Bounds DEF Sound, Histories, Carriers
  <1> SUFFICES ASSUME NEW i \in DOMAIN Fragment(m) PROVE Fragment(m)[i] <= m.term
    OBVIOUS
  <1>1. /\ DOMAIN Fragment(m) = FirstOf(m)..LastOf(m)
        /\ FirstOf(m) \in Nat \ {0} /\ LastOf(m) \in Nat
        /\ \A j \in DOMAIN Fragment(m) : Fragment(m)[j] \in Nat
        /\ m.term \in Nat
    <2>1. /\ OnInterval(Fragment(m), FirstOf(m), LastOf(m)) /\ m.term \in 1..MaxTerm
      BY <1>0, FragmentShape
    <2> QED
      BY <1>0, <2>1 DEF OnInterval
  <1>2. LastOf(m) \in DOMAIN Fragment(m) /\ i <= LastOf(m)
    BY <1>1
  <1>3. Fragment(m)[i] <= Fragment(m)[LastOf(m)]
    BY <1>0, <1>2 DEF TermsSound, Ascending
  <1>4. CASE m.type = "AE"
    BY <1>0, <1>3, <1>4, FragmentShape
  <1>5. CASE m.type = "IS"
    <2>1. m.snap.term <= m.term
      BY <1>0, <1>5 DEF Fits, RequestsFit, RequestFits
    <2>a. m.snap \in Snap
      BY <1>0, <1>5, FragmentShape DEF SnapshotRequest
    <2>b. m.snap.term \in Nat /\ m.snap.index \in Nat
      BY <1>0, <2>a, Bounds DEF Snap, Index, E!Term
    <2>c. LastOf(m) = m.snap.index
      BY <1>0, <1>5, FragmentShape
    <2>2. m.snap.index > 0
      BY <1>1, <1>2, <2>b, <2>c
    <2>3. Fragment(m)[LastOf(m)] = m.snap.term
      BY <1>0, <1>5, <2>2, <2>c, FragmentShape
    <2> QED
      BY <1>1, <1>3, <2>1, <2>b, <2>3
  <1> QED
    BY <1>0, <1>4, <1>5, FragmentShape

-----------------------------------------------------------------------------
(***************************************************************************)
(* One history, after the step.                                            *)
(***************************************************************************)
FromPart(e)   == \E g \in Carriers : PartOf(e, g)
FromSplice(e) ==
    \E n \in Node, m \in Requests :
        \E K : SpliceOf(e, FullLog(n), lastIndex(n), Fragment(m), FirstOf(m), LastOf(m), K)
FromGrowth(e) == \E n \in Node : e = FullLog(n)' /\ Grew(n)

\* Where logs and requests come from.
LEMMA CarrierTraced ==
    ASSUME Step1, NEW e \in Carriers'
    PROVE  FromPart(e) \/ FromSplice(e) \/ FromGrowth(e)
  <1>1. ASSUME NEW n \in Node, e = FullLog(n)'
        PROVE  FromPart(e) \/ FromSplice(e) \/ FromGrowth(e)
    <2>0. FullLog(n) \in Carriers /\ (\A m \in Requests : Fragment(m) \in Carriers)
      BY DEF Carriers
    <2>a. DOMAIN FullLog(n) = 1..lastIndex(n) /\ lastIndex(n) \in Nat
      BY FullLogShape, Bounds DEF OnInterval, Step1, Sound
    <2>1. CASE Same(n)
      BY <1>1, <2>0, <2>1 DEF Same, FromPart, PartOf
    <2>2. CASE Grew(n)
      BY <1>1, <2>2 DEF FromGrowth
    <2>3. ASSUME NEW m \in Requests, Spliced(n, m)
          PROVE  FromSplice(e)
      BY <1>1, <2>3 DEF Spliced, FromSplice
    <2>4. ASSUME NEW K, LeftTo(n, K)
          PROVE  FromPart(e)
      BY <1>1, <2>0, <2>a, <2>4 DEF LeftTo, FromPart, PartOf
    <2>5. ASSUME NEW m \in Requests, Replaced(n, m)
          PROVE  FromPart(e)
      BY <1>1, <2>0, <2>5 DEF Replaced, FromPart, PartOf
    <2>6. LogStep(n) \/ Same(n)
      BY DEF Step1, LogsStep
    <2> QED
      BY <2>1, <2>2, <2>3, <2>4, <2>5, <2>6 DEF LogStep, CutAt, Emptied
  <1>2. ASSUME NEW m \in Requests', e = Fragment(m)'
        PROVE  FromPart(e)
    BY <1>2 DEF Step1, RequestTraced, FromPart, PartOf, Carriers
  <1>3. (\E n \in Node : e = FullLog(n)') \/ (\E m \in Requests' : e = Fragment(m)')
    BY DEF Carriers
  <1> QED
    BY <1>1, <1>2, <1>3

\* The new entry of a leader is of a term no other log has entries of that the
\* leader's has not.
LEMMA GrowthFacts ==
    ASSUME Step1, NEW n \in Node, Grew(n)
    PROVE  LET La == lastIndex(n)
               a  == FullLog(n)
               t  == currentTerm'[n]
           IN  /\ t \in 1..MaxTerm /\ t \in Nat
               /\ \A g \in Carriers : OwnsIn(a, La, t, g)
               /\ (\E i \in 1..La : a[i] = t) => a[La] = t
               /\ \A i \in 1..La : a[i] <= t
  <1> DEFINE La == lastIndex(n)
             a  == FullLog(n)
             t  == currentTerm'[n]
  <1>0. Fits /\ ElectionStep /\ TermsSound /\ WinnersOwn /\ Crowned(n)' /\ MaxTerm \in Nat
    BY Bounds DEF Step1, Sound, Histories, Grew
  <1>1. t \in 1..MaxTerm /\ t \in Nat
    <2>1. [node |-> n, term |-> t] \in leaders' /\ ElectionShape'
      BY <1>0, ElectionFactsNext DEF Crowned, ElectionStep
    <2>2. [node |-> n, term |-> t].term \in 1..MaxTerm
      BY <2>1 DEF ElectionShape
    <2> QED
      BY <1>0, <2>2
  <1>2. DOMAIN a = 1..La /\ La \in Nat /\ (\A i \in 1..La : a[i] \in Nat) /\ a \in Carriers
    BY <1>0, FullLogShape, Bounds DEF OnInterval, Carriers
  <1>3. \A i \in 1..La : a[i] <= t
    <2>1. currentTerm[n] \in Nat /\ currentTerm[n] <= t
      BY <1>0, ElectionFacts DEF ElectionStep, ElectionShape
    <2>2. \A i \in 1..La : a[i] <= currentTerm[n]
      BY <1>0, <1>2 DEF TermsSound
    <2> QED
      BY <1>1, <1>2, <2>1, <2>2
  <1>4. CASE Crowned(n) /\ t = currentTerm[n]
    <2>1. lastTerm(n) = t /\ \A g \in Carriers : OwnsIn(a, La, t, g)
      BY <1>0, <1>4 DEF WinnersOwn
    <2>2. (\E i \in 1..La : a[i] = t) => a[La] = t
      BY <1>0, <1>2, <2>1, LastPosIs
    <2> QED
      BY <1>1, <1>3, <2>1, <2>2
  <1>5. CASE ~Won(t)
    <2>1. \A g \in Carriers : \A i \in DOMAIN g : g[i] # t
      BY <1>0, <1>5 DEF TermsSound
    <2> QED
      BY <1>1, <1>2, <1>3, <2>1 DEF OwnsIn
  <1> QED
    BY <1>0, <1>4, <1>5, CrownStep

\* New logs cohere with old ones.
LEMMA NewCoheresOld ==
    ASSUME Step1, NEW e \in Carriers', NEW g \in Carriers
    PROVE  Coheres(e, g) /\ Coheres(g, e)
  <1>0. Fits /\ Coherent
    BY DEF Step1, Sound, Histories
  <1>1. PICK l2, h2 : OnInterval(g, l2, h2)
    BY <1>0, CarrierShape
  <1>2. CASE FromPart(e)
    <2>1. PICK f \in Carriers : PartOf(e, f)
      BY <1>2 DEF FromPart
    <2>2. PartOf(g, g)
      BY DEF PartOf
    <2>3. Coheres(f, g) /\ Coheres(g, f)
      BY <1>0 DEF Coherent
    <2> QED
      BY <2>1, <2>2, <2>3, CohPart
  <1>3. CASE FromSplice(e)
    <2>1. PICK n \in Node, m \in Requests :
            \E K : SpliceOf(e, FullLog(n), lastIndex(n), Fragment(m), FirstOf(m), LastOf(m), K)
      BY <1>3 DEF FromSplice
    <2>2. PICK K : SpliceOf(e, FullLog(n), lastIndex(n), Fragment(m), FirstOf(m), LastOf(m), K)
      BY <2>1
    <2>3. /\ OnInterval(FullLog(n), 1, lastIndex(n))
          /\ OnInterval(Fragment(m), FirstOf(m), LastOf(m))
      BY <1>0, FullLogShape, FragmentShape
    <2>4. /\ Coheres(FullLog(n), g) /\ Coheres(g, FullLog(n))
          /\ Coheres(Fragment(m), g) /\ Coheres(g, Fragment(m))
      BY <1>0 DEF Coherent, Carriers
    <2>5. Coheres(e, g)
      BY <1>1, <2>2, <2>3, <2>4, SpliceCohLeft
    <2>6. Coheres(g, e)
      BY <1>1, <2>2, <2>3, <2>4, SpliceCohRight
    <2> QED
      BY <2>5, <2>6
  <1>4. CASE FromGrowth(e)
    <2>1. PICK n \in Node : e = FullLog(n)' /\ Grew(n)
      BY <1>4 DEF FromGrowth
    <2> DEFINE La == lastIndex(n)
               a  == FullLog(n)
               t  == currentTerm'[n]
    <2>2. OnInterval(a, 1, La) /\ GrownFrom(e, a, La, t)
      BY <1>0, <2>1, FullLogShape DEF Grew
    <2>3. OwnsIn(a, La, t, g) /\ ((\E i \in 1..La : a[i] = t) => a[La] = t)
      BY <2>1, GrowthFacts
    <2>4. Coheres(a, g) /\ Coheres(g, a)
      BY <1>0 DEF Coherent, Carriers
    <2> HIDE DEF La, a, t
    <2>5. Coheres(e, g)
      BY <1>1, <2>2, <2>3, <2>4, GrownCohLeft
    <2>6. Coheres(g, e)
      BY <1>1, <2>2, <2>3, <2>4, GrownCohRight
    <2> QED
      BY <2>5, <2>6
  <1> QED
    BY <1>2, <1>3, <1>4, CarrierTraced

\* Carriers after the step are intervals, too.
LEMMA CarrierShapes == Fits => \A g \in Carriers : \E lo, hi : OnInterval(g, lo, hi)
  BY CarrierShape

\* The same after a step.
LEMMA CarrierShapeNext == (Fits => \A g \in Carriers : \E lo, hi : OnInterval(g, lo, hi))'
  BY CarrierShapes, PTL

\* All logs still belong to one history.
LEMMA CoherentNext ==
    ASSUME Step1
    PROVE  Coherent'
  <1> SUFFICES ASSUME NEW e \in Carriers', NEW g \in Carriers'
               PROVE  Coheres(e, g)
    BY DEF Coherent
  <1>0. Fits /\ Fits' /\ TermsSound /\ Coherent
    BY DEF Step1, Sound, Histories
  <1>1. PICK l2, h2 : OnInterval(e, l2, h2)
    BY <1>0, CarrierShapeNext
  <1>2. CASE FromPart(g)
    <2>1. PICK f \in Carriers : PartOf(g, f)
      BY <1>2 DEF FromPart
    <2>2. PartOf(e, e)
      BY DEF PartOf
    <2>3. Coheres(e, f)
      BY NewCoheresOld
    <2> QED
      BY <2>1, <2>2, <2>3, CohPart
  <1>3. CASE FromSplice(g)
    <2>1. PICK n \in Node, m \in Requests :
            \E K : SpliceOf(g, FullLog(n), lastIndex(n), Fragment(m), FirstOf(m), LastOf(m), K)
      BY <1>3 DEF FromSplice
    <2>2. PICK K : SpliceOf(g, FullLog(n), lastIndex(n), Fragment(m), FirstOf(m), LastOf(m), K)
      BY <2>1
    <2>3. /\ OnInterval(FullLog(n), 1, lastIndex(n))
          /\ OnInterval(Fragment(m), FirstOf(m), LastOf(m))
      BY <1>0, FullLogShape, FragmentShape
    <2>4. FullLog(n) \in Carriers /\ Fragment(m) \in Carriers
      BY DEF Carriers
    <2>5. Coheres(e, FullLog(n)) /\ Coheres(e, Fragment(m))
      BY <2>4, NewCoheresOld
    <2> QED
      BY <1>1, <2>2, <2>3, <2>5, SpliceCohRight
  <1>4. CASE FromGrowth(g)
    <2>1. PICK n \in Node : g = FullLog(n)' /\ Grew(n)
      BY <1>4 DEF FromGrowth
    <2> DEFINE La == lastIndex(n)
               a  == FullLog(n)
               t  == currentTerm'[n]
    <2>2. OnInterval(a, 1, La) /\ GrownFrom(g, a, La, t) /\ a \in Carriers
      BY <1>0, <2>1, FullLogShape DEF Grew, Carriers
    <2>3. /\ \A f \in Carriers : OwnsIn(a, La, t, f)
          /\ (\E i \in 1..La : a[i] = t) => a[La] = t
          /\ t \in Nat
      BY <2>1, GrowthFacts
    <2>4. Coheres(e, a) /\ Coheres(a, a) /\ Ascending(a)
      BY <1>0, <2>2, NewCoheresOld DEF Coherent, TermsSound
    <2>5. CASE e = g
      <3> HIDE DEF La, a, t
      <3> QED
        BY <2>2, <2>3, <2>4, <2>5, GrownCohSelf
    <2>6. CASE OwnsIn(a, La, t, e)
      <3> HIDE DEF La, a, t
      <3> QED
        BY <1>1, <2>2, <2>3, <2>4, <2>6, GrownCohRight
    <2>7. e = g \/ OwnsIn(a, La, t, e)
      <3>1. CASE FromPart(e)
        BY <2>3, <3>1 DEF FromPart, PartOf, OwnsIn
      <3>2. CASE FromSplice(e)
        <4>1. PICK p \in Node, m \in Requests :
                \E K : SpliceOf(e, FullLog(p), lastIndex(p), Fragment(m), FirstOf(m), LastOf(m), K)
          BY <3>2 DEF FromSplice
        <4>2. PICK K : SpliceOf(e, FullLog(p), lastIndex(p), Fragment(m), FirstOf(m), LastOf(m), K)
          BY <4>1
        <4>3. /\ OnInterval(FullLog(p), 1, lastIndex(p)) /\ FullLog(p) \in Carriers
              /\ OnInterval(Fragment(m), FirstOf(m), LastOf(m)) /\ Fragment(m) \in Carriers
              /\ K \in Nat
          BY <1>0, <4>2, FullLogShape, FragmentShape DEF Carriers, SpliceOf
        <4>4. OwnsIn(a, La, t, FullLog(p)) /\ OwnsIn(a, La, t, Fragment(m))
          BY <2>3, <4>3
        <4> HIDE DEF La, a, t
        <4>5. \A i \in DOMAIN e : \/ i \in DOMAIN FullLog(p) /\ e[i] = FullLog(p)[i]
                                  \/ i \in DOMAIN Fragment(m) /\ e[i] = Fragment(m)[i]
          BY <4>2, <4>3, SpliceParts
        <4> QED
          BY <4>4, <4>5 DEF OwnsIn
      <3>3. CASE FromGrowth(e)
        <4>1. PICK p \in Node : e = FullLog(p)' /\ Grew(p)
          BY <3>3 DEF FromGrowth
        <4>2. CASE p = n
          BY <2>1, <4>1, <4>2
        <4>3. CASE p # n
          <5>1. Same(n) \/ Same(p)
            BY <4>3 DEF Step1, LogsStep
          <5>2. ASSUME NEW q \in Node, Grew(q), Same(q) PROVE FALSE
            <6>1. lastIndex(q) \in Nat /\ DOMAIN FullLog(q) = 1..lastIndex(q)
              BY <1>0, FullLogShape, Bounds DEF OnInterval
            <6>2. DOMAIN FullLog(q)' = 1..lastIndex(q) + 1
              BY <5>2 DEF Grew, GrownFrom
            <6> QED
              BY <5>2, <6>1, <6>2 DEF Same
          <5> QED
            BY <2>1, <4>1, <5>1, <5>2
        <4> QED
          BY <4>2, <4>3
      <3> QED
        BY <3>1, <3>2, <3>3, CarrierTraced
    <2> QED
      BY <2>5, <2>6, <2>7
  <1> QED
    BY <1>2, <1>3, <1>4, CarrierTraced

\* The shape of logs, before and after a step.
LogShape(n) ==
    /\ OnInterval(FullLog(n), 1, lastIndex(n))
    /\ lastIndex(n) \in 0..MaxIndex
    /\ \A i \in 1..lastIndex(n) : FullLog(n)[i] \in 1..MaxTerm
    /\ \A i \in 1..snap[n].index : FullLog(n)[i] = AppliedTerm(i) /\ i <= lastIndex(n)
    /\ \A i \in Held(n) : FullLog(n)[i] = entryAt(n, i)
    /\ LastPos[n].index = lastIndex(n)
    /\ LastPos[n].term = lastTerm(n)
    /\ lastTerm(n) \in Nat
    /\ lastIndex(n) > 0 => lastTerm(n) = FullLog(n)[lastIndex(n)]
    /\ lastIndex(n) = 0 => lastTerm(n) = 0

\* The full log of a node runs from index 1 to its last index.
LEMMA LogShapes == Fits => \A n \in Node : LogShape(n)
  BY FullLogShape, LastPosIs DEF LogShape

\* The same after a step.
LEMMA LogShapesNext == (Fits => \A n \in Node : LogShape(n))'
  BY LogShapes, PTL

\* The log of a node that leads its term has grown or stayed as it was.
LEMMA CrownedLog ==
    ASSUME Step1, NEW l \in Node, Crowned(l)'
    PROVE  Grew(l) \/ (Same(l) /\ Crowned(l) /\ currentTerm'[l] = currentTerm[l])
  <1>0. ElectionStep /\ WinnersGrow /\ (LogStep(l) \/ Same(l)) /\ Fits
    BY DEF Step1, LogsStep, Sound
  <1>1. CASE [node |-> l, term |-> currentTerm'[l]] \in leaders' \ leaders
    <2>1. Grew(l)
      BY <1>0, <1>1 DEF WinnersGrow
    <2> QED
      BY <2>1
  <1>2. CASE Crowned(l) /\ currentTerm'[l] = currentTerm[l]
    <2>1. ASSUME NEW m \in Requests, Followed(l, m) PROVE FALSE
      <3>1. /\ m.from \in Node /\ m.from # l
            /\ [node |-> m.from, term |-> m.term] \in leaders
        BY <1>0, <2>1, FragmentShape DEF Followed
      <3>2. [node |-> l, term |-> m.term] \in leaders
        BY <1>2, <2>1 DEF Followed, Crowned
      <3> QED
        BY <1>0, <3>1, <3>2, ElectionFacts DEF ElectionShape, ElectionStep
    <2> QED
      BY <1>0, <1>2, <2>1 DEF LogStep
  <1> QED
    BY <1>0, <1>1, <1>2, CrownStep

\* Terms still ascend and come from elections that were won.
LEMMA TermsSoundNext ==
    ASSUME Step1
    PROVE  TermsSound'
  <1>0. /\ Fits /\ Fits' /\ TermsSound /\ ElectionStep /\ leaders \subseteq leaders'
        /\ \A t : Won(t) => Won(t)'
    BY DEF Step1, Sound, Histories, ElectionStep, Won
  <1>1. ASSUME NEW e \in Carriers'
        PROVE  Ascending(e) /\ \A i \in DOMAIN e : Won(e[i])'
    <2>1. CASE FromPart(e)
      <3>1. PICK g \in Carriers : PartOf(e, g)
        BY <2>1 DEF FromPart
      <3>2. Ascending(g) /\ \A i \in DOMAIN g : Won(g[i])
        BY <1>0 DEF TermsSound
      <3>3. Ascending(e)
        BY <3>1, <3>2, SortedPart
      <3> QED
        BY <1>0, <3>1, <3>2, <3>3 DEF PartOf
    <2>2. CASE FromSplice(e)
      <3>1. PICK n \in Node, m \in Requests :
              \E K : SpliceOf(e, FullLog(n), lastIndex(n), Fragment(m), FirstOf(m), LastOf(m), K)
        BY <2>2 DEF FromSplice
      <3>2. PICK K : SpliceOf(e, FullLog(n), lastIndex(n), Fragment(m), FirstOf(m), LastOf(m), K)
        BY <3>1
      <3>3. /\ OnInterval(FullLog(n), 1, lastIndex(n)) /\ FullLog(n) \in Carriers
            /\ OnInterval(Fragment(m), FirstOf(m), LastOf(m)) /\ Fragment(m) \in Carriers
            /\ K \in Nat
        BY <1>0, <3>2, FullLogShape, FragmentShape DEF Carriers, SpliceOf
      <3>4. /\ Ascending(FullLog(n)) /\ \A i \in DOMAIN FullLog(n) : Won(FullLog(n)[i])
            /\ Ascending(Fragment(m)) /\ \A i \in DOMAIN Fragment(m) : Won(Fragment(m)[i])
        BY <1>0, <3>3 DEF TermsSound
      <3>5. Ascending(e)
        BY <3>2, <3>3, <3>4, SpliceSorted
      <3>6. \A i \in DOMAIN e : \/ i \in DOMAIN FullLog(n) /\ e[i] = FullLog(n)[i]
                                \/ i \in DOMAIN Fragment(m) /\ e[i] = Fragment(m)[i]
        BY <3>2, <3>3, SpliceParts
      <3> QED
        BY <1>0, <3>4, <3>5, <3>6
    <2>3. CASE FromGrowth(e)
      <3>1. PICK n \in Node : e = FullLog(n)' /\ Grew(n)
        BY <2>3 DEF FromGrowth
      <3> DEFINE La == lastIndex(n)
                 a  == FullLog(n)
                 t  == currentTerm'[n]
      <3>2. OnInterval(a, 1, La) /\ GrownFrom(e, a, La, t) /\ a \in Carriers
        BY <1>0, <3>1, FullLogShape DEF Grew, Carriers
      <3>3. t \in Nat /\ \A i \in 1..La : a[i] <= t
        BY <3>1, GrowthFacts
      <3>4. Ascending(a) /\ \A i \in DOMAIN a : Won(a[i])
        BY <1>0, <3>2 DEF TermsSound
      <3>5. \E v \in leaders' : v.term = t
        <4>1. [node |-> n, term |-> t] \in leaders'
          BY <3>1 DEF Grew, Crowned
        <4> QED
          BY <4>1
      <3> HIDE DEF La, a, t
      <3>6. Ascending(e)
        BY <3>2, <3>3, <3>4, GrownAscending
      <3>7. \A i \in DOMAIN e : (i \in DOMAIN a /\ e[i] = a[i]) \/ e[i] = t
        BY <3>2, <3>3, GrownParts
      <3>8. ASSUME NEW i \in DOMAIN e PROVE Won(e[i])'
        <4>1. CASE i \in DOMAIN a /\ e[i] = a[i]
          BY <1>0, <3>4, <4>1
        <4>2. CASE e[i] = t
          BY <3>5, <4>2 DEF Won
        <4> QED
          BY <3>7, <4>1, <4>2
      <3> QED
        BY <3>6, <3>8
    <2> QED
      BY <2>1, <2>2, <2>3, CarrierTraced
  <1>2. ASSUME NEW n \in Node, NEW i \in DOMAIN FullLog(n)'
        PROVE  FullLog(n)'[i] <= currentTerm'[n]
    <2>0. /\ currentTerm[n] \in Nat /\ currentTerm'[n] \in Nat /\ currentTerm[n] <= currentTerm'[n]
      BY <1>0, ElectionFacts, ElectionFactsNext, Bounds DEF ElectionStep, ElectionShape
    <2>1. /\ OnInterval(FullLog(n), 1, lastIndex(n)) /\ DOMAIN FullLog(n) = 1..lastIndex(n)
          /\ lastIndex(n) \in Nat
          /\ \A j \in DOMAIN FullLog(n) : FullLog(n)[j] \in Nat /\ FullLog(n)[j] <= currentTerm[n]
      BY <1>0, FullLogShape, Bounds DEF TermsSound, OnInterval
    <2>2. CASE Same(n)
      BY <2>0, <2>1, <2>2 DEF Same
    <2>3. CASE Grew(n)
      <3>1. (i \in DOMAIN FullLog(n) /\ FullLog(n)'[i] = FullLog(n)[i]) \/ FullLog(n)'[i] = currentTerm'[n]
        BY <2>0, <2>1, <2>3, GrownParts DEF Grew
      <3> QED
        BY <2>0, <2>1, <3>1
    <2>4. ASSUME NEW m \in Requests, Followed(n, m),
                 Spliced(n, m) \/ CutAt(n, m) \/ Replaced(n, m) \/ Emptied(n, m)
          PROVE  FullLog(n)'[i] <= currentTerm'[n]
      <3>1. /\ OnInterval(Fragment(m), FirstOf(m), LastOf(m))
            /\ \A j \in DOMAIN Fragment(m) : Fragment(m)[j] <= currentTerm'[n]
        BY <1>0, <2>4, FragmentShape, FragmentTerms DEF Step1, Followed
      <3>2. \/ i \in DOMAIN FullLog(n) /\ FullLog(n)'[i] = FullLog(n)[i]
            \/ i \in DOMAIN Fragment(m) /\ FullLog(n)'[i] = Fragment(m)[i]
        <4>1. CASE Spliced(n, m)
          <5>1. PICK K : SpliceOf(FullLog(n)', FullLog(n), lastIndex(n),
                                  Fragment(m), FirstOf(m), LastOf(m), K)
            BY <4>1 DEF Spliced
          <5>2. K \in Nat /\ i \in Nat
            BY <2>1, <3>1, <5>1, SpliceParts DEF SpliceOf
          <5> QED
            BY <2>1, <3>1, <5>1, <5>2, SpliceParts
        <4>2. ASSUME NEW K, LeftTo(n, K) PROVE i \in DOMAIN FullLog(n) /\ FullLog(n)'[i] = FullLog(n)[i]
          BY <2>1, <4>2 DEF LeftTo
        <4>3. CASE Replaced(n, m)
          BY <4>3 DEF Replaced
        <4> QED
          BY <2>4, <4>1, <4>2, <4>3 DEF CutAt, Emptied
      <3> QED
        BY <2>0, <2>1, <3>1, <3>2
    <2> QED
      BY <2>2, <2>3, <2>4 DEF Step1, LogsStep, LogStep
  <1> QED
    BY <1>1, <1>2 DEF TermsSound

\* The winners still have all entries of their terms.
LEMMA WinnersOwnNext ==
    ASSUME Step1
    PROVE  WinnersOwn'
  <1>0. /\ Fits /\ Fits' /\ TermsSound /\ WinnersOwn /\ ElectionStep
    BY DEF Step1, Sound, Histories
  <1> SUFFICES ASSUME NEW l \in Node, Crowned(l)'
               PROVE  /\ lastTerm(l)' = currentTerm'[l]
                      /\ \A e \in Carriers' : OwnsIn(FullLog(l)', lastIndex(l)', currentTerm'[l], e)
    BY DEF WinnersOwn
  <1> DEFINE t  == currentTerm'[l]
             La == lastIndex(l)
             a  == FullLog(l)
  <1>1. /\ La \in Nat /\ DOMAIN a = 1..La /\ OnInterval(a, 1, La)
        /\ lastIndex(l)' \in Nat /\ DOMAIN FullLog(l)' = 1..lastIndex(l)'
        /\ lastIndex(l)' > 0 => lastTerm(l)' = FullLog(l)'[lastIndex(l)']
    BY <1>0, LogShapes, LogShapesNext, Bounds DEF LogShape, OnInterval
  <1>2. t \in Nat \ {0}
    <2>1. [node |-> l, term |-> t] \in leaders' /\ ElectionShape'
      BY <1>0, ElectionFactsNext DEF Crowned, ElectionStep
    <2>2. [node |-> l, term |-> t].term \in 1..MaxTerm
      BY <2>1 DEF ElectionShape
    <2> QED
      BY <2>2, Bounds
  <1>3. /\ \A g \in Carriers : OwnsIn(a, La, t, g)
        /\ \A i \in 1..La : i \in 1..lastIndex(l)' /\ FullLog(l)'[i] = a[i]
        /\ lastTerm(l)' = t
    <2>1. CASE Grew(l)
      <3>1. lastIndex(l)' = La + 1
        BY <1>1, <2>1 DEF Grew, GrownFrom
      <3> QED
        BY <1>1, <2>1, <3>1, GrowthFacts DEF Grew, GrownFrom
    <2>2. CASE Same(l) /\ Crowned(l) /\ t = currentTerm[l]
      <3>1. lastIndex(l)' = La
        BY <1>1, <2>2 DEF Same
      <3>2. lastTerm(l) = t /\ (La > 0 => lastTerm(l) = a[La]) /\ (La = 0 => lastTerm(l) = 0)
        BY <1>0, <2>2, LogShapes DEF WinnersOwn, LogShape
      <3>3. La > 0
        BY <1>1, <1>2, <3>2
      <3> QED
        BY <1>0, <1>1, <2>2, <3>1, <3>2, <3>3 DEF WinnersOwn, Same
    <2> QED
      BY <2>1, <2>2, CrownedLog
  <1>4. ASSUME NEW e \in Carriers', NEW i \in DOMAIN e, e[i] = t
        PROVE  i \in 1..lastIndex(l)' /\ FullLog(l)'[i] = t
    <2>1. CASE FromPart(e)
      BY <1>3, <1>4, <2>1 DEF FromPart, PartOf, OwnsIn
    <2>2. CASE FromSplice(e)
      <3>1. PICK n \in Node, m \in Requests :
              \E K : SpliceOf(e, FullLog(n), lastIndex(n), Fragment(m), FirstOf(m), LastOf(m), K)
        BY <2>2 DEF FromSplice
      <3>2. PICK K : SpliceOf(e, FullLog(n), lastIndex(n), Fragment(m), FirstOf(m), LastOf(m), K)
        BY <3>1
      <3>3. /\ OnInterval(FullLog(n), 1, lastIndex(n)) /\ FullLog(n) \in Carriers
            /\ OnInterval(Fragment(m), FirstOf(m), LastOf(m)) /\ Fragment(m) \in Carriers
            /\ K \in Nat
        BY <1>0, <3>2, FullLogShape, FragmentShape DEF Carriers, SpliceOf
      <3>4. \/ i \in DOMAIN FullLog(n) /\ e[i] = FullLog(n)[i]
            \/ i \in DOMAIN Fragment(m) /\ e[i] = Fragment(m)[i]
        BY <3>2, <3>3, SpliceParts
      <3> QED
        BY <1>3, <1>4, <3>3, <3>4 DEF OwnsIn
    <2>3. CASE FromGrowth(e)
      <3>1. PICK n \in Node : e = FullLog(n)' /\ Grew(n)
        BY <2>3 DEF FromGrowth
      <3>2. CASE n = l
        BY <1>1, <1>4, <3>1, <3>2
      <3>3. CASE n # l
        <4>1. OnInterval(FullLog(n), 1, lastIndex(n)) /\ FullLog(n) \in Carriers
              /\ currentTerm'[n] \in Nat
          BY <1>0, <3>1, FullLogShape, GrowthFacts DEF Carriers
        <4>2. (i \in DOMAIN FullLog(n) /\ e[i] = FullLog(n)[i]) \/ e[i] = currentTerm'[n]
          BY <3>1, <4>1, GrownParts DEF Grew
        <4>3. currentTerm'[n] # t
          BY <1>0, <3>1, <3>3, ElectionFactsNext DEF Grew, Crowned, ElectionStep, ElectionShape
        <4> QED
          BY <1>3, <1>4, <4>1, <4>2, <4>3 DEF OwnsIn
      <3> QED
        BY <3>2, <3>3
    <2> QED
      BY <2>1, <2>2, <2>3, CarrierTraced
  <1> QED
    BY <1>3, <1>4 DEF OwnsIn

-----------------------------------------------------------------------------
(***************************************************************************)
(* Secured entries, after the step.                                        *)
(***************************************************************************)

\* What n holds of an entry that every later log holds stays with n.
KeepsPast(n) ==
    \A k \in 1..MaxIndex, t \in 1..MaxTerm :
        Covers(k, t) /\ Past(LastPos[n], k, t) => Past(LastPos[n], k, t)'

Emptying(n) == ~Same(n) /\ \E m \in Requests : Followed(n, m) /\ Emptied(n, m)

\* A log ends at or after each of its entries.
LEMMA HoldsPasts ==
    Fits /\ TermsSound =>
        \A n \in Node : \A k \in 1..lastIndex(n) : Past(LastPos[n], k, FullLog(n)[k])
  BY HoldsPast

\* The same after a step.
LEMMA HoldsPastsNext ==
    (Fits /\ TermsSound =>
        \A n \in Node : \A k \in 1..lastIndex(n) : Past(LastPos[n], k, FullLog(n)[k]))'
  BY HoldsPasts, PTL

\* A conflict with a request comes after every entry all later logs hold.
LEMMA SplitKeeps ==
    ASSUME Step1, NEW n \in Node, NEW m \in Requests, Followed(n, m), m.type = "AE",
           NEW K, Splits(n, m, K), NEW k \in 1..lastIndex(n), Covers(k, FullLog(n)[k])
    PROVE  k <= K
  <1>0. Fits /\ TermsSound /\ Coherent
    BY DEF Step1, Sound, Histories
  <1>1. /\ OnInterval(FullLog(n), 1, lastIndex(n)) /\ DOMAIN FullLog(n) = 1..lastIndex(n)
        /\ OnInterval(Fragment(m), FirstOf(m), LastOf(m))
        /\ FullLog(n) \in Carriers /\ Fragment(m) \in Carriers
        /\ Fragment(m)[LastOf(m)] = m.term
    BY <1>0, FullLogShape, FragmentShape DEF OnInterval, Carriers
  <1>2. Coheres(Fragment(m), FullLog(n)) /\ CoverIn(Fragment(m), k, FullLog(n)[k])
    BY <1>0, <1>1 DEF Coherent, Covers
  <1>3. FullLog(n)[k] <= Fragment(m)[LastOf(m)]
    <2>1. FullLog(n)[k] <= currentTerm[n] /\ FullLog(n)[k] \in Nat
      BY <1>0, <1>1 DEF TermsSound, OnInterval
    <2>2. currentTerm[n] <= m.term /\ currentTerm[n] \in Nat
      BY ElectionFacts, Bounds DEF Followed, Step1, Sound, ElectionShape
    <2>3. m.term \in 1..MaxTerm
      BY <1>0, FragmentShape
    <2>4. m.term \in Nat
      BY <2>3, Bounds
    <2> QED
      BY <1>1, <2>1, <2>2, <2>4
  <1>4. K \in Nat /\ K + 1 \in FirstOf(m)..LastOf(m) /\ K + 1 \in 1..lastIndex(n)
        /\ FullLog(n)[K + 1] # Fragment(m)[K + 1]
    BY DEF Splits
  <1> QED
    BY <1>1, <1>2, <1>3, <1>4, SpliceKeeps

\* No step but an InstallSnapshot that is cut short takes such an entry away.
LEMMA PastKept ==
    ASSUME Step1, TermsSound', NEW n \in Node, ~Emptying(n)
    PROVE  KeepsPast(n)
  <1> SUFFICES ASSUME NEW k \in 1..MaxIndex, NEW t \in 1..MaxTerm,
                      Covers(k, t), Past(LastPos[n], k, t)
               PROVE  Past(LastPos[n], k, t)'
    BY DEF KeepsPast
  <1>0. /\ Fits /\ Fits' /\ TermsSound /\ TermsSound' /\ (LogStep(n) \/ Same(n))
        /\ k \in Nat \ {0} /\ t \in Nat \ {0}
    BY Bounds DEF Step1, Sound, Histories, LogsStep
  <1>1. LogShape(n) /\ LogShape(n)'
    BY <1>0, LogShapes, LogShapesNext
  <1>2. k \in 1..lastIndex(n) /\ FullLog(n)[k] = t
    BY <1>0, PastHolds DEF Covers, Carriers
  <1>3. ASSUME k \in 1..lastIndex(n)', FullLog(n)'[k] = t
        PROVE  Past(LastPos[n], k, t)'
    BY <1>0, <1>3, HoldsPastsNext
  <1>4. CASE Same(n)
    <2>1. lastIndex(n)' = lastIndex(n)
      BY <1>1, <1>4, Bounds DEF LogShape, OnInterval, Same
    <2> QED
      BY <1>2, <1>3, <1>4, <2>1 DEF Same
  <1>5. CASE Grew(n)
    <2>1. lastIndex(n)' = lastIndex(n) + 1
      BY <1>1, <1>5, Bounds DEF LogShape, OnInterval, Grew, GrownFrom
    <2> QED
      BY <1>1, <1>2, <1>3, <1>5, <2>1, Bounds DEF Grew, GrownFrom, LogShape
  <1>6. ASSUME NEW m \in Requests, Followed(n, m), Spliced(n, m)
        PROVE  Past(LastPos[n], k, t)'
    <2>1. PICK K : /\ SpliceOf(FullLog(n)', FullLog(n), lastIndex(n),
                               Fragment(m), FirstOf(m), LastOf(m), K)
                   /\ K = lastIndex(n) \/ Splits(n, m, K)
      BY <1>6 DEF Spliced
    <2>2. k <= K
      BY <1>0, <1>2, <1>6, <2>1, SplitKeeps, Bounds DEF Spliced
    <2>3. K \in Nat /\ LastOf(m) \in Nat
      <3>1. LastOf(m) \in 0..MaxIndex
        BY <1>0, FragmentShape
      <3> QED
        BY <2>1, <3>1, Bounds DEF SpliceOf
    <2>4. k \in DOMAIN FullLog(n)' /\ FullLog(n)'[k] = FullLog(n)[k]
      BY <1>0, <2>1, <2>2, <2>3 DEF SpliceOf
    <2> QED
      BY <1>1, <1>2, <1>3, <2>4 DEF LogShape, OnInterval
  <1>7. ASSUME NEW m \in Requests, Followed(n, m), CutAt(n, m)
        PROVE  Past(LastPos[n], k, t)'
    <2>1. PICK K : Splits(n, m, K) /\ LeftTo(n, K)
      BY <1>7 DEF CutAt
    <2>2. k <= K /\ K \in Nat
      BY <1>0, <1>2, <1>7, <2>1, SplitKeeps DEF CutAt, Splits
    <2>3. k \in DOMAIN FullLog(n)' /\ FullLog(n)'[k] = FullLog(n)[k]
      BY <1>0, <2>1, <2>2 DEF LeftTo
    <2> QED
      BY <1>1, <1>2, <1>3, <2>3 DEF LogShape, OnInterval
  <1>8. ASSUME NEW m \in Requests, Followed(n, m), Replaced(n, m)
        PROVE  Past(LastPos[n], k, t)'
    <2>1. /\ m.type = "IS" /\ m.snap.index > 0 /\ m.snap.index \in Nat /\ m.snap.term \in Nat
          /\ ~Past(LastPos[n], m.snap.index, m.snap.term)
      <3>1. m.snap \in Snap
        BY <1>0, <1>8, FragmentShape DEF Replaced, Unlike, SnapshotRequest
      <3> QED
        BY <1>8, <3>1, Bounds DEF Replaced, Unlike, Snap, Index, E!Term
    <2>2. /\ DOMAIN Fragment(m) = 1..m.snap.index
          /\ Fragment(m)[m.snap.index] = m.snap.term
      BY <1>0, <2>1, FragmentShape DEF OnInterval
    <2>3. lastIndex(n)' = m.snap.index
      BY <1>1, <1>8, <2>1, <2>2, Bounds DEF Replaced, LogShape, OnInterval
    <2>4. LastPos'[n].index = m.snap.index /\ LastPos'[n].term = m.snap.term
      BY <1>1, <1>8, <2>1, <2>2, <2>3 DEF Replaced, LogShape
    <2>5. LastPos[n].index \in Nat /\ LastPos[n].term \in Nat
      BY <1>1, Bounds DEF LogShape
    <2>6. Past(LastPos'[n], k, t)
      BY <1>0, <2>1, <2>4, <2>5 DEF Past
    <2> QED
      BY <2>6 DEF Past
  <1> QED
    BY <1>0, <1>4, <1>5, <1>6, <1>7, <1>8 DEF LogStep, Emptying

\* Terms and victories around a step.
LEMMA ElectionMoves ==
    ASSUME Step1
    PROVE  /\ ElectionShape /\ ElectionShape' /\ leaders \subseteq leaders'
           /\ EP!ClaimsInv /\ EP!SafetyInv /\ EP!SafetyInv' /\ EP!ClaimStep
           /\ \A n \in Node : /\ currentTerm[n] \in Nat /\ currentTerm'[n] \in Nat
                              /\ currentTerm[n] \in EP!Term /\ currentTerm'[n] \in EP!Term
                              /\ currentTerm[n] <= currentTerm'[n]
  <1>1. ElectionShape /\ ElectionShape'
    BY ElectionFacts, ElectionFactsNext DEF Step1, ElectionStep
  <1> QED
    BY <1>1 DEF Step1, ElectionStep, Elections, ElectionShape, EP!Term

\* The votes of v in a term nobody has won still go to logs with the entry.
VotesPast(v, u, k, t) ==
    \A c \in Node : EP!Held(v, u, c) /\ currentTerm[c] = u => Past(LastPos[c], k, t)

\* The votes that shield an entry still went to holders of it after a step.
LEMMA VotesPastNext ==
    ASSUME Step1, TermsSound', NEW v \in Node, NEW u \in Epoch, NEW k \in 1..MaxIndex, NEW t \in 1..MaxTerm,
           Covers(k, t), ~Won(u)', Shields(v, u, k, t)
    PROVE  VotesPast(v, u, k, t)'
  <1> SUFFICES ASSUME NEW c \in Node, EP!Held(v, u, c)', currentTerm'[c] = u
               PROVE  Past(LastPos[c], k, t)'
    BY DEF VotesPast
  <1>0. /\ Fits /\ ElectionShape' /\ leaders \subseteq leaders'
        /\ EP!ClaimsInv /\ EP!VoteSound
        /\ currentTerm[c] \in Nat /\ currentTerm'[c] \in EP!Term /\ currentTerm[c] <= currentTerm'[c]
        /\ currentTerm[v] \in Nat /\ u \in Nat /\ ~Won(u)
        /\ \A n \in Node : LastPos[n].term \in Nat /\ LastPos[n].index \in Nat
        /\ k \in Nat /\ t \in Nat
    <2>1. Fits /\ EP!ClaimStep
      BY ElectionMoves DEF Step1, Sound
    <2>2. \A n \in Node : LastPos[n].term \in Nat /\ LastPos[n].index \in Nat
      BY <2>1, LogShapes, Bounds DEF LogShape
    <2> QED
      BY <2>1, <2>2, ElectionMoves, Bounds DEF EP!ClaimStep, Epoch, Won
  <1>1. ~Emptying(c)
    <2>1. ASSUME NEW m \in Requests, Followed(c, m) PROVE FALSE
      <3>1. [node |-> m.from, term |-> m.term] \in leaders' /\ m.term = u
        BY <1>0, <2>1, FragmentShape DEF Followed
      <3> QED
        BY <3>1 DEF Won
    <2> QED
      BY <2>1 DEF Emptying
  <1>2. Past(LastPos[c], k, t)
    <2>1. CASE EP!Held(v, u, c)
      <3>1. currentTerm[c] = u
        <4>1. ASSUME NEW m \in voteMsgs, m.type = "reply", m.to = c, m.forTerm = u
              PROVE  u <= currentTerm[c]
          BY <1>0, <4>1 DEF EP!ClaimsInv
        <4>2. u <= currentTerm[c]
          BY <1>0, <2>1, <4>1 DEF EP!Held
        <4> QED
          BY <1>0, <4>2
      <3> QED
        BY <2>1, <3>1 DEF Shields
    <2>2. CASE ~EP!Held(v, u, c)
      <3>1. currentTerm[v] <= u /\ EP!UpToDate(LastPos[c], LastPos[v])
        <4>1. u \in EP!Term /\ ~EP!Won(u)
          BY <1>0 DEF Won, EP!Won
        <4> QED
          BY <1>0, <2>2, <4>1 DEF EP!VoteSound
      <3>2. Past(LastPos[v], k, t)
        BY <1>0, <3>1 DEF Shields
      <3>3. /\ LastPos[c].term \in Nat /\ LastPos[c].index \in Nat
            /\ LastPos[v].term \in Nat /\ LastPos[v].index \in Nat
        BY <1>0
      <3> QED
        BY <1>0, <3>1, <3>2, <3>3 DEF Past, EP!UpToDate
    <2> QED
      BY <2>1, <2>2
  <1> QED
    BY <1>1, <1>2, PastKept DEF KeepsPast

\* v goes on shielding the entry, unless it empties its log.
LEMMA ShieldKept ==
    ASSUME Step1, TermsSound', NEW v \in Node, NEW u \in Epoch, NEW k \in 1..MaxIndex, NEW t \in 1..MaxTerm,
           Covers(k, t), ~Won(u)', Shields(v, u, k, t),
           ~Emptying(v) \/ currentTerm'[v] > u \/ ~Past(LastPos[v], k, t)
    PROVE  Shields(v, u, k, t)'
  <1>1. VotesPast(v, u, k, t)'
    BY VotesPastNext
  <1>2. (currentTerm[v] > u \/ Past(LastPos[v], k, t))'
    <2>1. CASE currentTerm[v] > u \/ currentTerm'[v] > u
      BY <2>1, ElectionMoves, Bounds DEF Epoch
    <2>2. CASE ~(currentTerm[v] > u) /\ ~(currentTerm'[v] > u)
      BY <2>2, PastKept DEF KeepsPast, Shields
    <2> QED
      BY <2>1, <2>2
  <1> QED
    BY <1>1, <1>2 DEF Shields, VotesPast

\* Who empties its log has been sent a later entry, and a majority shields that.
LEMMA EmptiedCovered ==
    ASSUME Step1, TermsSound', CommitsSecured, NEW v \in Node, Emptying(v),
           NEW u \in Epoch, NEW k \in 1..MaxIndex, NEW t \in 1..MaxTerm,
           Covers(k, t), ~Won(u)', currentTerm'[v] <= u, Past(LastPos[v], k, t)
    PROVE  Protected(k, t, u)'
  <1>1. PICK m \in Requests : Followed(v, m) /\ Emptied(v, m)
    BY DEF Emptying
  <1> DEFINE k1 == m.snap.index
             t1 == m.snap.term
  <1>2. /\ Fits /\ Elections
        /\ m.type = "IS" /\ k1 \in Nat /\ t1 \in Nat /\ k1 > 0
        /\ ~Past(LastPos[v], k1, t1)
        /\ Secured(k1, t1) /\ t1 <= m.term /\ m.term \in Nat
        /\ [node |-> m.from, term |-> m.term] \in leaders
    <2>1. Fits /\ Elections /\ m.type = "IS" /\ k1 > 0 /\ ~Past(LastPos[v], k1, t1)
      BY <1>1 DEF Step1, Sound, Emptied, Unlike
    <2>2. m.snap \in Snap /\ m.term \in Nat /\ [node |-> m.from, term |-> m.term] \in leaders
      BY <2>1, FragmentShape, Bounds DEF SnapshotRequest
    <2>3. Secured(k1, t1)
      BY <2>1 DEF CommitsSecured, RequestSecured
    <2>4. t1 <= m.term
      BY <2>1 DEF Fits, RequestsFit, RequestFits
    <2> QED
      BY <2>1, <2>2, <2>3, <2>4, Bounds DEF Snap, Index, E!Term
  <1>3. /\ u \in Nat /\ k \in Nat /\ t \in Nat /\ currentTerm'[v] \in Nat
        /\ currentTerm[v] \in Nat /\ currentTerm[v] <= currentTerm'[v]
        /\ \A n \in Node : LastPos[n].term \in Nat /\ LastPos[n].index \in Nat
    BY <1>2, ElectionMoves, LogShapes, Bounds DEF LogShape, Epoch
  <1>4. t1 < u /\ ~Won(u)
    <2>1. currentTerm'[v] = m.term /\ leaders' = leaders
      BY <1>1 DEF Followed
    <2>2. ~Won(u)
      BY <2>1 DEF Won
    <2>3. m.term # u
      BY <1>2, <2>2 DEF Won
    <2> QED
      BY <1>2, <1>3, <2>1, <2>2, <2>3
  <1>5. PICK Q \in SUBSET Node : EP!IsQuorum(Q) /\ \A w \in Q : Shields(w, u, k1, t1)
    BY <1>2, <1>4 DEF Secured, Protected
  <1>6. \A pos : Past(pos, k1, t1) /\ pos.term \in Nat /\ pos.index \in Nat => Past(pos, k, t)
    <2>1. LastPos[v].term \in Nat /\ LastPos[v].index \in Nat
      BY <1>3
    <2> QED
      BY <1>2, <1>3, <2>1 DEF Past
  <1>7. ASSUME NEW w \in Q PROVE Shields(w, u, k, t)'
    <2>1. w \in Node /\ Shields(w, u, k1, t1)
      BY <1>5
    <2>2. Shields(w, u, k, t)
      BY <1>3, <1>6, <2>1 DEF Shields
    <2>3. w # v
      BY <1>2, <1>3, <2>1 DEF Shields
    <2>4. ~Emptying(w)
      BY <2>1, <2>3 DEF Emptying, Step1, LogsStep
    <2> QED
      BY <2>1, <2>2, <2>4, ShieldKept
  <1> QED
    BY <1>5, <1>7 DEF Protected

\* A shield stays, or a majority takes its place.
LEMMA ShieldStep ==
    ASSUME Step1, TermsSound', CommitsSecured, NEW v \in Node,
           NEW u \in Epoch, NEW k \in 1..MaxIndex, NEW t \in 1..MaxTerm,
           Covers(k, t), ~Won(u)', Shields(v, u, k, t)
    PROVE  Shields(v, u, k, t)' \/ Protected(k, t, u)'
  <1>1. currentTerm'[v] \in Nat /\ u \in Nat
    BY ElectionMoves, Bounds DEF Epoch
  <1>2. CASE Emptying(v) /\ currentTerm'[v] <= u /\ Past(LastPos[v], k, t)
    BY <1>2, EmptiedCovered
  <1>3. CASE ~(Emptying(v) /\ currentTerm'[v] <= u /\ Past(LastPos[v], k, t))
    BY <1>1, <1>3, ShieldKept
  <1> QED
    BY <1>2, <1>3

\* A protected entry stays protected.
LEMMA ProtectedStep ==
    ASSUME Step1, TermsSound', CommitsSecured,
           NEW u \in Epoch, NEW k \in 1..MaxIndex, NEW t \in 1..MaxTerm,
           Covers(k, t), ~Won(u)', Protected(k, t, u)
    PROVE  Protected(k, t, u)'
  <1>1. PICK Q \in SUBSET Node : EP!IsQuorum(Q) /\ \A v \in Q : Shields(v, u, k, t)
    BY DEF Protected
  <1>2. CASE \A v \in Q : Shields(v, u, k, t)'
    BY <1>1, <1>2 DEF Protected
  <1>3. CASE \E v \in Q : ~Shields(v, u, k, t)'
    BY <1>1, <1>3, ShieldStep
  <1> QED
    BY <1>2, <1>3

\* A new leader has what it takes a majority to let it win with.
LEMMA WinnerPast ==
    ASSUME Step1, NEW e \in leaders' \ leaders,
           NEW k \in 1..MaxIndex, NEW t \in 1..MaxTerm, NEW Q \in SUBSET Node,
           EP!IsQuorum(Q), \A v \in Q : Shields(v, e.term, k, t)
    PROVE  Past(LastPos[e.node], k, t)
  <1>1. PICK P \in SUBSET Node :
           /\ EP!IsQuorum(P)
           /\ \A v \in P : \/ EP!Held(v, e.term, e.node) /\ currentTerm[e.node] = e.term
                           \/ v = e.node /\ currentTerm[v] < e.term
    BY ElectionMoves DEF EP!ClaimStep, EP!WinSound
  <1>2. PICK v \in Node : v \in P /\ v \in Q
    BY <1>1, QuorumsMeet
  <1>3. e.node \in Node /\ e.term \in Nat /\ currentTerm[v] \in Nat
    BY ElectionMoves, Bounds DEF ElectionShape
  <1>4. Shields(v, e.term, k, t)
    BY <1>2
  <1> QED
    BY <1>1, <1>2, <1>3, <1>4 DEF Shields

\* New logs hold what all later logs hold, when new leaders do.
LEMMA CoversStep ==
    ASSUME Step1, NEW k \in 1..MaxIndex, NEW t \in 1..MaxTerm, Covers(k, t), Won(t),
           \A e \in leaders' \ leaders : e.term > t => Past(LastPos[e.node], k, t)
    PROVE  Covers(k, t)'
  <1> SUFFICES ASSUME NEW e \in Carriers' PROVE CoverIn(e, k, t)
    BY DEF Covers
  <1>0. Fits /\ k \in Nat \ {0} /\ t \in Nat
    BY Bounds DEF Step1, Sound
  <1>1. CASE FromPart(e)
    BY <1>1, CoverPart DEF FromPart, Covers
  <1>2. CASE FromSplice(e)
    <2>1. PICK n \in Node, m \in Requests :
            \E K : SpliceOf(e, FullLog(n), lastIndex(n), Fragment(m), FirstOf(m), LastOf(m), K)
      BY <1>2 DEF FromSplice
    <2>2. PICK K : SpliceOf(e, FullLog(n), lastIndex(n), Fragment(m), FirstOf(m), LastOf(m), K)
      BY <2>1
    <2>3. /\ OnInterval(FullLog(n), 1, lastIndex(n)) /\ CoverIn(FullLog(n), k, t)
          /\ OnInterval(Fragment(m), FirstOf(m), LastOf(m)) /\ CoverIn(Fragment(m), k, t)
      BY <1>0, FullLogShape, FragmentShape DEF Carriers, Covers
    <2> QED
      BY <1>0, <2>2, <2>3, SpliceCover
  <1>3. CASE FromGrowth(e)
    <2>1. PICK n \in Node : e = FullLog(n)' /\ Grew(n)
      BY <1>3 DEF FromGrowth
    <2> DEFINE La == lastIndex(n)
               a  == FullLog(n)
               T  == currentTerm'[n]
    <2>2. /\ OnInterval(a, 1, La) /\ GrownFrom(e, a, La, T) /\ CoverIn(a, k, t)
          /\ T \in Nat /\ La \in Nat
      BY <1>0, <2>1, FullLogShape, GrowthFacts, Bounds DEF Grew, Covers, Carriers, OnInterval
    <2>3. /\ LastPos[n].index = La /\ LastPos[n].term \in Nat
          /\ La > 0 => LastPos[n].term = a[La]
          /\ La = 0 => LastPos[n].term = 0
      BY <1>0, LogShapes DEF LogShape
    <2>4. CASE Crowned(n) /\ T = currentTerm[n]
      <3>1. LastPos[n].term = T
        BY <1>0, <2>4, LogShapes DEF LogShape, WinnersOwn, Step1, Sound, Histories
      <3>2. T > t => La >= 1 /\ a[La] > t
        BY <1>0, <2>2, <2>3, <3>1
      <3>3. T = t => k > La \/ a[La] = t
        BY <1>0, <2>2, <2>3, <3>1
      <3> HIDE DEF La, a, T
      <3> QED
        BY <1>0, <2>2, <3>2, <3>3, GrownCover
    <2>5. CASE [node |-> n, term |-> T] \in leaders' \ leaders /\ ~Won(T)
      <3>1. T # t
        BY <2>5
      <3>2. T > t => Past(LastPos[n], k, t)
        <4>1. [node |-> n, term |-> T].term = T /\ [node |-> n, term |-> T].node = n
          OBVIOUS
        <4> QED
          BY <2>5, <4>1
      <3>3. T > t => La >= 1 /\ (a[La] > t \/ (a[La] = t /\ La >= k))
        BY <1>0, <2>2, <2>3, <3>2 DEF Past
      <3> HIDE DEF La, a, T
      <3> QED
        BY <1>0, <2>2, <3>1, <3>3, GrownCover
    <2> QED
      BY <2>1, <2>4, <2>5, CrownStep DEF Step1, Grew
  <1> QED
    BY <1>1, <1>2, <1>3, CarrierTraced

\* What is secured stays secured.
LEMMA SecuredNext ==
    ASSUME Step1, TermsSound', CommitsSecured, NEW k, NEW t, Secured(k, t)
    PROVE  Secured(k, t)'
  <1>0. /\ k \in 1..MaxIndex /\ t \in 1..MaxTerm /\ Covers(k, t) /\ Fits /\ Elections
        /\ k \in Nat /\ t \in Nat /\ MaxTerm \in Nat
    BY Bounds DEF Secured, Step1, Sound
  <1>1. Won(t)
    <2>1. PICK p \in Node : k \in 1..lastIndex(p) /\ FullLog(p)[k] = t
      BY <1>0, SecuredHolder
    <2> QED
      BY <1>0, <2>1, FullLogShape DEF Step1, Sound, Histories, TermsSound, Carriers, OnInterval
  <1>2. ASSUME NEW e \in leaders' \ leaders, e.term > t
        PROVE  Past(LastPos[e.node], k, t)
    <2>1. e.term \in Epoch /\ ~Won(e.term)
      BY <1>0, <1>2, ElectionMoves DEF ElectionShape, Epoch, Won
    <2>2. PICK Q \in SUBSET Node : EP!IsQuorum(Q) /\ \A v \in Q : Shields(v, e.term, k, t)
      BY <1>2, <2>1 DEF Secured, Protected
    <2> QED
      BY <1>0, <2>2, WinnerPast
  <1>3. Covers(k, t)'
    BY <1>0, <1>1, <1>2, CoversStep
  <1>4. ASSUME NEW u \in Epoch, u > t, ~Won(u)'
        PROVE  Protected(k, t, u)'
    <2>1. ~Won(u)
      BY <1>4, ElectionMoves DEF Won
    <2> QED
      BY <1>0, <1>4, <2>1, ProtectedStep DEF Secured
  <1> QED
    BY <1>0, <1>3, <1>4 DEF Secured

\* What is settled stays settled.
LEMMA SettledNext ==
    ASSUME Step1, TermsSound', CommitsSecured, NEW i \in Nat \ {0}, NEW u, Settled(i, u)
    PROVE  Settled(i, u)'
  <1>0. Fits /\ Elections /\ Fits'
    BY DEF Step1, Sound
  <1>1. PICK k \in 1..MaxIndex, t \in 1..MaxTerm :
            /\ i \in 1..k /\ Secured(k, t)
            /\ \A n \in Node : k \in DOMAIN FullLog(n) /\ FullLog(n)[k] = t => FullLog(n)[i] = u
    BY DEF Settled
  <1>2. PICK p \in Node : k \in 1..lastIndex(p) /\ FullLog(p)[k] = t
    BY <1>0, <1>1, SecuredHolder
  <1>3. /\ DOMAIN FullLog(p) = 1..lastIndex(p) /\ lastIndex(p) \in Nat
        /\ FullLog(p) \in Carriers /\ FullLog(p)[i] = u /\ k \in Nat
    BY <1>0, <1>1, <1>2, FullLogShape, Bounds DEF OnInterval, Carriers
  <1>4. ASSUME NEW n \in Node, k \in DOMAIN FullLog(n)', FullLog(n)'[k] = t
        PROVE  FullLog(n)'[i] = u
    <2>1. DOMAIN FullLog(n)' = 1..lastIndex(n)' /\ lastIndex(n)' \in Nat /\ FullLog(n)' \in Carriers'
      BY <1>0, LogShapesNext, Bounds DEF LogShape, OnInterval, Carriers
    <2>2. Coheres(FullLog(n)', FullLog(p))
      BY <1>3, <2>1, NewCoheresOld
    <2>3. i \in DOMAIN FullLog(n)' /\ i \in DOMAIN FullLog(p)
      BY <1>1, <1>2, <1>3, <1>4, <2>1
    <2>4. k \in DOMAIN FullLog(p)
      BY <1>2, <1>3
    <2> QED
      BY <1>1, <1>2, <1>3, <1>4, <2>2, <2>3, <2>4 DEF Coheres
  <1>5. Secured(k, t)'
    BY <1>1, SecuredNext
  <1> QED
    BY <1>1, <1>4, <1>5 DEF Settled

-----------------------------------------------------------------------------
(***************************************************************************)
(* Acknowledgements, after the step.                                       *)
(***************************************************************************)

\* p takes over what the request m carries.
Took(p, m) ==
    \A i \in DOMAIN Fragment(m) : i \in DOMAIN FullLog(p)' /\ FullLog(p)'[i] = Fragment(m)[i]

\* p takes over the log of l up to i.
NewAck(l, p, i) ==
    \E m \in Requests : /\ m.from = l /\ m.term = currentTerm[l]
                        /\ Followed(p, m) /\ Took(p, m) /\ i <= LastOf(m)

\* What is acknowledged was acknowledged before, or has just been taken over.
AckStep ==
    \A l, p \in Node : Crowned(l)' => \A i \in 1..MaxIndex :
        Acked(l, p, i)' => \/ NewAck(l, p, i)
                           \/ Crowned(l) /\ currentTerm'[l] = currentTerm[l] /\ Acked(l, p, i)

\* What a leader sends in its term is part of its log.
LEMMA SentPart ==
    ASSUME Sound, NEW l \in Node, Crowned(l), NEW m \in Requests, m.from = l, m.term = currentTerm[l]
    PROVE  PartOf(Fragment(m), FullLog(l))
  <1>0. Fits /\ Coherent /\ WinnersOwn
    BY DEF Sound, Histories
  <1>1. /\ DOMAIN FullLog(l) = 1..lastIndex(l) /\ lastIndex(l) \in Nat
        /\ DOMAIN Fragment(m) = FirstOf(m)..LastOf(m) /\ FirstOf(m) \in Nat \ {0}
        /\ LastOf(m) \in Nat
        /\ FullLog(l) \in Carriers /\ Fragment(m) \in Carriers
        /\ m.type = "AE" \/ m.type = "IS"
    BY <1>0, FullLogShape, FragmentShape, Bounds DEF OnInterval, Carriers
  <1>2. CASE m.type = "AE"
    <2>1. LastOf(m) >= FirstOf(m) /\ Fragment(m)[LastOf(m)] = currentTerm[l]
      BY <1>0, <1>2, FragmentShape
    <2>2. LastOf(m) \in DOMAIN Fragment(m)
      BY <1>1, <2>1
    <2>3. LastOf(m) \in 1..lastIndex(l) /\ FullLog(l)[LastOf(m)] = currentTerm[l]
      BY <1>0, <1>1, <2>1, <2>2 DEF WinnersOwn, OwnsIn
    <2>4. \A i \in DOMAIN Fragment(m) : i \in DOMAIN FullLog(l) /\ i <= LastOf(m)
      BY <1>1, <2>3
    <2>5. \A i \in DOMAIN Fragment(m) \cap DOMAIN FullLog(l) :
             i <= LastOf(m) => Fragment(m)[i] = FullLog(l)[i]
      BY <1>0, <1>1, <2>1, <2>2, <2>3, SharedPrefix
    <2> QED
      BY <2>4, <2>5 DEF PartOf
  <1>3. CASE m.type = "IS"
    <2>1. m.snap.index <= snap[l].index /\ m.snap.index \in Nat /\ snap[l].index \in Nat
      <3>1. m.snap.index <= snap[l].index
        BY <1>0, <1>3 DEF Fits, RequestsFit, RequestFits
      <3>2. m.snap \in Snap
        BY <1>0, <1>3, FragmentShape DEF SnapshotRequest
      <3> QED
        BY <1>0, <3>1, <3>2, LogTypes, Bounds DEF Snap, Index, Fits
    <2>2. FirstOf(m) = 1 /\ LastOf(m) = m.snap.index
      BY <1>0, <1>3, FragmentShape
    <2>3. \A i \in DOMAIN Fragment(m) : i \in 1..snap[l].index /\ Fragment(m)[i] = AppliedTerm(i)
      BY <1>1, <1>3, <2>1, <2>2 DEF Fragment
    <2> QED
      BY <1>0, <1>1, <2>1, <2>3, FullLogShape DEF PartOf
  <1> QED
    BY <1>1, <1>2, <1>3

\* A leader keeps what it has.
LEMMA CrownedKeeps ==
    ASSUME Step1, NEW l \in Node, Crowned(l)'
    PROVE  /\ lastIndex(l) \in Nat /\ lastIndex(l)' \in Nat /\ lastIndex(l) <= lastIndex(l)'
           /\ DOMAIN FullLog(l) = 1..lastIndex(l) /\ DOMAIN FullLog(l)' = 1..lastIndex(l)'
           /\ \A i \in 1..lastIndex(l) : FullLog(l)'[i] = FullLog(l)[i]
           /\ lastIndex(l)' = lastIndex(l) \/ Grew(l)
           /\ Grew(l) => lastIndex(l)' = lastIndex(l) + 1
  <1>1. /\ lastIndex(l) \in Nat /\ lastIndex(l)' \in Nat
        /\ DOMAIN FullLog(l) = 1..lastIndex(l) /\ DOMAIN FullLog(l)' = 1..lastIndex(l)'
    BY LogShapes, LogShapesNext, Bounds DEF LogShape, OnInterval, Step1, Sound
  <1>2. Grew(l) => lastIndex(l)' = lastIndex(l) + 1
    BY <1>1 DEF Grew, GrownFrom
  <1>3. Same(l) => lastIndex(l)' = lastIndex(l)
    BY <1>1 DEF Same
  <1> QED
    BY <1>1, <1>2, <1>3, CrownedLog DEF Grew, GrownFrom, Same

\* What has just been acknowledged is in both logs.
LEMMA NewAckHolds ==
    ASSUME Step1, Coherent', NEW l \in Node, NEW p \in Node, Crowned(l)',
           NEW i \in 1..MaxIndex, NewAck(l, p, i)
    PROVE  /\ Crowned(l) /\ currentTerm'[l] = currentTerm[l] /\ currentTerm'[p] = currentTerm[l]
           /\ p # l /\ i <= lastIndex(l)
           /\ i \in 1..lastIndex(p)' /\ i \in 1..lastIndex(l)'
           /\ FullLog(p)'[i] = FullLog(l)'[i]
  <1>0. Fits /\ Sound /\ Fits' /\ ElectionStep /\ i \in Nat \ {0}
    BY Bounds DEF Step1, Sound
  <1>1. PICK m \in Requests : /\ m.from = l /\ m.term = currentTerm[l]
                              /\ Followed(p, m) /\ Took(p, m) /\ i <= LastOf(m)
    BY DEF NewAck
  <1>2. Crowned(l) /\ currentTerm'[l] = currentTerm[l]
    BY <1>0, <1>1, CrownStep DEF Followed
  <1>3. currentTerm'[p] = currentTerm[l] /\ p # l
    BY <1>0, <1>1, FragmentShape DEF Followed
  <1>4. PartOf(Fragment(m), FullLog(l))
    BY <1>0, <1>1, <1>2, SentPart
  <1> DEFINE j == LastOf(m)
  <1>5. j \in Nat \ {0} /\ j \in DOMAIN Fragment(m)
    <2>1. /\ LastOf(m) \in 0..MaxIndex /\ FirstOf(m) \in Nat \ {0}
          /\ DOMAIN Fragment(m) = FirstOf(m)..LastOf(m)
          /\ m.type = "AE" => LastOf(m) >= FirstOf(m)
          /\ m.type = "IS" => FirstOf(m) = 1
          /\ m.type = "AE" \/ m.type = "IS"
      BY <1>0, FragmentShape DEF OnInterval
    <2>2. j \in Nat /\ j >= 1
      BY <1>0, <1>1, <2>1, Bounds
    <2> QED
      BY <2>1, <2>2
  <1>6. /\ j \in DOMAIN FullLog(l) /\ FullLog(l)[j] = Fragment(m)[j]
        /\ j \in DOMAIN FullLog(p)' /\ FullLog(p)'[j] = Fragment(m)[j]
    BY <1>1, <1>4, <1>5 DEF PartOf, Took
  <1>7. /\ lastIndex(l) \in Nat /\ lastIndex(l)' \in Nat /\ lastIndex(l) <= lastIndex(l)'
        /\ DOMAIN FullLog(l) = 1..lastIndex(l) /\ DOMAIN FullLog(l)' = 1..lastIndex(l)'
        /\ \A x \in 1..lastIndex(l) : FullLog(l)'[x] = FullLog(l)[x]
    BY CrownedKeeps
  <1>8. DOMAIN FullLog(p)' = 1..lastIndex(p)' /\ lastIndex(p)' \in Nat
    BY <1>0, LogShapesNext, Bounds DEF LogShape, OnInterval
  <1> HIDE DEF j
  <1>9. i <= j
    BY <1>1 DEF j
  <1>10. /\ i \in 1..lastIndex(l) /\ i \in 1..lastIndex(l)' /\ i \in 1..lastIndex(p)'
         /\ j \in DOMAIN FullLog(l)' /\ FullLog(p)'[j] = FullLog(l)'[j]
    BY <1>0, <1>5, <1>6, <1>7, <1>8, <1>9
  <1>11. FullLog(p)'[i] = FullLog(l)'[i]
    <2>1. Coheres(FullLog(p)', FullLog(l)')
      BY DEF Coherent, Carriers
    <2> QED
      BY <1>5, <1>6, <1>7, <1>8, <1>9, <1>10, <2>1 DEF Coheres
  <1> QED
    BY <1>2, <1>3, <1>10, <1>11

\* What p shares with its leader stays, unless p makes room for a snapshot of
\* entries above it.
LEMMA SharedStays ==
    ASSUME Step1, NEW l \in Node, NEW p \in Node, p # l, Crowned(l),
           currentTerm[p] = currentTerm[l], currentTerm'[p] = currentTerm[l],
           NEW i \in Nat \ {0}, i <= lastIndex(p), i <= lastIndex(l), FullLog(p)[i] = FullLog(l)[i],
           \A m \in Requests : Followed(p, m) /\ Unlike(p, m) => m.snap.index <= i
    PROVE  i \in 1..lastIndex(p)' /\ FullLog(p)'[i] = FullLog(l)[i]
  <1>0. /\ Fits /\ Fits' /\ Sound /\ Coherent /\ TermsSound /\ i \in Nat \ {0}
        /\ (LogStep(p) \/ Same(p))
        /\ ElectionShape /\ currentTerm[l] \in Nat /\ currentTerm[p] \in Nat
        /\ currentTerm'[p] \in Nat /\ currentTerm[p] <= currentTerm'[p]
    BY ElectionMoves, Bounds DEF Step1, Sound, Histories, LogsStep
  <1>2. i <= lastIndex(p) /\ FullLog(p)[i] = FullLog(l)[i] /\ i <= lastIndex(l)
    OBVIOUS
  <1>3. /\ lastIndex(p) \in Nat /\ DOMAIN FullLog(p) = 1..lastIndex(p) /\ i \in 1..lastIndex(p)
        /\ lastIndex(p)' \in Nat /\ DOMAIN FullLog(p)' = 1..lastIndex(p)'
        /\ lastIndex(l) \in Nat /\ DOMAIN FullLog(l) = 1..lastIndex(l) /\ i \in 1..lastIndex(l)
        /\ FullLog(p) \in Carriers /\ FullLog(l) \in Carriers
    <2>1. LogShape(p) /\ LogShape(p)' /\ LogShape(l)
      BY <1>0, LogShapes, LogShapesNext
    <2>2. FullLog(p) \in Carriers /\ FullLog(l) \in Carriers
      BY DEF Carriers
    <2> QED
      BY <1>0, <1>2, <2>1, <2>2, Bounds DEF LogShape, OnInterval
  <1>4. \A x \in 1..i : /\ x \in DOMAIN FullLog(p) /\ x \in DOMAIN FullLog(l)
                        /\ FullLog(p)[x] = FullLog(l)[x]
    <2>1. Coheres(FullLog(p), FullLog(l))
      BY <1>0, <1>3 DEF Coherent
    <2> QED
      BY <1>0, <1>2, <1>3, <2>1 DEF Coheres
  <1>5. CASE Same(p)
    BY <1>2, <1>3, <1>5 DEF Same
  <1>6. CASE Grew(p)
    <2>1. lastIndex(p)' = lastIndex(p) + 1
      BY <1>3, <1>6 DEF Grew, GrownFrom
    <2> QED
      BY <1>2, <1>3, <1>6, <2>1 DEF Grew, GrownFrom
  <1>7. ASSUME NEW m \in Requests, Followed(p, m)
        PROVE  m.from = l /\ m.term = currentTerm[l] /\ PartOf(Fragment(m), FullLog(l))
    <2>1. /\ m.from \in Node /\ m.term \in Nat
          /\ [node |-> m.from, term |-> m.term] \in leaders
      <3>1. m.from \in Node /\ m.term \in 1..MaxTerm /\ [node |-> m.from, term |-> m.term] \in leaders
        BY <1>0, FragmentShape
      <3> QED
        BY <3>1, Bounds
    <2>2. m.term = currentTerm[l]
      BY <1>7 DEF Followed
    <2>3. m.from = l
      BY <1>0, <2>1, <2>2 DEF Crowned, ElectionShape
    <2> QED
      BY <1>0, <2>2, <2>3, SentPart
  <1>8. ASSUME NEW m \in Requests, Followed(p, m), NEW K, Splits(p, m, K)
        PROVE  i <= K
    <2>1. /\ K \in Nat /\ K + 1 \in FirstOf(m)..LastOf(m) /\ FullLog(p)[K + 1] # Fragment(m)[K + 1]
      BY <1>8 DEF Splits
    <2>2. K + 1 \in DOMAIN Fragment(m)
      BY <1>0, <2>1, FragmentShape DEF OnInterval
    <2>3. Fragment(m)[K + 1] = FullLog(l)[K + 1]
      BY <1>7, <1>8, <2>2 DEF PartOf
    <2> QED
      BY <1>0, <1>4, <2>1, <2>3
  <1>9. ASSUME NEW m \in Requests, Followed(p, m), Spliced(p, m)
        PROVE  i \in 1..lastIndex(p)' /\ FullLog(p)'[i] = FullLog(l)[i]
    <2>1. PICK K : /\ SpliceOf(FullLog(p)', FullLog(p), lastIndex(p),
                               Fragment(m), FirstOf(m), LastOf(m), K)
                   /\ K = lastIndex(p) \/ Splits(p, m, K)
      BY <1>9 DEF Spliced
    <2>2. i <= K
      BY <1>2, <1>8, <1>9, <2>1
    <2>3. K \in Nat /\ LastOf(m) \in Nat
      <3>1. LastOf(m) \in 0..MaxIndex
        BY <1>0, FragmentShape
      <3> QED
        BY <2>1, <3>1, Bounds DEF SpliceOf
    <2>4. i \in DOMAIN FullLog(p)' /\ FullLog(p)'[i] = FullLog(p)[i]
      BY <1>0, <2>1, <2>2, <2>3 DEF SpliceOf
    <2> QED
      BY <1>2, <1>3, <2>4
  <1>10. ASSUME NEW m \in Requests, Followed(p, m), CutAt(p, m)
         PROVE  i \in 1..lastIndex(p)' /\ FullLog(p)'[i] = FullLog(l)[i]
    <2>1. PICK K : Splits(p, m, K) /\ LeftTo(p, K)
      BY <1>10 DEF CutAt
    <2>2. i <= K /\ K \in Nat
      BY <1>8, <1>10, <2>1 DEF Splits
    <2>3. i \in DOMAIN FullLog(p)' /\ FullLog(p)'[i] = FullLog(p)[i]
      BY <1>0, <2>1, <2>2 DEF LeftTo
    <2> QED
      BY <1>2, <1>3, <2>3
  <1>11. ASSUME NEW m \in Requests, Followed(p, m), Unlike(p, m)
         PROVE  FALSE
    <2> DEFINE s == m.snap.index
    <2>1. m.type = "IS" /\ s > 0 /\ ~Past(LastPos[p], s, m.snap.term)
      BY <1>11 DEF Unlike
    <2>2. s <= snap[l].index /\ s \in Nat /\ snap[l].index \in Nat
      <3>1. s <= snap[l].index
        BY <1>0, <1>7, <1>11, <2>1 DEF Fits, RequestsFit, RequestFits
      <3>2. m.snap \in Snap
        BY <1>0, <2>1, FragmentShape DEF SnapshotRequest
      <3> QED
        BY <1>0, <3>1, <3>2, LogTypes, Bounds DEF Snap, Index, Fits
    <2>3. s <= i /\ s \in 1..i
      BY <1>0, <1>11, <2>1, <2>2
    <2>4. s \in DOMAIN Fragment(m) /\ Fragment(m)[s] = m.snap.term
      <3>1. /\ DOMAIN Fragment(m) = 1..s /\ Fragment(m)[s] = m.snap.term
        BY <1>0, <2>1, FragmentShape DEF OnInterval
      <3> QED
        BY <2>1, <2>2, <3>1
    <2>5. FullLog(p)[s] = m.snap.term
      BY <1>4, <1>7, <1>11, <2>3, <2>4 DEF PartOf
    <2>6. s \in 1..lastIndex(p)
      BY <1>3, <1>4, <2>3
    <2>7. Past(LastPos[p], s, FullLog(p)[s])
      BY <1>0, <2>6, HoldsPast
    <2> QED
      BY <2>1, <2>5, <2>7
  <1> QED
    BY <1>0, <1>5, <1>6, <1>9, <1>10, <1>11 DEF LogStep, Replaced, Emptied

\* What a leader has sent as a snapshot it has compacted.
LEMMA SentBelow ==
    ASSUME Sound, NEW l \in Node, Crowned(l), NEW m \in Requests, m.term = currentTerm[l], m.type = "IS"
    PROVE  m.from = l /\ m.snap.index <= snap[l].index
  <1>1. m.from \in Node /\ m.term \in 1..MaxTerm /\ [node |-> m.from, term |-> m.term] \in leaders
    BY FragmentShape DEF Sound
  <1>2. m.from = l
    BY <1>1, ElectionFacts DEF Crowned, ElectionShape, Sound
  <1> QED
    BY <1>2 DEF Sound, Fits, RequestsFit, RequestFits

\* What has been acknowledged earlier stays, while p follows l.
LEMMA OldAckHolds ==
    ASSUME Step1, AcksHold, NEW l \in Node, NEW p \in Node, Crowned(l)', Crowned(l),
           currentTerm'[l] = currentTerm[l], currentTerm'[p] <= currentTerm'[l],
           NEW i \in 1..MaxIndex, i >= snap[l].index, Acked(l, p, i)
    PROVE  i \in 1..lastIndex(p)' /\ FullLog(p)'[i] = FullLog(l)[i]
  <1>0. /\ Sound /\ i \in Nat \ {0}
        /\ currentTerm[l] \in Nat /\ currentTerm[p] \in Nat
        /\ currentTerm'[p] \in Nat /\ currentTerm[p] <= currentTerm'[p]
    BY ElectionMoves, Bounds DEF Step1
  <1>1. currentTerm[p] >= currentTerm[l] /\ p # l /\ i <= lastIndex(l)
    BY DEF AcksHold
  <1>2. currentTerm[p] = currentTerm[l] /\ currentTerm'[p] = currentTerm[l]
    BY <1>0, <1>1
  <1>3. i <= lastIndex(p) /\ FullLog(p)[i] = FullLog(l)[i]
    BY <1>1, <1>2 DEF AcksHold
  <1>4. ASSUME NEW m \in Requests, Followed(p, m), Unlike(p, m)
        PROVE  m.snap.index <= i
    <2>1. m.term = currentTerm[l] /\ m.type = "IS"
      BY <1>2, <1>4 DEF Followed, Unlike
    <2>2. m.snap.index <= snap[l].index
      BY <1>0, <2>1, SentBelow
    <2>3. m.snap \in Snap
      BY <1>0, <2>1, FragmentShape DEF SnapshotRequest, Sound
    <2>4. snap[l].index \in Nat
      BY <1>0, LogTypes DEF Sound, Fits
    <2> QED
      BY <1>0, <2>2, <2>3, <2>4, Bounds DEF Snap, Index
  <1> QED
    BY <1>0, <1>1, <1>2, <1>3, <1>4, SharedStays

\* Snapshots only move on.
SnapshotsGrow == \A n \in Node : snap[n].index <= snap'[n].index

\* A step keeps what has been acknowledged: no handler of AppendEntries or
\* InstallSnapshot cuts off what the leader of the term counts.
LEMMA AcksHoldNext ==
    ASSUME Step1, Coherent', AckStep, SnapshotsGrow, AcksHold
    PROVE  AcksHold'
  <1> SUFFICES ASSUME NEW l \in Node, NEW p \in Node, Crowned(l)'
        PROVE
        /\ \A i \in 1..MaxIndex : Acked(l, p, i)' =>
              i <= lastIndex(l)' /\ currentTerm'[p] >= currentTerm'[l] /\ p # l
        /\ p # l /\ currentTerm'[p] <= currentTerm'[l] =>
              \A i \in 1..MaxIndex : i >= snap'[l].index /\ Acked(l, p, i)' =>
                  i <= lastIndex(p)' /\ FullLog(p)'[i] = FullLog(l)'[i]
    BY DEF AcksHold
  <1>0. /\ lastIndex(l) \in Nat /\ lastIndex(l)' \in Nat /\ lastIndex(l) <= lastIndex(l)'
        /\ \A i \in 1..lastIndex(l) : FullLog(l)'[i] = FullLog(l)[i]
        /\ currentTerm[p] \in Nat /\ currentTerm'[p] \in Nat /\ currentTerm[l] \in Nat
        /\ currentTerm[p] <= currentTerm'[p]
    BY CrownedKeeps, ElectionMoves
  <1>1. ASSUME NEW i \in 1..MaxIndex, Acked(l, p, i)'
        PROVE  i <= lastIndex(l)' /\ currentTerm'[p] >= currentTerm'[l] /\ p # l
    <2>1. CASE NewAck(l, p, i)
      BY <1>0, <2>1, NewAckHolds
    <2>2. CASE Crowned(l) /\ currentTerm'[l] = currentTerm[l] /\ Acked(l, p, i)
      <3>1. i <= lastIndex(l) /\ currentTerm[p] >= currentTerm[l] /\ p # l
        BY <2>2 DEF AcksHold
      <3> QED
        BY <1>0, <2>2, <3>1, Bounds
    <2> QED
      BY <1>1, <2>1, <2>2 DEF AckStep
  <1>2. ASSUME currentTerm'[p] <= currentTerm'[l], NEW i \in 1..MaxIndex, i >= snap'[l].index,
               Acked(l, p, i)'
        PROVE  i <= lastIndex(p)' /\ FullLog(p)'[i] = FullLog(l)'[i]
    <2>0. /\ i \in 1..MaxIndex /\ i \in Nat /\ i >= snap[l].index
          /\ snap[l].index \in Nat /\ snap'[l].index \in Nat /\ snap[l].index <= snap'[l].index
      <3>1. snap[l].index \in Nat
        BY LogTypes DEF Step1, Sound, Fits
      <3>2. snap'[l].index \in Nat
        BY Bounds DEF Step1, Fits, TypeOK, Snap, Index
      <3> QED
        BY <1>2, <3>1, <3>2, Bounds DEF SnapshotsGrow
    <2>1. CASE NewAck(l, p, i)
      BY <1>0, <2>0, <2>1, NewAckHolds
    <2>2. CASE Crowned(l) /\ currentTerm'[l] = currentTerm[l] /\ Acked(l, p, i)
      <3>1. i <= lastIndex(l)
        BY <2>0, <2>2 DEF AcksHold
      <3>2. i \in 1..lastIndex(l)
        BY <1>0, <2>0, <3>1
      <3>3. i \in 1..lastIndex(p)' /\ FullLog(p)'[i] = FullLog(l)[i]
        BY <1>2, <2>0, <2>2, <3>2, OldAckHolds
      <3> QED
        BY <1>0, <3>2, <3>3
    <2> QED
      BY <1>2, <2>0, <2>1, <2>2 DEF AckStep
  <1> QED
    BY <1>1, <1>2

\* The entry a leader has just appended: nobody else has it. Either a later
\* leader is elected, and its voters block the entry, or nothing is later.
LEMMA FreshEntry ==
    ASSUME Step1, TermsSound', WinnersOwn', Coherent', AckStep, AcksHold,
           NEW l \in Node, Grew(l), NEW t \in 1..MaxTerm, currentTerm'[l] = t,
           NEW k \in Nat, k = lastIndex(l) + 1
    PROVE  (Blocked(l, k) \/ Guarded(l, k, t))'
  <1>0. /\ Fits' /\ Crowned(l)' /\ ElectionShape' /\ EP!SafetyInv'
        /\ lastIndex(l) \in Nat /\ lastIndex(l)' = k /\ t \in Nat /\ k \in Nat
        /\ FullLog(l)'[k] = t /\ k \in 1..lastIndex(l)' /\ k \in 1..MaxIndex
        /\ \A v \in Node : currentTerm'[v] \in Nat /\ currentTerm'[v] \in EP!Term
    <2>1. Fits' /\ Crowned(l)' /\ ElectionShape' /\ EP!SafetyInv' /\ t \in Nat
      BY ElectionMoves, Bounds DEF Step1, Grew
    <2>2. lastIndex(l) \in Nat /\ lastIndex(l)' = k
      BY <2>1, CrownedKeeps
    <2>3. FullLog(l)'[k] = t
      BY DEF Grew, GrownFrom
    <2>4. lastIndex(l)' \in 0..MaxIndex
      BY <2>1, LogShapesNext DEF LogShape
    <2> QED
      BY <2>1, <2>2, <2>3, <2>4, ElectionMoves, Bounds
  <1>1. \A v \in Node : ~Acked(l, v, k)'
    <2> SUFFICES ASSUME NEW v \in Node, Acked(l, v, k)' PROVE FALSE
      OBVIOUS
    <2>1. CASE NewAck(l, v, k)
      BY <1>0, <2>1, NewAckHolds
    <2>2. CASE Crowned(l) /\ Acked(l, v, k)
      BY <1>0, <2>2 DEF AcksHold
    <2> QED
      BY <1>0, <2>1, <2>2 DEF AckStep
  <1>2. CASE \E w \in leaders' : w.term > t
    <2>1. PICK w \in leaders' : w.term > t
      BY <1>2
    <2>2. PICK Q \in SUBSET Node : EP!IsQuorum(Q) /\ EP!Behind(Q, w)'
      BY <1>0 DEF EP!SafetyInv, EP!LeaderBacked
    <2>3. \A v \in Q : currentTerm'[v] >= w.term
      BY <1>0, <2>2, ElectionMoves, Bounds DEF EP!Behind, EP!Pledged, ElectionShape
    <2>4. w.term \in Nat
      BY <1>0, Bounds DEF ElectionShape
    <2>5. \A v \in Q : currentTerm'[v] > currentTerm'[l] /\ ~Acked(l, v, k)'
      BY <1>0, <1>1, <2>1, <2>3, <2>4
    <2> QED
      BY <2>2, <2>5 DEF Blocked
  <1>3. CASE \A w \in leaders' : ~(w.term > t)
    <2>1. Covers(k, t)'
      <3> SUFFICES ASSUME NEW e \in Carriers' PROVE CoverIn(e, k, t)
        BY DEF Covers
      <3>1. PICK lo, hi : OnInterval(e, lo, hi)
        BY <1>0, CarrierShapeNext
      <3> SUFFICES ASSUME NEW j \in DOMAIN e, e[j] > t \/ (e[j] = t /\ j >= k)
                   PROVE  j = k /\ e[j] = t
        BY <1>0, <3>1 DEF CoverIn, OnInterval
      <3>2. e[j] \in Nat /\ j \in Nat
        BY <3>1 DEF OnInterval
      <3>3. ~(e[j] > t)
        <4>1. Won(e[j])'
          BY DEF TermsSound
        <4> QED
          BY <1>3, <4>1 DEF Won
      <3>4. OwnsIn(FullLog(l)', lastIndex(l)', t, e)
        BY <1>0 DEF WinnersOwn
      <3>5. j \in 1..lastIndex(l)'
        BY <3>3, <3>4 DEF OwnsIn
      <3> QED
        BY <1>0, <3>2, <3>3, <3>5
    <2>2. ASSUME NEW u \in Epoch, u > t
          PROVE  Shields(l, u, k, t)'
      <3>1. Past(LastPos[l], k, FullLog(l)[k])'
        BY <1>0, HoldsPastsNext
      <3>2. Past(LastPos[l], k, t)'
        BY <1>0, <3>1 DEF Past
      <3>3. ASSUME NEW c \in Node, EP!Held(l, u, c)', currentTerm'[c] = u PROVE FALSE
        <4>1. EP!Pledged(l, u, c)'
          BY <1>0, <3>3 DEF EP!SafetyInv, EP!HeldIsPledged
        <4> QED
          BY <1>0, <2>2, <4>1, Bounds DEF EP!Pledged, Epoch
      <3> QED
        BY <3>2, <3>3 DEF Shields
    <2>3. Backers(l, k)' = {l}
      BY <1>1 DEF Backers
    <2> QED
      BY <2>1, <2>2, <2>3 DEF Guarded
  <1> QED
    BY <1>2, <1>3

\* Who has just acknowledged an entry shields it.
LEMMA NewBacker ==
    ASSUME Step1, TermsSound', Coherent', NEW l \in Node, NEW p \in Node, Crowned(l)',
           NEW t \in 1..MaxTerm, currentTerm'[l] = t,
           NEW k \in 1..MaxIndex, NewAck(l, p, k), FullLog(l)'[k] = t, NEW u \in Epoch, u > t
    PROVE  Shields(p, u, k, t)'
  <1>0. Fits' /\ EP!SafetyInv' /\ \A v \in Node : currentTerm'[v] \in Nat /\ currentTerm'[v] \in EP!Term
    BY ElectionMoves DEF Step1
  <1>1. k \in 1..lastIndex(p)' /\ FullLog(p)'[k] = t /\ currentTerm'[p] = t
    BY NewAckHolds
  <1>2. Past(LastPos[p], k, FullLog(p)[k])'
    BY <1>0, <1>1, HoldsPastsNext
  <1>3. Past(LastPos[p], k, t)'
    BY <1>1, <1>2 DEF Past
  <1>4. ASSUME NEW c \in Node, EP!Held(p, u, c)', currentTerm'[c] = u PROVE FALSE
    <2>1. EP!Pledged(p, u, c)'
      BY <1>0, <1>4 DEF EP!SafetyInv, EP!HeldIsPledged
    <2> QED
      BY <1>0, <1>1, <2>1, Bounds DEF EP!Pledged, Epoch
  <1> QED
    BY <1>3, <1>4 DEF Shields

\* An entry of a leader that was blocked stays so.
LEMMA BlockedStep ==
    ASSUME Step1, Coherent', AckStep, NEW l \in Node, Crowned(l)', Crowned(l),
           currentTerm'[l] = currentTerm[l], NEW k \in 1..MaxIndex, Blocked(l, k)
    PROVE  Blocked(l, k)'
  <1>1. PICK Q \in SUBSET Node :
          EP!IsQuorum(Q) /\ \A v \in Q : currentTerm[v] > currentTerm[l] /\ ~Acked(l, v, k)
    BY DEF Blocked
  <1>2. ASSUME NEW v \in Q PROVE currentTerm'[v] > currentTerm'[l] /\ ~Acked(l, v, k)'
    <2>1. currentTerm'[v] > currentTerm[l]
      BY <1>1, ElectionMoves
    <2>2. currentTerm[l] \in Nat
      BY ElectionMoves
    <2>3. ~NewAck(l, v, k)
      BY <2>1, <2>2, NewAckHolds
    <2> QED
      BY <1>1, <2>1, <2>3 DEF AckStep
  <1> QED
    BY <1>1, <1>2 DEF Blocked

\* A guarded entry stays guarded, unless a leader is elected without it.
LEMMA GuardedStep ==
    ASSUME Step1, TermsSound', Coherent', AckStep, CommitsSecured, NEW l \in Node, Crowned(l)',
           Crowned(l), currentTerm'[l] = currentTerm[l], NEW t \in 1..MaxTerm, currentTerm[l] = t,
           NEW k \in 1..MaxIndex, k \in 1..lastIndex(l), FullLog(l)[k] = t, Guarded(l, k, t)
    PROVE  (Blocked(l, k) \/ Guarded(l, k, t))'
  <1>0. /\ leaders \subseteq leaders' /\ ElectionShape /\ ElectionShape'
        /\ \A v \in Node : /\ currentTerm[v] \in Nat /\ currentTerm'[v] \in Nat
                           /\ currentTerm[v] <= currentTerm'[v]
        /\ Covers(k, t) /\ t \in Nat /\ k \in Nat
    BY ElectionMoves, Bounds DEF Guarded
  <1>1. Won(t)
    <2>1. [node |-> l, term |-> t].term = t
      OBVIOUS
    <2> QED
      BY <2>1 DEF Crowned, Won
  <1>2. CASE \E e \in leaders' \ leaders : e.term > t /\ ~Past(LastPos[e.node], k, t)
    <2>1. PICK e \in leaders' \ leaders : e.term > t /\ ~Past(LastPos[e.node], k, t)
      BY <1>2
    <2>2. /\ e.term \in Epoch /\ ~Won(e.term) /\ e.node \in Node /\ e.term \in Nat
          /\ e.term <= currentTerm'[e.node] /\ EP!WinSound /\ EP!SafetyInv /\ e.term \in EP!Term
      BY <1>0, ElectionMoves, Bounds DEF ElectionShape, Epoch, Won, EP!ClaimStep, EP!Term
    <2>3. ~Protected(k, t, e.term)
      BY <2>1, WinnerPast DEF Protected
    <2>4. \A v \in Backers(l, k) : Shields(v, e.term, k, t)
      BY <2>1, <2>2, <2>3 DEF Guarded
    <2>5. PICK P \in SUBSET Node :
             /\ EP!IsQuorum(P)
             /\ \A v \in P : \/ EP!Held(v, e.term, e.node) /\ currentTerm[e.node] = e.term
                             \/ v = e.node /\ currentTerm[v] < e.term
      BY <2>2 DEF EP!WinSound
    <2>6. ASSUME NEW v \in P PROVE currentTerm'[v] > currentTerm'[l] /\ ~Acked(l, v, k)'
      <3>1. v \notin Backers(l, k)
        BY <1>0, <2>1, <2>2, <2>4, <2>5 DEF Shields
      <3>2. currentTerm'[v] >= e.term
        <4>1. CASE v = e.node
          BY <2>2, <4>1
        <4>2. CASE EP!Held(v, e.term, e.node)
          <5>1. EP!Pledged(v, e.term, e.node)
            BY <2>2, <4>2 DEF EP!SafetyInv, EP!HeldIsPledged
          <5>2. currentTerm[v] >= e.term
            BY <1>0, <2>2, <5>1 DEF EP!Pledged
          <5>3. v \in Node
            OBVIOUS
          <5>4. currentTerm[v] \in Nat /\ currentTerm'[v] \in Nat /\ currentTerm[v] <= currentTerm'[v]
            BY <1>0, <5>3
          <5> QED
            BY <2>2, <5>2, <5>4
        <4> QED
          BY <2>5, <4>1, <4>2
      <3>3. currentTerm'[v] > t /\ currentTerm'[l] = t
        <4>1. currentTerm'[v] \in Nat
          BY <1>0
        <4> QED
          BY <1>0, <2>1, <2>2, <3>2, <4>1
      <3>4. ~NewAck(l, v, k)
        BY <1>0, <3>3, NewAckHolds
      <3>5. ~Acked(l, v, k)
        BY <3>1 DEF Backers
      <3> QED
        BY <3>3, <3>4, <3>5 DEF AckStep
    <2> QED
      BY <2>5, <2>6 DEF Blocked
  <1>3. CASE \A e \in leaders' \ leaders : e.term > t => Past(LastPos[e.node], k, t)
    <2>1. Covers(k, t)'
      BY <1>0, <1>1, <1>3, CoversStep
    <2>2. FullLog(l)'[k] = t
      BY CrownedKeeps
    <2>3. ASSUME NEW u \in Epoch, u > t, ~Won(u)', ~Protected(k, t, u)', NEW v \in Backers(l, k)'
          PROVE  Shields(v, u, k, t)'
      <3>1. ~Won(u) /\ v \in Node
        BY <1>0, <2>3 DEF Won, Backers
      <3>2. ~Protected(k, t, u)
        BY <1>0, <2>3, ProtectedStep
      <3>3. \A w \in Backers(l, k) : Shields(w, u, k, t)
        BY <2>3, <3>1, <3>2 DEF Guarded
      <3>4. CASE NewAck(l, v, k)
        BY <2>2, <2>3, <3>1, <3>4, NewBacker
      <3>5. CASE v \in Backers(l, k)
        BY <1>0, <2>3, <3>1, <3>3, <3>5, ShieldStep
      <3>6. v \in Backers(l, k) \/ NewAck(l, v, k)
        BY <2>3, <3>1 DEF Backers, AckStep
      <3> QED
        BY <3>4, <3>5, <3>6
    <2> QED
      BY <2>1, <2>3 DEF Guarded
  <1> QED
    BY <1>2, <1>3

\* An entry a leader may commit has been secured.
LEMMA AcksSecureNext ==
    ASSUME Step1, TermsSound', WinnersOwn', Coherent', AckStep, CommitsSecured, AcksHold, AcksSecure
    PROVE  AcksSecure'
  <1> SUFFICES ASSUME NEW l \in Node, NEW t \in 1..MaxTerm, Crowned(l)', currentTerm'[l] = t,
                      NEW k \in 1..lastIndex(l)', FullLog(l)'[k] = t
               PROVE  (Blocked(l, k) \/ Guarded(l, k, t))'
    BY DEF AcksSecure
  <1>0. /\ lastIndex(l) \in Nat /\ lastIndex(l)' \in Nat /\ lastIndex(l) <= lastIndex(l)'
        /\ \A i \in 1..lastIndex(l) : FullLog(l)'[i] = FullLog(l)[i]
        /\ lastIndex(l)' = lastIndex(l) \/ Grew(l)
        /\ Grew(l) => lastIndex(l)' = lastIndex(l) + 1
    BY CrownedKeeps
  <1>1. lastIndex(l)' \in 0..MaxIndex /\ k \in 1..MaxIndex /\ k \in Nat
    <2>1. lastIndex(l)' \in 0..MaxIndex
      BY LogShapesNext DEF LogShape, Step1
    <2> QED
      BY <1>0, <2>1, Bounds
  <1>2. CASE k = lastIndex(l) + 1
    <2>1. Grew(l)
      BY <1>0, <1>2
    <2> QED
      BY <1>1, <1>2, <2>1, FreshEntry
  <1>3. CASE k # lastIndex(l) + 1
    <2>1. k \in 1..lastIndex(l) /\ FullLog(l)[k] = t
      BY <1>0, <1>1, <1>3
    <2>2. CASE ~Won(t)
      BY <2>1, <2>2, FullLogShape DEF Step1, Sound, Histories, TermsSound, Carriers, OnInterval
    <2>3. CASE Crowned(l) /\ currentTerm'[l] = currentTerm[l]
      <3>1. Blocked(l, k) \/ Guarded(l, k, t)
        BY <2>1, <2>3 DEF AcksSecure
      <3> QED
        BY <1>1, <2>1, <2>3, <3>1, BlockedStep, GuardedStep
    <2> QED
      BY <2>2, <2>3, CrownStep DEF Step1
  <1> QED
    BY <1>2, <1>3

-----------------------------------------------------------------------------
(***************************************************************************)
(* What is committed, after the step.                                      *)
(***************************************************************************)

\* How n comes to a commit index of k: it had it; it took it from a snapshot;
\* it leads and a majority acknowledged its entry; its leader told it.
CommitStep(n) ==
    \A k \in 1..MaxIndex : commitIndex'[n] = k =>
        \/ commitIndex[n] = k /\ ~Emptying(n)
        \/ snap'[n].index = k
        \/ /\ Crowned(n)' /\ k \in 1..lastIndex(n)' /\ FullLog(n)'[k] = currentTerm'[n]
           /\ \E Q \in SUBSET Node : EP!IsQuorum(Q) /\ \A p \in Q : p = n \/ Acked(n, p, k)'
        \/ \E m \in Requests : /\ m.type = "AE" /\ m.commit = k
                               /\ Followed(n, m) /\ Took(n, m)

\* How n comes to a snapshot at k: it had it; it took it of what is committed;
\* its leader sent it.
SnapshotStep(n) ==
    \A k \in 1..MaxIndex : snap'[n].index = k =>
        \/ snap[n].index = k /\ FullLog(n)'[k] = FullLog(n)[k]
        \/ commitIndex[n] = k /\ ~Emptying(n)
        \/ \E m \in Requests : /\ m.type = "IS" /\ m.snap.index = k
                               /\ Followed(n, m) /\ Took(n, m)

Step2 ==
    /\ Step1 /\ Commits /\ AckStep /\ SnapshotsGrow
    /\ \A n \in Node : CommitStep(n) /\ SnapshotStep(n)
    /\ \A m \in Requests' : RequestSecured(m)
    /\ \A a \in applied' : Settled(a[1], a[2])

\* A log that goes on after a secured entry holds it.
LEMMA SecuredBelow ==
    ASSUME Step1, TermsSound', CommitsSecured, NEW n \in Node,
           NEW k, NEW t, Secured(k, t), k \in 1..lastIndex(n)',
           \E j \in 1..lastIndex(n)' : FullLog(n)'[j] > t \/ (FullLog(n)'[j] = t /\ j >= k)
    PROVE  SecuredAt(n, k)'
  <1>1. Secured(k, t)' /\ t \in 1..MaxTerm /\ k \in 1..MaxIndex /\ k \in Nat
    BY SecuredNext, Bounds DEF Secured
  <1>2. CoverIn(FullLog(n)', k, t) /\ DOMAIN FullLog(n)' = 1..lastIndex(n)'
    <2>1. LogShape(n)'
      BY LogShapesNext DEF Step1
    <2> QED
      BY <1>1, <2>1 DEF Secured, Covers, Carriers, LogShape, OnInterval
  <1>3. FullLog(n)'[k] = t
    BY <1>1, <1>2 DEF CoverIn
  <1> QED
    BY <1>1, <1>3 DEF SecuredAt

\* A secured entry stays where it is.
LEMMA SecuredStays ==
    ASSUME Step1, TermsSound', CommitsSecured, NEW n \in Node, ~Emptying(n),
           NEW k \in 1..lastIndex(n), SecuredAt(n, k)
    PROVE  SecuredAt(n, k)'
  <1>1. PICK t \in 1..MaxTerm : FullLog(n)[k] = t /\ Secured(k, t)
    BY DEF SecuredAt
  <1>2. k \in 1..MaxIndex /\ Covers(k, t) /\ Fits /\ Fits' /\ TermsSound /\ k \in Nat \ {0} /\ t \in Nat \ {0}
    BY <1>1, Bounds DEF Secured, Step1, Sound, Histories
  <1>3. Past(LastPos[n], k, t)
    BY <1>1, <1>2, HoldsPast
  <1>4. Past(LastPos[n], k, t)'
    BY <1>2, <1>3, PastKept DEF KeepsPast
  <1>5. Secured(k, t)'
    BY <1>1, SecuredNext
  <1>6. CoverIn(FullLog(n)', k, t)
    BY <1>5 DEF Secured, Covers, Carriers
  <1>7. LogShape(n)'
    BY <1>2, LogShapesNext
  <1>8. /\ lastIndex(n)' \in Nat /\ DOMAIN FullLog(n)' = 1..lastIndex(n)'
        /\ LastPos'[n].index = lastIndex(n)' /\ LastPos'[n].term = lastTerm(n)'
        /\ lastTerm(n)' \in Nat
        /\ lastIndex(n)' > 0 => lastTerm(n)' = FullLog(n)'[lastIndex(n)']
        /\ lastIndex(n)' = 0 => lastTerm(n)' = 0
    BY <1>7, Bounds DEF LogShape, OnInterval
  <1>9. Past(LastPos'[n], k, t)
    BY <1>4 DEF Past
  <1>10. lastIndex(n)' > 0 /\ lastIndex(n)' \in DOMAIN FullLog(n)'
    BY <1>2, <1>8, <1>9 DEF Past
  <1>11. k <= lastIndex(n)'
    BY <1>2, <1>6, <1>8, <1>9, <1>10 DEF Past, CoverIn
  <1>12. FullLog(n)'[k] = t
    BY <1>2, <1>6, <1>8, <1>9, <1>10, <1>11 DEF Past, CoverIn
  <1> QED
    BY <1>1, <1>5, <1>12 DEF SecuredAt

\* What a follower takes over from a request is in its log.
LEMMA TookLast ==
    ASSUME Step1, NEW n \in Node, NEW m \in Requests, Followed(n, m), Took(n, m),
           m.type = "AE" \/ LastOf(m) > 0
    PROVE  /\ LastOf(m) \in 1..lastIndex(n)' /\ FullLog(n)'[LastOf(m)] = Fragment(m)[LastOf(m)]
           /\ lastIndex(n)' \in Nat /\ LastOf(m) \in 1..MaxIndex
  <1>1. /\ Fits /\ Fits' /\ lastIndex(n)' \in Nat /\ DOMAIN FullLog(n)' = 1..lastIndex(n)'
    BY LogShapesNext, Bounds DEF LogShape, OnInterval, Step1, Sound
  <1>2. /\ LastOf(m) \in 0..MaxIndex /\ FirstOf(m) \in Nat \ {0}
        /\ DOMAIN Fragment(m) = FirstOf(m)..LastOf(m)
        /\ m.type = "AE" => LastOf(m) >= FirstOf(m)
        /\ m.type = "IS" => FirstOf(m) = 1
        /\ m.type = "AE" \/ m.type = "IS"
    BY <1>1, FragmentShape DEF OnInterval
  <1>3. LastOf(m) \in DOMAIN Fragment(m) /\ LastOf(m) \in 1..MaxIndex
    BY <1>2, Bounds
  <1> QED
    BY <1>1, <1>3 DEF Took

\* What has been installed as a snapshot is secured.
LEMMA SnapshotSecuredNext ==
    ASSUME Step2, TermsSound', NEW n \in Node, NEW k \in 1..MaxIndex, snap'[n].index = k
    PROVE  SecuredAt(n, k)'
  <1>0. Step1 /\ CommitsSecured /\ Fits /\ SnapshotStep(n) /\ k \in Nat
    BY Bounds DEF Step2, Commits, Step1, Sound
  <1>1. CASE snap[n].index = k /\ FullLog(n)'[k] = FullLog(n)[k]
    <2>1. PICK t \in 1..MaxTerm : FullLog(n)[k] = t /\ Secured(k, t)
      BY <1>0, <1>1 DEF CommitsSecured, SecuredAt
    <2>2. Secured(k, t)'
      BY <1>0, <2>1, SecuredNext
    <2> QED
      BY <1>1, <2>1, <2>2 DEF SecuredAt
  <1>2. CASE commitIndex[n] = k /\ ~Emptying(n)
    <2>1. SecuredAt(n, k)
      BY <1>0, <1>2 DEF CommitsSecured
    <2>2. k \in 1..lastIndex(n)
      <3>1. commitIndex[n] <= lastIndex(n) /\ lastIndex(n) \in Nat
        BY <1>0, LogShapes, Bounds DEF Fits, IndicesInLog, LogShape
      <3> QED
        BY <1>0, <1>2, <3>1
    <2> QED
      BY <1>0, <1>2, <2>1, <2>2, SecuredStays
  <1>3. ASSUME NEW m \in Requests, m.type = "IS", m.snap.index = k, Followed(n, m), Took(n, m)
        PROVE  SecuredAt(n, k)'
    <2>1. LastOf(m) = k /\ Fragment(m)[k] = m.snap.term
      <3>1. /\ LastOf(m) = m.snap.index
            /\ m.snap.index > 0 => Fragment(m)[m.snap.index] = m.snap.term
        BY <1>0, <1>3, FragmentShape
      <3>2. k > 0
        BY <1>0
      <3> QED
        BY <1>3, <3>1, <3>2
    <2>2. k \in 1..lastIndex(n)' /\ FullLog(n)'[k] = m.snap.term
      BY <1>0, <1>3, <2>1, TookLast
    <2>3. Secured(k, m.snap.term)
      BY <1>0, <1>3 DEF CommitsSecured, RequestSecured
    <2>4. Secured(k, m.snap.term)' /\ m.snap.term \in 1..MaxTerm
      BY <1>0, <2>3, SecuredNext DEF Secured
    <2> QED
      BY <2>2, <2>4 DEF SecuredAt
  <1> QED
    BY <1>0, <1>1, <1>2, <1>3 DEF SnapshotStep

\* A leader commits what it may.
LEMMA LeaderCommits ==
    ASSUME Step1, AcksSecure', NEW n \in Node, Crowned(n)',
           NEW k \in 1..lastIndex(n)', FullLog(n)'[k] = currentTerm'[n],
           NEW Q \in SUBSET Node, EP!IsQuorum(Q), \A p \in Q : p = n \/ Acked(n, p, k)'
    PROVE  SecuredAt(n, k)'
  <1>0. /\ LogShape(n)' /\ currentTerm'[n] \in 1..MaxTerm /\ k \in 1..MaxIndex /\ currentTerm'[n] \in Nat
    <2>1. LogShape(n)'
      BY LogShapesNext DEF Step1
    <2>2. lastIndex(n)' \in 0..MaxIndex /\ FullLog(n)'[k] \in 1..MaxTerm
      BY <2>1 DEF LogShape
    <2> QED
      BY <2>1, <2>2, Bounds
  <1>1. PICK t \in 1..MaxTerm : currentTerm'[n] = t
    BY <1>0
  <1>2. Blocked(n, k)' \/ Guarded(n, k, t)'
    BY <1>1 DEF AcksSecure
  <1>3. ~Blocked(n, k)'
    <2> SUFFICES ASSUME NEW P \in SUBSET Node, EP!IsQuorum(P),
                        \A v \in P : currentTerm'[v] > currentTerm'[n] /\ ~Acked(n, v, k)'
                 PROVE  FALSE
      BY DEF Blocked
    <2>1. PICK v \in Node : v \in P /\ v \in Q
      BY QuorumsMeet
    <2> QED
      BY <1>0, <2>1
  <1>4. ASSUME NEW u \in Epoch, u > t, ~Won(u)'
        PROVE  Protected(k, t, u)'
    <2>1. \A v \in Q : v \in Backers(n, k)'
      BY DEF Backers
    <2> QED
      BY <1>2, <1>3, <1>4, <2>1 DEF Guarded, Protected
  <1>5. Secured(k, t)'
    BY <1>0, <1>2, <1>3, <1>4 DEF Secured, Guarded
  <1> QED
    BY <1>1, <1>5 DEF SecuredAt

\* A step keeps what is committed secured: advanceCommitLocked commits entries
\* of the own term on a majority only, followers what the leader committed.
LEMMA CommitsSecuredNext ==
    ASSUME Step2, TermsSound', AcksSecure'
    PROVE  CommitsSecured'
  <1>0. Step1 /\ CommitsSecured /\ Fits
    BY DEF Step2, Commits, Step1, Sound
  <1>1. ASSUME NEW n \in Node, NEW k \in 1..MaxIndex, commitIndex'[n] = k
        PROVE  SecuredAt(n, k)'
    <2>0. CommitStep(n) /\ k \in Nat
      BY Bounds DEF Step2
    <2>1. CASE commitIndex[n] = k /\ ~Emptying(n)
      <3>1. SecuredAt(n, k)
        BY <1>0, <2>1 DEF CommitsSecured
      <3>2. k \in 1..lastIndex(n)
        <4>1. commitIndex[n] <= lastIndex(n) /\ lastIndex(n) \in Nat
          BY <1>0, LogShapes, Bounds DEF Fits, IndicesInLog, LogShape
        <4> QED
          BY <2>0, <2>1, <4>1
      <3> QED
        BY <1>0, <2>1, <3>1, <3>2, SecuredStays
    <2>2. CASE snap'[n].index = k
      BY <2>2, SnapshotSecuredNext
    <2>3. CASE /\ Crowned(n)' /\ k \in 1..lastIndex(n)' /\ FullLog(n)'[k] = currentTerm'[n]
               /\ \E Q \in SUBSET Node : EP!IsQuorum(Q) /\ \A p \in Q : p = n \/ Acked(n, p, k)'
      BY <1>0, <2>3, LeaderCommits
    <2>4. ASSUME NEW m \in Requests, m.type = "AE", m.commit = k, Followed(n, m), Took(n, m)
          PROVE  SecuredAt(n, k)'
      <3>1. /\ LastOf(m) \in 1..lastIndex(n)' /\ FullLog(n)'[LastOf(m)] = m.term
            /\ lastIndex(n)' \in Nat /\ m.term \in 1..MaxTerm
        BY <1>0, <2>4, TookLast, FragmentShape
      <3>2. k <= LastOf(m)
        BY <1>0, <2>4 DEF Fits, RequestsFit, RequestFits, LastOf
      <3>3. PICK t \in 1..m.term : Secured(k, t)
        BY <1>0, <2>0, <2>4 DEF CommitsSecured, RequestSecured
      <3>4. k \in 1..lastIndex(n)' /\ (m.term > t \/ (m.term = t /\ LastOf(m) >= k))
        BY <2>0, <3>1, <3>2, <3>3, Bounds
      <3> QED
        BY <1>0, <3>1, <3>3, <3>4, SecuredBelow
    <2> QED
      BY <1>1, <2>0, <2>1, <2>2, <2>3, <2>4 DEF CommitStep
  <1>2. ASSUME NEW m \in Requests' PROVE RequestSecured(m)'
    <2>1. RequestSecured(m)
      BY DEF Step2
    <2>2. \A k, t : Secured(k, t) => Secured(k, t)'
      BY <1>0, SecuredNext
    <2> QED
      BY <2>1, <2>2 DEF RequestSecured
  <1> QED
    BY <1>1, <1>2, SnapshotSecuredNext DEF CommitsSecured

\* What such a step does to the histories and to what is committed.
LEMMA SafetyKept ==
    ASSUME Step2
    PROVE  Histories' /\ Commits'
  <1>0. Step1 /\ AckStep /\ SnapshotsGrow /\ AcksHold /\ AcksSecure /\ CommitsSecured /\ Fits'
    BY DEF Step2, Commits, Step1
  <1>1. TermsSound' /\ Coherent' /\ WinnersOwn'
    BY <1>0, TermsSoundNext, CoherentNext, WinnersOwnNext
  <1>2. AcksHold'
    BY <1>0, <1>1, AcksHoldNext
  <1>3. AcksSecure'
    BY <1>0, <1>1, AcksSecureNext
  <1>4. CommitsSecured'
    BY <1>1, <1>3, CommitsSecuredNext
  <1>5. AppliedSettled'
    <2> SUFFICES ASSUME NEW a \in applied' PROVE Settled(a[1], a[2])'
      BY DEF AppliedSettled
    <2>1. Settled(a[1], a[2])
      BY DEF Step2
    <2>2. a[1] \in Nat \ {0}
      BY <2>1, Bounds DEF Settled
    <2> QED
      BY <1>0, <1>1, <2>1, <2>2, SettledNext
  <1> QED
    BY <1>1, <1>2, <1>3, <1>4, <1>5 DEF Histories, Commits

=============================================================================
