-------------------------------- MODULE Store -------------------------------
(***************************************************************************)
(* The stable storage of a node (internal/store): log entries keyed by     *)
(* index and one snapshot. Every operation is one bolt transaction, so it  *)
(* is atomic; a handler that calls several of them is not.                 *)
(*                                                                         *)
(* The log bucket is a function from indices to entry terms. A command is  *)
(* identified by its index and term, so no payload is kept.                *)
(***************************************************************************)
EXTENDS Integers, FiniteSets, Functions

NoSnapshot == [index |-> 0, term |-> 0, data |-> <<>>]

\* A store as NewMemStore or OpenBolt first creates it.
EmptyStore == [log |-> <<>>, snap |-> NoSnapshot]

AppendLog(d, ents) ==
    [d EXCEPT !.log =
        [i \in DOMAIN ents \cup DOMAIN @ |-> IF i \in DOMAIN ents THEN ents[i] ELSE @[i]]]

TruncateSuffix(d, from) ==
    [d EXCEPT !.log = Restrict(@, {i \in DOMAIN @ : i < from})]

TruncatePrefix(d, upto) ==
    [d EXCEPT !.log = Restrict(@, {i \in DOMAIN @ : i > upto})]

SaveSnapshot(d, s) == [d EXCEPT !.snap = s]

\* AllEntries as loadFromStorage uses it: the entries above the snapshot, in
\* the order of their keys.
Bug_SkipsFirst(d) ==
    LET above  == {i \in DOMAIN d.log : i > d.snap.index + 1}
        Nth(k) == CHOOSE i \in above : Cardinality({j \in above : j <= i}) = k
    IN  [k \in 1..Cardinality(above) |-> d.log[Nth(k)]]
LoadedLog(d) ==
    LET above  == {i \in DOMAIN d.log : i > d.snap.index}
        Nth(k) == CHOOSE i \in above : Cardinality({j \in above : j <= i}) = k
    IN  [k \in 1..Cardinality(above) |-> d.log[Nth(k)]]

=============================================================================
