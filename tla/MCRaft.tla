------------------------------- MODULE MCRaft -------------------------------
(***************************************************************************)
(* Raft for TLC: interchangeable nodes and a view of a state without what  *)
(* no later step depends on: leaderID, which no transition reads; leaders, *)
(* which every request in flight comes from; the votes of a node that has  *)
(* won; the bookkeeping of a node that does not lead, which                *)
(* becomeLeaderLocked resets before it is read again; messages that their  *)
(* receiver can only ignore, and that only take up room under the bounds.  *)
(***************************************************************************)
EXTENDS Raft, TLC

NodeSymmetry == Permutations(Node)

IfLeader(f) == [n \in Node |-> IF role[n] = "leader" THEN f[n] ELSE <<>>]

\* A node that may still count votes of its current term. With pre-vote a
\* follower may be candidate again in the same term, without it never.
Counting(n) ==
    role[n] = "candidate" \/ (~DisablePreVote /\ role[n] = "follower")

OpenVotes == [n \in Node |-> IF Counting(n) THEN votes[n] ELSE {}]

VoteMsgsThatMatter ==
    {m \in voteMsgs :
        IF m.type = "request"
        THEN m.live \/ m.term >= currentTerm[m.to]
        ELSE \/ m.term > currentTerm[m.to]
             \/ Counting(m.to) /\ m.forTerm = currentTerm[m.to]}

MsgsThatMatter ==
    {m \in msgs : IF m.type \in {"AE", "IS"}
                  THEN m.live \/ m.term >= currentTerm[m.to]
                  ELSE m.term > currentTerm[m.to] \/ Wanted(m)}

RaftView == <<currentTerm, votedFor, hardState, role, heard, preVotes,
              OpenVotes, VoteMsgsThatMatter, logVars, applyVars,
              IfLeader(nextIndex), IfLeader(matchIndex), MsgsThatMatter, faults>>

(***************************************************************************)
(* The state right after an undisturbed first election: l has won term 1   *)
(* with the vote of v and appended its no-op, no other node has heard of   *)
(* the term. Election covers every interleaving up to here.                *)
(***************************************************************************)
InitLed ==
    \E l, v \in Node : l # v /\
        LET voted == {l, v} IN
        /\ currentTerm = [n \in Node |-> IF n \in voted THEN 1 ELSE 0]
        /\ votedFor    = [n \in Node |-> IF n \in voted THEN l ELSE None]
        /\ hardState   = [n \in Node |-> [term |-> currentTerm[n], votedFor |-> votedFor[n]]]
        /\ role        = [n \in Node |-> IF n = l THEN E!Leader ELSE E!Follower]
        /\ leaderID    = [n \in Node |-> IF n = l THEN l ELSE None]
        /\ heard       = [n \in Node |-> FALSE]
        /\ preVotes    = [n \in Node |-> {}]
        /\ votes       = [n \in Node |-> IF n = l THEN voted ELSE {}]
        /\ voteMsgs    = {}
        /\ leaders     = {[node |-> l, term |-> 1]}
        /\ log         = [n \in Node |-> IF n = l THEN <<1>> ELSE <<>>]
        /\ snap        = [n \in Node |-> Store!NoSnapshot]
        /\ disk        = [n \in Node |-> [Store!EmptyStore EXCEPT !.log = log[n]]]
        /\ sm          = [n \in Node |-> <<>>]
        /\ commitIndex = [n \in Node |-> 0]
        /\ lastApplied = [n \in Node |-> 0]
        /\ nextIndex   = [n \in Node |-> [p \in Node |-> 1]]
        /\ matchIndex  = [n \in Node |-> [p \in Node |-> 0]]
        /\ msgs        = {}
        /\ applied     = {}
        /\ faults      = 0

\* The schedules in which applyLoop runs as soon as there is something to apply;
\* they leave room for more terms and longer logs.
PromptNext ==
    IF \E n \in Node : lastApplied[n] < commitIndex[n]
    THEN \E n \in Node : lastApplied[n] < commitIndex[n] /\ ApplyReady(n)
    ELSE Next

SpecPrompt == InitLed /\ [][PromptNext]_vars

(***************************************************************************)
(* Two calls of one follower in flight, abandoned and duplicated ones      *)
(* among them. Calls to different followers do not meet before the leader  *)
(* takes the replies, one by one; so another follower's call goes out once *)
(* the message before it is handled or lost. A second message joins the    *)
(* first while no vote is under way that still matters. With one message   *)
(* in flight and no vote under way applyLoop takes its time; otherwise it  *)
(* runs at once, or dies in the compaction after it.                       *)
(***************************************************************************)
Crowded   == Cardinality(msgs) > 1
Voting    == VoteMsgsThatMatter # {}
Followers == {IF m.type \in {"AE", "IS"} THEN m.to ELSE m.from : m \in msgs}
Unapplied == {n \in Node : lastApplied[n] < commitIndex[n]}

LoseMessage ==
    /\ \E m \in msgs : msgs' = msgs \ {m}
    /\ UNCHANGED <<electionVars, logVars, applyVars, leaderVars, faults>>

CrowdedNext ==
    IF Unapplied # {} /\ (Crowded \/ Voting)
    THEN \E n \in Unapplied : ApplyReady(n) \/ CrashInCompaction(n)
    ELSE /\ Next \/ LoseMessage
         /\ Cardinality(Followers') <= 1
         /\ Crowded' => ~Voting'

SpecCrowded == InitLed /\ [][CrowdedNext]_vars

=============================================================================
