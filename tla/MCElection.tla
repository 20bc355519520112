----------------------------- MODULE MCElection -----------------------------
(***************************************************************************)
(* Election for TLC: nodes are interchangeable model values, and a view of *)
(* a state leaves out what no later step can depend on.                    *)
(***************************************************************************)
EXTENDS Election, TLC

NodeSymmetry == Permutations(Node)

\* A node that is no candidate can use a pre-vote round only after it has begun
\* another one, which makes the bound of one round drop it.
OpenRounds ==
    [n \in Node |-> IF role[n] = Candidate \/ MaxRounds > 1 THEN preVotes[n] ELSE {}]

\* Messages that their receiver does not just ignore, now and for ever.
OpenVoteMsgs ==
    {m \in voteMsgs :
        IF m.type = "request"
        THEN m.live \/ m.term >= currentTerm[m.to]
        ELSE \/ m.term > currentTerm[m.to]
             \/ m.granted /\ m.forTerm = currentTerm[m.to] /\ role[m.to] # Leader}

\* leaderID is written by every transition and read by none.
ElectionView == <<currentTerm, votedFor, hardState, role, heard, lastPos,
                  OpenRounds, votes, OpenVoteMsgs, leaders>>

\* Next as it is with pre-vote and logs of one entry: no campaign goes straight
\* to the vote, and a leader's no-op fills its log. MCRouting has both.
NextPreVote ==
    \/ \E n \in Node :
          \/ BeginPreVote(n)
          \/ \E r \in preVotes[n] : CampaignWon(n, r) \/ \E p \in Node : PreVoteGranted(n, r, p)
          \/ \E l \in Node, t \in Term : LeaderContact(n, l, t) \/ CrashInHandler(n, l, t)
          \/ \E t \in Term : LearnTerm(n, t)
          \/ LeaderSilent(n)
          \/ Restart(n)
    \/ \E m \in voteMsgs : Voting(m)

SpecPreVote == Init /\ [][NextPreVote]_electionVars

=============================================================================
