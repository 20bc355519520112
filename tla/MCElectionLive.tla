--------------------------- MODULE MCElectionLive ---------------------------
(***************************************************************************)
(* Progress of Election once a majority of the nodes stays up and can talk *)
(* to each other.                                                          *)
(***************************************************************************)
EXTENDS Election

CONSTANT Alive  \* a majority that keeps running and whose members reach one another

\* electionLoop ticks forever on every node that is up, its pre-vote requests
\* to nodes that are up are answered again and again, and campaign runs on.
Fairness ==
    \A n \in Alive :
      /\ WF_electionVars(BeginPreVote(n))
      /\ WF_electionVars(LeaderSilent(n))
      /\ SF_electionVars(\E r \in preVotes[n] : CampaignWon(n, r))
      /\ \A p \in Alive : SF_electionVars(\E r \in preVotes[n] : PreVoteGranted(n, r, p))

\* The schedules looked at: no leader gets an AppendEntries through and no
\* client writes. They are a part of Spec's, so what they refute is refuted.
QuietNext ==
    \/ \E n \in Node : Campaign(n) \/ LeaderSilent(n) \/ Restart(n)
    \/ \E m \in voteMsgs : Voting(m)

FairSpec == Init /\ [][QuietNext]_electionVars /\ Fairness

\* A live node has won its pre-vote and only the bound on terms stops it.
BoundReached ==
    \E n \in Alive : \E r \in preVotes[n] :
        currentTerm[n] = MaxTerm /\ IsQuorum(r.granted)

\* What still happens after the last fault, as long as there is no leader: the
\* live nodes campaign, answer and count votes; nobody else does anything.
LiveStep ==
    \/ \E n \in Alive : Campaign(n) \/ LeaderSilent(n)
    \/ \E m \in voteMsgs : m.to \in Alive /\ Voting(m)

\* The majority that survives a crash or a partition is never left without a
\* leader for good (chaos/faults.go, README: the cluster recovers on its own):
\* once only the live nodes act, and unless the bound on terms interferes,
\* there is a leader again and again.
Recovers ==
    (<>[]~BoundReached /\ <>[][LiveStep]_electionVars)
        => []<>(\E n \in Node : role[n] = Leader)

=============================================================================
