----------------------------- MODULE MCSessions -----------------------------
(***************************************************************************)
(* Sessions for TLC: clients and replicas are interchangeable.             *)
(***************************************************************************)
EXTENDS Sessions

SessionSymmetry == Permutations(Client) \cup Permutations(Replica)

\* The schedules in which a committed entry is applied by some replica before
\* anything else happens: what the entry does and answers is settled by then.
PromptNext ==
    IF \A r \in Replica : applied[r] < Len(log)
    THEN \E r \in Replica : ApplyNext(r)
    ELSE Next

SpecPrompt == Init /\ [][PromptNext]_sessionVars

=============================================================================
