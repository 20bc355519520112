------------------------------- MODULE Routing ------------------------------
(***************************************************************************)
(* How a client's request finds the leader (internal/server/server.go and  *)
(* internal/client/client.go), on top of the elections of module Election: *)
(* every node serves HTTP, a node that does not lead re-issues the request *)
(* to the node it believes to be the leader, and that node does the same.  *)
(*                                                                         *)
(* One request is followed. IsLeader, LeaderID and Submit each take the    *)
(* node's mutex on their own, so elections may come between them. A        *)
(* request that is given up (a refused connection, a client's timeout, 503 *)
(* no leader available) leaves the client free to try again anywhere.      *)
(***************************************************************************)
EXTENDS Election, FiniteSetsExt

VARIABLE req

routingVars == <<electionVars, req>>

\* knows is history: the newest leadership, by its term, that a node which
\* forwarded the request knew of; term is that of the leader that served it.
\* Reads and writes differ only in how serving them ends.
Request == [phase : {"idle", "arrived", "forwarding", "submitting", "served"},
            at : Node \cup {None}, knows : Term, term : Term]

NoRequest == [phase |-> "idle", at |-> None, knows |-> 0, term |-> 0]

RoutingInit == Init /\ req = NoRequest

\* The newest leadership of the node that n names as leader, as far as n's own
\* term reaches.
Named(n) == Max({0} \cup {v.term : v \in {x \in leaders : /\ x.node = leaderID[n]
                                                          /\ x.term <= currentTerm[n]}})

-----------------------------------------------------------------------------
\* Client.do and Client.Queue call one of the nodes; the next attempt another.
ClientCalls(n) ==
    /\ req.phase = "idle"
    /\ req' = [NoRequest EXCEPT !.phase = "arrived", !.at = n]
    /\ UNCHANGED electionVars

\* opHandler and handleQueue look at IsLeader.
HandlerChecks ==
    /\ req.phase = "arrived"
    /\ req' = [req EXCEPT !.phase = IF role[req.at] = Leader THEN "submitting"
                                                             ELSE "forwarding"]
    /\ UNCHANGED electionVars

\* forward and forwardGet to the node LeaderID names, which may be the sender.
Bug_ForwardAnywhere(l) == l # None
ForwardTo(l) == l = leaderID[req.at] /\ l # None

Forward ==
    /\ req.phase = "forwarding"
    /\ \E l \in Node :
          /\ ForwardTo(l)
          /\ req' = [req EXCEPT !.phase = "arrived", !.at = l, !.knows = Max({@, Named(req.at)})]
    /\ UNCHANGED electionVars

\* No leader is known, or the call to it fails or times out.
GiveUp ==
    /\ req.phase \in {"arrived", "forwarding", "submitting"}
    /\ req' = NoRequest
    /\ UNCHANGED electionVars

\* Submit appends the write, if the node still leads by then.
ServeWrite ==
    /\ req.phase = "submitting"
    /\ LeaderAppend(req.at)
    /\ req' = [req EXCEPT !.phase = "served", !.term = currentTerm[req.at]]

\* LinearizableRead (module RaftReads) takes the read, and confirms it.
ServeRead ==
    /\ req.phase = "submitting"
    /\ role[req.at] = Leader
    /\ req' = [req EXCEPT !.phase = "served", !.term = currentTerm[req.at]]
    /\ UNCHANGED electionVars

\* Submit's ErrNotLeader sends a write on to the leader; any error does that to
\* a read, on a leader that cannot confirm its leadership back to itself.
NotServed ==
    /\ req.phase = "submitting"
    /\ req' = [req EXCEPT !.phase = "forwarding"]
    /\ UNCHANGED electionVars

RequestStep ==
    \/ \E n \in Node : ClientCalls(n)
    \/ HandlerChecks
    \/ Forward
    \/ GiveUp
    \/ ServeWrite
    \/ ServeRead
    \/ NotServed

RoutingNext == (Next /\ UNCHANGED req) \/ RequestStep

RoutingSpec == RoutingInit /\ [][RoutingNext]_routingVars

-----------------------------------------------------------------------------
(***************************************************************************)
(* Properties.                                                             *)
(***************************************************************************)

\* Requests are not passed round in circles: whatever elections, stale leader
\* ids and restarts came before, no nodes all name another one of them as the
\* leader. A node may name itself: one that leads forwards a read it cannot confirm
\* to itself (handleQueue), and one that has been deposed by a newer term, whose
\* leader it has not heard of yet, all it gets (stepDown leaves leaderID as it was).
NoForwardingCycle ==
    /\ \A S \in SUBSET Node : (\A n \in S : leaderID[n] \in S \ {n}) => S = {}
    /\ \A n \in Node : leaderID[n] = n => role[n] = Leader \/ Named(n) < currentTerm[n]

\* A request never travels back in time: no node it was forwarded to knows
\* only an older leadership than a node that forwarded it, and no leader that
\* serves it is older, however the leadership moved while it was on its way.
NeverBackwards ==
    /\ (req.phase = "arrived" /\ leaderID[req.at] # None) => Named(req.at) >= req.knows
    /\ req.phase = "served" => req.term >= req.knows

=============================================================================
