------------------------------ MODULE MCRouting -----------------------------
(***************************************************************************)
(* Routing for TLC: the view of MCElection with the leader ids, which the  *)
(* forwarding reads, and the request. A request that was served as it      *)
(* should be leaves nothing behind.                                        *)
(***************************************************************************)
EXTENDS Routing, MCElection

OpenRequest ==
    IF req.phase = "served" /\ req.term >= req.knows THEN NoRequest ELSE req

RoutingView == <<ElectionView, leaderID, OpenRequest>>

\* The schedules in which a node dies between two handlers. Dying inside one
\* tears the log, which plays no part in routing, and is otherwise the same.
WholeHandlers == \A n \in Node : lastPos'[n] # lastPos[n] => leaderID'[n] # None

RoutingSpecWhole == RoutingInit /\ [][RoutingNext /\ WholeHandlers]_routingVars

=============================================================================
