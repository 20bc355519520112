------------------------------ MODULE RaftReads -----------------------------
(***************************************************************************)
(* Raft with one linearizable read (internal/raft/readindex.go): the       *)
(* leader remembers its commit index, confirms its leadership with a round *)
(* of empty AppendEntries that run beside the replication loops, and       *)
(* answers once it has applied up to the remembered index.                 *)
(*                                                                         *)
(* A read that never gets its quorum has failed: it stays where it is.     *)
(***************************************************************************)
EXTENDS Raft

VARIABLE read

readVars == <<vars, read>>

\* node, term and index are what LinearizableRead captures, commit what
\* confirmLeadership captures. seen and superseded are history: what had been
\* applied anywhere when the read began, and whether a newer leader had already
\* been elected. result is the state the read returns.
Read == [phase : {"idle", "started", "confirming", "waiting", "done", "lost"},
         node : Node \cup {None}, term : E!Term, index : Index, commit : Index,
         asked : SUBSET Node, acks : SUBSET Node,
         seen : SUBSET (Index \X (1..MaxTerm)), superseded : BOOLEAN, result : Log]

NoRead == [phase |-> "idle", node |-> None, term |-> 0, index |-> 0, commit |-> 0,
           asked |-> {}, acks |-> {}, seen |-> {}, superseded |-> FALSE,
           result |-> <<>>]

InitRead == read = NoRead

-----------------------------------------------------------------------------
\* LinearizableRead, first critical section.
StartRead(n) ==
    /\ read.phase = "idle"
    /\ role[n] = E!Leader
    /\ read' = [NoRead EXCEPT !.phase = "started", !.node = n,
                  !.term = currentTerm[n], !.index = commitIndex[n],
                  !.seen = applied,
                  !.superseded = \E v \in leaders : v.term > currentTerm[n]]
    /\ UNCHANGED vars

\* The reader still leads in the term of the read.
StillLeads == role[read.node] = E!Leader /\ currentTerm[read.node] = read.term

\* confirmLeadership, first critical section. Alone, the reader needs no round.
BeginConfirm ==
    /\ read.phase = "started"
    /\ StillLeads
    /\ read' = [read EXCEPT !.phase = "confirming", !.acks = {read.node},
                            !.commit = commitIndex[read.node]]
    /\ UNCHANGED vars

\* The goroutine of one peer asks: an AppendEntries without entries that still
\* carries the commit index.
SendHeartbeat(p) ==
    LET n     == read.node
        ni    == nextIndex[n][p]
        known == HasIndex(n, ni - 1)
    IN
    /\ read.phase = "confirming"
    /\ p \notin read.asked \cup {n}
    /\ StillLeads
    /\ Enqueue(msgs, [type |-> "AE", call |-> "read", from |-> n, to |-> p,
                      term |-> read.term,
                      prevIndex |-> IF known THEN ni - 1 ELSE 0,
                      prevTerm |-> IF known THEN termAt(n, ni - 1) ELSE 0,
                      ents |-> <<>>, commit |-> read.commit, live |-> TRUE,
                      answered |-> {}])
    /\ read' = [read EXCEPT !.asked = @ \cup {p}]
    /\ UNCHANGED <<electionVars, logVars, applyVars, leaderVars, faults>>

\* A reply to the read: one of the types that answer an AppendEntries.
ReadReply(m) == m.type \in {"AEReply", "TermReply"} /\ m.call = "read"

\* The goroutine takes a reply of a newer term.
HeartbeatRefused(m) ==
    /\ ReadReply(m)
    /\ m.term > read.term
    /\ UNCHANGED <<logVars, applyVars>>
    /\ IF m.term > currentTerm[m.to] THEN E!LearnTerm(m.to, m.term)
                                     ELSE UNCHANGED electionVars
    /\ msgs' = msgs \ {m}
    /\ UNCHANGED <<leaderVars, faults, read>>

\* The goroutine takes any other reply; only a success counts.
AckedBy(m) == IF m.type = "AEReply" /\ m.success THEN {m.from} ELSE {}

HeartbeatAnswered(m) ==
    /\ ReadReply(m)
    /\ m.term <= read.term
    /\ read' = [read EXCEPT !.acks = @ \cup AckedBy(m)]
    /\ msgs' = msgs \ {m}
    /\ UNCHANGED <<electionVars, logVars, applyVars, leaderVars, faults>>

\* Every goroutine has returned and a majority said yes. Requests that timed
\* out may still be handled.
Bug_NeedsNoQuorum == TRUE
Confirmed == E!IsQuorum(read.acks)

LeadershipConfirmed ==
    /\ read.phase = "confirming"
    /\ Confirmed
    /\ read' = [read EXCEPT !.phase = "waiting"]
    /\ LET own == {m \in msgs : m.call = "read"} IN
       msgs' = (msgs \ own) \cup Abandon(own)
    /\ UNCHANGED <<electionVars, logVars, applyVars, leaderVars, faults>>

\* waitApplied, and the view of the state machine its caller then takes.
FinishRead ==
    /\ read.phase = "waiting"
    /\ lastApplied[read.node] >= read.index
    /\ read' = [read EXCEPT !.phase = "done", !.result = sm[read.node]]
    /\ UNCHANGED vars

\* A read dies with the process that serves it.
LoseRead(n) ==
    read' = IF read.node = n /\ read.phase # "done"
            THEN [read EXCEPT !.phase = "lost"] ELSE read

ReadStep ==
    \/ \E n \in Node : StartRead(n)
    \/ BeginConfirm
    \/ \E p \in Node : SendHeartbeat(p)
    \/ \E m \in msgs : HeartbeatRefused(m) \/ HeartbeatAnswered(m)
    \/ LeadershipConfirmed
    \/ FinishRead

ReadNext ==
    \/ Step /\ UNCHANGED read
    \/ \E n \in Node : Crash(n) /\ LoseRead(n)
    \/ ReadStep

ReadSpec == Init /\ InitRead /\ [][ReadNext]_readVars

-----------------------------------------------------------------------------
(***************************************************************************)
(* Properties.                                                             *)
(***************************************************************************)

\* A deposed leader never answers a read: when a read succeeds, no leader of a
\* newer term had been elected before the read began (confirmLeadership).
NoReadByDeposedLeader ==
    read.phase = "done" => ~read.superseded

\* A read that succeeds shows every entry that had been applied anywhere, and
\* so may have been confirmed to a client, before the read began (the contract
\* of LinearizableRead).
ReadIsFresh ==
    read.phase = "done" =>
        \A e \in read.seen : e[1] <= Len(read.result) /\ read.result[e[1]] = e[2]

=============================================================================
