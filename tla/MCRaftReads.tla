----------------------------- MODULE MCRaftReads ----------------------------
(***************************************************************************)
(* RaftReads for TLC, from the state right after a first election.         *)
(***************************************************************************)
EXTENDS RaftReads, MCRaft

\* The view of MCRaft, with what a read looks at: its own messages and the
\* newest term with a leader.
ReadView == <<RaftView, Max({v.term : v \in leaders}),
              {m \in msgs : m.call = "read"}, read>>

\* The same without what only ReadIsFresh looks at. Of a read that has ended,
\* only its term (the replies to it) and its verdict matter.
OpenRead ==
    IF read.phase \in {"done", "lost"}
    THEN <<read.phase, read.term, read.superseded>>
    ELSE [read EXCEPT !.seen = {}]

OpenReadView == <<RaftView, Max({v.term : v \in leaders}),
                  {m \in msgs : m.call = "read"}, OpenRead>>

\* The schedules of SpecPrompt.
ReadPromptNext ==
    IF \E n \in Node : lastApplied[n] < commitIndex[n]
    THEN PromptNext /\ UNCHANGED read
    ELSE ReadNext

ReadSpecPrompt == InitLed /\ InitRead /\ [][ReadPromptNext]_readVars

=============================================================================
