----------------------------- MODULE VoterCover -----------------------------
(***************************************************************************)
(* What the sync-voter pass promises, whatever search it uses: it marks    *)
(* only registers on feedback paths of the data-flow graph, and when it    *)
(* reports that it is done every feedback cycle in FeedbackCycles has a    *)
(* marked register, so that an upset cannot go round it for ever.          *)
(***************************************************************************)
EXTENDS DataFlow

CONSTANTS
  Graphs,              \* the data-flow graphs the pass may be given
  FeedbackCycles(_)    \* the cycles of a graph that need a voter

VARIABLES graph, voted, complete

coverVars == <<graph, voted, complete>>

Covered(g, S) == \A c \in FeedbackCycles(g) : NodesOf(c) \cap S # {}

Init ==
  /\ graph \in Graphs
  /\ voted = {}
  /\ complete = FALSE

Vote(u) ==
  /\ ~complete
  /\ u \notin voted
  /\ voted' = voted \cup {u}
  /\ \E c \in FeedbackCycles(graph) : u \in NodesOf(c)
  /\ UNCHANGED <<graph, complete>>

Complete ==
  /\ ~complete
  /\ complete' = TRUE
  /\ Covered(graph, voted)
  /\ UNCHANGED <<graph, voted>>

Next == (\E u \in Node : Vote(u)) \/ Complete

Spec == Init /\ [][Next]_coverVars

=============================================================================
