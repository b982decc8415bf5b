-------------------------- MODULE MCWorkflowEngine --------------------------
(***************************************************************************)
(* Small instances of WorkflowEngine for TLC.  `t' is the trigger of every *)
(* graph; the graphs are trees.                                            *)
(***************************************************************************)
EXTENDS WorkflowEngine, TLC

CONSTANTS r1, r2, d1, w1, w2, h1, h2

OneDefinition == [r \in Runs |-> d1]

Edge(from, branch, to) == [from |-> from, branch |-> branch, to |-> to]

\* Two parallel branches; the failure of one is handled by a third node.
ForkNodes == {"t", "a", "b", "c"}
ForkEdges == {Edge("t", "always", "a"), Edge("t", "always", "b"), Edge("b", "failure", "c")}
ForkResults == [t |-> {"success"}, a |-> {"success", "error"},
                b |-> {"success", "fatal"}, c |-> {"success"}]
ForkAttempts == [t |-> 0, a |-> 1, b |-> 0, c |-> 0]

\* A question, then a delay.
WaitNodes == {"t", "q", "d"}
WaitEdges == {Edge("t", "always", "q"), Edge("q", "success", "d")}
WaitResults == [t |-> {"success"}, q |-> {"question"}, d |-> {"timer"}]
WaitAttempts == [t |-> 0, q |-> 0, d |-> 0]

\* A trigger and the plain node behind it.
PairNodes == {"t", "a"}
PairEdges == {Edge("t", "always", "a")}
PairResults == [t |-> {"success"}, a |-> {"success", "error"}]
PairAttempts == [t |-> 0, a |-> 1]

\* A delay beside a plain node.
BesideNodes == {"t", "a", "d"}
BesideEdges == {Edge("t", "always", "a"), Edge("t", "always", "d")}
BesideResults == [t |-> {"success"}, a |-> {"success"}, d |-> {"timer"}]
BesideAttempts == [t |-> 0, a |-> 0, d |-> 0]

Interchangeable == Permutations(Workers) \cup Permutations(Handlers) \cup Permutations(Runs)
=============================================================================
