-------------------------- MODULE MCFindingsQueue --------------------------
(***************************************************************************)
(* Events for TLC: what a scan may send, over two executions.              *)
(***************************************************************************)
EXTENDS FindingsQueue, TLC

Of(s, kind, exec, seq) == [scan |-> s, kind |-> kind, exec |-> exec, seq |-> seq]

OneBad == {Of("s1", "result", 1, 4)}
Mixed ==
  {Of("s1", "progress", 1, 1), Of("s1", "progress", 1, 2), Of("s1", "progress", 2, 1),
   Of("s1", "complete", 1, 3), Of("s1", "checkpoint", 1, 1)} \cup OneBad

Alike == Permutations(Workers)

=============================================================================
