------------------------------ MODULE MCServer ------------------------------
(* Instances of Server for TLC: the requests of each question and the      *)
(* symmetries that its runs may use.                                       *)
EXTENDS Server, TLC

Invalid == [valid |-> FALSE, path |-> 0, name |-> ""]
Valid(n, name) == [valid |-> TRUE, path |-> n, name |-> name]

(* Two kinds of answer, and one that never reaches a handler.              *)
LifecycleRequests == {Valid(1, "static"), Invalid}

(* A report and what it counts: a path and codes it already knows, and new *)
(* ones that are inserted before and after the iterator.                   *)
CounterRequests == {Invalid, Valid(1, "echo"), Valid(2, "status")}

LivenessRequests == {Valid(1, "proxy"), Valid(2, "echo")}

(* The server as it runs when nobody stops it: no kill and no SIGINT, both  *)
(* of which only cut a behaviour short.                                    *)
SteadySpec ==
  Init /\ [][init \/ Environment \/ \E t \in Threads : Thread(t)]_vars /\ Fairness

Symmetry == Permutations(Threads) \cup Permutations(Sessions)

=============================================================================
