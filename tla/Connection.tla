----------------------------- MODULE Connection -----------------------------
(***************************************************************************)
(* What the server promises about every connection, whatever the number of *)
(* threads: requests and replies alternate strictly, every request that    *)
(* was read is given a reply, and a connection ends only while the server  *)
(* waits for a request or while it sends a reply.                          *)
(***************************************************************************)
CONSTANT Sessions

VARIABLE conn    \* state of each connection

Init == conn = [s \in Sessions |-> "none"]

Move(s, from, to) ==
  /\ conn[s] \in from
  /\ conn' = [conn EXCEPT ![s] = to]

Accept(s) == Move(s, {"none"}, "waiting")
Reject(s) == Move(s, {"none"}, "closed")
Receive(s) == Move(s, {"waiting"}, "serving")
Reply(s) == Move(s, {"serving"}, "replying")
Resume(s) == Move(s, {"replying"}, "waiting")
Close(s) == Move(s, {"waiting", "replying"}, "closed")

Next ==
  \E s \in Sessions : \/ Accept(s) \/ Reject(s) \/ Receive(s)
                      \/ Reply(s) \/ Resume(s) \/ Close(s)

Spec == Init /\ [][Next]_conn

=============================================================================
