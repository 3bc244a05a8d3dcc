---------------------------- MODULE MotionRequest ----------------------------
(***************************************************************************)
(* What the driver promises the client of its motion requests, with        *)
(* nothing of how: the README's walk of request_state, one request at a    *)
(* time, each answered exactly once.  UrDriver is shown to implement it.   *)
(***************************************************************************)
CONSTANTS Goals, NoGoal

VARIABLES
  asked,    \* the requests submitted so far
  current,  \* the last of them
  state,    \* request_state
  answer    \* what each request was told

Init ==
  /\ asked = {}
  /\ current = NoGoal
  /\ state = "initial"
  /\ answer = [g \in Goals |-> "none"]

Submit(g) ==
  /\ g \notin asked
  /\ current = NoGoal \/ state \in {"succeeded", "failed"}
  /\ asked' = asked \union {g}
  /\ current' = g
  /\ state' = "initial"
  /\ UNCHANGED answer

Start ==
  /\ current # NoGoal /\ state = "initial"
  /\ state' = "executing"
  /\ UNCHANGED <<asked, current, answer>>

\* A request that was never started can only fail.
Finish ==
  /\ current # NoGoal /\ state \in {"initial", "executing"}
  /\ state' \in IF state = "initial" THEN {"failed"} ELSE {"succeeded", "failed"}
  /\ answer' = [answer EXCEPT ![current] = state']
  /\ UNCHANGED <<asked, current>>

Next == (\E g \in Goals : Submit(g)) \/ Start \/ Finish

Spec == Init /\ [][Next]_<<asked, current, state, answer>>
==============================================================================
