--------------------------- MODULE MCRequestIntake ---------------------------
(***************************************************************************)
(* Requests for TLC: one of each way a command may be asked for, and one   *)
(* of each way it may be wrong.                                            *)
(***************************************************************************)
EXTENDS RequestIntake

CONSTANTS single, path, plan, stored, listed, partial, unknown, f1, f2, here, there

Floats == <<"float", "float">>
Raw(by, frame, joints) == [by |-> by, frame |-> frame, joints |-> joints]

Command(looksUp, planner, waypoints) ==
  [ readable |-> TRUE, known |-> TRUE, looksUp |-> looksUp, frame |-> f1,
    planner |-> planner, aList |-> TRUE, waypoints |-> waypoints ]

\* A move to a frame, beside a list with a relative point; a path over two frames; one to
\* plan, to a frame and to joints; a stored one, with a list of its own left over; a command
\* whose waypoints are no list; a path with a field that does not decode; no such template.
MCAsk ==
  [g \in {single, path, plan, stored, listed, partial, unknown} |->
     CASE g = single -> Command(TRUE, "none", <<Raw("relative", f1, Floats)>>)
       [] g = path -> Command(FALSE, "none", <<Raw("frame", f1, Floats), Raw("frame", f2, Floats)>>)
       [] g = plan -> Command(FALSE, "plan",
            << Raw("frame", f2, Floats), Raw("joints", NoName, <<"int", "float">>) >>)
       [] g = stored -> Command(FALSE, "stored", <<Raw("frame", f2, Floats)>>)
       [] g = listed -> [Command(TRUE, "none", <<>>) EXCEPT !.aList = FALSE]
       [] g = partial -> Command(FALSE, "none",
            <<Raw("frame", f1, Floats), Raw("frame", NoName, Floats)>>)
       [] g = unknown -> [Command(TRUE, "none", <<>>) EXCEPT !.known = FALSE]]

\* Every frame in the tree, before one of them moves or is taken out.
MCTrees == {[p \in Frames \union {Tool} |-> here]}

\* A client that does not wait raises triggers out of turn as it is.
MCMaxStray == [c \in Clients |-> IF c = "none" THEN 0 ELSE 1]
==============================================================================
