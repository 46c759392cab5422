----------------------------- MODULE ExportLife -----------------------------
(***************************************************************************)
(* What an export run promises whoever asked for it: it is requested once, *)
(* tried until a try succeeds, and then rests with the one file made.      *)
(***************************************************************************)
EXTENDS Naturals

CONSTANT Runs   \* the runs there may ever be

VARIABLES
  life,   \* how far each run is
  made    \* how many files each run has

Init ==
  /\ life = [r \in Runs |-> "none"]
  /\ made = [r \in Runs |-> 0]

Move(r, from, to) ==
  /\ life[r] \in from
  /\ life' = [life EXCEPT ![r] = to]

Request(r) == Move(r, {"none"}, "pending") /\ UNCHANGED made
Try(r)     == Move(r, {"pending", "failed"}, "running") /\ UNCHANGED made
Fail(r)    == Move(r, {"running"}, "failed") /\ UNCHANGED made
Finish(r)  ==
  /\ Move(r, {"running"}, "completed")
  /\ made' = [made EXCEPT ![r] = @ + 1]

Next == \E r \in Runs : Request(r) \/ Try(r) \/ Fail(r) \/ Finish(r)

Spec == Init /\ [][Next]_<<life, made>>
=============================================================================
