------------------------------ MODULE MCTimers ------------------------------
(* Instances of Timers for TLC. *)
EXTENDS Timers, TLC

Structures == Permutations(Process)

Sleepers == [calls |-> {"sleep"}, disturbed |-> FALSE]
SleepDisturbed == [calls |-> {"sleep"}, disturbed |-> TRUE]
PollDisturbed == [calls |-> {"poll"}, disturbed |-> TRUE]
AlarmAndExec == [calls |-> {"alarm", "exec"}, disturbed |-> FALSE]

Separate == {Sleepers, SleepDisturbed, PollDisturbed, AlarmAndExec}
=============================================================================
