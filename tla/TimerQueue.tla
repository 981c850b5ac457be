----------------------------- MODULE TimerQueue -----------------------------
(***************************************************************************)
(* What kernel timers promise: a timer that is set is run, earliest first, *)
(* by the first check that ends after its time has passed, unless it is    *)
(* deleted.  The clock goes on, and timers are set, during a check too.    *)
(***************************************************************************)
EXTENDS Naturals

CONSTANTS MaxTime,   \* the last value of jiffies looked at
          Counts     \* the delays asked for

VARIABLES jiffies,
          pending,   \* how many timers are set for each time
          checking   \* the expired timers are being run

Time == 0..MaxTime

Init == jiffies = 0 /\ pending = [t \in Time |-> 0] /\ checking = FALSE

Expired == {t \in Time : pending[t] > 0 /\ t < jiffies}

Tick == jiffies < MaxTime /\ jiffies' = jiffies + 1 /\ UNCHANGED <<pending, checking>>

Add(count) ==
  /\ jiffies + count \in Time
  /\ pending' = [pending EXCEPT ![jiffies + count] = @ + 1]
  /\ UNCHANGED <<jiffies, checking>>

Del(t) ==
  /\ ~checking /\ pending[t] > 0
  /\ pending' = [pending EXCEPT ![t] = @ - 1]
  /\ UNCHANGED <<jiffies, checking>>

StartCheck == ~checking /\ checking' = TRUE /\ UNCHANGED <<jiffies, pending>>

(* A check that has run the last of all timers has ended. *)
Run(t) ==
  /\ checking /\ t \in Expired /\ \A u \in Expired : t <= u
  /\ pending' = [pending EXCEPT ![t] = @ - 1]
  /\ checking' = (\E u \in Time : pending'[u] > 0)
  /\ UNCHANGED jiffies

EndCheck == checking /\ Expired = {} /\ checking' = FALSE /\ UNCHANGED <<jiffies, pending>>

Next ==
  \/ Tick \/ StartCheck \/ EndCheck
  \/ \E count \in Counts : Add(count)
  \/ \E t \in Time : Del(t) \/ Run(t)

Spec == Init /\ [][Next]_<<jiffies, pending, checking>>
=============================================================================
