------------------------------- MODULE Timers -------------------------------
(***************************************************************************)
(* What sloop.h promises of timers, without lists, pools and select: a     *)
(* timer that is armed stays armed, with its time, until it is cancelled   *)
(* or its handler has run, and handlers run one at a time, never early and *)
(* in the order of the timers' times.                                      *)
(***************************************************************************)
EXTENDS Naturals

CONSTANTS Timer, NoTimer, Resolution

VARIABLES
    due,     \* for each timer its time, Off when it is not armed
    firing,  \* the timer whose handler runs, or NoTimer
    now      \* the time

vars == <<due, firing, now>>

Off == [time |-> 0, armed |-> FALSE]
Armed == {t \in Timer : due[t].armed}

Init ==
    /\ due = [t \in Timer |-> Off]
    /\ firing = NoTimer
    /\ now = 0

\* The time of a new timer is in the future, but for the resolution.
Arm(t) ==
    /\ t \notin Armed
    /\ due'[t].armed /\ due'[t].time \in Nat
    /\ due'[t].time + Resolution > now
    /\ due' = [due EXCEPT ![t] = due'[t]]
    /\ UNCHANGED <<firing, now>>

Cancel(t) ==
    /\ t \in Armed /\ t # firing
    /\ due' = [due EXCEPT ![t] = Off]
    /\ UNCHANGED <<firing, now>>

CancelAll ==
    /\ firing = NoTimer
    /\ due' = [t \in Timer |-> Off]
    /\ UNCHANGED <<firing, now>>

Fire(t) ==
    /\ firing = NoTimer /\ t \in Armed
    /\ due[t].time <= now
    /\ \A u \in Armed : due[t].time <= due[u].time
    /\ firing' = t
    /\ UNCHANGED <<due, now>>

Finish ==
    /\ firing # NoTimer
    /\ due' = [due EXCEPT ![firing] = Off]
    /\ firing' = NoTimer
    /\ UNCHANGED now

Tick ==
    /\ now' = now + 1
    /\ UNCHANGED <<due, firing>>

Next ==
    \/ \E t \in Timer : Arm(t) \/ Cancel(t) \/ Fire(t)
    \/ CancelAll \/ Finish \/ Tick

Spec == Init /\ [][Next]_vars

=============================================================================
