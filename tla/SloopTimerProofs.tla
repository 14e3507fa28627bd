-------------------------- MODULE SloopTimerProofs --------------------------
(***************************************************************************)
(* The timers of Sloop, for any number of timers and any delays: the list  *)
(* stays sorted, and the loop implements module Timers.                    *)
(***************************************************************************)
EXTENDS SloopProofs

\* get_uptime is the time of the last full second.
LEMMA UptimeRounds ==
    ASSUME clock \in Nat
    PROVE  get_uptime \in Nat /\ get_uptime <= clock /\ clock < get_uptime + Gran
  <1>1. Gran \in Nat /\ Gran > 0
    BY TimeAssumption
  <1>2. clock = Gran * (clock \div Gran) + (clock % Gran)
    BY <1>1
  <1>3. clock % Gran \in 0..(Gran - 1)
    BY <1>1
  <1>4. (clock \div Gran) * Gran = Gran * (clock \div Gran)
    BY <1>1
  <1> DEFINE u == (clock \div Gran) * Gran
  <1>5. u \in Nat
    BY UptimeNat DEF get_uptime
  <1>6. clock = u + (clock % Gran)
    BY <1>2, <1>4
  <1> HIDE DEF u
  <1> QED BY <1>1, <1>3, <1>5, <1>6 DEF get_uptime, u

-----------------------------------------------------------------------------
(* Sorted sequences of timers.                                             *)

\* s is sorted by the times f of its entries.
SortedBy(s, f) == \A i, j \in DOMAIN s : i < j => f[s[i]] <= f[s[j]]

\* dlist_del keeps the order.
LEMMA RemoveAtSorted ==
    ASSUME NEW s \in Seq(Timeouts), NEW k \in DOMAIN s, NEW f, SortedBy(s, f)
    PROVE  SortedBy(RemoveAt(s, k), f)
  <1> DEFINE r == RemoveAt(s, k)
             from(i) == IF i < k THEN i ELSE i + 1
  <1>1. /\ r \in Seq(Timeouts) /\ Len(r) = Len(s) - 1
        /\ \A i \in 1..(Len(s) - 1) : r[i] = IF i < k THEN s[i] ELSE s[i + 1]
    BY RemoveAtEntries
  <1> HIDE DEF r
  <1> SUFFICES ASSUME NEW i \in DOMAIN r, NEW j \in DOMAIN r, i < j
               PROVE  f[r[i]] <= f[r[j]]
    BY DEF SortedBy, r
  <1>2. /\ from(i) \in DOMAIN s /\ from(j) \in DOMAIN s /\ from(i) < from(j)
        /\ r[i] = s[from(i)] /\ r[j] = s[from(j)]
    BY <1>1
  <1> HIDE DEF from
  <1> QED BY <1>2 DEF SortedBy

\* The entries of s before m are not later than t and those from m on are not
\* earlier.
Splits(s, f, m, t) ==
    /\ \A i \in DOMAIN s : i < m => f[s[i]] <= t
    /\ \A i \in DOMAIN s : i >= m => t <= f[s[i]]

\* Linking e at the place where its time splits the list keeps the order.
LEMMA InsertAtSorted ==
    ASSUME NEW s \in Seq(Timeouts), NEW m \in 1..(Len(s) + 1), NEW e \in Timeouts,
           NEW f \in [Timeouts -> Nat], NEW t \in Nat, NEW g, g = [f EXCEPT ![e] = t],
           SortedBy(s, f), ~Member(s, e), Splits(s, f, m, t)
    PROVE  SortedBy(InsertAt(s, m, e), g)
  <1> DEFINE r == InsertAt(s, m, e)
             from(i) == IF i < m THEN i ELSE i - 1
  <1>1. /\ r \in Seq(Timeouts) /\ Len(r) = Len(s) + 1
        /\ \A i \in 1..(Len(s) + 1) :
             r[i] = IF i < m THEN s[i] ELSE IF i = m THEN e ELSE s[i - 1]
    BY InsertAtEntries
  <1> HIDE DEF r
  <1>2. g[e] = t /\ \A x \in Timeouts : x # e => g[x] = f[x]
    OBVIOUS
  <1>3. /\ \A i \in DOMAIN s : i < m => f[s[i]] <= g[e]
        /\ \A i \in DOMAIN s : i >= m => g[e] <= f[s[i]]
    BY <1>2 DEF Splits
  <1>4. ASSUME NEW i \in DOMAIN s  PROVE g[s[i]] = f[s[i]] /\ f[s[i]] \in Nat
    <2>1. s[i] \in Timeouts /\ s[i] # e
      BY DEF Member
    <2> QED BY <1>2, <2>1
  <1>5. ASSUME NEW i \in DOMAIN r, i # m
        PROVE  from(i) \in DOMAIN s /\ r[i] = s[from(i)]
    <2>1. i \in 1..(Len(s) + 1) /\ Len(s) \in Nat /\ DOMAIN s = 1..Len(s)
      BY <1>1
    <2>2. CASE i < m
      BY <1>1, <2>1, <2>2
    <2>3. CASE i > m
      <3>1. ~(i < m) /\ i - 1 \in 1..Len(s)
        BY <2>1, <2>3
      <3>2. from(i) = i - 1 /\ r[i] = s[i - 1]
        BY <1>1, <1>5, <2>1, <3>1
      <3> QED BY <2>1, <3>1, <3>2
    <2> QED BY <1>5, <2>1, <2>2, <2>3
  <1> SUFFICES ASSUME NEW i \in DOMAIN r, NEW j \in DOMAIN r, i < j
               PROVE  g[r[i]] <= g[r[j]]
    BY DEF SortedBy, r
  <1>6. i \in Int /\ j \in Int /\ m \in Int
    BY <1>1
  <1>7. CASE i # m /\ j # m
    <2>1. from(i) < from(j)
      BY <1>6, <1>7
    <2>2. /\ from(i) \in DOMAIN s /\ r[i] = s[from(i)]
          /\ from(j) \in DOMAIN s /\ r[j] = s[from(j)]
      BY <1>5, <1>7
    <2> HIDE DEF from
    <2>3. f[s[from(i)]] <= f[s[from(j)]]
      BY <2>1, <2>2 DEF SortedBy
    <2> QED BY <1>4, <2>2, <2>3
  <1>8. CASE i = m
    <2>1. r[i] = e /\ j # m
      BY <1>1, <1>6, <1>8
    <2>2. from(j) >= m
      BY <1>6, <1>8
    <2> QED BY <1>3, <1>4, <1>5, <2>1, <2>2
  <1>9. CASE j = m
    <2>1. r[j] = e /\ i # m /\ from(i) < m
      BY <1>1, <1>6, <1>9
    <2> QED BY <1>3, <1>4, <1>5, <2>1
  <1> QED BY <1>7, <1>8, <1>9

\* Where the walk of sloop_register_timeout stops.
LEMMA TimerSlotSplits ==
    ASSUME Wf(lists), VarTypes, TimersSorted, NEW t \in Nat
    PROVE  LET q == lists["timeout"]
               m == TimerSlot(t)
           IN  /\ m \in 1..(Len(q) + 1)
               /\ \A i \in DOMAIN q : i < m => time[q[i]] <= t
               /\ \A i \in DOMAIN q : i >= m => t <= time[q[i]]
  <1> DEFINE q == lists["timeout"]
             later == {k \in DOMAIN q : t < time[q[k]]}
             m == TimerSlot(t)
  <1>1. /\ q \in Seq(Entry) /\ DOMAIN q = 1..Len(q) /\ Len(q) \in Nat
        /\ \A k \in DOMAIN q : q[k] \in Timeouts
    BY ListFacts, HeadsFacts
  <1>2. \A k \in DOMAIN q : time[q[k]] \in Nat
    BY <1>1 DEF VarTypes
  <1>3. \A i, j \in DOMAIN q : i < j => time[q[i]] <= time[q[j]]
    BY DEF TimersSorted
  <1> HIDE DEF q
  <1> DEFINE S == later \cup {Len(q) + 1}
  <1>4. S \subseteq Nat /\ S # {} /\ S \subseteq 1..(Len(q) + 1)
    BY <1>1
  <1>5. PICK n \in S : \A k \in S : n <= k
    BY <1>4, LeastNat
  <1>6. \E x \in 1..(Len(q) + 1) :
          /\ x \in later \cup {Len(q) + 1}
          /\ \A k \in later : x <= k
    BY <1>4, <1>5
  <1>7. /\ m \in 1..(Len(q) + 1)
        /\ m \in later \cup {Len(q) + 1}
        /\ \A k \in later : m <= k
    BY <1>6 DEF TimerSlot, q
  <1> HIDE DEF m
  <1>8. \A i \in DOMAIN q : i < m => time[q[i]] <= t
    BY <1>1, <1>2, <1>7
  <1>9. ASSUME NEW i \in DOMAIN q, i >= m  PROVE t <= time[q[i]]
    <2>1. m \in later
      BY <1>1, <1>7, <1>9
    <2>2. t < time[q[m]] /\ m \in DOMAIN q /\ (m < i \/ m = i)
      BY <1>1, <1>9, <2>1
    <2>3. time[q[m]] <= time[q[i]]
      BY <1>2, <1>3, <2>2
    <2> QED BY <1>2, <2>2, <2>3
  <1> QED BY <1>7, <1>8, <1>9 DEF q, m

-----------------------------------------------------------------------------
(* What a step does to the timers.                                         *)

\* The list of timers and their times stay as they are.
Quiet == lists'["timeout"] = lists["timeout"] /\ time' = time /\ clock' = clock
\* No timer handler runs before or after the step.
Idle == pc # "timer_cb" /\ pc' # "timer_cb"

\* The list heads that are not the timers'.
LEMMA OtherHeads ==
    /\ \A h \in {"readers", "writers", "signals"} :
         /\ h \in Active /\ h \in Heads /\ FreeOf(h) \in Heads
         /\ h # "timeout" /\ FreeOf(h) # "timeout"
    /\ "timeout" \in Active /\ "timeout" \in Heads /\ "free_timeout" \in Heads
    /\ FreeOf("timeout") = "free_timeout" /\ "free_timeout" # "timeout"
  BY DEF Active, Heads, SocketHeads, TimeoutHeads, SignalHeads, FreeOf

\* Moving, freeing or taking structs of the other pools leaves the timers alone.
LEMMA OtherPools ==
    ASSUME Wf(lists), NEW h \in {"readers", "writers", "signals"}
    PROVE  /\ \A k : Free(h, k)["timeout"] = lists["timeout"]
           /\ \A m : Take(h, m)["timeout"] = lists["timeout"]
           /\ Drain(lists, h)["timeout"] = lists["timeout"]
  <1>1. lists \in [Heads -> Seq(Entry)]
    BY DEF Wf
  <1>2. /\ h \in Heads /\ FreeOf(h) \in Heads /\ "timeout" \in Heads
        /\ h # "timeout" /\ FreeOf(h) # "timeout"
    BY OtherHeads
  <1> QED BY <1>1, <1>2 DEF Free, Take, Move, Drain

\* Freeing and taking a timer.
LEMMA TimerPool ==
    ASSUME Wf(lists)
    PROVE  /\ \A k : Free("timeout", k)["timeout"] = RemoveAt(lists["timeout"], k)
           /\ \A m : Take("timeout", m)["timeout"] =
                       InsertAt(lists["timeout"], m, lists["free_timeout"][1])
           /\ Drain(lists, "timeout")["timeout"] = <<>>
  <1>1. lists \in [Heads -> Seq(Entry)]
    BY DEF Wf
  <1>2. /\ "timeout" \in Heads /\ "free_timeout" \in Heads /\ "timeout" # "free_timeout"
        /\ FreeOf("timeout") = "free_timeout"
    BY OtherHeads
  <1> QED BY <1>1, <1>2 DEF Free, Take, Move, Drain

\* The list of timers, its entries and a struct taken from the free list.
LEMMA TimerList ==
    ASSUME IInv
    PROVE  /\ lists["timeout"] \in Seq(Timeouts)
           /\ Distinct(lists["timeout"])
           /\ DOMAIN lists["timeout"] = 1..Len(lists["timeout"])
           /\ Len(lists["timeout"]) \in Nat
           /\ \A e : Member(lists["timeout"], e) => e \in Timeouts /\ time[e] \in Nat
           /\ ~Empty("free_timeout") =>
                /\ lists["free_timeout"][1] \in Timeouts
                /\ ~Member(lists["timeout"], lists["free_timeout"][1])
  <1>1. /\ "timeout" \in Heads /\ "free_timeout" \in Heads /\ "timeout" # "free_timeout"
        /\ Pool("timeout") = Timeouts /\ Pool("free_timeout") = Timeouts
    BY OtherHeads, HeadsFacts
  <1>2. /\ lists["timeout"] \in Seq(Entry) /\ Len(lists["timeout"]) \in Nat
        /\ DOMAIN lists["timeout"] = 1..Len(lists["timeout"])
        /\ \A k \in DOMAIN lists["timeout"] : lists["timeout"][k] \in Timeouts
    BY <1>1, ListFacts DEF IInv
  <1>3. lists["timeout"] \in Seq(Timeouts)
    BY <1>2
  <1>4. Distinct(lists["timeout"])
    BY <1>1 DEF IInv, Wf
  <1>5. \A e : Member(lists["timeout"], e) => e \in Timeouts /\ time[e] \in Nat
    BY <1>2 DEF Member, IInv, VarTypes
  <1>6. ASSUME ~Empty("free_timeout")
        PROVE  /\ lists["free_timeout"][1] \in Timeouts
               /\ ~Member(lists["timeout"], lists["free_timeout"][1])
    <2>1. 1 \in DOMAIN lists["free_timeout"] /\ lists["free_timeout"][1] \in Timeouts
      BY <1>1, <1>6, ListFacts DEF IInv, Empty
    <2>2. Member(lists["free_timeout"], lists["free_timeout"][1])
      BY <2>1 DEF Member
    <2>3. \A a, b \in Heads : \A e :
            Member(lists[a], e) /\ Member(lists[b], e) => a = b
      BY DEF IInv, Wf
    <2> QED BY <1>1, <2>1, <2>2, <2>3
  <1> QED BY <1>2, <1>3, <1>4, <1>5, <1>6

\* An API call that is not one of the three for timers leaves them alone, and
\* no call moves the cursor or the clock.
LEMMA ApiTimers ==
    ASSUME IInv, Api
    PROVE  /\ Calling /\ UNCHANGED control
           /\ \/ Quiet
              \/ \E d \in Delay : sloop_register_timeout(d)
              \/ \E e \in Timeouts : sloop_cancel_timeout(e)
              \/ sloop_cancel_all_timeouts
  <1> USE DEF control
  <1>1. ASSUME NEW h \in {"readers", "writers"}, NEW fd \in Fd, register_socket(h, fd)
        PROVE  Calling /\ UNCHANGED control /\ Quiet
    BY <1>1, OtherPools DEF register_socket, Quiet, IInv
  <1>2. ASSUME NEW h \in {"readers", "writers"}, NEW e \in Sockets, cancel_socket(h, e)
        PROVE  Calling /\ UNCHANGED control /\ Quiet
    BY <1>2, OtherPools DEF cancel_socket, Quiet, IInv, tables
  <1>3. ASSUME NEW h \in {"readers", "writers"}, cancel_all_sockets(h)
        PROVE  Calling /\ UNCHANGED control /\ Quiet
    BY <1>3, OtherPools DEF cancel_all_sockets, Quiet, IInv, tables
  <1>4. ASSUME NEW n \in SigNo, sloop_register_signal(n)
        PROVE  Calling /\ UNCHANGED control /\ Quiet
    BY <1>4, OtherPools DEF sloop_register_signal, Quiet, IInv
  <1>5. ASSUME NEW e \in Signals, sloop_cancel_signal(e)
        PROVE  Calling /\ UNCHANGED control /\ Quiet
    BY <1>5, OtherPools DEF sloop_cancel_signal, Quiet, IInv
  <1>6. ASSUME sloop_cancel_all_signals
        PROVE  Calling /\ UNCHANGED control /\ Quiet
    BY <1>6, OtherPools DEF sloop_cancel_all_signals, Quiet, IInv
  <1>7. ASSUME sloop_terminate
        PROVE  Calling /\ UNCHANGED control /\ Quiet
    BY <1>7 DEF sloop_terminate, Quiet, tables
  <1>8. ASSUME NEW d \in Delay, sloop_register_timeout(d)
        PROVE  Calling /\ UNCHANGED control
    BY <1>8 DEF sloop_register_timeout
  <1>9. ASSUME NEW e \in Timeouts, sloop_cancel_timeout(e)
        PROVE  Calling /\ UNCHANGED control
    BY <1>9 DEF sloop_cancel_timeout
  <1>10. ASSUME sloop_cancel_all_timeouts
         PROVE  Calling /\ UNCHANGED control
    BY <1>10 DEF sloop_cancel_all_timeouts
  <1> HIDE DEF control
  <1> QED BY <1>1, <1>2, <1>3, <1>4, <1>5, <1>6, <1>7, <1>8, <1>9, <1>10 DEF Api

\* The three cancellations before and after that of the timers leave an empty
\* list empty.
LEMMA ExitTimers ==
    ASSUME Wf(lists), Exit
    PROVE  lists'["timeout"] = <<>>
  <1> DEFINE L1 == Drain(lists, "signals")
             L2 == Drain(L1, "timeout")
             L3 == Drain(L2, "readers")
             L4 == Drain(L3, "writers")
  <1>1. lists' = L4
    BY DEF Exit
  <1> HIDE DEF L1, L2, L3, L4
  <1>2. Wf(L1)
    BY DrainKeepsWf, HeadsFacts DEF L1
  <1>3. Wf(L2) /\ L2["timeout"] = <<>>
    BY <1>2, DrainKeepsWf, HeadsFacts DEF L2
  <1>4. "timeout" \in Heads \ {"readers", FreeOf("readers")}
        /\ "timeout" \in Heads \ {"writers", FreeOf("writers")}
    BY OtherHeads
  <1>5. Wf(L3) /\ L3["timeout"] = L2["timeout"]
    BY <1>3, <1>4, DrainKeepsWf, HeadsFacts DEF L3
  <1>6. L4["timeout"] = L3["timeout"]
    BY <1>4, <1>5, DrainKeepsWf, HeadsFacts DEF L4
  <1> QED BY <1>1, <1>3, <1>5, <1>6

\* Behind the timer check no timer handler runs.
LEMMA AfterTimerIdle ==
    ASSUME NEW L, AfterTimer(L)
    PROVE  pc' \in {"loop", "readers", "writers"}
  BY DEF AfterTimer, ToReaders, ToWriters

\* The loop is left.
Left == /\ pc \in {"loop", "select", "terminated"} /\ pc' = "done"
        /\ lists'["timeout"] = <<>>
        /\ time' = time /\ clock' = clock

\* A step of sloop_run calls a timer handler, returns from one, drops every
\* timer at the end, or leaves the timers alone.
LEMMA RunTimers ==
    ASSUME IInv, Run
    PROVE  (Quiet /\ Idle) \/ FireTimer \/ TimerReturn \/ Left
  <1>1. ASSUME Exit, UNCHANGED <<pipe, unlisted>>, pc \in {"loop", "select", "terminated"}
        PROVE  Left
    BY <1>1, ExitTimers DEF Exit, unlisted, Left, IInv
  <1>2. CASE Leave \/ SelectError \/ Break
    BY <1>1, <1>2 DEF Leave, SelectError, Break
  <1>3. CASE Start \/ Setup
    BY <1>3 DEF Start, Setup, Quiet, Idle, unlisted
  <1>4. CASE \/ SelectTimeout
             \/ \E R \in SUBSET FdsOf("readers"), W \in SUBSET FdsOf("writers") : SelectReady(R, W)
    BY <1>4 DEF SelectTimeout, SelectReady, Quiet, Idle, unlisted
  <1>5. CASE ReadSignal
    BY <1>5 DEF ReadSignal, Quiet, Idle, unlisted
  <1>6. CASE SignalReturn
    BY <1>6, OtherPools DEF SignalReturn, Quiet, Idle, unlisted, IInv
  <1>7. CASE SkipTimer
    BY <1>7, AfterTimerIdle DEF SkipTimer, Quiet, Idle, unlisted
  <1>8. ASSUME NEW h \in {"readers", "writers"}, SocketReturn(h)
        PROVE  Quiet /\ Idle
    <2>1. Quiet
      BY <1>8, OtherPools DEF SocketReturn, Quiet, unlisted, IInv
    <2>2. pc \in {"readers", "writers"} /\ pc' \in {"loop", "readers", "writers"}
      BY <1>8 DEF SocketReturn, ToWriters
    <2> QED BY <2>1, <2>2 DEF Idle
  <1> QED BY <1>2, <1>3, <1>4, <1>5, <1>6, <1>7, <1>8 DEF Run

\* A timer that is registered, for a struct e that was free and a delay d.
Registered(e, d) ==
    /\ e \in Timeouts /\ ~Member(lists["timeout"], e)
    /\ time' = [time EXCEPT ![e] = get_uptime + d]
    /\ lists'["timeout"] = InsertAt(lists["timeout"], TimerSlot(get_uptime + d), e)

\* A timer that is unlinked.
Unlinked(e) ==
    /\ \E k \in DOMAIN lists["timeout"] :
         /\ lists["timeout"][k] = e
         /\ lists'["timeout"] = RemoveAt(lists["timeout"], k)
    /\ time' = time

\* sloop_register_timeout in terms of the list of timers.
LEMMA RegisterEffect ==
    ASSUME IInv, NEW d \in Delay, sloop_register_timeout(d)
    PROVE  \E e \in Timeouts : Registered(e, d)
  BY TimerList, TimerPool DEF sloop_register_timeout, Registered, IInv

\* So for sloop_cancel_timeout.
LEMMA CancelEffect ==
    ASSUME IInv, NEW e \in Timeouts, sloop_cancel_timeout(e)
    PROVE  Unlinked(e) /\ e # cur
  BY TimerPool DEF sloop_cancel_timeout, Unlinked, IInv, tables

\* And for the return of a timer handler.
LEMMA ReturnEffect ==
    ASSUME IInv, TimerReturn
    PROVE  Unlinked(cur) /\ Member(lists["timeout"], cur)
  <1>1. Member(lists["timeout"], cur)
    BY HeadOfActive DEF IInv, CursorOK, TimerReturn, Callback
  <1>2. /\ PosOf("timeout", cur) \in DOMAIN lists["timeout"]
        /\ lists["timeout"][PosOf("timeout", cur)] = cur
    BY <1>1, PosOfInList, HeadsFacts
  <1> QED BY <1>1, <1>2, TimerPool DEF TimerReturn, Unlinked, IInv, unlisted

-----------------------------------------------------------------------------
(* The list stays sorted.                                                  *)

\* TimersSorted says that the list is sorted by the times.
LEMMA SortedIff ==
    /\ TimersSorted <=> SortedBy(lists["timeout"], time)
    /\ TimersSorted' <=> SortedBy(lists'["timeout"], time')
  BY DEF TimersSorted, SortedBy

\* An empty list is sorted.
LEMMA EmptySorted ==
    ASSUME NEW f
    PROVE  SortedBy(<<>>, f)
  BY DEF SortedBy

\* Unlinking a timer keeps the list sorted.
LEMMA UnlinkedSorted ==
    ASSUME IInv, TimersSorted, NEW e, Unlinked(e)
    PROVE  TimersSorted'
  <1>1. lists["timeout"] \in Seq(Timeouts)
    BY TimerList
  <1> QED BY <1>1, SortedIff, RemoveAtSorted DEF Unlinked

\* Registering one does.
LEMMA RegisteredSorted ==
    ASSUME IInv, TimersSorted, NEW e, NEW d \in Delay, Registered(e, d)
    PROVE  TimersSorted'
  <1> DEFINE q == lists["timeout"]
             t == get_uptime + d
             m == TimerSlot(t)
  <1>1. q \in Seq(Timeouts)
    BY TimerList
  <1>2. t \in Nat /\ time \in [Timeouts -> Nat]
    BY UptimeNat, TimeAssumption DEF IInv, VarTypes
  <1>3. /\ e \in Timeouts /\ ~Member(q, e)
        /\ time' = [time EXCEPT ![e] = t]
        /\ lists'["timeout"] = InsertAt(q, m, e)
    BY DEF Registered
  <1>4. /\ m \in 1..(Len(q) + 1)
        /\ \A i \in DOMAIN q : i < m => time[q[i]] <= t
        /\ \A i \in DOMAIN q : i >= m => t <= time[q[i]]
    BY <1>2, TimerSlotSplits DEF IInv
  <1>5. SortedBy(q, time)
    BY SortedIff
  <1> HIDE DEF q, t, m
  <1>6. Splits(q, time, m, t)
    BY <1>4 DEF Splits
  <1>7. SortedBy(InsertAt(q, m, e), time')
    BY <1>1, <1>2, <1>3, <1>4, <1>5, <1>6, InsertAtSorted
  <1> QED BY <1>3, <1>7, SortedIff

\* Every step keeps the list sorted.
LEMMA SortedStep ==
    ASSUME IInv, TimersSorted, [Next]_vars
    PROVE  TimersSorted'
  <1>1. CASE Quiet
    BY <1>1, SortedIff DEF Quiet
  <1>2. ASSUME lists'["timeout"] = <<>>  PROVE TimersSorted'
    BY <1>2, SortedIff, EmptySorted
  <1>3. CASE Api
    <2>1. CASE sloop_cancel_all_timeouts
      BY <1>2, <2>1, TimerPool DEF sloop_cancel_all_timeouts, IInv
    <2> QED BY <1>1, <1>3, <2>1, ApiTimers, RegisterEffect, RegisteredSorted,
               CancelEffect, UnlinkedSorted
  <1>4. CASE Run
    <2>1. CASE FireTimer
      BY <1>1, <2>1 DEF FireTimer, Quiet, unlisted
    <2>2. CASE Left
      BY <1>2, <2>2 DEF Left
    <2> QED BY <1>1, <1>4, <2>1, <2>2, RunTimers, ReturnEffect, UnlinkedSorted
  <1>5. CASE \E n \in SigNo : sloop_signals_handler(n)
    BY <1>1, <1>5 DEF sloop_signals_handler, Quiet, unlisted
  <1>6. CASE Tick \/ UNCHANGED vars
    BY <1>6 DEF Tick, TimersSorted, tables, vars
  <1> QED BY <1>3, <1>4, <1>5, <1>6 DEF Next

\* The invariant of SloopProofs, as its own fact.
LEMMA AlwaysIInv == Spec => []IInv
  BY SloopInvariant, IInvIff, PTL

\* For any number of timers and any delays: sloop.timeout is sorted by time in
\* every reachable state, so its first entry is the timer select must wait for
\* (the insertion walk of sloop_register_timeout).
THEOREM SloopTimersSorted == Spec => []TimersSorted
  <1>1. Init => TimersSorted
    <2>1. ASSUME Init  PROVE lists["timeout"] = <<>>
      BY <2>1 DEF Init, Heads, TimeoutHeads
    <2> QED BY <2>1, SortedIff, EmptySorted
  <1> QED BY <1>1, AlwaysIInv, SortedStep, PTL DEF Spec

-----------------------------------------------------------------------------
(* The timer that the loop remembers.                                      *)

\* When select is left because its time is up, the remembered timer is due:
\* select waits for it, and a return for a descriptor or a signal has res = 1.
Remembered ==
    /\ pc = "select" /\ entryTimeout # None => time[entryTimeout] <= wake
    /\ pc = "timer" /\ res = 0 => entryTimeout # None /\ time[entryTimeout] <= clock
    /\ pc \in {"signal", "signal_cb"} => res = 1

\* At the top of the loop, tv covers the time until the first timer.
LEMMA SetupRemembers ==
    ASSUME IInv, Setup
    PROVE  Remembered'
  <1>1. pc' = "select" /\ time' = time
    BY DEF Setup, unlisted
  <1>2. CASE Empty("timeout")
    BY <1>1, <1>2 DEF Setup, Remembered
  <1>3. CASE ~Empty("timeout")
    <2> DEFINE t == lists["timeout"][1]
    <2>1. t \in Timeouts
      BY <1>3, ListFacts, HeadsFacts DEF IInv, Empty
    <2>2. time[t] \in Nat /\ clock \in Nat
      BY <2>1 DEF IInv, VarTypes
    <2>3. get_uptime \in Nat /\ get_uptime <= clock
      BY <2>2, UptimeRounds
    <2>4. entryTimeout' = t /\ wake' = IF get_uptime >= time[t] THEN clock
                                       ELSE clock + (time[t] - get_uptime)
      BY <1>3 DEF Setup
    <2> HIDE DEF t
    <2>5. time[t] <= wake'
      BY <2>2, <2>3, <2>4
    <2> QED BY <1>1, <2>4, <2>5 DEF Remembered
  <1> QED BY <1>2, <1>3

\* Every step keeps what is remembered.
LEMMA RememberedStep ==
    ASSUME IInv, Remembered, [Next]_vars
    PROVE  Remembered'
  <1>1. CASE Api
    <2>1. Calling /\ UNCHANGED control
      BY <1>1, ApiTimers
    <2>2. pc # "select" /\ pc # "timer" /\ pc # "signal"
      BY <2>1 DEF Calling, Callback
    <2> QED BY <2>1, <2>2 DEF control, selected, Remembered
  <1>2. CASE SelectTimeout
    <2>1. /\ entryTimeout \in Timeouts /\ time[entryTimeout] \in Nat
          /\ wake \in Nat /\ clock \in Nat
      BY <1>2 DEF SelectTimeout, IInv, VarTypes
    <2>2. time[entryTimeout] <= clock
      BY <1>2, <2>1 DEF SelectTimeout, Remembered
    <2> QED BY <1>2, <2>2 DEF SelectTimeout, Remembered, unlisted
  <1>3. CASE \E R \in SUBSET FdsOf("readers"), W \in SUBSET FdsOf("writers") : SelectReady(R, W)
    BY <1>3 DEF SelectReady, Remembered
  <1>4. CASE ReadSignal \/ SignalReturn
    BY <1>4 DEF ReadSignal, SignalReturn, Remembered, selected
  <1>5. CASE Leave \/ SelectError \/ Break
    BY <1>5 DEF Leave, SelectError, Break, Exit, Remembered
  <1>6. CASE Start \/ FireTimer
    BY <1>6 DEF Start, FireTimer, Remembered
  <1>7. CASE SkipTimer \/ TimerReturn
    <2>1. pc' \in {"loop", "readers", "writers"}
      BY <1>7, AfterTimerIdle DEF SkipTimer, TimerReturn
    <2> QED BY <2>1 DEF Remembered
  <1>8. ASSUME NEW h \in {"readers", "writers"}, SocketReturn(h)
        PROVE  Remembered'
    <2>1. pc' \in {"loop", "readers", "writers"}
      BY <1>8 DEF SocketReturn, ToWriters
    <2> QED BY <2>1 DEF Remembered
  <1>9. CASE \E n \in SigNo : sloop_signals_handler(n)
    BY <1>9 DEF sloop_signals_handler, Remembered, unlisted, selected
  <1>10. CASE Tick
    <2>1. clock \in Nat /\ clock' = clock + 1
      BY <1>10 DEF Tick, IInv, VarTypes
    <2>2. UNCHANGED <<time, pc, entryTimeout, wake, res>>
      BY <1>10 DEF Tick, tables, selected
    <2>3. entryTimeout # None => time[entryTimeout] \in Nat
      BY DEF IInv, VarTypes
    <2> QED BY <2>1, <2>2, <2>3 DEF Remembered
  <1>11. CASE UNCHANGED vars
    BY <1>11 DEF vars, Remembered
  <1> QED BY <1>1, <1>2, <1>3, <1>4, <1>5, <1>6, <1>7, <1>8, <1>9, <1>10, <1>11,
             SetupRemembers DEF Next, Run

-----------------------------------------------------------------------------
(* The loop implements module Timers.                                      *)

Due == [t \in Timeouts |-> DueOf(t)]
Firing == IF pc = "timer_cb" THEN cur ELSE None
Off == Promise!Off
OnAt(n) == [time |-> n, armed |-> TRUE]

\* A timer is armed, with its time, when it is in the list.
LEMMA DueIs ==
    ASSUME NEW t \in Timeouts
    PROVE  /\ Due[t] = IF Member(lists["timeout"], t) THEN OnAt(time[t]) ELSE Off
           /\ Due'[t] = IF Member(lists'["timeout"], t) THEN OnAt(time'[t]) ELSE Off
  <1>1. /\ t \in ToSet(lists["timeout"]) <=> Member(lists["timeout"], t)
        /\ t \in ToSet(lists'["timeout"]) <=> Member(lists'["timeout"], t)
    BY DEF ToSet, Member
  <1>2. Due[t] = DueOf(t) /\ Due'[t] = DueOf(t)'
    BY DEF Due
  <1>3. ASSUME Member(lists["timeout"], t)  PROVE DueOf(t) = OnAt(time[t])
    <2>1. (t \in ToSet(lists["timeout"])) = TRUE
      BY <1>1, <1>3
    <2> QED BY <2>1 DEF DueOf, OnAt
  <1>4. ASSUME ~Member(lists["timeout"], t)  PROVE DueOf(t) = Off
    <2>1. (t \in ToSet(lists["timeout"])) = FALSE
      BY <1>1, <1>4
    <2> QED BY <2>1 DEF DueOf, Off, Promise!Off
  <1>5. ASSUME Member(lists'["timeout"], t)  PROVE DueOf(t)' = OnAt(time'[t])
    <2>1. (t \in ToSet(lists'["timeout"])) = TRUE
      BY <1>1, <1>5
    <2> QED BY <2>1 DEF DueOf, OnAt
  <1>6. ASSUME ~Member(lists'["timeout"], t)  PROVE DueOf(t)' = Off
    <2>1. (t \in ToSet(lists'["timeout"])) = FALSE
      BY <1>1, <1>6
    <2> QED BY <2>1 DEF DueOf, Off, Promise!Off
  <1> QED BY <1>2, <1>3, <1>4, <1>5, <1>6

\* Due is a function on the timers.
LEMMA DueDomain ==
    /\ Due = [t \in Timeouts |-> Due[t]] /\ Due' = [t \in Timeouts |-> Due'[t]]
    /\ DOMAIN Due = Timeouts /\ DOMAIN Due' = Timeouts
  BY DEF Due

\* The armed timers are those in the list.
LEMMA ArmedIs ==
    ASSUME NEW t \in Timeouts
    PROVE  /\ t \in Promise!Armed <=> Member(lists["timeout"], t)
           /\ Member(lists["timeout"], t) => Due[t].time = time[t]
  <1>1. OnAt(time[t]).armed /\ ~Off.armed /\ OnAt(time[t]).time = time[t]
    BY DEF OnAt, Off, Promise!Off
  <1>2. t \in Promise!Armed <=> Due[t].armed
    BY DEF Promise!Armed, Due
  <1> QED BY <1>1, <1>2, DueIs

\* No timer is the number that stands for none.
LEMMA TimerNotNone == None \notin Timeouts
  BY PoolAssumption DEF None, Timeouts

\* A step that leaves the list, the times, the clock and the timer whose
\* handler runs alone is a stuttering step of Timers.
LEMMA QuietStutters ==
    ASSUME Quiet, Firing' = Firing
    PROVE  UNCHANGED Promise!vars
  <1>1. \A t \in Timeouts : Due'[t] = Due[t]
    BY DueIs DEF Quiet
  <1>2. Due' = Due
    BY <1>1, DueDomain
  <1> QED BY <1>2 DEF Promise!vars, Quiet, Due, Firing

\* Unlinking e changes the membership of e only.
LEMMA UnlinkedDue ==
    ASSUME IInv, NEW e \in Timeouts, Unlinked(e)
    PROVE  Member(lists["timeout"], e) /\ Due' = [Due EXCEPT ![e] = Off]
  <1>1. PICK k \in DOMAIN lists["timeout"] :
            /\ lists["timeout"][k] = e
            /\ lists'["timeout"] = RemoveAt(lists["timeout"], k)
    BY DEF Unlinked
  <1>2. /\ lists["timeout"] \in Seq(Timeouts) /\ Distinct(lists["timeout"])
        /\ k \in 1..Len(lists["timeout"])
    BY TimerList
  <1>3. \A x : Member(lists'["timeout"], x) <=> Member(lists["timeout"], x) /\ x # e
    BY <1>1, <1>2, RemoveAtMembers
  <1>4. Due'[e] = Off /\ \A t \in Timeouts : t # e => Due'[t] = Due[t]
    BY <1>3, DueIs DEF Unlinked
  <1>5. Due' = [Due EXCEPT ![e] = Off]
    BY <1>4, DueDomain
  <1> QED BY <1>1, <1>5 DEF Member

\* sloop_register_timeout arms a timer.
LEMMA RegisterArms ==
    ASSUME IInv, NEW d \in Delay, sloop_register_timeout(d)
    PROVE  Promise!Next
  <1>1. PICK e \in Timeouts : Registered(e, d)
    BY RegisterEffect
  <1> DEFINE n == get_uptime + d
  <1>2. n \in Nat /\ clock \in Nat /\ n + Gran > clock
    <2>1. d \in Nat /\ Gran \in Nat
      BY TimeAssumption
    <2> QED BY <2>1, UptimeRounds DEF IInv, VarTypes
  <1>3. TimerSlot(n) \in 1..(Len(lists["timeout"]) + 1)
    BY TimerSlotInRange DEF IInv
  <1>4. lists["timeout"] \in Seq(Timeouts) /\ Distinct(lists["timeout"])
    BY TimerList
  <1>5. /\ ~Member(lists["timeout"], e) /\ time' = [time EXCEPT ![e] = n]
        /\ lists'["timeout"] = InsertAt(lists["timeout"], TimerSlot(n), e)
    BY <1>1 DEF Registered
  <1> HIDE DEF n
  <1>6. \A x : Member(lists'["timeout"], x) <=> Member(lists["timeout"], x) \/ x = e
    BY <1>3, <1>4, <1>5, InsertAtMembers
  <1>7. time'[e] = n /\ \A x \in Timeouts : x # e => time'[x] = time[x]
    BY <1>5 DEF IInv, VarTypes
  <1>8. Due'[e] = OnAt(n) /\ \A t \in Timeouts : t # e => Due'[t] = Due[t]
    BY <1>6, <1>7, DueIs
  <1>9. Due' = [Due EXCEPT ![e] = Due'[e]]
    BY <1>8, DueDomain
  <1>10. Due'[e].armed /\ Due'[e].time = n
    BY <1>8 DEF OnAt
  <1>11. Firing' = Firing /\ clock' = clock
    BY DEF sloop_register_timeout, control, Firing
  <1>12. e \notin Promise!Armed
    BY <1>5, ArmedIs
  <1>13. Promise!Arm(e)
    BY <1>2, <1>9, <1>10, <1>11, <1>12 DEF Promise!Arm, Due, Firing
  <1> QED BY <1>13 DEF Promise!Next

\* sloop_cancel_timeout(handle) cancels one.
LEMMA CancelCancels ==
    ASSUME IInv, NEW e \in Timeouts, sloop_cancel_timeout(e)
    PROVE  Promise!Next
  <1>1. Unlinked(e) /\ e # cur
    BY CancelEffect
  <1>2. Firing' = Firing /\ clock' = clock
    BY DEF sloop_cancel_timeout, control, Firing
  <1>3. e # Firing
    BY <1>1, TimerNotNone DEF Firing
  <1>4. e \in Promise!Armed /\ Due' = [Due EXCEPT ![e] = Off]
    BY <1>1, UnlinkedDue, ArmedIs
  <1>5. Promise!Cancel(e)
    BY <1>2, <1>3, <1>4 DEF Promise!Cancel, Due, Firing, Off
  <1> QED BY <1>5 DEF Promise!Next

\* The return of a timer handler finishes the timer.
LEMMA ReturnFinishes ==
    ASSUME IInv, TimerReturn
    PROVE  Promise!Next
  <1>1. Unlinked(cur) /\ Member(lists["timeout"], cur)
    BY ReturnEffect
  <1>2. cur \in Timeouts
    BY <1>1, TimerList
  <1>3. pc' # "timer_cb" /\ pc = "timer_cb" /\ clock' = clock
    BY AfterTimerIdle DEF TimerReturn, unlisted
  <1>4. Firing = cur /\ Firing # None /\ Firing' = None
    BY <1>2, <1>3, TimerNotNone DEF Firing
  <1>5. Due' = [Due EXCEPT ![cur] = Off]
    BY <1>1, <1>2, UnlinkedDue
  <1>6. Promise!Finish
    BY <1>3, <1>4, <1>5 DEF Promise!Finish, Due, Firing, Off
  <1> QED BY <1>6 DEF Promise!Next

\* Emptying the list cancels every timer.
LEMMA EmptyCancels ==
    ASSUME IInv, lists'["timeout"] = <<>>, Idle, clock' = clock
    PROVE  Promise!Next
  <1>1. \A e : ~Member(lists'["timeout"], e)
    BY DEF Member
  <1>2. \A t \in Timeouts : Due'[t] = Off
    BY <1>1, DueIs
  <1>3. Due' = [t \in Timeouts |-> Off]
    BY <1>2, DueDomain
  <1>4. Firing = None /\ Firing' = None
    BY DEF Firing, Idle
  <1>5. Promise!CancelAll
    BY <1>3, <1>4 DEF Promise!CancelAll, Due, Firing, Off
  <1> QED BY <1>5 DEF Promise!Next

\* The handler that is called is that of a timer which is registered and due,
\* and none is due before it.
LEMMA FireFires ==
    ASSUME IInv, TimersSorted, Remembered, FireTimer
    PROVE  Promise!Next
  <1> DEFINE q == lists["timeout"]
             t == entryTimeout
  <1>1. /\ q \in Seq(Timeouts) /\ DOMAIN q = 1..Len(q) /\ Len(q) \in Nat
        /\ \A e : Member(q, e) => e \in Timeouts /\ time[e] \in Nat
    BY TimerList
  <1>2. 1 \in DOMAIN q /\ q[1] = t /\ t # None
    BY ListFacts, HeadsFacts DEF FireTimer, TimerDue, IInv, Empty
  <1>3. Member(q, t) /\ t \in Timeouts /\ time[t] \in Nat
    BY <1>1, <1>2 DEF Member
  <1>4. time[t] <= clock
    <2>1. clock \in Nat
      BY DEF IInv, VarTypes
    <2>2. get_uptime \in Nat /\ get_uptime <= clock
      BY <2>1, UptimeRounds
    <2>3. CASE res = 0
      BY <2>3 DEF Remembered, FireTimer
    <2>4. CASE get_uptime >= time[t]
      BY <1>3, <2>1, <2>2, <2>4
    <2> QED BY <2>3, <2>4 DEF FireTimer, TimerDue
  <1>5. ASSUME NEW u \in Timeouts, Member(q, u)  PROVE time[t] <= time[u]
    <2>1. PICK j \in DOMAIN q : q[j] = u
      BY <1>5 DEF Member
    <2>2. CASE j = 1
      BY <1>2, <1>3, <2>1, <2>2
    <2>3. CASE j # 1
      <3>1. 1 < j
        BY <1>1, <2>3
      <3> QED BY <1>2, <2>1, <3>1 DEF TimersSorted
    <2> QED BY <2>2, <2>3
  <1>6. Quiet /\ pc = "timer" /\ pc' = "timer_cb" /\ cur' = t
    BY DEF FireTimer, Quiet, unlisted
  <1> HIDE DEF q, t
  <1>7. Due' = Due
    <2>1. \A x \in Timeouts : Due'[x] = Due[x]
      BY <1>6, DueIs DEF Quiet
    <2> QED BY <2>1, DueDomain
  <1>8. Firing = None /\ Firing' = t
    BY <1>6 DEF Firing
  <1>9. /\ t \in Promise!Armed /\ Due[t].time <= clock
        /\ \A u \in Promise!Armed : Due[t].time <= Due[u].time
    <2>1. \A u \in Promise!Armed : u \in Timeouts
      BY DEF Promise!Armed
    <2> QED BY <1>3, <1>4, <1>5, <2>1, ArmedIs DEF q
  <1>10. Promise!Fire(t)
    BY <1>6, <1>7, <1>8, <1>9 DEF Promise!Fire, Due, Firing, Quiet
  <1> QED BY <1>3, <1>10 DEF Promise!Next

\* Every step of the loop, of an API call and of the environment is a step of
\* Timers or a stuttering step.
LEMMA PromiseStep ==
    ASSUME IInv, TimersSorted, Remembered, [Next]_vars
    PROVE  [Promise!Next]_(Promise!vars)
  <1>1. CASE Api
    <2>1. UNCHANGED control /\ Firing' = Firing /\ clock' = clock
      BY <1>1, ApiTimers DEF control, Firing
    <2>2. CASE Quiet
      BY <2>1, <2>2, QuietStutters
    <2>3. CASE sloop_cancel_all_timeouts
      <3>1. lists'["timeout"] = <<>>
        BY <2>3, TimerPool DEF sloop_cancel_all_timeouts, IInv
      <3>2. Idle
        BY <2>1, <2>3 DEF sloop_cancel_all_timeouts, control, Idle
      <3> QED BY <2>1, <3>1, <3>2, EmptyCancels
    <2> QED BY <1>1, <2>2, <2>3, ApiTimers, RegisterArms, CancelCancels
  <1>2. CASE Run
    <2>1. CASE Quiet /\ Idle
      BY <2>1, QuietStutters DEF Idle, Firing
    <2>2. CASE Left
      BY <2>2, EmptyCancels DEF Left, Idle
    <2> QED BY <1>2, <2>1, <2>2, RunTimers, FireFires, ReturnFinishes
  <1>3. CASE \E n \in SigNo : sloop_signals_handler(n)
    <2>1. Quiet
      BY <1>3 DEF sloop_signals_handler, Quiet, unlisted
    <2>2. Firing' = Firing
      BY <1>3 DEF sloop_signals_handler, Firing
    <2> QED BY <2>1, <2>2, QuietStutters
  <1>4. CASE Tick
    <2>1. /\ lists' = lists /\ time' = time /\ Firing' = Firing /\ clock' = clock + 1
      BY <1>4 DEF Tick, tables, Firing
    <2>2. Due' = Due
      <3>1. \A t \in Timeouts : Due'[t] = Due[t]
        BY <2>1, DueIs
      <3> QED BY <3>1, DueDomain
    <2>3. Promise!Tick
      BY <2>1, <2>2 DEF Promise!Tick, Due, Firing
    <2> QED BY <2>3 DEF Promise!Next
  <1>5. CASE UNCHANGED vars
    <2>1. Quiet /\ Firing' = Firing
      BY <1>5 DEF vars, Quiet, Firing
    <2> QED BY <2>1, QuietStutters
  <1> QED BY <1>1, <1>2, <1>3, <1>4, <1>5 DEF Next

\* For any number of timers, any delays and any resolution of the clock: the
\* event loop implements module Timers.  A timer handler is called only for a
\* timer that is still registered, not before its time and not before a timer
\* with an earlier time; nothing but its own cancellation or the return of its
\* handler disarms a timer.
THEOREM SloopKeepsPromise == Spec => KeepsPromise
  <1>1. ASSUME Init  PROVE Promise!Init
    <2>1. lists["timeout"] = <<>> /\ pc = "app" /\ clock = 0
      BY <1>1 DEF Init, Heads, TimeoutHeads
    <2>2. \A t \in Timeouts : Due[t] = Off
      <3>1. \A t : ~Member(lists["timeout"], t)
        BY <2>1 DEF Member
      <3> QED BY <3>1, DueIs
    <2>3. Due = [t \in Timeouts |-> Off]
      BY <2>2, DueDomain
    <2> QED BY <2>1, <2>3 DEF Promise!Init, Due, Off
  <1>2. Init => Remembered
    BY DEF Init, Remembered
  <1>3. Spec => []Remembered
    BY <1>2, AlwaysIInv, RememberedStep, PTL DEF Spec
  <1>4. Spec => Promise!Init /\ [][Promise!Next]_(Promise!vars)
    BY <1>1, <1>3, AlwaysIInv, SloopTimersSorted, PromiseStep, PTL DEF Spec
  <1> QED BY <1>4 DEF KeepsPromise, Promise!Spec

=============================================================================
