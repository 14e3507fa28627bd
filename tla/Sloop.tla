------------------------------- MODULE Sloop -------------------------------
(***************************************************************************)
(* The select loop of comlib/sloop.c on which the event-driven daemons of  *)
(* the firmware are built.  A process registers read sockets, write        *)
(* sockets, signals and timers, calls sloop_run, and every handler runs to *)
(* completion on that one thread; only the POSIX signal handler, which     *)
(* writes the signal number into a pipe, interrupts it.                    *)
(*                                                                         *)
(* Every registration is a struct of one of three static pools, linked     *)
(* into exactly one doubly linked list: the free list of its pool or one   *)
(* of the four active lists.  The lists are the variable "lists"; the      *)
(* structs are numbers, sockets first, then timers, then signals.          *)
(*                                                                         *)
(* Handlers are the environment: between the start and the return of a     *)
(* handler the application may make any API call, in any order, with one   *)
(* restriction that the code relies on and does not check: a handler does  *)
(* not cancel the registration it is running for (a socket or signal       *)
(* handler returns a negative number instead; a timer's registration ends  *)
(* by itself), and one signal number is registered once.                   *)
(***************************************************************************)
EXTENDS Integers, Sequences, SequencesExt, FiniteSets

CONSTANTS
    NSocket,    \* MAX_SLOOP_SOCKET
    NTimeout,   \* MAX_SLOOP_TIMEOUT
    NSignal,    \* MAX_SLOOP_SIGNAL
    Fd,         \* file descriptors the application registers
    SigNo,      \* signal numbers the application registers
    Delay,      \* timer delays, in ticks
    Gran,       \* ticks per second: get_uptime counts whole seconds
    MaxTime,    \* bound on the clock
    MaxPipe     \* bound on the signals waiting in the pipe

ASSUME PoolAssumption ==
    NSocket \in Nat /\ NTimeout \in Nat /\ NSignal \in Nat
ASSUME TimeAssumption ==
    /\ Delay \subseteq Nat
    /\ Gran \in Nat \ {0}
    /\ MaxTime \in Nat /\ MaxPipe \in Nat
ASSUME NameAssumption ==
    /\ Fd \subseteq Nat \ {0} /\ SigNo \subseteq Nat \ {0}

VARIABLES
    lists,        \* the seven dlist heads of struct sloop_data
    sock,         \* sloop_socket.sock
    sig,          \* sloop_signal.sig
    time,         \* sloop_timeout.time
    caught,       \* signal numbers whose disposition is sloop_signals_handler
    pipe,         \* signal_pipe
    terminate,    \* sloop.terminate
    clock,        \* real time in ticks
    pc,           \* where sloop_run is
    cur,          \* struct whose handler runs (entry_socket, entry_signal), or None
    entryTimeout, \* entry_timeout: head of the timer list when select was set up
    wake,         \* the time at which select's tv runs out
    res,          \* what select returned: 0 or positive
    rfds, wfds,   \* descriptors select reported
    ran,          \* history: sockets dispatched in this readers/writers pass
    fresh         \* history: sockets registered during this pass

vars == <<lists, sock, sig, time, caught, pipe, terminate, clock, pc, cur,
          entryTimeout, wake, res, rfds, wfds, ran, fresh>>

tables == <<sock, sig, time, caught>>
selected == <<entryTimeout, wake, res, rfds, wfds>>
history == <<ran, fresh>>

-----------------------------------------------------------------------------
(* The pools and the list heads.                                           *)

None == 0
Sockets == 1..NSocket
Timeouts == (NSocket + 1)..(NSocket + NTimeout)
Signals == (NSocket + NTimeout + 1)..(NSocket + NTimeout + NSignal)
Entry == Sockets \cup Timeouts \cup Signals

SocketHeads == {"free_sockets", "readers", "writers"}
TimeoutHeads == {"free_timeout", "timeout"}
SignalHeads == {"free_signals", "signals"}
Heads == SocketHeads \cup TimeoutHeads \cup SignalHeads
Active == {"readers", "writers", "timeout", "signals"}

Pool(h) == IF h \in SocketHeads THEN Sockets
           ELSE IF h \in TimeoutHeads THEN Timeouts ELSE Signals
\* Mutant: free_signal links the struct into the timers' free list.
FreeOfMixed(h) == IF h \in SocketHeads THEN "free_sockets" ELSE "free_timeout"
FreeOf(h) == IF h \in SocketHeads THEN "free_sockets"
             ELSE IF h \in TimeoutHeads THEN "free_timeout" ELSE "free_signals"

\* dlist_del of the k-th entry of list a followed by its insertion into list
\* b as the m-th entry: what every get, free, register and cancel is made of.
Move(a, k, b, m) ==
    [lists EXCEPT ![a] = RemoveAt(@, k), ![b] = InsertAt(@, m, lists[a][k])]

\* Mutant: the struct is unlinked and never given back.
FreeLeak(a, k) == [lists EXCEPT ![a] = RemoveAt(@, k)]
\* The free list is a stack: free_socket, free_timeout and free_signal push.
Free(a, k) == Move(a, k, FreeOf(a), 1)

\* A struct is taken from the top of its free list and put into h as the m-th.
Take(h, m) == Move(FreeOf(h), 1, h, m)

\* cancel_xxx(NULL): while the list is not empty, free its first entry.
Drain(L, h) == [L EXCEPT ![FreeOf(h)] = Reverse(L[h]) \o @, ![h] = <<>>]

PosOf(h, e) == CHOOSE k \in DOMAIN lists[h] : lists[h][k] = e
Empty(h) == lists[h] = <<>>
FdsOf(h) == {sock[lists[h][k]] : k \in DOMAIN lists[h]}

\* get_uptime() as a struct timeval: the current time rounded down to a second.
get_uptime == (clock \div Gran) * Gran

-----------------------------------------------------------------------------
(* sloop_init                                                              *)

Init ==
    /\ lists = [h \in Heads |->
                  IF h = "free_sockets" THEN [i \in Sockets |-> NSocket + 1 - i]
                  ELSE IF h = "free_timeout"
                       THEN [i \in 1..NTimeout |-> NSocket + NTimeout + 1 - i]
                  ELSE IF h = "free_signals"
                       THEN [i \in 1..NSignal |-> NSocket + NTimeout + NSignal + 1 - i]
                  ELSE <<>>]
    /\ sock = [s \in Sockets |-> 0]
    /\ sig = [s \in Signals |-> 0]
    /\ time = [t \in Timeouts |-> 0]
    /\ caught = {}
    /\ pipe = <<>>
    /\ terminate = FALSE
    /\ clock = 0
    /\ pc = "app"
    /\ cur = None
    /\ entryTimeout = None /\ wake = 0 /\ res = 0
    /\ rfds = {} /\ wfds = {}
    /\ ran = {} /\ fresh = {}

-----------------------------------------------------------------------------
(* The API, called by the application before sloop_run and by handlers.    *)

Callback == {"signal_cb", "timer_cb", "readers", "writers"}
Calling == pc \in Callback \cup {"app"}
control == <<pc, cur, selected, clock, pipe>>

\* Mutant: the new socket is inserted at the tail (dlist_add_tail).
RegisterSocketTail(h, fd) ==
    /\ Calling
    /\ ~Empty("free_sockets")
    /\ LET e == lists["free_sockets"][1] IN
         /\ sock' = [sock EXCEPT ![e] = fd]
         /\ lists' = Take(h, Len(lists[h]) + 1)
         /\ fresh' = IF pc = h THEN fresh \cup {e} ELSE fresh
    /\ UNCHANGED <<sig, time, caught, terminate, control, ran>>

\* register_socket: get_socket, fill the struct, insert at the head.  With an
\* empty free list it returns NULL and changes nothing.
register_socket(h, fd) ==
    /\ Calling
    /\ ~Empty("free_sockets")
    /\ LET e == lists["free_sockets"][1] IN
         /\ sock' = [sock EXCEPT ![e] = fd]
         /\ lists' = Take(h, 1)
         /\ fresh' = IF pc = h THEN fresh \cup {e} ELSE fresh
    /\ UNCHANGED <<sig, time, caught, terminate, control, ran>>

\* cancel_socket(target, head)
cancel_socket(h, e) ==
    /\ Calling
    /\ \E k \in DOMAIN lists[h] : lists[h][k] = e /\ lists' = Free(h, k)
    /\ e # cur
    /\ UNCHANGED <<tables, terminate, control, history>>

\* cancel_socket(NULL, head)
cancel_all_sockets(h) ==
    /\ Calling
    /\ pc # h
    /\ lists' = Drain(lists, h)
    /\ UNCHANGED <<tables, terminate, control, history>>

\* sloop_register_signal; signal() installs sloop_signals_handler.
sloop_register_signal(n) ==
    /\ Calling
    /\ ~Empty("free_signals")
    /\ \A k \in DOMAIN lists["signals"] : sig[lists["signals"][k]] # n
    /\ sig' = [sig EXCEPT ![lists["free_signals"][1]] = n]
    /\ lists' = Take("signals", 1)
    /\ caught' = caught \cup {n}
    /\ UNCHANGED <<sock, time, terminate, control, history>>

\* sloop_cancel_signal(handle) puts SIG_DFL back.
sloop_cancel_signal(e) ==
    /\ Calling
    /\ \E k \in DOMAIN lists["signals"] :
         lists["signals"][k] = e /\ lists' = Free("signals", k)
    /\ e # cur
    /\ caught' = caught \ {sig[e]}
    /\ UNCHANGED <<sock, sig, time, terminate, control, history>>

\* sloop_cancel_signal(NULL)
sloop_cancel_all_signals ==
    /\ Calling
    /\ pc # "signal_cb"
    /\ lists' = Drain(lists, "signals")
    /\ caught' = caught \ {sig[lists["signals"][k]] : k \in DOMAIN lists["signals"]}
    /\ UNCHANGED <<sock, sig, time, terminate, control, history>>

\* Mutant: a timer is always linked at the tail.
TimerSlotTail(t) == Len(lists["timeout"]) + 1

\* The walk of sloop_register_timeout: a timer due at t is linked before the
\* first timer with a later time, at the tail when there is none.
TimerSlot(t) ==
    LET q == lists["timeout"]
        later == {k \in DOMAIN q : t < time[q[k]]}
    IN  CHOOSE m \in 1..(Len(q) + 1) :
            /\ m \in later \cup {Len(q) + 1}
            /\ \A k \in later : m <= k

\* sloop_register_timeout
sloop_register_timeout(d) ==
    /\ Calling
    /\ ~Empty("free_timeout")
    /\ LET t == get_uptime + d IN
         /\ time' = [time EXCEPT ![lists["free_timeout"][1]] = t]
         /\ lists' = Take("timeout", TimerSlot(t))
    /\ UNCHANGED <<sock, sig, caught, terminate, control, history>>

\* sloop_cancel_timeout(handle)
sloop_cancel_timeout(e) ==
    /\ Calling
    /\ \E k \in DOMAIN lists["timeout"] :
         lists["timeout"][k] = e /\ lists' = Free("timeout", k)
    /\ e # cur
    /\ UNCHANGED <<tables, terminate, control, history>>

\* sloop_cancel_timeout(NULL)
sloop_cancel_all_timeouts ==
    /\ Calling
    /\ pc # "timer_cb"
    /\ lists' = Drain(lists, "timeout")
    /\ UNCHANGED <<tables, terminate, control, history>>

\* sloop_terminate
sloop_terminate ==
    /\ Calling
    /\ terminate' = TRUE
    /\ UNCHANGED <<lists, tables, control, history>>

Api ==
    \/ \E h \in {"readers", "writers"} :
         \/ \E fd \in Fd : register_socket(h, fd)
         \/ \E e \in Sockets : cancel_socket(h, e)
         \/ cancel_all_sockets(h)
    \/ \E n \in SigNo : sloop_register_signal(n)
    \/ \E e \in Signals : sloop_cancel_signal(e)
    \/ sloop_cancel_all_signals
    \/ \E d \in Delay : sloop_register_timeout(d)
    \/ \E e \in Timeouts : sloop_cancel_timeout(e)
    \/ sloop_cancel_all_timeouts
    \/ sloop_terminate

-----------------------------------------------------------------------------
(* sloop_run                                                               *)

unlisted == <<sock, sig, time, terminate, clock>>

\* The loop is left: cancel everything and return.
Exit ==
    /\ lists' = Drain(Drain(Drain(Drain(lists, "signals"), "timeout"),
                            "readers"), "writers")
    /\ caught' = caught \ {sig[lists["signals"][k]] : k \in DOMAIN lists["signals"]}
    /\ pc' = "done" /\ cur' = None
    /\ UNCHANGED <<history, selected>>

\* The application calls sloop_run.
Start ==
    /\ pc = "app"
    /\ pc' = "loop"
    /\ UNCHANGED <<lists, caught, pipe, cur, selected, history, unlisted>>

\* Mutant: the loop's condition forgets sloop.terminate.
StopWhenIdle == \A h \in Active : Empty(h)
Stop == terminate \/ \A h \in Active : Empty(h)

\* The loop's condition is false.
Leave ==
    /\ pc = "loop"
    /\ Stop
    /\ Exit
    /\ UNCHANGED <<pipe, unlisted>>

\* Top of the loop: remember the first timer, compute tv, clear the fd_sets
\* (what they ask select for is FdsOf("readers") and FdsOf("writers")).
Setup ==
    /\ pc = "loop"
    /\ ~Stop
    /\ IF Empty("timeout")
       THEN entryTimeout' = None /\ wake' = 0
       ELSE LET t == lists["timeout"][1] IN
            /\ entryTimeout' = t
            /\ wake' = IF get_uptime >= time[t] THEN clock
                       ELSE clock + (time[t] - get_uptime)
    /\ rfds' = {} /\ wfds' = {}
    /\ pc' = "select"
    /\ UNCHANGED <<lists, caught, pipe, cur, res, history, unlisted>>

\* Mutant: the pipe is looked at only when no descriptor is ready.
SelectReadyFdsFirst(R, W) ==
    /\ pc = "select"
    /\ R \cup W # {} \/ pipe # <<>>
    /\ res' = 1 /\ rfds' = R /\ wfds' = W
    /\ pc' = IF pipe # <<>> /\ R \cup W = {} THEN "signal" ELSE "timer"
    /\ UNCHANGED <<lists, caught, pipe, cur, entryTimeout, wake, history, unlisted>>

\* select returns a positive count: a set of registered descriptors is ready,
\* the signal pipe is readable, or both.
SelectReady(R, W) ==
    /\ pc = "select"
    /\ R \cup W # {} \/ pipe # <<>>
    /\ res' = 1 /\ rfds' = R /\ wfds' = W
    /\ pc' = IF pipe # <<>> THEN "signal" ELSE "timer"
    /\ UNCHANGED <<lists, caught, pipe, cur, entryTimeout, wake, history, unlisted>>

\* select returns 0: nothing is ready and tv has run out.
SelectTimeout ==
    /\ pc = "select"
    /\ pipe = <<>>
    /\ entryTimeout # None /\ clock >= wake
    /\ res' = 0 /\ rfds' = {} /\ wfds' = {}
    /\ pc' = "timer"
    /\ UNCHANGED <<lists, caught, pipe, cur, entryTimeout, wake, history, unlisted>>

\* Mutant: the error path returns at once.
SelectErrorReturns ==
    /\ pc = "select"
    /\ FdsOf("readers") \cup FdsOf("writers") # {}
    /\ pc' = "done" /\ cur' = None
    /\ UNCHANGED <<lists, caught, history, selected, pipe, unlisted>>
\* select fails (a registered descriptor was closed): the loop is left.
SelectError ==
    /\ pc = "select"
    /\ FdsOf("readers") \cup FdsOf("writers") # {}
    /\ Exit
    /\ UNCHANGED <<pipe, unlisted>>

\* One signal number is read (read waits on an empty pipe) and its first
\* registration is looked up.
ReadSignal ==
    /\ pc = "signal"
    /\ pipe # <<>>
    /\ pipe' = Tail(pipe)
    /\ LET match == {k \in DOMAIN lists["signals"] :
                        sig[lists["signals"][k]] = Head(pipe)} IN
         \/ /\ match = {}
            /\ pc' = IF terminate /\ ~Empty("signals") THEN "terminated" ELSE "timer"
            /\ cur' = None
         \/ /\ \E k \in match : /\ \A j \in match : k <= j
                                /\ cur' = lists["signals"][k]
            /\ pc' = "signal_cb"
    /\ UNCHANGED <<lists, caught, selected, history, unlisted>>

\* A signal handler returns; with a negative result its registration is freed,
\* and the disposition stays as it is.
SignalReturn ==
    /\ pc = "signal_cb"
    /\ \/ lists' = lists
       \/ lists' = Free("signals", PosOf("signals", cur))
    /\ pc' = IF terminate THEN "terminated" ELSE "timer"
    /\ cur' = None
    /\ UNCHANGED <<caught, pipe, selected, history, unlisted>>

\* "if (sloop.terminate) break;"
Break ==
    /\ pc = "terminated"
    /\ Exit
    /\ UNCHANGED <<pipe, unlisted>>

\* Mutant: the check that the remembered timer is still the first is dropped.
TimerDueUnchecked ==
    /\ entryTimeout # None
    /\ res = 0 \/ get_uptime >= time[entryTimeout]
\* Mutant: a timer fires only when select times out.
TimerDueIdle ==
    /\ entryTimeout # None
    /\ ~Empty("timeout") /\ lists["timeout"][1] = entryTimeout
    /\ res = 0

\* The remembered timer is still first and it is due.
TimerDue ==
    /\ entryTimeout # None
    /\ ~Empty("timeout") /\ lists["timeout"][1] = entryTimeout
    /\ res = 0 \/ get_uptime >= time[entryTimeout]

\* Its handler is called, with the timer still in the list.
FireTimer ==
    /\ pc = "timer"
    /\ TimerDue
    /\ pc' = "timer_cb" /\ cur' = entryTimeout
    /\ UNCHANGED <<lists, caught, pipe, selected, history, unlisted>>

\* The k-th or a later entry of h whose descriptor was reported, in list order.
Ready(h) == IF h = "readers" THEN rfds ELSE wfds
ReadyFrom(L, h, k) ==
    {j \in DOMAIN L[h] : j >= k /\ sock[L[h][j]] \in Ready(h)}
First(S) == CHOOSE j \in S : \A i \in S : j <= i

\* The writers pass begins; with no ready writer the loop goes round.
ToWriters(L) ==
    /\ fresh' = {}
    /\ LET S == ReadyFrom(L, "writers", 1) IN
         IF S = {} THEN pc' = "loop" /\ cur' = None /\ ran' = {}
         ELSE pc' = "writers" /\ cur' = L["writers"][First(S)] /\ ran' = {cur'}

\* The readers pass begins.
ToReaders(L) ==
    LET S == ReadyFrom(L, "readers", 1) IN
      IF S = {} THEN ToWriters(L)
      ELSE /\ pc' = "readers" /\ cur' = L["readers"][First(S)]
           /\ ran' = {cur'} /\ fresh' = {}

\* "do we have fds to process ?"
AfterTimer(L) ==
    IF res = 0 THEN pc' = "loop" /\ cur' = None /\ UNCHANGED history
    ELSE ToReaders(L)

\* No timer is due (or the remembered one is no longer first).
SkipTimer ==
    /\ pc = "timer"
    /\ ~TimerDue
    /\ AfterTimer(lists)
    /\ UNCHANGED <<lists, caught, pipe, selected, unlisted>>

\* A timer handler returns: the timer is unlinked and freed.
TimerReturn ==
    /\ pc = "timer_cb"
    /\ lists' = Free("timeout", PosOf("timeout", cur))
    /\ AfterTimer(lists')
    /\ UNCHANGED <<caught, pipe, selected, unlisted>>

\* Mutant: the entry after the cursor is freed, not the one whose handler ran.
SocketReturnWrongEntry(h) ==
    /\ pc = h
    /\ LET k == PosOf(h, cur)
           S == ReadyFrom(lists, h, k + 1)
       IN /\ \/ lists' = lists
             \/ lists' = Free(h, IF S # {} THEN First(S) ELSE k)
          /\ IF S # {}
             THEN /\ cur' = lists[h][First(S)]
                  /\ ran' = ran \cup {cur'}
                  /\ UNCHANGED <<pc, fresh>>
             ELSE IF h = "readers" THEN ToWriters(lists')
             ELSE pc' = "loop" /\ cur' = None /\ ran' = {} /\ fresh' = {}
    /\ UNCHANGED <<caught, pipe, selected, unlisted>>

\* Mutant: the cursor is an index, and it is not moved back after a removal.
SocketReturnByIndex(h) ==
    /\ pc = h
    /\ LET k == PosOf(h, cur) IN
       /\ \/ lists' = lists
          \/ lists' = Free(h, k)
       /\ LET S == ReadyFrom(lists', h, k + 1) IN
          IF S # {}
          THEN /\ cur' = lists'[h][First(S)]
               /\ ran' = ran \cup {cur'}
               /\ UNCHANGED <<pc, fresh>>
          ELSE IF h = "readers" THEN ToWriters(lists')
          ELSE pc' = "loop" /\ cur' = None /\ ran' = {} /\ fresh' = {}
    /\ UNCHANGED <<caught, pipe, selected, unlisted>>

\* A socket handler returns: the cursor moves to the next entry of the list as
\* it now is, and with a negative result the entry is unlinked and freed.
SocketReturn(h) ==
    /\ pc = h
    /\ LET k == PosOf(h, cur)
           S == ReadyFrom(lists, h, k + 1)
       IN /\ \/ lists' = lists
             \/ lists' = Free(h, k)
          /\ IF S # {}
             THEN /\ cur' = lists[h][First(S)]
                  /\ ran' = ran \cup {cur'}
                  /\ UNCHANGED <<pc, fresh>>
             ELSE IF h = "readers" THEN ToWriters(lists')
             ELSE pc' = "loop" /\ cur' = None /\ ran' = {} /\ fresh' = {}
    /\ UNCHANGED <<caught, pipe, selected, unlisted>>

Run ==
    \/ Start \/ Leave \/ Setup
    \/ \E R \in SUBSET FdsOf("readers"), W \in SUBSET FdsOf("writers") : SelectReady(R, W)
    \/ SelectTimeout \/ SelectError
    \/ ReadSignal \/ SignalReturn \/ Break
    \/ FireTimer \/ SkipTimer \/ TimerReturn
    \/ \E h \in {"readers", "writers"} : SocketReturn(h)

-----------------------------------------------------------------------------
(* The environment.                                                        *)

\* A caught signal arrives: sloop_signals_handler writes it into the pipe.  If
\* it arrives while the process sleeps in select, select fails with EINTR and
\* the loop goes round.
sloop_signals_handler(n) ==
    /\ n \in caught
    /\ Len(pipe) < MaxPipe
    /\ pipe' = Append(pipe, n)
    /\ \/ UNCHANGED pc
       \/ pc = "select" /\ pipe = <<>> /\ pc' = "loop"
    /\ UNCHANGED <<lists, caught, cur, selected, history, unlisted>>

\* Time passes.
Tick ==
    /\ clock < MaxTime
    /\ clock' = clock + 1
    /\ UNCHANGED <<lists, tables, pipe, terminate, pc, cur, selected, history>>

Next == Api \/ Run \/ (\E n \in SigNo : sloop_signals_handler(n)) \/ Tick

Spec == Init /\ [][Next]_vars

\* The loop is never left waiting for something that is already there: every
\* step of sloop_run that does not depend on a descriptor becoming ready is
\* taken, handlers return, and time passes.
Progress ==
    \/ Leave \/ Setup
    \/ pipe # <<>> /\ \E R \in SUBSET FdsOf("readers"), W \in SUBSET FdsOf("writers") :
                         SelectReady(R, W)
    \/ SelectTimeout
    \/ ReadSignal \/ SignalReturn \/ Break
    \/ FireTimer \/ SkipTimer \/ TimerReturn
    \/ \E h \in {"readers", "writers"} : SocketReturn(h)

FairSpec == Spec /\ WF_vars(Progress) /\ WF_vars(Tick)

-----------------------------------------------------------------------------
(* Properties.                                                             *)

\* Every variable has its type; a list holds structs of its own pool only, so
\* free_socket, free_timeout and free_signal never meet a struct of another
\* kind (the dassert of each).
TypeOK ==
    /\ lists \in [Heads -> Seq(Entry)]
    /\ \A h \in Heads : \A k \in DOMAIN lists[h] : lists[h][k] \in Pool(h)
    /\ sock \in [Sockets -> Fd \cup {0}]
    /\ sig \in [Signals -> SigNo \cup {0}]
    /\ time \in [Timeouts -> Nat]
    /\ caught \subseteq SigNo
    /\ pipe \in Seq(SigNo)
    /\ terminate \in BOOLEAN
    /\ clock \in Nat /\ wake \in Nat /\ res \in {0, 1}
    /\ pc \in Callback \cup {"app", "loop", "select", "signal", "terminated",
                            "timer", "done"}
    /\ cur \in Entry \cup {None}
    /\ entryTimeout \in Timeouts \cup {None}
    /\ rfds \subseteq Fd \cup {0} /\ wfds \subseteq Fd \cup {0}
    /\ ran \subseteq Sockets /\ fresh \subseteq Sockets

\* Each struct of the three pools is linked into exactly one list, once: no
\* sequence of registrations, cancellations and handler results leaks a struct
\* or links one twice (get_xxx, free_xxx, cancel_xxx, the dlist_del of
\* sloop_run).
NoDoubleLink ==
    \A a, b \in Heads : \A i \in DOMAIN lists[a], j \in DOMAIN lists[b] :
        lists[a][i] = lists[b][j] => a = b /\ i = j
NoLeak ==
    \A e \in Entry : \E h \in Heads : \E k \in DOMAIN lists[h] : lists[h][k] = e
PoolIntegrity == NoDoubleLink /\ NoLeak

\* The list a handler was taken from, by program counter.
HeadOf == [c \in Callback |-> IF c = "signal_cb" THEN "signals"
                              ELSE IF c = "timer_cb" THEN "timeout" ELSE c]

\* While a handler runs, its struct stays in the list that sloop_run is
\* walking, whatever the handler registers and cancels: the cursor never
\* points into a free list.
CursorInList ==
    pc \in Callback => \E k \in DOMAIN lists[HeadOf[pc]] : lists[HeadOf[pc]][k] = cur

\* A registration has its effect as long as it lasts and no longer than the
\* loop: the number of a registered signal is caught, whatever is registered
\* and cancelled besides (SIG_DFL would let it kill the process), and whichever
\* way sloop_run is left, over a failing select too, nothing stays registered.
Registrations ==
    /\ \A k \in DOMAIN lists["signals"] : sig[lists["signals"][k]] \in caught
    /\ pc = "done" => \A h \in Active : lists[h] = <<>>

\* sloop.timeout is sorted by time, which is what makes the first timer the
\* one that select must wait for.
TimersSorted ==
    LET q == lists["timeout"] IN
    \A i, j \in DOMAIN q : i < j => time[q[i]] <= time[q[j]]

\* A pass over the readers or the writers calls no handler twice, and never
\* one that a handler of the same pass has registered (its descriptor's bit
\* is left over from before the registration).
OncePerPass ==
    pc \in {"readers", "writers"} =>
        /\ cur \notin fresh
        /\ LET k == PosOf(pc, cur) IN
           \A j \in DOMAIN lists[pc] :
               j > k => lists[pc][j] \notin ran \cup fresh

\* A pass skips no registration that was there when it began, is still there
\* and was reported ready, even though handlers change the list under it.
NoneSkipped ==
    pc \in {"readers", "writers"} =>
        LET k == PosOf(pc, cur) IN
        \A j \in DOMAIN lists[pc] :
            /\ j < k
            /\ lists[pc][j] \notin fresh
            /\ sock[lists[pc][j]] \in Ready(pc)
            => lists[pc][j] \in ran

\* The timers of the loop keep the promise of module Timers: a handler is
\* called only for a timer that is still registered, not before its time and
\* before every timer with a later time, although signal handlers may cancel
\* and register timers between the moment the loop remembers the first timer
\* and the moment it fires it; and no other call, no pass over the sockets and
\* no reuse of a struct arms, moves or drops a timer.
DueOf(t) ==
    [time |-> IF t \in ToSet(lists["timeout"]) THEN time[t] ELSE 0,
     armed |-> t \in ToSet(lists["timeout"])]
Promise == INSTANCE Timers WITH
             Timer <- Timeouts, NoTimer <- None, Resolution <- Gran,
             due <- [t \in Timeouts |-> DueOf(t)],
             firing <- IF pc = "timer_cb" THEN cur ELSE None,
             now <- clock
KeepsPromise == Promise!Spec

\* A signal of a registered number that has reached the pipe is handled unless
\* its registration goes away, however busy the sockets are.
SignalServed ==
    \A n \in SigNo :
        (pc # "app" /\ n \in ToSet(pipe)) ~>
            \/ pc = "done"
            \/ pc = "signal_cb" /\ sig[cur] = n
            \/ \A k \in DOMAIN lists["signals"] : sig[lists["signals"][k]] # n

\* A timer that is due fires or is cancelled, although sockets may be ready at
\* every select and handlers keep registering timers.
TimersFire ==
    \A t \in Timeouts :
        (pc # "app" /\ t \in ToSet(lists["timeout"]) /\ get_uptime >= time[t]) ~>
            \/ pc = "done"
            \/ pc = "timer_cb" /\ cur = t
            \/ t \notin ToSet(lists["timeout"])

\* After sloop_terminate the loop returns, with every registration given back
\* to its pool.
TerminateStops ==
    (pc # "app" /\ terminate) ~>
        (pc = "done" /\ \A h \in Active : lists[h] = <<>>)

=============================================================================
