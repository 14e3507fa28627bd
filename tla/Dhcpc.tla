------------------------------- MODULE Dhcpc -------------------------------
(***************************************************************************)
(* The DHCP client of progs.gpl/udhcpcd: the loop of dhcpc.c, the messages *)
(* of clientpacket.c and what the script is called for.  The client is one *)
(* thread; a timeout, a packet or a signal is handled to the end before    *)
(* the next.  The network is the environment: any packet with the          *)
(* client's xid may arrive whenever the socket is open, which covers lost, *)
(* delayed, repeated and unsolicited answers.                              *)
(*                                                                         *)
(* timeout and start are uptimes that the code only uses in the            *)
(* differences timeout - now and now - start; the model keeps the          *)
(* differences, in due and age, so that time is not bounded.  A handler    *)
(* takes no time, except the ARP probe, after which now is stale.          *)
(***************************************************************************)
EXTENDS Integers, Sequences

CONSTANTS
    Server,       \* addresses of the DHCP servers
    Addr,         \* addresses that a server hands out
    LeaseTime,    \* lease times that an ACK may carry
    DefaultLease, \* the lease of an ACK without one (60 * 60)
    Word,         \* 2^32: the timers are uint32_t
    Delay,        \* client_config.discover_delay
    Retry,        \* client_config.discover_retry
    MaxBackoff,   \* longest wait between two requests (64)
    Sleep,        \* client_config.discover_sleep, if the option sleep0 is not given
    ArpWait,      \* seconds that arpping may take
    Options,      \* option sets with which the client is started
    MaxQueue,     \* bound on the packets waiting in the socket
    MaxPipe       \* bound on the signals waiting in the pipe

ASSUME ClientAssumption ==
    /\ Server \subseteq Nat \ {0} /\ Addr \subseteq Nat \ {0}
    /\ LeaseTime \subseteq Nat /\ DefaultLease \in Nat
    /\ Delay \in Nat /\ Retry \in Nat /\ MaxBackoff \in Nat
    /\ Sleep \in Nat \ {0} /\ ArpWait \in Nat
    /\ MaxQueue \in Nat /\ MaxPipe \in Nat
    /\ Options \subseteq SUBSET {"queryserver", "now", "quit", "sleep0"}

\* 7 * lease does not overflow: leases of less than 19 years.
ASSUME LeasesFit ==
    Word \in Nat /\ \A l \in LeaseTime \cup {DefaultLease} : 7 * l < Word

VARIABLES
    state,   \* the protocol state, or "EXITED"
    opts,    \* command line options of the running process
    ip,      \* requested_ip
    server,  \* server_addr
    due,     \* timeout - now, 0 if that is negative
    num,     \* packet_num
    mode,    \* listen_mode
    fd,      \* whether the socket is open (fd >= 0)
    sock,    \* packets that wait in the socket
    pipe,    \* signals that wait in signal_pipe
    lease, t1, t2,  \* the timers of the lease
    age,     \* now - start
    held,    \* address that the script has put on the interface
    left,    \* who has left the address there without a lease: an exit, a release
    out      \* message that the last step has sent

conf == <<opts, ip, server>>
net == <<mode, fd, sock>>
timers == <<lease, t1, t2, age>>
iface == <<held, left>>
vars == <<state, conf, due, num, net, pipe, timers, iface, out>>

-----------------------------------------------------------------------------
(* Messages.                                                               *)

None == 0        \* no address, no server identifier
NoOption == -1   \* no lease time option
Never == -1      \* timeout = 0x7fffffff

Offer(s, a) == [type |-> "offer", server |-> s, yiaddr |-> a, lease |-> NoOption]
Ack(a, l) == [type |-> "ack", server |-> None, yiaddr |-> a, lease |-> l]
Nak(s) == [type |-> "nak", server |-> s, yiaddr |-> None, lease |-> NoOption]
\* Another xid, another message type, or no type at all: not looked at.
Junk == [type |-> "junk", server |-> None, yiaddr |-> None, lease |-> NoOption]
\* What makes read() or a checksum fail.
Broken == [type |-> "broken", server |-> None, yiaddr |-> None, lease |-> NoOption]

Packet ==
    {Offer(s, a) : s \in Server \cup {None}, a \in Addr}
    \cup {Ack(a, l) : a \in Addr, l \in LeaseTime \cup {NoOption}}
    \cup {Nak(s) : s \in Server \cup {None}}
    \cup {Junk, Broken}

Message == [type : {"discover", "select", "renew", "release", "decline"},
            to : Server \cup {None}, ip : Addr \cup {None}]
NoMessage == [type |-> "none", to |-> None, ip |-> None]

\* The messages of clientpacket.c; the ones to server None are broadcast.
send(type, s, a) == out' = [type |-> type, to |-> s, ip |-> a]
send_decline(s, a) == send("decline", s, a)
Quiet == out' = NoMessage

-----------------------------------------------------------------------------
(* Helpers.                                                                *)

States == {"INIT_SELECTING", "REQUESTING", "BOUND", "RENEWING", "REBINDING",
           "RENEW_REQUESTED", "RELEASED"}
Leased == {"BOUND", "RENEWING", "REBINDING"}

\* change_mode closes the socket, and what waits in it is lost.
change_mode(m) == mode' = m /\ fd' = FALSE /\ sock' = << >>

\* run_script(NULL, "deconfig"), and run_script(packet, "bound" or "renew").
deconfig == held' = None /\ left' = "no"
configure(a) == held' = a /\ left' = "no"

\* Without a lease the lease timers are dead until the next ACK.
NoTimers == lease' = 0 /\ t1' = 0 /\ t2' = 0 /\ age' = 0

\* The wait after request number n: delay << n, at most 64 seconds.
Backoff(n) == IF Delay * 2^n \in 0..MaxBackoff THEN Delay * 2^n ELSE MaxBackoff

\* Mutant: the difference is taken as it is, also when it is negative.
UntilSigned(t, a) == t - a
\* timeout = t + start, seen from a seconds after start.
Until(t, a) == IF t > a THEN t - a ELSE 0

Minus(a, b) == (a - b) % Word
T1(l) == l \div 2
T2(l) == ((l * 7) % Word) \div 8
\* Mutant: no second of margin for short leases.
MarginZero(l) == l \div 14400
\* The timers are not halved any further below this.
Margin(l) == l \div 14400 + 1

\* Retry from scratch: INIT_SELECTING on a raw socket with the timeout due.
Restarting ==
    /\ state' = "INIT_SELECTING"
    /\ due' = 0 /\ num' = 0
    /\ NoTimers

\* exit_client; the interface is left as it is.
exit_client ==
    /\ state' = "EXITED"
    /\ opts' = {} /\ ip' = None /\ server' = None
    /\ due' = Never /\ num' = 0
    /\ change_mode("NONE")
    /\ pipe' = << >>
    /\ NoTimers

-----------------------------------------------------------------------------
(* Start and end of the process.                                           *)

Init ==
    /\ state = "INIT_SELECTING"
    /\ opts \in Options /\ ip \in Addr \cup {None} /\ server = None
    /\ due = 0 /\ num = 0
    /\ mode = "RAW" /\ fd = FALSE /\ sock = << >> /\ pipe = << >>
    /\ lease = 0 /\ t1 = 0 /\ t2 = 0 /\ age = 0
    /\ held = None /\ left = "no"
    /\ out = NoMessage

\* The client is started again: what main() sets before the loop.  The line
\* that would run the script with deconfig is commented out, so an address may
\* still be on the interface.
Launch ==
    /\ state = "EXITED"
    /\ opts' \in Options /\ ip' \in Addr \cup {None} /\ server' = None
    /\ Restarting /\ change_mode("RAW") /\ pipe' = << >>
    /\ held' = held /\ left' = IF held = None THEN "no" ELSE "exit"
    /\ Quiet

\* SIGKILL or a crash.
Killed ==
    /\ state # "EXITED"
    /\ exit_client
    /\ UNCHANGED iface /\ Quiet

-----------------------------------------------------------------------------
(* The head of the loop.                                                   *)

Ready == state # "EXITED" /\ (mode = "NONE" \/ fd)

\* A socket is opened for the new listen mode, or the client gives up.
OpenSocket ==
    /\ state # "EXITED" /\ mode # "NONE" /\ ~fd
    /\ \/ /\ fd' = TRUE
          /\ UNCHANGED <<state, conf, due, num, mode, sock, pipe, timers>>
       \/ exit_client
    /\ UNCHANGED iface /\ Quiet

\* tv_sec > 0: select waits, and time passes.  It also passes while the loop
\* is busy with packets; but select does not wait when only a signal is there.
Tick ==
    /\ state # "EXITED" /\ due # 0
    /\ sock # << >> \/ pipe = << >>
    /\ due' = IF due = Never THEN Never ELSE due - 1
    /\ age' = IF state \in Leased \cup {"RENEW_REQUESTED"} THEN age + 1 ELSE age
    /\ Quiet
    /\ UNCHANGED <<state, conf, num, net, pipe, lease, t1, t2, iface>>

\* tv_sec <= 0: select is skipped and the timeout of the state is handled.
TimedOut(s) == Ready /\ due = 0 /\ state = s

-----------------------------------------------------------------------------
(* Timeouts.                                                               *)

\* Mutant: packet_num is not reset for the next series.
DiscoverTimeoutOnce ==
    /\ TimedOut("INIT_SELECTING")
    /\ UNCHANGED iface
    /\ \/ /\ num < Retry
          /\ send("discover", None, ip)
          /\ sock' = IF num = 0 THEN [k \in DOMAIN sock |-> Junk] ELSE sock
          /\ due' = Backoff(num) /\ num' = num + 1
          /\ UNCHANGED <<state, conf, mode, fd, pipe, timers>>
       \/ /\ num >= Retry /\ Quiet
          /\ IF opts \cap {"queryserver", "now", "sleep0"} # {} THEN exit_client
             ELSE /\ due' = Sleep
                  /\ UNCHANGED <<state, conf, num, net, pipe, timers>>
\* INIT_SELECTING: broadcast a DISCOVER, the first of a series with a new xid,
\* or sleep when the series is used up.
DiscoverTimeout ==
    /\ TimedOut("INIT_SELECTING")
    /\ UNCHANGED iface
    /\ \/ /\ num < Retry
          /\ send("discover", None, ip)
          /\ sock' = IF num = 0 THEN [k \in DOMAIN sock |-> Junk] ELSE sock
          /\ due' = Backoff(num) /\ num' = num + 1
          /\ UNCHANGED <<state, conf, mode, fd, pipe, timers>>
       \/ /\ num >= Retry /\ Quiet
          /\ IF opts \cap {"queryserver", "now", "sleep0"} # {} THEN exit_client
             ELSE /\ num' = 0 /\ due' = Sleep
                  /\ UNCHANGED <<state, conf, net, pipe, timers>>

\* REQUESTING, RENEW_REQUESTED: ask again, or give up.
RequestTimeout ==
    /\ TimedOut(state) /\ state \in {"REQUESTING", "RENEW_REQUESTED"}
    /\ \/ /\ num < Retry
          /\ send(IF state = "RENEW_REQUESTED" THEN "renew" ELSE "select", server, ip)
          /\ due' = Backoff(num) /\ num' = num + 1
          /\ UNCHANGED <<state, conf, net, pipe, timers, iface>>
       \/ /\ num >= Retry /\ Quiet
          /\ IF state = "RENEW_REQUESTED" THEN deconfig ELSE UNCHANGED iface
          /\ IF "sleep0" \in opts THEN exit_client
             ELSE Restarting /\ change_mode("RAW") /\ UNCHANGED <<conf, pipe>>

\* The part that BOUND and RENEWING share: ask the server for more time, at
\* half of what is left until T2, or turn to REBINDING.
Renewing ==
    \/ /\ Minus(t2, t1) <= Margin(lease)
       /\ state' = "REBINDING"
       /\ due' = Minus(t2, t1)
       /\ Quiet /\ UNCHANGED t1
    \/ /\ Minus(t2, t1) > Margin(lease)
       /\ state' = "RENEWING"
       /\ send("renew", server, ip)
       /\ t1' = (Minus(t2, t1) \div 2 + t1) % Word
       /\ due' = Until(t1', age)

\* BOUND: half of the lease is over.  The socket is opened again.
BoundTimeout ==
    /\ TimedOut("BOUND")
    /\ change_mode("KERNEL")
    /\ Renewing
    /\ UNCHANGED <<conf, num, pipe, lease, t2, age, iface>>

RenewingTimeout ==
    /\ TimedOut("RENEWING")
    /\ Renewing
    /\ UNCHANGED <<conf, num, net, pipe, lease, t2, age, iface>>

\* REBINDING: ask every server, or give the address up when the lease is over.
RebindingTimeout ==
    /\ TimedOut("REBINDING")
    /\ UNCHANGED <<conf, pipe>>
    /\ \/ /\ Minus(lease, t2) <= Margin(lease)
          /\ Restarting /\ change_mode("RAW") /\ deconfig /\ Quiet
       \/ /\ Minus(lease, t2) > Margin(lease)
          /\ send("renew", None, ip)
          /\ t2' = (Minus(lease, t2) \div 2 + t2) % Word
          /\ due' = Until(t2', age)
          /\ UNCHANGED <<state, num, net, lease, t1, age, iface>>

Timeout ==
    \/ DiscoverTimeout \/ RequestTimeout
    \/ BoundTimeout \/ RenewingTimeout \/ RebindingTimeout

-----------------------------------------------------------------------------
(* Packets.                                                                *)

\* A packet arrives while the socket is open.
Arrive(p) ==
    /\ state # "EXITED" /\ fd /\ Len(sock) < MaxQueue
    /\ sock' = Append(sock, p)
    /\ Quiet
    /\ UNCHANGED <<state, conf, due, num, mode, fd, pipe, timers, iface>>

\* select returns because of the socket, which is looked at before the pipe.
Receive(type) ==
    /\ Ready /\ due # 0 /\ mode # "NONE" /\ sock # << >>
    /\ Head(sock).type = type

\* Nothing but the socket is changed; a fatal error closes and opens it.
Ignore ==
    /\ \/ Receive("junk") \/ Receive("broken")
       \/ Receive("offer") /\ (state # "INIT_SELECTING" \/ Head(sock).server = None)
       \/ Receive("ack") /\ state = "INIT_SELECTING"
       \/ Receive("nak") /\ (state = "INIT_SELECTING" \/ Head(sock).server = None
                             \/ Head(sock).server # server)
    /\ IF Head(sock).type = "broken" THEN change_mode(mode)
       ELSE sock' = Tail(sock) /\ UNCHANGED <<mode, fd>>
    /\ Quiet
    /\ UNCHANGED <<state, conf, due, num, pipe, timers, iface>>

\* The first OFFER with a server identifier is taken.
TakeOffer ==
    /\ Receive("offer") /\ state = "INIT_SELECTING" /\ Head(sock).server # None
    /\ UNCHANGED iface /\ Quiet
    /\ IF "queryserver" \in opts THEN exit_client
       ELSE /\ server' = Head(sock).server /\ ip' = Head(sock).yiaddr
            /\ state' = "REQUESTING" /\ due' = 0 /\ num' = 0
            /\ sock' = Tail(sock)
            /\ UNCHANGED <<opts, mode, fd, pipe, timers>>

\* ACK for an address that answers the ARP probe.
AckConflict ==
    /\ Receive("ack") /\ state = "REQUESTING"
    /\ send_decline(server, Head(sock).yiaddr)
    /\ Restarting /\ ip' = None
    /\ sock' = Tail(sock)
    /\ UNCHANGED <<opts, server, mode, fd, pipe, iface>>

\* ACK: the lease counts from the time that was read before the ARP probe.
TakeAck ==
    /\ Receive("ack") /\ state # "INIT_SELECTING"
    /\ LET p == Head(sock)
           l == IF p.lease = NoOption THEN DefaultLease ELSE p.lease
       IN /\ configure(p.yiaddr)
          /\ IF "quit" \in opts THEN exit_client
             ELSE \E pause \in IF state = "REQUESTING" THEN 0..ArpWait ELSE {0} :
                  /\ lease' = l /\ t1' = T1(l) /\ t2' = T2(l) /\ age' = pause
                  /\ due' = Until(T1(l), pause)
                  /\ ip' = p.yiaddr
                  /\ state' = "BOUND" /\ change_mode("NONE")
                  /\ UNCHANGED <<opts, server, num, pipe>>
    /\ Quiet

\* Mutant: the client forgets to take the address off the interface.
TakeNakKeeps ==
    /\ Receive("nak") /\ state # "INIT_SELECTING"
    /\ Head(sock).server # None /\ Head(sock).server = server
    /\ UNCHANGED iface
    /\ Restarting /\ change_mode("RAW") /\ ip' = None
    /\ UNCHANGED <<opts, server, pipe>> /\ Quiet
\* NAK of the client's own server.
TakeNak ==
    /\ Receive("nak") /\ state # "INIT_SELECTING"
    /\ Head(sock).server # None /\ Head(sock).server = server
    /\ IF state # "REQUESTING" THEN deconfig ELSE UNCHANGED iface
    /\ Restarting /\ change_mode("RAW") /\ ip' = None
    /\ UNCHANGED <<opts, server, pipe>> /\ Quiet

-----------------------------------------------------------------------------
(* Signals.                                                                *)

Signals == {"SIGUSR1", "SIGUSR2", "SIGTERM"}

\* signal_handler
Signal(s) ==
    /\ state # "EXITED" /\ Len(pipe) < MaxPipe
    /\ pipe' = Append(pipe, s)
    /\ Quiet
    /\ UNCHANGED <<state, conf, due, num, net, timers, iface>>

\* The pipe is read when select finds nothing in the socket.
Served(s) ==
    /\ Ready /\ due # 0 /\ sock = << >>
    /\ pipe # << >> /\ Head(pipe) = s

\* Mutant: a client that is BOUND does not open its socket again.
PerformRenewDeaf ==
    /\ Served("SIGUSR1")
    /\ pipe' = Tail(pipe) /\ num' = 0 /\ due' = 0
    /\ \/ state \in Leased /\ state' = "RENEW_REQUESTED"
          /\ UNCHANGED <<net, timers, iface>>
       \/ state = "INIT_SELECTING" /\ UNCHANGED <<state, net, timers, iface>>
       \/ state \in {"RENEW_REQUESTED", "REQUESTING", "RELEASED"}
          /\ change_mode("RAW") /\ state' = "INIT_SELECTING"
          /\ NoTimers
          /\ IF state = "RENEW_REQUESTED" THEN deconfig ELSE UNCHANGED iface
    /\ UNCHANGED conf /\ Quiet
\* SIGUSR1: perform_renew
PerformRenew ==
    /\ Served("SIGUSR1")
    /\ pipe' = Tail(pipe) /\ num' = 0 /\ due' = 0
    /\ \/ /\ state \in Leased /\ state' = "RENEW_REQUESTED"
          /\ IF state = "BOUND" THEN change_mode("KERNEL") ELSE UNCHANGED net
          /\ UNCHANGED <<timers, iface>>
       \/ /\ state = "INIT_SELECTING"
          /\ UNCHANGED <<state, net, timers, iface>>
       \/ /\ state \in {"RENEW_REQUESTED", "REQUESTING", "RELEASED"}
          /\ change_mode("RAW") /\ state' = "INIT_SELECTING"
          /\ NoTimers
          /\ IF state = "RENEW_REQUESTED" THEN deconfig ELSE UNCHANGED iface
    /\ UNCHANGED conf /\ Quiet

\* What perform_release does with the lease: only from the states of Leased
\* is the server told and the interface cleared.
Releasing ==
    IF state \in Leased THEN send("release", server, ip) /\ deconfig
    ELSE /\ held' = held /\ Quiet
         /\ left' = IF held # None /\ left = "no" THEN "release" ELSE left

\* SIGUSR2: perform_release
PerformRelease ==
    /\ Served("SIGUSR2")
    /\ Releasing
    /\ change_mode("NONE")
    /\ state' = "RELEASED" /\ due' = Never
    /\ NoTimers
    /\ pipe' = Tail(pipe)
    /\ UNCHANGED <<conf, num>>

\* Mutant: SIGTERM falls short of the exit.
TerminateReleases ==
    /\ Served("SIGTERM")
    /\ Releasing
    /\ change_mode("NONE")
    /\ state' = "RELEASED" /\ due' = Never
    /\ NoTimers
    /\ pipe' = Tail(pipe)
    /\ UNCHANGED <<conf, num>>
\* SIGTERM: perform_release and exit.
Terminate ==
    /\ Served("SIGTERM")
    /\ Releasing
    /\ exit_client

Packets == Ignore \/ TakeOffer \/ AckConflict \/ TakeAck \/ TakeNak
ServeSignal == PerformRenew \/ PerformRelease \/ Terminate

-----------------------------------------------------------------------------
Next ==
    \/ Launch \/ Killed \/ OpenSocket \/ Tick
    \/ Timeout
    \/ (\E p \in Packet : Arrive(p)) \/ Packets
    \/ (\E s \in Signals : Signal(s)) \/ ServeSignal

Spec == Init /\ [][Next]_vars

\* The loop runs on, with whatever it finds to do, and time does not stop.
\* Nothing is assumed of the network, of the user, of the lifetime of the
\* process or of which of two things to do the loop finds first.
Loop == OpenSocket \/ Timeout \/ Packets \/ ServeSignal
Fairness == WF_vars(Loop) /\ SF_vars(Tick)

FairSpec == Spec /\ Fairness

-----------------------------------------------------------------------------
(* Properties.                                                             *)

\* Types.  A timer is never negative and due is Never only when the client is
\* released or has exited.
TypeOK ==
    /\ state \in States \cup {"EXITED"}
    /\ opts \in Options \cup {{}}
    /\ ip \in Addr \cup {None} /\ server \in Server \cup {None}
    /\ due \in Nat \/ (due = Never /\ state \in {"RELEASED", "EXITED"})
    /\ num \in Nat
    /\ mode \in {"NONE", "KERNEL", "RAW"} /\ fd \in BOOLEAN
    /\ sock \in Seq(Packet) /\ pipe \in Seq(Signals)
    /\ lease \in Nat /\ t1 \in Nat /\ t2 \in Nat /\ age \in Nat
    /\ held \in Addr \cup {None} /\ left \in {"no", "exit", "release"}
    /\ out \in Message \cup {NoMessage}

\* No address outlives its lease.  Whatever the network answers and whenever
\* the user asks for a renewal, an address that this process has put on the
\* interface is the one it has a lease for, and it is taken off when the lease
\* ends; only a renewal that the user has asked for may hold it for one series
\* of requests longer.  Addresses that an exit or a release has left behind are
\* the exception.
HoldLimit ==
    IF state = "RENEW_REQUESTED" THEN lease + ArpWait + Retry * MaxBackoff
    ELSE lease + ArpWait
LeaseRespected ==
    /\ state \in {"INIT_SELECTING", "REQUESTING"} => held = None \/ left # "no"
    /\ state \in Leased \cup {"RENEW_REQUESTED"} =>
          held = ip /\ left = "no" /\ age <= HoldLimit

\* The client listens while it waits for an answer: on a raw socket without an
\* address, on a kernel socket with one, and on none when it wants no packets.
Listening ==
    mode = CASE state \in {"INIT_SELECTING", "REQUESTING"} -> "RAW"
             [] state \in {"RENEWING", "REBINDING", "RENEW_REQUESTED"} -> "KERNEL"
             [] OTHER -> "NONE"

\* A client whose renewal stays without an answer does not go on for ever: it
\* is bound again, or it gives the address up, unless it is told to stop.
RenewalEnds ==
    state \in {"RENEWING", "REBINDING", "RENEW_REQUESTED"} ~>
        state = "BOUND" \/ held = None \/ state \in {"RELEASED", "EXITED"}

\* A client without an address goes on asking for one.
KeepsAsking ==
    state \in {"INIT_SELECTING", "REQUESTING"} ~>
        out.type = "discover" \/ state \in {"BOUND", "RELEASED", "EXITED"}

\* SIGTERM ends the client, unless packets come for ever: the pipe is looked at
\* only when select finds nothing in the socket.  Traffic that stops, a timeout
\* that is handled first and a socket to open only put the exit off.
TermExits ==
    \/ []<>(sock # << >>)
    \/ (\E k \in DOMAIN pipe : pipe[k] = "SIGTERM") ~> state = "EXITED"

\* SIGUSR2 releases the current lease: in the inactive state that it leads to
\* no address is on the interface, unless an earlier process has left it.
ReleaseReleases == state = "RELEASED" => held = None \/ left = "exit"

=============================================================================
