------------------------------ MODULE DhcpNet ------------------------------
(***************************************************************************)
(* One client of module Dhcpc and the server of module Dhcpd, joined by a  *)
(* network that delays messages up to MaxDelay seconds and loses them, but *)
(* keeps their order.  The server's other clients are the environment, and *)
(* so is the user who sends the client signals.                            *)
(*                                                                         *)
(* The other clients ask for addresses, renew their own and release them;  *)
(* they do not claim an address that they have not been given (see         *)
(* Reserved in Dhcpd), and the server is not restarted (RestartRestores).  *)
(***************************************************************************)
EXTENDS Dhcpd

CONSTANTS
    Me,          \* the hardware address of the client
    MaxDelay,    \* longest time that a message is under way
    MaxFlight,   \* bound on the messages under way in each direction
    CDelay, CRetry, CBackoff, CSleep, CArp, CDefault  \* see Dhcpc

ASSUME NetAssumption ==
    /\ Me \in Client /\ MaxDelay \in Nat /\ MaxFlight \in Nat
    /\ {CDelay, CRetry, CBackoff, CSleep, CArp, CDefault} \subseteq Nat

VARIABLES
    state, opts, ip, srv, due, num, mode, fd, sock, pipe,
    lease, t1, t2, age, held, left, sent,  \* the client's variables
    c2s,   \* messages from the client to the server
    s2c    \* answers from the server to the client

C == INSTANCE Dhcpc WITH
        Server <- {Server}, Addr <- Start..End, LeaseTime <- 0..ServerLease,
        DefaultLease <- CDefault, Delay <- CDelay, Retry <- CRetry,
        MaxBackoff <- CBackoff, Sleep <- CSleep, ArpWait <- CArp,
        Options <- {{}}, MaxQueue <- 1, MaxPipe <- 1,
        server <- srv, out <- sent

cvars == <<state, opts, ip, srv, due, num, mode, fd, sock, pipe,
           lease, t1, t2, age, held, left, sent>>
links == <<c2s, s2c>>
netvars == <<vars, cvars, links>>

-----------------------------------------------------------------------------
(* The network.  A message carries the time that it may still be under way *)
(* and whether its xid is the one that the client uses now.                *)

Post(link, m) ==
    IF Len(link) < MaxFlight
    THEN Append(link, [msg |-> m, current |-> TRUE, ttl |-> MaxDelay]) ELSE link

Outdated(link) == [k \in DOMAIN link |-> [link[k] EXCEPT !.current = FALSE]]

Lose ==
    /\ \/ c2s # << >> /\ c2s' = Tail(c2s) /\ UNCHANGED s2c
       \/ s2c # << >> /\ s2c' = Tail(s2c) /\ UNCHANGED c2s
    /\ UNCHANGED <<vars, cvars>>

\* Time passes for both; the client does not wait while a packet is there.
NetTick ==
    /\ Tick
    /\ \/ C!Tick /\ sock = << >> /\ pipe = << >>
       \/ state = "EXITED" /\ UNCHANGED cvars
    /\ \A link \in {c2s, s2c} : \A k \in DOMAIN link : link[k].ttl > 0
    /\ c2s' = [k \in DOMAIN c2s |-> [c2s[k] EXCEPT !.ttl = @ - 1]]
    /\ s2c' = [k \in DOMAIN s2c |-> [s2c[k] EXCEPT !.ttl = @ - 1]]

-----------------------------------------------------------------------------
(* The client.                                                             *)

\* A new series of requests has a new xid: what is under way is outdated.
NewXid == state = "INIT_SELECTING" /\ num = 0 /\ sent'.type = "discover"

ClientStep ==
    /\ \/ C!Launch \/ C!Killed \/ C!OpenSocket \/ C!Timeout
       \/ C!Packets \/ C!ServeSignal
       \/ \E s \in {"SIGUSR1", "SIGUSR2"} : C!Signal(s)
    /\ LET old == IF NewXid THEN Outdated(c2s) ELSE c2s
       IN  c2s' = IF sent' = C!NoMessage THEN old ELSE Post(old, sent')
    /\ s2c' = IF NewXid THEN Outdated(s2c) ELSE s2c
    /\ UNCHANGED vars

\* An answer reaches the client's socket; without one it is lost (Lose).
Deliver ==
    /\ s2c # << >>
    /\ C!Arrive(IF Head(s2c).current THEN Head(s2c).msg ELSE C!Junk)
    /\ s2c' = Tail(s2c)
    /\ UNCHANGED <<vars, c2s>>

-----------------------------------------------------------------------------
(* The server.                                                             *)

\* Hosts that answer the server's ARP probe: the client, if it has an address
\* and is not asleep.
Probed == {{}, {held} \ {None}}

\* The server handles a message of the client.
Serve(m) ==
    \/ m.type = "discover"
       /\ \E busy \in Probed : Discover(Me, m.ip, NoOption, busy)
    \/ m.type = "select" /\ Select(Me, m.to = Server, m.ip, NoOption)
    \/ m.type = "renew" /\ Renew(Me, m.ip, NoOption)
    \/ m.type = "release" /\ Release(Me)
    \/ m.type = "decline" /\ Decline(Me)

\* The server's reply as the client sees it.
Answer(r) ==
    CASE r.type = "OFFER" -> C!Offer(Server, r.yiaddr)
      [] r.type = "ACK" -> C!Ack(r.yiaddr, r.lease)
      [] r.type = "NAK" -> C!Nak(Server)

ServerStep ==
    /\ c2s # << >>
    /\ Serve(Head(c2s).msg)
    /\ c2s' = Tail(c2s)
    /\ s2c' = IF out'.type = "none" \/ Len(s2c) = MaxFlight THEN s2c
              ELSE Append(s2c, [msg |-> Answer(out'), ttl |-> MaxDelay,
                                current |-> Head(c2s).current])
    /\ UNCHANGED cvars

\* Another client.
OtherClient ==
    /\ \E c \in Client \ {Me} :
          \/ \E req \in {None} \cup Asked, busy \in Probed :
                Discover(c, req, NoOption, busy)
          \/ \E req \in RecordedAddr(c) :
                Select(c, TRUE, req, NoOption) \/ Renew(c, req, NoOption)
          \/ Release(c)
    /\ UNCHANGED <<cvars, links>>

\* What the server does without a packet: its start, the automatic write and
\* the write that the user asks for.
ServerAlone ==
    /\ FinishLoad \/ AutoWrite \/ Usr1
    /\ UNCHANGED <<cvars, links>>

-----------------------------------------------------------------------------
NetInit ==
    /\ Init /\ C!Init
    /\ c2s = << >> /\ s2c = << >>

NetNext ==
    \/ ServerAlone \/ ServerStep \/ OtherClient
    \/ ClientStep \/ Deliver
    \/ Lose \/ NetTick

NetSpec == NetInit /\ [][NetNext]_netvars

-----------------------------------------------------------------------------
(* Properties.                                                             *)

\* The client's address is its own: until MaxDelay seconds before the end of
\* the lease as the client counts it, the server keeps the address for the
\* client, so that nobody else is offered it.  The two count the lease from
\* different moments, renewals and their answers may be lost or late, and the
\* server forgets a lease that has expired.
HeldIsReserved ==
    state \in C!Leased /\ lease - age > MaxDelay =>
        \E s \in Slots : /\ leases[s].chaddr = Me /\ leases[s].yiaddr = held
                         /\ ~lease_expired(leases[s], clock)

\* The client does not lose its address early: while it has more than MaxDelay
\* seconds of its lease left, neither a NAK (the server has forgotten the lease
\* and refuses a late renewal) nor giving up after lost renewals takes the
\* address off the interface, unless the user asks for a renewal or the process
\* ends.
AddressKept ==
    [][(state \in C!Leased /\ lease - age > MaxDelay) =>
          state' # "INIT_SELECTING"]_netvars

=============================================================================
