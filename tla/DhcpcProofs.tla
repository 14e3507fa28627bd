---------------------------- MODULE DhcpcProofs ----------------------------
(***************************************************************************)
(* Proofs for module Dhcpc: types, Listening and LeaseRespected, for every *)
(* set of servers, addresses and lease times, every number of retries and  *)
(* any traffic and signals.                                                *)
(*                                                                         *)
(* LeaseRespected bounds the age of a lease in the state where it stands.  *)
(* What makes that inductive is how far ahead the next timeout may be:     *)
(* Deadline says that the timeout falls before T1, before the end of the   *)
(* lease, or before the end of the requests that are still to be sent.     *)
(***************************************************************************)
EXTENDS Dhcpc, TLAPS

TimersFit == lease \in Nat /\ 7 * lease < Word /\ t1 <= t2 /\ t2 <= lease

Deadline ==
    /\ state \in {"BOUND", "RENEWING"} => TimersFit /\ due + age <= t1 + ArpWait
    /\ state = "REBINDING" =>
          7 * lease < Word /\ t2 <= lease /\ due + age <= lease + ArpWait
    /\ state = "RENEW_REQUESTED" =>
          due + age + (Retry - num) * MaxBackoff <= lease + ArpWait + Retry * MaxBackoff

\* An address that a released client still has was left there on purpose.
LeftBehind == state = "RELEASED" => held = None \/ left # "no"

Inv ==
    /\ TypeOK /\ num <= Retry
    /\ Listening
    /\ LeaseRespected /\ LeftBehind
    /\ Deadline

-----------------------------------------------------------------------------
(* Messages, packets and the arithmetic of the timers.                     *)

Messages == Message \cup {NoMessage}

\* What the client sends has the type of a message.
LEMMA Sent ==
    ASSUME NEW type \in {"discover", "select", "renew", "release", "decline"},
           NEW s \in Server \cup {None}, NEW a \in Addr \cup {None}, send(type, s, a)
    PROVE  out' \in Messages
BY DEF send, Messages, Message

LEMMA Silent == Quiet => out' \in Messages
BY DEF Quiet, Messages

\* The fields that the handlers read of a packet.
LEMMA PacketFields ==
    ASSUME NEW p \in Packet
    PROVE  /\ p.type = "offer" => p.server \in Server \cup {None} /\ p.yiaddr \in Addr
           /\ p.type = "ack" => p.yiaddr \in Addr /\ p.lease \in LeaseTime \cup {NoOption}
<1>1. CASE p \in {Offer(s, a) : s \in Server \cup {None}, a \in Addr}
  <2>1. PICK s \in Server \cup {None}, a \in Addr : p = Offer(s, a)
    BY <1>1
  <2> QED
    BY <2>1 DEF Offer
<1>2. CASE p \in {Ack(a, l) : a \in Addr, l \in LeaseTime \cup {NoOption}}
  <2>1. PICK a \in Addr, l \in LeaseTime \cup {NoOption} : p = Ack(a, l)
    BY <1>2
  <2> QED
    BY <2>1 DEF Ack
<1>3. CASE p \in {Nak(s) : s \in Server \cup {None}}
  <2>1. PICK s \in Server \cup {None} : p = Nak(s)
    BY <1>3
  <2> QED
    BY <2>1 DEF Nak
<1>4. CASE p \in {Junk, Broken}
  BY <1>4 DEF Junk, Broken
<1> QED
  BY <1>1, <1>2, <1>3, <1>4 DEF Packet

LEMMA NothingWaits == << >> \in Seq(Packet) /\ << >> \in Seq(Signals)
OBVIOUS

\* The first packet of the socket is one, and so are the others.
LEMMA SockParts ==
    ASSUME sock \in Seq(Packet), sock # << >>
    PROVE  Head(sock) \in Packet /\ Tail(sock) \in Seq(Packet)
OBVIOUS

LEMMA BackoffRange ==
    ASSUME NEW n \in Nat
    PROVE  Backoff(n) \in 0..MaxBackoff
<1>1. MaxBackoff \in 0..MaxBackoff
  BY ClientAssumption
<1> HIDE DEF Backoff
<1>2. CASE Delay * 2^n \in 0..MaxBackoff
  BY <1>2 DEF Backoff
<1>3. CASE Delay * 2^n \notin 0..MaxBackoff
  BY <1>1, <1>3 DEF Backoff
<1> QED
  BY <1>2, <1>3

LEMMA UntilRange ==
    ASSUME NEW t \in Nat, NEW a \in Nat
    PROVE  Until(t, a) \in Nat /\ (Until(t, a) + a <= t \/ Until(t, a) + a = a)
BY DEF Until

\* The timers of a new lease.
LEMMA NewTimers ==
    ASSUME NEW l \in Nat, 7 * l < Word, Word \in Nat
    PROVE  /\ T1(l) \in Nat /\ T2(l) \in Nat
           /\ T1(l) <= T2(l) /\ T2(l) <= l
<1>1. (l * 7) % Word = l * 7
  OBVIOUS
<1> QED
  BY <1>1 DEF T1, T2

\* No difference of timers wraps around.
LEMMA NoWrap ==
    ASSUME NEW a \in Nat, NEW b \in Nat, a <= b, b < Word, Word \in Nat
    PROVE  /\ Minus(b, a) = b - a
           /\ (Minus(b, a) \div 2 + a) % Word = (b - a) \div 2 + a
           /\ (b - a) \div 2 + a \in Nat
           /\ a <= (b - a) \div 2 + a /\ (b - a) \div 2 + a <= b
<1>1. (b - a) % Word = b - a
  OBVIOUS
<1>2. (b - a) \div 2 + a \in 0..b /\ a <= (b - a) \div 2 + a
  OBVIOUS
<1>3. ((b - a) \div 2 + a) % Word = (b - a) \div 2 + a
  BY <1>2
<1> QED
  BY <1>1, <1>2, <1>3 DEF Minus

\* One request fewer is to be sent.
LEMMA OneLess ==
    ASSUME NEW n \in Nat, NEW r \in Nat, NEW b \in Nat, n < r
    PROVE  /\ (r - n) * b = (r - (n + 1)) * b + b
           /\ (r - n) * b \in Nat /\ r * b \in Nat /\ (r - (n + 1)) * b \in Nat
OBVIOUS

-----------------------------------------------------------------------------
(* The ways in which many steps end.                                       *)

LEMMA ListeningCases ==
    Listening <=>
        /\ state \in {"INIT_SELECTING", "REQUESTING"} => mode = "RAW"
        /\ state \in {"RENEWING", "REBINDING", "RENEW_REQUESTED"} => mode = "KERNEL"
        /\ state \notin {"INIT_SELECTING", "REQUESTING", "RENEWING", "REBINDING",
                         "RENEW_REQUESTED"} => mode = "NONE"
BY DEF Listening

LEMMA ListeningCasesNext ==
    Listening' <=>
        /\ state' \in {"INIT_SELECTING", "REQUESTING"} => mode' = "RAW"
        /\ state' \in {"RENEWING", "REBINDING", "RENEW_REQUESTED"} => mode' = "KERNEL"
        /\ state' \notin {"INIT_SELECTING", "REQUESTING", "RENEWING", "REBINDING",
                          "RENEW_REQUESTED"} => mode' = "NONE"
BY DEF Listening

\* The process ends.
LEMMA ExitInv ==
    ASSUME Inv, exit_client, out' \in Messages,
           held' \in Addr \cup {None}, left' \in {"no", "exit", "release"}
    PROVE  Inv'
<1>1. TypeOK' /\ num' <= Retry
  <2>1. sock' \in Seq(Packet) /\ pipe' \in Seq(Signals) /\ fd' \in BOOLEAN
    BY NothingWaits DEF exit_client, change_mode
  <2>2. opts' \in Options \cup {{}} /\ out' \in Message \cup {NoMessage}
    BY DEF exit_client, Messages
  <2> QED
    BY <2>1, <2>2, ClientAssumption DEF TypeOK, exit_client, change_mode, NoTimers
<1>2. Listening'
  BY ListeningCasesNext DEF exit_client, change_mode
<1>3. LeaseRespected' /\ LeftBehind' /\ Deadline'
  BY DEF exit_client, LeaseRespected, LeftBehind, Deadline, Leased
<1> QED
  BY <1>1, <1>2, <1>3 DEF Inv

\* The client starts to ask for an address, and has none of its own.
LEMMA AskInv ==
    ASSUME Inv, Restarting, mode' = "RAW", fd' \in BOOLEAN,
           sock' \in Seq(Packet), pipe' \in Seq(Signals),
           opts' \in Options \cup {{}}, ip' \in Addr \cup {None},
           server' \in Server \cup {None}, out' \in Messages,
           held' \in Addr \cup {None}, left' \in {"no", "exit", "release"},
           held' = None \/ left' # "no"
    PROVE  Inv'
<1>1. TypeOK' /\ num' <= Retry
  BY ClientAssumption DEF Inv, TypeOK, Restarting, NoTimers, States, Messages
<1>2. Listening'
  BY ListeningCasesNext DEF Restarting
<1>3. LeaseRespected' /\ LeftBehind' /\ Deadline'
  BY DEF Restarting, LeaseRespected, LeftBehind, Deadline, Leased
<1> QED
  BY <1>1, <1>2, <1>3 DEF Inv

-----------------------------------------------------------------------------
(* The head of the loop.                                                   *)

LEMMA InitInv == Init => Inv
<1> SUFFICES ASSUME Init PROVE Inv
  OBVIOUS
<1>1. TypeOK /\ num <= Retry
  <2>1. sock \in Seq(Packet) /\ pipe \in Seq(Signals) /\ fd \in BOOLEAN
    BY NothingWaits DEF Init
  <2>2. opts \in Options \cup {{}} /\ out \in Message \cup {NoMessage}
    BY DEF Init
  <2> QED
    BY <2>1, <2>2, ClientAssumption DEF Init, TypeOK, States
<1>2. Listening
  BY ListeningCases DEF Init
<1>3. LeaseRespected /\ LeftBehind /\ Deadline
  BY DEF Init, LeaseRespected, LeftBehind, Deadline, Leased
<1> QED
  BY <1>1, <1>2, <1>3 DEF Inv

LEMMA LaunchInv == Inv /\ Launch => Inv'
<1> SUFFICES ASSUME Inv, Launch PROVE Inv'
  OBVIOUS
<1>1. /\ opts' \in Options \cup {{}} /\ ip' \in Addr \cup {None}
      /\ server' \in Server \cup {None} /\ pipe' \in Seq(Signals)
      /\ held' \in Addr \cup {None} /\ left' \in {"no", "exit", "release"}
      /\ held' = None \/ left' # "no"
  BY NothingWaits DEF Launch, Inv, TypeOK
<1>2. Restarting /\ mode' = "RAW" /\ fd' \in BOOLEAN /\ sock' \in Seq(Packet)
  BY NothingWaits DEF Launch, change_mode
<1>3. out' \in Messages
  BY Silent DEF Launch
<1> QED
  BY <1>1, <1>2, <1>3, AskInv

LEMMA KilledInv == Inv /\ Killed => Inv'
BY ExitInv, Silent DEF Killed, Inv, TypeOK, iface

LEMMA OpenSocketInv == Inv /\ OpenSocket => Inv'
<1> SUFFICES ASSUME Inv, OpenSocket PROVE Inv'
  OBVIOUS
<1>1. out' \in Messages /\ held' = held /\ left' = left
  BY Silent DEF OpenSocket, iface
<1>2. CASE exit_client
  BY <1>1, <1>2, ExitInv DEF Inv, TypeOK
<1>3. CASE fd' = TRUE /\ UNCHANGED <<state, conf, due, num, mode, sock, pipe, timers>>
  <2>1. TypeOK' /\ num' <= Retry
    BY <1>1, <1>3 DEF Inv, TypeOK, conf, timers, Messages
  <2>2. Listening'
    BY <1>3 DEF Inv, Listening
  <2>3. LeaseRespected' /\ LeftBehind' /\ Deadline'
    BY <1>1, <1>3 DEF Inv, LeaseRespected, HoldLimit, LeftBehind, Deadline, TimersFit, conf, timers
  <2> QED
    BY <2>1, <2>2, <2>3 DEF Inv
<1> QED
  BY <1>2, <1>3 DEF OpenSocket

\* Time brings the lease and the timeout together.
LEMMA TickInv == Inv /\ Tick => Inv'
<1> SUFFICES ASSUME Inv, Tick PROVE Inv'
  OBVIOUS
<1> USE DEF Tick, conf, net, iface, timers
<1>1. out' \in Messages
  BY Silent
<1>2. due \in Nat => due' \in Nat /\ due' + 1 = due
  BY DEF Never
<1>3. state \in Leased \cup {"RENEW_REQUESTED"} => due \in Nat /\ age' = age + 1
  BY DEF Inv, TypeOK, Leased
<1>4. TypeOK' /\ num' <= Retry
  <2>1. due' \in Nat \/ (due' = Never /\ state' \in {"RELEASED", "EXITED"})
    BY <1>2 DEF Inv, TypeOK
  <2> QED
    BY <1>1, <2>1 DEF Inv, TypeOK, Messages
<1>5. Listening' /\ LeftBehind'
  BY DEF Inv, Listening, LeftBehind
<1>6. Deadline'
  <2>1. (Retry - num) * MaxBackoff \in Int /\ Retry * MaxBackoff \in Int
    BY ClientAssumption DEF Inv, TypeOK
  <2> QED
    BY <1>2, <1>3, <2>1, ClientAssumption DEF Inv, TypeOK, Deadline, TimersFit, Leased
<1>7. LeaseRespected'
  <2>1. (Retry - num) * MaxBackoff \in Nat /\ Retry * MaxBackoff \in Nat
    BY ClientAssumption DEF Inv, TypeOK
  <2>2. state' \in Leased \cup {"RENEW_REQUESTED"} => age' <= HoldLimit'
    BY <1>2, <1>3, <1>6, <2>1, ClientAssumption
    DEF Inv, TypeOK, Deadline, TimersFit, Leased, HoldLimit
  <2> QED
    BY <2>2 DEF Inv, LeaseRespected
<1> QED
  BY <1>4, <1>5, <1>6, <1>7 DEF Inv

-----------------------------------------------------------------------------
(* Timeouts.                                                               *)

LEMMA DiscoverTimeoutInv == Inv /\ DiscoverTimeout => Inv'
<1> SUFFICES ASSUME Inv, DiscoverTimeout PROVE Inv'
  OBVIOUS
<1>0. state = "INIT_SELECTING" /\ held' = held /\ left' = left
  BY DEF DiscoverTimeout, TimedOut, iface
<1>1. CASE exit_client /\ Quiet
  BY <1>0, <1>1, ExitInv, Silent DEF Inv, TypeOK
<1>2. CASE /\ num < Retry /\ send("discover", None, ip)
           /\ sock' = IF num = 0 THEN [k \in DOMAIN sock |-> Junk] ELSE sock
           /\ due' = Backoff(num) /\ num' = num + 1
           /\ UNCHANGED <<state, conf, mode, fd, pipe, timers>>
  <2>1. out' \in Messages
    BY <1>2, Sent DEF Inv, TypeOK
  <2>2. sock' \in Seq(Packet)
    <3>1. Junk \in Packet
      BY DEF Packet
    <3>2. [k \in DOMAIN sock |-> Junk] \in Seq(Packet)
      BY <3>1 DEF Inv, TypeOK
    <3> QED
      BY <1>2, <3>2 DEF Inv, TypeOK
  <2>3. due' \in Nat /\ num' \in Nat /\ num' <= Retry
    <3>1. num \in Nat /\ num < Retry /\ num' = num + 1 /\ due' = Backoff(num)
      BY <1>2 DEF Inv, TypeOK
    <3> QED
      BY <3>1, BackoffRange, ClientAssumption
  <2>4. TypeOK'
    BY <1>0, <1>2, <2>1, <2>2, <2>3 DEF Inv, TypeOK, conf, timers, Messages
  <2>5. Listening' /\ LeaseRespected' /\ LeftBehind' /\ Deadline'
    BY <1>0, <1>2 DEF Inv, Listening, LeaseRespected, LeftBehind, Deadline, Leased, conf
  <2> QED
    BY <2>3, <2>4, <2>5 DEF Inv
<1>3. CASE /\ Quiet /\ num' = 0 /\ due' = Sleep
           /\ UNCHANGED <<state, conf, net, pipe, timers>>
  <2>1. TypeOK' /\ num' <= Retry
    BY <1>0, <1>3, Silent, ClientAssumption DEF Inv, TypeOK, conf, net, timers, Messages
  <2>2. Listening' /\ LeaseRespected' /\ LeftBehind' /\ Deadline'
    BY <1>0, <1>3 DEF Inv, Listening, LeaseRespected, LeftBehind, Deadline, Leased, conf, net
  <2> QED
    BY <2>1, <2>2 DEF Inv
<1> QED
  BY <1>1, <1>2, <1>3 DEF DiscoverTimeout

LEMMA RequestTimeoutInv == Inv /\ RequestTimeout => Inv'
<1> SUFFICES ASSUME Inv, RequestTimeout PROVE Inv'
  OBVIOUS
<1>0. state \in {"REQUESTING", "RENEW_REQUESTED"} /\ due = 0
  BY DEF RequestTimeout, TimedOut
<1>1. CASE num >= Retry
  <2>0. /\ Quiet
        /\ IF state = "RENEW_REQUESTED" THEN deconfig ELSE UNCHANGED iface
        /\ IF "sleep0" \in opts THEN exit_client
           ELSE Restarting /\ change_mode("RAW") /\ UNCHANGED <<conf, pipe>>
    BY <1>1, ClientAssumption DEF RequestTimeout, Inv, TypeOK
  <2>1. /\ out' \in Messages /\ held' \in Addr \cup {None}
        /\ left' \in {"no", "exit", "release"} /\ (held' = None \/ left' # "no")
    BY <1>0, <2>0, Silent DEF Inv, TypeOK, LeaseRespected, deconfig, iface
  <2>2. CASE exit_client
    BY <2>1, <2>2, ExitInv
  <2>3. CASE Restarting /\ change_mode("RAW") /\ UNCHANGED <<conf, pipe>>
    BY <2>1, <2>3, AskInv, NothingWaits DEF Inv, TypeOK, change_mode, conf
  <2> QED
    BY <2>0, <2>2, <2>3
<1>2. CASE num < Retry
  <2>1. /\ send(IF state = "RENEW_REQUESTED" THEN "renew" ELSE "select", server, ip)
        /\ due' = Backoff(num) /\ num' = num + 1
        /\ UNCHANGED <<state, conf, net, pipe, timers, iface>>
    BY <1>2, ClientAssumption DEF RequestTimeout, Inv, TypeOK
  <2>2. out' \in Messages
    BY <2>1, Sent DEF Inv, TypeOK
  <2>3. due' \in 0..MaxBackoff /\ num' \in Nat /\ num' <= Retry
    BY <1>2, <2>1, BackoffRange, ClientAssumption DEF Inv, TypeOK
  <2>4. TypeOK'
    BY <2>1, <2>2, <2>3, ClientAssumption DEF Inv, TypeOK, conf, net, timers, iface, Messages
  <2>5. Listening' /\ LeaseRespected' /\ LeftBehind'
    BY <2>1 DEF Inv, Listening, LeaseRespected, HoldLimit, LeftBehind, conf, net, timers, iface
  <2>6. Deadline'
    <3>1. /\ (Retry - num) * MaxBackoff = (Retry - num') * MaxBackoff + MaxBackoff
          /\ (Retry - num) * MaxBackoff \in Nat /\ Retry * MaxBackoff \in Nat
          /\ (Retry - num') * MaxBackoff \in Nat
      BY <1>2, <2>1, OneLess, ClientAssumption DEF Inv, TypeOK
    <3>2. state = "RENEW_REQUESTED" =>
            due' + age' + (Retry - num') * MaxBackoff
              <= lease' + ArpWait + Retry * MaxBackoff
      BY <1>0, <2>1, <2>3, <3>1, ClientAssumption DEF Inv, TypeOK, Deadline, timers
    <3> QED
      BY <1>0, <2>1, <3>2 DEF Deadline
  <2> QED
    BY <2>3, <2>4, <2>5, <2>6 DEF Inv
<1> QED
  BY <1>1, <1>2, ClientAssumption DEF Inv, TypeOK

\* Half of what is left until T2, or REBINDING with all of it.
LEMMA RenewingInv ==
    ASSUME Inv, state \in {"BOUND", "RENEWING"}, due = 0, Renewing,
           mode' = "KERNEL", fd' \in BOOLEAN, sock' \in Seq(Packet),
           UNCHANGED <<conf, num, pipe, lease, t2, age, iface>>
    PROVE  Inv'
<1> USE DEF conf, iface
<1>0. /\ lease \in Nat /\ t1 \in Nat /\ t2 \in Nat /\ age \in Nat
      /\ t1 <= t2 /\ t2 <= lease /\ 7 * lease < Word /\ age <= t1 + ArpWait
  BY DEF Inv, TypeOK, Deadline, TimersFit
<1>1. /\ Minus(t2, t1) = t2 - t1
      /\ (Minus(t2, t1) \div 2 + t1) % Word = (t2 - t1) \div 2 + t1
      /\ (t2 - t1) \div 2 + t1 \in Nat
      /\ t1 <= (t2 - t1) \div 2 + t1 /\ (t2 - t1) \div 2 + t1 <= t2
  BY <1>0, NoWrap, LeasesFit
<1>2. /\ out' \in Messages /\ due' \in Nat /\ t1' \in Nat
      /\ \/ state' = "REBINDING" /\ due' + age <= lease + ArpWait
         \/ /\ state' = "RENEWING" /\ t1' <= t2
            /\ due' + age <= t1' + ArpWait
  <2>1. CASE state' = "REBINDING" /\ due' = Minus(t2, t1) /\ Quiet /\ UNCHANGED t1
    BY <1>0, <1>1, <2>1, Silent, ClientAssumption
  <2>2. CASE /\ state' = "RENEWING" /\ send("renew", server, ip)
             /\ t1' = (Minus(t2, t1) \div 2 + t1) % Word
             /\ due' = Until(t1', age)
    <3>1. out' \in Messages
      BY <2>2, Sent DEF Inv, TypeOK
    <3>2. t1' \in Nat /\ t1 <= t1' /\ t1' <= t2
      BY <1>1, <2>2
    <3> QED
      <4>1. Until(t1', age) \in Nat /\ (Until(t1', age) + age <= t1' \/ Until(t1', age) + age = age)
        BY <1>0, <3>2, UntilRange
      <4> QED
        BY <1>0, <2>2, <3>1, <3>2, <4>1, ClientAssumption
  <2> QED
    BY <2>1, <2>2 DEF Renewing
<1>3. TypeOK' /\ num' <= Retry
  BY <1>2 DEF Inv, TypeOK, States, Messages
<1>4. Listening'
  BY <1>2, ListeningCasesNext
<1>5. LeftBehind' /\ Deadline'
  BY <1>0, <1>2 DEF LeftBehind, Deadline, TimersFit
<1>6. LeaseRespected'
  BY <1>0, <1>2, ClientAssumption DEF Inv, LeaseRespected, HoldLimit, Leased
<1> QED
  BY <1>3, <1>4, <1>5, <1>6 DEF Inv

LEMMA BoundTimeoutInv == Inv /\ BoundTimeout => Inv'
<1> SUFFICES ASSUME Inv, BoundTimeout PROVE Inv'
  OBVIOUS
<1>1. mode' = "KERNEL" /\ fd' \in BOOLEAN /\ sock' \in Seq(Packet)
  BY NothingWaits DEF BoundTimeout, change_mode
<1> QED
  BY <1>1, RenewingInv DEF BoundTimeout, TimedOut

LEMMA RenewingTimeoutInv == Inv /\ RenewingTimeout => Inv'
<1> SUFFICES ASSUME Inv, RenewingTimeout PROVE Inv'
  OBVIOUS
<1>1. mode' = "KERNEL" /\ fd' \in BOOLEAN /\ sock' \in Seq(Packet)
  BY ListeningCases DEF RenewingTimeout, TimedOut, Inv, TypeOK, net
<1> QED
  BY <1>1, RenewingInv DEF RenewingTimeout, TimedOut

LEMMA RebindingTimeoutInv == Inv /\ RebindingTimeout => Inv'
<1> SUFFICES ASSUME Inv, RebindingTimeout PROVE Inv'
  OBVIOUS
<1>0. /\ state = "REBINDING" /\ due = 0 /\ UNCHANGED <<conf, pipe>>
      /\ lease \in Nat /\ t2 \in Nat /\ age \in Nat
      /\ t2 <= lease /\ 7 * lease < Word /\ age <= lease + ArpWait
  BY DEF RebindingTimeout, TimedOut, Inv, TypeOK, Deadline
<1>1. CASE Restarting /\ change_mode("RAW") /\ deconfig /\ Quiet
  BY <1>0, <1>1, AskInv, Silent, NothingWaits DEF Inv, TypeOK, change_mode, deconfig, conf
<1>2. CASE /\ send("renew", None, ip)
           /\ t2' = (Minus(lease, t2) \div 2 + t2) % Word
           /\ due' = Until(t2', age)
           /\ UNCHANGED <<state, num, net, lease, t1, age, iface>>
  <2>1. out' \in Messages
    BY <1>2, Sent DEF Inv, TypeOK
  <2>2. t2' \in Nat /\ t2' <= lease
    BY <1>0, <1>2, NoWrap, LeasesFit
  <2>3. due' \in Nat /\ due' + age <= lease + ArpWait
    <3>1. Until(t2', age) \in Nat /\ (Until(t2', age) + age <= t2' \/ Until(t2', age) + age = age)
      BY <1>0, <2>2, UntilRange
    <3> QED
      BY <1>0, <1>2, <2>2, <3>1, ClientAssumption
  <2>4. TypeOK' /\ num' <= Retry
    BY <1>0, <1>2, <2>1, <2>2, <2>3 DEF Inv, TypeOK, conf, net, iface, Messages
  <2>5. Listening' /\ LeaseRespected' /\ LeftBehind'
    BY <1>0, <1>2 DEF Inv, Listening, LeaseRespected, HoldLimit, LeftBehind, conf, net, iface
  <2>6. Deadline'
    BY <1>0, <1>2, <2>2, <2>3 DEF Deadline
  <2> QED
    BY <2>4, <2>5, <2>6 DEF Inv
<1> QED
  BY <1>1, <1>2 DEF RebindingTimeout

LEMMA TimeoutInv == Inv /\ Timeout => Inv'
BY DiscoverTimeoutInv, RequestTimeoutInv, BoundTimeoutInv, RenewingTimeoutInv,
   RebindingTimeoutInv DEF Timeout

-----------------------------------------------------------------------------
(* Packets and signals.                                                    *)

\* Steps that only touch the socket, the pipe or the message.
LEMMA FrameInv ==
    ASSUME Inv, UNCHANGED <<state, conf, due, num, mode, timers, iface>>,
           fd' \in BOOLEAN, sock' \in Seq(Packet), pipe' \in Seq(Signals),
           out' \in Messages
    PROVE  Inv'
<1>1. TypeOK' /\ num' <= Retry
  BY DEF Inv, TypeOK, conf, timers, iface, Messages
<1>2. Listening' /\ LeaseRespected' /\ LeftBehind'
  BY DEF Inv, Listening, LeaseRespected, HoldLimit, LeftBehind, conf, timers, iface
<1>3. Deadline'
  BY DEF Inv, Deadline, TimersFit, timers
<1> QED
  BY <1>1, <1>2, <1>3 DEF Inv

LEMMA ArriveInv == ASSUME NEW p \in Packet, Inv, Arrive(p) PROVE Inv'
<1>1. sock' \in Seq(Packet)
  BY DEF Arrive, Inv, TypeOK
<1> QED
  BY <1>1, FrameInv, Silent DEF Arrive, Inv, TypeOK

LEMMA SignalInv == ASSUME NEW s \in Signals, Inv, Signal(s) PROVE Inv'
<1>1. pipe' \in Seq(Signals)
  BY DEF Signal, Inv, TypeOK
<1> QED
  BY <1>1, FrameInv, Silent DEF Signal, Inv, TypeOK, net

\* A packet is only received in the states in which the client listens.
LEMMA Received ==
    ASSUME Inv, NEW type, Receive(type)
    PROVE  /\ due \in Nat /\ Head(sock).type = type
           /\ Head(sock) \in Packet /\ Tail(sock) \in Seq(Packet)
           /\ state \in {"INIT_SELECTING", "REQUESTING", "RENEWING", "REBINDING",
                         "RENEW_REQUESTED"}
<1>1. mode # "NONE" /\ sock # << >> /\ Head(sock).type = type
  BY DEF Receive
<1>2. state \in {"INIT_SELECTING", "REQUESTING", "RENEWING", "REBINDING", "RENEW_REQUESTED"}
  BY <1>1, ListeningCases DEF Inv
<1>3. due \in Nat
  BY <1>2 DEF Inv, TypeOK
<1> QED
  BY <1>1, <1>2, <1>3, SockParts DEF Inv, TypeOK

LEMMA IgnoreInv == Inv /\ Ignore => Inv'
<1> SUFFICES ASSUME Inv, Ignore PROVE Inv'
  OBVIOUS
<1>1. Tail(sock) \in Seq(Packet)
  BY Received DEF Ignore
<1>2. sock' \in Seq(Packet) /\ fd' \in BOOLEAN /\ mode' = mode
  BY <1>1, NothingWaits DEF Ignore, change_mode, Inv, TypeOK
<1> QED
  BY <1>2, FrameInv, Silent DEF Ignore, Inv, TypeOK

LEMMA TakeOfferInv == Inv /\ TakeOffer => Inv'
<1> SUFFICES ASSUME Inv, TakeOffer PROVE Inv'
  OBVIOUS
<1>0. /\ state = "INIT_SELECTING" /\ held' = held /\ left' = left
      /\ out' \in Messages
  BY Silent DEF TakeOffer, iface
<1>1. CASE exit_client
  BY <1>0, <1>1, ExitInv DEF Inv, TypeOK
<1>2. CASE /\ server' = Head(sock).server /\ ip' = Head(sock).yiaddr
           /\ state' = "REQUESTING" /\ due' = 0 /\ num' = 0
           /\ sock' = Tail(sock)
           /\ UNCHANGED <<opts, mode, fd, pipe, timers>>
  <2>1. ip' \in Addr /\ server' \in Server \cup {None} /\ sock' \in Seq(Packet)
    BY <1>2, Received, PacketFields DEF TakeOffer
  <2>2. TypeOK' /\ num' <= Retry
    BY <1>0, <1>2, <2>1, ClientAssumption DEF Inv, TypeOK, States, timers, Messages
  <2>3. Listening'
    BY <1>0, <1>2, ListeningCases, ListeningCasesNext DEF Inv
  <2>4. LeaseRespected' /\ LeftBehind' /\ Deadline'
    BY <1>0, <1>2 DEF Inv, LeaseRespected, LeftBehind, Deadline, Leased
  <2> QED
    BY <2>2, <2>3, <2>4 DEF Inv
<1> QED
  BY <1>1, <1>2 DEF TakeOffer

LEMMA AckConflictInv == Inv /\ AckConflict => Inv'
<1> SUFFICES ASSUME Inv, AckConflict PROVE Inv'
  OBVIOUS
<1>1. state = "REQUESTING" /\ mode' = "RAW" /\ fd' \in BOOLEAN
  BY ListeningCases DEF AckConflict, Inv, TypeOK
<1>2. Head(sock).yiaddr \in Addr /\ sock' \in Seq(Packet)
  BY Received, PacketFields DEF AckConflict
<1>3. out' \in Messages
  BY <1>2, Sent DEF AckConflict, send_decline, Inv, TypeOK
<1>4. held' = None \/ left' # "no"
  BY <1>1 DEF AckConflict, Inv, LeaseRespected, iface
<1> QED
  BY <1>1, <1>2, <1>3, <1>4, AskInv DEF AckConflict, Inv, TypeOK, iface

\* The timers of the new lease fit, and the probe takes ArpWait at most.
LEMMA TakeAckInv == Inv /\ TakeAck => Inv'
<1> SUFFICES ASSUME Inv, TakeAck PROVE Inv'
  OBVIOUS
<1> DEFINE p == Head(sock)
           l == IF p.lease = NoOption THEN DefaultLease ELSE p.lease
<1>1. p.yiaddr \in Addr /\ p.lease \in LeaseTime \cup {NoOption}
  BY Received, PacketFields DEF TakeAck
<1>2. l \in LeaseTime \cup {DefaultLease}
  BY <1>1
<1> HIDE DEF l
<1>3. l \in Nat /\ 7 * l < Word /\ Word \in Nat
  BY <1>2, LeasesFit, ClientAssumption
<1>4. held' = p.yiaddr /\ left' = "no" /\ out' \in Messages
  BY Silent DEF TakeAck, configure
<1>5. CASE exit_client
  BY <1>1, <1>4, <1>5, ExitInv
<1>6. CASE \E pause \in 0..ArpWait :
             /\ lease' = l /\ t1' = T1(l) /\ t2' = T2(l) /\ age' = pause
             /\ due' = Until(T1(l), pause)
             /\ ip' = p.yiaddr
             /\ state' = "BOUND" /\ change_mode("NONE")
             /\ UNCHANGED <<opts, server, num, pipe>>
  <2> PICK pause \in 0..ArpWait :
             /\ lease' = l /\ t1' = T1(l) /\ t2' = T2(l) /\ age' = pause
             /\ due' = Until(T1(l), pause)
             /\ ip' = p.yiaddr
             /\ state' = "BOUND" /\ change_mode("NONE")
             /\ UNCHANGED <<opts, server, num, pipe>>
    BY <1>6
  <2>1. t1' \in Nat /\ t2' \in Nat /\ t1' <= t2' /\ t2' <= l
    BY <1>3, NewTimers
  <2>2. pause \in Nat /\ pause <= ArpWait
    BY ClientAssumption
  <2>3. due' \in Nat /\ due' + pause <= t1' + ArpWait
    <3>1. Until(t1', pause) \in Nat
          /\ (Until(t1', pause) + pause <= t1' \/ Until(t1', pause) + pause = pause)
      BY <2>1, <2>2, UntilRange
    <3> QED
      BY <2>1, <2>2, <3>1, ClientAssumption
  <2>4. mode' = "NONE" /\ fd' \in BOOLEAN /\ sock' \in Seq(Packet)
    BY NothingWaits DEF change_mode
  <2>5. TypeOK' /\ num' <= Retry
    BY <1>1, <1>3, <1>4, <2>1, <2>2, <2>3, <2>4 DEF Inv, TypeOK, States, Messages
  <2>6. Listening'
    BY <2>4, ListeningCasesNext
  <2>7. LeaseRespected' /\ LeftBehind' /\ Deadline'
    BY <1>3, <1>4, <2>1, <2>2, <2>3, ClientAssumption
    DEF LeaseRespected, HoldLimit, Leased, LeftBehind, Deadline, TimersFit
  <2> QED
    BY <2>5, <2>6, <2>7 DEF Inv
<1> QED
  <2>1. exit_client \/ \E pause \in IF state = "REQUESTING" THEN 0..ArpWait ELSE {0} :
             /\ lease' = l /\ t1' = T1(l) /\ t2' = T2(l) /\ age' = pause
             /\ due' = Until(T1(l), pause)
             /\ ip' = p.yiaddr
             /\ state' = "BOUND" /\ change_mode("NONE")
             /\ UNCHANGED <<opts, server, num, pipe>>
    BY DEF TakeAck, l
  <2>2. \A pause \in IF state = "REQUESTING" THEN 0..ArpWait ELSE {0} : pause \in 0..ArpWait
    BY ClientAssumption
  <2> HIDE DEF p
  <2> QED
    BY <1>5, <1>6, <2>1, <2>2

LEMMA TakeNakInv == Inv /\ TakeNak => Inv'
<1> SUFFICES ASSUME Inv, TakeNak PROVE Inv'
  OBVIOUS
<1>1. out' \in Messages /\ mode' = "RAW" /\ fd' \in BOOLEAN /\ sock' \in Seq(Packet)
  BY Silent, NothingWaits DEF TakeNak, change_mode
<1>2. /\ held' \in Addr \cup {None} /\ left' \in {"no", "exit", "release"}
      /\ held' = None \/ left' # "no"
  BY DEF TakeNak, Inv, TypeOK, LeaseRespected, deconfig, iface
<1> QED
  BY <1>1, <1>2, AskInv DEF TakeNak, Inv, TypeOK

LEMMA PacketsInv == Inv /\ Packets => Inv'
BY IgnoreInv, TakeOfferInv, AckConflictInv, TakeAckInv, TakeNakInv DEF Packets

\* A served signal leaves the pipe.
LEMMA ServedParts ==
    ASSUME Inv, NEW s, Served(s)
    PROVE  Tail(pipe) \in Seq(Signals) /\ state \in States
<1>1. pipe \in Seq(Signals) /\ pipe # << >>
  BY DEF Served, Inv, TypeOK
<1> QED
  BY <1>1 DEF Served, Ready, Inv, TypeOK

\* A renewal on request gets time for a whole series of requests.
LEMMA PerformRenewInv == Inv /\ PerformRenew => Inv'
<1> SUFFICES ASSUME Inv, PerformRenew PROVE Inv'
  OBVIOUS
<1>0. /\ pipe' \in Seq(Signals) /\ num' = 0 /\ due' = 0 /\ UNCHANGED conf
      /\ out' \in Messages
  BY ServedParts, Silent DEF PerformRenew
<1>1. CASE /\ state \in Leased /\ state' = "RENEW_REQUESTED"
           /\ IF state = "BOUND" THEN change_mode("KERNEL") ELSE UNCHANGED net
           /\ UNCHANGED <<timers, iface>>
  <2>1. mode' = "KERNEL" /\ fd' \in BOOLEAN /\ sock' \in Seq(Packet)
    BY <1>1, ListeningCases, NothingWaits DEF Inv, TypeOK, Leased, change_mode, net
  <2>2. TypeOK' /\ num' <= Retry
    BY <1>0, <1>1, <2>1, ClientAssumption
    DEF Inv, TypeOK, States, conf, timers, iface, Messages
  <2>3. Listening'
    BY <1>1, <2>1, ListeningCasesNext
  <2>4. (Retry - 0) * MaxBackoff = Retry * MaxBackoff /\ Retry * MaxBackoff \in Nat
    BY ClientAssumption
  <2>5. age <= lease + ArpWait
    BY <1>1 DEF Inv, LeaseRespected, HoldLimit, Leased
  <2>6. LeaseRespected' /\ LeftBehind' /\ Deadline'
    BY <1>0, <1>1, <2>4, <2>5, ClientAssumption
    DEF Inv, TypeOK, LeaseRespected, HoldLimit, Leased, LeftBehind, Deadline, conf, timers, iface
  <2> QED
    BY <2>2, <2>3, <2>6 DEF Inv
<1>2. CASE state = "INIT_SELECTING" /\ UNCHANGED <<state, net, timers, iface>>
  <2>1. TypeOK' /\ num' <= Retry
    BY <1>0, <1>2, ClientAssumption DEF Inv, TypeOK, conf, net, timers, iface, Messages
  <2>2. Listening' /\ LeaseRespected' /\ LeftBehind' /\ Deadline'
    BY <1>0, <1>2 DEF Inv, Listening, LeaseRespected, LeftBehind, Deadline, Leased, conf, net, iface
  <2> QED
    BY <2>1, <2>2 DEF Inv
<1>3. CASE /\ state \in {"RENEW_REQUESTED", "REQUESTING", "RELEASED"}
           /\ change_mode("RAW") /\ state' = "INIT_SELECTING"
           /\ NoTimers
           /\ IF state = "RENEW_REQUESTED" THEN deconfig ELSE UNCHANGED iface
  <2>1. Restarting /\ mode' = "RAW" /\ fd' \in BOOLEAN /\ sock' \in Seq(Packet)
    BY <1>0, <1>3, NothingWaits DEF Restarting, change_mode
  <2>2. /\ held' \in Addr \cup {None} /\ left' \in {"no", "exit", "release"}
        /\ held' = None \/ left' # "no"
    BY <1>3 DEF Inv, TypeOK, LeaseRespected, LeftBehind, deconfig, iface
  <2> QED
    BY <1>0, <2>1, <2>2, AskInv DEF Inv, TypeOK, conf
<1> QED
  BY <1>1, <1>2, <1>3 DEF PerformRenew

\* What perform_release leaves on the interface.
LEMMA ReleasingParts ==
    ASSUME Inv, Releasing, state \in States
    PROVE  /\ held' \in Addr \cup {None} /\ left' \in {"no", "exit", "release"}
           /\ held' = None \/ left' # "no"
           /\ out' \in Messages
<1>1. CASE state \in Leased
  <2>1. send("release", server, ip) /\ deconfig
    BY <1>1 DEF Releasing
  <2> QED
    BY <2>1, Sent DEF Inv, TypeOK, deconfig
<1>2. CASE state \notin Leased
  BY <1>2, Silent DEF Releasing, Inv, TypeOK
<1> QED
  BY <1>1, <1>2

LEMMA PerformReleaseInv == Inv /\ PerformRelease => Inv'
<1> SUFFICES ASSUME Inv, PerformRelease PROVE Inv'
  OBVIOUS
<1>1. pipe' \in Seq(Signals) /\ state \in States
  BY ServedParts DEF PerformRelease
<1>2. /\ held' \in Addr \cup {None} /\ left' \in {"no", "exit", "release"}
      /\ held' = None \/ left' # "no"
      /\ out' \in Messages
  BY <1>1, ReleasingParts DEF PerformRelease
<1>3. mode' = "NONE" /\ fd' \in BOOLEAN /\ sock' \in Seq(Packet)
  BY NothingWaits DEF PerformRelease, change_mode
<1>4. TypeOK' /\ num' <= Retry
  BY <1>1, <1>2, <1>3 DEF PerformRelease, NoTimers, Inv, TypeOK, States, conf, Messages
<1>5. Listening'
  BY <1>3, ListeningCasesNext DEF PerformRelease
<1>6. LeaseRespected' /\ LeftBehind' /\ Deadline'
  BY <1>2 DEF PerformRelease, LeaseRespected, LeftBehind, Deadline, Leased
<1> QED
  BY <1>4, <1>5, <1>6 DEF Inv

LEMMA TerminateInv == Inv /\ Terminate => Inv'
<1> SUFFICES ASSUME Inv, Terminate PROVE Inv'
  OBVIOUS
<1>1. state \in States
  BY ServedParts DEF Terminate
<1> QED
  BY <1>1, ReleasingParts, ExitInv DEF Terminate

-----------------------------------------------------------------------------
(* Theorems.                                                               *)

LEMMA NextInv == Inv /\ [Next]_vars => Inv'
<1> SUFFICES ASSUME Inv, [Next]_vars PROVE Inv'
  OBVIOUS
<1>1. CASE UNCHANGED vars
  BY <1>1, FrameInv DEF vars, conf, net, timers, iface, Inv, TypeOK, Messages
<1>2. CASE \E p \in Packet : Arrive(p)
  BY <1>2, ArriveInv
<1>3. CASE \E s \in Signals : Signal(s)
  BY <1>3, SignalInv
<1>4. CASE ServeSignal
  BY <1>4, PerformRenewInv, PerformReleaseInv, TerminateInv DEF ServeSignal
<1> QED
  BY <1>1, <1>2, <1>3, <1>4, LaunchInv, KilledInv, OpenSocketInv, TickInv,
     TimeoutInv, PacketsInv DEF Next

\* The inductive invariant of the client.
THEOREM DhcpcInvariant == Spec => []Inv
<1>1. Init => Inv
  BY InitInv
<1>2. Inv /\ [Next]_vars => Inv'
  BY NextInv
<1> QED
  BY <1>1, <1>2, PTL DEF Spec

\* Types of the client's variables: its timers are never negative and timeout
\* is set in every state but RELEASED, for all lease times below 2^32 / 7.
THEOREM DhcpcTypes == Spec => []TypeOK
<1>1. Inv => TypeOK
  BY DEF Inv
<1> QED
  BY <1>1, DhcpcInvariant, PTL

\* The client listens whenever it waits for an answer (change_mode).
THEOREM DhcpcListens == Spec => []Listening
<1>1. Inv => Listening
  BY DEF Inv
<1> QED
  BY <1>1, DhcpcInvariant, PTL

\* No address outlives its lease: the timeouts of dhcpc.c take it off the
\* interface in time, whatever is received and whenever signals arrive.
THEOREM DhcpcLease == Spec => []LeaseRespected
<1>1. Inv => LeaseRespected
  BY DEF Inv
<1> QED
  BY <1>1, DhcpcInvariant, PTL

=============================================================================
