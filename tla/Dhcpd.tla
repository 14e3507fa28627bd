------------------------------- MODULE Dhcpd -------------------------------
(***************************************************************************)
(* The DHCP server of progs.gpl/udhcpcd: the message loop of dhcpd.c, the  *)
(* replies of serverpacket.c and the lease file of files.c, over the table *)
(* of module Leases.  The server is one thread: a packet, a signal or the  *)
(* timeout of select is handled to the end before the next.                *)
(*                                                                         *)
(* The clients and the network are the environment: any packet may arrive  *)
(* at any moment, which covers lost, delayed and repeated packets.  The    *)
(* server may be stopped and started again, and the machine may reboot.    *)
(***************************************************************************)
EXTENDS Leases, FiniteSets

CONSTANTS
    ServerLease,  \* server_config.lease
    MinLease,     \* server_config.min_lease
    OfferTime,    \* server_config.offer_time
    DeclineTime,  \* server_config.decline_time
    AutoTime,     \* server_config.auto_time
    Remaining,    \* server_config.remaining
    FileOpens,    \* whether fopen(server_config.lease_file) succeeds
    FileKept,     \* whether the file system of the lease file survives a reboot
    LastByte,     \* addresses whose last byte is 0 or 255
    Server,       \* server_config.server
    Epoch,        \* time(0) when the machine boots
    Asked,        \* addresses that clients ask for
    LeaseOption,  \* lease times that clients ask for
    Neighbours,   \* addresses that may be in use without the server's knowledge
    MaxTime       \* bound on the uptime

ASSUME ConfigAssumption ==
    /\ ServerLease \in 0..(Word - 1) /\ MinLease \in Nat /\ OfferTime \in Nat
    /\ DeclineTime \in Nat /\ AutoTime \in Nat /\ Epoch \in Nat /\ MaxTime \in Nat
    /\ {Remaining, FileOpens, FileKept} \subseteq BOOLEAN
    /\ Asked \subseteq Addr
    /\ LeaseOption \subseteq 0..(Word - 1)

VARIABLES
    leases,      \* the lease table
    staticACKed, \* static leases whose ACKed flag is set
    file,        \* the lease file: for each slot the record written for it, if any
    timeout_end, \* uptime of the next automatic write
    clock,       \* get_uptime()
    pc,          \* "load" while read_leases runs, "serve" in the message loop
    nread,       \* structs that read_leases has read
    i,           \* leases that read_leases has added
    in,          \* the packet that was handled last
    out          \* the reply to it

vars == <<leases, staticACKed, file, timeout_end, clock, pc, nread, i, in, out>>
loading == <<pc, nread, i>>

-----------------------------------------------------------------------------
(* The lease file.                                                         *)

RecordSize == 92   \* bytes that write_leases writes for a lease
StructSize == 96   \* sizeof(struct dhcpOfferedAddr), which read_leases reads

Place == 1..(MaxLeases + Len(StaticLeases))
Record == [chaddr : Client \cup {Blank}, yiaddr : Nat, time : 0..(Word - 1)]
NoRecord == [chaddr |-> Blank, yiaddr |-> None, time |-> 0]
NoFile == [p \in Place |-> NoRecord]
Written(f) == {p \in Place : f[p].yiaddr # None}

\* Mutant: the remaining time is not computed.
RecordTimeAbsolute(e, now) == e.expires
\* Mutant: the test for an expired lease is inverted.
RecordTimeInverted(e, now) ==
    IF ~Remaining THEN e.expires
    ELSE IF lease_expired(e, now) THEN e.expires - now ELSE 0
\* The time stored for lease e: absolute, or what is left of it.
RecordTime(e, now) ==
    IF ~Remaining THEN e.expires
    ELSE IF lease_expired(e, now) THEN 0 ELSE e.expires - now

\* What write_leases leaves in the file: the dynamic leases that are
\* acknowledged, then the static ones.
write_leases(T, S, now) ==
    IF ~FileOpens THEN file
    ELSE [p \in Place |->
            IF p \in Slots /\ T[p].yiaddr # None /\ T[p].ACKed
            THEN [chaddr |-> T[p].chaddr, yiaddr |-> T[p].yiaddr,
                  time |-> RecordTime(T[p], now)]
            ELSE IF p - MaxLeases \in S
            THEN [chaddr |-> StaticLeases[p - MaxLeases].chaddr,
                  yiaddr |-> StaticLeases[p - MaxLeases].yiaddr, time |-> Infinite]
            ELSE NoRecord]

\* fread of the struct number n (from 0): whether there are bytes enough, and
\* the place of the record it hits.  A struct is longer than a record, so most
\* reads start in the middle of a record; what they find in place of yiaddr is
\* a lease time, a flag or text, which the range check rejects.
CanRead(f, n) == StructSize * (n + 1) <= RecordSize * Cardinality(Written(f))
ReadAt(f, n) ==
    {p \in Written(f) :
        /\ (StructSize * n) % RecordSize = 0
        /\ Cardinality({q \in Written(f) : q < p}) = (StructSize * n) \div RecordSize}

LeaseRead(t, now) ==
    LET secs == IF Remaining THEN t ELSE (t - now) % Word
    IN  IF secs = Infinite THEN ServerLease ELSE secs

-----------------------------------------------------------------------------
(* Start and end of the server.                                            *)

NoPacket == [chaddr |-> Blank, ciaddr |-> None]
NoReply == [type |-> "none", yiaddr |-> None, lease |-> 0]

\* timeout_end = now + auto_time; nobody looks at it when auto_time is 0.
AutoEnd(now) == IF AutoTime = 0 THEN 0 ELSE (now + AutoTime) % Word

\* memset of the two tables, then read_leases opens the file.
StartState ==
    /\ leases' = [s \in Slots |-> Zeroed]
    /\ staticACKed' = {}
    /\ pc' = "load" /\ nread' = 0 /\ i' = 0
    /\ in' = NoPacket /\ out' = NoReply
    /\ UNCHANGED timeout_end

Init ==
    /\ leases = [s \in Slots |-> Zeroed]
    /\ staticACKed = {}
    /\ file = NoFile
    /\ timeout_end = 0 /\ clock = 0
    /\ pc = "load" /\ nread = 0 /\ i = 0
    /\ in = NoPacket /\ out = NoReply

\* One iteration of read_leases.  A record of a static client or address only
\* sets the ACKed flag of that static lease, if it matches both.  (There is
\* always an empty slot, so add_lease does not fail here.)
ReadRecord ==
    /\ pc = "load"
    /\ i < MaxLeases /\ CanRead(file, nread)
    /\ LET hit == {p \in ReadAt(file, nread) : file[p].yiaddr \in Start..End}
           clash == {k \in StaticSlots : \E p \in hit :
                        \/ StaticLeases[k].chaddr = file[p].chaddr
                        \/ StaticLeases[k].yiaddr = file[p].yiaddr}
       IN \/ /\ hit = {} \/ clash # {}
             /\ staticACKed' = staticACKed \cup
                   {k \in First(clash) : \E p \in hit :
                        /\ StaticLeases[k].chaddr = file[p].chaddr
                        /\ StaticLeases[k].yiaddr = file[p].yiaddr}
             /\ UNCHANGED <<leases, i>>
          \/ /\ clash = {}
             /\ \E p \in hit :
                  leases' = add_lease(leases, file[p].chaddr, file[p].yiaddr,
                                      LeaseRead(file[p].time, clock), clock, TRUE)
             /\ i' = i + 1
             /\ UNCHANGED staticACKed
    /\ nread' = nread + 1
    /\ UNCHANGED <<file, timeout_end, clock, pc, in, out>>

\* The file is used up: write it again and enter the loop.
FinishLoad ==
    /\ pc = "load"
    /\ ~(i < MaxLeases /\ CanRead(file, nread))
    /\ file' = write_leases(leases, staticACKed, clock)
    /\ timeout_end' = AutoEnd(clock)
    /\ pc' = "serve" /\ nread' = 0 /\ i' = 0
    /\ UNCHANGED <<leases, staticACKed, clock, in, out>>

\* SIGTERM (exit_server writes nothing) or a crash, and the next start.
Restart ==
    /\ StartState
    /\ UNCHANGED <<file, clock>>

\* The same with a reboot of the machine: the uptime starts again, and a lease
\* file in memory is gone.
Reboot ==
    /\ StartState
    /\ clock' = 0
    /\ file' = IF FileKept THEN file ELSE NoFile

-----------------------------------------------------------------------------
(* The message loop.                                                       *)

\* tv_sec = timeout_end - get_uptime(), a signed number.
TimedOut ==
    /\ AutoTime # 0
    /\ LET d == (timeout_end - clock) % Word IN d = 0 \/ 2 * d >= Word

Serving == pc = "serve" /\ ~TimedOut

\* The automatic write.
AutoWrite ==
    /\ pc = "serve" /\ TimedOut
    /\ file' = write_leases(leases, staticACKed, clock)
    /\ timeout_end' = AutoEnd(clock)
    /\ in' = NoPacket /\ out' = NoReply
    /\ UNCHANGED <<leases, staticACKed, clock, loading>>

\* SIGUSR1: the timeout is set from time(0), the time since the epoch.
Usr1 ==
    /\ Serving
    /\ file' = write_leases(leases, staticACKed, clock)
    /\ timeout_end' = AutoEnd(Epoch + clock)
    /\ in' = NoPacket /\ out' = NoReply
    /\ UNCHANGED <<leases, staticACKed, clock, loading>>

\* A packet of client c arrives; ciaddr is the address that the client says it
\* has (only a renewing client fills it in).
Receive(c, ciaddr) ==
    /\ Serving
    /\ in' = [chaddr |-> c, ciaddr |-> ciaddr]
    /\ UNCHANGED <<timeout_end, clock, loading>>

IsStatic(c) == find_static_lease_by_chaddr(c) # {}

\* The address of the record that main() finds for client c: its static lease
\* or its entry of the table.  The set is empty when there is no record.
RecordedAddr(c) ==
    IF IsStatic(c)
    THEN {StaticLeases[k].yiaddr : k \in find_static_lease_by_chaddr(c)}
    ELSE {leases[s].yiaddr : s \in find_lease_by_chaddr(leases, c)}

NoOption == -1

\* The lease time of an OFFER; own is the client's slot, before add_lease.
OfferLease(own, option) ==
    LET left == IF \E s \in own : ~lease_expired(leases[s], clock)
                THEN CHOOSE t \in {leases[s].expires - clock : s \in own} : TRUE
                ELSE ServerLease
        secs == IF option = NoOption THEN left
                ELSE IF option > ServerLease THEN ServerLease ELSE option
    IN  IF secs <= MinLease THEN ServerLease ELSE secs

\* The lease time of an ACK to a dynamic client.
AckLease(option) ==
    IF option = NoOption \/ option < MinLease
       \/ (option # Infinite /\ option > ServerLease)
    THEN ServerLease ELSE option

\* The address that sendOffer chooses: the client's own, the one it asks for
\* (without an ARP check), a fresh one, an expired one.
OfferAddr(own, req, busy) ==
    LET kept == {leases[s].yiaddr : s \in own} \ {None}
        wish == {a \in {req} :
                    /\ a \in Start..End
                    /\ find_static_lease_by_yiaddr(a) = {}
                    /\ \A s \in find_lease_by_yiaddr(leases, a) :
                          lease_expired(leases[s], clock)}
        new == find_address(leases, FALSE, clock, busy)
    IN  IF kept # {} THEN CHOOSE a \in kept : TRUE
        ELSE IF own = {} /\ wish # {} THEN req
        ELSE IF new # None THEN new
        ELSE find_address(leases, TRUE, clock, busy)

\* DHCPDISCOVER: sendOffer.
Discover(c, req, option, busy) ==
    /\ Receive(c, None)
    /\ \/ /\ IsStatic(c)
          /\ \E a \in RecordedAddr(c) :
               out' = [type |-> "OFFER", yiaddr |-> a, lease |-> Infinite]
          /\ UNCHANGED leases
       \/ /\ ~IsStatic(c)
          /\ LET own == find_lease_by_chaddr(leases, c)
                 a == OfferAddr(own, req, busy)
             IN IF a = None THEN out' = NoReply /\ UNCHANGED leases
                ELSE /\ leases' = add_lease(leases, c, a, OfferTime, clock, FALSE)
                     /\ out' = IF add_lease_fails(leases, c, a, clock) THEN NoReply
                               ELSE [type |-> "OFFER", yiaddr |-> a,
                                     lease |-> OfferLease(own, option)]
    /\ UNCHANGED <<staticACKed, file>>

\* Mutant: the lease is entered in the table for the time of an offer.
sendACKAsOffer(c, a, option) ==
    /\ out' = [type |-> "ACK", yiaddr |-> a, lease |-> AckLease(option)]
    /\ leases' = add_lease(leases, c, a, OfferTime, clock, TRUE)
    /\ UNCHANGED <<file, staticACKed>>
\* sendACK(packet, a).  If send_packet fails nothing is recorded.
sendACK(c, a, option) ==
    \/ /\ IsStatic(c)
       /\ out' = [type |-> "ACK", yiaddr |-> a, lease |-> Infinite]
       /\ staticACKed' = staticACKed \cup find_static_lease_by_chaddr(c)
       /\ UNCHANGED <<leases, file>>
    \/ /\ ~IsStatic(c)
       /\ out' = [type |-> "ACK", yiaddr |-> a, lease |-> AckLease(option)]
       /\ leases' = add_lease(leases, c, a, AckLease(option), clock, TRUE)
       /\ file' = write_leases(leases', staticACKed, clock)
       /\ UNCHANGED staticACKed
    \/ /\ out' = NoReply
       /\ UNCHANGED <<leases, file, staticACKed>>

sendNAK ==
    /\ out' = [type |-> "NAK", yiaddr |-> None, lease |-> 0]
    /\ UNCHANGED <<leases, file, staticACKed>>

silent ==
    /\ out' = NoReply
    /\ UNCHANGED <<leases, file, staticACKed>>

\* DHCPREQUEST with a server identifier (SELECTING); ours says whether it is
\* this server's.  Another server's choice and an unknown client get no answer.
Select(c, ours, req, option) ==
    /\ Receive(c, None)
    /\ IF ours /\ req # None /\ req \in RecordedAddr(c)
       THEN sendACK(c, req, option) ELSE silent

\* valid_ip
valid_ip(a) == a \in Start..End /\ a \notin LastByte /\ a # Server

\* DHCPREQUEST with a requested address and no server identifier (INIT-REBOOT).
InitReboot(c, req, option, busy) ==
    /\ Receive(c, None)
    /\ LET taken == find_lease_by_yiaddr(leases, req) IN
       \/ /\ req \in RecordedAddr(c)
          /\ sendACK(c, req, option)
       \/ /\ RecordedAddr(c) # {} /\ req \notin RecordedAddr(c)
          /\ sendNAK
       \/ /\ RecordedAddr(c) = {} /\ taken # {}
          /\ IF \E s \in taken : lease_expired(leases[s], clock)
             THEN /\ leases' = [s \in Slots |->
                                  IF s \in taken THEN [leases[s] EXCEPT !.chaddr = Blank]
                                  ELSE leases[s]]
                  /\ out' = NoReply
                  /\ UNCHANGED <<file, staticACKed>>
             ELSE sendNAK
       \/ /\ RecordedAddr(c) = {} /\ taken = {}
          /\ IF valid_ip(req) /\ req \notin busy
             THEN sendACK(c, req, option) ELSE sendNAK

\* Mutant: the comparison with the recorded address is inverted.
RenewInverted(c, ciaddr, option) ==
    /\ Receive(c, ciaddr)
    /\ IF \/ RecordedAddr(c) # {} /\ ciaddr \notin RecordedAddr(c)
          \/ RecordedAddr(c) = {} /\ ciaddr # None /\ valid_ip(ciaddr)
       THEN sendACK(c, ciaddr, option) ELSE sendNAK
\* DHCPREQUEST with neither (RENEWING or REBINDING).  An unknown client keeps
\* any valid address; the table is not asked whether it is another's.
Renew(c, ciaddr, option) ==
    /\ Receive(c, ciaddr)
    /\ IF \/ ciaddr \in RecordedAddr(c)
          \/ RecordedAddr(c) = {} /\ ciaddr # None /\ valid_ip(ciaddr)
       THEN sendACK(c, ciaddr, option) ELSE sendNAK

\* DHCPDECLINE: the address of a dynamic lease is kept from everyone.
Decline(c) ==
    /\ Receive(c, None)
    /\ leases' = [s \in Slots |->
                    IF ~IsStatic(c) /\ s \in find_lease_by_chaddr(leases, c)
                    THEN [leases[s] EXCEPT !.chaddr = Blank,
                                           !.expires = (clock + DeclineTime) % Word]
                    ELSE leases[s]]
    /\ out' = NoReply
    /\ UNCHANGED <<file, staticACKed>>

\* Mutant: a released lease expires one second ago.
ReleasePast(c) ==
    /\ Receive(c, None)
    /\ leases' = [s \in Slots |->
                    IF ~IsStatic(c) /\ s \in find_lease_by_chaddr(leases, c)
                    THEN [leases[s] EXCEPT !.expires = clock - 1]
                    ELSE leases[s]]
    /\ UNCHANGED <<staticACKed, file>>
    /\ out' = NoReply

\* DHCPRELEASE
Release(c) ==
    /\ Receive(c, None)
    /\ leases' = [s \in Slots |->
                    IF ~IsStatic(c) /\ s \in find_lease_by_chaddr(leases, c)
                    THEN [leases[s] EXCEPT !.expires = clock % Word]
                    ELSE leases[s]]
    /\ staticACKed' = staticACKed \ find_static_lease_by_chaddr(c)
    /\ file' = IF RecordedAddr(c) # {}
               THEN write_leases(leases', staticACKed', clock) ELSE file
    /\ out' = NoReply

\* DHCPINFORM: configuration only.
Inform(c) ==
    /\ Receive(c, None)
    /\ out' = [type |-> "INFORM", yiaddr |-> None, lease |-> 0]
    /\ UNCHANGED <<leases, file, staticACKed>>

Tick ==
    /\ clock < MaxTime
    /\ clock' = clock + 1
    /\ in' = NoPacket /\ out' = NoReply
    /\ UNCHANGED <<leases, staticACKed, file, timeout_end, loading>>

Packet(c) ==
    \/ \E req \in Asked \cup {None}, option \in LeaseOption \cup {NoOption} :
         \/ \E busy \in SUBSET Neighbours : Discover(c, req, option, busy)
         \/ \E ours \in BOOLEAN : Select(c, ours, req, option)
         \/ Renew(c, req, option)
    \/ \E req \in Asked, option \in LeaseOption \cup {NoOption},
          busy \in SUBSET Neighbours : InitReboot(c, req, option, busy)
    \/ Decline(c) \/ Release(c) \/ Inform(c)

Next ==
    \/ ReadRecord \/ FinishLoad \/ Restart \/ Reboot
    \/ AutoWrite \/ Usr1
    \/ \E c \in Client : Packet(c)
    \/ Tick

Spec == Init /\ [][Next]_vars

-----------------------------------------------------------------------------
(* Properties.                                                             *)

\* Types; in particular no expiry time or lease time leaves the range of
\* u_int32_t (RELEASE, DECLINE, the lease file and the replies compute them).
TypeOK ==
    /\ leases \in [Slots -> Lease]
    /\ staticACKed \subseteq StaticSlots
    /\ file \in [Place -> Record]
    /\ timeout_end \in 0..(Word - 1)
    /\ clock \in Nat
    /\ pc \in {"load", "serve"} /\ nread \in Nat /\ i \in Nat
    /\ in.chaddr \in Client \cup {Blank} /\ in.ciaddr \in Nat
    /\ out.type \in {"none", "OFFER", "ACK", "NAK", "INFORM"}
    /\ out.yiaddr \in Nat /\ out.lease \in 0..(Word - 1)

\* No two entries of the table have the same address or the same client, an
\* entry with a client has an address, and no entry is a static client's: each
\* find_lease_by_xxx has one answer at most, whatever sequence of packets,
\* expiries and restarts has filled the table.
OneAddress(T) ==
    \A s, t \in Slots : T[s].yiaddr = T[t].yiaddr => s = t \/ T[s].yiaddr = None
OneClient(T) ==
    \A s, t \in Slots : T[s].chaddr = T[t].chaddr => s = t \/ T[s].chaddr = Blank
Bound(T) ==
    \A s \in Slots : T[s].chaddr # Blank =>
        T[s].yiaddr # None /\ ~IsStatic(T[s].chaddr)
Consistent(T) == OneAddress(T) /\ OneClient(T) /\ Bound(T)
TableConsistent == Consistent(leases)

\* The table still reserves what slot s reserves.
Kept(s) ==
    \E t \in Slots : /\ leases'[t].chaddr = leases[s].chaddr
                     /\ leases'[t].yiaddr = leases[s].yiaddr
                     /\ leases'[t].expires = leases[s].expires

Live(s) == leases[s].yiaddr # None /\ ~lease_expired(leases[s], clock)

\* An unexpired entry of the table (offered, leased or declined) is left alone
\* by every packet of another client, except by the REQUEST of an unknown
\* client that says it already uses the address.
LeftAlone ==
    pc = "serve" /\ pc' = "serve" =>
        \A s \in Slots : Live(s) =>
            \/ Kept(s)
            \/ in'.chaddr = leases[s].chaddr
            \/ /\ in'.ciaddr = leases[s].yiaddr
               /\ RecordedAddr(in'.chaddr) = {}
ReservedUnlessClaimed == [][LeftAlone]_vars

\* The documented form: an offered address is reserved for offer_time seconds,
\* a leased one for its lease time; another client's packet does not end that.
Reserved ==
    [][pc = "serve" /\ pc' = "serve" =>
        \A s \in Slots : Live(s) => Kept(s) \/ in'.chaddr = leases[s].chaddr]_vars

\* What a client has just been told is what the table says: an OFFER is
\* reserved for offer_time, an ACK is recorded for the time that the ACK
\* grants unless the table is full of unexpired entries, and a static client
\* is only told its own address.
ReplyBacked ==
    out.type \in {"OFFER", "ACK"} =>
        \/ /\ IsStatic(in.chaddr)
           /\ out.yiaddr \in RecordedAddr(in.chaddr)
        \/ /\ ~IsStatic(in.chaddr)
           /\ \/ \E s \in Slots :
                   /\ leases[s].chaddr = in.chaddr /\ leases[s].yiaddr = out.yiaddr
                   /\ \/ out.type = "OFFER" /\ leases[s].expires = clock + OfferTime
                      \/ out.type = "ACK" /\ leases[s].ACKed
                                          /\ leases[s].expires = clock + out.lease
              \/ out.type = "ACK" /\ \A s \in Slots : ~lease_expired(leases[s], clock)

\* No entry outlives the longest term that the configuration allows, counted
\* from now: restarts, reboots and the lease file do not prolong a lease
\* beyond it.  The file stores what is left of a lease, or uptimes of a machine
\* whose reboot clears it.
LeaseHorizon ==
    \A s \in Slots :
        \E term \in {ServerLease, OfferTime, DeclineTime} :
            leases[s].expires <= clock + term

\* Every lease that was granted and has more than offer_time to go is in the
\* lease file, with at least the time it has left, whenever the server may stop.
\* (read_leases gives a lease with an absolute time that ended one second ago a
\* new term, so with such times the file is up to date when it is written again.)
FileCovers ==
    FileOpens /\ (Remaining \/ pc = "serve") => \A s \in Slots :
        /\ leases[s].ACKed /\ leases[s].chaddr # Blank
        /\ leases[s].expires > clock + OfferTime
        => \E p \in Written(file) :
              /\ file[p].chaddr = leases[s].chaddr
              /\ file[p].yiaddr = leases[s].yiaddr
              /\ file[p].time >= IF Remaining THEN leases[s].expires - clock
                                 ELSE leases[s].expires

\* A restart gives back every lease of the file that is not in conflict with
\* the static leases.
RestartRestores ==
    [][pc = "load" /\ pc' = "serve" =>
        \A p \in Written(file) :
            /\ file[p].yiaddr \in Start..End
            /\ \A k \in StaticSlots : /\ StaticLeases[k].chaddr # file[p].chaddr
                                      /\ StaticLeases[k].yiaddr # file[p].yiaddr
            => \E s \in Slots : /\ leases'[s].chaddr = file[p].chaddr
                                /\ leases'[s].yiaddr = file[p].yiaddr]_vars

=============================================================================
