-------------------------- MODULE DhcpdLeaseProofs --------------------------
(***************************************************************************)
(* Dhcpd for any number of clients, addresses, table entries and static    *)
(* leases, second part: what the table records is what the clients have    *)
(* been told, the lease file holds every lease that was granted, and       *)
(* neither the file nor a restart prolongs a lease.                        *)
(***************************************************************************)
EXTENDS DhcpdProofs

-----------------------------------------------------------------------------
(* What add_lease does to the table.                                       *)

\* A nonempty set of numbers below a bound has a greatest member.
LEMMA GreatestNat ==
    ASSUME NEW n \in Nat, NEW S, S \subseteq 1..n, S # {}
    PROVE  \E m \in S : \A x \in S : x <= m
  <1> DEFINE D == {n - x : x \in S}
  <1>1. D \subseteq Nat /\ D # {}
    <2>1. \A x \in S : n - x \in Nat
      OBVIOUS
    <2>2. \A d \in D : d \in Nat
      BY <2>1, Zenon
    <2>3. PICK x \in S : TRUE
      OBVIOUS
    <2>4. n - x \in D
      BY Zenon
    <2> QED BY <2>2, <2>4, Zenon
  <1>2. PICK d \in D : \A x \in D : d <= x
    <2> HIDE DEF D
    <2> QED BY <1>1, LeastNat
  <1>3. PICK m \in S : d = n - m
    BY <1>2
  <1>4. ASSUME NEW x \in S  PROVE x <= m
    <2>1. n - x \in D
      OBVIOUS
    <2>2. n - m <= n - x
      BY <1>2, <1>3, <2>1
    <2>3. m \in Nat /\ x \in Nat
      OBVIOUS
    <2> QED BY <2>2, <2>3
  <1> QED BY <1>4

\* The scan finds an entry whenever there is an expired one.
LEMMA OldestExists ==
    ASSUME NEW T \in Table, NEW now \in Nat, NEW s \in Slots, lease_expired(T[s], now)
    PROVE  oldest_expired_lease(T, now) # {}
  <1> DEFINE old == {x \in Slots : lease_expired(T[x], now)}
             times == {T[x].expires : x \in old}
  <1>1. \A x \in Slots : T[x].expires \in Nat
    BY TableAssumption DEF Table, Lease
  <1>2. times \subseteq Nat /\ times # {}
    BY <1>1
  <1>3. PICK t \in times : \A u \in times : t <= u
    <2> HIDE DEF times
    <2> QED BY <1>2, LeastNat
  <1> DEFINE last == {x \in old : T[x].expires = t}
  <1>4. last \subseteq 1..MaxLeases /\ last # {}
    BY <1>3 DEF Slots
  <1>5. PICK m \in last : \A x \in last : x <= m
    <2> HIDE DEF last
    <2> QED BY <1>4, GreatestNat, TableAssumption
  <1>6. ASSUME NEW j \in Slots, lease_expired(T[j], now)
        PROVE  T[m].expires < T[j].expires \/ (T[m].expires = T[j].expires /\ j <= m)
    <2>1. T[j].expires \in times /\ t <= T[j].expires
      BY <1>3, <1>6
    <2>2. CASE T[j].expires = t
      BY <1>5, <1>6, <2>2
    <2>3. CASE T[j].expires # t
      BY <1>1, <1>2, <1>5, <2>1, <2>3
    <2> QED BY <2>2, <2>3
  <1>7. m \in oldest_expired_lease(T, now)
    BY <1>5, <1>6, Zenon DEF oldest_expired_lease
  <1> QED BY <1>7

\* Entry e is a lease of client c for address a, given at the uptime now for
\* secs seconds.
Entered(e, c, a, secs, now) ==
    e.chaddr = c /\ e.yiaddr = a /\ e.expires = (now + secs) % Word

\* Each slot that add_lease leaves is the new lease, cleared, or an entry of
\* another client and another address; and either the new lease is there or
\* the table was full of unexpired entries and is as it was.
LEMMA AddLeaseEntry ==
    ASSUME NEW T \in Table, NEW c \in Owner, NEW a \in Addr, NEW secs \in Nat,
           NEW now \in Nat, NEW ack \in BOOLEAN
    PROVE  LET U == add_lease(T, c, a, secs, now, ack)
           IN  /\ \A s \in Slots :
                    \/ Entered(U[s], c, a, secs, now) /\ (ack => U[s].ACKed)
                    \/ U[s] = Zeroed
                    \/ U[s] = T[s] /\ T[s].yiaddr # a /\ (c # Blank => T[s].chaddr # c)
               /\ \/ /\ \E s \in Slots : Entered(U[s], c, a, secs, now) /\ (ack => U[s].ACKed)
                     /\ ~add_lease_fails(T, c, a, now)
                  \/ /\ \A s \in Slots : U[s] = T[s] /\ ~lease_expired(U[s], now)
                     /\ add_lease_fails(T, c, a, now)
  <1> DEFINE t == clear_lease(T, c, a)
             new == oldest_expired_lease(t, now)
             U == add_lease(T, c, a, secs, now, ack)
  <1>1. t \in Table
    BY ClearType
  <1>2. new \subseteq Slots
    BY DEF oldest_expired_lease
  <1>3. \A s \in Slots :
          \/ t[s] = Zeroed
          \/ t[s] = T[s] /\ T[s].yiaddr # a /\ (c # Blank => T[s].chaddr # c)
    BY DEF clear_lease, Addr, None
  <1>4. \A s \in Slots \ new : U[s] = t[s]
    BY Zenon DEF add_lease
  <1>5. ASSUME NEW s \in new
        PROVE  Entered(U[s], c, a, secs, now) /\ (ack => U[s].ACKed)
    <2> DEFINE acked == ack \/ t[s].ACKed
               due == (now + secs) % Word
    <2>1. U[s] = [chaddr |-> c, yiaddr |-> a, expires |-> due, ACKed |-> acked]
      BY <1>2, <1>5, Zenon DEF add_lease
    <2>2. ack => acked
      OBVIOUS
    <2> HIDE DEF t, new, U, acked, due
    <2> QED BY <2>1, <2>2 DEF Entered, due
  <1>6. add_lease_fails(T, c, a, now) <=> new = {}
    BY DEF add_lease_fails
  <1>7. ASSUME new = {}, NEW s \in Slots
        PROVE  U[s] = T[s] /\ ~lease_expired(U[s], now)
    <2>1. U[s] = t[s]
      BY <1>4, <1>7
    <2>2. ~lease_expired(t[s], now)
      <3> HIDE DEF t
      <3> QED BY <1>1, <1>7, OldestExists
    <2>3. t[s] # Zeroed
      BY <2>2 DEF Zeroed, lease_expired
    <2> HIDE DEF t, new, U
    <2> QED BY <1>3, <2>1, <2>2, <2>3
  <1> HIDE DEF t, new, U
  <1>8. \A s \in Slots :
          \/ Entered(U[s], c, a, secs, now) /\ (ack => U[s].ACKed)
          \/ U[s] = Zeroed
          \/ U[s] = T[s] /\ T[s].yiaddr # a /\ (c # Blank => T[s].chaddr # c)
    BY <1>3, <1>4, <1>5, Zenon
  <1>9. \/ /\ \E s \in Slots : Entered(U[s], c, a, secs, now) /\ (ack => U[s].ACKed)
           /\ ~add_lease_fails(T, c, a, now)
        \/ /\ \A s \in Slots : U[s] = T[s] /\ ~lease_expired(U[s], now)
           /\ add_lease_fails(T, c, a, now)
    BY <1>2, <1>5, <1>6, <1>7, Zenon
  <1> QED BY <1>8, <1>9, Zenon DEF U

\* The same for one slot.
LEMMA AddLeaseOne ==
    ASSUME NEW T \in Table, NEW c \in Owner, NEW a \in Addr, NEW secs \in Nat,
           NEW now \in Nat, NEW ack \in BOOLEAN, NEW s \in Slots
    PROVE  \/ Entered(add_lease(T, c, a, secs, now, ack)[s], c, a, secs, now)
           \/ add_lease(T, c, a, secs, now, ack)[s] = Zeroed
           \/ add_lease(T, c, a, secs, now, ack)[s] = T[s]
  <1>1. \/ Entered(add_lease(T, c, a, secs, now, ack)[s], c, a, secs, now)
        \/ add_lease(T, c, a, secs, now, ack)[s] = Zeroed
        \/ /\ add_lease(T, c, a, secs, now, ack)[s] = T[s] /\ T[s].yiaddr # a
           /\ c # Blank => T[s].chaddr # c
    BY AddLeaseEntry, SMT
  <1> QED BY <1>1

-----------------------------------------------------------------------------
(* What a client is told is what the table says.                           *)

\* No expiry time wraps around 2^32: the uptime and the configured times are
\* small, and no client asks for the infinite lease (AckLease grants it, and
\* add_lease then stores an expiry time that lies one second in the past).
NoWrap ==
    /\ MaxTime + ServerLease < Word /\ MaxTime + OfferTime < Word
    /\ Infinite \notin LeaseOption

\* The inductive invariant: while the file is read nobody has been answered.
ReplyInv ==
    /\ Inv /\ ReplyBacked
    /\ clock <= MaxTime
    /\ pc = "load" => out.type = "none"

\* A sum that does not reach 2^32 is its own remainder.
LEMMA NoRemainder == \A x \in Nat : x < Word => x % Word = x
  BY TableAssumption

\* Without the infinite lease, no ACK grants more than the configured time.
LEMMA AckLeaseBound ==
    ASSUME Infinite \notin LeaseOption, NEW option \in LeaseOption \cup {NoOption}
    PROVE  AckLease(option) \in 0..ServerLease
  <1>1. ServerLease \in Nat /\ MinLease \in Nat /\ LeaseOption \subseteq Nat
    BY ConfigAssumption, TableAssumption
  <1>2. CASE option = NoOption
    BY <1>1, <1>2 DEF AckLease
  <1>3. CASE option \in LeaseOption
    BY <1>1, <1>3 DEF AckLease
  <1> QED BY <1>2, <1>3

\* A reply that promises nothing needs no entry.
LEMMA NothingPromised ==
    ASSUME out'.type \notin {"OFFER", "ACK"}
    PROVE  ReplyBacked'
  BY DEF ReplyBacked

\* A static client is told its own address.
LEMMA StaticBacked ==
    ASSUME NEW c \in Client, IsStatic(c), NEW a \in RecordedAddr(c),
           in'.chaddr = c, out'.yiaddr = a
    PROVE  ReplyBacked'
  <1>1. (IsStatic(in.chaddr) /\ out.yiaddr \in RecordedAddr(in.chaddr))'
    BY DEF RecordedAddr
  <1> QED BY <1>1 DEF ReplyBacked

\* sendACK: a static client is told its own address, the lease of another is in
\* the table for the time of the ACK, or the table is full.
LEMMA AckBacked ==
    ASSUME Inv, NoWrap, clock <= MaxTime, clock' = clock,
           NEW c \in Client, NEW a \in Addr, NEW option \in LeaseOption \cup {NoOption},
           sendACK(c, a, option), in'.chaddr = c, IsStatic(c) => a \in RecordedAddr(c)
    PROVE  ReplyBacked'
  <1>1. CASE /\ IsStatic(c)
             /\ out' = [type |-> "ACK", yiaddr |-> a, lease |-> Infinite]
    BY <1>1, StaticBacked
  <1>2. CASE /\ ~IsStatic(c)
             /\ out' = [type |-> "ACK", yiaddr |-> a, lease |-> AckLease(option)]
             /\ leases' = add_lease(leases, c, a, AckLease(option), clock, TRUE)
    <2> DEFINE secs == AckLease(option)
    <2>1. secs \in 0..ServerLease
      BY AckLeaseBound DEF NoWrap
    <2>2. ServerLease \in Nat /\ MaxTime \in Nat /\ clock \in Nat /\ Word \in Nat
      BY ConfigAssumption, TableAssumption, InvParts
    <2> HIDE DEF secs
    <2>3. secs \in Nat /\ clock + secs \in Nat /\ clock + secs < Word
      BY <2>1, <2>2 DEF NoWrap
    <2>4. (clock + secs) % Word = clock + secs
      BY <2>3, NoRemainder
    <2>5. /\ out'.type = "ACK" /\ out'.yiaddr = a /\ out'.lease = secs
      BY <1>2 DEF secs
    <2>6. \/ \E s \in Slots : Entered(leases'[s], c, a, secs, clock) /\ leases'[s].ACKed
          \/ \A s \in Slots : ~lease_expired(leases'[s], clock)
      BY <1>2, <2>3, InvParts, AddLeaseEntry DEF secs, Owner
    <2>7. /\ (~IsStatic(in.chaddr))'
      BY <1>2
    <2>8. CASE \E s \in Slots : Entered(leases'[s], c, a, secs, clock) /\ leases'[s].ACKed
      BY <2>4, <2>5, <2>7, <2>8 DEF ReplyBacked, Entered
    <2>9. CASE \A s \in Slots : ~lease_expired(leases'[s], clock)
      BY <2>5, <2>7, <2>9 DEF ReplyBacked, lease_expired
    <2> QED BY <2>6, <2>8, <2>9
  <1>3. CASE out' = NoReply
    BY <1>3, NothingPromised DEF NoReply
  <1> QED BY <1>1, <1>2, <1>3, Zenon DEF sendACK

\* A static client always has a record.
LEMMA StaticRecorded ==
    ASSUME NEW c, IsStatic(c)
    PROVE  RecordedAddr(c) # {}
  BY DEF IsStatic, RecordedAddr

\* DHCPDISCOVER: what is offered is in the table for the time of an offer.
LEMMA OfferBacked ==
    ASSUME Inv, NoWrap, clock <= MaxTime, NEW c \in Client, NEW req \in Nat,
           NEW option, NEW busy, Discover(c, req, option, busy)
    PROVE  ReplyBacked'
  <1> DEFINE own == find_lease_by_chaddr(leases, c)
             a == OfferAddr(own, req, busy)
             term == OfferLease(own, option)
  <1>1. in'.chaddr = c /\ clock' = clock
    BY DEF Discover, Receive
  <1>2. CASE IsStatic(c)
    <2>1. PICK b \in RecordedAddr(c) :
            out' = [type |-> "OFFER", yiaddr |-> b, lease |-> Infinite]
      BY <1>2, Zenon DEF Discover
    <2> QED BY <1>1, <1>2, <2>1, StaticBacked
  <1>3. CASE ~IsStatic(c) /\ out' = NoReply
    BY <1>3, NothingPromised DEF NoReply
  <1>4. CASE /\ ~IsStatic(c) /\ a # None
             /\ leases' = add_lease(leases, c, a, OfferTime, clock, FALSE)
             /\ ~add_lease_fails(leases, c, a, clock)
             /\ out' = [type |-> "OFFER", yiaddr |-> a, lease |-> term]
    <2>1. a \in Addr
      BY <1>4, OfferAddrFree
    <2>2. OfferTime \in Nat /\ MaxTime \in Nat /\ clock \in Nat /\ Word \in Nat
      BY ConfigAssumption, TableAssumption, InvParts
    <2>3. (clock + OfferTime) % Word = clock + OfferTime
      BY <2>2, NoRemainder DEF NoWrap
    <2> HIDE DEF own, a, term
    <2>4. PICK s \in Slots : Entered(leases'[s], c, a, OfferTime, clock)
      BY <1>4, <2>1, <2>2, InvParts, AddLeaseEntry DEF Owner
    <2>5. out'.type = "OFFER" /\ out'.yiaddr = a
      BY <1>4
    <2>6. (~IsStatic(in.chaddr))'
      BY <1>1, <1>4
    <2> QED BY <1>1, <2>3, <2>4, <2>5, <2>6 DEF ReplyBacked, Entered
  <1>5. \/ IsStatic(c)
        \/ ~IsStatic(c) /\ out' = NoReply
        \/ /\ ~IsStatic(c) /\ a # None
           /\ leases' = add_lease(leases, c, a, OfferTime, clock, FALSE)
           /\ ~add_lease_fails(leases, c, a, clock)
           /\ out' = [type |-> "OFFER", yiaddr |-> a, lease |-> term]
    BY Zenon DEF Discover
  <1> QED BY <1>2, <1>3, <1>4, <1>5, Zenon

\* Every packet is answered with what the table says.
LEMMA PacketBacked ==
    ASSUME Inv, NoWrap, clock <= MaxTime, NEW c \in Client, Packet(c)
    PROVE  ReplyBacked'
  <1>1. ASSUME NEW req \in Asked \cup {None}, NEW option \in LeaseOption \cup {NoOption},
               NEW busy, Discover(c, req, option, busy)
        PROVE  ReplyBacked'
    BY <1>1, AskedNat, OfferBacked
  <1>2. ASSUME sendNAK \/ silent \/ out' = NoReply  PROVE ReplyBacked'
    BY <1>2, NothingPromised DEF sendNAK, silent, NoReply
  <1>3. ASSUME NEW req \in Asked \cup {None}, NEW option \in LeaseOption \cup {NoOption},
               NEW ours, Select(c, ours, req, option)
        PROVE  ReplyBacked'
    <2>1. in'.chaddr = c /\ clock' = clock
      BY <1>3 DEF Select, Receive
    <2>2. CASE req # None /\ req \in RecordedAddr(c) /\ sendACK(c, req, option)
      BY <2>1, <2>2, AskedNat, AckBacked
    <2> QED BY <1>2, <1>3, <2>2 DEF Select
  <1>4. ASSUME NEW req \in Asked \cup {None}, NEW option \in LeaseOption \cup {NoOption},
               Renew(c, req, option)
        PROVE  ReplyBacked'
    <2>1. in'.chaddr = c /\ clock' = clock
      BY <1>4 DEF Renew, Receive
    <2>2. CASE /\ req \in RecordedAddr(c) \/ (RecordedAddr(c) = {} /\ req # None)
               /\ sendACK(c, req, option)
      <3>1. req # None
        BY <2>2, RecordedNotNone
      <3> QED BY <2>1, <2>2, <3>1, AskedNat, AckBacked, StaticRecorded
    <2> QED BY <1>2, <1>4, <2>2 DEF Renew
  <1>5. ASSUME NEW req \in Asked, NEW option \in LeaseOption \cup {NoOption},
               NEW busy, InitReboot(c, req, option, busy)
        PROVE  ReplyBacked'
    <2>1. in'.chaddr = c /\ clock' = clock
      BY <1>5 DEF InitReboot, Receive
    <2>2. CASE /\ req \in RecordedAddr(c) \/ RecordedAddr(c) = {}
               /\ sendACK(c, req, option)
      BY <2>1, <2>2, AskedNat, AckBacked, StaticRecorded
    <2>3. \/ /\ req \in RecordedAddr(c) \/ RecordedAddr(c) = {}
             /\ sendACK(c, req, option)
          \/ sendNAK \/ out' = NoReply
      BY <1>5, Zenon DEF InitReboot
    <2> QED BY <1>2, <2>2, <2>3
  <1>6. ASSUME Decline(c) \/ Release(c) \/ Inform(c)  PROVE ReplyBacked'
    <2>1. \/ out' = NoReply \/ out' = [type |-> "INFORM", yiaddr |-> None, lease |-> 0]
      BY <1>6, Zenon DEF Decline, Release, Inform
    <2> QED BY <2>1, NothingPromised DEF NoReply
  <1> QED BY <1>1, <1>3, <1>4, <1>5, <1>6, Zenon DEF Packet

\* Every step keeps the invariant.
LEMMA ReplyStep ==
    ASSUME NoWrap
    PROVE  ReplyInv /\ [Next]_vars => ReplyInv'
  <1> SUFFICES ASSUME ReplyInv, [Next]_vars PROVE ReplyInv'
    OBVIOUS
  <1>1. Inv /\ Inv'
    BY Step DEF ReplyInv
  <1>2. clock \in Nat /\ MaxTime \in Nat /\ clock <= MaxTime
    BY <1>1, InvParts, ConfigAssumption DEF ReplyInv
  <1>3. ASSUME NEW c \in Client, Packet(c)
        PROVE  ReplyBacked' /\ clock' = clock /\ pc' # "load"
    <2>1. ReplyBacked'
      BY <1>1, <1>2, <1>3, PacketBacked
    <2>2. \E b : Receive(c, b)
      BY <1>3, Zenon DEF Packet, Discover, Select, Renew, InitReboot, Decline, Release, Inform
    <2>3. clock' = clock /\ pc' = "serve"
      BY <2>2 DEF Receive, Serving, loading
    <2> QED BY <2>1, <2>3
  <1>4. ASSUME Restart \/ Reboot \/ AutoWrite \/ Usr1 \/ Tick
        PROVE  ReplyBacked' /\ clock' <= MaxTime /\ out'.type = "none"
    <2>1. out'.type = "none"
      BY <1>4 DEF Restart, Reboot, StartState, AutoWrite, Usr1, Tick, NoReply
    <2>2. clock' <= MaxTime
      BY <1>2, <1>4 DEF Restart, Reboot, StartState, AutoWrite, Usr1, Tick
    <2> QED BY <2>1, <2>2, NothingPromised
  <1>5. ASSUME ReadRecord \/ FinishLoad
        PROVE  ReplyBacked' /\ clock' <= MaxTime /\ out'.type = "none"
    <2>1. out' = out /\ clock' = clock /\ out.type = "none"
      BY <1>5 DEF ReadRecord, FinishLoad, ReplyInv
    <2> QED BY <1>2, <2>1, NothingPromised
  <1>6. ASSUME UNCHANGED vars
        PROVE  ReplyBacked' /\ clock' = clock /\ (pc' = "load" => out'.type = "none")
    <2>1. /\ leases' = leases /\ in' = in /\ out' = out /\ clock' = clock /\ pc' = pc
      BY <1>6 DEF vars
    <2>2. RecordedAddr(in.chaddr)' = RecordedAddr(in.chaddr)
      BY <2>1 DEF RecordedAddr
    <2>3. ReplyBacked'
      BY <2>1, <2>2 DEF ReplyInv, ReplyBacked, lease_expired
    <2> QED BY <2>1, <2>3 DEF ReplyInv
  <1> QED BY <1>1, <1>2, <1>3, <1>4, <1>5, <1>6 DEF Next, ReplyInv

\* What a client has been told is what the table says: the OFFER is reserved
\* for offer_time, the ACK is recorded for the time that it grants, unless
\* the table is full of unexpired entries; as long as no time wraps.
THEOREM DhcpdReplies ==
    ASSUME NoWrap
    PROVE  Spec => []ReplyBacked
  <1>1. Init => ReplyInv
    <2> SUFFICES ASSUME Init PROVE ReplyInv
      OBVIOUS
    <2>1. Inv
      BY InitStep
    <2>2. clock = 0 /\ out.type = "none"
      BY DEF Init, NoReply
    <2> QED BY <2>1, <2>2, ConfigAssumption DEF ReplyInv, ReplyBacked
  <1>2. ReplyInv /\ [Next]_vars => ReplyInv'
    BY ReplyStep
  <1>3. ReplyInv => ReplyBacked
    BY DEF ReplyInv
  <1> QED BY <1>1, <1>2, <1>3, PTL DEF Spec

-----------------------------------------------------------------------------
(* The ways in which a step changes the table and the lease file.          *)

\* A start of the server: the table is empty, the file as it was, unless a
\* reboot has cleared it.
Cleared ==
    /\ leases' = [s \in Slots |-> Zeroed]
    /\ \/ file' = file /\ clock' = clock
       \/ file' = (IF FileKept THEN file ELSE NoFile) /\ clock' = 0

\* The record at place p is that of a static lease.
StaticRecordAt(p) ==
    \E k \in StaticSlots : file[p].yiaddr = StaticLeases[k].yiaddr

\* read_leases enters a record of the file again.
ReadIn ==
    /\ \E p \in Written(file) :
          /\ leases' = add_lease(leases, file[p].chaddr, file[p].yiaddr,
                                 LeaseRead(file[p].time, clock), clock, TRUE)
          /\ file[p].yiaddr \in Addr /\ ~StaticRecordAt(p)
    /\ file' = file /\ clock' = clock /\ pc' = "load"

\* The table is written to the file.
Saved ==
    /\ leases' = leases /\ clock' = clock
    /\ \E S \in SUBSET StaticSlots : file' = write_leases(leases, S, clock)

\* Neither is changed; time may pass.
Untouched ==
    leases' = leases /\ file' = file /\ clock' \in {clock, clock + 1} /\ pc' = pc

\* sendOffer reserves an address.
Offered ==
    /\ \E c \in Client, a \in Addr :
          leases' = add_lease(leases, c, a, OfferTime, clock, FALSE)
    /\ file' = file /\ clock' = clock /\ pc' = pc

\* sendACK records a lease and writes the file.
Granted ==
    /\ \E c \in Client, a \in Addr, option \in LeaseOption \cup {NoOption} :
          leases' = add_lease(leases, c, a, AckLease(option), clock, TRUE)
    /\ \E S \in SUBSET StaticSlots : file' = write_leases(leases', S, clock)
    /\ clock' = clock

\* Entries lose their client: DECLINE, and a request for an expired address.
Disowned ==
    /\ \A s \in Slots :
          \/ leases'[s] = leases[s]
          \/ /\ leases'[s].chaddr = Blank
             /\ \/ leases'[s].expires = leases[s].expires
                \/ leases'[s].expires = (clock + DeclineTime) % Word
    /\ file' = file /\ clock' = clock /\ pc' = pc

\* RELEASE ends leases now and writes the file.
Released ==
    /\ \A s \in Slots : leases'[s] = leases[s] \/ leases'[s].expires = clock % Word
    /\ \E S \in SUBSET StaticSlots : file' = write_leases(leases', S, clock)
    /\ clock' = clock

\* sendACK grants a lease or changes neither the table nor the file.
LEMMA AckChange ==
    ASSUME Inv, NEW c \in Client, NEW a \in Addr,
           NEW option \in LeaseOption \cup {NoOption}, sendACK(c, a, option),
           clock' = clock, pc' = pc
    PROVE  Untouched \/ Granted
  <1>1. staticACKed \in SUBSET StaticSlots
    BY InvParts
  <1>2. \/ leases' = leases /\ file' = file
        \/ /\ leases' = add_lease(leases, c, a, AckLease(option), clock, TRUE)
           /\ file' = write_leases(leases', staticACKed, clock)
    BY Zenon DEF sendACK
  <1>3. CASE leases' = leases /\ file' = file
    BY <1>3 DEF Untouched
  <1>4. CASE /\ leases' = add_lease(leases, c, a, AckLease(option), clock, TRUE)
             /\ file' = write_leases(leases', staticACKed, clock)
    BY <1>1, <1>4, Zenon DEF Granted
  <1> QED BY <1>2, <1>3, <1>4

\* Every packet changes the table and the file in one of these ways.
LEMMA PacketChange ==
    ASSUME Inv, NEW c \in Client, Packet(c)
    PROVE  Untouched \/ Offered \/ Granted \/ Disowned \/ Released
  <1>0. clock' = clock /\ pc' = pc
    <2>1. \E b : Receive(c, b)
      BY Zenon DEF Packet, Discover, Select, Renew, InitReboot, Decline, Release, Inform
    <2> QED BY <2>1 DEF Receive, loading
  <1>1. ASSUME NEW req \in Asked \cup {None}, NEW option \in LeaseOption \cup {NoOption},
               NEW busy, Discover(c, req, option, busy)
        PROVE  Untouched \/ Offered
    <2> DEFINE a == OfferAddr(find_lease_by_chaddr(leases, c), req, busy)
    <2>1. /\ \/ leases' = leases
             \/ a # None /\ leases' = add_lease(leases, c, a, OfferTime, clock, FALSE)
          /\ file' = file
      BY <1>1, Zenon DEF Discover
    <2>2. a # None => a \in Addr
      BY AskedNat, OfferAddrFree
    <2> HIDE DEF a
    <2> QED BY <1>0, <2>1, <2>2 DEF Untouched, Offered
  <1>2. ASSUME sendNAK \/ silent  PROVE Untouched
    BY <1>0, <1>2 DEF sendNAK, silent, Untouched
  <1>3. ASSUME NEW req \in Asked \cup {None}, NEW option \in LeaseOption \cup {NoOption},
               NEW ours, Select(c, ours, req, option)
        PROVE  Untouched \/ Granted
    <2>1. CASE req # None /\ sendACK(c, req, option)
      BY <1>0, <2>1, AskedNat, AckChange
    <2> QED BY <1>2, <1>3, <2>1 DEF Select
  <1>4. ASSUME NEW req \in Asked \cup {None}, NEW option \in LeaseOption \cup {NoOption},
               Renew(c, req, option)
        PROVE  Untouched \/ Granted
    <2>1. CASE req # None /\ sendACK(c, req, option)
      BY <1>0, <2>1, AskedNat, AckChange
    <2>2. CASE sendNAK
      BY <1>2, <2>2
    <2> QED BY <1>4, <2>1, <2>2, RecordedNotNone DEF Renew
  <1>5. ASSUME NEW req \in Asked, NEW option \in LeaseOption \cup {NoOption},
               NEW busy, InitReboot(c, req, option, busy)
        PROVE  Untouched \/ Granted \/ Disowned
    <2> DEFINE taken == find_lease_by_yiaddr(leases, req)
               U == [s \in Slots |->
                       IF s \in taken THEN [leases[s] EXCEPT !.chaddr = Blank] ELSE leases[s]]
    <2>1. \/ sendACK(c, req, option) \/ sendNAK
          \/ leases' = U /\ file' = file
      BY <1>5, Zenon DEF InitReboot
    <2>2. ASSUME leases' = U, file' = file  PROVE Disowned
      <3>1. ASSUME NEW s \in Slots
            PROVE  \/ leases'[s] = leases[s]
                   \/ leases'[s].chaddr = Blank /\ leases'[s].expires = leases[s].expires
        <4>1. \/ leases'[s] = leases[s]
              \/ leases'[s] = [leases[s] EXCEPT !.chaddr = Blank]
          BY <2>2
        <4> QED BY <4>1, InvParts DEF Table, Lease
      <3> QED BY <1>0, <2>2, <3>1 DEF Disowned
    <2>3. ASSUME sendACK(c, req, option)  PROVE Untouched \/ Granted
      BY <1>0, <2>3, AskedNat, AckChange
    <2> QED BY <1>2, <2>1, <2>2, <2>3
  <1>6. ASSUME Decline(c)  PROVE Disowned
    <2> DEFINE late == (clock + DeclineTime) % Word
    <2>1. \A s \in Slots : \/ leases'[s] = leases[s]
                           \/ leases'[s] = [leases[s] EXCEPT !.chaddr = Blank, !.expires = late]
      BY <1>6, Zenon DEF Decline
    <2>2. \A s \in Slots : \/ leases'[s] = leases[s]
                           \/ leases'[s].chaddr = Blank /\ leases'[s].expires = late
      <3> HIDE DEF late
      <3> QED BY <2>1, InvParts DEF Table, Lease
    <2>3. file' = file
      BY <1>6 DEF Decline
    <2> QED BY <1>0, <2>2, <2>3 DEF Disowned
  <1>7. ASSUME Release(c)  PROVE Untouched \/ Released
    <2> DEFINE now == clock % Word
               mine(s) == ~IsStatic(c) /\ s \in find_lease_by_chaddr(leases, c)
    <2>1. leases' = [s \in Slots |-> IF mine(s) THEN [leases[s] EXCEPT !.expires = now]
                                     ELSE leases[s]]
      BY <1>7, Zenon DEF Release
    <2>2. CASE RecordedAddr(c) # {}
      <3>1. file' = write_leases(leases', staticACKed', clock)
        BY <1>7, <2>2, Zenon DEF Release
      <3>2. staticACKed' \in SUBSET StaticSlots
        BY <1>7, InvParts DEF Release
      <3>3. \A s \in Slots : leases'[s] = leases[s]
               \/ leases'[s] = [leases[s] EXCEPT !.expires = now]
        BY <2>1, Zenon
      <3>4. \A s \in Slots : leases'[s] = leases[s] \/ leases'[s].expires = now
        <4> HIDE DEF now
        <4> QED BY <3>3, InvParts DEF Table, Lease
      <3> QED BY <1>0, <3>1, <3>2, <3>4, Zenon DEF Released
    <2>3. CASE RecordedAddr(c) = {}
      <3>1. file' = file
        BY <1>7, <2>3, Zenon DEF Release
      <3>2. \A s \in Slots : ~mine(s)
        BY <2>3 DEF RecordedAddr
      <3>3. leases' = [s \in Slots |-> leases[s]]
        <4> HIDE DEF mine
        <4> QED BY <2>1, <3>2
      <3>4. leases' = leases
        BY <3>3, InvParts DEF Table
      <3> QED BY <1>0, <3>1, <3>4 DEF Untouched
    <2> QED BY <2>2, <2>3
  <1>8. ASSUME Inform(c)  PROVE Untouched
    BY <1>0, <1>8 DEF Inform, Untouched
  <1> QED BY <1>1, <1>3, <1>4, <1>5, <1>6, <1>7, <1>8, Zenon DEF Packet

\* So does every other step.
LEMMA OtherChange ==
    ASSUME Inv,
           ReadRecord \/ FinishLoad \/ Restart \/ Reboot \/ AutoWrite \/ Usr1 \/ Tick
    PROVE  Cleared \/ ReadIn \/ Saved \/ Untouched
  <1>1. CASE ReadRecord
    <2>1. file' = file /\ clock' = clock /\ pc' = pc /\ pc' = "load"
      BY <1>1 DEF ReadRecord
    <2> DEFINE hit == {q \in ReadAt(file, nread) : file[q].yiaddr \in Start..End}
               clash == {k \in StaticSlots : \E p \in hit :
                            \/ StaticLeases[k].chaddr = file[p].chaddr
                            \/ StaticLeases[k].yiaddr = file[p].yiaddr}
    <2>2. \/ leases' = leases
          \/ /\ clash = {}
             /\ \E p \in hit :
                  leases' = add_lease(leases, file[p].chaddr, file[p].yiaddr,
                                      LeaseRead(file[p].time, clock), clock, TRUE)
      BY <1>1, Zenon DEF ReadRecord
    <2>3. \A q \in hit :
            q \in Written(file) /\ file[q].yiaddr \in Addr
      BY RangeAssumption DEF ReadAt, Addr
    <2>4. clash = {} => \A q \in hit : ~StaticRecordAt(q)
      BY DEF StaticRecordAt
    <2> HIDE DEF hit, clash
    <2> QED BY <2>1, <2>2, <2>3, <2>4, Zenon DEF ReadIn, Untouched
  <1>2. CASE FinishLoad \/ AutoWrite \/ Usr1
    <2>1. staticACKed \in SUBSET StaticSlots
      BY InvParts
    <2> QED BY <1>2, <2>1 DEF FinishLoad, AutoWrite, Usr1, Saved
  <1>3. CASE Restart \/ Reboot
    BY <1>3 DEF Restart, Reboot, StartState, Cleared
  <1>4. CASE Tick
    BY <1>4 DEF Tick, Untouched, loading
  <1> QED BY <1>1, <1>2, <1>3, <1>4

-----------------------------------------------------------------------------
(* The lease file holds what was granted.                                  *)

\* The file f covers entry e at the uptime now.
Covered(e, f, now) ==
    /\ e.ACKed /\ e.chaddr # Blank /\ e.expires > now + OfferTime
    => \E p \in Written(f) :
          /\ f[p].chaddr = e.chaddr /\ f[p].yiaddr = e.yiaddr
          /\ f[p].time >= IF Remaining THEN e.expires - now ELSE e.expires

\* The property, entry by entry.
LEMMA CoversByEntry ==
    FileCovers <=> (FileOpens /\ (Remaining \/ pc = "serve") =>
                       \A s \in Slots : Covered(leases[s], file, clock))
  BY DEF FileCovers, Covered

\* The same for the next state.
LEMMA CoversNext ==
    ASSUME FileOpens /\ (Remaining \/ pc' = "serve") =>
               \A s \in Slots : Covered(leases'[s], file', clock')
    PROVE  FileCovers'
  BY DEF FileCovers, Covered, Written

\* A remainder is not more than the number.
LEMMA ModBelow == \A x \in Nat : x % Word <= x /\ x % Word \in Nat
  BY TableAssumption

\* write_leases covers the whole table.
LEMMA WriteCovers ==
    ASSUME FileOpens, NEW T \in Table, Consistent(T), NEW S,
           NEW now \in Nat, NEW s \in Slots
    PROVE  Covered(T[s], write_leases(T, S, now), now)
  <1> DEFINE f == write_leases(T, S, now)
             due == IF Remaining THEN T[s].expires - now ELSE T[s].expires
  <1>1. SUFFICES ASSUME T[s].ACKed, T[s].chaddr # Blank, T[s].expires > now + OfferTime
                 PROVE  \E p \in Written(f) :
                          /\ f[p].chaddr = T[s].chaddr /\ f[p].yiaddr = T[s].yiaddr
                          /\ f[p].time >= due
    BY DEF Covered
  <1>2. T[s].yiaddr # None
    BY <1>1 DEF Consistent, Bound
  <1>3. T[s].expires \in Nat /\ OfferTime \in Nat
    BY TableAssumption, ConfigAssumption DEF Table, Lease
  <1>4. RecordTime(T[s], now) = due /\ due \in Int
    BY <1>1, <1>3 DEF RecordTime, lease_expired
  <1>5. s \in Place
    BY TableAssumption, StaticAssumption DEF Slots, Place
  <1>6. f[s] = [chaddr |-> T[s].chaddr, yiaddr |-> T[s].yiaddr,
                time |-> RecordTime(T[s], now)]
    BY <1>1, <1>2, <1>5, Zenon DEF write_leases
  <1> HIDE DEF f, due
  <1>7. f[s].chaddr = T[s].chaddr /\ f[s].yiaddr = T[s].yiaddr
        /\ f[s].time = due
    BY <1>4, <1>6
  <1>8. s \in Written(f)
    BY <1>2, <1>5, <1>7 DEF Written
  <1> QED BY <1>4, <1>7, <1>8

\* Every change keeps the file up to date.
LEMMA CoversStep ==
    ASSUME Inv, FileCovers, Inv',
           \/ Cleared \/ ReadIn \/ Saved \/ Untouched
           \/ Offered \/ Granted \/ Disowned \/ Released
    PROVE  FileCovers'
  <1> SUFFICES ASSUME FileOpens, Remaining \/ pc' = "serve", NEW s \in Slots
               PROVE  Covered(leases'[s], file', clock')
    BY CoversNext
  <1>0. /\ clock \in Nat /\ OfferTime \in Nat
        /\ leases[s].expires \in Nat /\ leases'[s].expires \in Nat
        /\ leases \in Table /\ Consistent(leases)
        /\ leases' \in Table /\ Consistent(leases')
    <2>1. leases' \in Table /\ Consistent(leases')
      BY DEF Inv, TypeOK, Table, TableConsistent, Consistent, OneAddress, OneClient, Bound
    <2> QED BY <2>1, InvParts, TableAssumption, ConfigAssumption DEF Table, Lease
  <1>1. Remaining \/ pc = "serve" => Covered(leases[s], file, clock)
    BY CoversByEntry
  <1>2. ASSUME leases'[s].chaddr = Blank  PROVE Covered(leases'[s], file', clock')
    BY <1>2 DEF Covered
  <1>3. ASSUME NEW c \in Owner, NEW a \in Addr, NEW x \in Nat, NEW ack \in BOOLEAN,
               leases' = add_lease(leases, c, a, x, clock, ack)
        PROVE  \/ Entered(leases'[s], c, a, x, clock)
               \/ leases'[s] = Zeroed \/ leases'[s] = leases[s]
    BY <1>0, <1>3, AddLeaseOne
  <1>4. CASE Cleared
    BY <1>2, <1>4 DEF Cleared, Zeroed
  <1>5. CASE Untouched
    <2> DEFINE due(now) == IF Remaining THEN leases[s].expires - now ELSE leases[s].expires
    <2>1. /\ leases'[s] = leases[s] /\ file' = file /\ clock' \in {clock, clock + 1}
          /\ Covered(leases[s], file, clock)
      BY <1>1, <1>5 DEF Untouched
    <2>2. SUFFICES ASSUME leases[s].ACKed, leases[s].chaddr # Blank,
                          leases[s].expires > clock' + OfferTime
                   PROVE  \E p \in Written(file) :
                            /\ file[p].chaddr = leases[s].chaddr
                            /\ file[p].yiaddr = leases[s].yiaddr
                            /\ file[p].time >= due(clock')
      BY <2>1 DEF Covered
    <2>3. leases[s].expires > clock + OfferTime
      BY <1>0, <2>1, <2>2
    <2>4. PICK p \in Written(file) :
                            /\ file[p].chaddr = leases[s].chaddr
                            /\ file[p].yiaddr = leases[s].yiaddr
                            /\ file[p].time >= due(clock)
      BY <2>1, <2>2, <2>3 DEF Covered
    <2>5. file[p].time \in Nat
      BY InvParts, TableAssumption DEF Written, Record
    <2>6. due(clock) \in Int /\ due(clock') \in Int /\ due(clock) >= due(clock')
      BY <1>0, <2>1
    <2> HIDE DEF due
    <2>7. file[p].time >= due(clock')
      BY <2>4, <2>5, <2>6
    <2> QED BY <2>4, <2>7
  <1>6. CASE ReadIn
    <2>0. file' = file /\ clock' = clock /\ Remaining /\ Covered(leases[s], file, clock)
      BY <1>1, <1>6 DEF ReadIn
    <2>1. PICK p \in Written(file) :
            /\ leases' = add_lease(leases, file[p].chaddr, file[p].yiaddr,
                                   LeaseRead(file[p].time, clock), clock, TRUE)
            /\ file[p].yiaddr \in Addr
      BY <1>6 DEF ReadIn
    <2> DEFINE secs == LeaseRead(file[p].time, clock)
    <2>2. file[p].chaddr \in Owner /\ file[p].time \in 0..(Word - 1)
      BY InvParts DEF Written, Record, Owner
    <2>3. secs \in Nat
      BY <1>0, <2>2, LeaseReadTime
    <2>4. secs <= file[p].time
      BY <2>0, <2>2, ConfigAssumption, TableAssumption DEF LeaseRead, Infinite
    <2> HIDE DEF secs
    <2>5. \/ Entered(leases'[s], file[p].chaddr, file[p].yiaddr, secs, clock)
          \/ leases'[s] = Zeroed \/ leases'[s] = leases[s]
      BY <1>3, <2>1, <2>2, <2>3 DEF secs
    <2>6. CASE Entered(leases'[s], file[p].chaddr, file[p].yiaddr, secs, clock)
      <3>1. leases'[s].expires <= clock + secs
        BY <1>0, <2>3, <2>6, ModBelow DEF Entered
      <3>2. file[p].time >= leases'[s].expires - clock
        BY <1>0, <2>2, <2>3, <2>4, <3>1, TableAssumption
      <3> QED BY <2>0, <2>6, <3>2 DEF Covered, Entered
    <2>7. CASE leases'[s] = Zeroed
      BY <1>2, <2>7 DEF Zeroed
    <2>8. CASE leases'[s] = leases[s]
      BY <2>0, <2>8
    <2> QED BY <2>5, <2>6, <2>7, <2>8
  <1>7. CASE Saved \/ Granted \/ Released
    <2>1. clock' = clock /\ \E S : file' = write_leases(leases', S, clock)
      BY <1>7, Zenon DEF Saved, Granted, Released
    <2> QED BY <1>0, <2>1, WriteCovers
  <1>8. CASE Offered
    <2>1. PICK c \in Client, a \in Addr :
            leases' = add_lease(leases, c, a, OfferTime, clock, FALSE)
      BY <1>8 DEF Offered
    <2>2. \/ Entered(leases'[s], c, a, OfferTime, clock)
          \/ leases'[s] = Zeroed \/ leases'[s] = leases[s]
      <3>1. c \in Owner
        BY DEF Owner
      <3> QED BY <1>0, <1>3, <2>1, <3>1
    <2>3. CASE Entered(leases'[s], c, a, OfferTime, clock)
      <3>1. leases'[s].expires <= clock + OfferTime
        BY <1>0, <2>3, ModBelow DEF Entered
      <3>2. clock' = clock
        BY <1>8, Zenon DEF Offered
      <3>3. ~(leases'[s].expires > clock' + OfferTime)
        BY <1>0, <3>1, <3>2
      <3> QED BY <3>3, Zenon DEF Covered
    <2>4. CASE leases'[s] = Zeroed
      BY <1>2, <2>4 DEF Zeroed
    <2>5. CASE leases'[s] = leases[s]
      BY <1>1, <1>8, <2>5 DEF Offered
    <2> QED BY <2>2, <2>3, <2>4, <2>5
  <1>9. CASE Disowned
    <2>1. CASE leases'[s] = leases[s]
      BY <1>1, <1>9, <2>1 DEF Disowned
    <2> QED BY <1>2, <1>9, <2>1 DEF Disowned
  <1> QED BY <1>4, <1>5, <1>6, <1>7, <1>8, <1>9

\* Whenever the server may stop, each lease that was granted and has more than
\* offer_time to go is in the lease file, with the time it has left: whether the
\* file stores remaining times or uptimes, and for all clients and slots.
THEOREM DhcpdFileCovers == Spec => []FileCovers
  <1>1. Init => FileCovers
    BY DEF Init, FileCovers, Zeroed
  <1>2. Inv /\ Inv' /\ FileCovers /\ [Next]_vars => FileCovers'
    <2> SUFFICES ASSUME Inv, Inv', FileCovers, [Next]_vars PROVE FileCovers'
      OBVIOUS
    <2>1. CASE UNCHANGED vars
      BY <2>1, CoversStep DEF vars, Untouched
    <2>2. CASE Next
      BY <2>2, PacketChange, OtherChange, CoversStep DEF Next
    <2> QED BY <2>1, <2>2
  <1> QED BY <1>1, <1>2, DhcpdInvariant, PTL DEF Spec

-----------------------------------------------------------------------------
(* No lease is prolonged.                                                  *)

Terms == {ServerLease, OfferTime, DeclineTime}

\* The uptime from which the times of the file are counted.
Origin(now) == IF Remaining THEN 0 ELSE now

\* The times of the file, too, are bounded by the configured ones, except those
\* of static leases, which are infinite.
FileHorizon ==
    \A p \in Place :
        \/ StaticRecordAt(p)
        \/ \E term \in Terms : file[p].time <= Origin(clock) + term

\* write_leases stores no more than what is left of a lease.
LEMMA WriteHorizon ==
    ASSUME FileHorizon, NEW T \in Table, NEW S \in SUBSET StaticSlots, clock \in Nat,
           \A s \in Slots : \E term \in Terms : T[s].expires <= clock + term,
           file' = write_leases(T, S, clock), clock' = clock
    PROVE  FileHorizon'
  <1> SUFFICES ASSUME NEW p \in Place
               PROVE  \/ \E k \in StaticSlots : file'[p].yiaddr = StaticLeases[k].yiaddr
                      \/ \E term \in Terms : file'[p].time <= Origin(clock) + term
    BY DEF FileHorizon, StaticRecordAt, Origin
  <1> DEFINE f == write_leases(T, S, clock)
             mine == p \in Slots /\ T[p].yiaddr # None /\ T[p].ACKed
             known == p - MaxLeases \in S
  <1>0. Origin(clock) \in Nat /\ \A term \in Terms : term \in Nat
    BY ConfigAssumption, TableAssumption DEF Terms, Origin
  <1>1. CASE ~FileOpens
    BY <1>1 DEF write_leases, FileHorizon, StaticRecordAt
  <1>2. CASE FileOpens /\ mine
    <2> DEFINE t == RecordTime(T[p], clock)
    <2>1. f[p] = [chaddr |-> T[p].chaddr, yiaddr |-> T[p].yiaddr, time |-> t]
      BY <1>2, Zenon DEF write_leases
    <2>2. PICK term \in Terms : T[p].expires <= clock + term
      BY <1>2
    <2>3. T[p].expires \in Nat
      BY <1>2, TableAssumption DEF Table, Lease
    <2>4. t <= Origin(clock) + term
      BY <1>0, <2>2, <2>3 DEF RecordTime, lease_expired, Origin
    <2>5. f[p].time = t
      <3> HIDE DEF f, t
      <3> QED BY <2>1
    <2> HIDE DEF f, t
    <2> QED BY <2>4, <2>5 DEF f
  <1>3. CASE FileOpens /\ ~mine /\ known
    <2>1. f[p] = [chaddr |-> StaticLeases[p - MaxLeases].chaddr,
                  yiaddr |-> StaticLeases[p - MaxLeases].yiaddr, time |-> Infinite]
      BY <1>3, Zenon DEF write_leases
    <2>2. f[p].yiaddr = StaticLeases[p - MaxLeases].yiaddr
      <3> HIDE DEF f
      <3> QED BY <2>1
    <2> QED BY <1>3, <2>2
  <1>4. CASE FileOpens /\ ~mine /\ ~known
    <2>1. f[p] = NoRecord
      BY <1>4, Zenon DEF write_leases
    <2>2. OfferTime \in Terms /\ 0 <= OfferTime
      BY ConfigAssumption DEF Terms
    <2> QED BY <1>0, <2>1, <2>2 DEF NoRecord
  <1> QED BY <1>1, <1>2, <1>3, <1>4

\* An absolute time of the file is the expiry time again after it was read: it
\* is not later than it was, or it is over.
LEMMA ReadBack ==
    ASSUME NEW t \in 0..(Word - 1), NEW now \in Nat
    PROVE  LET e == (now + ((t - now) % Word)) % Word IN e \in Nat /\ (e <= t \/ e <= now)
  <1> DEFINE d == (t - now) % Word
             e == (now + d) % Word
  <1>1. Word \in Nat \ {0} /\ t \in Nat /\ t < Word
    BY TableAssumption
  <1>2. d \in 0..(Word - 1)
    BY <1>1, ModWord
  <1>3. e \in 0..(Word - 1)
    <2> HIDE DEF d
    <2> QED BY <1>1, <1>2, ModWord
  <1>4. CASE now >= Word
    <2> HIDE DEF e
    <2> QED BY <1>1, <1>3, <1>4
  <1>5. CASE now <= t
    <2>1. d = t - now
      BY <1>1, <1>5, NoRemainder
    <2>2. now + d = t
      BY <1>1, <2>1
    <2>3. e = t
      BY <1>1, <2>2, NoRemainder
    <2> QED BY <1>1, <2>3
  <1>6. CASE now < Word /\ now > t
    <2>1. d = t - now + Word
      BY <1>1, <1>6
    <2>2. now + d = t + Word
      BY <1>1, <2>1
    <2>3. (t + Word) % Word = t
      BY <1>1
    <2> QED BY <1>1, <2>2, <2>3
  <1> QED BY <1>1, <1>4, <1>5, <1>6

\* Every change keeps the horizon of the table and of the file.
LEMMA HorizonStep ==
    ASSUME Remaining \/ ~FileKept, Infinite \notin LeaseOption, Inv, Inv',
           LeaseHorizon, FileHorizon,
           \/ Cleared \/ ReadIn \/ Saved \/ Untouched
           \/ Offered \/ Granted \/ Disowned \/ Released
    PROVE  LeaseHorizon' /\ FileHorizon'
  <1> DEFINE Short(e) == \E term \in Terms : e.expires <= clock + term
  <1>0. /\ clock \in Nat /\ clock' \in Nat
        /\ leases \in Table /\ leases' \in Table
        /\ \A s \in Slots : leases[s].expires \in Nat /\ leases'[s].expires \in Nat
        /\ \A term \in Terms : term \in Nat
        /\ ServerLease \in Terms /\ OfferTime \in Terms /\ DeclineTime \in Terms
    <2>1. leases' \in Table /\ clock' \in Nat
      BY DEF Inv, TypeOK, Table
    <2>2. \A s \in Slots : leases[s].expires \in Nat /\ leases'[s].expires \in Nat
      BY <2>1, InvParts, TableAssumption DEF Table, Lease
    <2> QED BY <2>1, <2>2, InvParts, TableAssumption, ConfigAssumption DEF Terms
  <1>1. \A s \in Slots : Short(leases[s])
    BY DEF LeaseHorizon, Terms
  <1>2. ASSUME NEW term \in Terms, NEW x \in Nat, x <= term
        PROVE  (clock + x) % Word <= clock + term
    <2>1. (clock + x) % Word \in Nat /\ (clock + x) % Word <= clock + x
      BY <1>0, <1>2, ModBelow
    <2>2. clock + x <= clock + term
      BY <1>0, <1>2
    <2> QED BY <1>0, <2>1, <2>2
  <1>3. Short(Zeroed)
    BY <1>0 DEF Zeroed
  <1>4. ASSUME Untouched \/ Saved  PROVE LeaseHorizon'
    <2>1. leases' = leases /\ clock' \in {clock, clock + 1}
      BY <1>4 DEF Untouched, Saved
    <2>2. ASSUME NEW s \in Slots
          PROVE  \E term \in Terms : leases'[s].expires <= clock' + term
      <3>1. PICK term \in Terms : leases[s].expires <= clock + term
        BY <1>1
      <3>2. leases[s].expires \in Nat /\ term \in Nat
        BY <1>0
      <3>3. leases[s].expires <= clock' + term
        BY <1>0, <2>1, <3>1, <3>2
      <3> QED BY <2>1, <3>3
    <2> QED BY <2>2 DEF LeaseHorizon, Terms
  <1>5. ASSUME Cleared  PROVE LeaseHorizon'
    BY <1>0, <1>5 DEF Cleared, Zeroed, LeaseHorizon, Terms
  <1>6. ASSUME clock' = clock, \A s \in Slots : Short(leases'[s])  PROVE LeaseHorizon'
    BY <1>6 DEF LeaseHorizon, Terms
  <1>7. ASSUME NEW c \in Owner, NEW a \in Addr, NEW term \in Terms, NEW x \in Nat,
               (clock + x) % Word <= clock + term, NEW ack \in BOOLEAN, leases' = add_lease(leases, c, a, x, clock, ack),
               NEW s \in Slots
        PROVE  Short(leases'[s])
    <2>1. \/ Entered(leases'[s], c, a, x, clock)
          \/ leases'[s] = Zeroed \/ leases'[s] = leases[s]
      BY <1>0, <1>7, AddLeaseOne
    <2>2. CASE Entered(leases'[s], c, a, x, clock)
      BY <1>7, <2>2 DEF Entered
    <2> QED BY <1>1, <1>3, <2>1, <2>2
  <1> HIDE DEF Short
  <1>8. CASE Untouched \/ Cleared
    <2>1. CASE file' = file /\ clock' \in {clock, clock + 1}
      <3>1. Origin(clock) \in Nat /\ Origin(clock') \in Nat /\ Origin(clock) <= Origin(clock')
        BY <1>0, <2>1 DEF Origin
      <3>2. ASSUME NEW p \in Place, NEW term \in Terms, file[p].time <= Origin(clock) + term
            PROVE  file[p].time <= Origin(clock') + term
        <4>1. file[p].time \in Nat /\ term \in Nat
          BY <1>0, InvParts, TableAssumption DEF Record
        <4> QED BY <3>1, <3>2, <4>1
      <3>3. FileHorizon'
        BY <2>1, <3>2 DEF FileHorizon, StaticRecordAt, Origin
      <3> QED BY <1>4, <1>5, <1>8, <3>3
    <2>2. CASE Cleared /\ clock' = 0 /\ file' = (IF FileKept THEN file ELSE NoFile)
      <3>1. CASE file' = NoFile
        <4>1. \A p \in Place : file'[p].time = 0
          BY <3>1 DEF NoFile, NoRecord
        <4>2. Origin(clock') + OfferTime \in Nat
          BY <1>0, <2>2 DEF Origin
        <4> QED BY <1>0, <1>5, <2>2, <4>1, <4>2 DEF FileHorizon, Origin
      <3>2. CASE Remaining /\ file' = file
        BY <1>5, <2>2, <3>2 DEF FileHorizon, StaticRecordAt, Origin
      <3> QED BY <2>2, <3>1, <3>2
    <2> QED BY <1>8, <2>1, <2>2 DEF Untouched, Cleared
  <1>9. CASE ReadIn
    <2>0. file' = file /\ clock' = clock
      BY <1>9 DEF ReadIn
    <2>1. PICK p \in Written(file) :
            /\ leases' = add_lease(leases, file[p].chaddr, file[p].yiaddr,
                                   LeaseRead(file[p].time, clock), clock, TRUE)
            /\ file[p].yiaddr \in Addr /\ ~StaticRecordAt(p)
      BY <1>9 DEF ReadIn
    <2> DEFINE t == file[p].time
               secs == LeaseRead(t, clock)
    <2>2. /\ p \in Place /\ file[p].chaddr \in Owner /\ t \in 0..(Word - 1)
      BY InvParts DEF Written, Record, Owner
    <2>3. secs \in Nat
      BY <1>0, <2>2, LeaseReadTime
    <2>4. PICK term \in Terms : t <= Origin(clock) + term
      BY <2>1, <2>2 DEF FileHorizon
    <2> HIDE DEF t
    <2>5. \E u \in Terms : (clock + secs) % Word <= clock + u
      <3>1. CASE secs = ServerLease
        BY <1>0, <1>2, <3>1
      <3>2. CASE Remaining /\ secs = t
        <4>1. secs <= term
          BY <1>0, <2>4, <3>2 DEF Origin
        <4> QED BY <1>2, <2>3, <4>1
      <3>3. CASE ~Remaining /\ secs = (t - clock) % Word
        <4> DEFINE e == (clock + ((t - clock) % Word)) % Word
        <4>1. e \in Nat /\ (e <= t \/ e <= clock)
          BY <1>0, <2>2, ReadBack
        <4>2. e = (clock + secs) % Word
          BY <3>3
        <4> HIDE DEF e, secs
        <4>3. t <= clock + term /\ t \in Nat
          BY <2>2, <2>4, <3>3, TableAssumption DEF Origin
        <4>4. e <= clock + term
          BY <1>0, <4>1, <4>3
        <4> QED BY <4>2, <4>4
      <3> QED BY <3>1, <3>2, <3>3 DEF LeaseRead
    <2> HIDE DEF secs
    <2>6. \A s \in Slots : Short(leases'[s])
      BY <1>7, <2>1, <2>2, <2>3, <2>5 DEF secs, t
    <2>7. FileHorizon'
      BY <2>0 DEF FileHorizon, StaticRecordAt, Origin
    <2> QED BY <1>6, <2>0, <2>6, <2>7
  <1>10. CASE Offered
    <2>1. ASSUME NEW s \in Slots  PROVE Short(leases'[s])
      <3>1. PICK c \in Client, a \in Addr :
              leases' = add_lease(leases, c, a, OfferTime, clock, FALSE)
        BY <1>10 DEF Offered
      <3>2. c \in Owner /\ OfferTime \in Nat /\ OfferTime <= OfferTime
        BY <1>0 DEF Owner
      <3> QED BY <1>0, <1>2, <1>7, <3>1, <3>2
    <2>2. FileHorizon'
      BY <1>10 DEF Offered, FileHorizon, StaticRecordAt, Origin
    <2> QED BY <1>6, <1>10, <2>1, <2>2 DEF Offered
  <1>11. CASE Disowned
    <2>1. ASSUME NEW s \in Slots  PROVE Short(leases'[s])
      <3>1. CASE leases'[s].expires = leases[s].expires
        BY <1>1, <3>1 DEF Short
      <3>2. CASE leases'[s].expires = (clock + DeclineTime) % Word
        BY <1>0, <1>2, <3>2 DEF Short
      <3> QED BY <1>11, <3>1, <3>2 DEF Disowned
    <2>2. FileHorizon'
      BY <1>11 DEF Disowned, FileHorizon, StaticRecordAt, Origin
    <2> QED BY <1>6, <1>11, <2>1, <2>2 DEF Disowned
  <1>12. CASE Saved \/ Granted \/ Released
    <2>1. clock' = clock /\ \E S \in SUBSET StaticSlots : file' = write_leases(leases', S, clock)
      BY <1>12, Zenon DEF Saved, Granted, Released
    <2>2. ASSUME Granted, NEW s \in Slots  PROVE Short(leases'[s])
      <3>1. PICK c \in Client, a \in Addr, option \in LeaseOption \cup {NoOption} :
              leases' = add_lease(leases, c, a, AckLease(option), clock, TRUE)
        BY <2>2 DEF Granted
      <3>2. AckLease(option) \in 0..ServerLease
        BY AckLeaseBound
      <3>3. /\ c \in Owner /\ AckLease(option) \in Nat /\ AckLease(option) <= ServerLease
        BY <1>0, <3>2 DEF Owner
      <3> QED BY <1>0, <1>2, <1>7, <3>1, <3>3
    <2>3. ASSUME Released, NEW s \in Slots  PROVE Short(leases'[s])
      <3>1. CASE leases'[s].expires = clock % Word
        <4>1. leases'[s].expires = (clock + 0) % Word
          BY <1>0, <3>1
        <4> QED BY <1>0, <1>2, <4>1 DEF Short
      <3> QED BY <1>1, <2>3, <3>1 DEF Released
    <2>4. LeaseHorizon'
      BY <1>4, <1>6, <1>12, <2>1, <2>2, <2>3
    <2>5. \A s \in Slots : \E term \in Terms : leases'[s].expires <= clock + term
      BY <2>1, <2>4 DEF LeaseHorizon, Terms
    <2>6. FileHorizon'
      BY <1>0, <2>1, <2>5, WriteHorizon
    <2> QED BY <2>4, <2>6
  <1> QED BY <1>8, <1>9, <1>10, <1>11, <1>12

\* No restart, no reboot and no reading of the lease file prolongs a lease: no
\* entry ends later than the longest configured time from now.  The file
\* stores remaining times (the default of files.c), or it stores uptimes and a
\* reboot clears it (as on the router), and no client asks for the infinite
\* lease.
THEOREM DhcpdHorizon ==
    ASSUME Remaining \/ ~FileKept, Infinite \notin LeaseOption
    PROVE  Spec => []LeaseHorizon
  <1>1. Init => LeaseHorizon /\ FileHorizon
    <2> SUFFICES ASSUME Init PROVE LeaseHorizon /\ FileHorizon
      OBVIOUS
    <2>1. OfferTime \in Nat /\ OfferTime \in Terms
      BY ConfigAssumption DEF Terms
    <2>2. \A s \in Slots : leases[s].expires = 0
      BY DEF Init, Zeroed
    <2>3. \A p \in Place : file[p].time = 0
      BY DEF Init, NoFile, NoRecord
    <2>4. clock = 0
      BY DEF Init
    <2> QED BY <2>1, <2>2, <2>3, <2>4 DEF LeaseHorizon, FileHorizon, Terms, Origin
  <1>2. Inv /\ Inv' /\ LeaseHorizon /\ FileHorizon /\ [Next]_vars
        => LeaseHorizon' /\ FileHorizon'
    <2> SUFFICES ASSUME Inv, Inv', LeaseHorizon, FileHorizon, [Next]_vars
                 PROVE  LeaseHorizon' /\ FileHorizon'
      OBVIOUS
    <2>1. CASE UNCHANGED vars
      BY <2>1, HorizonStep DEF vars, Untouched
    <2>2. CASE Next
      BY <2>2, PacketChange, OtherChange, HorizonStep DEF Next
    <2> QED BY <2>1, <2>2
  <1> QED BY <1>1, <1>2, DhcpdInvariant, PTL DEF Spec

=============================================================================
