---------------------------- MODULE DhcpdProofs ----------------------------
(***************************************************************************)
(* Dhcpd for any number of clients, addresses, table entries and static    *)
(* leases: the table keeps its types and its consistency, and a packet     *)
(* disturbs no unexpired entry of another client unless it claims the      *)
(* address.                                                                *)
(***************************************************************************)
EXTENDS Dhcpd, ListLemmas

Owner == Client \cup {Blank}
Table == [Slots -> Lease]

\* A remainder of a division by 2^32 is a u_int32_t.
LEMMA ModWord == \A x \in Int : x % Word \in 0..(Word - 1)
  BY TableAssumption

\* A search returns one slot at most.
LEMMA FirstIsOne ==
    ASSUME NEW S, S \subseteq Nat, NEW s \in First(S), NEW t \in First(S)
    PROVE  s = t
  <1>1. s \in Nat /\ t \in Nat /\ s <= t /\ t <= s
    BY DEF First
  <1> QED BY <1>1

\* A search among one candidate returns it.
LEMMA FirstOfOne ==
    ASSUME NEW S, S \subseteq Nat, NEW s \in S, \A t \in S : t = s
    PROVE  First(S) = {s}
  <1>1. s \in Nat /\ s <= s
    OBVIOUS
  <1> QED BY <1>1, Zenon DEF First

-----------------------------------------------------------------------------
(* The table.                                                              *)

\* clear_lease keeps the type of the table.
LEMMA ClearType ==
    ASSUME NEW T \in Table, NEW c, NEW a
    PROVE  clear_lease(T, c, a) \in Table
  <1>1. Zeroed \in Lease
    BY TableAssumption DEF Zeroed, Lease, None
  <1> QED BY <1>1 DEF clear_lease, Table

\* The scan for the oldest expired lease ends with one entry at most.
LEMMA OldestIsOne ==
    ASSUME NEW T \in Table, NEW now \in Nat,
           NEW s \in oldest_expired_lease(T, now), NEW t \in oldest_expired_lease(T, now)
    PROVE  s = t
  <1>1. s \in Nat /\ t \in Nat /\ s \in Slots /\ t \in Slots
    BY TableAssumption DEF oldest_expired_lease, Slots
  <1>2. T[s].expires \in Nat /\ T[t].expires \in Nat
    BY <1>1, TableAssumption DEF Table, Lease
  <1>3. /\ T[s].expires < T[t].expires \/ (T[s].expires = T[t].expires /\ t <= s)
        /\ T[t].expires < T[s].expires \/ (T[t].expires = T[s].expires /\ s <= t)
    BY <1>1, Zenon DEF oldest_expired_lease
  <1> QED BY <1>1, <1>2, <1>3

\* add_lease keeps the type of the table.
LEMMA AddLeaseType ==
    ASSUME NEW T \in Table, NEW c \in Owner, NEW a \in Nat, NEW secs \in Nat,
           NEW now \in Nat, NEW ack \in BOOLEAN
    PROVE  add_lease(T, c, a, secs, now, ack) \in Table
  <1> DEFINE t == clear_lease(T, c, a)
  <1>1. t \in Table
    BY ClearType
  <1> HIDE DEF t
  <1>2. ASSUME NEW s \in Slots
        PROVE  [chaddr |-> c, yiaddr |-> a, expires |-> (now + secs) % Word,
                ACKed |-> ack \/ t[s].ACKed] \in Lease
    <2>1. (now + secs) % Word \in 0..(Word - 1)
      BY ModWord
    <2>2. (ack \/ t[s].ACKed) \in BOOLEAN
      OBVIOUS
    <2> QED BY <2>1, <2>2, Zenon DEF Lease, Owner
  <1> QED BY <1>1, <1>2 DEF add_lease, t, Table

\* What add_lease leaves in each slot: the new lease in one slot at most, the
\* entries of other clients and addresses, and cleared slots.
LEMMA AddLeaseSlots ==
    ASSUME NEW T \in Table, NEW c \in Owner, NEW a \in Addr, NEW secs \in Nat,
           NEW now \in Nat, NEW ack \in BOOLEAN
    PROVE  LET U == add_lease(T, c, a, secs, now, ack)
               new == oldest_expired_lease(clear_lease(T, c, a), now)
           IN  /\ \A s \in new : U[s].chaddr = c /\ U[s].yiaddr = a
               /\ \A s \in Slots \ new :
                    \/ U[s] = Zeroed
                    \/ /\ U[s] = T[s] /\ T[s].yiaddr # a
                       /\ c # Blank => T[s].chaddr # c
               /\ \A s, t \in new : s = t
  <1> DEFINE t == clear_lease(T, c, a)
             new == oldest_expired_lease(t, now)
             U == add_lease(T, c, a, secs, now, ack)
  <1>1. t \in Table
    BY ClearType
  <1>2. \A p, q \in new : p = q
    BY <1>1, OldestIsOne
  <1>3. new \subseteq Slots
    BY DEF oldest_expired_lease
  <1>4. \A s \in Slots : t[s] = IF \/ c # Blank /\ T[s].chaddr = c
                                   \/ a # None /\ T[s].yiaddr = a
                                THEN Zeroed ELSE T[s]
    BY DEF clear_lease
  <1>5. a # None
    BY DEF Addr, None
  <1>6. \A s \in Slots \ new : U[s] = t[s]
    BY Zenon DEF add_lease
  <1>7. \A s \in new : U[s].chaddr = c /\ U[s].yiaddr = a
    <2> TAKE s \in new
    <2> DEFINE acked == ack \/ t[s].ACKed
    <2>1. U[s] = [chaddr |-> c, yiaddr |-> a, expires |-> (now + secs) % Word,
                  ACKed |-> acked]
      BY <1>3, Zenon DEF add_lease
    <2> HIDE DEF t, new, U, acked
    <2> QED BY <2>1
  <1> HIDE DEF t, new, U
  <1>8. \A s \in Slots \ new :
          \/ U[s] = Zeroed
          \/ /\ U[s] = T[s] /\ T[s].yiaddr # a
             /\ c # Blank => T[s].chaddr # c
    BY <1>4, <1>5, <1>6, Zenon
  <1> QED BY <1>2, <1>7, <1>8, Zenon DEF t, new, U

\* add_lease keeps the table consistent.
LEMMA AddLeaseConsistent ==
    ASSUME NEW T \in Table, Consistent(T), NEW c \in Owner, NEW a \in Addr,
           c # Blank => ~IsStatic(c),
           NEW secs \in Nat, NEW now \in Nat, NEW ack \in BOOLEAN
    PROVE  Consistent(add_lease(T, c, a, secs, now, ack))
  <1> DEFINE U == add_lease(T, c, a, secs, now, ack)
             new == oldest_expired_lease(clear_lease(T, c, a), now)
  <1>1. /\ \A s \in new : U[s].chaddr = c /\ U[s].yiaddr = a
        /\ \A s \in Slots \ new :
             \/ U[s] = Zeroed
             \/ U[s] = T[s] /\ T[s].yiaddr # a /\ (c # Blank => T[s].chaddr # c)
        /\ \A s, t \in new : s = t
    BY AddLeaseSlots
  <1>2. Zeroed.chaddr = Blank /\ Zeroed.yiaddr = None
    BY DEF Zeroed
  <1>3. a # None
    BY DEF Addr, None
  <1> HIDE DEF U, new
  <1>4. OneAddress(U)
    BY <1>1, <1>2, <1>3, Zenon DEF OneAddress, Consistent
  <1>5. OneClient(U)
    BY <1>1, <1>2, Zenon DEF OneClient, Consistent
  <1>6. Bound(U)
    BY <1>1, <1>2, <1>3, Zenon DEF Bound, Consistent
  <1> QED BY <1>4, <1>5, <1>6, Zenon DEF Consistent, U

\* add_lease leaves an unexpired entry of another client and another address
\* as it is.
LEMMA AddLeaseKeeps ==
    ASSUME NEW T \in Table, NEW c \in Owner, NEW a \in Addr, NEW secs \in Nat,
           NEW now \in Nat, NEW ack \in BOOLEAN, NEW s \in Slots,
           ~lease_expired(T[s], now), T[s].yiaddr # a, T[s].chaddr # c
    PROVE  add_lease(T, c, a, secs, now, ack)[s] = T[s]
  <1>1. clear_lease(T, c, a)[s] = T[s]
    BY DEF clear_lease
  <1>2. s \notin oldest_expired_lease(clear_lease(T, c, a), now)
    BY <1>1, Zenon DEF oldest_expired_lease
  <1> QED BY <1>1, <1>2, Zenon DEF add_lease

\* A search fails only if there is nothing to find.
LEMMA FirstEmpty ==
    ASSUME NEW S, S \subseteq Nat, First(S) = {}
    PROVE  S = {}
  <1> SUFFICES ASSUME S # {} PROVE FALSE
    OBVIOUS
  <1>1. PICK m \in S : \A x \in S : m <= x
    BY LeastNat
  <1> QED BY <1>1 DEF First

\* In a consistent table the search for an address finds every entry with it.
LEMMA FindByYiaddr ==
    ASSUME NEW T \in Table, Consistent(T), NEW s \in Slots, T[s].yiaddr # None
    PROVE  find_lease_by_yiaddr(T, T[s].yiaddr) = {s}
  <1> DEFINE S == {x \in Slots : T[x].yiaddr = T[s].yiaddr}
  <1>1. S \subseteq Nat
    BY TableAssumption DEF Slots
  <1>2. s \in S /\ \A x \in S : x = s
    BY DEF Consistent, OneAddress
  <1>3. First(S) = {s}
    <2> HIDE DEF S
    <2> QED BY <1>1, <1>2, FirstOfOne
  <1> QED BY <1>3 DEF find_lease_by_yiaddr

\* An address that find_address returns is in the range, and nobody holds it.
LEMMA FindAddress ==
    ASSUME NEW T \in Table, Consistent(T), NEW ce \in BOOLEAN, NEW now \in Nat, NEW busy,
           NEW a, a = find_address(T, ce, now, busy), a # None
    PROVE  /\ a \in Addr /\ a \in Start..End
           /\ \A s \in Slots : T[s].yiaddr = a => lease_expired(T[s], now)
  <1> DEFINE free == {x \in Start..End :
                        /\ x \notin Edge
                        /\ find_static_lease_by_yiaddr(x) = {}
                        /\ \A s \in find_lease_by_yiaddr(T, x) :
                              ce /\ lease_expired(T[s], now)
                        /\ x \notin busy}
  <1>1. /\ free # {}
        /\ a = CHOOSE x \in free : \A b \in free : x <= b
    BY Zenon DEF find_address
  <1>2. free \subseteq Addr
    BY RangeAssumption DEF Addr
  <1>3. a \in free
    <2> HIDE DEF free
    <2>1. \E x \in free : \A b \in free : x <= b
      BY <1>1, <1>2, LeastNat DEF Addr
    <2> QED BY <1>1, <2>1, Zenon
  <1>4. ASSUME NEW s \in Slots, T[s].yiaddr = a  PROVE lease_expired(T[s], now)
    <2>1. find_lease_by_yiaddr(T, a) = {s}
      BY <1>4, FindByYiaddr
    <2> QED BY <1>3, <2>1, Zenon
  <1>5. a \in Start..End
    BY <1>3, Zenon
  <1> QED BY <1>2, <1>3, <1>4, <1>5, Zenon

-----------------------------------------------------------------------------
(* The replies and the lease file.                                         *)

Inv == TypeOK /\ TableConsistent
Time == 0..(Word - 1)

\* The search for a client finds the one entry of that client, or nothing.
LEMMA OwnSlot ==
    ASSUME NEW T \in Table, NEW c, NEW s \in find_lease_by_chaddr(T, c)
    PROVE  /\ s \in Slots /\ T[s].chaddr = c
           /\ find_lease_by_chaddr(T, c) = {s}
  <1> DEFINE S == {x \in Slots : T[x].chaddr = c}
  <1>1. s \in First(S) /\ S \subseteq Nat
    BY TableAssumption DEF find_lease_by_chaddr, Slots
  <1>2. \A t \in First(S) : t = s
    <2> HIDE DEF S
    <2> QED BY <1>1, FirstIsOne
  <1>3. s \in S
    BY <1>1 DEF First
  <1> QED BY <1>1, <1>2, <1>3 DEF find_lease_by_chaddr

\* sendOffer picks an address that no other client holds: the client's own, or
\* one of the range.
LEMMA OfferAddrFree ==
    ASSUME Inv, NEW c \in Client, NEW req \in Nat, NEW busy, NEW a,
           a = OfferAddr(find_lease_by_chaddr(leases, c), req, busy), a # None
    PROVE  /\ a \in Addr
           /\ \/ a \in Start..End
              \/ \E s \in Slots : leases[s].chaddr = c /\ leases[s].yiaddr = a
           /\ \A s \in Slots : /\ leases[s].yiaddr = a
                               /\ ~lease_expired(leases[s], clock)
                               => leases[s].chaddr = c
  <1> DEFINE own == find_lease_by_chaddr(leases, c)
             kept == {leases[s].yiaddr : s \in own} \ {None}
             wish == {x \in {req} :
                        /\ x \in Start..End
                        /\ find_static_lease_by_yiaddr(x) = {}
                        /\ \A s \in find_lease_by_yiaddr(leases, x) :
                              lease_expired(leases[s], clock)}
             fresh == find_address(leases, FALSE, clock, busy)
             stale == find_address(leases, TRUE, clock, busy)
  <1>1. leases \in Table /\ Consistent(leases) /\ clock \in Nat
    BY DEF Inv, TypeOK, TableConsistent, Table
  <1>2. a = IF kept # {} THEN CHOOSE x \in kept : TRUE
            ELSE IF own = {} /\ wish # {} THEN req
            ELSE IF fresh # None THEN fresh ELSE stale
    BY Zenon DEF OfferAddr
  <1>3. CASE a \in kept
    <2>1. PICK s \in own : a = leases[s].yiaddr
      BY <1>3
    <2>2. s \in Slots /\ leases[s].chaddr = c
      BY <1>1, <2>1, OwnSlot
    <2>3. a \in Nat
      BY <1>1, <2>1, <2>2 DEF Table, Lease
    <2>4. \A t \in Slots : leases[t].yiaddr = a => t = s
      BY <1>1, <2>1, <2>2 DEF Consistent, OneAddress
    <2>5. \E t \in Slots : leases[t].chaddr = c /\ leases[t].yiaddr = a
      BY <2>1, <2>2
    <2> HIDE DEF own, kept, wish, fresh, stale
    <2> QED BY <2>2, <2>3, <2>4, <2>5 DEF Addr, None
  <1>4. CASE a = req /\ wish # {}
    <2>1. /\ a \in Start..End
          /\ \A s \in find_lease_by_yiaddr(leases, a) : lease_expired(leases[s], clock)
      BY <1>4, Zenon
    <2>2. a \in Addr
      BY <2>1, RangeAssumption DEF Addr
    <2>3. ASSUME NEW s \in Slots, leases[s].yiaddr = a
          PROVE  lease_expired(leases[s], clock)
      BY <1>1, <2>1, <2>3, FindByYiaddr
    <2> HIDE DEF own, kept, wish, fresh, stale
    <2> QED BY <2>1, <2>2, <2>3
  <1>5. CASE a = fresh
    BY <1>1, <1>5, FindAddress
  <1>6. CASE a = stale
    BY <1>1, <1>6, FindAddress
  <1>7. a \in kept \/ (a = req /\ wish # {}) \/ a = fresh \/ a = stale
    <2> HIDE DEF kept, wish, own, fresh, stale
    <2> QED BY <1>2, Zenon
  <1> QED BY <1>3, <1>4, <1>5, <1>6, <1>7, Zenon

\* The lease time of an ACK is a u_int32_t value.
LEMMA AckLeaseTime ==
    ASSUME NEW option \in LeaseOption \cup {NoOption}
    PROVE  AckLease(option) \in Time /\ AckLease(option) \in Nat
  <1>1. ServerLease \in Time /\ LeaseOption \subseteq Time
    BY ConfigAssumption DEF Time
  <1>2. AckLease(option) \in Time
    BY <1>1, Zenon DEF AckLease
  <1> QED BY <1>2, TableAssumption DEF Time

\* The lease time of an OFFER is a u_int32_t value.
LEMMA OfferLeaseTime ==
    ASSUME Inv, NEW c \in Client, NEW option \in LeaseOption \cup {NoOption}
    PROVE  OfferLease(find_lease_by_chaddr(leases, c), option) \in Time
  <1> DEFINE own == find_lease_by_chaddr(leases, c)
             left == IF \E s \in own : ~lease_expired(leases[s], clock)
                     THEN CHOOSE t \in {leases[s].expires - clock : s \in own} : TRUE
                     ELSE ServerLease
  <1>1. ServerLease \in Time /\ LeaseOption \subseteq Time
    BY ConfigAssumption DEF Time
  <1>2. left \in Time
    <2>1. CASE \E s \in own : ~lease_expired(leases[s], clock)
      <3>1. PICK s \in own : ~lease_expired(leases[s], clock)
        BY <2>1
      <3>2. leases \in Table /\ clock \in Nat
        BY DEF Inv, TypeOK, Table
      <3>3. s \in Slots /\ own = {s}
        BY <3>2, <3>1, OwnSlot
      <3>4. leases[s].expires \in Time
        BY <3>2, <3>3 DEF Table, Lease, Time
      <3>5. leases[s].expires - clock \in Time
        BY <3>1, <3>2, <3>4, TableAssumption DEF lease_expired, Time
      <3>6. left = leases[s].expires - clock
        <4> HIDE DEF own
        <4>1. {leases[t].expires - clock : t \in own} = {leases[s].expires - clock}
          BY <3>3
        <4> QED BY <2>1, <4>1
      <3> QED BY <3>5, <3>6
    <2>2. CASE ~(\E s \in own : ~lease_expired(leases[s], clock))
      BY <1>1, <2>2
    <2> QED BY <2>1, <2>2
  <1> HIDE DEF left, own
  <1>3. OfferLease(own, option) =
          LET secs == IF option = NoOption THEN left
                      ELSE IF option > ServerLease THEN ServerLease ELSE option
          IN  IF secs <= MinLease THEN ServerLease ELSE secs
    BY DEF OfferLease, left
  <1> QED BY <1>1, <1>2, <1>3 DEF own

\* A static lease has a client and an address.
LEMMA StaticRecord ==
    \A k \in StaticSlots : StaticLeases[k] \in [chaddr : Client, yiaddr : Nat \ {0}]
  <1> DEFINE R == [chaddr : Client, yiaddr : Nat \ {0}]
  <1>1. StaticLeases \in Seq(R)
    BY StaticAssumption
  <1> HIDE DEF R
  <1>2. \A k \in StaticSlots : StaticLeases[k] \in R
    BY <1>1 DEF StaticSlots
  <1> QED BY <1>2 DEF R

\* What write_leases stores is a file of records.
LEMMA WriteType ==
    ASSUME NEW T \in Table, NEW S \in SUBSET StaticSlots, NEW now \in Nat,
           file \in [Place -> Record]
    PROVE  write_leases(T, S, now) \in [Place -> Record]
  <1>1. NoRecord \in Record
    BY TableAssumption DEF NoRecord, Record, None
  <1>2. ASSUME NEW p \in Slots
        PROVE  [chaddr |-> T[p].chaddr, yiaddr |-> T[p].yiaddr,
                time |-> RecordTime(T[p], now)] \in Record
    <2>1. /\ T[p].chaddr \in Client \cup {Blank} /\ T[p].yiaddr \in Nat
          /\ T[p].expires \in 0..(Word - 1)
      BY DEF Table, Lease
    <2>2. RecordTime(T[p], now) \in 0..(Word - 1)
      BY <2>1, TableAssumption DEF RecordTime, lease_expired
    <2> QED BY <2>1, <2>2 DEF Record
  <1>3. ASSUME NEW k \in StaticSlots
        PROVE  [chaddr |-> StaticLeases[k].chaddr, yiaddr |-> StaticLeases[k].yiaddr,
                time |-> Infinite] \in Record
    <2>1. StaticLeases[k] \in [chaddr : Client, yiaddr : Nat \ {0}]
      BY StaticRecord
    <2>2. Infinite \in 0..(Word - 1)
      BY TableAssumption DEF Infinite
    <2> QED BY <2>1, <2>2 DEF Record
  <1> QED BY <1>1, <1>2, <1>3 DEF write_leases

-----------------------------------------------------------------------------
(* The steps.                                                              *)

Reply == [type : {"none", "OFFER", "ACK", "NAK", "INFORM"}, yiaddr : Nat, lease : Time]

\* What every handler leaves behind.
Handled ==
    /\ leases' \in Table /\ Consistent(leases')
    /\ staticACKed' \subseteq StaticSlots
    /\ file' \in [Place -> Record]
    /\ out' \in Reply

\* The unexpired entries are as they were, except those of client c and of
\* address a.
Undisturbed(c, a) ==
    \A s \in Slots : Live(s) =>
        leases'[s] = leases[s] \/ leases[s].chaddr = c \/ leases[s].yiaddr = a

\* A reply without an address is a reply.
LEMMA PlainReply ==
    /\ NoReply \in Reply
    /\ [type |-> "NAK", yiaddr |-> None, lease |-> 0] \in Reply
    /\ [type |-> "INFORM", yiaddr |-> None, lease |-> 0] \in Reply
  BY TableAssumption DEF NoReply, Reply, None, Time

\* An invariant state has the parts that the handlers use.
LEMMA InvParts ==
    ASSUME Inv
    PROVE  /\ leases \in Table /\ Consistent(leases) /\ clock \in Nat
           /\ staticACKed \in SUBSET StaticSlots
           /\ file \in [Place -> Record]
  BY DEF Inv, TypeOK, TableConsistent, Table

\* A handler that changes no more than the reply.
LEMMA SameHandled ==
    ASSUME Inv, UNCHANGED <<leases, file, staticACKed>>, out' \in Reply
    PROVE  Handled /\ \A c, a : Undisturbed(c, a)
  <1>1. leases' \in Table /\ Consistent(leases')
    BY InvParts DEF Consistent, OneAddress, OneClient, Bound
  <1> QED BY <1>1, InvParts DEF Handled, Undisturbed

\* The entries that add_lease disturbs are the client's, the address's and
\* expired ones.
LEMMA AddStep ==
    ASSUME Inv, NEW c \in Client, ~IsStatic(c), NEW a \in Addr, NEW secs \in Nat,
           NEW ack \in BOOLEAN, leases' = add_lease(leases, c, a, secs, clock, ack)
    PROVE  leases' \in Table /\ Consistent(leases') /\ Undisturbed(c, a)
  <1>1. a \in Nat /\ c \in Owner
    BY DEF Addr, Owner
  <1>2. leases' \in Table
    BY <1>1, InvParts, AddLeaseType
  <1>3. Consistent(leases')
    BY <1>1, InvParts, AddLeaseConsistent
  <1>4. Undisturbed(c, a)
    BY <1>1, InvParts, AddLeaseKeeps DEF Undisturbed, Live
  <1> QED BY <1>2, <1>3, <1>4

\* sendACK.
LEMMA AckStep ==
    ASSUME Inv, NEW c \in Client, NEW a \in Addr,
           NEW option \in LeaseOption \cup {NoOption}, sendACK(c, a, option)
    PROVE  Handled /\ Undisturbed(c, a)
  <1>1. a \in Nat
    BY DEF Addr
  <1>2. CASE /\ IsStatic(c)
             /\ out' = [type |-> "ACK", yiaddr |-> a, lease |-> Infinite]
             /\ staticACKed' = staticACKed \cup find_static_lease_by_chaddr(c)
             /\ UNCHANGED <<leases, file>>
    <2>1. out' \in Reply
      BY <1>1, <1>2, TableAssumption DEF Reply, Infinite, Time
    <2>2. staticACKed' \subseteq StaticSlots
      BY <1>2, InvParts DEF find_static_lease_by_chaddr, First
    <2>3. leases' \in Table /\ Consistent(leases')
      BY <1>2, InvParts DEF Consistent, OneAddress, OneClient, Bound
    <2> QED BY <1>2, <2>1, <2>2, <2>3, InvParts DEF Handled, Undisturbed
  <1>3. CASE /\ ~IsStatic(c)
             /\ out' = [type |-> "ACK", yiaddr |-> a, lease |-> AckLease(option)]
             /\ leases' = add_lease(leases, c, a, AckLease(option), clock, TRUE)
             /\ file' = write_leases(leases', staticACKed, clock)
             /\ UNCHANGED staticACKed
    <2>1. AckLease(option) \in Time /\ AckLease(option) \in Nat
      BY AckLeaseTime
    <2>2. leases' \in Table /\ Consistent(leases') /\ Undisturbed(c, a)
      BY <1>3, <2>1, AddStep
    <2>3. file' \in [Place -> Record]
      BY <1>3, <2>2, InvParts, WriteType
    <2>4. out' \in Reply
      BY <1>1, <1>3, <2>1 DEF Reply
    <2> QED BY <1>3, <2>2, <2>3, <2>4, InvParts DEF Handled
  <1>4. CASE out' = NoReply /\ UNCHANGED <<leases, file, staticACKed>>
    BY <1>4, PlainReply, SameHandled
  <1> QED BY <1>2, <1>3, <1>4, Zenon DEF sendACK

\* A NAK or silence.
LEMMA NakStep ==
    ASSUME Inv, sendNAK \/ silent
    PROVE  Handled /\ \A c, a : Undisturbed(c, a)
  BY PlainReply, SameHandled DEF sendNAK, silent

\* The address that main() has recorded for a client is nobody else's.
LEMMA RecordedIsOwn ==
    ASSUME Inv, NEW c \in Client, ~IsStatic(c), NEW a \in RecordedAddr(c), a # None,
           NEW s \in Slots, leases[s].yiaddr = a
    PROVE  leases[s].chaddr = c
  <1>1. PICK t \in find_lease_by_chaddr(leases, c) : a = leases[t].yiaddr
    BY DEF RecordedAddr
  <1>2. t \in Slots /\ leases[t].chaddr = c
    BY <1>1, InvParts, OwnSlot
  <1>3. s = t
    BY <1>1, <1>2, InvParts DEF Consistent, OneAddress
  <1> QED BY <1>2, <1>3

\* sendACK for the recorded address disturbs nobody else's entry.
LEMMA OwnAckStep ==
    ASSUME Inv, NEW c \in Client, NEW a \in RecordedAddr(c), a \in Addr,
           NEW option \in LeaseOption \cup {NoOption}, sendACK(c, a, option)
    PROVE  Handled /\ \A b : Undisturbed(c, b)
  <1>1. Handled /\ Undisturbed(c, a)
    BY AckStep
  <1>2. CASE IsStatic(c)
    <2>1. leases' = leases
      BY <1>2, Zenon DEF sendACK
    <2> QED BY <1>1, <2>1 DEF Undisturbed
  <1>3. CASE ~IsStatic(c)
    <2>1. a # None
      BY DEF Addr, None
    <2>2. \A s \in Slots : leases[s].yiaddr = a => leases[s].chaddr = c
      BY <1>3, <2>1, RecordedIsOwn
    <2> QED BY <1>1, <2>2, Zenon DEF Undisturbed
  <1> QED BY <1>2, <1>3

\* The requests that a client can make are addresses or nothing.
LEMMA AskedNat == Asked \subseteq Addr /\ Asked \cup {None} \subseteq Nat
  BY ConfigAssumption DEF Addr, None

\* DHCPDISCOVER.
LEMMA DiscoverStep ==
    ASSUME Inv, NEW c \in Client, NEW req \in Nat,
           NEW option \in LeaseOption \cup {NoOption}, NEW busy,
           Discover(c, req, option, busy)
    PROVE  Handled /\ \A b : Undisturbed(c, b)
  <1> DEFINE own == find_lease_by_chaddr(leases, c)
             a == OfferAddr(own, req, busy)
             offer == [type |-> "OFFER", yiaddr |-> a, lease |-> OfferLease(own, option)]
  <1>0. UNCHANGED <<staticACKed, file>>
    BY DEF Discover
  <1>1. CASE IsStatic(c)
    <2>1. PICK k \in StaticSlots :
            out' = [type |-> "OFFER", yiaddr |-> StaticLeases[k].yiaddr, lease |-> Infinite]
      BY <1>1 DEF Discover, RecordedAddr, find_static_lease_by_chaddr, First
    <2>2. StaticLeases[k].yiaddr \in Nat
      BY StaticRecord
    <2>3. out' \in Reply
      BY <2>1, <2>2, TableAssumption DEF Reply, Infinite, Time
    <2>4. UNCHANGED leases
      BY <1>1, Zenon DEF Discover
    <2> QED BY <1>0, <2>3, <2>4, SameHandled
  <1>2. CASE ~IsStatic(c) /\ a = None
    <2>1. out' = NoReply /\ UNCHANGED leases
      BY <1>2, Zenon DEF Discover
    <2> QED BY <1>0, <2>1, PlainReply, SameHandled
  <1>3. CASE ~IsStatic(c) /\ a # None
    <2>1. /\ leases' = add_lease(leases, c, a, OfferTime, clock, FALSE)
          /\ out' = NoReply \/ out' = offer
      BY <1>3, Zenon DEF Discover
    <2>3. /\ a \in Addr
          /\ \A s \in Slots : leases[s].yiaddr = a /\ ~lease_expired(leases[s], clock)
                              => leases[s].chaddr = c
      BY <1>3, OfferAddrFree
    <2>4. OfferLease(own, option) \in Time
      BY OfferLeaseTime
    <2> HIDE DEF own, a
    <2>5. leases' \in Table /\ Consistent(leases') /\ Undisturbed(c, a)
      BY <1>3, <2>1, <2>3, ConfigAssumption, AddStep
    <2>6. offer \in Reply
      BY <2>3, <2>4 DEF Reply, Addr
    <2>7. \A b : Undisturbed(c, b)
      BY <2>3, <2>5, Zenon DEF Undisturbed, Live
    <2> QED BY <1>0, <2>1, <2>5, <2>6, <2>7, InvParts, PlainReply DEF Handled
  <1> QED BY <1>1, <1>2, <1>3

\* DHCPREQUEST, SELECTING.
LEMMA SelectStep ==
    ASSUME Inv, NEW c \in Client, NEW ours, NEW req \in Nat,
           NEW option \in LeaseOption \cup {NoOption}, Select(c, ours, req, option)
    PROVE  Handled /\ \A b : Undisturbed(c, b)
  <1>1. CASE ours /\ req # None /\ req \in RecordedAddr(c)
    <2>1. sendACK(c, req, option) /\ req \in Addr
      BY <1>1 DEF Select, Addr, None
    <2> QED BY <1>1, <2>1, OwnAckStep
  <1>2. CASE ~(ours /\ req # None /\ req \in RecordedAddr(c))
    BY <1>2, NakStep DEF Select
  <1> QED BY <1>1, <1>2

\* Replacing entries of the table one by one, without a new address or client,
\* keeps it consistent.
LEMMA RetouchConsistent ==
    ASSUME NEW T \in Table, Consistent(T), NEW U,
           \A s \in Slots : /\ U[s].yiaddr = T[s].yiaddr
                            /\ U[s].chaddr = T[s].chaddr \/ U[s].chaddr = Blank
    PROVE  Consistent(U)
  <1>1. OneAddress(U)
    BY Zenon DEF Consistent, OneAddress
  <1>2. OneClient(U)
    BY Zenon DEF Consistent, OneClient
  <1>3. Bound(U)
    BY Zenon DEF Consistent, Bound
  <1> QED BY <1>1, <1>2, <1>3 DEF Consistent

\* DHCPREQUEST, INIT-REBOOT.
LEMMA InitRebootStep ==
    ASSUME Inv, NEW c \in Client, NEW req \in Asked,
           NEW option \in LeaseOption \cup {NoOption}, NEW busy,
           InitReboot(c, req, option, busy)
    PROVE  Handled /\ \A b : Undisturbed(c, b)
  <1> DEFINE taken == find_lease_by_yiaddr(leases, req)
             U == [s \in Slots |-> IF s \in taken THEN [leases[s] EXCEPT !.chaddr = Blank]
                                   ELSE leases[s]]
  <1>0. req \in Addr
    BY AskedNat
  <1>1. \/ req \in RecordedAddr(c) /\ sendACK(c, req, option)
        \/ sendNAK
        \/ /\ \E s \in taken : lease_expired(leases[s], clock)
           /\ leases' = U /\ out' = NoReply /\ UNCHANGED <<file, staticACKed>>
        \/ taken = {} /\ sendACK(c, req, option)
    BY Zenon DEF InitReboot
  <1>2. CASE req \in RecordedAddr(c) /\ sendACK(c, req, option)
    BY <1>0, <1>2, OwnAckStep
  <1>3. CASE sendNAK
    BY <1>3, NakStep
  <1>4. CASE /\ \E s \in taken : lease_expired(leases[s], clock)
             /\ leases' = U /\ out' = NoReply /\ UNCHANGED <<file, staticACKed>>
    <2>1. PICK t \in taken : lease_expired(leases[t], clock)
      BY <1>4
    <2>2. t \in Slots /\ leases[t].yiaddr = req
      BY DEF find_lease_by_yiaddr, First
    <2>3. taken = {t}
      BY <1>0, <2>2, InvParts, FindByYiaddr DEF Addr, None
    <2>4. \A s \in Slots : leases[s] \in Lease /\ [leases[s] EXCEPT !.chaddr = Blank] \in Lease
      BY InvParts DEF Table, Lease
    <2>5. U \in Table
      BY <2>4 DEF Table
    <2>6. \A s \in Slots : /\ U[s].yiaddr = leases[s].yiaddr
                           /\ U[s].chaddr = leases[s].chaddr \/ U[s].chaddr = Blank
      BY InvParts DEF Table, Lease
    <2>7. Consistent(U)
      BY <2>6, InvParts, RetouchConsistent
    <2>8. \A s \in Slots \ {t} : U[s] = leases[s]
      BY <2>3
    <2> HIDE DEF U, taken
    <2>9. \A b : Undisturbed(c, b)
      BY <1>4, <2>1, <2>8, Zenon DEF Undisturbed, Live
    <2> QED BY <1>4, <2>5, <2>7, <2>9, InvParts, PlainReply DEF Handled
  <1>5. CASE taken = {} /\ sendACK(c, req, option)
    <2>1. Handled /\ Undisturbed(c, req)
      BY <1>0, <1>5, AckStep
    <2>2. \A s \in Slots : leases[s].yiaddr # req
      BY <1>0, <1>5, InvParts, FindByYiaddr DEF Addr, None
    <2> QED BY <2>1, <2>2, Zenon DEF Undisturbed
  <1> QED BY <1>1, <1>2, <1>3, <1>4, <1>5, Zenon

\* A record has an address.
LEMMA RecordedNotNone ==
    ASSUME Inv, NEW c \in Client
    PROVE  None \notin RecordedAddr(c)
  <1>1. ASSUME NEW k \in StaticSlots  PROVE StaticLeases[k].yiaddr # None
    BY StaticRecord DEF None
  <1>2. ASSUME NEW s \in find_lease_by_chaddr(leases, c)
        PROVE  leases[s].yiaddr # None
    <2>1. s \in Slots /\ leases[s].chaddr = c /\ c # Blank
      BY <1>2, InvParts, OwnSlot, ClientAssumption
    <2> QED BY <2>1, InvParts DEF Consistent, Bound
  <1> QED BY <1>1, <1>2 DEF RecordedAddr, find_static_lease_by_chaddr, First

\* DHCPREQUEST, RENEWING or REBINDING: only here an unknown client takes the
\* address of another.
LEMMA RenewStep ==
    ASSUME Inv, NEW c \in Client, NEW ciaddr \in Nat,
           NEW option \in LeaseOption \cup {NoOption}, Renew(c, ciaddr, option)
    PROVE  /\ Handled
           /\ \/ RecordedAddr(c) = {} /\ Undisturbed(c, ciaddr)
              \/ \A b : Undisturbed(c, b)
  <1>1. CASE ciaddr \in RecordedAddr(c) /\ ciaddr # None
    <2>1. sendACK(c, ciaddr, option) /\ ciaddr \in Addr
      BY <1>1 DEF Renew, Addr, None
    <2> QED BY <1>1, <2>1, OwnAckStep
  <1>2. CASE RecordedAddr(c) = {} /\ ciaddr # None /\ valid_ip(ciaddr)
    <2>1. sendACK(c, ciaddr, option) /\ ciaddr \in Addr
      BY <1>2 DEF Renew, Addr, None
    <2> QED BY <1>2, <2>1, AckStep
  <1>3. CASE sendNAK
    BY <1>3, NakStep
  <1>4. ~(None \in RecordedAddr(c))
    BY RecordedNotNone
  <1> QED BY <1>1, <1>2, <1>3, <1>4, Zenon DEF Renew

\* DHCPDECLINE.
LEMMA DeclineStep ==
    ASSUME Inv, NEW c \in Client, Decline(c)
    PROVE  Handled /\ \A b : Undisturbed(c, b)
  <1> DEFINE late == (clock + DeclineTime) % Word
             mine(s) == ~IsStatic(c) /\ s \in find_lease_by_chaddr(leases, c)
  <1>1. late \in 0..(Word - 1)
    BY InvParts, ConfigAssumption, ModWord
  <1> HIDE DEF late
  <1>2. \A s \in Slots :
          leases'[s] = IF mine(s) THEN [leases[s] EXCEPT !.chaddr = Blank, !.expires = late]
                       ELSE leases[s]
    BY Zenon DEF Decline, late
  <1>3. \A s \in Slots : mine(s) => leases[s].chaddr = c
    BY InvParts, OwnSlot
  <1>4. \A s \in Slots : [leases[s] EXCEPT !.chaddr = Blank, !.expires = late] \in Lease
    BY <1>1, InvParts DEF Table, Lease
  <1>5. leases' \in Table
    <2>1. leases' = [s \in Slots |-> leases'[s]]
      BY Zenon DEF Decline
    <2>2. \A s \in Slots : leases'[s] \in Lease
      BY <1>2, <1>4, InvParts, Zenon DEF Table
    <2> QED BY <2>1, <2>2 DEF Table
  <1>6. ASSUME NEW s \in Slots
        PROVE  /\ leases'[s].yiaddr = leases[s].yiaddr
               /\ leases'[s].chaddr = leases[s].chaddr \/ leases'[s].chaddr = Blank
    <2> HIDE DEF mine
    <2> QED BY <1>2, InvParts DEF Table, Lease
  <1>7. Consistent(leases')
    BY <1>6, InvParts, RetouchConsistent
  <1>8. \A b : Undisturbed(c, b)
    BY <1>2, <1>3, Zenon DEF Undisturbed
  <1>9. out' = NoReply /\ UNCHANGED <<file, staticACKed>>
    BY DEF Decline
  <1> QED BY <1>5, <1>7, <1>8, <1>9, InvParts, PlainReply DEF Handled

\* DHCPRELEASE.
LEMMA ReleaseStep ==
    ASSUME Inv, NEW c \in Client, Release(c)
    PROVE  Handled /\ \A b : Undisturbed(c, b)
  <1> DEFINE now == clock % Word
             mine(s) == ~IsStatic(c) /\ s \in find_lease_by_chaddr(leases, c)
  <1>1. now \in 0..(Word - 1)
    BY InvParts, ModWord
  <1> HIDE DEF now
  <1>2. \A s \in Slots :
          leases'[s] = IF mine(s) THEN [leases[s] EXCEPT !.expires = now] ELSE leases[s]
    BY Zenon DEF Release, now
  <1>3. \A s \in Slots : mine(s) => leases[s].chaddr = c
    BY InvParts, OwnSlot
  <1>4. \A s \in Slots : [leases[s] EXCEPT !.expires = now] \in Lease
    BY <1>1, InvParts DEF Table, Lease
  <1>5. leases' \in Table
    <2>1. leases' = [s \in Slots |-> leases'[s]]
      BY Zenon DEF Release
    <2>2. \A s \in Slots : leases'[s] \in Lease
      BY <1>2, <1>4, InvParts, Zenon DEF Table
    <2> QED BY <2>1, <2>2 DEF Table
  <1>6. ASSUME NEW s \in Slots
        PROVE  /\ leases'[s].yiaddr = leases[s].yiaddr
               /\ leases'[s].chaddr = leases[s].chaddr \/ leases'[s].chaddr = Blank
    <2> HIDE DEF mine
    <2> QED BY <1>2, InvParts DEF Table, Lease
  <1>7. Consistent(leases')
    BY <1>6, InvParts, RetouchConsistent
  <1>8. \A b : Undisturbed(c, b)
    BY <1>2, <1>3, Zenon DEF Undisturbed
  <1>9. staticACKed' \in SUBSET StaticSlots
    BY InvParts DEF Release
  <1>10. file' \in [Place -> Record]
    <2>1. write_leases(leases', staticACKed', clock) \in [Place -> Record]
      BY <1>5, <1>9, InvParts, WriteType
    <2> QED BY <2>1, InvParts DEF Release
  <1>11. out' = NoReply
    BY DEF Release
  <1> QED BY <1>5, <1>7, <1>8, <1>9, <1>10, <1>11, PlainReply DEF Handled

\* DHCPINFORM.
LEMMA InformStep ==
    ASSUME Inv, NEW c \in Client, Inform(c)
    PROVE  Handled /\ \A b : Undisturbed(c, b)
  BY PlainReply, SameHandled DEF Inform

\* What a handler leaves behind keeps the invariant.
LEMMA HandledInv ==
    ASSUME Inv, NEW c \in Client, NEW b \in Nat, Handled, Receive(c, b)
    PROVE  Inv' /\ in'.chaddr = c /\ in'.ciaddr = b
  <1>1. /\ in' = [chaddr |-> c, ciaddr |-> b]
        /\ UNCHANGED <<timeout_end, clock, pc, nread, i>>
    BY DEF Receive, loading
  <1>2. in'.chaddr = c /\ in'.ciaddr = b
    BY <1>1
  <1>3. TypeOK'
    <2>1. out' \in Reply
      BY DEF Handled
    <2>2. /\ out'.type \in {"none", "OFFER", "ACK", "NAK", "INFORM"}
          /\ out'.yiaddr \in Nat /\ out'.lease \in 0..(Word - 1)
      BY <2>1 DEF Reply, Time
    <2> QED BY <1>1, <1>2, <2>2 DEF Inv, TypeOK, Handled, Table
  <1>4. TableConsistent'
    BY DEF Handled, TableConsistent, Consistent, OneAddress, OneClient, Bound
  <1> QED BY <1>2, <1>3, <1>4 DEF Inv

\* A packet keeps the invariant and leaves the entries of others alone.
LEMMA PacketStep ==
    ASSUME Inv, NEW c \in Client, Packet(c)
    PROVE  Inv' /\ LeftAlone
  <1> DEFINE Done(b) == /\ Handled /\ Receive(c, b)
                        /\ \/ RecordedAddr(c) = {} /\ Undisturbed(c, b)
                           \/ \A x : Undisturbed(c, x)
  <1>1. \E b \in Nat : Done(b)
    <2>0. None \in Nat
      BY DEF None
    <2>1. ASSUME NEW req \in Asked \cup {None}, NEW option \in LeaseOption \cup {NoOption},
                 NEW busy, Discover(c, req, option, busy)
          PROVE  Done(None)
      BY <2>1, AskedNat, DiscoverStep, Zenon DEF Discover
    <2>2. ASSUME NEW req \in Asked \cup {None}, NEW option \in LeaseOption \cup {NoOption},
                 NEW ours, Select(c, ours, req, option)
          PROVE  Done(None)
      BY <2>2, AskedNat, SelectStep, Zenon DEF Select
    <2>3. ASSUME NEW req \in Asked \cup {None}, NEW option \in LeaseOption \cup {NoOption},
                 Renew(c, req, option)
          PROVE  Done(req)
      BY <2>3, AskedNat, RenewStep, Zenon DEF Renew
    <2>4. ASSUME NEW req \in Asked, NEW option \in LeaseOption \cup {NoOption},
                 NEW busy, InitReboot(c, req, option, busy)
          PROVE  Done(None)
      BY <2>4, InitRebootStep, Zenon DEF InitReboot
    <2>5. ASSUME Decline(c)  PROVE Done(None)
      BY <2>5, DeclineStep, Zenon DEF Decline
    <2>6. ASSUME Release(c)  PROVE Done(None)
      BY <2>6, ReleaseStep, Zenon DEF Release
    <2>7. ASSUME Inform(c)  PROVE Done(None)
      BY <2>7, InformStep, Zenon DEF Inform
    <2>8. \A req \in Asked \cup {None} : req \in Nat
      BY AskedNat
    <2> HIDE DEF Done
    <2> QED BY <2>0, <2>1, <2>2, <2>3, <2>4, <2>5, <2>6, <2>7, <2>8, Zenon DEF Packet
  <1>2. PICK b \in Nat : Done(b)
    BY <1>1
  <1>3. Inv' /\ in'.chaddr = c /\ in'.ciaddr = b
    BY <1>2, HandledInv
  <1>4. LeftAlone
    BY <1>2, <1>3, Zenon DEF LeftAlone, Undisturbed, Kept
  <1> QED BY <1>3, <1>4

-----------------------------------------------------------------------------
(* The specification.                                                      *)

\* The first state.
LEMMA InitStep == Init => Inv
  <1> SUFFICES ASSUME Init PROVE Inv
    OBVIOUS
  <1>1. Zeroed \in Lease /\ NoRecord \in Record
    BY TableAssumption DEF Zeroed, Lease, None, NoRecord, Record
  <1>2. TypeOK
    BY <1>1, TableAssumption DEF Init, TypeOK, NoFile, NoPacket, NoReply, None
  <1>3. TableConsistent
    BY DEF Init, TableConsistent, Consistent, OneAddress, OneClient, Bound, Zeroed
  <1> QED BY <1>2, <1>3 DEF Inv

\* A step that only clears the table, or leaves it, keeps it consistent.
LEMMA TableKept ==
    ASSUME Inv, leases' = [s \in Slots |-> Zeroed] \/ leases' = leases
    PROVE  leases' \in [Slots -> Lease] /\ TableConsistent'
  <1>1. CASE leases' = leases
    BY <1>1, InvParts
       DEF TableConsistent, Consistent, OneAddress, OneClient, Bound, Table
  <1>2. CASE leases' = [s \in Slots |-> Zeroed]
    <2>1. Zeroed \in Lease
      BY TableAssumption DEF Zeroed, Lease, None
    <2>2. TableConsistent'
      BY <1>2 DEF TableConsistent, Consistent, OneAddress, OneClient, Bound, Zeroed
    <2> QED BY <1>2, <2>1, <2>2
  <1> QED BY <1>1, <1>2

\* The time for which a lease of the file is entered again.
LEMMA LeaseReadTime ==
    ASSUME NEW t \in 0..(Word - 1), NEW now \in Nat
    PROVE  LeaseRead(t, now) \in Nat
  <1>1. (t - now) % Word \in 0..(Word - 1)
    BY ModWord, TableAssumption
  <1> QED BY <1>1, ConfigAssumption, TableAssumption DEF LeaseRead

\* One record of the file.
LEMMA ReadStep ==
    ASSUME Inv, ReadRecord
    PROVE  Inv'
  <1> DEFINE hit == {p \in ReadAt(file, nread) : file[p].yiaddr \in Start..End}
             clash == {k \in StaticSlots : \E p \in hit :
                         \/ StaticLeases[k].chaddr = file[p].chaddr
                         \/ StaticLeases[k].yiaddr = file[p].yiaddr}
  <1>0. nread' = nread + 1 /\ UNCHANGED <<file, timeout_end, clock, pc, in, out>>
    BY DEF ReadRecord
  <1>1. CASE UNCHANGED <<leases, i>> /\ staticACKed' \subseteq StaticSlots
    BY <1>0, <1>1, TableKept DEF Inv, TypeOK
  <1>2. CASE /\ clash = {}
             /\ \E p \in hit :
                  leases' = add_lease(leases, file[p].chaddr, file[p].yiaddr,
                                      LeaseRead(file[p].time, clock), clock, TRUE)
             /\ i' = i + 1 /\ UNCHANGED staticACKed
    <2>1. PICK p \in hit :
            leases' = add_lease(leases, file[p].chaddr, file[p].yiaddr,
                                LeaseRead(file[p].time, clock), clock, TRUE)
      BY <1>2
    <2>2. p \in Place /\ file[p].yiaddr \in Addr
      BY RangeAssumption DEF ReadAt, Written, Addr
    <2>3. /\ file[p].chaddr \in Owner /\ file[p].yiaddr \in Nat
          /\ file[p].time \in 0..(Word - 1)
      BY <2>2, InvParts DEF Record, Owner
    <2>4. LeaseRead(file[p].time, clock) \in Nat
      BY <2>3, InvParts, LeaseReadTime
    <2>5. ~IsStatic(file[p].chaddr)
      BY <1>2 DEF IsStatic, find_static_lease_by_chaddr, First
    <2> HIDE DEF hit, clash
    <2>6. leases' \in Table
      BY <2>1, <2>3, <2>4, InvParts, AddLeaseType
    <2>7. Consistent(leases')
      BY <2>1, <2>2, <2>3, <2>4, <2>5, InvParts, AddLeaseConsistent
    <2>8. TableConsistent'
      BY <2>7 DEF TableConsistent, Consistent, OneAddress, OneClient, Bound
    <2>9. leases' \in [Slots -> Lease] /\ staticACKed' = staticACKed /\ i' = i + 1
      BY <1>2, <2>6 DEF Table
    <2> QED BY <1>0, <2>8, <2>9 DEF Inv, TypeOK
  <1>3. \/ UNCHANGED <<leases, i>> /\ staticACKed' \subseteq StaticSlots
        \/ /\ clash = {}
           /\ \E p \in hit :
                leases' = add_lease(leases, file[p].chaddr, file[p].yiaddr,
                                    LeaseRead(file[p].time, clock), clock, TRUE)
           /\ i' = i + 1 /\ UNCHANGED staticACKed
    <2>1. ASSUME staticACKed' = staticACKed \cup
                   {k \in First(clash) : \E p \in hit :
                        /\ StaticLeases[k].chaddr = file[p].chaddr
                        /\ StaticLeases[k].yiaddr = file[p].yiaddr}
          PROVE  staticACKed' \subseteq StaticSlots
      <3>1. First(clash) \subseteq StaticSlots
        BY DEF First
      <3> HIDE DEF hit, clash
      <3> QED BY <2>1, <3>1, InvParts
    <2> QED BY <2>1, Zenon DEF ReadRecord
  <1> QED BY <1>1, <1>2, <1>3

\* The next automatic write is a u_int32_t value.
LEMMA AutoEndTime == \A now \in Nat : AutoEnd(now) \in 0..(Word - 1)
  <1> TAKE now \in Nat
  <1>1. (now + AutoTime) % Word \in 0..(Word - 1) /\ 0 \in 0..(Word - 1)
    BY ModWord, ConfigAssumption, TableAssumption
  <1> QED BY <1>1 DEF AutoEnd

\* The steps that are not packets.
LEMMA OtherStep ==
    ASSUME Inv,
           ReadRecord \/ FinishLoad \/ Restart \/ Reboot \/ AutoWrite \/ Usr1 \/ Tick
    PROVE  Inv' /\ LeftAlone
  <1>0. /\ NoPacket.chaddr = Blank /\ NoPacket.ciaddr = 0
        /\ NoReply.type = "none" /\ NoReply.yiaddr = 0 /\ NoReply.lease = 0
        /\ 0 \in 0..(Word - 1)
    BY TableAssumption DEF NoPacket, NoReply, None
  <1>1. leases' = leases => LeftAlone
    BY DEF LeftAlone, Kept
  <1>2. ASSUME NEW T \in Table, NEW now \in Nat
        PROVE  write_leases(T, staticACKed, now) \in [Place -> Record]
    BY InvParts, WriteType
  <1>3. CASE ReadRecord
    BY <1>3, ReadStep DEF ReadRecord, LeftAlone
  <1>4. CASE FinishLoad
    <2>1. file' \in [Place -> Record] /\ timeout_end' \in 0..(Word - 1)
      BY <1>2, <1>4, InvParts, AutoEndTime DEF FinishLoad
    <2>2. leases' = leases /\ UNCHANGED <<staticACKed, clock, in, out>>
      BY <1>4 DEF FinishLoad
    <2>3. pc' = "serve" /\ nread' = 0 /\ i' = 0
      BY <1>4 DEF FinishLoad
    <2> QED BY <1>1, <2>1, <2>2, <2>3, TableKept DEF Inv, TypeOK
  <1>5. CASE Restart \/ Reboot
    <2>1. /\ leases' = [s \in Slots |-> Zeroed] /\ staticACKed' = {}
          /\ pc' = "load" /\ nread' = 0 /\ i' = 0
          /\ in' = NoPacket /\ out' = NoReply /\ UNCHANGED timeout_end
          /\ clock' \in Nat /\ file' \in {file, NoFile}
      BY <1>5, InvParts DEF Restart, Reboot, StartState
    <2>2. LeftAlone
      BY <2>1 DEF LeftAlone
    <2>3. file' \in [Place -> Record]
      BY <1>0, <2>1, InvParts DEF NoFile, NoRecord, Record, None
    <2> QED BY <1>0, <2>1, <2>2, <2>3, TableKept DEF Inv, TypeOK
  <1>6. CASE AutoWrite \/ Usr1
    <2>1. Epoch + clock \in Nat
      BY InvParts, ConfigAssumption
    <2>2. file' \in [Place -> Record] /\ timeout_end' \in 0..(Word - 1)
      BY <1>2, <1>6, <2>1, InvParts, AutoEndTime DEF AutoWrite, Usr1
    <2>3. /\ in' = NoPacket /\ out' = NoReply
          /\ leases' = leases /\ UNCHANGED <<staticACKed, clock, pc, nread, i>>
      BY <1>6 DEF AutoWrite, Usr1, loading
    <2> QED BY <1>0, <1>1, <2>2, <2>3, TableKept DEF Inv, TypeOK
  <1>7. CASE Tick
    <2>1. /\ clock' \in Nat /\ in' = NoPacket /\ out' = NoReply
          /\ leases' = leases /\ UNCHANGED <<staticACKed, file, timeout_end, pc, nread, i>>
      BY <1>7, InvParts DEF Tick, loading
    <2> QED BY <1>0, <1>1, <2>1, TableKept DEF Inv, TypeOK
  <1> QED BY <1>3, <1>4, <1>5, <1>6, <1>7

\* Every step keeps the invariant and leaves the entries of others alone.
LEMMA Step == Inv /\ [Next]_vars => Inv' /\ [LeftAlone]_vars
  <1> SUFFICES ASSUME Inv, [Next]_vars PROVE Inv' /\ [LeftAlone]_vars
    OBVIOUS
  <1>1. CASE UNCHANGED vars
    <2>1. leases' = leases /\ UNCHANGED <<staticACKed, file, timeout_end, clock, pc,
                                          nread, i, in, out>>
      BY <1>1 DEF vars
    <2> QED BY <1>1, <2>1, TableKept DEF Inv, TypeOK
  <1>2. CASE Next
    BY <1>2, PacketStep, OtherStep DEF Next
  <1> QED BY <1>1, <1>2

\* The server keeps the inductive invariant: types and a consistent table.
THEOREM DhcpdInvariant == Spec => []Inv
  BY InitStep, Step, PTL DEF Spec

\* Every variable of the server keeps its type, whatever packets arrive; in
\* particular every expiry time and every lease time is a u_int32_t.
THEOREM DhcpdTypes == Spec => []TypeOK
  <1>1. Inv => TypeOK
    BY DEF Inv
  <1> QED BY <1>1, DhcpdInvariant, PTL

\* The lease table is consistent in every reachable state, for any number of
\* clients, addresses, slots and static leases: leases.c finds at most one
\* entry for a client and at most one for an address.
THEOREM DhcpdTable == Spec => []TableConsistent
  <1>1. Inv => TableConsistent
    BY DEF Inv
  <1> QED BY <1>1, DhcpdInvariant, PTL

\* No packet ends the reservation of another client, except the request of an
\* unknown client that claims the address: sendOffer, sendACK, DECLINE and
\* RELEASE handling and the reuse of expired entries included.
THEOREM DhcpdReservations == Spec => ReservedUnlessClaimed
  BY InitStep, Step, PTL DEF Spec, ReservedUnlessClaimed

=============================================================================
