------------------------------- MODULE Leases -------------------------------
(***************************************************************************)
(* The lease table of the DHCP server, progs.gpl/udhcpcd/leases.c, as      *)
(* operators on a table T at the uptime now.                               *)
(*                                                                         *)
(* Addresses are numbers in host order (the firmware's MIPS target is big  *)
(* endian, so host and network order agree); 0 is "no address".  A search  *)
(* that returns a pointer into the table or NULL returns here the set of   *)
(* the slot it found, empty for NULL.                                      *)
(***************************************************************************)
EXTENDS Integers, Sequences

CONSTANTS
    Client,        \* hardware addresses of the clients
    Blank,         \* blank_chaddr: sixteen zero bytes
    StaticLeases,  \* static_leases[]: sequence of [chaddr, yiaddr]
    Start, End,    \* server_config.start, server_config.end
    Edge,          \* addresses whose host part is all zeros or all ones
    MaxLeases,     \* server_config.max_leases
    Word           \* 2^32, the range of u_int32_t

ASSUME ClientAssumption == Blank \notin Client
ASSUME RangeAssumption == Start \in Nat \ {0} /\ End \in Nat
ASSUME TableAssumption == MaxLeases \in Nat /\ Word \in Nat \ {0}
ASSUME StaticAssumption ==
    StaticLeases \in Seq([chaddr : Client, yiaddr : Nat \ {0}])

None == 0
Addr == Nat \ {0}
Slots == 1..MaxLeases
StaticSlots == DOMAIN StaticLeases
Infinite == Word - 1      \* 0xFFFFFFFF

\* struct dhcpOfferedAddr; the host name and the static options are left out.
Lease == [chaddr : Client \cup {Blank}, yiaddr : Nat, expires : 0..(Word - 1),
          ACKed : BOOLEAN]
Zeroed == [chaddr |-> Blank, yiaddr |-> None, expires |-> 0, ACKed |-> FALSE]

-----------------------------------------------------------------------------

First(S) == {i \in S : \A j \in S : i <= j}

\* Mutant: only the client's own entry is cleared, not the address's.
clear_lease_chaddr(T, c, a) ==
    [i \in Slots |-> IF c # Blank /\ T[i].chaddr = c THEN Zeroed ELSE T[i]]

\* Clear every lease out that chaddr or yiaddr matches and is nonzero.
clear_lease(T, c, a) ==
    [i \in Slots |->
        IF \/ c # Blank /\ T[i].chaddr = c
           \/ a # None /\ T[i].yiaddr = a
        THEN Zeroed ELSE T[i]]

lease_expired(e, now) == e.expires <= now

\* Mutant: the scan starts from the latest time there is, not from now.
oldest_lease(T, now) ==
    {i \in Slots : \A j \in Slots :
        \/ T[i].expires < T[j].expires
        \/ T[i].expires = T[j].expires /\ j <= i}

\* The scan keeps the last of the entries with the earliest time.
oldest_expired_lease(T, now) ==
    {i \in Slots :
        /\ lease_expired(T[i], now)
        /\ \A j \in Slots :
             lease_expired(T[j], now) =>
                \/ T[i].expires < T[j].expires
                \/ T[i].expires = T[j].expires /\ j <= i}

\* Mutant: the new expiry time is not stored.
add_lease_untimed(T, c, a, secs, now, ack) ==
    LET t == clear_lease(T, c, a)
        oldest == oldest_expired_lease(t, now)
    IN  [i \in Slots |->
            IF i \in oldest
            THEN [chaddr |-> c, yiaddr |-> a, expires |-> t[i].expires,
                  ACKed |-> ack \/ t[i].ACKed]
            ELSE t[i]]

\* The entry that is filled keeps its ACKed flag; ack says whether the caller
\* sets it next.  With no expired entry the table is full and add_lease fails.
add_lease(T, c, a, secs, now, ack) ==
    LET t == clear_lease(T, c, a)
        oldest == oldest_expired_lease(t, now)
    IN  [i \in Slots |->
            IF i \in oldest
            THEN [chaddr |-> c, yiaddr |-> a, expires |-> (now + secs) % Word,
                  ACKed |-> ack \/ t[i].ACKed]
            ELSE t[i]]
add_lease_fails(T, c, a, now) ==
    oldest_expired_lease(clear_lease(T, c, a), now) = {}

find_static_lease_by_chaddr(c) ==
    First({k \in StaticSlots : StaticLeases[k].chaddr = c})
find_static_lease_by_yiaddr(a) ==
    First({k \in StaticSlots : StaticLeases[k].yiaddr = a})
find_lease_by_chaddr(T, c) == First({i \in Slots : T[i].chaddr = c})
find_lease_by_yiaddr(T, a) == First({i \in Slots : T[i].yiaddr = a})

\* The lowest address of the range that is not reserved, not leased (or, with
\* check_expired, only by an expired lease) and silent when check_ip sends it
\* an ARP request; busy are the addresses that answer.
find_address(T, check_expired, now, busy) ==
    LET free == {a \in Start..End :
                    /\ a \notin Edge
                    /\ find_static_lease_by_yiaddr(a) = {}
                    /\ \A i \in find_lease_by_yiaddr(T, a) :
                          check_expired /\ lease_expired(T[i], now)
                    /\ a \notin busy}
    IN  IF free = {} THEN None ELSE CHOOSE a \in free : \A b \in free : a <= b

=============================================================================
