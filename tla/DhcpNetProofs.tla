--------------------------- MODULE DhcpNetProofs ---------------------------
(***************************************************************************)
(* DhcpNet for any number of other clients, any range of addresses, any    *)
(* delay and any number of messages under way: the address that the client *)
(* has is reserved for it at the server until MaxDelay seconds before the  *)
(* end of the lease, and the client does not lose it before.               *)
(*                                                                         *)
(* Everything that may become a lease of the client is a claim against the *)
(* table: the lease itself, an ACK in the socket and an ACK under way.     *)
(* Each claim is smaller than what the table has left for the address,     *)
(* because messages stay in order: what could end the reservation (a late  *)
(* DISCOVER, RELEASE or DECLINE) has been handled when the client gets its *)
(* first ACK.                                                              *)
(***************************************************************************)
EXTENDS DhcpNet, DhcpdLeaseProofs, FiniteSetTheorems

\* The instances that are considered: the client has no static lease, there
\* is a slot for every address (max_leases is 254 by default, and the script
\* that writes the server's configuration raises it when the range is larger),
\* no expiry time wraps around 2^32, and the client sends at least one DISCOVER.
Sized ==
    /\ ~IsStatic(Me)
    /\ MaxLeases >= End - Start + 1
    /\ MaxTime + ServerLease < Word
    /\ CRetry > 0

-----------------------------------------------------------------------------
(* The inductive invariant.                                                *)

Mail == [type : {"discover", "select", "renew", "release", "decline"},
         to : {Server, None}, ip : Nat]
Answers == {p \in [type : {"offer", "ack", "nak", "junk"}, server : {Server, None},
                   yiaddr : Nat, lease : Int] :
               p.type = "ack" => p.lease = ServerLease}
Carrying(S) == [msg : S, current : BOOLEAN, ttl : 0..MaxDelay]

LinkTypes == c2s \in Seq(Carrying(Mail)) /\ s2c \in Seq(Carrying(Answers))
ClientTypes ==
    /\ state \in C!States \cup {"EXITED"}
    /\ state = "RELEASED" => mode = "NONE"
    /\ ip \in Nat /\ srv \in {Server, None} /\ num \in Nat /\ age \in Nat
    /\ sock \in Seq(Answers) /\ Len(sock) <= 1

\* Every entry of the table has an address of the range or has expired.
Placed ==
    \A s \in Slots : \/ leases[s].yiaddr \in Start..End
                     \/ leases[s].yiaddr = None /\ leases[s].expires <= clock

ServerInv == Inv /\ Placed /\ clock <= MaxTime

\* ACKs and NAKs that the client will look at, and messages after which the
\* server may not have a lease for the client: those of an earlier series of
\* requests, and those that end or shorten the reservation.
Acking(m) == m.current /\ m.msg.type = "ack"
Naking(m) == m.current /\ m.msg.type = "nak"
Harmful(m) == ~m.current \/ m.msg.type \in {"discover", "release", "decline"}

NoAck ==
    /\ \A k \in DOMAIN s2c : ~Acking(s2c[k])
    /\ \A k \in DOMAIN sock : sock[k].type # "ack"

\* The client waits for an OFFER to its own series of DISCOVERs.
Starting == state = "INIT_SELECTING" /\ ~(due = 0 /\ num = 0)
FreshStart == Starting => NoAck /\ \A k \in DOMAIN c2s : Harmful(c2s[k])

\* The client has an address or asks for one.
Engaged == state \in {"REQUESTING", "RENEW_REQUESTED"} \cup C!Leased

InOrder ==
    \A k \in DOMAIN c2s : Harmful(c2s[k]) =>
        /\ state = "REQUESTING" /\ NoAck
        /\ \A j \in DOMAIN c2s : j < k => Harmful(c2s[j])

SameAddress ==
    /\ \A k \in DOMAIN c2s : ~Harmful(c2s[k]) => c2s[k].msg.ip = ip
    /\ \A k \in DOMAIN s2c : Acking(s2c[k]) => s2c[k].msg.yiaddr = ip
    /\ \A k \in DOMAIN sock : sock[k].type = "ack" => sock[k].yiaddr = ip

\* The table keeps the client's address for r seconds.
Backing(T, now, a, r) ==
    r > 0 => \E s \in Slots : /\ T[s].chaddr = Me /\ T[s].yiaddr = a
                              /\ T[s].expires >= now + r
Backed(r) == Backing(leases, clock, ip, r)

Claims ==
    /\ \A k \in DOMAIN s2c : Acking(s2c[k]) => Backed(ServerLease + s2c[k].ttl - MaxDelay)
    /\ \A k \in DOMAIN sock : sock[k].type = "ack" => Backed(ServerLease - MaxDelay)
    /\ state \in C!Leased =>
          held = ip /\ lease = ServerLease /\ Backed(ServerLease - age - MaxDelay)

\* A NAK follows only when the claims before it are over.
Over == state \in C!Leased => ServerLease - age <= MaxDelay
Refusals ==
    /\ \A k \in DOMAIN s2c : Naking(s2c[k]) =>
          /\ Over
          /\ \A j \in DOMAIN sock : sock[j].type = "ack" => ServerLease <= MaxDelay
          /\ \A j \in DOMAIN s2c :
                j < k /\ Acking(s2c[j]) => ServerLease + s2c[j].ttl <= MaxDelay
    /\ \A k \in DOMAIN sock : sock[k].type = "nak" => Over

Orderly == InOrder /\ SameAddress /\ Claims /\ Refusals

NetInv ==
    /\ LinkTypes /\ ClientTypes /\ ServerInv
    /\ FreshStart
    /\ Engaged => Orderly

-----------------------------------------------------------------------------
(* Messages under way.                                                     *)

\* The numbers of the configuration.
LEMMA Numbers ==
    /\ ServerLease \in Nat /\ MaxDelay \in Nat /\ MaxFlight \in Nat /\ MaxTime \in Nat
    /\ CArp \in Nat /\ CRetry \in Nat /\ Word \in Nat /\ MaxLeases \in Nat
    /\ Start \in Nat /\ Start # 0 /\ End \in Nat /\ Me \in Client /\ Me # Blank
  BY NetAssumption, ConfigAssumption, TableAssumption, RangeAssumption, ClientAssumption

\* Each message of the link new is one of the link old, d places further on.
Follows(new, old, d) ==
    \A k \in DOMAIN new : k + d \in DOMAIN old /\ new[k] = old[k + d]

\* A link without its first message.
LEMMA TailFollows ==
    ASSUME NEW S, NEW link \in Seq(S), link # << >>
    PROVE  /\ Tail(link) \in Seq(S) /\ Head(link) = link[1] /\ Head(link) \in S
           /\ 1 \in DOMAIN link
           /\ Follows(Tail(link), link, 1)
  <1>1. /\ Len(link) \in Nat /\ Len(link) >= 1 /\ DOMAIN link = 1..Len(link)
        /\ Tail(link) \in Seq(S) /\ DOMAIN Tail(link) = 1..(Len(link) - 1)
        /\ \A k \in 1..(Len(link) - 1) : Tail(link)[k] = link[k + 1]
    <2>1. Len(link) \in Nat /\ DOMAIN link = 1..Len(link) /\ Len(link) # 0
      BY LenProperties, EmptySeq
    <2>2. Tail(link) \in Seq(S) /\ Len(Tail(link)) = Len(link) - 1
          /\ \A k \in 1..(Len(link) - 1) : Tail(link)[k] = link[k + 1]
      BY HeadTailProperties
    <2>3. DOMAIN Tail(link) = 1..(Len(link) - 1)
      BY <2>2, LenProperties
    <2> QED BY <2>1, <2>2, <2>3
  <1>2. Head(link) = link[1] /\ Head(link) \in S
    BY HeadTailProperties
  <1>3. Follows(Tail(link), link, 1)
    BY <1>1 DEF Follows
  <1> QED BY <1>1, <1>2, <1>3

\* Each message of the link new is one of the link old, or e at its end.
Extends(new, old, e) ==
    \A k \in DOMAIN new : \/ k \in DOMAIN old /\ new[k] = old[k]
                          \/ new[k] = e /\ \A j \in DOMAIN new : j <= k

\* A link with one more message.
LEMMA AppendExtends ==
    ASSUME NEW S, NEW link \in Seq(S), NEW e \in S
    PROVE  Append(link, e) \in Seq(S) /\ Extends(Append(link, e), link, e)
  <1>1. /\ Append(link, e) \in Seq(S) /\ Len(Append(link, e)) = Len(link) + 1
        /\ \A k \in 1..Len(link) : Append(link, e)[k] = link[k]
        /\ Append(link, e)[Len(link) + 1] = e
    BY AppendProperties
  <1>2. /\ Len(link) \in Nat /\ DOMAIN link = 1..Len(link)
        /\ DOMAIN Append(link, e) = 1..(Len(link) + 1)
    BY <1>1, LenProperties
  <1> QED BY <1>1, <1>2 DEF Extends

\* A message of the client gets under way, or the link is full.
LEMMA PostExtends ==
    ASSUME NEW S, NEW link \in Seq(Carrying(S)), NEW m \in S
    PROVE  /\ Post(link, m) \in Seq(Carrying(S))
           /\ Extends(Post(link, m), link, [msg |-> m, current |-> TRUE, ttl |-> MaxDelay])
  <1> DEFINE e == [msg |-> m, current |-> TRUE, ttl |-> MaxDelay]
  <1>1. e \in Carrying(S)
    BY Numbers DEF Carrying
  <1> HIDE DEF e
  <1>2. Append(link, e) \in Seq(Carrying(S)) /\ Extends(Append(link, e), link, e)
    BY <1>1, AppendExtends
  <1>3. Extends(link, link, e)
    BY DEF Extends
  <1>4. Post(link, m) \in {link, Append(link, e)}
    BY DEF Post, e
  <1> QED BY <1>2, <1>3, <1>4 DEF e

\* A new series of requests leaves every message where it is, outdated.
LEMMA OutdatedEntries ==
    ASSUME NEW S, NEW link \in Seq(Carrying(S))
    PROVE  /\ Outdated(link) \in Seq(Carrying(S))
           /\ DOMAIN Outdated(link) = DOMAIN link
           /\ \A k \in DOMAIN link : ~Outdated(link)[k].current
  <1>1. DOMAIN link = 1..Len(link) /\ Len(link) \in Nat
        /\ \A k \in DOMAIN link : link[k] \in Carrying(S)
    BY LenProperties, ElementOfSeq
  <1>2. \A k \in DOMAIN link : /\ [link[k] EXCEPT !.current = FALSE] \in Carrying(S)
                               /\ [link[k] EXCEPT !.current = FALSE].current = FALSE
    BY <1>1 DEF Carrying
  <1>3. Outdated(link) \in [1..Len(link) -> Carrying(S)]
    BY <1>1, <1>2 DEF Outdated
  <1>4. Outdated(link) \in Seq(Carrying(S))
    BY <1>1, <1>3
  <1> QED BY <1>1, <1>2, <1>4 DEF Outdated

\* What an entry of a link is.
LEMMA Entries ==
    ASSUME NEW S, NEW link \in Seq(S), NEW k \in DOMAIN link
    PROVE  link[k] \in S /\ k \in Nat
  BY LenProperties, ElementOfSeq

-----------------------------------------------------------------------------
(* Steps that bring no new ACK and no new NAK.                             *)

\* What the server is asked is what it was asked before, or a request for the
\* client's address at the end.
OldMail(d) ==
    \A k \in DOMAIN c2s' :
        \/ k + d \in DOMAIN c2s /\ c2s'[k] = c2s[k + d]
        \/ /\ ~Harmful(c2s'[k]) /\ c2s'[k].msg.ip = ip
           /\ \A j \in DOMAIN c2s' : j <= k
OldAnswers(d) ==
    \A k \in DOMAIN s2c' :
        \/ k + d \in DOMAIN s2c /\ s2c'[k] = s2c[k + d]
        \/ ~Acking(s2c'[k]) /\ ~Naking(s2c'[k])
OldSocket ==
    \A k \in DOMAIN sock' :
        \/ \E j \in DOMAIN sock : sock'[k] = sock[j]
        \/ sock'[k].type \notin {"ack", "nak"}
\* The table backs what it has backed.
BackingKept ==
    \A r \in Int : Backing(leases, clock, ip, r) => Backing(leases', clock', ip', r)

\* Positions and entries of the two links.
LEMMA LinkEntries ==
    ASSUME NEW a \in Seq(Carrying(Mail)), NEW b \in Seq(Carrying(Answers))
    PROVE  /\ \A k \in DOMAIN a : k \in Nat /\ a[k] \in Carrying(Mail)
           /\ \A k \in DOMAIN b : k \in Nat /\ b[k] \in Carrying(Answers)
                                /\ b[k].ttl \in 0..MaxDelay /\ b[k].ttl \in Nat
  <1>1. \A k \in DOMAIN a : k \in Nat /\ a[k] \in Carrying(Mail)
    BY Entries
  <1>2. \A k \in DOMAIN b : k \in Nat /\ b[k] \in Carrying(Answers)
    BY Entries
  <1>3. \A m \in Carrying(Answers) : m.ttl \in 0..MaxDelay /\ m.ttl \in Nat
    BY Numbers DEF Carrying
  <1> QED BY <1>1, <1>2, <1>3

\* No ACK appears.
LEMMA NoAckKept ==
    ASSUME NoAck, NEW d, OldAnswers(d), OldSocket
    PROVE  NoAck'
  <1>1. ASSUME NEW k \in DOMAIN s2c'  PROVE ~Acking(s2c'[k])
    BY DEF NoAck, OldAnswers
  <1>2. ASSUME NEW k \in DOMAIN sock'  PROVE sock'[k].type # "ack"
    BY DEF NoAck, OldSocket
  <1> QED BY <1>1, <1>2 DEF NoAck, Acking

\* The claims stand as long as the table backs what it has backed.
LEMMA OrderlyKept ==
    ASSUME LinkTypes, LinkTypes', Orderly, NEW d \in {0, 1}, NEW e \in {0, 1},
           OldMail(d), OldAnswers(e), OldSocket,
           state = "REQUESTING" => state' = "REQUESTING",
           state' \in C!Leased => state \in C!Leased,
           ip' = ip, lease' = lease, age' = age, held' = held,
           (NoAck /\ state \notin C!Leased) \/ BackingKept, age \in Nat
    PROVE  Orderly'
  <1>0. /\ \A k \in DOMAIN c2s : k \in Nat
        /\ \A k \in DOMAIN s2c : k \in Nat /\ s2c[k].ttl \in Int
        /\ \A k \in DOMAIN c2s' : k \in Nat
        /\ \A k \in DOMAIN s2c' : k \in Nat
    <2>1. c2s \in Seq(Carrying(Mail)) /\ s2c \in Seq(Carrying(Answers))
          /\ c2s' \in Seq(Carrying(Mail)) /\ s2c' \in Seq(Carrying(Answers))
      BY DEF LinkTypes
    <2> QED BY <2>1, LinkEntries
  <1>1. NoAck => NoAck'
    BY NoAckKept
  <1>2. InOrder'
    <2> SUFFICES ASSUME NEW k \in DOMAIN c2s', Harmful(c2s'[k])
                 PROVE  /\ state' = "REQUESTING" /\ NoAck'
                        /\ \A j \in DOMAIN c2s' : j < k => Harmful(c2s'[j])
      BY DEF InOrder, Harmful
    <2>1. k + d \in DOMAIN c2s /\ c2s'[k] = c2s[k + d]
      BY DEF OldMail
    <2>2. /\ state = "REQUESTING" /\ NoAck
          /\ \A j \in DOMAIN c2s : j < k + d => Harmful(c2s[j])
      BY <2>1 DEF Orderly, InOrder
    <2>3. ASSUME NEW j \in DOMAIN c2s', j < k  PROVE Harmful(c2s'[j])
      <3>1. ~(k <= j) /\ j + d < k + d
        BY <1>0, <2>3
      <3>2. j + d \in DOMAIN c2s /\ c2s'[j] = c2s[j + d]
        BY <3>1 DEF OldMail
      <3> QED BY <2>2, <3>1, <3>2
    <2> QED BY <1>1, <2>2, <2>3
  <1>3. SameAddress'
    <2>1. ASSUME NEW k \in DOMAIN c2s', ~Harmful(c2s'[k])  PROVE c2s'[k].msg.ip = ip'
      BY <2>1 DEF OldMail, Orderly, SameAddress
    <2>2. ASSUME NEW k \in DOMAIN s2c', Acking(s2c'[k])  PROVE s2c'[k].msg.yiaddr = ip'
      BY <2>2 DEF OldAnswers, Orderly, SameAddress
    <2>3. ASSUME NEW k \in DOMAIN sock', sock'[k].type = "ack"  PROVE sock'[k].yiaddr = ip'
      BY <2>3 DEF OldSocket, Orderly, SameAddress
    <2> QED BY <2>1, <2>2, <2>3 DEF SameAddress, Acking, Harmful
  <1>4. Claims'
    <2> DEFINE B(r) == Backing(leases, clock, ip, r)
               B1(r) == Backing(leases', clock', ip', r)
    <2> HIDE DEF B, B1
    <2>0. (NoAck /\ state \notin C!Leased) \/ \A r \in Int : B(r) => B1(r)
      BY DEF BackingKept, B, B1
    <2>1. ASSUME NEW k \in DOMAIN s2c', Acking(s2c'[k])
          PROVE  B1(ServerLease + s2c'[k].ttl - MaxDelay)
      <3>1. k + e \in DOMAIN s2c /\ s2c'[k] = s2c[k + e]
        BY <2>1 DEF OldAnswers
      <3>2. B(ServerLease + s2c[k + e].ttl - MaxDelay)
        BY <2>1, <3>1 DEF Orderly, Claims, Backed, B
      <3>3. ServerLease + s2c[k + e].ttl - MaxDelay \in Int
        BY <1>0, <3>1, Numbers
      <3>4. ~NoAck
        BY <2>1, <3>1 DEF NoAck
      <3> QED BY <2>0, <3>1, <3>2, <3>3, <3>4
    <2>2. ASSUME NEW k \in DOMAIN sock', sock'[k].type = "ack"
          PROVE  B1(ServerLease - MaxDelay)
      <3>1. B(ServerLease - MaxDelay) /\ ~NoAck
        BY <2>2 DEF OldSocket, Orderly, Claims, Backed, B, NoAck
      <3>2. ServerLease - MaxDelay \in Int
        BY Numbers
      <3> QED BY <2>0, <3>1, <3>2
    <2>3. ASSUME state' \in C!Leased
          PROVE  held' = ip' /\ lease' = ServerLease /\ B1(ServerLease - age' - MaxDelay)
      <3>1. held = ip /\ lease = ServerLease /\ B(ServerLease - age - MaxDelay)
        BY <2>3 DEF Orderly, Claims, Backed, B
      <3>2. ServerLease - age - MaxDelay \in Int
        BY Numbers
      <3> QED BY <2>0, <2>3, <3>1, <3>2
    <2> QED BY <2>1, <2>2, <2>3 DEF Claims, Acking, C!Leased, Backed, B1
  <1>5. Refusals'
    <2>0. Over => Over'
      BY DEF Over, C!Leased
    <2>1. ASSUME NEW k \in DOMAIN s2c', Naking(s2c'[k])
          PROVE  /\ Over'
                 /\ \A j \in DOMAIN sock' : sock'[j].type = "ack" => ServerLease <= MaxDelay
                 /\ \A j \in DOMAIN s2c' :
                       j < k /\ Acking(s2c'[j]) => ServerLease + s2c'[j].ttl <= MaxDelay
      <3>1. k + e \in DOMAIN s2c /\ Naking(s2c[k + e])
        BY <2>1 DEF OldAnswers
      <3>2. /\ Over
            /\ \A j \in DOMAIN sock : sock[j].type = "ack" => ServerLease <= MaxDelay
            /\ \A j \in DOMAIN s2c :
                  j < k + e /\ Acking(s2c[j]) => ServerLease + s2c[j].ttl <= MaxDelay
        BY <3>1 DEF Orderly, Refusals
      <3>3. ASSUME NEW j \in DOMAIN sock', sock'[j].type = "ack"  PROVE ServerLease <= MaxDelay
        BY <3>2, <3>3 DEF OldSocket
      <3>4. ASSUME NEW j \in DOMAIN s2c', j < k, Acking(s2c'[j])
            PROVE  ServerLease + s2c'[j].ttl <= MaxDelay
        <4>1. j + e \in DOMAIN s2c /\ s2c'[j] = s2c[j + e] /\ j + e < k + e
          BY <1>0, <3>4 DEF OldAnswers
        <4> QED BY <3>2, <3>4, <4>1
      <3> QED BY <2>0, <3>2, <3>3, <3>4
    <2>2. ASSUME NEW k \in DOMAIN sock', sock'[k].type = "nak"  PROVE Over'
      BY <2>0, <2>2 DEF OldSocket, Orderly, Refusals
    <2> QED BY <2>1, <2>2 DEF Refusals, Naking, Acking, Over
  <1> QED BY <1>2, <1>3, <1>4, <1>5 DEF Orderly

\* A client that waits for an OFFER has no ACK to expect, and what it has sent
\* so far cannot lead to one.
LEMMA FreshKept ==
    ASSUME FreshStart, Starting, NEW d, NEW e, OldAnswers(e), OldSocket,
           \A k \in DOMAIN c2s' : \/ k + d \in DOMAIN c2s /\ c2s'[k] = c2s[k + d]
                                  \/ Harmful(c2s'[k])
    PROVE  FreshStart'
  <1>1. NoAck /\ \A k \in DOMAIN c2s : Harmful(c2s[k])
    BY DEF FreshStart
  <1>2. NoAck'
    BY <1>1, NoAckKept
  <1>3. \A k \in DOMAIN c2s' : Harmful(c2s'[k])
    BY <1>1
  <1> QED BY <1>2, <1>3 DEF FreshStart, Harmful

\* A client that takes an OFFER has nothing to expect but the OFFERs and NAKs
\* to its DISCOVERs.
LEMMA OrderlyAtOffer ==
    ASSUME state' = "REQUESTING", NoAck', \A k \in DOMAIN c2s' : Harmful(c2s'[k])
    PROVE  Orderly'
  <1>1. /\ \A k \in DOMAIN s2c' : ~Acking(s2c'[k])
        /\ \A k \in DOMAIN sock' : sock'[k].type # "ack"
    BY DEF NoAck, Acking
  <1>2. InOrder' /\ SameAddress'
    BY <1>1 DEF InOrder, SameAddress, Harmful, Acking
  <1>3. state' \notin C!Leased
    BY DEF C!Leased
  <1>4. Claims' /\ Refusals'
    BY <1>1, <1>3 DEF Claims, Refusals, Over, Acking, Naking, C!Leased
  <1> QED BY <1>2, <1>4 DEF Orderly

-----------------------------------------------------------------------------
(* The network.                                                            *)

\* The server does nothing.
LEMMA ServerSame ==
    ASSUME ServerInv, UNCHANGED vars
    PROVE  ServerInv' /\ (ip' = ip => BackingKept)
  <1>1. leases' = leases /\ clock' = clock
    BY DEF vars
  <1>2. Inv'
    BY Step DEF ServerInv
  <1>3. Placed' /\ clock' <= MaxTime
    BY <1>1 DEF ServerInv, Placed
  <1>4. ip' = ip => BackingKept
    BY <1>1 DEF BackingKept
  <1> QED BY <1>2, <1>3, <1>4 DEF ServerInv

\* The client does nothing.
LEMMA ClientSame ==
    ASSUME ClientTypes, UNCHANGED cvars
    PROVE  /\ ClientTypes' /\ OldSocket
           /\ UNCHANGED <<state, ip, lease, age, held, due, num, sock>>
           /\ Engaged' <=> Engaged
           /\ Starting' <=> Starting
  <1>1. UNCHANGED <<state, mode, ip, srv, due, num, age, sock, lease, held>>
    BY DEF cvars
  <1> QED BY <1>1 DEF ClientTypes, OldSocket, Engaged, Starting, C!Leased, C!States

\* A step of the network or of the server: the messages under way are the old
\* ones, except for an answer that is neither an ACK nor a NAK.
LEMMA NetKept ==
    ASSUME NetInv, LinkTypes', ServerInv', UNCHANGED cvars,
           NEW d \in {0, 1}, NEW e \in {0, 1}, Follows(c2s', c2s, d), OldAnswers(e),
           Engaged => (NoAck /\ state \notin C!Leased) \/ BackingKept
    PROVE  NetInv'
  <1>1. /\ ClientTypes' /\ OldSocket
        /\ UNCHANGED <<state, ip, lease, age, held, due, num, sock>>
        /\ Engaged' <=> Engaged
        /\ Starting' <=> Starting
    BY ClientSame DEF NetInv
  <1>2. FreshStart'
    <2>1. CASE Starting
      BY <2>1, <1>1, FreshKept DEF NetInv, Follows
    <2>2. CASE ~Starting
      BY <2>2, <1>1 DEF FreshStart
    <2> QED BY <2>1, <2>2
  <1>3. ASSUME Engaged  PROVE Orderly'
    <2>1. OldMail(d)
      BY DEF Follows, OldMail
    <2>2. Orderly /\ age \in Nat /\ LinkTypes
      BY <1>3 DEF NetInv, ClientTypes
    <2> QED BY <1>1, <1>3, <2>1, <2>2, OrderlyKept
  <1> QED BY <1>1, <1>2, <1>3 DEF NetInv

\* Links that stay as they are.
LEMMA SameLinks ==
    ASSUME LinkTypes
    PROVE  /\ c2s' = c2s => Follows(c2s', c2s, 0)
           /\ s2c' = s2c => OldAnswers(0)
  <1>1. /\ \A k \in DOMAIN c2s : k \in Nat
        /\ \A k \in DOMAIN s2c : k \in Nat
    BY LinkEntries DEF LinkTypes
  <1>2. /\ \A k \in DOMAIN c2s : k + 0 = k
        /\ \A k \in DOMAIN s2c : k + 0 = k
    BY <1>1
  <1> QED BY <1>2 DEF Follows, OldAnswers

\* Messages may be lost.
LEMMA LoseStep ==
    ASSUME NetInv, Lose
    PROVE  NetInv'
  <1>1. UNCHANGED vars /\ UNCHANGED cvars /\ LinkTypes
    BY DEF Lose, NetInv
  <1>2. ServerInv' /\ BackingKept
    <2>1. ip' = ip
      BY <1>1 DEF cvars
    <2> QED BY <1>1, <2>1, ServerSame DEF NetInv
  <1>3. CASE c2s # << >> /\ c2s' = Tail(c2s) /\ UNCHANGED s2c
    <2>1. LinkTypes' /\ Follows(c2s', c2s, 1) /\ OldAnswers(0)
      BY <1>1, <1>3, TailFollows, SameLinks DEF LinkTypes
    <2> QED BY <1>1, <1>2, <2>1, NetKept
  <1>4. CASE s2c # << >> /\ s2c' = Tail(s2c) /\ UNCHANGED c2s
    <2>1. LinkTypes' /\ Follows(c2s', c2s, 0) /\ Follows(s2c', s2c, 1)
      BY <1>1, <1>4, TailFollows, SameLinks DEF LinkTypes
    <2>2. OldAnswers(1)
      BY <2>1 DEF Follows, OldAnswers
    <2> QED BY <1>1, <1>2, <2>1, <2>2, NetKept
  <1> QED BY <1>3, <1>4 DEF Lose

\* A reservation for r seconds is one for q < r seconds.
LEMMA BackingLess ==
    ASSUME Inv, NEW a, NEW q \in Int, NEW r \in Int, q <= r, Backing(leases, clock, a, r)
    PROVE  Backing(leases, clock, a, q)
  <1>1. clock \in Nat /\ \A s \in Slots : leases[s].expires \in Nat
    BY InvParts, TableAssumption DEF Table, Lease
  <1> QED BY <1>1 DEF Backing

\* What the client's socket gets is an answer, or junk.
LEMMA JunkAnswer == C!Junk \in Answers /\ C!Junk.type = "junk"
  BY DEF C!Junk, C!None, C!NoOption, Answers, None

\* An answer reaches the socket.
LEMMA DeliverStep ==
    ASSUME NetInv, Deliver
    PROVE  NetInv'
  <1> DEFINE p == IF Head(s2c).current THEN Head(s2c).msg ELSE C!Junk
  <1>1. /\ s2c # << >> /\ s2c' = Tail(s2c) /\ c2s' = c2s /\ UNCHANGED vars
        /\ state # "EXITED" /\ Len(sock) < 1 /\ sock' = Append(sock, p)
        /\ UNCHANGED <<state, ip, srv, due, num, mode, lease, age, held>>
    BY DEF Deliver, C!Arrive, C!conf, C!timers, C!iface
  <1>2. LinkTypes /\ ClientTypes /\ ServerInv /\ FreshStart
    BY DEF NetInv
  <1>3. /\ LinkTypes' /\ Follows(s2c', s2c, 1)
        /\ s2c[1] = Head(s2c) /\ Head(s2c) \in Carrying(Answers) /\ 1 \in DOMAIN s2c
    BY <1>1, <1>2, TailFollows DEF LinkTypes
  <1>4. /\ p \in Answers
        /\ p.type = "ack" => Acking(s2c[1]) /\ p = s2c[1].msg
        /\ p.type = "nak" => Naking(s2c[1])
    BY <1>3, JunkAnswer DEF Carrying, Acking, Naking
  <1> HIDE DEF p
  <1>5. sock' = <<p>>
    <2>1. sock \in Seq(Answers) /\ Len(sock) = 0
      BY <1>1, <1>2, LenProperties DEF ClientTypes
    <2>2. sock = << >>
      BY <2>1, EmptySeq
    <2> QED BY <1>1, <2>2
  <1>6. sock' \in Seq(Answers) /\ DOMAIN sock' = {1} /\ sock'[1] = p /\ Len(sock') = 1
    BY <1>4, <1>5
  <1>7. ClientTypes'
    BY <1>1, <1>2, <1>6 DEF ClientTypes, C!States
  <1>8. ServerInv' /\ leases' = leases /\ clock' = clock /\ Inv /\ Placed
    BY <1>1, <1>2, ServerSame DEF vars, ServerInv
  <1>9. NoAck => NoAck'
    <2> SUFFICES ASSUME NoAck PROVE NoAck'
      OBVIOUS
    <2>1. \A k \in DOMAIN s2c' : ~Acking(s2c'[k])
      BY <1>3 DEF NoAck, Follows
    <2>2. \A k \in DOMAIN sock' : sock'[k].type # "ack"
      BY <1>3, <1>4, <1>6 DEF NoAck
    <2> QED BY <2>1, <2>2 DEF NoAck, Acking
  <1>10. FreshStart'
    BY <1>1, <1>2, <1>9 DEF FreshStart, Starting, Harmful
  <1>11. ASSUME Engaged  PROVE Orderly'
    <2>0. InOrder /\ SameAddress /\ Claims /\ Refusals
      BY <1>11 DEF NetInv, Orderly
    <2>1. /\ \A k \in DOMAIN s2c : k \in Nat /\ s2c[k].ttl \in Nat
          /\ \A k \in DOMAIN s2c' : k \in Nat
      BY <1>2, <1>3, LinkEntries DEF LinkTypes
    <2>2. InOrder'
      BY <1>1, <1>9, <2>0 DEF InOrder, Harmful
    <2>3. SameAddress'
      <3>1. \A k \in DOMAIN c2s' : ~Harmful(c2s'[k]) => c2s'[k].msg.ip = ip'
        BY <1>1, <2>0 DEF SameAddress
      <3>2. \A k \in DOMAIN s2c' : Acking(s2c'[k]) => s2c'[k].msg.yiaddr = ip'
        BY <1>1, <1>3, <2>0 DEF SameAddress, Follows
      <3>3. \A k \in DOMAIN sock' : sock'[k].type = "ack" => sock'[k].yiaddr = ip'
        BY <1>1, <1>3, <1>4, <1>6, <2>0 DEF SameAddress
      <3> QED BY <3>1, <3>2, <3>3 DEF SameAddress, Acking, Harmful
    <2>4. Claims'
      <3> DEFINE B(r) == Backing(leases, clock, ip, r)
      <3>0. \A q, r \in Int : q <= r /\ B(r) => B(q)
        BY <1>8, BackingLess
      <3> HIDE DEF B
      <3>1. \A k \in DOMAIN s2c' : Acking(s2c'[k]) => B(ServerLease + s2c'[k].ttl - MaxDelay)
        BY <1>3, <2>0 DEF Claims, Follows, Backed, B
      <3>2. p.type = "ack" => B(ServerLease - MaxDelay)
        <4> SUFFICES ASSUME p.type = "ack" PROVE B(ServerLease - MaxDelay)
          OBVIOUS
        <4>1. B(ServerLease + s2c[1].ttl - MaxDelay)
          BY <1>3, <1>4, <2>0 DEF Claims, Backed, B
        <4>2. /\ ServerLease + s2c[1].ttl - MaxDelay \in Int
              /\ ServerLease - MaxDelay \in Int
              /\ ServerLease - MaxDelay <= ServerLease + s2c[1].ttl - MaxDelay
          BY <1>3, <2>1, Numbers
        <4> QED BY <3>0, <4>1, <4>2
      <3>3. \A k \in DOMAIN sock' : sock'[k].type = "ack" => B(ServerLease - MaxDelay)
        BY <1>6, <3>2
      <3>4. state' \in C!Leased =>
              held' = ip' /\ lease' = ServerLease /\ B(ServerLease - age' - MaxDelay)
        BY <1>1, <2>0 DEF Claims, Backed, B
      <3>5. \A r : B(r) <=> Backing(leases', clock', ip', r)
        BY <1>1, <1>8 DEF B
      <3> QED BY <3>1, <3>3, <3>4, <3>5 DEF Claims, Acking, C!Leased, Backed
    <2>5. Refusals'
      <3>0. Over => Over'
        BY <1>1 DEF Over, C!Leased
      <3>1. ASSUME NEW k \in DOMAIN s2c', Naking(s2c'[k])
            PROVE  /\ Over'
                   /\ \A j \in DOMAIN sock' : sock'[j].type = "ack" => ServerLease <= MaxDelay
                   /\ \A j \in DOMAIN s2c' :
                         j < k /\ Acking(s2c'[j]) => ServerLease + s2c'[j].ttl <= MaxDelay
        <4>1. k + 1 \in DOMAIN s2c /\ Naking(s2c[k + 1])
          BY <1>3, <3>1 DEF Follows
        <4>2. /\ Over
              /\ \A j \in DOMAIN s2c :
                    j < k + 1 /\ Acking(s2c[j]) => ServerLease + s2c[j].ttl <= MaxDelay
          BY <2>0, <4>1 DEF Refusals
        <4>3. p.type = "ack" => ServerLease <= MaxDelay
          <5> SUFFICES ASSUME p.type = "ack" PROVE ServerLease <= MaxDelay
            OBVIOUS
          <5>1. k \in Nat /\ k # 0
            BY <1>2, <1>3, <2>1, LenProperties DEF LinkTypes
          <5>2. ServerLease + s2c[1].ttl <= MaxDelay
            BY <1>3, <1>4, <4>2, <5>1
          <5> QED BY <1>3, <2>1, <5>2, Numbers
        <4>4. ASSUME NEW j \in DOMAIN s2c', j < k, Acking(s2c'[j])
              PROVE  ServerLease + s2c'[j].ttl <= MaxDelay
          <5>1. j + 1 \in DOMAIN s2c /\ s2c'[j] = s2c[j + 1] /\ j + 1 < k + 1
            BY <1>3, <2>1, <4>4 DEF Follows
          <5> QED BY <4>2, <4>4, <5>1
        <4> QED BY <1>6, <3>0, <4>2, <4>3, <4>4
      <3>2. ASSUME NEW k \in DOMAIN sock', sock'[k].type = "nak"  PROVE Over'
        BY <1>3, <1>4, <1>6, <2>0, <3>0, <3>2 DEF Refusals
      <3> QED BY <3>1, <3>2 DEF Refusals, Naking, Acking, Over
    <2> QED BY <2>2, <2>3, <2>4, <2>5 DEF Orderly
  <1>12. Engaged' <=> Engaged
    BY <1>1 DEF Engaged, C!Leased
  <1> QED BY <1>3, <1>7, <1>8, <1>10, <1>11, <1>12 DEF NetInv

\* What is left of the reservation when a second has passed.
LEMMA BackingTick ==
    ASSUME Inv, NEW a, NEW r \in Int, Backing(leases, clock, a, r + 1)
    PROVE  Backing(leases, clock + 1, a, r)
  <1>1. clock \in Nat /\ \A s \in Slots : leases[s].expires \in Nat
    BY InvParts, TableAssumption DEF Table, Lease
  <1> QED BY <1>1 DEF Backing

\* The messages of a link get older.
Older(link) == [k \in DOMAIN link |-> [link[k] EXCEPT !.ttl = @ - 1]]

\* They stay what they are.
LEMMA OlderEntries ==
    ASSUME NEW S, NEW link \in Seq(Carrying(S)), \A k \in DOMAIN link : link[k].ttl > 0
    PROVE  /\ Older(link) \in Seq(Carrying(S)) /\ DOMAIN Older(link) = DOMAIN link
           /\ \A k \in DOMAIN link : /\ Older(link)[k].msg = link[k].msg
                                     /\ Older(link)[k].current = link[k].current
                                     /\ Older(link)[k].ttl = link[k].ttl - 1
  <1>1. DOMAIN link = 1..Len(link) /\ Len(link) \in Nat
        /\ \A k \in DOMAIN link : link[k] \in Carrying(S)
    BY LenProperties, ElementOfSeq
  <1> DEFINE old(m) == [m EXCEPT !.ttl = @ - 1]
  <1>2. ASSUME NEW m \in Carrying(S), m.ttl > 0
        PROVE  /\ old(m) \in Carrying(S)
               /\ old(m).msg = m.msg /\ old(m).current = m.current
               /\ old(m).ttl = m.ttl - 1
    BY <1>2, Numbers DEF Carrying
  <1> HIDE DEF old
  <1>3. Older(link) = [k \in DOMAIN link |-> old(link[k])]
    BY DEF Older, old
  <1>4. Older(link) \in [1..Len(link) -> Carrying(S)]
    BY <1>1, <1>2, <1>3
  <1>5. Older(link) \in Seq(Carrying(S))
    BY <1>1, <1>4
  <1> QED BY <1>1, <1>2, <1>3, <1>5

\* A second passes.
LEMMA TickStep ==
    ASSUME NetInv, NetTick
    PROVE  NetInv'
  <1>1. LinkTypes /\ ClientTypes /\ ServerInv /\ FreshStart /\ Inv
    BY DEF NetInv, ServerInv
  <1>2. /\ c2s' = Older(c2s) /\ s2c' = Older(s2c) /\ Tick
        /\ \A k \in DOMAIN c2s : c2s[k].ttl > 0
        /\ \A k \in DOMAIN s2c : s2c[k].ttl > 0
    BY DEF NetTick, Older
  <1>3. /\ c2s' \in Seq(Carrying(Mail)) /\ DOMAIN c2s' = DOMAIN c2s
        /\ \A k \in DOMAIN c2s : /\ c2s'[k].msg = c2s[k].msg
                                 /\ c2s'[k].current = c2s[k].current
                                 /\ c2s'[k].ttl = c2s[k].ttl - 1
        /\ s2c' \in Seq(Carrying(Answers)) /\ DOMAIN s2c' = DOMAIN s2c
        /\ \A k \in DOMAIN s2c : /\ s2c'[k].msg = s2c[k].msg
                                 /\ s2c'[k].current = s2c[k].current
                                 /\ s2c'[k].ttl = s2c[k].ttl - 1
    BY <1>1, <1>2, OlderEntries DEF LinkTypes
  <1>4. /\ \A k \in DOMAIN c2s : Harmful(c2s'[k]) <=> Harmful(c2s[k])
        /\ \A k \in DOMAIN s2c : /\ Acking(s2c'[k]) <=> Acking(s2c[k])
                                 /\ Naking(s2c'[k]) <=> Naking(s2c[k])
    BY <1>3 DEF Harmful, Acking, Naking
  <1>5. /\ UNCHANGED <<state, ip, srv, num, mode, sock, lease, held>>
        /\ \/ sock = << >> /\ due # 0
           \/ state = "EXITED" /\ UNCHANGED due
        /\ age' \in {age, age + 1}
        /\ state \in C!Leased => age' = age + 1
    BY DEF NetTick, C!Tick, C!conf, C!net, C!iface, cvars, C!Leased
  <1>6. ClientTypes'
    BY <1>1, <1>5 DEF ClientTypes, C!States
  <1>7. /\ clock' = clock + 1 /\ leases' = leases /\ clock < MaxTime /\ clock \in Nat
        /\ \A s \in Slots : leases[s].expires \in Nat
    BY <1>1, <1>2, InvParts, TableAssumption DEF Tick, Table, Lease
  <1>8. ServerInv'
    <2>1. Inv'
      BY <1>1, <1>2, OtherStep
    <2>2. Placed'
      BY <1>1, <1>7 DEF ServerInv, Placed
    <2> QED BY <1>7, <2>1, <2>2, Numbers DEF ServerInv
  <1>9. NoAck => NoAck'
    BY <1>3, <1>4, <1>5 DEF NoAck, Acking
  <1>10. FreshStart'
    <2>1. Starting' => Starting
      BY <1>5 DEF Starting
    <2>2. (\A k \in DOMAIN c2s : Harmful(c2s[k])) => \A k \in DOMAIN c2s' : Harmful(c2s'[k])
      BY <1>3, <1>4
    <2> QED BY <1>1, <1>9, <2>1, <2>2 DEF FreshStart, Harmful
  <1>11. ASSUME Engaged  PROVE Orderly'
    <2>0. InOrder /\ SameAddress /\ Claims /\ Refusals
      BY <1>11 DEF NetInv, Orderly
    <2>1. DOMAIN sock = {} /\ DOMAIN sock' = {}
      BY <1>5, <1>11 DEF Engaged, C!Leased
    <2>2. /\ age \in Nat /\ \A k \in DOMAIN s2c : s2c[k].ttl \in Nat
      BY <1>1, LinkEntries DEF LinkTypes, ClientTypes
    <2>3. InOrder'
      <3> SUFFICES ASSUME NEW k \in DOMAIN c2s', Harmful(c2s'[k])
                   PROVE  /\ state' = "REQUESTING" /\ NoAck'
                          /\ \A j \in DOMAIN c2s' : j < k => Harmful(c2s'[j])
        BY DEF InOrder, Harmful
      <3>1. k \in DOMAIN c2s /\ Harmful(c2s[k])
        BY <1>3, <1>4
      <3>2. /\ state = "REQUESTING" /\ NoAck
            /\ \A j \in DOMAIN c2s : j < k => Harmful(c2s[j])
        BY <2>0, <3>1 DEF InOrder
      <3> QED BY <1>3, <1>4, <1>5, <1>9, <3>2
    <2>4. SameAddress'
      BY <1>3, <1>4, <1>5, <2>0, <2>1 DEF SameAddress, Acking, Harmful
    <2>5. Claims'
      <3> DEFINE B(r) == Backing(leases, clock, ip, r)
                 B1(r) == Backing(leases', clock', ip', r)
      <3>0. \A r \in Int : B(r + 1) => B1(r)
        BY <1>1, <1>5, <1>7, BackingTick
      <3> HIDE DEF B, B1
      <3>1. ASSUME NEW k \in DOMAIN s2c', Acking(s2c'[k])
            PROVE  B1(ServerLease + s2c'[k].ttl - MaxDelay)
        <4> DEFINE r == ServerLease + s2c'[k].ttl - MaxDelay
        <4>1. B(ServerLease + s2c[k].ttl - MaxDelay)
          BY <1>3, <1>4, <2>0, <3>1 DEF Claims, Backed, B
        <4>2. r \in Int /\ ServerLease + s2c[k].ttl - MaxDelay = r + 1
          BY <1>3, <2>2, Numbers
        <4> HIDE DEF r
        <4>3. B1(r)
          BY <3>0, <4>1, <4>2
        <4> QED BY <4>3 DEF r
      <3>2. ASSUME state' \in C!Leased
            PROVE  held' = ip' /\ lease' = ServerLease /\ B1(ServerLease - age' - MaxDelay)
        <4> DEFINE r == ServerLease - age' - MaxDelay
        <4>1. held = ip /\ lease = ServerLease /\ B(ServerLease - age - MaxDelay)
          BY <1>5, <2>0, <3>2 DEF Claims, Backed, B
        <4>2. r \in Int /\ ServerLease - age - MaxDelay = r + 1
          BY <1>5, <2>2, <3>2, Numbers
        <4> HIDE DEF r
        <4>3. B1(r)
          BY <3>0, <4>1, <4>2
        <4> QED BY <1>5, <4>1, <4>3 DEF r
      <3> QED BY <2>1, <3>1, <3>2 DEF Claims, Acking, C!Leased, Backed, B1
    <2>6. Refusals'
      <3>0. Over => Over'
        <4>1. state' \in C!Leased => state \in C!Leased /\ age' = age + 1
          BY <1>5
        <4>2. ServerLease - age <= MaxDelay => ServerLease - (age + 1) <= MaxDelay
          BY <2>2, Numbers
        <4> QED BY <4>1, <4>2 DEF Over, C!Leased
      <3>1. ASSUME NEW k \in DOMAIN s2c', Naking(s2c'[k])
            PROVE  /\ Over'
                   /\ \A j \in DOMAIN s2c' :
                         j < k /\ Acking(s2c'[j]) => ServerLease + s2c'[j].ttl <= MaxDelay
        <4>1. k \in DOMAIN s2c /\ Naking(s2c[k])
          BY <1>3, <1>4, <3>1
        <4>2. /\ Over
              /\ \A j \in DOMAIN s2c :
                    j < k /\ Acking(s2c[j]) => ServerLease + s2c[j].ttl <= MaxDelay
          BY <2>0, <4>1 DEF Refusals
        <4>3. ASSUME NEW j \in DOMAIN s2c', j < k, Acking(s2c'[j])
              PROVE  ServerLease + s2c'[j].ttl <= MaxDelay
          <5>1. j \in DOMAIN s2c /\ ServerLease + s2c[j].ttl <= MaxDelay
            BY <1>3, <1>4, <4>2, <4>3
          <5> QED BY <1>3, <2>2, <5>1, Numbers
        <4> QED BY <3>0, <4>2, <4>3
      <3> QED BY <2>1, <3>1 DEF Refusals, Naking, Acking, Over
    <2> QED BY <2>3, <2>4, <2>5, <2>6 DEF Orderly
  <1>12. Engaged' <=> Engaged
    BY <1>5 DEF Engaged, C!Leased
  <1> QED BY <1>3, <1>6, <1>8, <1>10, <1>11, <1>12 DEF NetInv, LinkTypes

-----------------------------------------------------------------------------
(* The table.                                                              *)

\* An entry of the range, or an expired one without an address.
InPlace(e, now) == e.yiaddr \in Start..End \/ (e.yiaddr = None /\ e.expires <= now)

\* Placed in the next state.
LEMMA PlacedNext ==
    ASSUME \A s \in Slots : InPlace(leases'[s], clock')
    PROVE  Placed'
  BY DEF Placed, InPlace

\* A table that is not changed.
LEMMA PlacedSame ==
    ASSUME ServerInv, leases' = leases, clock' = clock
    PROVE  Placed'
  BY DEF ServerInv, Placed

\* add_lease enters an address of the range.
LEMMA AddPlaced ==
    ASSUME ServerInv, NEW c \in Client, NEW a \in Start..End, NEW secs \in Nat,
           NEW ack \in BOOLEAN, clock' = clock,
           leases' = add_lease(leases, c, a, secs, clock, ack)
    PROVE  Placed'
  <1>1. leases \in Table /\ clock \in Nat /\ c \in Owner /\ a \in Addr
    BY InvParts, RangeAssumption DEF ServerInv, Owner, Addr
  <1>2. ASSUME NEW s \in Slots  PROVE InPlace(leases'[s], clock')
    <2>1. \/ Entered(leases'[s], c, a, secs, clock)
          \/ leases'[s] = Zeroed
          \/ leases'[s] = leases[s]
      BY <1>1, AddLeaseOne
    <2>2. InPlace(leases[s], clock)
      BY DEF ServerInv, Placed, InPlace
    <2> QED BY <1>1, <2>1, <2>2 DEF Entered, InPlace, Zeroed
  <1> QED BY <1>2, PlacedNext

\* The recorded address of a dynamic client is one of the range.
LEMMA RecordedInRange ==
    ASSUME ServerInv, NEW c \in Client, ~IsStatic(c), NEW a \in RecordedAddr(c)
    PROVE  a \in Start..End
  <1>1. PICK s \in find_lease_by_chaddr(leases, c) : a = leases[s].yiaddr
    BY DEF RecordedAddr
  <1>2. s \in Slots
    BY <1>1, InvParts, OwnSlot DEF ServerInv
  <1>3. a # None
    BY RecordedNotNone DEF ServerInv
  <1> QED BY <1>1, <1>2, <1>3 DEF ServerInv, Placed

\* sendACK.
LEMMA AckPlaced ==
    ASSUME ServerInv, NEW c \in Client, NEW a, IsStatic(c) \/ a \in Start..End,
           sendACK(c, a, NoOption), clock' = clock
    PROVE  Placed'
  <1>1. CASE leases' = leases
    BY <1>1, PlacedSame
  <1>2. CASE /\ ~IsStatic(c)
             /\ leases' = add_lease(leases, c, a, AckLease(NoOption), clock, TRUE)
    <2>1. AckLease(NoOption) \in Nat
      BY AckLeaseTime
    <2>2. \A ack \in BOOLEAN :
             leases' = add_lease(leases, c, a, AckLease(NoOption), clock, ack) => Placed'
      BY <1>2, <2>1, AddPlaced
    <2> QED BY <1>2, <2>2
  <1> QED BY <1>1, <1>2, Zenon DEF sendACK

\* What a handler leaves behind.
LEMMA ServerFrom ==
    ASSUME ServerInv, NEW c \in Client, NEW b \in Nat, Handled, Receive(c, b), Placed'
    PROVE  ServerInv' /\ clock' = clock /\ out' \in Reply
  <1>1. Inv' /\ clock' = clock
    BY HandledInv DEF ServerInv, Receive
  <1> QED BY <1>1 DEF ServerInv, Handled

\* A DISCOVER of any client.
LEMMA ServeDiscover ==
    ASSUME ServerInv, NEW c \in Client, NEW req \in Nat, NEW busy,
           Discover(c, req, NoOption, busy)
    PROVE  /\ ServerInv' /\ clock' = clock /\ out' \in Reply
           /\ out'.type \in {"none", "OFFER"}
           /\ \A b : Undisturbed(c, b)
  <1> DEFINE own == find_lease_by_chaddr(leases, c)
             a == OfferAddr(own, req, busy)
  <1>1. Inv /\ Receive(c, None) /\ clock' = clock /\ None \in Nat
    BY DEF ServerInv, Discover, Receive, None
  <1>2. Handled /\ \A b : Undisturbed(c, b)
    BY <1>1, DiscoverStep
  <1>3. /\ out'.type \in {"none", "OFFER"}
        /\ \/ leases' = leases
           \/ a # None /\ leases' = add_lease(leases, c, a, OfferTime, clock, FALSE)
    <2>1. NoReply.type = "none"
      BY DEF NoReply
    <2> DEFINE o(x, y) == [type |-> "OFFER", yiaddr |-> x, lease |-> y]
    <2>2. \A x, y : o(x, y).type = "OFFER"
      OBVIOUS
    <2>3. \/ leases' = leases /\ (out' = NoReply \/ \E x, y : out' = o(x, y))
          \/ /\ a # None /\ leases' = add_lease(leases, c, a, OfferTime, clock, FALSE)
             /\ (out' = NoReply \/ \E x, y : out' = o(x, y))
      <3> HIDE DEF o
      <3>1. CASE IsStatic(c)
        BY <3>1, Zenon DEF Discover, o
      <3>2. CASE ~IsStatic(c)
        BY <3>2, Zenon DEF Discover, o
      <3> QED BY <3>1, <3>2
    <2> HIDE DEF o, a
    <2> QED BY <2>1, <2>2, <2>3
  <1>4. Placed'
    <2>1. CASE leases' = leases
      BY <1>1, <2>1, PlacedSame
    <2>2. CASE a # None /\ leases' = add_lease(leases, c, a, OfferTime, clock, FALSE)
      <3>1. a \in Start..End
        <4>1. /\ a \in Addr
              /\ a \in Start..End \/ \E s \in Slots : leases[s].chaddr = c /\ leases[s].yiaddr = a
          BY <1>1, <2>2, OfferAddrFree
        <4> HIDE DEF a
        <4> QED BY <2>2, <4>1 DEF ServerInv, Placed
      <3> HIDE DEF a
      <3>2. \A ack \in BOOLEAN :
               leases' = add_lease(leases, c, a, OfferTime, clock, ack) => Placed'
        BY <1>1, <3>1, ConfigAssumption, AddPlaced
      <3> QED BY <2>2, <3>2
    <2> HIDE DEF a
    <2> QED BY <1>3, <2>1, <2>2
  <1>5. ServerInv' /\ clock' = clock /\ out' \in Reply
    BY <1>1, <1>2, <1>4, ServerFrom
  <1> QED BY <1>2, <1>3, <1>5

\* The REQUEST of any client.
LEMMA ServeRequest ==
    ASSUME ServerInv, NEW c \in Client, NEW req \in Nat, NEW ours,
           Select(c, ours, req, NoOption) \/ Renew(c, req, NoOption)
    PROVE  /\ ServerInv' /\ clock' = clock /\ out' \in Reply
           /\ req \in RecordedAddr(c) => \A b : Undisturbed(c, b)
  <1>1. Inv /\ None \in Nat
    BY DEF ServerInv, None
  <1>2. \E b \in Nat : Receive(c, b)
    BY <1>1, Zenon DEF Select, Renew
  <1>3. clock' = clock
    BY <1>2 DEF Receive
  <1>4. Handled /\ (req \in RecordedAddr(c) => \A b : Undisturbed(c, b))
    BY <1>1, SelectStep, RenewStep
  <1>5. Placed'
    <2>1. \/ sendACK(c, req, NoOption) /\ (IsStatic(c) \/ req \in Start..End)
          \/ leases' = leases
      <3>1. CASE req \in RecordedAddr(c) /\ sendACK(c, req, NoOption)
        BY <3>1, RecordedInRange
      <3>2. CASE sendACK(c, req, NoOption) /\ valid_ip(req)
        BY <3>2 DEF valid_ip
      <3>3. CASE sendNAK \/ silent
        BY <3>3 DEF sendNAK, silent
      <3> QED BY <3>1, <3>2, <3>3, Zenon DEF Select, Renew
    <2> QED BY <1>3, <2>1, AckPlaced, PlacedSame
  <1> QED BY <1>2, <1>4, <1>5, ServerFrom

\* A RELEASE or a DECLINE of any client.
LEMMA ServeLeave ==
    ASSUME ServerInv, NEW c \in Client, Release(c) \/ Decline(c)
    PROVE  /\ ServerInv' /\ clock' = clock /\ out' = NoReply
           /\ \A b : Undisturbed(c, b)
  <1>1. Inv /\ None \in Nat /\ Receive(c, None) /\ clock' = clock /\ out' = NoReply
    BY DEF ServerInv, None, Release, Decline, Receive
  <1>2. Handled /\ \A b : Undisturbed(c, b)
    BY <1>1, ReleaseStep, DeclineStep
  <1>3. ASSUME NEW s \in Slots  PROVE InPlace(leases'[s], clock')
    <2> DEFINE mine == ~IsStatic(c) /\ s \in find_lease_by_chaddr(leases, c)
    <2>1. InPlace(leases[s], clock) /\ leases[s] \in Lease
      BY <1>1, InvParts DEF ServerInv, Placed, InPlace, Table
    <2>2. CASE ~mine
      <3>1. leases'[s] = leases[s]
        BY <2>2, Zenon DEF Release, Decline
      <3> QED BY <1>1, <2>1, <3>1
    <2>3. CASE mine
      <3>1. leases[s].chaddr = c /\ c # Blank
        BY <1>1, <2>3, InvParts, OwnSlot, ClientAssumption
      <3>2. leases[s].yiaddr # None
        BY <1>1, <3>1, InvParts DEF Consistent, Bound
      <3>3. \/ leases'[s] = [leases[s] EXCEPT !.expires = clock % Word]
            \/ leases'[s] = [leases[s] EXCEPT !.chaddr = Blank,
                                              !.expires = (clock + DeclineTime) % Word]
        BY <2>3, Zenon DEF Release, Decline
      <3>4. leases'[s].yiaddr = leases[s].yiaddr
        BY <2>1, <3>3 DEF Lease
      <3> QED BY <2>1, <3>2, <3>4 DEF InPlace
    <2> QED BY <2>2, <2>3
  <1> QED BY <1>1, <1>2, <1>3, PlacedNext, ServerFrom

-----------------------------------------------------------------------------
(* The server and its other clients.                                       *)

\* A packet of another client leaves the reservation alone.
LEMMA OthersBacking ==
    ASSUME ServerInv, NEW c \in Client \ {Me}, \A b : Undisturbed(c, b),
           clock' = clock, ip' = ip
    PROVE  BackingKept
  <1>1. Inv /\ leases \in Table /\ clock \in Nat
    BY InvParts DEF ServerInv
  <1>2. ASSUME NEW s \in Slots, leases[s].chaddr = Me, leases[s].expires > clock
        PROVE  leases'[s] = leases[s]
    <2>1. leases[s].yiaddr # None /\ leases[s].yiaddr \in Nat
          /\ leases[s].expires \in Nat
      BY <1>1, <1>2, InvParts, Numbers DEF Consistent, Bound, Table, Lease
    <2>2. Live(s)
      BY <1>1, <1>2, <2>1 DEF Live, lease_expired
    <2>3. Undisturbed(c, None)
      OBVIOUS
    <2> QED BY <1>2, <2>1, <2>2, <2>3 DEF Undisturbed
  <1>3. \A s \in Slots : leases[s].expires \in Nat
    BY <1>1, TableAssumption DEF Table, Lease
  <1>4. ASSUME NEW r \in Int, Backing(leases, clock, ip, r)
        PROVE  Backing(leases', clock', ip', r)
    <2> SUFFICES ASSUME r > 0
                 PROVE  \E s \in Slots : /\ leases'[s].chaddr = Me /\ leases'[s].yiaddr = ip
                                         /\ leases'[s].expires >= clock + r
      BY DEF Backing
    <2>1. PICK s \in Slots : /\ leases[s].chaddr = Me /\ leases[s].yiaddr = ip
                             /\ leases[s].expires >= clock + r
      BY <1>4 DEF Backing
    <2>2. leases[s].expires > clock
      BY <1>1, <1>3, <2>1
    <2> QED BY <1>2, <2>1, <2>2
  <1> QED BY <1>4 DEF BackingKept

\* A recorded address is a number.
LEMMA RecordedNat ==
    ASSUME Inv, NEW c
    PROVE  RecordedAddr(c) \subseteq Nat
  <1>1. \A k \in find_static_lease_by_chaddr(c) : k \in StaticSlots
    BY DEF find_static_lease_by_chaddr, First
  <1>2. \A k \in StaticSlots : StaticLeases[k].yiaddr \in Nat
    BY StaticRecord
  <1>3. \A s \in find_lease_by_chaddr(leases, c) : leases[s].yiaddr \in Nat
    BY InvParts DEF find_lease_by_chaddr, First, Table, Lease
  <1> QED BY <1>1, <1>2, <1>3 DEF RecordedAddr

\* Another client.
LEMMA OtherClientStep ==
    ASSUME NetInv, OtherClient
    PROVE  NetInv'
  <1>1. PICK c \in Client \ {Me} :
          \/ \E req \in {None} \cup Asked, busy \in Probed :
                Discover(c, req, NoOption, busy)
          \/ \E req \in RecordedAddr(c) :
                Select(c, TRUE, req, NoOption) \/ Renew(c, req, NoOption)
          \/ Release(c)
    BY Zenon DEF OtherClient
  <1>2. UNCHANGED cvars /\ c2s' = c2s /\ s2c' = s2c /\ ip' = ip
    BY DEF OtherClient, links, cvars
  <1>3. ServerInv /\ LinkTypes /\ Inv /\ c \in Client
    BY DEF NetInv, ServerInv
  <1>4. ServerInv' /\ clock' = clock /\ \A b : Undisturbed(c, b)
    <2>1. ASSUME NEW req \in {None} \cup Asked, NEW busy, Discover(c, req, NoOption, busy)
          PROVE  ServerInv' /\ clock' = clock /\ \A b : Undisturbed(c, b)
      BY <1>3, <2>1, AskedNat, ServeDiscover
    <2>2. ASSUME NEW req \in RecordedAddr(c), NEW ours,
                 Select(c, ours, req, NoOption) \/ Renew(c, req, NoOption)
          PROVE  ServerInv' /\ clock' = clock /\ \A b : Undisturbed(c, b)
      BY <1>3, <2>2, RecordedNat, ServeRequest
    <2>3. ASSUME Release(c)
          PROVE  ServerInv' /\ clock' = clock /\ \A b : Undisturbed(c, b)
      BY <1>3, <2>3, ServeLeave
    <2> QED BY <1>1, <2>1, <2>2, <2>3, Zenon
  <1>5. BackingKept
    BY <1>2, <1>3, <1>4, OthersBacking
  <1>6. LinkTypes' /\ Follows(c2s', c2s, 0) /\ OldAnswers(0)
    BY <1>2, <1>3, SameLinks DEF LinkTypes
  <1> QED BY <1>2, <1>4, <1>5, <1>6, NetKept

\* The server enters its loop, or writes the lease file.
LEMMA AloneStep ==
    ASSUME NetInv, ServerAlone
    PROVE  NetInv'
  <1>1. /\ FinishLoad \/ AutoWrite \/ Usr1
        /\ UNCHANGED cvars /\ c2s' = c2s /\ s2c' = s2c /\ ip' = ip
        /\ leases' = leases /\ clock' = clock
    BY DEF ServerAlone, FinishLoad, AutoWrite, Usr1, links, cvars
  <1>2. ServerInv /\ LinkTypes /\ Inv
    BY DEF NetInv, ServerInv
  <1>3. ServerInv'
    <2>1. Inv'
      BY <1>1, <1>2, OtherStep
    <2> QED BY <1>1, <1>2, <2>1, PlacedSame DEF ServerInv
  <1>4. BackingKept
    BY <1>1 DEF BackingKept
  <1>5. LinkTypes' /\ Follows(c2s', c2s, 0) /\ OldAnswers(0)
    BY <1>1, <1>2, SameLinks DEF LinkTypes
  <1> QED BY <1>1, <1>3, <1>4, <1>5, NetKept

\* With a slot for every address, the table is not full of unexpired entries
\* of other addresses.
LEMMA RoomLeft ==
    ASSUME Sized, ServerInv, NEW a \in Start..End,
           \A s \in Slots : leases[s].expires > clock /\ leases[s].yiaddr # a
    PROVE  FALSE
  <1> DEFINE R == (Start..End) \ {a}
             f == [s \in Slots |-> leases[s].yiaddr]
  <1>1. leases \in Table /\ Consistent(leases) /\ clock \in Nat
        /\ \A s \in Slots : leases[s].expires \in Nat
    BY InvParts, TableAssumption DEF ServerInv, Table, Lease
  <1>2. \A s \in Slots : leases[s].yiaddr \in R
    <2>1. \A s \in Slots : ~(leases[s].expires <= clock)
      BY <1>1
    <2> QED BY <2>1 DEF ServerInv, Placed
  <1>3. f \in [Slots -> R]
    BY <1>2
  <1>4. IsFiniteSet(Start..End) /\ Cardinality(Start..End) = End - Start + 1
    BY Numbers, FS_Interval
  <1>5. IsFiniteSet(R) /\ Cardinality(R) = End - Start
    <2>1. IsFiniteSet(R) /\ Cardinality(R) = Cardinality(Start..End) - 1
      BY <1>4, FS_RemoveElement, Zenon
    <2>2. End \in Nat /\ Start \in Nat
      BY Numbers
    <2> HIDE DEF R
    <2> QED BY <1>4, <2>1, <2>2
  <1>6. IsFiniteSet(Slots) /\ Cardinality(Slots) = MaxLeases
    BY Numbers, FS_Interval DEF Slots
  <1>7. Cardinality(R) < Cardinality(Slots)
    BY <1>5, <1>6, Numbers DEF Sized
  <1> HIDE DEF R, f
  <1>8. \E s, t \in Slots : s # t /\ f[s] = f[t]
    BY <1>3, <1>5, <1>6, <1>7, FS_PigeonHole, Zenon
  <1>9. PICK s \in Slots, t \in Slots : s # t /\ leases[s].yiaddr = leases[t].yiaddr
    BY <1>8 DEF f
  <1>10. leases[s].yiaddr = None
    BY <1>1, <1>9 DEF Consistent, OneAddress
  <1> QED BY <1>2, <1>10, Numbers DEF R, None

\* sendACK for an address of the range enters it in the table for the time of
\* the ACK, or fails to send.
LEMMA AckEntered ==
    ASSUME Sized, ServerInv, NEW a \in Start..End, sendACK(Me, a, NoOption)
    PROVE  \/ out' = NoReply /\ leases' = leases
           \/ /\ out' = [type |-> "ACK", yiaddr |-> a, lease |-> ServerLease]
              /\ \E s \in Slots : /\ leases'[s].chaddr = Me /\ leases'[s].yiaddr = a
                                  /\ leases'[s].expires = clock + ServerLease
  <1>1. leases \in Table /\ clock \in Nat /\ clock <= MaxTime /\ Me \in Owner /\ a \in Addr
    BY InvParts, Numbers, RangeAssumption DEF ServerInv, Owner, Addr
  <1>2. AckLease(NoOption) = ServerLease
    BY DEF AckLease
  <1>3. \/ out' = NoReply /\ leases' = leases
        \/ /\ out' = [type |-> "ACK", yiaddr |-> a, lease |-> ServerLease]
           /\ leases' = add_lease(leases, Me, a, ServerLease, clock, TRUE)
    BY <1>2, Zenon DEF sendACK, Sized
  <1>4. ASSUME leases' = add_lease(leases, Me, a, ServerLease, clock, TRUE)
        PROVE  \E s \in Slots : Entered(leases'[s], Me, a, ServerLease, clock)
    <2> SUFFICES ASSUME \A s \in Slots : ~Entered(leases'[s], Me, a, ServerLease, clock)
                 PROVE  FALSE
      OBVIOUS
    <2> DEFINE U(ack) == add_lease(leases, Me, a, ServerLease, clock, ack)
    <2>1. \A ack \in BOOLEAN :
            /\ \A s \in Slots :
                  \/ Entered(U(ack)[s], Me, a, ServerLease, clock)
                  \/ U(ack)[s] = Zeroed
                  \/ U(ack)[s] = leases[s] /\ leases[s].yiaddr # a
            /\ \/ \E s \in Slots : Entered(U(ack)[s], Me, a, ServerLease, clock)
               \/ \A s \in Slots : U(ack)[s] = leases[s] /\ ~lease_expired(U(ack)[s], clock)
      BY <1>1, Numbers, AddLeaseEntry
    <2>2. leases' = U(TRUE)
      BY <1>4
    <2> HIDE DEF U
    <2>3. \A s \in Slots : /\ leases'[s] = Zeroed \/ leases[s].yiaddr # a
                           /\ leases'[s] = leases[s] /\ ~lease_expired(leases'[s], clock)
      BY <2>1, <2>2
    <2>4. ~(0 > clock) /\ Zeroed.expires = 0 /\ \A s \in Slots : leases[s].expires \in Nat
      BY <1>1, TableAssumption DEF Zeroed, Table, Lease
    <2>5. \A s \in Slots : leases[s].expires > clock /\ leases[s].yiaddr # a
      BY <1>1, <2>3, <2>4 DEF lease_expired
    <2> QED BY <2>5, RoomLeft
  <1>5. (clock + ServerLease) % Word = clock + ServerLease
    BY <1>1, Numbers, NoRemainder DEF Sized
  <1> QED BY <1>3, <1>4, <1>5 DEF Entered

\* The address of a client's entry is its recorded address.
LEMMA OwnRecorded ==
    ASSUME Inv, NEW c \in Client, ~IsStatic(c), NEW s \in Slots, leases[s].chaddr = c
    PROVE  leases[s].yiaddr \in RecordedAddr(c)
  <1> DEFINE S == {x \in Slots : leases[x].chaddr = c}
  <1>1. S \subseteq Nat /\ s \in S
    BY TableAssumption DEF Slots
  <1>2. \A t \in S : t = s
    BY InvParts, ClientAssumption DEF Consistent, OneClient
  <1>3. First(S) = {s}
    <2> HIDE DEF S
    <2> QED BY <1>1, <1>2, FirstOfOne
  <1>4. s \in find_lease_by_chaddr(leases, c)
    BY <1>3 DEF find_lease_by_chaddr
  <1> QED BY <1>4 DEF RecordedAddr

\* The server's answers to the client's REQUEST for address a: silence, an ACK
\* that is in the table, or a NAK because the table has no such entry.
Granting(a) ==
    /\ out'.type = "ACK" /\ out'.yiaddr = a /\ out'.lease = ServerLease
    /\ \E s \in Slots : /\ leases'[s].chaddr = Me /\ leases'[s].yiaddr = a
                        /\ leases'[s].expires = clock + ServerLease
Refusing(a) ==
    /\ out'.type = "NAK" /\ leases' = leases
    /\ \A s \in Slots : leases[s].chaddr = Me => leases[s].yiaddr # a

\* The REQUEST of the client itself.
LEMMA OwnRequest ==
    ASSUME Sized, ServerInv, NEW a \in Nat, NEW ours,
           Select(Me, ours, a, NoOption) \/ Renew(Me, a, NoOption)
    PROVE  (out'.type = "none" /\ leases' = leases) \/ Granting(a) \/ Refusing(a)
  <1>1. ~IsStatic(Me) /\ Me \in Client /\ Inv /\ NoReply.type = "none"
    BY Numbers DEF Sized, ServerInv, NoReply
  <1>2. ASSUME sendACK(Me, a, NoOption), a \in Start..End
        PROVE  (out'.type = "none" /\ leases' = leases) \/ Granting(a)
    BY <1>1, <1>2, AckEntered DEF Granting
  <1>3. CASE a \in RecordedAddr(Me) /\ sendACK(Me, a, NoOption)
    BY <1>1, <1>2, <1>3, RecordedInRange
  <1>4. CASE valid_ip(a) /\ sendACK(Me, a, NoOption)
    BY <1>2, <1>4 DEF valid_ip
  <1>5. CASE silent
    BY <1>1, <1>5 DEF silent
  <1>6. CASE sendNAK /\ a \notin RecordedAddr(Me)
    BY <1>1, <1>6, OwnRecorded DEF sendNAK, Refusing
  <1> QED BY <1>3, <1>4, <1>5, <1>6, Zenon DEF Select, Renew

\* A message of the client at the server.
LEMMA ServeMail ==
    ASSUME Sized, ServerInv, NEW m \in Mail, Serve(m)
    PROVE  /\ ServerInv' /\ clock' = clock /\ out' \in Reply
           /\ m.type \in {"discover", "release", "decline"} => out'.type \in {"none", "OFFER"}
           /\ m.type \notin {"discover", "release", "decline"} =>
                (out'.type = "none" /\ leases' = leases) \/ Granting(m.ip) \/ Refusing(m.ip)
  <1>1. m.ip \in Nat /\ Me \in Client
    BY Numbers DEF Mail
  <1>2. CASE m.type = "discover"
    BY <1>1, <1>2, ServeDiscover DEF Serve
  <1>3. CASE m.type \in {"select", "renew"}
    <2>1. \E ours : Select(Me, ours, m.ip, NoOption) \/ Renew(Me, m.ip, NoOption)
      BY <1>3 DEF Serve
    <2>2. ServerInv' /\ clock' = clock /\ out' \in Reply
      BY <1>1, <2>1, ServeRequest
    <2>3. (out'.type = "none" /\ leases' = leases) \/ Granting(m.ip) \/ Refusing(m.ip)
      BY <1>1, <2>1, OwnRequest
    <2> QED BY <1>3, <2>2, <2>3
  <1>4. CASE m.type \in {"release", "decline"}
    <2>1. Release(Me) \/ Decline(Me)
      BY <1>4 DEF Serve
    <2>2. NoReply \in Reply /\ NoReply.type = "none"
      BY PlainReply DEF NoReply
    <2> QED BY <1>1, <1>4, <2>1, <2>2, ServeLeave
  <1> QED BY <1>2, <1>3, <1>4 DEF Mail

\* The reply on the way to the client.
LEMMA AnswerTypes ==
    ASSUME NEW r \in Reply, r.type \in {"OFFER", "ACK", "NAK"},
           r.type = "ACK" => r.lease = ServerLease
    PROVE  /\ Answer(r) \in Answers
           /\ Answer(r).type = "ack" <=> r.type = "ACK"
           /\ Answer(r).type = "nak" <=> r.type = "NAK"
           /\ r.type = "ACK" => Answer(r).yiaddr = r.yiaddr
  <1>0. r.yiaddr \in Nat /\ ServerLease \in Int /\ None \in Nat /\ C!None = None
        /\ C!NoOption = -1
    BY Numbers DEF Reply, None, C!None, C!NoOption
  <1>1. CASE r.type = "OFFER"
    <2>1. Answer(r) = C!Offer(Server, r.yiaddr)
      BY <1>1 DEF Answer
    <2> QED BY <1>0, <1>1, <2>1 DEF C!Offer, Answers
  <1>2. CASE r.type = "ACK"
    <2>1. Answer(r) = C!Ack(r.yiaddr, ServerLease)
      BY <1>2 DEF Answer
    <2> QED BY <1>0, <1>2, <2>1 DEF C!Ack, Answers
  <1>3. CASE r.type = "NAK"
    <2>1. Answer(r) = C!Nak(Server)
      BY <1>3 DEF Answer
    <2> QED BY <1>0, <1>3, <2>1 DEF C!Nak, Answers
  <1> QED BY <1>1, <1>2, <1>3

\* A request for the client's address is handled: no message that could end
\* the reservation is under way behind it.
LEMMA NothingHarmful ==
    ASSUME LinkTypes, InOrder, SameAddress, c2s # << >>, ~Harmful(c2s[1]), ip' = ip,
           c2s' = Tail(c2s)
    PROVE  InOrder' /\ \A k \in DOMAIN c2s' : ~Harmful(c2s'[k]) => c2s'[k].msg.ip = ip'
  <1>1. 1 \in DOMAIN c2s /\ Follows(c2s', c2s, 1) /\ DOMAIN c2s = 1..Len(c2s)
        /\ Len(c2s) \in Nat
    BY TailFollows, LenProperties DEF LinkTypes
  <1>2. \A k \in DOMAIN c2s : ~Harmful(c2s[k])
    <2> SUFFICES ASSUME NEW k \in DOMAIN c2s, Harmful(c2s[k]) PROVE FALSE
      OBVIOUS
    <2>1. k # 1 /\ 1 < k
      BY <1>1
    <2> QED BY <1>1, <2>1 DEF InOrder
  <1>3. \A k \in DOMAIN c2s' : ~Harmful(c2s'[k]) /\ c2s'[k].msg.ip = ip'
    BY <1>1, <1>2 DEF Follows, SameAddress
  <1> QED BY <1>3 DEF InOrder, Harmful

\* The server grants the request: every claim has the whole lease to go.
LEMMA OrderlyAck ==
    ASSUME LinkTypes, LinkTypes', ClientTypes, Orderly, UNCHANGED cvars,
           c2s # << >>, ~Harmful(c2s[1]), c2s' = Tail(c2s),
           NEW a, Extends(s2c', s2c, a), a.msg.type = "ack", a.msg.yiaddr = ip,
           clock \in Nat, clock' = clock,
           \E s \in Slots : /\ leases'[s].chaddr = Me /\ leases'[s].yiaddr = ip
                            /\ leases'[s].expires = clock + ServerLease
    PROVE  Orderly'
  <1>1. /\ UNCHANGED <<state, ip, lease, age, held, sock>> /\ age \in Nat
    BY DEF cvars, ClientTypes
  <1>2. InOrder /\ SameAddress /\ Claims /\ Refusals
    BY DEF Orderly
  <1>3. InOrder' /\ \A k \in DOMAIN c2s' : ~Harmful(c2s'[k]) => c2s'[k].msg.ip = ip'
    BY <1>1, <1>2, NothingHarmful
  <1>4. /\ \A k \in DOMAIN s2c' : k \in Nat /\ s2c'[k].ttl \in 0..MaxDelay
        /\ \A k \in DOMAIN s2c : k \in Nat
    BY LinkEntries DEF LinkTypes
  <1>5. ~Naking(a)
    BY DEF Naking
  <1>6. SameAddress'
    <2>1. \A k \in DOMAIN s2c' : Acking(s2c'[k]) => s2c'[k].msg.yiaddr = ip'
      BY <1>1, <1>2 DEF Extends, SameAddress
    <2>2. \A k \in DOMAIN sock' : sock'[k].type = "ack" => sock'[k].yiaddr = ip'
      BY <1>1, <1>2 DEF SameAddress
    <2> QED BY <1>3, <2>1, <2>2 DEF SameAddress, Acking, Harmful
  <1>7. Claims'
    <2> DEFINE B(r) == Backing(leases', clock', ip', r)
    <2>0. ASSUME NEW r \in Int, r <= ServerLease  PROVE B(r)
      <3>1. PICK s \in Slots : /\ leases'[s].chaddr = Me /\ leases'[s].yiaddr = ip
                               /\ leases'[s].expires = clock + ServerLease
        OBVIOUS
      <3>2. clock + ServerLease >= clock' + r
        BY <2>0, Numbers
      <3> QED BY <1>1, <3>1, <3>2 DEF Backing
    <2> HIDE DEF B
    <2>1. ASSUME NEW k \in DOMAIN s2c'  PROVE B(ServerLease + s2c'[k].ttl - MaxDelay)
      <3>1. s2c'[k].ttl \in Int /\ s2c'[k].ttl <= MaxDelay
        BY <1>4, Numbers
      <3>2. /\ ServerLease + s2c'[k].ttl - MaxDelay \in Int
            /\ ServerLease + s2c'[k].ttl - MaxDelay <= ServerLease
        BY <3>1, Numbers
      <3> QED BY <2>0, <3>2
    <2>2. /\ ServerLease - MaxDelay \in Int /\ ServerLease - MaxDelay <= ServerLease
          /\ ServerLease - age - MaxDelay \in Int /\ ServerLease - age - MaxDelay <= ServerLease
      BY <1>1, Numbers
    <2>3. B(ServerLease - MaxDelay) /\ B(ServerLease - age - MaxDelay)
      BY <2>0, <2>2
    <2>4. state' \in C!Leased =>
            held' = ip' /\ lease' = ServerLease /\ B(ServerLease - age' - MaxDelay)
      BY <1>1, <1>2, <2>3 DEF Claims
    <2> QED BY <2>1, <2>3, <2>4 DEF Claims, Acking, C!Leased, Backed, B
  <1>8. Refusals'
    <2>0. Over => Over'
      BY <1>1 DEF Over, C!Leased
    <2>1. ASSUME NEW k \in DOMAIN s2c', Naking(s2c'[k])
          PROVE  /\ Over'
                 /\ \A j \in DOMAIN sock' : sock'[j].type = "ack" => ServerLease <= MaxDelay
                 /\ \A j \in DOMAIN s2c' :
                       j < k /\ Acking(s2c'[j]) => ServerLease + s2c'[j].ttl <= MaxDelay
      <3>1. k \in DOMAIN s2c /\ Naking(s2c[k])
        BY <1>5, <2>1 DEF Extends
      <3>2. /\ Over
            /\ \A j \in DOMAIN sock : sock[j].type = "ack" => ServerLease <= MaxDelay
            /\ \A j \in DOMAIN s2c :
                  j < k /\ Acking(s2c[j]) => ServerLease + s2c[j].ttl <= MaxDelay
        BY <1>2, <3>1 DEF Refusals
      <3>3. ASSUME NEW j \in DOMAIN s2c', j < k, Acking(s2c'[j])
            PROVE  ServerLease + s2c'[j].ttl <= MaxDelay
        <4>1. ~(k <= j)
          BY <1>4, <3>3
        <4>2. j \in DOMAIN s2c /\ s2c'[j] = s2c[j]
          BY <4>1 DEF Extends
        <4> QED BY <3>2, <3>3, <4>2
      <3> QED BY <1>1, <2>0, <3>2, <3>3
    <2>2. ASSUME NEW k \in DOMAIN sock', sock'[k].type = "nak"  PROVE Over'
      BY <1>1, <1>2, <2>0, <2>2 DEF Refusals
    <2> QED BY <2>1, <2>2 DEF Refusals, Naking, Acking, Over
  <1> QED BY <1>3, <1>6, <1>7, <1>8 DEF Orderly

\* The server refuses the request: it has no entry, so no claim has time left.
LEMMA OrderlyNak ==
    ASSUME LinkTypes, LinkTypes', ClientTypes, Orderly, UNCHANGED cvars,
           c2s # << >>, ~Harmful(c2s[1]), c2s' = Tail(c2s),
           NEW a, Extends(s2c', s2c, a), a.msg.type = "nak",
           clock' = clock, leases' = leases,
           \A s \in Slots : leases[s].chaddr = Me => leases[s].yiaddr # ip
    PROVE  Orderly'
  <1>1. /\ UNCHANGED <<state, ip, lease, age, held, sock>> /\ age \in Nat
    BY DEF cvars, ClientTypes
  <1>2. InOrder /\ SameAddress /\ Claims /\ Refusals
    BY DEF Orderly
  <1>3. InOrder' /\ \A k \in DOMAIN c2s' : ~Harmful(c2s'[k]) => c2s'[k].msg.ip = ip'
    BY <1>1, <1>2, NothingHarmful
  <1>4. /\ \A k \in DOMAIN s2c' : k \in Nat
        /\ \A k \in DOMAIN s2c : k \in Nat /\ s2c[k].ttl \in Nat
    BY LinkEntries DEF LinkTypes
  <1>5. ~Acking(a)
    BY DEF Acking
  <1>6. \A k \in DOMAIN s2c' : Acking(s2c'[k]) => k \in DOMAIN s2c /\ s2c'[k] = s2c[k]
    BY <1>5 DEF Extends
  <1> DEFINE B(r) == Backing(leases, clock, ip, r)
  <1>7. \A r \in Int : B(r) => r <= 0
    BY DEF Backing
  <1>8. \A r : B(r) <=> Backing(leases', clock', ip', r)
    BY <1>1
  <1> HIDE DEF B
  <1>9. SameAddress'
    <2>1. \A k \in DOMAIN s2c' : Acking(s2c'[k]) => s2c'[k].msg.yiaddr = ip'
      BY <1>1, <1>2, <1>6 DEF SameAddress
    <2>2. \A k \in DOMAIN sock' : sock'[k].type = "ack" => sock'[k].yiaddr = ip'
      BY <1>1, <1>2 DEF SameAddress
    <2> QED BY <1>3, <2>1, <2>2 DEF SameAddress, Acking, Harmful
  <1>10. Claims'
    <2>1. \A k \in DOMAIN s2c' : Acking(s2c'[k]) => B(ServerLease + s2c'[k].ttl - MaxDelay)
      BY <1>2, <1>6 DEF Claims, Backed, B
    <2>2. \A k \in DOMAIN sock' : sock'[k].type = "ack" => B(ServerLease - MaxDelay)
      BY <1>1, <1>2 DEF Claims, Backed, B
    <2>3. state' \in C!Leased =>
            held' = ip' /\ lease' = ServerLease /\ B(ServerLease - age' - MaxDelay)
      BY <1>1, <1>2 DEF Claims, Backed, B
    <2> QED BY <1>8, <2>1, <2>2, <2>3 DEF Claims, Acking, C!Leased, Backed
  <1>11. Refusals'
    <2>1. Over'
      <3> SUFFICES ASSUME state \in C!Leased PROVE ServerLease - age <= MaxDelay
        BY <1>1 DEF Over, C!Leased
      <3>1. B(ServerLease - age - MaxDelay) /\ ServerLease - age - MaxDelay \in Int
        BY <1>1, <1>2, Numbers DEF Claims, Backed, B
      <3>2. ServerLease - age - MaxDelay <= 0
        BY <1>7, <3>1
      <3> QED BY <1>1, <3>2, Numbers
    <2>2. ASSUME NEW j \in DOMAIN sock', sock'[j].type = "ack"  PROVE ServerLease <= MaxDelay
      <3>1. B(ServerLease - MaxDelay) /\ ServerLease - MaxDelay \in Int
        BY <1>1, <1>2, <2>2, Numbers DEF Claims, Backed, B
      <3>2. ServerLease - MaxDelay <= 0
        BY <1>7, <3>1
      <3> QED BY <3>2, Numbers
    <2>3. ASSUME NEW j \in DOMAIN s2c', Acking(s2c'[j])
          PROVE  ServerLease + s2c'[j].ttl <= MaxDelay
      <3>1. /\ B(ServerLease + s2c'[j].ttl - MaxDelay) /\ s2c'[j].ttl \in Nat
            /\ ServerLease + s2c'[j].ttl - MaxDelay \in Int
        BY <1>2, <1>4, <1>6, <2>3, Numbers DEF Claims, Backed, B
      <3>2. ServerLease + s2c'[j].ttl - MaxDelay <= 0
        BY <1>7, <3>1
      <3> QED BY <3>1, <3>2, Numbers
    <2> QED BY <2>1, <2>2, <2>3 DEF Refusals, Naking, Acking, Over
  <1> QED BY <1>3, <1>9, <1>10, <1>11 DEF Orderly

\* The server handles a message of the client.
LEMMA ServerStepKept ==
    ASSUME Sized, NetInv, ServerStep
    PROVE  NetInv'
  <1> DEFINE m == Head(c2s).msg
             a == [msg |-> Answer(out'), ttl |-> MaxDelay, current |-> Head(c2s).current]
  <1>1. /\ c2s # << >> /\ Serve(m) /\ c2s' = Tail(c2s) /\ UNCHANGED cvars
        /\ s2c' = IF out'.type = "none" \/ Len(s2c) = MaxFlight THEN s2c ELSE Append(s2c, a)
    BY DEF ServerStep
  <1>2. LinkTypes /\ ServerInv /\ ClientTypes /\ FreshStart /\ clock \in Nat
    BY InvParts DEF NetInv, ServerInv
  <1>3. /\ c2s' \in Seq(Carrying(Mail)) /\ Head(c2s) = c2s[1] /\ Head(c2s) \in Carrying(Mail)
        /\ 1 \in DOMAIN c2s /\ Follows(c2s', c2s, 1)
    BY <1>1, <1>2, TailFollows DEF LinkTypes
  <1>4. m \in Mail /\ Head(c2s).current \in BOOLEAN
    BY <1>3 DEF Carrying
  <1>5. /\ ServerInv' /\ clock' = clock /\ out' \in Reply
        /\ m.type \in {"discover", "release", "decline"} => out'.type \in {"none", "OFFER"}
        /\ m.type \notin {"discover", "release", "decline"} =>
             (out'.type = "none" /\ leases' = leases) \/ Granting(m.ip) \/ Refusing(m.ip)
    BY <1>1, <1>2, <1>4, ServeMail
  <1>6. /\ out'.type \in {"none", "OFFER", "ACK", "NAK"}
        /\ out'.type = "ACK" => out'.lease = ServerLease
    BY <1>5 DEF Granting, Refusing
  <1>7. out'.type # "none" =>
          /\ a \in Carrying(Answers)
          /\ a.msg.type = "ack" <=> out'.type = "ACK"
          /\ a.msg.type = "nak" <=> out'.type = "NAK"
          /\ out'.type = "ACK" => a.msg.yiaddr = out'.yiaddr
          /\ a.current = c2s[1].current
    <2> SUFFICES ASSUME out'.type # "none"
                 PROVE  /\ a \in Carrying(Answers)
                        /\ a.msg = Answer(out') /\ a.current = c2s[1].current
      BY <1>5, <1>6, AnswerTypes
    <2>1. Answer(out') \in Answers
      BY <1>5, <1>6, AnswerTypes
    <2> QED BY <1>3, <1>4, <2>1, Numbers DEF Carrying
  <1>8. Harmful(c2s[1]) <=> ~c2s[1].current \/ m.type \in {"discover", "release", "decline"}
    BY <1>3 DEF Harmful
  <1> HIDE DEF m, a
  <1>9. s2c' \in Seq(Carrying(Answers)) /\ Extends(s2c', s2c, a)
    <2>1. Extends(s2c, s2c, a)
      BY DEF Extends
    <2>2. CASE out'.type # "none"
      <3>1. Append(s2c, a) \in Seq(Carrying(Answers)) /\ Extends(Append(s2c, a), s2c, a)
        BY <1>2, <1>7, <2>2, AppendExtends DEF LinkTypes
      <3> QED BY <1>1, <1>2, <2>1, <3>1 DEF LinkTypes
    <2> QED BY <1>1, <1>2, <2>1, <2>2 DEF LinkTypes
  <1>10. LinkTypes'
    BY <1>3, <1>9 DEF LinkTypes
  <1>11. ASSUME out'.type = "none" \/ (~Acking(a) /\ ~Naking(a))  PROVE OldAnswers(0)
    <2>1. \A k \in DOMAIN s2c : k + 0 = k
      BY <1>2, LinkEntries DEF LinkTypes
    <2>2. CASE out'.type = "none"
      BY <1>1, <1>2, <2>2, SameLinks
    <2> QED BY <1>9, <1>11, <2>1, <2>2 DEF Extends, OldAnswers
  <1>12. CASE Harmful(c2s[1])
    <2>1. OldAnswers(0)
      <3> SUFFICES ASSUME out'.type # "none" PROVE ~Acking(a) /\ ~Naking(a)
        BY <1>11
      <3> QED BY <1>5, <1>7, <1>8, <1>12 DEF Acking, Naking
    <2>2. Engaged => NoAck /\ state \notin C!Leased
      BY <1>3, <1>12 DEF NetInv, Orderly, InOrder, C!Leased
    <2> QED BY <1>1, <1>3, <1>5, <1>10, <2>1, <2>2, NetKept
  <1>13. CASE ~Harmful(c2s[1])
    <2>0. ip' = ip
      BY <1>1 DEF cvars
    <2>1. /\ ClientTypes' /\ (Engaged' <=> Engaged) /\ (Starting' <=> Starting)
      BY <1>1, <1>2, ClientSame
    <2>2. ~Starting
      BY <1>2, <1>3, <1>13 DEF FreshStart
    <2>3. FreshStart'
      BY <2>1, <2>2 DEF FreshStart
    <2>4. CASE out'.type = "none" /\ leases' = leases
      <3>1. BackingKept
        BY <1>5, <2>0, <2>4 DEF BackingKept
      <3> QED BY <1>1, <1>3, <1>5, <1>10, <1>11, <2>4, <3>1, NetKept
    <2>5. ASSUME Engaged  PROVE Orderly /\ m.ip = ip
      BY <1>3, <1>13, <2>5 DEF NetInv, Orderly, SameAddress, m
    <2>6. CASE Granting(m.ip)
      <3>1. ASSUME Engaged  PROVE Orderly'
        <4>1. /\ a.msg.type = "ack" /\ a.msg.yiaddr = ip /\ Orderly
              /\ \E s \in Slots : /\ leases'[s].chaddr = Me /\ leases'[s].yiaddr = ip
                                  /\ leases'[s].expires = clock + ServerLease
          BY <1>7, <2>5, <2>6, <3>1 DEF Granting
        <4> QED BY <1>1, <1>2, <1>5, <1>9, <1>10, <1>13, <4>1, OrderlyAck
      <3> QED BY <1>5, <1>10, <2>1, <2>3, <3>1 DEF NetInv
    <2>7. CASE Refusing(m.ip)
      <3>1. ASSUME Engaged  PROVE Orderly'
        <4>1. /\ a.msg.type = "nak" /\ Orderly /\ leases' = leases
              /\ \A s \in Slots : leases[s].chaddr = Me => leases[s].yiaddr # ip
          BY <1>7, <2>5, <2>7, <3>1 DEF Refusing
        <4> QED BY <1>1, <1>2, <1>5, <1>9, <1>10, <1>13, <4>1, OrderlyNak
      <3> QED BY <1>5, <1>10, <2>1, <2>3, <3>1 DEF NetInv
    <2> QED BY <1>5, <1>8, <1>13, <2>4, <2>6, <2>7
  <1> QED BY <1>12, <1>13

-----------------------------------------------------------------------------
(* The client: what its steps mean for the claims.                         *)

Sends == sent' \in Mail \cup {C!NoMessage}
Silent == sent' = C!NoMessage
Disengaged == ~Engaged /\ ~Starting

\* It gives up, restarts or exits.
Leaving == Disengaged'
\* It broadcasts a DISCOVER; the first one of a series has a new xid.
Searching ==
    /\ state = "INIT_SELECTING" /\ state' = "INIT_SELECTING"
    /\ sent'.type = "discover" /\ num' # 0
    /\ IF num = 0 THEN \A k \in DOMAIN sock' : sock'[k].type = "junk" ELSE OldSocket
\* It goes on waiting for an OFFER.
Dozing == Starting /\ state' = "INIT_SELECTING" /\ OldSocket /\ Silent
\* It takes an OFFER.
Choosing == Starting /\ state' = "REQUESTING" /\ OldSocket /\ Silent
\* It asks for the address that it has or wants, or it waits.
Asking ==
    /\ Engaged /\ Engaged' /\ OldSocket
    /\ Silent \/ (sent'.type \in {"select", "renew"} /\ sent'.ip = ip)
    /\ state = "REQUESTING" => state' = "REQUESTING"
    /\ state' \in C!Leased => state \in C!Leased
    /\ UNCHANGED <<ip, lease, age, held>>
\* It takes an ACK.
Accepting ==
    /\ Engaged /\ sock # << >> /\ sock[1].type = "ack" /\ Silent
    /\ state' = "BOUND" /\ sock' = << >>
    /\ ip' = sock[1].yiaddr /\ held' = sock[1].yiaddr
    /\ lease' = ServerLease
Kind == Leaving \/ Searching \/ Dozing \/ Choosing \/ Asking \/ Accepting

\* An empty socket.
LEMMA NoPackets == << >> \in Seq(Answers) /\ Len(<< >>) = 0 /\ DOMAIN << >> = {}
  OBVIOUS

\* A packet in the socket is the only one.
LEMMA OnePacket ==
    ASSUME ClientTypes, sock # << >>
    PROVE  /\ Head(sock) = sock[1] /\ sock[1] \in Answers /\ 1 \in DOMAIN sock
           /\ DOMAIN sock = {1} /\ Tail(sock) = << >>
  <1>1. sock \in Seq(Answers) /\ Len(sock) <= 1
    BY DEF ClientTypes
  <1>2. /\ Tail(sock) \in Seq(Answers) /\ Len(Tail(sock)) = Len(sock) - 1
        /\ Head(sock) = sock[1] /\ Head(sock) \in Answers
    BY <1>1, HeadTailProperties
  <1>3. Len(sock) \in Nat /\ DOMAIN sock = 1..Len(sock) /\ Len(sock) # 0
    BY <1>1, LenProperties, EmptySeq
  <1>4. Len(sock) = 1
    BY <1>1, <1>3
  <1>5. Tail(sock) = << >>
    <2>1. \A t \in Seq(Answers) : Len(t) = 0 => t = << >>
      BY EmptySeq
    <2>2. Len(Tail(sock)) = 0
      BY <1>2, <1>4
    <2> QED BY <1>2, <2>1, <2>2
  <1> QED BY <1>2, <1>3, <1>4, <1>5

\* A socket that is left alone or closed.
LEMMA SocketKept ==
    ASSUME ClientTypes, sock' = sock \/ sock' = << >>
    PROVE  OldSocket /\ sock' \in Seq(Answers) /\ Len(sock') <= 1
  <1>1. CASE sock' = sock
    BY <1>1 DEF OldSocket, ClientTypes
  <1>2. CASE sock' = << >>
    BY <1>2, NoPackets DEF OldSocket
  <1> QED BY <1>1, <1>2

\* A client that exits.
LEMMA ExitLeaves ==
    ASSUME C!exit_client
    PROVE  ClientTypes' /\ Leaving
  <1>1. /\ state' = "EXITED" /\ ip' = 0 /\ srv' = 0 /\ num' = 0 /\ age' = 0
        /\ sock' = << >>
    BY DEF C!exit_client, C!change_mode, C!NoTimers, C!None
  <1> QED BY <1>1, NoPackets
          DEF ClientTypes, Leaving, Disengaged, Engaged, Starting, C!Leased, C!States, None

\* A client that starts from scratch.
LEMMA RestartLeaves ==
    ASSUME C!Restarting, ip' \in Nat, srv' \in {Server, None},
           sock' \in Seq(Answers), Len(sock') <= 1
    PROVE  ClientTypes' /\ Leaving
  <1>1. /\ state' = "INIT_SELECTING" /\ num' = 0 /\ due' = 0 /\ age' = 0
    BY DEF C!Restarting, C!NoTimers
  <1> QED BY <1>1
          DEF ClientTypes, Leaving, Disengaged, Engaged, Starting, C!Leased, C!States

\* A client that waits in its state.
LEMMA StayingKind ==
    ASSUME ClientTypes, Silent, UNCHANGED <<state, ip, srv, due, num, mode, lease, age, held>>,
           sock' = sock \/ sock' = << >>
    PROVE  ClientTypes' /\ Kind /\ Sends
  <1>1. OldSocket /\ sock' \in Seq(Answers) /\ Len(sock') <= 1
    BY SocketKept
  <1>2. ClientTypes' /\ Sends
    BY <1>1 DEF ClientTypes, C!States, Sends, Silent
  <1>3. (Engaged' <=> Engaged) /\ (Starting' <=> Starting)
    BY DEF Engaged, Starting, C!Leased
  <1>4. CASE Starting
    <2>1. state' = "INIT_SELECTING"
      BY <1>4 DEF Starting
    <2> QED BY <1>1, <1>2, <1>4, <2>1 DEF Kind, Dozing
  <1>5. CASE Engaged
    <2>1. Asking
      BY <1>1, <1>3, <1>5 DEF Asking
    <2> QED BY <1>2, <2>1 DEF Kind
  <1>6. CASE ~Starting /\ ~Engaged
    <2>1. Leaving
      BY <1>3, <1>6 DEF Leaving, Disengaged
    <2> QED BY <1>2, <2>1 DEF Kind
  <1> QED BY <1>4, <1>5, <1>6

\* Start, end, socket and signals.
LEMMA LifeKinds ==
    ASSUME ClientTypes,
           \/ C!Launch \/ C!Killed \/ C!OpenSocket
           \/ \E s \in {"SIGUSR1", "SIGUSR2"} : C!Signal(s)
    PROVE  ClientTypes' /\ Kind /\ Sends
  <1>1. CASE C!Launch
    <2>1. /\ C!Restarting /\ ip' \in Nat /\ srv' \in {Server, None} /\ sock' = << >> /\ Silent
      BY <1>1, Numbers DEF C!Launch, C!change_mode, C!Quiet, Silent, C!None, None
    <2> QED BY <2>1, NoPackets, RestartLeaves DEF Kind, Sends, Silent
  <1>2. CASE C!Killed
    <2>1. C!exit_client /\ Silent
      BY <1>2 DEF C!Killed, C!Quiet, Silent
    <2> QED BY <2>1, ExitLeaves DEF Kind, Sends, Silent
  <1>3. CASE C!OpenSocket
    <2>1. CASE C!exit_client
      BY <1>3, <2>1, ExitLeaves DEF C!OpenSocket, C!Quiet, Kind, Sends, Silent
    <2>2. CASE ~C!exit_client
      <3>1. /\ UNCHANGED <<state, ip, srv, due, num, mode, lease, age, held, sock>> /\ Silent
        BY <1>3, <2>2
           DEF C!OpenSocket, C!Quiet, C!conf, C!timers, C!iface, Silent
      <3> QED BY <3>1, StayingKind
    <2> QED BY <2>1, <2>2
  <1>4. CASE \E s \in {"SIGUSR1", "SIGUSR2"} : C!Signal(s)
    <2>1. /\ UNCHANGED <<state, ip, srv, due, num, mode, lease, age, held, sock>> /\ Silent
      BY <1>4 DEF C!Signal, C!Quiet, C!conf, C!timers, C!iface, C!net, Silent
    <2> QED BY <2>1, StayingKind
  <1> QED BY <1>1, <1>2, <1>3, <1>4

\* A message of the client's own.
LEMMA OwnMail ==
    ASSUME NEW type \in {"discover", "select", "renew", "release", "decline"},
           NEW to \in {Server, None}, NEW a \in Nat,
           sent' = [type |-> type, to |-> to, ip |-> a]
    PROVE  Sends /\ sent'.type = type /\ sent'.ip = a
  <1>1. [type |-> type, to |-> to, ip |-> a] \in Mail
    BY DEF Mail
  <1> QED BY <1>1 DEF Sends

\* A socket whose packets have become junk.
LEMMA JunkSocket ==
    ASSUME ClientTypes, sock' = [k \in DOMAIN sock |-> C!Junk]
    PROVE  /\ sock' \in Seq(Answers) /\ Len(sock') <= 1
           /\ \A k \in DOMAIN sock' : sock'[k].type = "junk"
  <1>1. sock \in Seq(Answers) /\ Len(sock) <= 1 /\ Len(sock) \in Nat
        /\ DOMAIN sock = 1..Len(sock)
    BY LenProperties DEF ClientTypes
  <1>2. sock' \in [1..Len(sock) -> Answers]
    BY <1>1, JunkAnswer
  <1>3. sock' \in Seq(Answers) /\ Len(sock') = Len(sock)
    BY <1>1, <1>2
  <1> QED BY <1>1, <1>3, JunkAnswer

\* The timeout of INIT_SELECTING.
LEMMA DiscoverKinds ==
    ASSUME Sized, ClientTypes, C!DiscoverTimeout
    PROVE  ClientTypes' /\ Kind /\ Sends
  <1>0. state = "INIT_SELECTING" /\ ip \in Nat /\ num \in Nat /\ None \in {Server, None}
        /\ C!None = None
    BY DEF C!DiscoverTimeout, C!TimedOut, ClientTypes, C!None, None
  <1>1. CASE num < CRetry
    <2>1. /\ sent' = [type |-> "discover", to |-> None, ip |-> ip]
          /\ sock' = IF num = 0 THEN [k \in DOMAIN sock |-> C!Junk] ELSE sock
          /\ num' = num + 1
          /\ UNCHANGED <<state, ip, srv, mode, age>>
      BY <1>0, <1>1, Numbers DEF C!DiscoverTimeout, C!send, C!conf, C!timers
    <2>2. Sends /\ sent'.type = "discover"
      BY <1>0, <2>1, OwnMail
    <2>3. /\ sock' \in Seq(Answers) /\ Len(sock') <= 1
          /\ IF num = 0 THEN \A k \in DOMAIN sock' : sock'[k].type = "junk" ELSE OldSocket
      <3>1. CASE num = 0
        BY <2>1, <3>1, JunkSocket
      <3>2. CASE num # 0
        BY <2>1, <3>2 DEF OldSocket, ClientTypes
      <3> QED BY <3>1, <3>2
    <2>4. num' \in Nat /\ num' # 0
      BY <1>0, <2>1
    <2>5. Searching
      BY <1>0, <2>1, <2>2, <2>3, <2>4 DEF Searching
    <2>6. ClientTypes'
      BY <2>1, <2>3, <2>4 DEF ClientTypes, C!States
    <2> QED BY <2>2, <2>5, <2>6 DEF Kind
  <1>2. CASE num >= CRetry
    <2>1. Silent /\ Sends
      BY <1>0, <1>2, Numbers DEF C!DiscoverTimeout, C!Quiet, Silent, Sends
    <2>2. CASE C!exit_client
      BY <2>1, <2>2, ExitLeaves DEF Kind
    <2>3. CASE ~C!exit_client
      <3>1. /\ num' = 0 /\ UNCHANGED <<state, ip, srv, mode, sock, age>>
        BY <1>0, <1>2, <2>3, Numbers DEF C!DiscoverTimeout, C!conf, C!net, C!timers
      <3>2. Starting
        BY <1>0, <1>2, Numbers DEF Starting, Sized
      <3>3. OldSocket
        BY <3>1 DEF OldSocket
      <3>4. Dozing
        BY <1>0, <2>1, <3>1, <3>2, <3>3 DEF Dozing
      <3>5. ClientTypes'
        BY <3>1 DEF ClientTypes, C!States
      <3> QED BY <2>1, <3>4, <3>5 DEF Kind
    <2> QED BY <2>2, <2>3
  <1> QED BY <1>0, <1>1, <1>2, Numbers

\* The timeout of REQUESTING and RENEW_REQUESTED.
LEMMA RequestKinds ==
    ASSUME ClientTypes, C!RequestTimeout
    PROVE  ClientTypes' /\ Kind /\ Sends
  <1>0. /\ state \in {"REQUESTING", "RENEW_REQUESTED"} /\ ip \in Nat /\ num \in Nat
        /\ srv \in {Server, None}
    BY DEF C!RequestTimeout, ClientTypes
  <1>1. CASE num < CRetry
    <2>1. /\ \/ sent' = [type |-> "renew", to |-> srv, ip |-> ip]
             \/ sent' = [type |-> "select", to |-> srv, ip |-> ip]
          /\ num' = num + 1
          /\ UNCHANGED <<state, ip, srv, mode, sock, lease, age, held>>
      BY <1>0, <1>1, Numbers
         DEF C!RequestTimeout, C!send, C!conf, C!net, C!timers, C!iface
    <2>2. Sends /\ sent'.type \in {"select", "renew"} /\ sent'.ip = ip
      BY <1>0, <2>1, OwnMail
    <2>3. OldSocket /\ Engaged /\ Engaged'
      BY <1>0, <2>1 DEF OldSocket, Engaged
    <2>4. Asking
      BY <1>0, <2>1, <2>2, <2>3 DEF Asking, C!Leased
    <2>5. ClientTypes'
      BY <2>1 DEF ClientTypes, C!States
    <2> QED BY <2>2, <2>4, <2>5 DEF Kind
  <1>2. CASE num >= CRetry
    <2>1. Silent /\ Sends
      BY <1>0, <1>2, Numbers DEF C!RequestTimeout, C!Quiet, Silent, Sends
    <2>2. CASE C!exit_client
      BY <2>1, <2>2, ExitLeaves DEF Kind
    <2>3. CASE ~C!exit_client
      <3>1. C!Restarting /\ UNCHANGED <<ip, srv>> /\ sock' = << >>
        BY <1>0, <1>2, <2>3, Numbers DEF C!RequestTimeout, C!conf, C!change_mode
      <3> QED BY <1>0, <2>1, <3>1, NoPackets, RestartLeaves DEF Kind
    <2> QED BY <2>2, <2>3
  <1> QED BY <1>0, <1>1, <1>2, Numbers

\* The timeouts of a client with a lease.
LEMMA LeasedKinds ==
    ASSUME ClientTypes, C!BoundTimeout \/ C!RenewingTimeout \/ C!RebindingTimeout
    PROVE  ClientTypes' /\ Kind /\ Sends
  <1>0. /\ state \in C!Leased /\ ip \in Nat /\ srv \in {Server, None}
        /\ None \in {Server, None} /\ C!None = None
    BY DEF C!BoundTimeout, C!RenewingTimeout, C!RebindingTimeout, C!TimedOut, ClientTypes,
           C!Leased, C!None, None
  <1>1. CASE C!Restarting
    <2>1. state' = "INIT_SELECTING"
      BY <1>1 DEF C!Restarting
    <2>2. C!RebindingTimeout
      BY <2>1 DEF C!BoundTimeout, C!RenewingTimeout, C!Renewing
    <2>3. state # state'
      BY <1>0, <2>1 DEF C!Leased
    <2>4. Silent /\ sock' = << >> /\ UNCHANGED <<ip, srv>>
      BY <2>2, <2>3 DEF C!RebindingTimeout, C!change_mode, C!Quiet, C!conf, Silent
    <2> QED BY <1>0, <1>1, <2>4, NoPackets, RestartLeaves DEF Kind, Sends, Silent
  <1>2. CASE ~C!Restarting
    <2>1. /\ \/ Silent
             \/ sent' = [type |-> "renew", to |-> srv, ip |-> ip]
             \/ sent' = [type |-> "renew", to |-> None, ip |-> ip]
          /\ state' \in C!Leased
          /\ UNCHANGED <<ip, srv, num, lease, age, held>>
          /\ sock' = sock \/ sock' = << >>
      <3>1. CASE C!BoundTimeout
        BY <3>1 DEF C!BoundTimeout, C!Renewing, C!send, C!Quiet, Silent, C!conf, C!iface,
                    C!change_mode, C!Leased
      <3>2. CASE C!RenewingTimeout
        BY <3>2 DEF C!RenewingTimeout, C!Renewing, C!send, C!Quiet, Silent, C!conf, C!iface,
                    C!net, C!Leased
      <3>3. CASE C!RebindingTimeout
        BY <1>0, <1>2, <3>3
           DEF C!RebindingTimeout, C!send, C!conf, C!iface, C!net, C!Leased, C!TimedOut
      <3> QED BY <3>1, <3>2, <3>3
    <2>2. Sends /\ (Silent \/ (sent'.type \in {"select", "renew"} /\ sent'.ip = ip))
      <3>1. CASE Silent
        BY <3>1 DEF Sends, Silent
      <3>2. CASE \E to \in {Server, None} : sent' = [type |-> "renew", to |-> to, ip |-> ip]
        BY <1>0, <3>2, OwnMail
      <3> QED BY <1>0, <2>1, <3>1, <3>2
    <2>3. OldSocket /\ sock' \in Seq(Answers) /\ Len(sock') <= 1
      BY <2>1, SocketKept
    <2>4. Engaged /\ Engaged' /\ state # "REQUESTING"
      BY <1>0, <2>1 DEF Engaged, C!Leased
    <2>5. Asking
      BY <1>0, <2>1, <2>2, <2>3, <2>4 DEF Asking
    <2>6. ClientTypes'
      BY <2>1, <2>3 DEF ClientTypes, C!States, C!Leased
    <2> QED BY <2>2, <2>5, <2>6 DEF Kind
  <1> QED BY <1>1, <1>2

\* Packets.
LEMMA PacketKinds ==
    ASSUME ClientTypes, C!Packets
    PROVE  ClientTypes' /\ Kind /\ Sends
  <1>0. ip \in Nat /\ srv \in {Server, None}
    BY DEF ClientTypes
  <1>1. /\ state # "EXITED" /\ mode # "NONE" /\ due # 0 /\ sock # << >>
    BY DEF C!Packets, C!Ignore, C!TakeOffer, C!AckConflict, C!TakeAck, C!TakeNak,
           C!Receive, C!Ready
  <1>2. /\ Head(sock) = sock[1] /\ sock[1] \in Answers /\ DOMAIN sock = {1}
        /\ Tail(sock) = << >>
    BY <1>1, OnePacket
  <1>3. sock[1].yiaddr \in Nat /\ sock[1].server \in {Server, None}
        /\ (sock[1].type = "ack" => sock[1].lease = ServerLease)
    BY <1>2 DEF Answers
  <1>4. CASE C!Ignore
    <2>1. /\ Silent /\ UNCHANGED <<state, ip, srv, due, num, mode, lease, age, held>>
          /\ sock' = << >>
      BY <1>2, <1>4 DEF C!Ignore, C!change_mode, C!Quiet, Silent, C!conf, C!timers, C!iface
    <2> QED BY <2>1, StayingKind
  <1>5. CASE C!TakeOffer
    <2>1. Silent /\ Sends
      BY <1>5 DEF C!TakeOffer, C!Quiet, Silent, Sends
    <2>2. CASE C!exit_client
      BY <2>1, <2>2, ExitLeaves DEF Kind
    <2>3. CASE ~C!exit_client
      <3>1. /\ srv' = sock[1].server /\ ip' = sock[1].yiaddr
            /\ state' = "REQUESTING" /\ num' = 0 /\ sock' = << >>
            /\ UNCHANGED <<mode, age>>
        BY <1>2, <1>5, <2>3 DEF C!TakeOffer, C!timers
      <3>2. Starting
        BY <1>1, <1>5 DEF C!TakeOffer, Starting
      <3>3. Choosing
        BY <2>1, <3>1, <3>2, NoPackets DEF Choosing, OldSocket
      <3>4. ClientTypes'
        BY <1>3, <3>1, NoPackets DEF ClientTypes, C!States
      <3> QED BY <2>1, <3>3, <3>4 DEF Kind
    <2> QED BY <2>2, <2>3
  <1>6. CASE C!AckConflict
    <2>1. /\ sent' = [type |-> "decline", to |-> srv, ip |-> sock[1].yiaddr]
          /\ C!Restarting /\ ip' = 0 /\ srv' = srv /\ sock' = << >>
      BY <1>2, <1>6 DEF C!AckConflict, C!send_decline, C!send, C!None
    <2>2. Sends
      BY <1>0, <1>3, <2>1, OwnMail
    <2> QED BY <1>0, <2>1, <2>2, NoPackets, RestartLeaves DEF Kind
  <1>7. CASE C!TakeAck
    <2>1. Silent /\ Sends /\ sock[1].type = "ack" /\ state # "INIT_SELECTING"
          /\ held' = sock[1].yiaddr
      BY <1>2, <1>7 DEF C!TakeAck, C!Receive, C!Quiet, C!configure, Silent, Sends
    <2>2. CASE C!exit_client
      BY <2>1, <2>2, ExitLeaves DEF Kind
    <2>3. CASE ~C!exit_client
      <3>1. sock[1].lease # C!NoOption
        BY <1>3, <2>1, Numbers DEF C!NoOption
      <3>2. /\ lease' = sock[1].lease /\ ip' = sock[1].yiaddr
            /\ state' = "BOUND" /\ sock' = << >> /\ UNCHANGED <<srv, num>>
        BY <1>2, <1>7, <2>3, <3>1 DEF C!TakeAck, C!change_mode
      <3>3. age' \in Nat
        BY <1>7, <2>3, Numbers DEF C!TakeAck
      <3>4. Engaged
        BY <1>1, <2>1 DEF ClientTypes, C!States, Engaged, C!Leased
      <3>5. Accepting
        BY <1>1, <1>3, <2>1, <3>2, <3>4 DEF Accepting
      <3>6. ClientTypes'
        BY <1>3, <3>2, <3>3, NoPackets DEF ClientTypes, C!States
      <3> QED BY <2>1, <3>5, <3>6 DEF Kind
    <2> QED BY <2>2, <2>3
  <1>8. CASE C!TakeNak
    <2>1. /\ Silent /\ Sends
          /\ C!Restarting /\ ip' = 0 /\ srv' = srv /\ sock' = << >>
      BY <1>8 DEF C!TakeNak, C!Quiet, C!change_mode, C!None, Silent, Sends
    <2> QED BY <1>0, <2>1, NoPackets, RestartLeaves DEF Kind
  <1> QED BY <1>4, <1>5, <1>6, <1>7, <1>8 DEF C!Packets

\* Signals that are served.
LEMMA SignalKinds ==
    ASSUME ClientTypes, C!ServeSignal
    PROVE  ClientTypes' /\ Kind /\ Sends
  <1>0. ip \in Nat /\ srv \in {Server, None}
    BY DEF ClientTypes
  <1>1. C!Releasing => Sends
    <2> SUFFICES ASSUME C!Releasing PROVE Sends
      OBVIOUS
    <2>1. \/ sent' = [type |-> "release", to |-> srv, ip |-> ip]
          \/ sent' = C!NoMessage
      BY DEF C!Releasing, C!send, C!Quiet
    <2>2. CASE sent' = C!NoMessage
      BY <2>2 DEF Sends
    <2>3. CASE sent' = [type |-> "release", to |-> srv, ip |-> ip]
      BY <1>0, <2>3, OwnMail
    <2> QED BY <2>1, <2>2, <2>3
  <1>2. CASE C!PerformRenew
    <2>1. Silent /\ Sends /\ num' = 0 /\ due' = 0 /\ UNCHANGED <<ip, srv>>
      BY <1>2 DEF C!PerformRenew, C!Quiet, C!conf, Silent, Sends
    <2>2. CASE state \in C!Leased
      <3>1. /\ state' = "RENEW_REQUESTED" /\ UNCHANGED <<lease, age, held>>
            /\ sock' = sock \/ sock' = << >>
        BY <1>2, <2>2
           DEF C!PerformRenew, C!change_mode, C!net, C!timers, C!iface, C!Leased
      <3>2. OldSocket /\ sock' \in Seq(Answers) /\ Len(sock') <= 1
        BY <3>1, SocketKept
      <3>3. Engaged /\ Engaged' /\ state # "REQUESTING" /\ state' \notin C!Leased
        BY <2>2, <3>1 DEF Engaged, C!Leased
      <3>4. Asking
        BY <2>1, <3>1, <3>2, <3>3 DEF Asking
      <3>5. ClientTypes'
        BY <2>1, <3>1, <3>2 DEF ClientTypes, C!States
      <3> QED BY <2>1, <3>4, <3>5 DEF Kind
    <2>3. CASE state \notin C!Leased
      <3>1. /\ state' = "INIT_SELECTING" /\ age' \in {age, 0}
            /\ sock' = sock \/ sock' = << >>
        BY <1>2, <2>3 DEF C!PerformRenew, C!change_mode, C!NoTimers, C!net, C!timers
      <3>2. sock' \in Seq(Answers) /\ Len(sock') <= 1
        BY <3>1, SocketKept
      <3>3. Leaving
        BY <2>1, <3>1 DEF Leaving, Disengaged, Engaged, Starting, C!Leased
      <3>4. ClientTypes'
        BY <2>1, <3>1, <3>2 DEF ClientTypes, C!States
      <3> QED BY <2>1, <3>3, <3>4 DEF Kind
    <2> QED BY <2>2, <2>3
  <1>3. CASE C!PerformRelease
    <2>1. /\ C!Releasing /\ sock' = << >> /\ mode' = "NONE" /\ state' = "RELEASED"
          /\ age' = 0 /\ UNCHANGED <<ip, srv, num>>
      BY <1>3 DEF C!PerformRelease, C!change_mode, C!NoTimers, C!conf
    <2>2. Leaving
      BY <2>1 DEF Leaving, Disengaged, Engaged, Starting, C!Leased
    <2>3. ClientTypes'
      BY <2>1, NoPackets DEF ClientTypes, C!States
    <2> QED BY <1>1, <2>1, <2>2, <2>3 DEF Kind
  <1>4. CASE C!Terminate
    <2>1. C!Releasing /\ C!exit_client
      BY <1>4 DEF C!Terminate
    <2> QED BY <1>1, <2>1, ExitLeaves DEF Kind
  <1> QED BY <1>2, <1>3, <1>4 DEF C!ServeSignal

-----------------------------------------------------------------------------
(* The client: its steps and the links.                                    *)

\* What a step of the client does to the links.
Linked ==
    /\ LET old == IF NewXid THEN Outdated(c2s) ELSE c2s
       IN  c2s' = IF sent' = C!NoMessage THEN old ELSE Post(old, sent')
    /\ s2c' = IF NewXid THEN Outdated(s2c) ELSE s2c

Posted == [msg |-> sent', current |-> TRUE, ttl |-> MaxDelay]

\* A message goes to the end of the link; a new xid outdates what is under way.
LEMMA LinkedLinks ==
    ASSUME LinkTypes, Linked, Sends
    PROVE  /\ LinkTypes'
           /\ NewXid => /\ \A k \in DOMAIN s2c' : ~s2c'[k].current
                        /\ \A k \in DOMAIN c2s' : ~c2s'[k].current \/ c2s'[k] = Posted
           /\ ~NewXid => /\ s2c' = s2c
                         /\ Extends(c2s', c2s, Posted)
                         /\ Silent => c2s' = c2s
  <1> DEFINE old == IF NewXid THEN Outdated(c2s) ELSE c2s
  <1>1. /\ Outdated(c2s) \in Seq(Carrying(Mail))
        /\ DOMAIN Outdated(c2s) = DOMAIN c2s
        /\ \A k \in DOMAIN c2s : ~Outdated(c2s)[k].current
        /\ Outdated(s2c) \in Seq(Carrying(Answers))
        /\ DOMAIN Outdated(s2c) = DOMAIN s2c
        /\ \A k \in DOMAIN s2c : ~Outdated(s2c)[k].current
    BY OutdatedEntries DEF LinkTypes
  <1>2. old \in Seq(Carrying(Mail)) /\ s2c' \in Seq(Carrying(Answers))
    BY <1>1 DEF LinkTypes, Linked
  <1>3. c2s' = IF sent' = C!NoMessage THEN old ELSE Post(old, sent')
    BY DEF Linked
  <1>4. NewXid => \A k \in DOMAIN old : ~old[k].current
    BY <1>1
  <1>5. ~NewXid => old = c2s
    OBVIOUS
  <1> HIDE DEF old
  <1>6. c2s' \in Seq(Carrying(Mail)) /\ Extends(c2s', old, Posted)
    <2>1. CASE sent' = C!NoMessage
      BY <1>2, <1>3, <2>1 DEF Extends
    <2>2. CASE sent' # C!NoMessage
      <3>1. sent' \in Mail
        BY <2>2 DEF Sends
      <3> QED BY <1>2, <1>3, <2>2, <3>1, PostExtends DEF Posted
    <2> QED BY <2>1, <2>2
  <1>7. LinkTypes'
    BY <1>2, <1>6 DEF LinkTypes
  <1>8. ASSUME NewXid
        PROVE  /\ \A k \in DOMAIN s2c' : ~s2c'[k].current
               /\ \A k \in DOMAIN c2s' : ~c2s'[k].current \/ c2s'[k] = Posted
    <2>1. s2c' = Outdated(s2c)
      BY <1>8 DEF Linked
    <2>2. \A k \in DOMAIN c2s' : ~c2s'[k].current \/ c2s'[k] = Posted
      BY <1>4, <1>6, <1>8 DEF Extends
    <2> QED BY <1>1, <2>1, <2>2
  <1>9. ASSUME ~NewXid
        PROVE  /\ s2c' = s2c /\ Extends(c2s', c2s, Posted)
               /\ Silent => c2s' = c2s
    BY <1>3, <1>5, <1>6, <1>9 DEF Linked, Silent
  <1> QED BY <1>7, <1>8, <1>9

\* The client asks, or waits.
LEMMA AskingKept ==
    ASSUME NetInv, ClientTypes', LinkTypes', UNCHANGED vars, Asking,
           s2c' = s2c, Extends(c2s', c2s, Posted), Silent => c2s' = c2s
    PROVE  Orderly'
  <1>1. LinkTypes /\ ServerInv /\ ClientTypes /\ Orderly /\ age \in Nat
    BY DEF NetInv, Asking, ClientTypes
  <1>2. OldAnswers(0)
    BY <1>1, SameLinks
  <1>3. BackingKept
    BY <1>1, ServerSame DEF Asking
  <1>4. \A k \in DOMAIN c2s : k + 0 = k
    BY <1>1, LinkEntries DEF LinkTypes
  <1>5. OldMail(0)
    <2>1. CASE Silent
      BY <1>4, <2>1 DEF OldMail
    <2>2. CASE ~Silent
      <3>1. ~Harmful(Posted) /\ Posted.msg.ip = ip
        BY <2>2 DEF Asking, Posted, Harmful
      <3> QED BY <1>4, <3>1 DEF Extends, OldMail
    <2> QED BY <2>1, <2>2
  <1>6. /\ OldSocket
        /\ state = "REQUESTING" => state' = "REQUESTING"
        /\ state' \in C!Leased => state \in C!Leased
        /\ ip' = ip /\ lease' = lease /\ age' = age /\ held' = held
    BY DEF Asking
  <1>7. \A d, e \in {0, 1} : OldMail(d) /\ OldAnswers(e) => Orderly'
    BY <1>1, <1>3, <1>6, OrderlyKept
  <1> QED BY <1>2, <1>5, <1>7

\* The client takes an ACK: the claim of the ACK becomes that of the lease.
LEMMA AcceptingKept ==
    ASSUME NetInv, ClientTypes', LinkTypes', UNCHANGED vars, Accepting,
           s2c' = s2c, c2s' = c2s
    PROVE  Orderly'
  <1>1. /\ LinkTypes /\ ServerInv /\ Inv /\ ClientTypes
        /\ InOrder /\ SameAddress /\ Claims /\ Refusals
    BY DEF NetInv, Accepting, Orderly, ServerInv
  <1>2. 1 \in DOMAIN sock /\ sock[1].type = "ack"
    BY <1>1, OnePacket DEF Accepting
  <1>3. /\ ip' = ip /\ held' = ip /\ lease' = ServerLease /\ state' = "BOUND"
        /\ DOMAIN sock' = {} /\ leases' = leases /\ clock' = clock /\ age' \in Nat
    BY <1>1, <1>2, NoPackets DEF Accepting, SameAddress, vars, ClientTypes
  <1>4. ~NoAck
    BY <1>2 DEF NoAck
  <1>5. InOrder' /\ SameAddress'
    <2>1. \A k \in DOMAIN c2s : ~Harmful(c2s[k])
      BY <1>1, <1>4 DEF InOrder
    <2> QED BY <1>1, <1>3, <2>1 DEF InOrder, SameAddress, Harmful, Acking
  <1>6. Claims'
    <2> DEFINE B(r) == Backing(leases, clock, ip, r)
    <2>0. \A q, r \in Int : q <= r /\ B(r) => B(q)
      BY <1>1, BackingLess
    <2>1. \A r : B(r) <=> Backing(leases', clock', ip', r)
      BY <1>3
    <2> HIDE DEF B
    <2>2. \A k \in DOMAIN s2c' : Acking(s2c'[k]) => B(ServerLease + s2c'[k].ttl - MaxDelay)
      BY <1>1 DEF Claims, Backed, B
    <2>3. B(ServerLease - MaxDelay)
      BY <1>1, <1>2 DEF Claims, Backed, B
    <2>4. /\ ServerLease - MaxDelay \in Int /\ ServerLease - age' - MaxDelay \in Int
          /\ ServerLease - age' - MaxDelay <= ServerLease - MaxDelay
      <3>1. \A x \in Nat : /\ ServerLease - x - MaxDelay \in Int
                           /\ ServerLease - x - MaxDelay <= ServerLease - MaxDelay
        BY Numbers
      <3>2. ServerLease - MaxDelay \in Int
        BY Numbers
      <3> QED BY <1>3, <3>1, <3>2
    <2>5. B(ServerLease - age' - MaxDelay)
      BY <2>0, <2>3, <2>4
    <2> QED BY <1>3, <2>1, <2>2, <2>5 DEF Claims, Acking, C!Leased, Backed
  <1>7. Refusals'
    <2>1. ASSUME NEW k \in DOMAIN s2c', Naking(s2c'[k])
          PROVE  /\ Over'
                 /\ \A j \in DOMAIN s2c' :
                       j < k /\ Acking(s2c'[j]) => ServerLease + s2c'[j].ttl <= MaxDelay
      <3>1. ServerLease <= MaxDelay
        <4>1. k \in DOMAIN s2c /\ Naking(s2c[k])
          BY <2>1
        <4>2. \A j \in DOMAIN sock : sock[j].type = "ack" => ServerLease <= MaxDelay
          BY <1>1, <4>1 DEF Refusals
        <4> QED BY <1>2, <4>2
      <3>2. ServerLease - age' <= MaxDelay
        <4>1. \A x \in Nat : ServerLease - x <= MaxDelay
          BY <3>1, Numbers
        <4> QED BY <1>3, <4>1
      <3>3. Over'
        BY <3>2 DEF Over
      <3>4. k \in DOMAIN s2c /\ Naking(s2c[k])
        BY <2>1
      <3>5. \A j \in DOMAIN s2c :
               j < k /\ Acking(s2c[j]) => ServerLease + s2c[j].ttl <= MaxDelay
        BY <1>1, <3>4 DEF Refusals
      <3> QED BY <3>3, <3>5
    <2> QED BY <1>3, <2>1 DEF Refusals, Naking, Acking, Over
  <1> QED BY <1>5, <1>6, <1>7 DEF Orderly

\* A step of the client.
LEMMA ClientStepKept ==
    ASSUME Sized, NetInv, ClientStep
    PROVE  NetInv'
  <1>1. Linked /\ UNCHANGED vars
    BY DEF ClientStep, Linked
  <1>2. LinkTypes /\ ServerInv /\ ClientTypes /\ FreshStart
    BY DEF NetInv
  <1>3. ClientTypes' /\ Kind /\ Sends
    <2>1. CASE \/ C!Launch \/ C!Killed \/ C!OpenSocket
               \/ \E s \in {"SIGUSR1", "SIGUSR2"} : C!Signal(s)
      BY <1>2, <2>1, LifeKinds
    <2>2. CASE C!Timeout
      BY <1>2, <2>2, DiscoverKinds, RequestKinds, LeasedKinds DEF C!Timeout
    <2>3. CASE C!Packets
      BY <1>2, <2>3, PacketKinds
    <2>4. CASE C!ServeSignal
      BY <1>2, <2>4, SignalKinds
    <2> QED BY <2>1, <2>2, <2>3, <2>4 DEF ClientStep
  <1>4. /\ LinkTypes'
        /\ NewXid => /\ \A k \in DOMAIN s2c' : ~s2c'[k].current
                     /\ \A k \in DOMAIN c2s' : ~c2s'[k].current \/ c2s'[k] = Posted
        /\ ~NewXid => /\ s2c' = s2c
                      /\ Extends(c2s', c2s, Posted)
                      /\ Silent => c2s' = c2s
    BY <1>1, <1>2, <1>3, LinkedLinks
  <1>5. ServerInv'
    BY <1>1, <1>2, ServerSame
  <1>6. Silent => ~NewXid
    BY DEF Silent, NewXid, C!NoMessage
  <1>7. SUFFICES FreshStart' /\ (Engaged' => Orderly')
    BY <1>3, <1>4, <1>5 DEF NetInv
  <1>8. \A k \in DOMAIN c2s : k + 0 = k
    BY <1>2, LinkEntries DEF LinkTypes
  <1>9. CASE Leaving
    BY <1>9 DEF Leaving, Disengaged, FreshStart
  <1>10. CASE Searching
    <2>1. ~Engaged' /\ Harmful(Posted)
      BY <1>10 DEF Searching, Engaged, C!Leased, Harmful, Posted
    <2>2. CASE num = 0
      <3>1. NewXid
        BY <1>10, <2>2 DEF NewXid, Searching
      <3>2. NoAck'
        BY <1>4, <1>10, <2>2, <3>1 DEF NoAck, Acking, Searching
      <3>3. \A k \in DOMAIN c2s' : Harmful(c2s'[k])
        BY <1>4, <2>1, <3>1 DEF Harmful
      <3> QED BY <2>1, <3>2, <3>3 DEF FreshStart, Harmful
    <2>3. CASE num # 0
      <3>1. ~NewXid /\ Starting /\ OldSocket
        BY <1>10, <2>3 DEF NewXid, Starting, Searching
      <3>2. OldAnswers(0)
        BY <1>2, <1>4, <3>1, SameLinks
      <3>3. \A k \in DOMAIN c2s' : \/ k + 0 \in DOMAIN c2s /\ c2s'[k] = c2s[k + 0]
                                   \/ Harmful(c2s'[k])
        BY <1>4, <1>8, <2>1, <3>1 DEF Extends
      <3> QED BY <1>2, <2>1, <3>1, <3>2, <3>3, FreshKept
    <2> QED BY <2>2, <2>3
  <1>11. ASSUME Silent, Starting, OldSocket
         PROVE  /\ NoAck' /\ \A k \in DOMAIN c2s' : Harmful(c2s'[k])
    <2>1. s2c' = s2c /\ c2s' = c2s
      BY <1>4, <1>6, <1>11
    <2>2. NoAck /\ \A k \in DOMAIN c2s : Harmful(c2s[k])
      BY <1>2, <1>11 DEF FreshStart
    <2>3. OldAnswers(0)
      BY <1>2, <2>1, SameLinks
    <2>4. NoAck'
      BY <1>11, <2>2, <2>3, NoAckKept
    <2> QED BY <2>1, <2>2, <2>4
  <1>12. CASE Dozing
    <2>1. ~Engaged'
      BY <1>12 DEF Dozing, Engaged, C!Leased
    <2>2. NoAck' /\ \A k \in DOMAIN c2s' : Harmful(c2s'[k])
      BY <1>11, <1>12 DEF Dozing
    <2> QED BY <2>1, <2>2 DEF FreshStart, Harmful
  <1>13. CASE Choosing
    <2>1. NoAck' /\ \A k \in DOMAIN c2s' : Harmful(c2s'[k])
      BY <1>11, <1>13 DEF Choosing
    <2>2. state' = "REQUESTING" /\ ~Starting'
      BY <1>13 DEF Choosing, Starting
    <2>3. Orderly'
      BY <2>1, <2>2, OrderlyAtOffer
    <2> QED BY <2>2, <2>3 DEF FreshStart
  <1>14. CASE Asking
    <2>1. ~NewXid
      BY <1>6, <1>14 DEF Asking, NewXid
    <2>2. Orderly'
      BY <1>1, <1>3, <1>4, <1>14, <2>1, AskingKept
    <2>3. ~Starting'
      BY <1>14 DEF Asking, Engaged, Starting, C!Leased
    <2> QED BY <2>2, <2>3 DEF FreshStart
  <1>15. CASE Accepting
    <2>1. s2c' = s2c /\ c2s' = c2s
      BY <1>4, <1>6, <1>15 DEF Accepting
    <2>2. Orderly'
      BY <1>1, <1>3, <1>4, <1>15, <2>1, AcceptingKept
    <2>3. ~Starting'
      BY <1>15 DEF Accepting, Starting
    <2> QED BY <2>2, <2>3 DEF FreshStart
  <1> QED BY <1>3, <1>9, <1>10, <1>12, <1>13, <1>14, <1>15 DEF Kind

-----------------------------------------------------------------------------
(* The specification.                                                      *)

\* The first state.
LEMMA NetInitInv == NetInit => NetInv
  <1> SUFFICES ASSUME NetInit PROVE NetInv
    OBVIOUS
  <1>1. /\ Init /\ C!Init /\ c2s = << >> /\ s2c = << >>
    BY DEF NetInit
  <1>2. LinkTypes
    BY <1>1 DEF LinkTypes
  <1>3. /\ state = "INIT_SELECTING" /\ due = 0 /\ num = 0 /\ ip \in Nat /\ srv = 0
        /\ age = 0 /\ sock = << >>
    BY <1>1, Numbers DEF C!Init, C!None
  <1>4. ClientTypes
    BY <1>3, NoPackets DEF ClientTypes, C!States, None
  <1>5. ServerInv
    <2>1. Inv
      BY <1>1, InitStep
    <2>2. clock = 0 /\ \A s \in Slots : leases[s] = Zeroed
      BY <1>1 DEF Init
    <2> QED BY <2>1, <2>2, Numbers DEF ServerInv, Placed, Zeroed
  <1>6. ~Starting /\ ~Engaged
    BY <1>3 DEF Starting, Engaged, C!Leased
  <1> QED BY <1>2, <1>4, <1>5, <1>6 DEF NetInv, FreshStart

\* Every step keeps the inductive invariant.
LEMMA NetNextInv ==
    ASSUME Sized, NetInv, [NetNext]_netvars
    PROVE  NetInv'
  <1>1. CASE UNCHANGED netvars
    <2>1. UNCHANGED vars /\ UNCHANGED cvars /\ c2s' = c2s /\ s2c' = s2c
      BY <1>1 DEF netvars, links
    <2>2. LinkTypes /\ ServerInv /\ ip' = ip
      BY <2>1 DEF NetInv, cvars
    <2>3. ServerInv' /\ BackingKept
      BY <2>1, <2>2, ServerSame
    <2>4. LinkTypes' /\ Follows(c2s', c2s, 0) /\ OldAnswers(0)
      BY <2>1, <2>2, SameLinks DEF LinkTypes
    <2> QED BY <2>1, <2>3, <2>4, NetKept
  <1>2. CASE NetNext
    BY <1>2, AloneStep, ServerStepKept, OtherClientStep, ClientStepKept, DeliverStep,
       LoseStep, TickStep DEF NetNext
  <1> QED BY <1>1, <1>2

\* The invariant is what the property asks for.
LEMMA NetInvReserves ==
    ASSUME Sized, NetInv
    PROVE  HeldIsReserved
  <1> SUFFICES ASSUME state \in C!Leased, lease - age > MaxDelay
               PROVE  \E s \in Slots : /\ leases[s].chaddr = Me /\ leases[s].yiaddr = held
                                       /\ ~lease_expired(leases[s], clock)
    BY DEF HeldIsReserved
  <1>1. /\ held = ip /\ lease = ServerLease
        /\ Backing(leases, clock, ip, ServerLease - age - MaxDelay) /\ age \in Nat
    BY DEF NetInv, Engaged, Orderly, Claims, Backed, ClientTypes
  <1>2. clock \in Nat /\ \A s \in Slots : leases[s].expires \in Nat
    BY InvParts, TableAssumption DEF NetInv, ServerInv, Table, Lease
  <1>3. ServerLease - age - MaxDelay \in Int /\ ServerLease - age - MaxDelay > 0
    BY <1>1, Numbers
  <1>4. PICK s \in Slots : /\ leases[s].chaddr = Me /\ leases[s].yiaddr = ip
                           /\ leases[s].expires >= clock + (ServerLease - age - MaxDelay)
    BY <1>1, <1>3 DEF Backing
  <1>5. leases[s].expires > clock
    BY <1>2, <1>3, <1>4
  <1> QED BY <1>1, <1>2, <1>4, <1>5 DEF lease_expired

\* The address on the client's interface is reserved for it at the server until
\* MaxDelay seconds before the end of the lease, for any number of clients,
\* addresses, retries and messages under way and for any delay: late and lost
\* requests, answers of an earlier series, renewals that cross each other, the
\* reuse of expired entries and the requests of all other clients included.
THEOREM NetReserved ==
    ASSUME Sized
    PROVE  NetSpec => []HeldIsReserved
  <1>1. NetInv /\ [NetNext]_netvars => NetInv'
    BY NetNextInv
  <1>2. NetInv => HeldIsReserved
    BY NetInvReserves
  <1> QED BY <1>1, <1>2, NetInitInv, PTL DEF NetSpec

-----------------------------------------------------------------------------
(* The client keeps its address.  It gives it up because of a NAK, which   *)
(* NetInv knows to be late enough (Refusals), or because the timers of the *)
(* lease have run out.                                                     *)

\* The lease is short enough for the timers (7 * lease does not overflow), and
\* the margin within which the client gives up is not longer than the delay.
Prompt == 7 * ServerLease < Word /\ C!Margin(ServerLease) <= MaxDelay

\* No timeout is early: BOUND and RENEWING last until T1, REBINDING until T2.
Timed ==
    state \in C!Leased =>
        /\ due \in Nat /\ t1 \in Nat /\ t2 \in Nat /\ t1 <= t2 /\ t2 <= ServerLease
        /\ state = "REBINDING" => due + age >= t2
        /\ state # "REBINDING" => due + age >= t1

\* The timers of a new lease.
LEMMA FirstTimers ==
    ASSUME Prompt
    PROVE  /\ C!T1(ServerLease) \in Nat /\ C!T2(ServerLease) \in Nat
           /\ C!T1(ServerLease) <= C!T2(ServerLease) /\ C!T2(ServerLease) <= ServerLease
  <1>1. \A l \in Nat, w \in Nat : 7 * l < w => (l * 7) % w = l * 7
    OBVIOUS
  <1>2. (ServerLease * 7) % Word = ServerLease * 7
    BY <1>1, Numbers DEF Prompt
  <1>3. \A l \in Nat : /\ l \div 2 \in Nat /\ (l * 7) \div 8 \in Nat
                       /\ l \div 2 <= (l * 7) \div 8 /\ (l * 7) \div 8 <= l
    OBVIOUS
  <1> QED BY <1>2, <1>3, Numbers DEF C!T1, C!T2

\* A difference of timers does not wrap around, and half of it is in between.
LEMMA Halfway ==
    ASSUME NEW a \in Nat, NEW b \in Nat, a <= b, b < Word
    PROVE  /\ C!Minus(b, a) = b - a
           /\ (C!Minus(b, a) \div 2 + a) % Word \in a..b
  <1>1. (b - a) % Word = b - a
    BY Numbers
  <1>2. (b - a) \div 2 + a \in a..b
    OBVIOUS
  <1>3. ((b - a) \div 2 + a) % Word = (b - a) \div 2 + a
    BY <1>2, Numbers
  <1> QED BY <1>1, <1>2, <1>3 DEF C!Minus

\* The wait until a timer is over.
LEMMA UntilReaches ==
    ASSUME NEW t \in Nat, NEW a \in Nat
    PROVE  C!Until(t, a) \in Nat /\ C!Until(t, a) + a >= t
  BY DEF C!Until

\* BOUND and RENEWING: the next timeout is not before the new T1, or before T2.
LEMMA RenewingTimed ==
    ASSUME Prompt, Timed, age \in Nat, state \in {"BOUND", "RENEWING"}, due = 0,
           C!Renewing, UNCHANGED <<t2, age>>
    PROVE  Timed'
  <1>0. /\ t1 \in Nat /\ t2 \in Nat /\ t1 <= t2 /\ t2 <= ServerLease /\ age >= t1
    BY DEF Timed, C!Leased
  <1>1. t2 < Word
    BY <1>0, Numbers DEF Prompt
  <1>2. C!Minus(t2, t1) = t2 - t1 /\ (C!Minus(t2, t1) \div 2 + t1) % Word \in t1..t2
    BY <1>0, <1>1, Halfway
  <1>3. CASE state' = "REBINDING" /\ due' = C!Minus(t2, t1) /\ UNCHANGED t1
    <2>1. due' \in Nat /\ due' + age >= t2
      BY <1>0, <1>2, <1>3
    <2> QED BY <1>0, <1>3, <2>1 DEF Timed
  <1>4. CASE /\ state' = "RENEWING" /\ t1' = (C!Minus(t2, t1) \div 2 + t1) % Word
             /\ due' = C!Until(t1', age)
    <2>1. t1' \in Nat /\ t1' <= t2
      BY <1>0, <1>2, <1>4
    <2>2. due' \in Nat /\ due' + age >= t1'
      BY <1>4, <2>1, UntilReaches
    <2> QED BY <1>0, <1>4, <2>1, <2>2 DEF Timed
  <1> QED BY <1>3, <1>4 DEF C!Renewing

\* REBINDING: the next timeout is not before the new T2.
LEMMA RebindingTimed ==
    ASSUME Prompt, Timed, age \in Nat, lease = ServerLease, C!RebindingTimeout
    PROVE  Timed'
  <1>0. /\ t1 \in Nat /\ t2 \in Nat /\ t1 <= t2 /\ t2 <= ServerLease
    BY DEF Timed, C!Leased, C!RebindingTimeout, C!TimedOut
  <1>1. CASE C!Restarting
    BY <1>1 DEF C!Restarting, Timed, C!Leased
  <1>2. CASE /\ t2' = (C!Minus(lease, t2) \div 2 + t2) % Word
             /\ due' = C!Until(t2', age)
             /\ UNCHANGED <<state, t1, age>>
    <2>1. ServerLease < Word
      BY Numbers DEF Prompt
    <2>2. t2' \in t2..ServerLease
      BY <1>0, <1>2, <2>1, Halfway, Numbers
    <2>3. t2' \in Nat /\ t1 <= t2' /\ t2' <= ServerLease
      BY <1>0, <2>2, Numbers
    <2>4. due' \in Nat /\ due' + age >= t2'
      BY <1>2, <2>3, UntilReaches
    <2>5. state' = "REBINDING"
      BY <1>2 DEF C!RebindingTimeout, C!TimedOut
    <2> QED BY <1>0, <1>2, <2>3, <2>4, <2>5 DEF Timed
  <1> QED BY <1>1, <1>2 DEF C!RebindingTimeout

\* An ACK starts the timers.
LEMMA AckTimed ==
    ASSUME Prompt, ClientTypes, C!TakeAck
    PROVE  Timed'
  <1>1. sock # << >> /\ Head(sock).type = "ack"
    BY DEF C!TakeAck, C!Receive
  <1>2. Head(sock).lease = ServerLease /\ ServerLease # C!NoOption
    BY <1>1, OnePacket, Numbers DEF Answers, C!NoOption, ClientTypes
  <1>3. CASE C!exit_client
    BY <1>3 DEF C!exit_client, Timed, C!Leased
  <1>4. CASE ~C!exit_client
    <2>1. PICK pause \in IF state = "REQUESTING" THEN 0..CArp ELSE {0} :
             /\ t1' = C!T1(ServerLease) /\ t2' = C!T2(ServerLease) /\ age' = pause
             /\ due' = C!Until(C!T1(ServerLease), pause) /\ state' = "BOUND"
      BY <1>2, <1>4 DEF C!TakeAck
    <2>2. pause \in Nat
      BY Numbers
    <2>3. due' \in Nat /\ due' + age' >= t1'
      BY <2>1, <2>2, FirstTimers, UntilReaches
    <2> QED BY <2>1, <2>3, FirstTimers DEF Timed
  <1> QED BY <1>3, <1>4

\* Other steps of the client that end with a lease leave its timers alone.
LEMMA TimersLeft ==
    ASSUME ClientStep, state' \in C!Leased
    PROVE  \/ UNCHANGED <<state, due, t1, t2, age>>
           \/ C!BoundTimeout \/ C!RenewingTimeout \/ C!RebindingTimeout \/ C!TakeAck
  <1> USE DEF C!Leased
  <1>1. CASE C!Launch
    BY <1>1 DEF C!Launch, C!Restarting
  <1>2. CASE C!Killed
    BY <1>2 DEF C!Killed, C!exit_client
  <1>3. CASE C!OpenSocket
    BY <1>3 DEF C!OpenSocket, C!exit_client, C!timers
  <1>4. CASE C!DiscoverTimeout
    BY <1>4 DEF C!DiscoverTimeout, C!TimedOut, C!exit_client
  <1>5. CASE C!RequestTimeout
    BY <1>5 DEF C!RequestTimeout, C!exit_client, C!Restarting
  <1>6. CASE C!Ignore
    BY <1>6 DEF C!Ignore, C!timers
  <1>7. CASE C!TakeOffer
    BY <1>7 DEF C!TakeOffer, C!exit_client
  <1>8. CASE C!AckConflict \/ C!TakeNak
    BY <1>8 DEF C!AckConflict, C!TakeNak, C!Restarting
  <1>9. CASE C!ServeSignal
    BY <1>9 DEF C!ServeSignal, C!PerformRenew, C!PerformRelease, C!Terminate, C!exit_client
  <1>10. CASE \E s \in {"SIGUSR1", "SIGUSR2"} : C!Signal(s)
    BY <1>10 DEF C!Signal, C!timers
  <1> QED BY <1>1, <1>2, <1>3, <1>4, <1>5, <1>6, <1>7, <1>8, <1>9, <1>10
             DEF ClientStep, C!Timeout, C!Packets

\* Every step keeps the timers.
LEMMA TimedKept ==
    ASSUME Prompt, NetInv, Timed, [NetNext]_netvars
    PROVE  Timed'
  <1>0. /\ ClientTypes /\ age \in Nat
        /\ state \in C!Leased => lease = ServerLease
    BY DEF NetInv, ClientTypes, Engaged, Orderly, Claims
  <1>1. CASE UNCHANGED <<state, due, t1, t2, age>>
    BY <1>1 DEF Timed
  <1>2. CASE ClientStep
    <2>1. CASE state' \notin C!Leased
      BY <2>1 DEF Timed
    <2>2. CASE C!BoundTimeout \/ C!RenewingTimeout
      <3>1. /\ state \in {"BOUND", "RENEWING"} /\ due = 0 /\ C!Renewing
            /\ UNCHANGED <<t2, age>>
        BY <2>2 DEF C!BoundTimeout, C!RenewingTimeout, C!TimedOut
      <3> QED BY <1>0, <3>1, RenewingTimed
    <2>3. CASE C!RebindingTimeout
      <3>1. state \in C!Leased
        BY <2>3 DEF C!RebindingTimeout, C!TimedOut, C!Leased
      <3> QED BY <1>0, <2>3, <3>1, RebindingTimed
    <2>4. CASE C!TakeAck
      BY <1>0, <2>4, AckTimed
    <2> QED BY <1>1, <1>2, <2>1, <2>2, <2>3, <2>4, TimersLeft
  <1>3. CASE NetTick
    <2>1. CASE state = "EXITED" /\ UNCHANGED cvars
      BY <1>1, <2>1 DEF cvars
    <2>2. CASE C!Tick
      <3> SUFFICES ASSUME state' \in C!Leased PROVE Timed'
        BY DEF Timed
      <3>1. /\ UNCHANGED <<state, t1, t2>> /\ due # 0 /\ age' = age + 1
            /\ due' = IF due = -1 THEN -1 ELSE due - 1
        BY <2>2 DEF C!Tick, C!Never
      <3>2. due \in Nat /\ t1 \in Nat /\ t2 \in Nat
        BY <3>1 DEF Timed
      <3>3. due' \in Nat /\ due' + age' = due + age
        BY <1>0, <3>1, <3>2
      <3> QED BY <3>1, <3>3 DEF Timed
    <2> QED BY <1>3, <2>1, <2>2 DEF NetTick
  <1>4. CASE Deliver
    BY <1>1, <1>4 DEF Deliver, C!Arrive, C!timers
  <1>5. CASE ServerAlone \/ ServerStep \/ OtherClient \/ Lose \/ UNCHANGED netvars
    <2>1. UNCHANGED cvars
      BY <1>5 DEF ServerAlone, ServerStep, OtherClient, Lose, netvars
    <2> QED BY <1>1, <2>1 DEF cvars
  <1> QED BY <1>2, <1>3, <1>4, <1>5 DEF NetNext

\* Only a NAK and the end of REBINDING take a client with a lease back to the
\* start.
LEMMA GivenUp ==
    ASSUME NetNext, state \in C!Leased, state' = "INIT_SELECTING"
    PROVE  \/ C!TakeNak
           \/ C!RebindingTimeout /\ C!Minus(lease, t2) <= C!Margin(lease)
  <1>0. state # state'
    BY DEF C!Leased
  <1>1. ClientStep
    <2>1. CASE ServerAlone \/ ServerStep \/ OtherClient \/ Lose
      <3>1. UNCHANGED cvars
        BY <2>1 DEF ServerAlone, ServerStep, OtherClient, Lose
      <3> QED BY <1>0, <3>1 DEF cvars
    <2>2. CASE Deliver
      BY <1>0, <2>2 DEF Deliver, C!Arrive
    <2>3. CASE NetTick
      BY <1>0, <2>3 DEF NetTick, C!Tick, cvars
    <2> QED BY <2>1, <2>2, <2>3 DEF NetNext
  <1> USE DEF C!Leased
  <1>2. CASE C!Launch \/ C!Killed
    BY <1>2 DEF C!Launch, C!Killed, C!exit_client
  <1>3. CASE C!OpenSocket
    BY <1>0, <1>3 DEF C!OpenSocket, C!exit_client
  <1>4. CASE C!DiscoverTimeout \/ C!RequestTimeout
    BY <1>4 DEF C!DiscoverTimeout, C!RequestTimeout, C!TimedOut
  <1>5. CASE C!BoundTimeout \/ C!RenewingTimeout
    BY <1>5 DEF C!BoundTimeout, C!RenewingTimeout, C!Renewing
  <1>6. CASE C!RebindingTimeout
    BY <1>0, <1>6 DEF C!RebindingTimeout
  <1>7. CASE C!Ignore
    BY <1>0, <1>7 DEF C!Ignore
  <1>8. CASE C!TakeOffer \/ C!AckConflict
    BY <1>8 DEF C!TakeOffer, C!AckConflict
  <1>9. CASE C!TakeAck
    BY <1>9 DEF C!TakeAck, C!exit_client
  <1>10. CASE C!ServeSignal
    BY <1>10 DEF C!ServeSignal, C!PerformRenew, C!PerformRelease, C!Terminate, C!exit_client
  <1>11. CASE \E s \in {"SIGUSR1", "SIGUSR2"} : C!Signal(s)
    BY <1>0, <1>11 DEF C!Signal
  <1> QED BY <1>1, <1>2, <1>3, <1>4, <1>5, <1>6, <1>7, <1>8, <1>9, <1>10, <1>11
             DEF ClientStep, C!Timeout, C!Packets

\* Neither happens early.
LEMMA KeptStep ==
    ASSUME Prompt, NetInv, Timed, NetNext,
           state \in C!Leased, lease - age > MaxDelay
    PROVE  state' # "INIT_SELECTING"
  <1> SUFFICES ASSUME state' = "INIT_SELECTING" PROVE FALSE
    OBVIOUS
  <1>1. /\ ClientTypes /\ lease = ServerLease /\ age \in Nat /\ Refusals
    BY DEF NetInv, ClientTypes, Engaged, Orderly, Claims
  <1>2. CASE C!TakeNak
    <2>1. sock # << >> /\ Head(sock).type = "nak"
      BY <1>2 DEF C!TakeNak, C!Receive
    <2>2. Over
      BY <1>1, <2>1, OnePacket DEF Refusals, ClientTypes
    <2> QED BY <1>1, <2>2, Numbers DEF Over
  <1>3. CASE C!RebindingTimeout /\ C!Minus(lease, t2) <= C!Margin(lease)
    <2>1. state = "REBINDING" /\ due = 0
      BY <1>3 DEF C!RebindingTimeout, C!TimedOut
    <2>2. t2 \in Nat /\ t2 <= ServerLease /\ age >= t2
      BY <1>1, <2>1 DEF Timed
    <2>3. ServerLease < Word
      BY Numbers DEF Prompt
    <2>4. C!Minus(lease, t2) = ServerLease - t2
      BY <1>1, <2>2, <2>3, Halfway, Numbers
    <2>5. ServerLease - t2 <= MaxDelay
      <3>1. ServerLease \div 14400 + 1 <= MaxDelay /\ ServerLease - t2 <= ServerLease \div 14400 + 1
        BY <1>1, <1>3, <2>4 DEF Prompt, C!Margin
      <3>2. \A m \in Int, d \in Int, e \in Int : m <= d /\ e <= m => e <= d
        OBVIOUS
      <3> QED BY <2>2, <3>1, <3>2, Numbers
    <2> QED BY <1>1, <2>2, <2>5, Numbers
  <1> QED BY <1>2, <1>3, GivenUp

\* The client does not lose its address early: until MaxDelay seconds before
\* the end of the lease neither a late NAK nor lost renewals take it back to
\* INIT_SELECTING, for any number of clients, addresses, retries and messages
\* under way and for any delay that is not shorter than the client's margin.
THEOREM NetKeeps ==
    ASSUME Sized, Prompt
    PROVE  NetSpec => AddressKept
  <1> DEFINE TimedInv == NetInv /\ Timed
             NotLost == (state \in C!Leased /\ lease - age > MaxDelay) =>
                           state' # "INIT_SELECTING"
  <1>1. NetInit => TimedInv
    <2>1. NetInit => Timed
      BY DEF NetInit, C!Init, Timed, C!Leased
    <2> QED BY <2>1, NetInitInv
  <1>2. TimedInv /\ [NetNext]_netvars => TimedInv'
    BY NetNextInv, TimedKept
  <1>3. TimedInv /\ [NetNext]_netvars => [NotLost]_netvars
    BY KeptStep
  <1> QED BY <1>1, <1>2, <1>3, PTL DEF NetSpec, AddressKept

============================================================================
