---------------------------- MODULE SloopProofs ----------------------------
(***************************************************************************)
(* Sloop for pools of any size: the pools keep their integrity, the cursor *)
(* of sloop_run never leaves the list it walks, a pass over that list calls *)
(* every handler it should exactly once, and registrations last as long as *)
(* they should.                                                            *)
(***************************************************************************)
EXTENDS Sloop, ListLemmas

\* First picks the least member of a nonempty set of positions.
LEMMA FirstInSet ==
    ASSUME NEW S, S \subseteq Nat, S # {}
    PROVE  First(S) \in S /\ \A i \in S : First(S) <= i
  BY LeastNat DEF First

\* get_uptime, rounded down to the second, is a natural number.
LEMMA UptimeNat ==
    ASSUME clock \in Nat
    PROVE  get_uptime \in Nat
  <1>1. clock \div Gran \in Nat
    BY TimeAssumption
  <1> QED BY <1>1, TimeAssumption DEF get_uptime
-----------------------------------------------------------------------------
(* A well-formed arrangement L of the pools: TypeOK's and PoolIntegrity's   *)
(* facts about the lists, in terms of membership.                           *)

Wf(L) ==
    /\ L \in [Heads -> Seq(Entry)]
    /\ \A h \in Heads : \A e : Member(L[h], e) => e \in Pool(h)
    /\ \A h \in Heads : Distinct(L[h])
    /\ \A a, b \in Heads : \A e : Member(L[a], e) /\ Member(L[b], e) => a = b
    /\ \A e \in Entry : \E h \in Heads : Member(L[h], e)

\* TypeOK's facts about the lists and PoolIntegrity say that the lists are
\* well formed.
LEMMA WfMeansIntegrity ==
    ASSUME lists \in [Heads -> Seq(Entry)]
    PROVE  Wf(lists) <=>
             /\ \A h \in Heads : \A k \in DOMAIN lists[h] : lists[h][k] \in Pool(h)
             /\ PoolIntegrity
  <1>1. (\A h \in Heads : \A k \in DOMAIN lists[h] : lists[h][k] \in Pool(h))
        <=> (\A h \in Heads : \A e : Member(lists[h], e) => e \in Pool(h))
    BY Zenon DEF Member
  <1>2. NoDoubleLink <=>
          /\ \A h \in Heads : Distinct(lists[h])
          /\ \A a, b \in Heads : \A e :
               Member(lists[a], e) /\ Member(lists[b], e) => a = b
    BY Zenon DEF NoDoubleLink, Member, Distinct
  <1>3. NoLeak <=> \A e \in Entry : \E h \in Heads : Member(lists[h], e)
    BY Zenon DEF NoLeak, Member
  <1> QED BY <1>1, <1>2, <1>3 DEF Wf, PoolIntegrity

\* The members of the lists of M are those of L, but x has gone from a to b.
Moved(L, M, x, a, b) ==
    \A h \in Heads : \A e :
        Member(M[h], e) <=> \/ Member(L[h], e) /\ ~(h = a /\ e = x)
                            \/ h = b /\ e = x

\* Moving a struct between two lists of its pool keeps the pools well formed
\* and changes the membership of that struct only.
LEMMA MoveKeepsWf ==
    ASSUME Wf(lists), NEW a \in Heads, NEW b \in Heads, a # b, Pool(a) = Pool(b),
           NEW k \in DOMAIN lists[a], NEW m \in 1..(Len(lists[b]) + 1)
    PROVE  /\ Wf(Move(a, k, b, m))
           /\ Moved(lists, Move(a, k, b, m), lists[a][k], a, b)
  <1> DEFINE x == lists[a][k]
             L == Move(a, k, b, m)
  <1>1. /\ lists[a] \in Seq(Entry) /\ lists[b] \in Seq(Entry)
        /\ k \in 1..Len(lists[a]) /\ x \in Entry
    BY DEF Wf
  <1>2. Member(lists[a], x)
    BY DEF Member
  <1>3. ~Member(lists[b], x)
    BY <1>2 DEF Wf
  <1>4. /\ RemoveAt(lists[a], k) \in Seq(Entry)
        /\ Distinct(RemoveAt(lists[a], k))
        /\ \A e : Member(RemoveAt(lists[a], k), e) <=> Member(lists[a], e) /\ e # x
    BY <1>1, RemoveAtMembers DEF Wf
  <1>5. /\ InsertAt(lists[b], m, x) \in Seq(Entry)
        /\ Distinct(InsertAt(lists[b], m, x))
        /\ \A e : Member(InsertAt(lists[b], m, x), e) <=> Member(lists[b], e) \/ e = x
    BY <1>1, <1>3, InsertAtMembers DEF Wf
  <1>6. /\ L \in [Heads -> Seq(Entry)]
        /\ L[a] = RemoveAt(lists[a], k)
        /\ L[b] = InsertAt(lists[b], m, x)
        /\ \A h \in Heads \ {a, b} : L[h] = lists[h]
    BY <1>4, <1>5 DEF Move, Wf
  <1> HIDE DEF x, L
  <1>7. ASSUME NEW h \in Heads, NEW e
        PROVE  Member(L[h], e) <=>
                 \/ Member(lists[h], e) /\ ~(h = a /\ e = x)
                 \/ h = b /\ e = x
    BY <1>4, <1>5, <1>6, Zenon
  <1>8. \A h \in Heads : Distinct(L[h])
    BY <1>4, <1>5, <1>6, Zenon DEF Wf
  <1>9. x \in Pool(a)
    BY <1>2, Zenon DEF Wf
  <1>10. \A h \in Heads : \A e : Member(L[h], e) => e \in Pool(h)
    BY <1>7, <1>9, Zenon DEF Wf
  <1>11. \A c, d \in Heads : \A e : Member(L[c], e) /\ Member(L[d], e) => c = d
    <2> SUFFICES ASSUME NEW c \in Heads, NEW d \in Heads, NEW e,
                        Member(L[c], e), Member(L[d], e)
                 PROVE  c = d
      BY Zenon
    <2>1. CASE e = x
      <3>1. ASSUME NEW h \in Heads, Member(L[h], x)  PROVE h = b
        BY <1>2, <1>7, <3>1, Zenon DEF Wf
      <3> QED BY <2>1, <3>1, Zenon
    <2>2. CASE e # x
      <3>1. Member(lists[c], e) /\ Member(lists[d], e)
        BY <1>7, <2>2, Zenon
      <3> QED BY <3>1, Zenon DEF Wf
    <2> QED BY <2>1, <2>2, Zenon
  <1>12. \A e \in Entry : \E h \in Heads : Member(L[h], e)
    BY <1>7, Zenon DEF Wf
  <1>13. Wf(L)
    BY <1>6, <1>8, <1>10, <1>11, <1>12, Zenon DEF Wf
  <1>14. Moved(lists, L, x, a, b)
    BY <1>7, Zenon DEF Moved
  <1> QED BY <1>13, <1>14, Zenon DEF x, L

\* Freeing a whole list keeps the pools well formed and moves exactly the
\* members of that list.
LEMMA DrainKeepsWf ==
    ASSUME NEW L, Wf(L), NEW a \in Active
    PROVE  /\ Wf(Drain(L, a))
           /\ Drain(L, a)[a] = <<>>
           /\ \A h \in Heads \ {a, FreeOf(a)} : Drain(L, a)[h] = L[h]
  <1> DEFINE b == FreeOf(a)
             M == Drain(L, a)
  <1>1. a \in Heads /\ b \in Heads /\ a # b /\ Pool(a) = Pool(b)
    BY DEF Active, Heads, SocketHeads, TimeoutHeads, SignalHeads, FreeOf, Pool
  <1> HIDE DEF b
  <1>2. L[a] \in Seq(Entry) /\ L[b] \in Seq(Entry)
    BY <1>1 DEF Wf
  <1>3. \A e : ~(Member(L[a], e) /\ Member(L[b], e))
    BY <1>1 DEF Wf
  <1>4. /\ Reverse(L[a]) \o L[b] \in Seq(Entry)
        /\ Distinct(Reverse(L[a]) \o L[b])
        /\ \A e : Member(Reverse(L[a]) \o L[b], e) <=> Member(L[a], e) \/ Member(L[b], e)
    BY <1>1, <1>2, <1>3, ReverseConcatMembers DEF Wf
  <1>5. /\ M \in [Heads -> Seq(Entry)]
        /\ M[a] = <<>>
        /\ M[b] = Reverse(L[a]) \o L[b]
        /\ \A h \in Heads \ {a, b} : M[h] = L[h]
    <2> DEFINE r == Reverse(L[a]) \o L[b]
    <2>1. M = [L EXCEPT ![b] = r, ![a] = <<>>]
      BY DEF Drain, b
    <2>2. r \in Seq(Entry) /\ <<>> \in Seq(Entry)
      BY <1>4
    <2> HIDE DEF r, M
    <2>3. /\ M \in [Heads -> Seq(Entry)]
          /\ M[a] = <<>> /\ M[b] = r
          /\ \A h \in Heads \ {a, b} : M[h] = L[h]
      BY <1>1, <2>1, <2>2 DEF Wf
    <2> QED BY <2>3 DEF r
  <1>6. Distinct(<<>>) /\ \A e : ~Member(<<>>, e)
    BY DEF Distinct, Member
  <1> HIDE DEF M
  <1>7. ASSUME NEW h \in Heads, NEW e
        PROVE  Member(M[h], e) <=>
                 \/ h # a /\ Member(L[h], e)
                 \/ h = b /\ Member(L[a], e)
    BY <1>1, <1>4, <1>5, <1>6, Zenon
  <1>8. \A h \in Heads : Distinct(M[h])
    BY <1>1, <1>4, <1>5, <1>6, Zenon DEF Wf
  <1>9. \A h \in Heads : \A e : Member(M[h], e) => e \in Pool(h)
    BY <1>1, <1>7, Zenon DEF Wf
  <1>10. \A c, d \in Heads : \A e : Member(M[c], e) /\ Member(M[d], e) => c = d
    BY <1>1, <1>7, Zenon DEF Wf
  <1>11. \A e \in Entry : \E h \in Heads : Member(M[h], e)
    BY <1>1, <1>7, Zenon DEF Wf
  <1>12. Wf(M)
    BY <1>5, <1>8, <1>9, <1>10, <1>11, Zenon DEF Wf
  <1> QED BY <1>5, <1>12, Zenon DEF M, b

\* get_xxx followed by the insertion of the struct.
LEMMA TakeKeepsWf ==
    ASSUME Wf(lists), NEW h \in Active, ~Empty(FreeOf(h)),
           NEW m \in 1..(Len(lists[h]) + 1)
    PROVE  /\ Wf(Take(h, m))
           /\ \A g \in Active : \A e : Member(lists[g], e) => Member(Take(h, m)[g], e)
  <1>1. /\ h \in Heads /\ FreeOf(h) \in Heads /\ FreeOf(h) \notin Active
        /\ FreeOf(h) # h /\ Pool(FreeOf(h)) = Pool(h)
        /\ Active \subseteq Heads
    BY DEF Active, Heads, SocketHeads, TimeoutHeads, SignalHeads, FreeOf, Pool
  <1>2. 1 \in DOMAIN lists[FreeOf(h)]
    BY <1>1, EmptySeq DEF Wf, Empty
  <1>3. /\ Wf(Move(FreeOf(h), 1, h, m))
        /\ Moved(lists, Move(FreeOf(h), 1, h, m), lists[FreeOf(h)][1], FreeOf(h), h)
    BY <1>1, <1>2, MoveKeepsWf
  <1> QED BY <1>1, <1>3, Zenon DEF Take, Moved

\* dlist_del followed by free_xxx.
LEMMA FreeKeepsWf ==
    ASSUME Wf(lists), NEW h \in Active, NEW k \in DOMAIN lists[h]
    PROVE  /\ Wf(Free(h, k))
           /\ \A g \in Active : \A e :
                Member(lists[g], e) /\ e # lists[h][k] => Member(Free(h, k)[g], e)
  <1>1. /\ h \in Heads /\ FreeOf(h) \in Heads /\ h # FreeOf(h)
        /\ Pool(h) = Pool(FreeOf(h)) /\ Active \subseteq Heads
    BY DEF Active, Heads, SocketHeads, TimeoutHeads, SignalHeads, FreeOf, Pool
  <1>2. 1 \in 1..(Len(lists[FreeOf(h)]) + 1)
    BY <1>1 DEF Wf
  <1>3. /\ Wf(Move(h, k, FreeOf(h), 1))
        /\ Moved(lists, Move(h, k, FreeOf(h), 1), lists[h][k], h, FreeOf(h))
    BY <1>1, <1>2, MoveKeepsWf
  <1> QED BY <1>1, <1>3, Zenon DEF Free, Moved

\* PosOf finds a struct that is in the list.
LEMMA PosOfInList ==
    ASSUME NEW h \in Heads, NEW e, Member(lists[h], e)
    PROVE  PosOf(h, e) \in DOMAIN lists[h] /\ lists[h][PosOf(h, e)] = e
  BY Zenon DEF PosOf, Member

\* The insertion walk of sloop_register_timeout ends at a place of the list
\* or just behind it.
LEMMA TimerSlotInRange ==
    ASSUME Wf(lists), NEW t
    PROVE  TimerSlot(t) \in 1..(Len(lists["timeout"]) + 1)
  <1> DEFINE q == lists["timeout"]
             S == {k \in DOMAIN q : t < time[q[k]]} \cup {Len(q) + 1}
  <1>1. q \in Seq(Entry)
    BY DEF Wf, Heads, TimeoutHeads
  <1> HIDE DEF q
  <1>2. S \subseteq Nat /\ S # {} /\ S \subseteq 1..(Len(q) + 1)
    BY <1>1
  <1>3. PICK m \in S : \A k \in S : m <= k
    BY <1>2, LeastNat
  <1>4. \E n \in 1..(Len(q) + 1) :
          /\ n \in {k \in DOMAIN q : t < time[q[k]]} \cup {Len(q) + 1}
          /\ \A k \in {i \in DOMAIN q : t < time[q[i]]} : n <= k
    BY <1>2, <1>3
  <1> QED BY <1>4 DEF TimerSlot, q

-----------------------------------------------------------------------------
(* The inductive invariant.                                                *)

VarTypes ==
    /\ sock \in [Sockets -> Fd \cup {0}]
    /\ sig \in [Signals -> SigNo \cup {0}]
    /\ time \in [Timeouts -> Nat]
    /\ caught \subseteq SigNo
    /\ pipe \in Seq(SigNo)
    /\ terminate \in BOOLEAN
    /\ clock \in Nat /\ wake \in Nat /\ res \in {0, 1}
    /\ pc \in Callback \cup {"app", "loop", "select", "signal", "terminated",
                            "timer", "done"}
    /\ cur \in Entry \cup {None}
    /\ entryTimeout \in Timeouts \cup {None}
    /\ rfds \subseteq Fd \cup {0} /\ wfds \subseteq Fd \cup {0}
    /\ ran \subseteq Sockets /\ fresh \subseteq Sockets

CursorOK == pc \in Callback => Member(lists[HeadOf[pc]], cur)

IInv == Wf(lists) /\ VarTypes /\ CursorOK

\* The inductive invariant is the conjunction of the three properties.
LEMMA IInvIff == IInv <=> TypeOK /\ PoolIntegrity /\ CursorInList
  <1>1. Wf(lists) => lists \in [Heads -> Seq(Entry)]
    BY DEF Wf
  <1>2. CursorOK <=> CursorInList
    BY Zenon DEF CursorOK, CursorInList, Member
  <1> QED BY <1>1, <1>2, WfMeansIntegrity, Zenon DEF IInv, TypeOK, VarTypes

\* A free list as sloop_init builds it: n structs numbered from base + 1.
LEMMA InitialFreeList ==
    ASSUME NEW base \in Nat, NEW n \in Nat,
           NEW f, f = [i \in 1..n |-> base + n + 1 - i],
           (base + 1)..(base + n) \subseteq Entry
    PROVE  /\ f \in Seq(Entry) /\ Distinct(f)
           /\ \A e : Member(f, e) <=> e \in (base + 1)..(base + n)
  <1>1. /\ DOMAIN f = 1..n
        /\ \A i \in 1..n : f[i] = base + n + 1 - i /\ f[i] \in (base + 1)..(base + n)
    OBVIOUS
  <1>2. f \in Seq(Entry)
    BY <1>1
  <1>3. Distinct(f)
    BY <1>1 DEF Distinct
  <1>4. ASSUME NEW e \in (base + 1)..(base + n)  PROVE Member(f, e)
    <2>1. base + n + 1 - e \in 1..n /\ f[base + n + 1 - e] = e
      BY <1>1
    <2> QED BY <1>1, <2>1 DEF Member
  <1>5. ASSUME NEW e, Member(f, e)  PROVE e \in (base + 1)..(base + n)
    BY <1>1, <1>5 DEF Member
  <1> QED BY <1>2, <1>3, <1>4, <1>5

\* sloop_init leaves the pools well formed: everything is free.
LEMMA InitWf == Init => Wf(lists)
  <1> SUFFICES ASSUME Init  PROVE Wf(lists)
    OBVIOUS
  <1> DEFINE fs == lists["free_sockets"]
             ft == lists["free_timeout"]
             fg == lists["free_signals"]
  <1>1. /\ DOMAIN lists = Heads
        /\ fs = [i \in 1..NSocket |-> 0 + NSocket + 1 - i]
        /\ ft = [i \in 1..NTimeout |-> NSocket + NTimeout + 1 - i]
        /\ fg = [i \in 1..NSignal |-> (NSocket + NTimeout) + NSignal + 1 - i]
        /\ \A h \in Active : lists[h] = <<>>
    BY PoolAssumption DEF Init, Sockets, Active, Heads, SocketHeads, TimeoutHeads, SignalHeads
  <1> HIDE DEF fs, ft, fg
  <1>2. fs \in Seq(Entry) /\ Distinct(fs) /\ \A e : Member(fs, e) <=> e \in Sockets
    <2>1. 0 \in Nat /\ Sockets = (0 + 1)..(0 + NSocket) /\ (0 + 1)..(0 + NSocket) \subseteq Entry
      BY PoolAssumption DEF Sockets, Entry
    <2> QED BY <1>1, <2>1, PoolAssumption, InitialFreeList
  <1>3. ft \in Seq(Entry) /\ Distinct(ft) /\ \A e : Member(ft, e) <=> e \in Timeouts
    BY <1>1, PoolAssumption, InitialFreeList DEF Timeouts, Entry
  <1>4. fg \in Seq(Entry) /\ Distinct(fg) /\ \A e : Member(fg, e) <=> e \in Signals
    <2> DEFINE base == NSocket + NTimeout
    <2>1. base \in Nat /\ Signals = (base + 1)..(base + NSignal) /\ (base + 1)..(base + NSignal) \subseteq Entry
      BY PoolAssumption DEF Signals, Entry
    <2>2. fg = [i \in 1..NSignal |-> base + NSignal + 1 - i]
      BY <1>1
    <2> HIDE DEF base
    <2> QED BY <2>1, <2>2, PoolAssumption, InitialFreeList
  <1>5. \A h \in Active : lists[h] \in Seq(Entry) /\ Distinct(lists[h]) /\ \A e : ~Member(lists[h], e)
    <2>1. <<>> \in Seq(Entry) /\ Distinct(<<>>) /\ \A e : ~Member(<<>>, e)
      BY DEF Distinct, Member
    <2> QED BY <1>1, <2>1, Zenon
  <1>6. \A h \in Heads : h \in Active \/ h = "free_sockets" \/ h = "free_timeout" \/ h = "free_signals"
    BY DEF Active, Heads, SocketHeads, TimeoutHeads, SignalHeads
  <1>7. /\ Pool("free_sockets") = Sockets /\ Pool("free_timeout") = Timeouts
        /\ Pool("free_signals") = Signals
    BY DEF Pool, SocketHeads, TimeoutHeads, SignalHeads
  <1>8. Sockets \cap Timeouts = {} /\ Sockets \cap Signals = {} /\ Timeouts \cap Signals = {}
    BY PoolAssumption DEF Sockets, Timeouts, Signals
  <1>9. lists \in [Heads -> Seq(Entry)]
    <2>1. lists = [h \in Heads |-> lists[h]]
      BY DEF Init
    <2>2. \A h \in Heads : lists[h] \in Seq(Entry)
      BY <1>2, <1>3, <1>4, <1>5, <1>6 DEF fs, ft, fg
    <2> QED BY <2>1, <2>2
  <1>10. \A h \in Heads : \A e : Member(lists[h], e) => e \in Pool(h)
    BY <1>2, <1>3, <1>4, <1>5, <1>6, <1>7, Zenon DEF fs, ft, fg
  <1>11. \A h \in Heads : Distinct(lists[h])
    BY <1>2, <1>3, <1>4, <1>5, <1>6, Zenon DEF fs, ft, fg
  <1>12. \A a, b \in Heads : \A e : Member(lists[a], e) /\ Member(lists[b], e) => a = b
    <2> SUFFICES ASSUME NEW a \in Heads, NEW b \in Heads, NEW e,
                        Member(lists[a], e), Member(lists[b], e)
                 PROVE  a = b
      BY Zenon
    <2>1. a \notin Active /\ b \notin Active
      BY <1>5, Zenon
    <2> QED BY <1>2, <1>3, <1>4, <1>6, <1>8, <2>1 DEF fs, ft, fg
  <1>13. \A e \in Entry : \E h \in Heads : Member(lists[h], e)
    <2>1. "free_sockets" \in Heads /\ "free_timeout" \in Heads /\ "free_signals" \in Heads
      BY DEF Heads, SocketHeads, TimeoutHeads, SignalHeads
    <2> QED BY <1>2, <1>3, <1>4, <2>1, Zenon DEF fs, ft, fg, Entry
  <1> QED BY <1>9, <1>10, <1>11, <1>12, <1>13, Zenon DEF Wf

\* The state that sloop_init leaves satisfies the inductive invariant.
LEMMA InitIInv == Init => IInv
  <1> SUFFICES ASSUME Init  PROVE IInv
    OBVIOUS
  <1>1. pc \notin Callback
    BY DEF Init, Callback
  <1>2. VarTypes
    <2>1. /\ sock \in [Sockets -> Fd \cup {0}] /\ sig \in [Signals -> SigNo \cup {0}]
          /\ time \in [Timeouts -> Nat]
      BY DEF Init
    <2>2. pipe \in Seq(SigNo) /\ clock \in Nat /\ wake \in Nat /\ res \in {0, 1}
      BY DEF Init
    <2>3. /\ caught \subseteq SigNo /\ terminate \in BOOLEAN
          /\ cur \in Entry \cup {None} /\ entryTimeout \in Timeouts \cup {None}
          /\ rfds \subseteq Fd \cup {0} /\ wfds \subseteq Fd \cup {0}
          /\ ran \subseteq Sockets /\ fresh \subseteq Sockets
          /\ pc = "app"
      BY DEF Init
    <2> QED BY <2>1, <2>2, <2>3, Zenon DEF VarTypes
  <1> QED BY <1>1, <1>2, InitWf DEF IInv, CursorOK

-----------------------------------------------------------------------------
(* The API calls.  Each one moves structs between lists; the cursor stays  *)
(* in its list because it is not the struct that moves.                    *)

\* A handler's list is an active one, and different handlers have different
\* lists.
LEMMA HeadOfActive ==
    ASSUME NEW c \in Callback
    PROVE  /\ HeadOf[c] \in Active
           /\ HeadOf[c] = "signals" <=> c = "signal_cb"
           /\ HeadOf[c] = "timeout" <=> c = "timer_cb"
           /\ HeadOf[c] = "readers" <=> c = "readers"
           /\ HeadOf[c] = "writers" <=> c = "writers"
  BY DEF HeadOf, Callback, Active

\* A list of a well-formed arrangement is a sequence of structs of its pool.
LEMMA ListFacts ==
    ASSUME Wf(lists), NEW h \in Heads
    PROVE  /\ lists[h] \in Seq(Entry)
           /\ \A k \in DOMAIN lists[h] : lists[h][k] \in Pool(h)
           /\ Len(lists[h]) \in Nat
           /\ DOMAIN lists[h] = 1..Len(lists[h])
           /\ lists[h] # <<>> => 1 \in DOMAIN lists[h]
  <1>1. lists[h] \in Seq(Entry)
    BY DEF Wf
  <1>2. \A k \in DOMAIN lists[h] : lists[h][k] \in Pool(h)
    BY Zenon DEF Wf, Member
  <1> QED BY <1>1, <1>2, EmptySeq, LenProperties

\* The list heads, spelled out.
LEMMA HeadsFacts ==
    /\ Active \subseteq Heads
    /\ {"readers", "writers"} \subseteq Active /\ "timeout" \in Active /\ "signals" \in Active
    /\ {"free_sockets", "free_timeout", "free_signals"} \subseteq Heads
    /\ \A h \in {"readers", "writers"} : FreeOf(h) = "free_sockets"
    /\ FreeOf("timeout") = "free_timeout" /\ FreeOf("signals") = "free_signals"
    /\ \A h \in {"readers", "writers", "free_sockets"} : Pool(h) = Sockets
    /\ \A h \in {"timeout", "free_timeout"} : Pool(h) = Timeouts
    /\ \A h \in {"signals", "free_signals"} : Pool(h) = Signals
  BY DEF Active, Heads, SocketHeads, TimeoutHeads, SignalHeads, FreeOf, Pool

\* register_socket keeps the invariant.
LEMMA RegisterSocketStep ==
    ASSUME IInv, NEW h \in {"readers", "writers"}, NEW fd \in Fd, register_socket(h, fd)
    PROVE  IInv'
  <1> DEFINE e == lists["free_sockets"][1]
  <1>1. h \in Active /\ FreeOf(h) = "free_sockets" /\ "free_sockets" \in Heads /\ h \in Heads
        /\ Pool("free_sockets") = Sockets
    BY HeadsFacts
  <1>2. e \in Sockets /\ 1 \in 1..(Len(lists[h]) + 1)
    BY <1>1, ListFacts DEF IInv, register_socket, Empty
  <1>3. lists' = Take(h, 1) /\ ~Empty(FreeOf(h))
    BY <1>1 DEF register_socket
  <1>4. Wf(lists') /\ \A g \in Active : \A x : Member(lists[g], x) => Member(lists'[g], x)
    BY <1>1, <1>2, <1>3, TakeKeepsWf DEF IInv
  <1>5. CursorOK'
    BY <1>4, HeadOfActive DEF IInv, CursorOK, register_socket, control
  <1>6. VarTypes'
    BY <1>2 DEF IInv, VarTypes, register_socket, control, selected
  <1> QED BY <1>4, <1>5, <1>6 DEF IInv

\* cancel_socket(target) keeps the invariant.
LEMMA CancelSocketStep ==
    ASSUME IInv, NEW h \in {"readers", "writers"}, NEW e \in Sockets, cancel_socket(h, e)
    PROVE  IInv'
  <1>1. PICK k \in DOMAIN lists[h] : lists[h][k] = e /\ lists' = Free(h, k)
    BY DEF cancel_socket
  <1>2. /\ Wf(lists')
        /\ \A g \in Active : \A x : Member(lists[g], x) /\ x # e => Member(lists'[g], x)
    BY <1>1, FreeKeepsWf, HeadsFacts DEF IInv
  <1>3. CursorOK'
    BY <1>2, HeadOfActive DEF IInv, CursorOK, cancel_socket, control
  <1>4. VarTypes'
    BY DEF IInv, VarTypes, cancel_socket, control, selected, tables, history
  <1> QED BY <1>2, <1>3, <1>4 DEF IInv

\* cancel_socket(NULL) keeps the invariant.
LEMMA CancelSocketsStep ==
    ASSUME IInv, NEW h \in {"readers", "writers"}, cancel_all_sockets(h)
    PROVE  IInv'
  <1>1. /\ Wf(lists')
        /\ \A g \in Heads \ {h, FreeOf(h)} : lists'[g] = lists[g]
    BY DrainKeepsWf, HeadsFacts DEF IInv, cancel_all_sockets
  <1>2. CursorOK'
    <2>1. \A c \in Callback : c # h => HeadOf[c] \in Heads \ {h, FreeOf(h)}
      BY HeadsFacts, HeadOfActive DEF Active, Callback, HeadOf
    <2> QED BY <1>1, <2>1 DEF IInv, CursorOK, cancel_all_sockets, control
  <1>3. VarTypes'
    BY DEF IInv, VarTypes, cancel_all_sockets, control, selected, tables, history
  <1> QED BY <1>1, <1>2, <1>3 DEF IInv

\* sloop_register_signal keeps the invariant.
LEMMA RegisterSignalStep ==
    ASSUME IInv, NEW n \in SigNo, sloop_register_signal(n)
    PROVE  IInv'
  <1> DEFINE e == lists["free_signals"][1]
  <1>1. /\ "signals" \in Active /\ "signals" \in Heads /\ "free_signals" \in Heads
        /\ FreeOf("signals") = "free_signals" /\ Pool("free_signals") = Signals
    BY HeadsFacts
  <1>2. e \in Signals /\ 1 \in 1..(Len(lists["signals"]) + 1)
    BY <1>1, ListFacts DEF IInv, sloop_register_signal, Empty
  <1>3. lists' = Take("signals", 1) /\ ~Empty(FreeOf("signals"))
    BY <1>1 DEF sloop_register_signal
  <1>4. Wf(lists') /\ \A g \in Active : \A x : Member(lists[g], x) => Member(lists'[g], x)
    BY <1>1, <1>2, <1>3, TakeKeepsWf DEF IInv
  <1>5. CursorOK'
    BY <1>4, HeadOfActive DEF IInv, CursorOK, sloop_register_signal, control
  <1>6. VarTypes'
    BY <1>2 DEF IInv, VarTypes, sloop_register_signal, control, selected, history
  <1> QED BY <1>4, <1>5, <1>6 DEF IInv

\* sloop_cancel_signal(handle) keeps the invariant.
LEMMA CancelSignalStep ==
    ASSUME IInv, NEW e \in Signals, sloop_cancel_signal(e)
    PROVE  IInv'
  <1>1. PICK k \in DOMAIN lists["signals"] :
            lists["signals"][k] = e /\ lists' = Free("signals", k)
    BY DEF sloop_cancel_signal
  <1>2. /\ Wf(lists')
        /\ \A g \in Active : \A x : Member(lists[g], x) /\ x # e => Member(lists'[g], x)
    BY <1>1, FreeKeepsWf, HeadsFacts DEF IInv
  <1>3. CursorOK'
    BY <1>2, HeadOfActive DEF IInv, CursorOK, sloop_cancel_signal, control
  <1>4. VarTypes'
    BY DEF IInv, VarTypes, sloop_cancel_signal, control, selected, history
  <1> QED BY <1>2, <1>3, <1>4 DEF IInv

\* sloop_cancel_signal(NULL) keeps the invariant.
LEMMA CancelSignalsStep ==
    ASSUME IInv, sloop_cancel_all_signals
    PROVE  IInv'
  <1>1. /\ Wf(lists')
        /\ \A g \in Heads \ {"signals", FreeOf("signals")} : lists'[g] = lists[g]
    BY DrainKeepsWf, HeadsFacts DEF IInv, sloop_cancel_all_signals
  <1>2. CursorOK'
    <2>1. \A c \in Callback : c # "signal_cb" => HeadOf[c] \in Heads \ {"signals", FreeOf("signals")}
      BY HeadsFacts, HeadOfActive DEF Active, Callback, HeadOf
    <2> QED BY <1>1, <2>1 DEF IInv, CursorOK, sloop_cancel_all_signals, control
  <1>3. VarTypes'
    BY DEF IInv, VarTypes, sloop_cancel_all_signals, control, selected, history
  <1> QED BY <1>1, <1>2, <1>3 DEF IInv

\* sloop_register_timeout keeps the invariant.
LEMMA RegisterTimeoutStep ==
    ASSUME IInv, NEW d \in Delay, sloop_register_timeout(d)
    PROVE  IInv'
  <1> DEFINE e == lists["free_timeout"][1]
             t == get_uptime + d
  <1>1. /\ "timeout" \in Active /\ "timeout" \in Heads /\ "free_timeout" \in Heads
        /\ FreeOf("timeout") = "free_timeout" /\ Pool("free_timeout") = Timeouts
    BY HeadsFacts
  <1>2. e \in Timeouts /\ t \in Nat
    BY <1>1, ListFacts, UptimeNat, TimeAssumption DEF IInv, sloop_register_timeout, Empty, VarTypes
  <1>3. TimerSlot(t) \in 1..(Len(lists["timeout"]) + 1)
    BY TimerSlotInRange DEF IInv
  <1>4. lists' = Take("timeout", TimerSlot(t)) /\ ~Empty(FreeOf("timeout"))
        /\ time' = [time EXCEPT ![e] = t]
    BY <1>1 DEF sloop_register_timeout
  <1> HIDE DEF e, t
  <1>5. Wf(lists') /\ \A g \in Active : \A x : Member(lists[g], x) => Member(lists'[g], x)
    BY <1>1, <1>3, <1>4, TakeKeepsWf DEF IInv
  <1>6. CursorOK'
    BY <1>5, HeadOfActive DEF IInv, CursorOK, sloop_register_timeout, control
  <1>7. VarTypes'
    BY <1>2, <1>4 DEF IInv, VarTypes, sloop_register_timeout, control, selected, history
  <1> QED BY <1>5, <1>6, <1>7 DEF IInv

\* sloop_cancel_timeout(handle) keeps the invariant.
LEMMA CancelTimeoutStep ==
    ASSUME IInv, NEW e \in Timeouts, sloop_cancel_timeout(e)
    PROVE  IInv'
  <1>1. PICK k \in DOMAIN lists["timeout"] :
            lists["timeout"][k] = e /\ lists' = Free("timeout", k)
    BY DEF sloop_cancel_timeout
  <1>2. /\ Wf(lists')
        /\ \A g \in Active : \A x : Member(lists[g], x) /\ x # e => Member(lists'[g], x)
    BY <1>1, FreeKeepsWf, HeadsFacts DEF IInv
  <1>3. CursorOK'
    BY <1>2, HeadOfActive DEF IInv, CursorOK, sloop_cancel_timeout, control
  <1>4. VarTypes'
    BY DEF IInv, VarTypes, sloop_cancel_timeout, control, selected, tables, history
  <1> QED BY <1>2, <1>3, <1>4 DEF IInv

\* sloop_cancel_timeout(NULL) keeps the invariant.
LEMMA CancelTimeoutsStep ==
    ASSUME IInv, sloop_cancel_all_timeouts
    PROVE  IInv'
  <1>1. /\ Wf(lists')
        /\ \A g \in Heads \ {"timeout", FreeOf("timeout")} : lists'[g] = lists[g]
    BY DrainKeepsWf, HeadsFacts DEF IInv, sloop_cancel_all_timeouts
  <1>2. CursorOK'
    <2>1. \A c \in Callback : c # "timer_cb" => HeadOf[c] \in Heads \ {"timeout", FreeOf("timeout")}
      BY HeadsFacts, HeadOfActive DEF Active, Callback, HeadOf
    <2> QED BY <1>1, <2>1 DEF IInv, CursorOK, sloop_cancel_all_timeouts, control
  <1>3. VarTypes'
    BY DEF IInv, VarTypes, sloop_cancel_all_timeouts, control, selected, tables, history
  <1> QED BY <1>1, <1>2, <1>3 DEF IInv

\* Every API call keeps the invariant.
LEMMA ApiStep ==
    ASSUME IInv, Api
    PROVE  IInv'
  <1>1. CASE sloop_terminate
    <2>1. VarTypes'
      BY <1>1 DEF IInv, VarTypes, sloop_terminate, control, selected, tables, history
    <2> QED BY <1>1, <2>1 DEF IInv, CursorOK, sloop_terminate, control
  <1> QED BY <1>1, RegisterSocketStep, CancelSocketStep, CancelSocketsStep,
             RegisterSignalStep, CancelSignalStep, CancelSignalsStep,
             RegisterTimeoutStep, CancelTimeoutStep, CancelTimeoutsStep DEF Api

-----------------------------------------------------------------------------
(* The steps of sloop_run.                                                 *)

\* The four cancellations at the end of sloop_run keep the pools well formed.
LEMMA ExitWf ==
    ASSUME Wf(lists), Exit
    PROVE  Wf(lists')
  <1> DEFINE L1 == Drain(lists, "signals")
             L2 == Drain(L1, "timeout")
             L3 == Drain(L2, "readers")
             L4 == Drain(L3, "writers")
  <1>1. lists' = L4
    BY DEF Exit
  <1> HIDE DEF L1, L2, L3, L4
  <1>2. Wf(L1)
    BY DrainKeepsWf, HeadsFacts DEF L1
  <1>3. Wf(L2)
    BY <1>2, DrainKeepsWf, HeadsFacts DEF L2
  <1>4. Wf(L3)
    BY <1>3, DrainKeepsWf, HeadsFacts DEF L3
  <1>5. Wf(L4)
    BY <1>4, DrainKeepsWf, HeadsFacts DEF L4
  <1> QED BY <1>1, <1>5

\* Leave, SelectError and Break.
LEMMA ExitStep ==
    ASSUME IInv, Exit, UNCHANGED <<pipe, unlisted>>
    PROVE  IInv'
  <1>1. pc' = "done" /\ pc' \notin Callback
    BY DEF Exit, Callback
  <1>2. VarTypes'
    BY DEF IInv, VarTypes, Exit, unlisted, selected, history
  <1> QED BY <1>1, <1>2, ExitWf DEF IInv, CursorOK

\* Entering sloop_run keeps the invariant.
LEMMA StartStep ==
    ASSUME IInv, Start
    PROVE  IInv'
  <1>1. pc' \notin Callback /\ lists' = lists
    BY DEF Start, Callback
  <1>2. VarTypes'
    BY DEF IInv, VarTypes, Start, unlisted, selected, history
  <1> QED BY <1>1, <1>2 DEF IInv, CursorOK

\* The top of the loop keeps the invariant.
LEMMA SetupStep ==
    ASSUME IInv, Setup
    PROVE  IInv'
  <1>1. pc' = "select" /\ pc' \notin Callback /\ lists' = lists
    BY DEF Setup, Callback
  <1>2. entryTimeout' \in Timeouts \cup {None} /\ wake' \in Nat
    <2>1. CASE Empty("timeout")
      BY <2>1 DEF Setup
    <2>2. CASE ~Empty("timeout")
      <3>1. lists["timeout"][1] \in Timeouts
        BY <2>2, ListFacts, HeadsFacts DEF IInv, Empty
      <3>2. get_uptime \in Nat /\ clock \in Nat /\ time[lists["timeout"][1]] \in Nat
        BY <3>1, UptimeNat DEF IInv, VarTypes
      <3> QED BY <2>2, <3>1, <3>2 DEF Setup
    <2> QED BY <2>1, <2>2
  <1>3. VarTypes'
    BY <1>1, <1>2 DEF IInv, VarTypes, Setup, unlisted, history
  <1> QED BY <1>1, <1>3 DEF IInv, CursorOK

\* What select is asked about are descriptors.
LEMMA FdsTyped ==
    ASSUME IInv, NEW h \in {"readers", "writers"}
    PROVE  FdsOf(h) \subseteq Fd \cup {0}
  BY ListFacts, HeadsFacts DEF IInv, VarTypes, FdsOf

\* A return of select keeps the invariant.
LEMMA SelectStep ==
    ASSUME IInv,
           \/ \E R \in SUBSET FdsOf("readers"), W \in SUBSET FdsOf("writers") : SelectReady(R, W)
           \/ SelectTimeout
    PROVE  IInv'
  <1>1. /\ pc' \in {"signal", "timer"} /\ pc' \notin Callback /\ lists' = lists
        /\ res' \in {0, 1} /\ rfds' \subseteq Fd \cup {0} /\ wfds' \subseteq Fd \cup {0}
    BY FdsTyped DEF SelectReady, SelectTimeout, Callback
  <1>2. UNCHANGED <<caught, pipe, cur, entryTimeout, wake, history, unlisted>>
    BY DEF SelectReady, SelectTimeout
  <1>3. VarTypes'
    BY <1>1, <1>2 DEF IInv, VarTypes, unlisted, history
  <1> QED BY <1>1, <1>3 DEF IInv, CursorOK

\* Reading the pipe and looking the signal up keeps the invariant.
LEMMA ReadSignalStep ==
    ASSUME IInv, ReadSignal
    PROVE  IInv'
  <1>1. lists' = lists /\ pipe' = Tail(pipe) /\ UNCHANGED <<caught, selected, history, unlisted>>
    BY DEF ReadSignal
  <1>2. pipe' \in Seq(SigNo)
    BY <1>1, HeadTailProperties DEF IInv, VarTypes, ReadSignal
  <1>3. \/ (pc' = "timer" \/ pc' = "terminated") /\ cur' = None
        \/ pc' = "signal_cb" /\ \E k \in DOMAIN lists["signals"] : cur' = lists["signals"][k]
    BY DEF ReadSignal
  <1>4. cur' \in Entry \cup {None}
    BY <1>3, ListFacts, HeadsFacts DEF IInv, Entry
  <1>5. CursorOK'
    BY <1>1, <1>3, Zenon DEF CursorOK, Callback, HeadOf, Member
  <1>6. VarTypes'
    BY <1>1, <1>2, <1>3, <1>4 DEF IInv, VarTypes, unlisted, selected, history, Callback
  <1> QED BY <1>1, <1>5, <1>6 DEF IInv

\* The return of a signal handler keeps the invariant.
LEMMA SignalReturnStep ==
    ASSUME IInv, SignalReturn
    PROVE  IInv'
  <1>1. pc' \in {"terminated", "timer"} /\ pc' \notin Callback /\ cur' = None
    BY DEF SignalReturn, Callback
  <1>2. PosOf("signals", cur) \in DOMAIN lists["signals"]
    <2>1. Member(lists["signals"], cur)
      BY HeadOfActive DEF IInv, CursorOK, SignalReturn, Callback
    <2> QED BY <2>1, PosOfInList, HeadsFacts
  <1>3. Wf(lists')
    BY <1>2, FreeKeepsWf, HeadsFacts DEF IInv, SignalReturn
  <1>4. VarTypes'
    BY <1>1 DEF IInv, VarTypes, SignalReturn, unlisted, selected, history
  <1> QED BY <1>1, <1>3, <1>4 DEF IInv, CursorOK

\* Calling a timer handler keeps the invariant.
LEMMA FireTimerStep ==
    ASSUME IInv, FireTimer
    PROVE  IInv'
  <1>1. pc' = "timer_cb" /\ lists' = lists /\ cur' = entryTimeout
    BY DEF FireTimer
  <1>2. entryTimeout = lists["timeout"][1] /\ 1 \in DOMAIN lists["timeout"]
    BY ListFacts, HeadsFacts DEF IInv, FireTimer, TimerDue, Empty
  <1>3. Member(lists["timeout"], entryTimeout)
    BY <1>2 DEF Member
  <1>4. CursorOK'
    BY <1>1, <1>3, Zenon DEF CursorOK, Callback, HeadOf
  <1>5. VarTypes'
    BY <1>1 DEF IInv, VarTypes, FireTimer, unlisted, selected, history, Callback, Entry
  <1> QED BY <1>1, <1>4, <1>5 DEF IInv

\* The start of a writers pass, with the lists L that the step leaves behind.
LEMMA ToWritersStep ==
    ASSUME VarTypes, NEW L, Wf(L), lists' = L, ToWriters(L)
    PROVE  /\ CursorOK' /\ cur' \in Entry \cup {None}
           /\ pc' \in {"loop", "writers"}
           /\ ran' \subseteq Sockets /\ fresh' \subseteq Sockets
  <1> DEFINE S == ReadyFrom(L, "writers", 1)
  <1>1. CASE S = {}
    BY <1>1, Zenon DEF ToWriters, CursorOK, Callback
  <1>2. CASE S # {}
    <2>1. L["writers"] \in Seq(Entry) /\ \A e : Member(L["writers"], e) => e \in Sockets
      BY HeadsFacts DEF Wf
    <2>2. S \subseteq DOMAIN L["writers"] /\ S \subseteq Nat
      BY <2>1 DEF ReadyFrom
    <2>3. First(S) \in DOMAIN L["writers"]
      BY <1>2, <2>2, FirstInSet
    <2>4. pc' = "writers" /\ cur' = L["writers"][First(S)] /\ ran' = {cur'} /\ fresh' = {}
      BY <1>2 DEF ToWriters
    <2>5. Member(L["writers"], cur')
      BY <2>3, <2>4 DEF Member
    <2>6. cur' \in Sockets
      BY <2>1, <2>5
    <2>7. CursorOK'
      BY <2>4, <2>5, Zenon DEF CursorOK, Callback, HeadOf
    <2> QED BY <2>4, <2>6, <2>7 DEF Entry
  <1> QED BY <1>1, <1>2

\* The start of a readers pass, with the lists L that the step leaves behind.
LEMMA ToReadersStep ==
    ASSUME VarTypes, NEW L, Wf(L), lists' = L, ToReaders(L)
    PROVE  /\ CursorOK' /\ cur' \in Entry \cup {None}
           /\ pc' \in {"loop", "writers", "readers"}
           /\ ran' \subseteq Sockets /\ fresh' \subseteq Sockets
  <1> DEFINE S == ReadyFrom(L, "readers", 1)
  <1>1. CASE S = {}
    BY <1>1, ToWritersStep DEF ToReaders
  <1>2. CASE S # {}
    <2>1. L["readers"] \in Seq(Entry) /\ \A e : Member(L["readers"], e) => e \in Sockets
      BY HeadsFacts DEF Wf
    <2>2. S \subseteq DOMAIN L["readers"] /\ S \subseteq Nat
      BY <2>1 DEF ReadyFrom
    <2>3. First(S) \in DOMAIN L["readers"]
      BY <1>2, <2>2, FirstInSet
    <2>4. pc' = "readers" /\ cur' = L["readers"][First(S)] /\ ran' = {cur'} /\ fresh' = {}
      BY <1>2 DEF ToReaders
    <2>5. Member(L["readers"], cur')
      BY <2>3, <2>4 DEF Member
    <2>6. cur' \in Sockets
      BY <2>1, <2>5
    <2>7. CursorOK'
      BY <2>4, <2>5, Zenon DEF CursorOK, Callback, HeadOf
    <2> QED BY <2>4, <2>6, <2>7 DEF Entry
  <1> QED BY <1>1, <1>2

\* What follows the timer check, with the lists L that it leaves behind.
LEMMA AfterTimerStep ==
    ASSUME VarTypes, NEW L, Wf(L), lists' = L, AfterTimer(L),
           UNCHANGED <<caught, pipe, selected, unlisted>>
    PROVE  IInv'
  <1>1. /\ CursorOK' /\ cur' \in Entry \cup {None}
        /\ pc' \in {"loop", "writers", "readers"}
        /\ ran' \subseteq Sockets /\ fresh' \subseteq Sockets
    <2>1. CASE res = 0
      <3>1. pc' = "loop" /\ cur' = None /\ UNCHANGED history
        BY <2>1 DEF AfterTimer
      <3>2. CursorOK'
        BY <3>1, Zenon DEF CursorOK, Callback
      <3> QED BY <3>1, <3>2 DEF VarTypes, history
    <2>2. CASE res # 0
      BY <2>2, ToReadersStep DEF AfterTimer
    <2> QED BY <2>1, <2>2
  <1>2. pc' \in Callback \cup {"app", "loop", "select", "signal", "terminated", "timer", "done"}
    BY <1>1 DEF Callback
  <1>3. VarTypes'
    BY <1>1, <1>2 DEF VarTypes, unlisted, selected
  <1> QED BY <1>1, <1>3 DEF IInv

\* Passing over the timers keeps the invariant.
LEMMA SkipTimerStep ==
    ASSUME IInv, SkipTimer
    PROVE  IInv'
  BY AfterTimerStep DEF IInv, SkipTimer

\* The return of a timer handler keeps the invariant.
LEMMA TimerReturnStep ==
    ASSUME IInv, TimerReturn
    PROVE  IInv'
  <1>1. PosOf("timeout", cur) \in DOMAIN lists["timeout"]
    <2>1. Member(lists["timeout"], cur)
      BY HeadOfActive DEF IInv, CursorOK, TimerReturn, Callback
    <2> QED BY <2>1, PosOfInList, HeadsFacts
  <1>2. Wf(lists')
    BY <1>1, FreeKeepsWf, HeadsFacts DEF IInv, TimerReturn
  <1> QED BY <1>2, AfterTimerStep DEF IInv, TimerReturn

\* The return of a socket handler keeps the invariant: the cursor has moved
\* on before the struct is freed.
LEMMA SocketReturnStep ==
    ASSUME IInv, NEW h \in {"readers", "writers"}, SocketReturn(h)
    PROVE  IInv'
  <1> DEFINE k == PosOf(h, cur)
             S == ReadyFrom(lists, h, k + 1)
  <1>1. /\ h \in Active /\ h \in Heads /\ h \in Callback /\ HeadOf[h] = h /\ Pool(h) = Sockets
        /\ pc = h
    BY HeadsFacts DEF Callback, HeadOf, SocketReturn
  <1>2. k \in DOMAIN lists[h] /\ lists[h][k] = cur
    BY <1>1, PosOfInList DEF IInv, CursorOK
  <1>3. lists' = lists \/ lists' = Free(h, k)
    BY DEF SocketReturn
  <1>4. /\ Wf(lists')
        /\ \A g \in Active : \A x : Member(lists[g], x) /\ x # cur => Member(lists'[g], x)
    BY <1>1, <1>2, <1>3, FreeKeepsWf DEF IInv
  <1>5. UNCHANGED <<caught, pipe, selected, unlisted>>
    BY DEF SocketReturn
  <1>6. /\ CursorOK' /\ cur' \in Entry \cup {None}
        /\ pc' \in {"loop", "writers", "readers"}
        /\ ran' \subseteq Sockets /\ fresh' \subseteq Sockets
    <2>1. CASE S # {}
      <3>1. /\ cur' = lists[h][First(S)] /\ ran' = ran \cup {cur'}
            /\ pc' = pc /\ fresh' = fresh
        BY <2>1 DEF SocketReturn
      <3>2. DOMAIN lists[h] \subseteq Nat
        BY <1>1, ListFacts DEF IInv
      <3>3. S \subseteq DOMAIN lists[h] /\ S \subseteq Nat /\ \A j \in S : j > k
        BY <1>2, <3>2 DEF ReadyFrom
      <3>4. First(S) \in DOMAIN lists[h] /\ First(S) # k
        BY <1>2, <2>1, <3>2, <3>3, FirstInSet
      <3>5. cur' # cur
        BY <1>1, <1>2, <3>1, <3>4 DEF IInv, Wf, Distinct
      <3>6. Member(lists[h], cur')
        BY <3>1, <3>4 DEF Member
      <3>7. Member(lists'[h], cur') /\ cur' \in Sockets
        BY <1>1, <1>4, <3>5, <3>6 DEF IInv, Wf
      <3>8. CursorOK'
        BY <1>1, <3>1, <3>7 DEF CursorOK
      <3> QED BY <1>1, <3>1, <3>7, <3>8 DEF IInv, VarTypes, Entry
    <2>2. CASE S = {} /\ h = "readers"
      <3>1. ToWriters(lists')
        BY <2>2 DEF SocketReturn
      <3> QED BY <1>4, <3>1, ToWritersStep DEF IInv
    <2>3. CASE S = {} /\ h = "writers"
      <3>1. pc' = "loop" /\ cur' = None /\ ran' = {} /\ fresh' = {}
        BY <2>3 DEF SocketReturn
      <3>2. CursorOK'
        BY <3>1, Zenon DEF CursorOK, Callback
      <3> QED BY <3>1, <3>2
    <2> QED BY <2>1, <2>2, <2>3
  <1>7. pc' \in Callback \cup {"app", "loop", "select", "signal", "terminated", "timer", "done"}
    BY <1>6 DEF Callback
  <1>8. VarTypes'
    BY <1>5, <1>6, <1>7 DEF IInv, VarTypes, unlisted, selected
  <1> QED BY <1>4, <1>6, <1>8 DEF IInv

\* Every step of sloop_run keeps the invariant.
LEMMA RunStep ==
    ASSUME IInv, Run
    PROVE  IInv'
  <1>1. CASE Leave
    BY <1>1, ExitStep DEF Leave
  <1>2. CASE SelectError
    BY <1>2, ExitStep DEF SelectError
  <1>3. CASE Break
    BY <1>3, ExitStep DEF Break
  <1> QED BY <1>1, <1>2, <1>3, StartStep, SetupStep, SelectStep, ReadSignalStep,
             SignalReturnStep, FireTimerStep, SkipTimerStep, TimerReturnStep,
             SocketReturnStep DEF Run

-----------------------------------------------------------------------------
(* The environment, and the theorems.                                      *)

\* A signal keeps the invariant.
LEMMA RaiseStep ==
    ASSUME IInv, NEW n \in SigNo, sloop_signals_handler(n)
    PROVE  IInv'
  <1>1. pipe' \in Seq(SigNo)
    BY AppendProperties DEF IInv, VarTypes, sloop_signals_handler
  <1>2. pc' = pc \/ pc' = "loop"
    BY DEF sloop_signals_handler
  <1>3. CursorOK'
    BY <1>2, Zenon DEF IInv, CursorOK, sloop_signals_handler, Callback
  <1>4. VarTypes'
    BY <1>1, <1>2 DEF IInv, VarTypes, sloop_signals_handler, unlisted, selected, history
  <1> QED BY <1>3, <1>4 DEF IInv, sloop_signals_handler

\* Time keeps the invariant.
LEMMA TickStep ==
    ASSUME IInv, Tick
    PROVE  IInv'
  <1>1. VarTypes'
    BY DEF IInv, VarTypes, Tick, tables, selected, history
  <1> QED BY <1>1 DEF IInv, CursorOK, Tick

\* So does a stuttering step.
LEMMA StutterStep ==
    ASSUME IInv, UNCHANGED vars
    PROVE  IInv'
  <1>1. VarTypes'
    BY DEF IInv, VarTypes, vars
  <1> QED BY <1>1 DEF IInv, CursorOK, vars

\* For pools of any size, any descriptors, signals, delays and bounds: in every
\* reachable state of the event loop the variables are well typed, each struct
\* of the three pools is linked into exactly one list, and the cursor of a
\* running handler is in the list that sloop_run walks.
THEOREM SloopInvariant == Spec => [](TypeOK /\ PoolIntegrity /\ CursorInList)
  <1>1. Init => IInv
    BY InitIInv
  <1>2. IInv /\ [Next]_vars => IInv'
    BY ApiStep, RunStep, RaiseStep, TickStep, StutterStep DEF Next
  <1>3. Spec => []IInv
    BY <1>1, <1>2, PTL DEF Spec
  <1> QED BY <1>3, IInvIff, PTL

\* Type correctness of the event loop.
THEOREM SloopTypes == Spec => []TypeOK
  BY SloopInvariant, PTL

\* No sequence of API calls and handler results leaks a pool struct or links
\* one twice (get_xxx, free_xxx, cancel_xxx and the dlist_del of sloop_run).
THEOREM SloopPools == Spec => []PoolIntegrity
  BY SloopInvariant, PTL

\* sloop_run's cursor never leaves the list it walks.
THEOREM SloopCursor == Spec => []CursorInList
  BY SloopInvariant, PTL

-----------------------------------------------------------------------------
(* The passes over the readers and the writers.                            *)

\* The state of a pass over the list q, with the cursor on c: R are the
\* structs whose handlers have been called, F those registered since the pass
\* began, fds the descriptors of the structs and ready those that were
\* reported.  Nothing behind the cursor has been called or is new, and nothing
\* ready before it has been passed over.
Pass(q, fds, c, R, F, ready) ==
    /\ c \in R /\ c \notin F
    /\ \A k, j \in DOMAIN q :
          q[k] = c =>
            /\ j > k => q[j] \notin R \cup F
            /\ j < k /\ q[j] \notin F /\ fds[q[j]] \in ready => q[j] \in R

Passes == {"readers", "writers"}
PassInv == pc \in Passes => Pass(lists[pc], sock, cur, ran, fresh, Ready(pc))

\* A pass begins with the first ready entry.
LEMMA PassBegins ==
    ASSUME NEW q \in Seq(Entry), Distinct(q), NEW fds, NEW ready, NEW n \in DOMAIN q,
           \A j \in DOMAIN q : fds[q[j]] \in ready => n <= j
    PROVE  Pass(q, fds, q[n], {q[n]}, {}, ready)
  <1>1. DOMAIN q \subseteq Nat
    OBVIOUS
  <1>2. \A k \in DOMAIN q : q[k] = q[n] => k = n
    BY DEF Distinct
  <1> QED BY <1>1, <1>2 DEF Pass, Distinct

\* The cursor moves on to the next ready entry.
LEMMA PassAdvances ==
    ASSUME NEW q \in Seq(Entry), Distinct(q), NEW fds, NEW c, NEW R, NEW F, NEW ready,
           Pass(q, fds, c, R, F, ready),
           NEW k \in DOMAIN q, q[k] = c, NEW n \in DOMAIN q, n > k,
           \A j \in DOMAIN q : j > k /\ fds[q[j]] \in ready => n <= j
    PROVE  Pass(q, fds, q[n], R \cup {q[n]}, F, ready)
  <1>1. DOMAIN q \subseteq Nat
    OBVIOUS
  <1>2. q[n] \notin F
    BY DEF Pass
  <1>3. ASSUME NEW m \in DOMAIN q, q[m] = q[n], NEW j \in DOMAIN q, j > m
        PROVE  q[j] \notin (R \cup {q[n]}) \cup F
    <2>1. m = n /\ j > k /\ j # n
      BY <1>1, <1>3 DEF Distinct
    <2>2. q[j] # q[n]
      BY <2>1 DEF Distinct
    <2> QED BY <2>1, <2>2 DEF Pass
  <1>4. ASSUME NEW m \in DOMAIN q, q[m] = q[n], NEW j \in DOMAIN q, j < m,
               q[j] \notin F, fds[q[j]] \in ready
        PROVE  q[j] \in R \cup {q[n]}
    <2>1. m = n
      BY <1>4 DEF Distinct
    <2>2. ~(j > k)
      BY <1>1, <1>4, <2>1
    <2>3. j < k \/ j = k
      BY <1>1, <2>2
    <2> QED BY <1>4, <2>3 DEF Pass
  <1> QED BY <1>2, <1>3, <1>4 DEF Pass

\* Unlinking another entry does not disturb the pass.
LEMMA PassRemove ==
    ASSUME NEW q \in Seq(Entry), NEW fds, NEW c, NEW R, NEW F, NEW ready,
           Pass(q, fds, c, R, F, ready), NEW m \in 1..Len(q), q[m] # c
    PROVE  Pass(RemoveAt(q, m), fds, c, R, F, ready)
  <1> DEFINE r == RemoveAt(q, m)
             old(i) == IF i < m THEN i ELSE i + 1
  <1>1. /\ r \in Seq(Entry) /\ Len(r) = Len(q) - 1
        /\ \A i \in 1..(Len(q) - 1) : r[i] = IF i < m THEN q[i] ELSE q[i + 1]
    BY RemoveAtEntries
  <1>2. Len(q) \in Nat /\ DOMAIN q = 1..Len(q) /\ DOMAIN r = 1..(Len(q) - 1)
    BY <1>1, LenProperties
  <1> HIDE DEF r
  <1>3. \A i \in DOMAIN r : old(i) \in DOMAIN q /\ r[i] = q[old(i)]
    BY <1>1, <1>2
  <1>4. \A i, j \in DOMAIN r : i < j => old(i) < old(j)
    BY <1>2
  <1>5. \A i \in DOMAIN r : i \in Int
    BY <1>2
  <1> HIDE DEF old
  <1>6. ASSUME NEW k \in DOMAIN r, NEW j \in DOMAIN r, r[k] = c
        PROVE  /\ j > k => r[j] \notin R \cup F
               /\ j < k /\ r[j] \notin F /\ fds[r[j]] \in ready => r[j] \in R
    <2>1. q[old(k)] = c /\ old(k) \in DOMAIN q /\ old(j) \in DOMAIN q /\ r[j] = q[old(j)]
      BY <1>3, <1>6
    <2>2. (j > k => old(j) > old(k)) /\ (j < k => old(j) < old(k))
      BY <1>2, <1>4, <1>5
    <2> QED BY <2>1, <2>2 DEF Pass
  <1> QED BY <1>6 DEF Pass, r

\* Linking a new entry in at the head does not disturb the pass.
LEMMA PassInsert ==
    ASSUME NEW q \in Seq(Entry), NEW e \in Entry, ~Member(q, e), NEW c, Member(q, c),
           NEW fds, NEW fds2, \A j \in DOMAIN q : fds2[q[j]] = fds[q[j]],
           NEW R, NEW F, NEW ready, Pass(q, fds, c, R, F, ready)
    PROVE  Pass(InsertAt(q, 1, e), fds2, c, R, F \cup {e}, ready)
  <1> DEFINE r == InsertAt(q, 1, e)
  <1>0. Len(q) \in Nat /\ 1 \in 1..(Len(q) + 1)
    BY LenProperties
  <1>1. /\ r \in Seq(Entry) /\ Len(r) = Len(q) + 1
        /\ \A i \in 1..(Len(q) + 1) : r[i] = IF i < 1 THEN q[i] ELSE IF i = 1 THEN e ELSE q[i - 1]
    BY <1>0, InsertAtEntries
  <1>2. DOMAIN q = 1..Len(q) /\ DOMAIN r = 1..(Len(q) + 1)
    BY <1>1, LenProperties
  <1> HIDE DEF r
  <1>3. c # e
    BY Zenon
  <1>4. \A i \in DOMAIN q : q[i] # e /\ q[i] \in Entry
    BY <1>2 DEF Member
  <1>5. ASSUME NEW k \in DOMAIN r, NEW j \in DOMAIN r, r[k] = c
        PROVE  /\ j > k => r[j] \notin R \cup (F \cup {e})
               /\ j < k /\ r[j] \notin F \cup {e} /\ fds2[r[j]] \in ready => r[j] \in R
    <2>1. k # 1 /\ k - 1 \in DOMAIN q /\ q[k - 1] = c
      BY <1>0, <1>1, <1>2, <1>3, <1>5
    <2>2. CASE j = 1
      <3>1. r[j] = e /\ ~(j > k)
        BY <1>0, <1>1, <1>2, <2>1, <2>2
      <3> QED BY <3>1
    <2>3. CASE j # 1
      <3>1. j - 1 \in DOMAIN q /\ r[j] = q[j - 1] /\ (j > k <=> j - 1 > k - 1)
            /\ (j < k <=> j - 1 < k - 1)
        BY <1>0, <1>1, <1>2, <2>1, <2>3
      <3>2. r[j] # e /\ fds2[r[j]] = fds[q[j - 1]]
        BY <1>4, <3>1
      <3> QED BY <2>1, <3>1, <3>2 DEF Pass
    <2> QED BY <2>2, <2>3
  <1> QED BY <1>3, <1>5 DEF Pass, r

\* Neither does a new descriptor of a struct of another list.
LEMMA PassOther ==
    ASSUME NEW q \in Seq(Entry),
           NEW fds, NEW fds2, \A j \in DOMAIN q : fds2[q[j]] = fds[q[j]],
           NEW c, NEW R, NEW F, NEW ready, Pass(q, fds, c, R, F, ready)
    PROVE  Pass(q, fds2, c, R, F, ready)
  BY DEF Pass

\* The lists that Move leaves.
LEMMA MoveLists ==
    ASSUME Wf(lists), NEW a \in Heads, NEW b \in Heads, a # b, NEW k, NEW m
    PROVE  /\ Move(a, k, b, m)[a] = RemoveAt(lists[a], k)
           /\ Move(a, k, b, m)[b] = InsertAt(lists[b], m, lists[a][k])
           /\ \A g \in Heads \ {a, b} : Move(a, k, b, m)[g] = lists[g]
  <1> DEFINE x == RemoveAt(lists[a], k)
             y == InsertAt(lists[b], m, lists[a][k])
  <1>1. Move(a, k, b, m) = [lists EXCEPT ![a] = x, ![b] = y]
    BY Zenon DEF Move
  <1>2. DOMAIN lists = Heads
    BY DEF Wf
  <1> HIDE DEF x, y
  <1>3. /\ [lists EXCEPT ![a] = x, ![b] = y][a] = x
        /\ [lists EXCEPT ![a] = x, ![b] = y][b] = y
        /\ \A g \in Heads \ {a, b} : [lists EXCEPT ![a] = x, ![b] = y][g] = lists[g]
    BY <1>2
  <1> QED BY <1>1, <1>3 DEF x, y

\* Move leaves every other list alone.
LEMMA MoveOther ==
    ASSUME Wf(lists), NEW a \in Heads, NEW b \in Heads, a # b, NEW k, NEW m,
           NEW g \in Heads, g # a, g # b
    PROVE  Move(a, k, b, m)[g] = lists[g]
  BY MoveLists

\* The lists of a pass.
LEMMA PassLists ==
    ASSUME NEW h \in Passes
    PROVE  /\ h \in Active /\ h \in Heads /\ h \in Callback /\ HeadOf[h] = h
           /\ FreeOf(h) = "free_sockets" /\ "free_sockets" \in Heads /\ h # "free_sockets"
           /\ Pool(h) = Sockets /\ Pool("free_sockets") = Sockets
           /\ \A g \in {"timeout", "signals"} : h # g /\ h # FreeOf(g)
  BY HeadsFacts DEF Passes, Callback, HeadOf

\* The pass is not disturbed by a step that leaves its list, its history and
\* the descriptors alone.
LEMMA PassUnchanged ==
    ASSUME IInv, PassInv, pc' = pc \/ pc' \notin Passes,
           pc \in Passes => lists'[pc] = lists[pc],
           UNCHANGED <<sock, cur, ran, fresh, rfds, wfds>>
    PROVE  PassInv'
  <1> SUFFICES ASSUME pc' \in Passes
               PROVE  Pass(lists'[pc'], sock', cur', ran', fresh', Ready(pc)')
    BY DEF PassInv
  <1>1. pc' = pc /\ pc \in Passes /\ lists'[pc'] = lists[pc]
    OBVIOUS
  <1>2. Ready(pc)' = Ready(pc)
    BY <1>1 DEF Ready
  <1>3. Pass(lists[pc], sock, cur, ran, fresh, Ready(pc))
    BY <1>1 DEF PassInv
  <1> QED BY <1>1, <1>2, <1>3

\* register_socket puts the new entry before the cursor and marks it as new,
\* or into the list of the other pass.
LEMMA RegisterSocketPass ==
    ASSUME IInv, PassInv, NEW h \in Passes, NEW fd \in Fd, register_socket(h, fd)
    PROVE  PassInv'
  <1> DEFINE e == lists["free_sockets"][1]
  <1>1. /\ pc' = pc /\ cur' = cur /\ ran' = ran /\ rfds' = rfds /\ wfds' = wfds
        /\ sock' = [sock EXCEPT ![e] = fd]
        /\ fresh' = IF pc = h THEN fresh \cup {e} ELSE fresh
        /\ lists' = Move("free_sockets", 1, h, 1)
    BY PassLists DEF register_socket, control, selected, Take
  <1> SUFFICES ASSUME pc \in Passes
               PROVE  Pass(lists'[pc], sock', cur, ran, fresh', Ready(pc))
    BY <1>1 DEF PassInv, Ready
  <1>2. /\ lists[pc] \in Seq(Entry) /\ lists[h] \in Seq(Entry)
        /\ 1 \in DOMAIN lists["free_sockets"]
        /\ e \in Sockets /\ e \in Entry
    BY PassLists, ListFacts DEF IInv, register_socket, Empty, Entry
  <1>3. Member(lists["free_sockets"], e)
    BY <1>2 DEF Member
  <1>4. ~Member(lists[pc], e)
    BY <1>3, PassLists DEF IInv, Wf
  <1>5. \A j \in DOMAIN lists[pc] : lists[pc][j] \in Sockets /\ lists[pc][j] # e
    BY <1>4, PassLists, ListFacts DEF IInv, Member
  <1>6. \A j \in DOMAIN lists[pc] : sock'[lists[pc][j]] = sock[lists[pc][j]]
    BY <1>1, <1>5 DEF IInv, VarTypes
  <1>7. Pass(lists[pc], sock, cur, ran, fresh, Ready(pc))
    BY DEF PassInv
  <1>8. Member(lists[pc], cur)
    BY PassLists DEF IInv, CursorOK
  <1> HIDE DEF e
  <1>9. CASE pc = h
    <2>1. lists'[pc] = InsertAt(lists[pc], 1, e) /\ fresh' = fresh \cup {e}
      BY <1>1, <1>9, MoveLists, PassLists DEF IInv, e
    <2>2. Pass(InsertAt(lists[pc], 1, e), sock', cur, ran, fresh \cup {e}, Ready(pc))
      BY <1>2, <1>4, <1>6, <1>7, <1>8, PassInsert, Zenon
    <2> QED BY <2>1, <2>2
  <1>10. CASE pc # h
    <2>1. lists'[pc] = lists[pc] /\ fresh' = fresh
      BY <1>1, <1>10, MoveLists, PassLists DEF IInv
    <2> QED BY <1>2, <1>6, <1>7, <2>1, PassOther
  <1> QED BY <1>9, <1>10

\* cancel_socket(target) unlinks an entry other than the cursor.
LEMMA CancelSocketPass ==
    ASSUME IInv, PassInv, NEW h \in Passes, NEW e \in Sockets, cancel_socket(h, e)
    PROVE  PassInv'
  <1>1. PICK k \in DOMAIN lists[h] : lists[h][k] = e /\ lists' = Move(h, k, "free_sockets", 1)
    BY PassLists DEF cancel_socket, Free
  <1>2. e # cur /\ UNCHANGED <<sock, pc, cur, ran, fresh, rfds, wfds>>
    BY DEF cancel_socket, tables, control, selected, history
  <1>3. CASE pc \in Passes /\ pc = h
    <2>1. lists'[pc] = RemoveAt(lists[pc], k)
      BY <1>1, <1>3, MoveLists, PassLists DEF IInv
    <2>2. lists[pc] \in Seq(Entry) /\ k \in 1..Len(lists[pc])
      BY <1>1, <1>3, PassLists, ListFacts DEF IInv
    <2>3. Pass(lists'[pc], sock, cur, ran, fresh, Ready(pc))
      BY <1>1, <1>2, <1>3, <2>1, <2>2, PassRemove DEF PassInv
    <2> QED BY <1>2, <2>3 DEF PassInv, Ready
  <1>4. CASE pc \notin Passes \/ pc # h
    <2>1. pc \in Passes => lists'[pc] = lists[pc]
      BY <1>1, <1>4, MoveLists, PassLists DEF IInv
    <2> QED BY <1>2, <2>1, PassUnchanged
  <1> QED BY <1>3, <1>4

\* The other API calls leave the list of the pass alone.
LEMMA ApiPass ==
    ASSUME IInv, PassInv, Api
    PROVE  PassInv'
  <1>1. ASSUME NEW h \in Passes, cancel_all_sockets(h)  PROVE PassInv'
    <2>1. UNCHANGED <<sock, pc, cur, ran, fresh, rfds, wfds>> /\ pc # h
      BY <1>1 DEF cancel_all_sockets, tables, control, selected, history
    <2>2. pc \in Passes => lists'[pc] = lists[pc]
      BY <1>1, <2>1, DrainKeepsWf, PassLists DEF IInv, cancel_all_sockets
    <2> QED BY <2>1, <2>2, PassUnchanged
  <1>2. ASSUME NEW g \in {"timeout", "signals"}, NEW k, NEW m,
               \/ lists' = Move(g, k, FreeOf(g), m) \/ lists' = Move(FreeOf(g), k, g, m)
               \/ lists' = Drain(lists, g) \/ lists' = lists,
               UNCHANGED <<sock, pc, cur, ran, fresh, rfds, wfds>>
        PROVE  PassInv'
    <2>1. g \in Active /\ g \in Heads /\ FreeOf(g) \in Heads /\ g # FreeOf(g)
      BY HeadsFacts
    <2>2. ASSUME pc \in Passes  PROVE lists'[pc] = lists[pc]
      <3>1. pc \in Heads /\ pc # g /\ pc # FreeOf(g) /\ g # FreeOf(g) /\ Wf(lists)
        BY <2>1, <2>2, PassLists DEF IInv
      <3>2. \A a, b \in Heads : a # b /\ pc # a /\ pc # b => Move(a, k, b, m)[pc] = lists[pc]
        BY <3>1, MoveOther
      <3>3. Move(g, k, FreeOf(g), m)[pc] = lists[pc] /\ Move(FreeOf(g), k, g, m)[pc] = lists[pc]
        BY <2>1, <3>1, <3>2
      <3>4. lists' = Drain(lists, g) => lists'[pc] = lists[pc]
        BY <2>1, <3>1, DrainKeepsWf DEF IInv
      <3> QED BY <1>2, <3>2, <3>3, <3>4
    <2> QED BY <1>2, <2>2, PassUnchanged
  <1>3. ASSUME NEW n \in SigNo, sloop_register_signal(n)  PROVE PassInv'
    <2>1. /\ lists' = Move(FreeOf("signals"), 1, "signals", 1)
          /\ UNCHANGED <<sock, pc, cur, ran, fresh, rfds, wfds>>
      BY <1>3 DEF sloop_register_signal, Take, control, selected, history
    <2> QED BY <1>2, <2>1
  <1>4. ASSUME NEW e \in Signals, sloop_cancel_signal(e)  PROVE PassInv'
    <2>1. /\ \E k : lists' = Move("signals", k, FreeOf("signals"), 1)
          /\ UNCHANGED <<sock, pc, cur, ran, fresh, rfds, wfds>>
      BY <1>4 DEF sloop_cancel_signal, Free, control, selected, history
    <2> QED BY <1>2, <2>1
  <1>5. ASSUME sloop_cancel_all_signals  PROVE PassInv'
    <2>1. /\ lists' = Drain(lists, "signals")
          /\ UNCHANGED <<sock, pc, cur, ran, fresh, rfds, wfds>>
      BY <1>5 DEF sloop_cancel_all_signals, control, selected, history
    <2> QED BY <1>2, <2>1
  <1>6. ASSUME NEW d \in Delay, sloop_register_timeout(d)  PROVE PassInv'
    <2>1. /\ \E m : lists' = Move(FreeOf("timeout"), 1, "timeout", m)
          /\ UNCHANGED <<sock, pc, cur, ran, fresh, rfds, wfds>>
      BY <1>6 DEF sloop_register_timeout, Take, control, selected, history
    <2> QED BY <1>2, <2>1
  <1>7. ASSUME NEW e \in Timeouts, sloop_cancel_timeout(e)  PROVE PassInv'
    <2>1. /\ \E k : lists' = Move("timeout", k, FreeOf("timeout"), 1)
          /\ UNCHANGED <<sock, pc, cur, ran, fresh, rfds, wfds>>
      BY <1>7 DEF sloop_cancel_timeout, Free, control, selected, tables, history
    <2> QED BY <1>2, <2>1
  <1>8. ASSUME sloop_cancel_all_timeouts  PROVE PassInv'
    <2>1. /\ lists' = Drain(lists, "timeout")
          /\ UNCHANGED <<sock, pc, cur, ran, fresh, rfds, wfds>>
      BY <1>8 DEF sloop_cancel_all_timeouts, control, selected, tables, history
    <2> QED BY <1>2, <2>1
  <1>9. ASSUME sloop_terminate  PROVE PassInv'
    <2>1. /\ lists' = lists
          /\ UNCHANGED <<sock, pc, cur, ran, fresh, rfds, wfds>>
      BY <1>9 DEF sloop_terminate, control, selected, tables, history
    <2> QED BY <1>2, <2>1
  <1> QED BY <1>1, <1>3, <1>4, <1>5, <1>6, <1>7, <1>8, <1>9,
             RegisterSocketPass, CancelSocketPass DEF Api, Passes

-----------------------------------------------------------------------------
\* A pass begins; the list L is what the step leaves behind.
LEMMA FirstReady ==
    ASSUME NEW L, Wf(L), NEW h \in Passes, NEW S, S = ReadyFrom(L, h, 1), S # {}
    PROVE  Pass(L[h], sock, L[h][First(S)], {L[h][First(S)]}, {}, Ready(h))
  <1>1. L[h] \in Seq(Entry) /\ Distinct(L[h])
    BY PassLists DEF Wf
  <1>2. DOMAIN L[h] = 1..Len(L[h]) /\ Len(L[h]) \in Nat
    BY <1>1, LenProperties
  <1>3. S \subseteq DOMAIN L[h] /\ S \subseteq Nat
    BY <1>2 DEF ReadyFrom
  <1>4. First(S) \in S /\ \A j \in S : First(S) <= j
    BY <1>3, FirstInSet
  <1>5. \A j \in DOMAIN L[h] : sock[L[h][j]] \in Ready(h) => First(S) <= j
    BY <1>2, <1>4 DEF ReadyFrom
  <1> QED BY <1>1, <1>3, <1>4, <1>5, PassBegins

\* The pass over the writers begins, or the iteration ends.
LEMMA ToWritersPass ==
    ASSUME NEW L, Wf(L), lists' = L, ToWriters(L), UNCHANGED <<sock, rfds, wfds>>
    PROVE  PassInv'
  <1> DEFINE S == ReadyFrom(L, "writers", 1)
  <1>1. CASE S = {}
    <2>1. pc' = "loop"
      BY <1>1 DEF ToWriters
    <2> QED BY <2>1 DEF PassInv, Passes
  <1>2. CASE S # {}
    <2>1. pc' = "writers" /\ cur' = L["writers"][First(S)] /\ ran' = {cur'} /\ fresh' = {}
      BY <1>2 DEF ToWriters
    <2>2. Pass(L["writers"], sock, cur', ran', fresh', Ready("writers"))
      BY <1>2, <2>1, FirstReady DEF Passes
    <2>3. Ready("writers")' = Ready("writers")
      BY DEF Ready
    <2> QED BY <2>1, <2>2, <2>3 DEF PassInv
  <1> QED BY <1>1, <1>2

\* The pass over the readers begins; without a ready one, that over the writers.
LEMMA ToReadersPass ==
    ASSUME NEW L, Wf(L), lists' = L, ToReaders(L), UNCHANGED <<sock, rfds, wfds>>
    PROVE  PassInv'
  <1> DEFINE S == ReadyFrom(L, "readers", 1)
  <1>1. CASE S = {}
    BY <1>1, ToWritersPass DEF ToReaders
  <1>2. CASE S # {}
    <2>1. pc' = "readers" /\ cur' = L["readers"][First(S)] /\ ran' = {cur'} /\ fresh' = {}
      BY <1>2 DEF ToReaders
    <2>2. Pass(L["readers"], sock, cur', ran', fresh', Ready("readers"))
      BY <1>2, <2>1, FirstReady DEF Passes
    <2>3. Ready("readers")' = Ready("readers")
      BY DEF Ready
    <2> QED BY <2>1, <2>2, <2>3 DEF PassInv
  <1> QED BY <1>1, <1>2

\* The return of a socket handler: the cursor moves on, and then its old entry
\* may be unlinked.
LEMMA SocketReturnPass ==
    ASSUME IInv, PassInv, IInv', NEW h \in Passes, SocketReturn(h)
    PROVE  PassInv'
  <1> DEFINE k == PosOf(h, cur)
             S == ReadyFrom(lists, h, k + 1)
             n == First(S)
  <1>1. /\ pc = h /\ UNCHANGED <<sock, rfds, wfds>>
        /\ lists' = lists \/ lists' = Free(h, k)
    BY DEF SocketReturn, unlisted, selected
  <1>2. k \in DOMAIN lists[h] /\ lists[h][k] = cur
    BY <1>1, PassLists, PosOfInList DEF IInv, CursorOK
  <1>3. lists[h] \in Seq(Entry) /\ Distinct(lists[h]) /\ DOMAIN lists[h] \subseteq Nat
    BY PassLists, ListFacts DEF IInv, Wf
  <1>4. CASE S # {}
    <2>1. /\ cur' = lists[h][n] /\ ran' = ran \cup {lists[h][n]} /\ fresh' = fresh /\ pc' = pc
      BY <1>4 DEF SocketReturn
    <2>2. S \subseteq DOMAIN lists[h] /\ S \subseteq Nat
      BY <1>3 DEF ReadyFrom
    <2>3. n \in S /\ \A j \in S : n <= j
      BY <1>4, <2>2, FirstInSet
    <2>4. n \in DOMAIN lists[h] /\ n > k
      BY <1>2, <1>3, <2>3 DEF ReadyFrom
    <2>5. \A j \in DOMAIN lists[h] : j > k /\ sock[lists[h][j]] \in Ready(h) => n <= j
      BY <1>2, <1>3, <2>3 DEF ReadyFrom
    <2>6. Pass(lists[h], sock, cur, ran, fresh, Ready(h))
      BY <1>1 DEF PassInv
    <2> HIDE DEF k, S, n
    <2>7. Pass(lists[h], sock, cur', ran', fresh', Ready(h))
      BY <1>2, <1>3, <2>1, <2>4, <2>5, <2>6, PassAdvances
    <2>8. Pass(lists'[h], sock, cur', ran', fresh', Ready(h))
      <3>1. CASE lists' = lists
        BY <2>7, <3>1
      <3>2. CASE lists' = Free(h, k)
        <4>1. lists'[h] = RemoveAt(lists[h], k)
          BY <3>2, MoveLists, PassLists DEF IInv, Free
        <4>2. lists[h][k] # cur'
          BY <1>2, <1>3, <2>1, <2>4 DEF Distinct
        <4>3. k \in 1..Len(lists[h])
          BY <1>2, <1>3
        <4> QED BY <1>3, <2>7, <4>1, <4>2, <4>3, PassRemove
      <3> QED BY <1>1, <3>1, <3>2
    <2>9. Ready(pc)' = Ready(h)
      BY <1>1, <2>1 DEF Ready
    <2> QED BY <1>1, <2>1, <2>8, <2>9 DEF PassInv
  <1>5. CASE S = {} /\ h = "readers"
    <2>1. ToWriters(lists')
      BY <1>5 DEF SocketReturn
    <2> QED BY <1>1, <2>1, ToWritersPass DEF IInv
  <1>6. CASE S = {} /\ h = "writers"
    <2>1. pc' = "loop"
      BY <1>6 DEF SocketReturn
    <2> QED BY <2>1 DEF PassInv, Passes
  <1> QED BY <1>4, <1>5, <1>6 DEF Passes

\* The steps of sloop_run.
LEMMA RunPass ==
    ASSUME IInv, PassInv, IInv', Run
    PROVE  PassInv'
  <1>1. ASSUME pc' \notin Passes  PROVE PassInv'
    BY <1>1 DEF PassInv
  <1>2. CASE Start \/ Leave \/ Setup \/ SelectError \/ Break \/ SelectTimeout
             \/ ReadSignal \/ SignalReturn \/ FireTimer
    <2>1. pc' \in {"loop", "done", "select", "timer", "terminated", "signal_cb", "timer_cb"}
      BY <1>2 DEF Start, Leave, Setup, SelectError, Break, SelectTimeout, ReadSignal,
                  SignalReturn, FireTimer, Exit
    <2> QED BY <1>1, <2>1 DEF Passes
  <1>3. CASE \E R \in SUBSET FdsOf("readers"), W \in SUBSET FdsOf("writers") : SelectReady(R, W)
    <2>1. pc' \in {"signal", "timer"}
      BY <1>3 DEF SelectReady
    <2> QED BY <1>1, <2>1 DEF Passes
  <1>4. CASE SkipTimer \/ TimerReturn
    <2>1. AfterTimer(lists') /\ UNCHANGED <<sock, rfds, wfds>>
      BY <1>4 DEF SkipTimer, TimerReturn, unlisted, selected
    <2>2. CASE res = 0
      BY <1>1, <2>1, <2>2 DEF AfterTimer, Passes
    <2>3. CASE res # 0
      <3>1. ToReaders(lists')
        BY <2>1, <2>3 DEF AfterTimer
      <3> QED BY <2>1, <3>1, ToReadersPass DEF IInv
    <2> QED BY <2>2, <2>3
  <1> QED BY <1>2, <1>3, <1>4, SocketReturnPass DEF Run, Passes

\* The inductive invariant says what the two properties say.
LEMMA PassMeans == IInv /\ PassInv => OncePerPass /\ NoneSkipped
  <1> SUFFICES ASSUME IInv, PassInv, pc \in Passes
               PROVE  OncePerPass /\ NoneSkipped
    BY DEF OncePerPass, NoneSkipped, Passes
  <1>1. PosOf(pc, cur) \in DOMAIN lists[pc] /\ lists[pc][PosOf(pc, cur)] = cur
    BY PassLists, PosOfInList DEF IInv, CursorOK
  <1>2. Pass(lists[pc], sock, cur, ran, fresh, Ready(pc))
    BY DEF PassInv
  <1> QED BY <1>1, <1>2 DEF Pass, OncePerPass, NoneSkipped

\* For pools of any size and whatever the handlers register and cancel, a pass
\* over the readers or the writers calls no handler twice and none that was
\* registered during the pass, and it skips no ready registration that was
\* there when it began and is still there.
THEOREM SloopPasses == Spec => [](OncePerPass /\ NoneSkipped)
  <1>1. Init => IInv /\ PassInv
    BY InitIInv DEF Init, PassInv, Passes
  <1>2. IInv /\ [Next]_vars => IInv'
    BY ApiStep, RunStep, RaiseStep, TickStep, StutterStep DEF Next
  <1>3. IInv /\ PassInv /\ IInv' /\ [Next]_vars => PassInv'
    <2> SUFFICES ASSUME IInv, PassInv, IInv', [Next]_vars PROVE PassInv'
      OBVIOUS
    <2>1. CASE \/ \E m \in SigNo : sloop_signals_handler(m)
               \/ Tick \/ UNCHANGED vars
      <3>1. /\ UNCHANGED <<lists, sock, cur, ran, fresh, rfds, wfds>>
            /\ pc' = pc \/ pc' \notin Passes
        BY <2>1 DEF sloop_signals_handler, Tick, vars, tables, selected, history, unlisted, Passes
      <3> QED BY <3>1, PassUnchanged
    <2> QED BY <2>1, ApiPass, RunPass DEF Next
  <1> QED BY <1>1, <1>2, <1>3, PassMeans, PTL DEF Spec

\* One pass calls no handler twice.
THEOREM SloopOncePerPass == Spec => []OncePerPass
  BY SloopPasses, PTL

\* One pass skips no ready registration that was there when it began and is
\* still there, whatever the handlers before it cancelled or registered.
THEOREM SloopNoneSkipped == Spec => []NoneSkipped
  BY SloopPasses, PTL

-----------------------------------------------------------------------------
(* The registrations.  That a number is registered once is what makes the  *)
(* first conjunct inductive: a cancellation puts SIG_DFL back for its      *)
(* number, and no other registration depended on it.                       *)

SigList == lists["signals"]
RegInv ==
    /\ \A e : Member(SigList, e) => sig[e] \in caught
    /\ \A e, f : Member(SigList, e) /\ Member(SigList, f) /\ sig[e] = sig[f] => e = f
    /\ pc = "done" => \A h \in Active : lists[h] = <<>>

\* A step that registers no signal, and keeps those that stay registered caught.
LEMMA RegShrinks ==
    ASSUME RegInv, sig' = sig,
           \A e : Member(SigList', e) => Member(SigList, e) /\ sig[e] \in caught',
           pc' = "done" => \A h \in Active : lists'[h] = <<>>
    PROVE  RegInv'
  BY Zenon DEF RegInv

\* A step that has nothing to do with signals.
LEMMA RegKept ==
    ASSUME RegInv, SigList' = SigList, UNCHANGED <<sig, caught>>,
           pc' = "done" => UNCHANGED <<pc, lists>>
    PROVE  RegInv'
  <1>1. \A e : Member(SigList', e) => Member(SigList, e) /\ sig[e] \in caught'
    BY Zenon DEF RegInv
  <1>2. pc' = "done" => \A h \in Active : lists'[h] = <<>>
    BY Zenon DEF RegInv
  <1> QED BY <1>1, <1>2, RegShrinks

\* The heads of the signal lists.
LEMMA SignalLists ==
    /\ "signals" \in Heads /\ "free_signals" \in Heads /\ "signals" # "free_signals"
    /\ "signals" \in Active /\ FreeOf("signals") = "free_signals"
    /\ Pool("signals") = Signals /\ Pool("free_signals") = Signals
    /\ \A h \in {"readers", "writers", "timeout"} :
         /\ h \in Active /\ h \in Heads /\ FreeOf(h) \in Heads /\ h # FreeOf(h)
         /\ "signals" # h /\ "signals" # FreeOf(h)
  BY HeadsFacts DEF Heads, SocketHeads, TimeoutHeads, SignalHeads

\* Moving or freeing structs of the other pools leaves the signals alone.
LEMMA SignalsUntouched ==
    ASSUME Wf(lists), NEW h \in {"readers", "writers", "timeout"}
    PROVE  /\ \A k : Free(h, k)["signals"] = SigList
           /\ \A m : Take(h, m)["signals"] = SigList
           /\ Drain(lists, h)["signals"] = SigList
  <1>1. \A k : Free(h, k)["signals"] = SigList
    BY SignalLists, MoveOther DEF Free, SigList
  <1>2. \A m : Take(h, m)["signals"] = SigList
    BY SignalLists, MoveOther DEF Take, SigList
  <1>3. Drain(lists, h)["signals"] = SigList
    BY SignalLists, DrainKeepsWf DEF SigList
  <1> QED BY <1>1, <1>2, <1>3

\* Freeing the k-th signal takes it, and nothing else, from the list.
LEMMA FreeSignal ==
    ASSUME Wf(lists), NEW k \in DOMAIN SigList
    PROVE  \A e : Member(Free("signals", k)["signals"], e) <=>
                    Member(SigList, e) /\ e # SigList[k]
  <1>1. 1 \in 1..(Len(lists["free_signals"]) + 1)
    BY SignalLists, ListFacts
  <1>2. Moved(lists, Move("signals", k, "free_signals", 1), SigList[k], "signals", "free_signals")
    BY <1>1, SignalLists, MoveKeepsWf DEF SigList
  <1> QED BY <1>2, SignalLists, Zenon DEF Moved, Free, SigList

\* sloop_register_signal: the new number is caught, and it is new.
LEMMA RegisterSignalReg ==
    ASSUME IInv, RegInv, NEW n \in SigNo, sloop_register_signal(n)
    PROVE  RegInv'
  <1> DEFINE x == lists["free_signals"][1]
  <1>1. /\ 1 \in DOMAIN lists["free_signals"] /\ x \in Signals
        /\ 1 \in 1..(Len(SigList) + 1) /\ sig \in [Signals -> SigNo \cup {0}]
    BY SignalLists, ListFacts DEF IInv, VarTypes, sloop_register_signal, Empty, SigList
  <1>2. Moved(lists, Move("free_signals", 1, "signals", 1), x, "free_signals", "signals")
    BY <1>1, SignalLists, MoveKeepsWf DEF IInv, SigList
  <1>3. lists' = Move("free_signals", 1, "signals", 1)
    BY SignalLists DEF sloop_register_signal, Take
  <1>4. \A e : Member(SigList', e) <=> Member(SigList, e) \/ e = x
    BY <1>2, <1>3, SignalLists, Zenon DEF Moved, SigList
  <1>5. ~Member(SigList, x) /\ \A e : Member(SigList, e) => e \in Signals
    <2>1. Member(lists["free_signals"], x)
      BY <1>1, Zenon DEF Member
    <2>2. ~Member(SigList, x)
      BY <2>1, SignalLists DEF IInv, Wf, SigList
    <2>3. \A e : Member(SigList, e) => e \in Signals
      BY SignalLists DEF IInv, Wf, SigList
    <2> QED BY <2>2, <2>3
  <1>6. \A e : Member(SigList, e) => sig[e] # n
    BY Zenon DEF sloop_register_signal, Member, SigList
  <1>7. sig' = [sig EXCEPT ![x] = n] /\ caught' = caught \cup {n} /\ pc' = pc /\ pc # "done"
    BY DEF sloop_register_signal, control, Calling, Callback
  <1> HIDE DEF x
  <1>8. sig'[x] = n /\ \A e : Member(SigList, e) => sig'[e] = sig[e]
    BY <1>1, <1>5, <1>7
  <1>9. \A e : Member(SigList', e) => sig'[e] \in caught'
    BY <1>4, <1>7, <1>8 DEF RegInv
  <1>10. \A e, f : Member(SigList', e) /\ Member(SigList', f) /\ sig'[e] = sig'[f] => e = f
    BY <1>4, <1>6, <1>8, Zenon DEF RegInv
  <1> QED BY <1>7, <1>9, <1>10 DEF RegInv

\* sloop_cancel_signal(handle): SIG_DFL for the one number.
LEMMA CancelSignalReg ==
    ASSUME IInv, RegInv, NEW x \in Signals, sloop_cancel_signal(x)
    PROVE  RegInv'
  <1>1. PICK k \in DOMAIN SigList : SigList[k] = x /\ lists' = Free("signals", k)
    BY DEF sloop_cancel_signal, SigList
  <1>2. /\ sig' = sig /\ caught' = caught \ {sig[x]} /\ pc' = pc /\ pc # "done"
    BY DEF sloop_cancel_signal, control, Calling, Callback
  <1>3. \A e : Member(SigList', e) => Member(SigList, e) /\ e # x
    BY <1>1, FreeSignal, Zenon DEF IInv, SigList
  <1>4. Member(SigList, x)
    BY <1>1, Zenon DEF Member
  <1>5. \A e : Member(SigList', e) => sig[e] \in caught /\ sig[e] # sig[x]
    BY <1>3, <1>4, Zenon DEF RegInv
  <1>6. \A e : Member(SigList', e) => Member(SigList, e) /\ sig[e] \in caught'
    BY <1>2, <1>3, <1>5
  <1> QED BY <1>2, <1>6, RegShrinks

\* No signal is left in an empty list.
LEMMA NoSignals ==
    ASSUME RegInv, SigList' = <<>>, sig' = sig,
           pc' = "done" => \A h \in Active : lists'[h] = <<>>
    PROVE  RegInv'
  <1>1. \A e : ~Member(SigList', e)
    BY DEF Member
  <1> QED BY <1>1, RegShrinks, Zenon

\* The calls of the application and of its handlers.
LEMMA ApiReg ==
    ASSUME IInv, RegInv, Api
    PROVE  RegInv'
  <1>1. pc' = pc /\ pc # "done" /\ pc' # "done" /\ Wf(lists)
    <2>1. Calling /\ pc' = pc
      BY DEF Api, register_socket, cancel_socket, cancel_all_sockets, sloop_register_signal,
             sloop_cancel_signal, sloop_cancel_all_signals, sloop_register_timeout,
             sloop_cancel_timeout, sloop_cancel_all_timeouts, sloop_terminate, control
    <2> QED BY <2>1 DEF Calling, Callback, IInv
  <1>2. ASSUME NEW h \in {"readers", "writers"}, NEW fd \in Fd, register_socket(h, fd)
        PROVE  RegInv'
    <2>1. lists' = Take(h, 1) /\ UNCHANGED <<sig, caught>>
      BY <1>2 DEF register_socket
    <2>2. SigList' = SigList
      BY <1>1, <2>1, SignalsUntouched DEF SigList
    <2> QED BY <1>1, <2>1, <2>2, RegKept
  <1>3. ASSUME NEW h \in {"readers", "writers"}, NEW x \in Sockets, cancel_socket(h, x)
        PROVE  RegInv'
    <2>1. PICK k : lists' = Free(h, k) /\ UNCHANGED <<sig, caught>>
      BY <1>3 DEF cancel_socket, tables
    <2>2. SigList' = SigList
      BY <1>1, <2>1, SignalsUntouched DEF SigList
    <2> QED BY <1>1, <2>1, <2>2, RegKept
  <1>4. ASSUME NEW h \in {"readers", "writers"}, cancel_all_sockets(h)  PROVE RegInv'
    <2>1. lists' = Drain(lists, h) /\ UNCHANGED <<sig, caught>>
      BY <1>4 DEF cancel_all_sockets, tables
    <2>2. SigList' = SigList
      BY <1>1, <2>1, SignalsUntouched DEF SigList
    <2> QED BY <1>1, <2>1, <2>2, RegKept
  <1>5. ASSUME sloop_cancel_all_signals  PROVE RegInv'
    <2>1. lists' = Drain(lists, "signals") /\ sig' = sig
      BY <1>5 DEF sloop_cancel_all_signals
    <2>2. SigList' = <<>>
      BY <1>1, <2>1, SignalLists, DrainKeepsWf DEF SigList
    <2> QED BY <1>1, <2>1, <2>2, NoSignals
  <1>6. ASSUME NEW d \in Delay, sloop_register_timeout(d)  PROVE RegInv'
    <2>1. PICK m : lists' = Take("timeout", m) /\ UNCHANGED <<sig, caught>>
      BY <1>6 DEF sloop_register_timeout
    <2>2. SigList' = SigList
      BY <1>1, <2>1, SignalsUntouched DEF SigList
    <2> QED BY <1>1, <2>1, <2>2, RegKept
  <1>7. ASSUME NEW x \in Timeouts, sloop_cancel_timeout(x)  PROVE RegInv'
    <2>1. PICK k : lists' = Free("timeout", k) /\ UNCHANGED <<sig, caught>>
      BY <1>7 DEF sloop_cancel_timeout, tables
    <2>2. SigList' = SigList
      BY <1>1, <2>1, SignalsUntouched DEF SigList
    <2> QED BY <1>1, <2>1, <2>2, RegKept
  <1>8. ASSUME sloop_cancel_all_timeouts  PROVE RegInv'
    <2>1. lists' = Drain(lists, "timeout") /\ UNCHANGED <<sig, caught>>
      BY <1>8 DEF sloop_cancel_all_timeouts, tables
    <2>2. SigList' = SigList
      BY <1>1, <2>1, SignalsUntouched DEF SigList
    <2> QED BY <1>1, <2>1, <2>2, RegKept
  <1>9. ASSUME sloop_terminate  PROVE RegInv'
    <2>1. SigList' = SigList /\ UNCHANGED <<sig, caught>>
      BY <1>9 DEF sloop_terminate, tables, SigList
    <2> QED BY <1>1, <2>1, RegKept
  <1> QED BY <1>2, <1>3, <1>4, <1>5, <1>6, <1>7, <1>8, <1>9,
             RegisterSignalReg, CancelSignalReg DEF Api

\* The loop is left: all four lists are emptied, one after the other.
LEMMA ExitReg ==
    ASSUME Wf(lists), RegInv, Exit, sig' = sig
    PROVE  RegInv'
  <1> DEFINE L1 == Drain(lists, "signals")
             L2 == Drain(L1, "timeout")
             L3 == Drain(L2, "readers")
             L4 == Drain(L3, "writers")
  <1>1. lists' = L4
    BY DEF Exit
  <1> HIDE DEF L1, L2, L3, L4
  <1>2. /\ "signals" \in Heads \ {"timeout", FreeOf("timeout")}
        /\ {"signals", "timeout"} \subseteq Heads \ {"readers", FreeOf("readers")}
        /\ {"signals", "timeout", "readers"} \subseteq Heads \ {"writers", FreeOf("writers")}
    BY HeadsFacts DEF Active
  <1>3. Wf(L1) /\ L1["signals"] = <<>>
    BY DrainKeepsWf, HeadsFacts DEF L1
  <1>4. Wf(L2) /\ L2["timeout"] = <<>> /\ L2["signals"] = <<>>
    BY <1>2, <1>3, DrainKeepsWf, HeadsFacts DEF L2
  <1>5. Wf(L3) /\ L3["readers"] = <<>> /\ L3["timeout"] = <<>> /\ L3["signals"] = <<>>
    BY <1>2, <1>4, DrainKeepsWf, HeadsFacts DEF L3
  <1>6. /\ L4["writers"] = <<>> /\ L4["readers"] = <<>>
        /\ L4["timeout"] = <<>> /\ L4["signals"] = <<>>
    BY <1>2, <1>5, DrainKeepsWf, HeadsFacts DEF L4
  <1>7. \A h \in Active : lists'[h] = <<>>
    BY <1>1, <1>6 DEF Active
  <1> QED BY <1>7, HeadsFacts, NoSignals DEF SigList

\* The steps of sloop_run.
LEMMA RunReg ==
    ASSUME IInv, RegInv, Run
    PROVE  RegInv'
  <1>1. Wf(lists)
    BY DEF IInv
  <1>2. CASE Start \/ Setup \/ SelectTimeout \/ ReadSignal \/ FireTimer
             \/ \E R \in SUBSET FdsOf("readers"), W \in SUBSET FdsOf("writers") : SelectReady(R, W)
    <2>1. UNCHANGED <<lists, sig, caught>> /\ pc' # "done"
      BY <1>2 DEF Start, Setup, SelectTimeout, ReadSignal, FireTimer, SelectReady, unlisted
    <2> QED BY <2>1, RegKept DEF SigList
  <1>3. CASE Leave \/ SelectError \/ Break
    <2>1. Exit /\ sig' = sig
      BY <1>3 DEF Leave, SelectError, Break, unlisted
    <2> QED BY <1>1, <2>1, ExitReg
  <1>4. CASE SignalReturn
    <2>1. /\ UNCHANGED <<sig, caught>> /\ pc' # "done" /\ pc = "signal_cb"
          /\ lists' = lists \/ lists' = Free("signals", PosOf("signals", cur))
      BY <1>4 DEF SignalReturn, unlisted
    <2>2. PosOf("signals", cur) \in DOMAIN SigList
      BY <2>1, PosOfInList, SignalLists DEF IInv, CursorOK, HeadOf, Callback, SigList
    <2>3. \A e : Member(SigList', e) => Member(SigList, e)
      BY <1>1, <2>1, <2>2, FreeSignal, Zenon DEF SigList
    <2>4. \A e : Member(SigList', e) => sig[e] \in caught'
      BY <2>1, <2>3 DEF RegInv
    <2> QED BY <2>1, <2>3, <2>4, RegShrinks
  <1>5. ASSUME NEW L, ToWriters(L)  PROVE pc' # "done"
    BY <1>5 DEF ToWriters
  <1>6. ASSUME NEW L, ToReaders(L)  PROVE pc' # "done"
    BY <1>5, <1>6 DEF ToReaders
  <1>7. CASE SkipTimer \/ TimerReturn
    <2>1. /\ UNCHANGED <<sig, caught>> /\ AfterTimer(lists')
          /\ lists' = lists \/ lists' = Free("timeout", PosOf("timeout", cur))
      BY <1>7 DEF SkipTimer, TimerReturn, unlisted
    <2>2. pc' # "done"
      BY <2>1, <1>6 DEF AfterTimer
    <2>3. SigList' = SigList
      BY <1>1, <2>1, SignalsUntouched DEF SigList
    <2> QED BY <2>1, <2>2, <2>3, RegKept
  <1>8. ASSUME NEW h \in {"readers", "writers"}, SocketReturn(h)  PROVE RegInv'
    <2>1. /\ UNCHANGED <<sig, caught>>
          /\ lists' = lists \/ lists' = Free(h, PosOf(h, cur))
      BY <1>8 DEF SocketReturn, unlisted
    <2>2. pc' # "done"
      BY <1>5, <1>8 DEF SocketReturn
    <2>3. SigList' = SigList
      BY <1>1, <2>1, SignalsUntouched DEF SigList
    <2> QED BY <2>1, <2>2, <2>3, RegKept
  <1> QED BY <1>2, <1>3, <1>4, <1>7, <1>8 DEF Run

\* For pools of any size, a registered signal is caught as long as its
\* registration lasts, and sloop_run returns with nothing registered, over its
\* error path (a failing select) as over the two regular ones.
THEOREM SloopRegistrations == Spec => []Registrations
  <1>1. Init => IInv /\ RegInv
    <2>1. Init => lists["signals"] = <<>> /\ pc = "app"
      BY DEF Init, Heads, SocketHeads, TimeoutHeads, SignalHeads
    <2>2. \A e : ~Member(<<>>, e)
      BY DEF Member
    <2>3. Init => RegInv
      BY <2>1, <2>2 DEF RegInv, SigList
    <2> QED BY <2>3, InitIInv
  <1>2. IInv /\ [Next]_vars => IInv'
    BY ApiStep, RunStep, RaiseStep, TickStep, StutterStep DEF Next
  <1>3. IInv /\ RegInv /\ [Next]_vars => RegInv'
    <2> SUFFICES ASSUME IInv, RegInv, [Next]_vars  PROVE RegInv'
      OBVIOUS
    <2>1. CASE \/ \E m \in SigNo : sloop_signals_handler(m)
               \/ Tick \/ UNCHANGED vars
      <3>1. UNCHANGED <<lists, sig, caught>> /\ (pc' = "done" => pc' = pc)
        BY <2>1 DEF sloop_signals_handler, Tick, vars, tables, unlisted
      <3> QED BY <3>1, RegKept DEF SigList
    <2> QED BY <2>1, ApiReg, RunReg DEF Next
  <1>4. RegInv => Registrations
    BY Zenon DEF RegInv, Registrations, SigList, Member
  <1> QED BY <1>1, <1>2, <1>3, <1>4, PTL DEF Spec

=============================================================================
