# VGP-WAR100 firmware: TLA+ models of the event loop, DHCP and configuration changes

The repository is the GPL release of a small router's firmware. Most of it is
vendored (a Linux kernel, busybox, dnsmasq, iptables, pppd, host tools) or
binary (`progs.priv`, `prebuild`). The program's own logic in source form is
the C library `comlib` and the vendor's heavily changed copy of udhcp in
`progs.gpl/udhcpcd`. This project models the parts that carry state, ordering
and failure: the `select` loop on which the daemons are built, the DHCP server
with its lease table and lease file, the DHCP client, the two of them over a
network, and the way in which programs change the configuration (`postman.c`).

## Inventory

| Part | State | Operations | What is hard | What makes it correct |
|---|---|---|---|---|
| `comlib/sloop.c` event loop | three static pools of structs in seven linked lists; the signal pipe; the terminate flag; the timer remembered across `select` | register and cancel of sockets, timers, signals; `sloop_run`; the POSIX signal handler | handlers change the lists under the loop's cursor; signals interrupt any step; timers in whole seconds against `select`'s microseconds; starvation | no struct lost or linked twice; cursor valid; each ready registration served once; timers in order and in time; signals, timers and termination not starved; a registered signal stays caught; every exit of the loop gives all registrations back |
| `udhcpcd/leases.c` table | array of entries: client, address, expiry, ACKed | `add_lease`, `clear_lease`, `oldest_expired_lease`, the searches, `find_address` | reuse of expired slots, full table, 32-bit time | one entry per client and per address; unexpired entries of others untouched |
| `udhcpcd/dhcpd.c`, `serverpacket.c` | the table, flags of static leases, time of the next automatic write | DISCOVER, REQUEST (three states), DECLINE, RELEASE, INFORM, SIGUSR1, SIGTERM, timeout | any client at any time, lost, late and repeated packets, static against dynamic clients | replies agree with the table; a reservation lasts as long as it says |
| `udhcpcd/files.c` lease file | one record per granted lease | `write_leases`, `read_leases` | restart and reboot (the uptime restarts), remaining against absolute time | every granted lease in the file, read back, none prolonged |
| `udhcpcd/dhcpc.c`, `clientpacket.c` client | protocol state, T1, T2 and the start of the lease, number of the request, socket and its mode, the signal pipe; the address on the interface | timeouts of five states, OFFER, ACK, NAK, SIGUSR1, SIGUSR2, SIGTERM, start, exit | late answers with the current xid, signals in any state, timers in unsigned arithmetic, kills and restarts, starvation of the pipe | no address outlives its lease; the client listens when it waits; renewals end, requests go on, SIGTERM ends it unless packets come for ever |
| client and server together | the above and the messages under way | - | the two count a lease from different moments; lost renewals, lost answers; the server forgets expired leases | what the client holds is reserved; no message takes the address away early |
| `comlib/postman.c` and the scripts it runs | a temporary file and its lock, the session in the database, the configuration, the list of dirty services, restart scripts | `postman`, `GetCfg`, `SetValue`, `PassValue` | several processes, a lock on a file that is removed, equal session numbers, a kill between two commands | only checked values stored; changed services restarted; calls return; one instance at a time |
| `libxmldbc.c`, `unixsock.c`, `susock.c` | one connection at a time | request, reply | partial reads | the commands' effects, as postman uses them; otherwise not modelled |
| `mem_helper.c`, `strobj.c`, `xstream.c`, encodings, digests, `getifaddrs.c`, `sendtrap.c` | buffers | byte operations | sizes | not modelled: sequential byte code |
| templates, private programs, third-party programs, kernel, tools | - | - | - | not modelled: generated, binary or vendored |

The parts interact by calls only: a daemon registers handlers with sloop and is
called back on the same thread; `dhcpd.c` has a `select` loop of its own, calls
the reply functions, and they call the table and `write_leases`; the file is
the only state that outlives the server process. The client has a `select` loop
of its own too, which is also entered by signals through a pipe; it talks to the
server by packets and to the system by its script. Callers of `postman.c` are
processes of their own that share a temporary file and the database.

## Modules

* **Sloop** - `comlib/sloop.c`. `lists` holds the seven list heads; a struct is
  a number of its pool. An API call is an action that the application may take
  before `sloop_run` or inside a handler. `sloop_run` is cut where other code
  can run or where the environment decides: loop condition (`Leave`, `Setup`),
  `select` (`SelectReady`, `SelectTimeout`, `SelectError`), the pipe
  (`ReadSignal`), and the return of each handler (`SignalReturn`,
  `TimerReturn`, `SocketReturn`), which includes what the loop does next up to
  the next handler. `sloop_signals_handler` may happen at any moment and stands
  for the EINTR path too. `ran` and `fresh` are history variables of the
  properties.
* **MCSloop** - the instance for TLC.
* **Timers** - the abstract specification of timers: a function from timers to
  times, the timer whose handler runs and the time. Sloop implements it
  (`Promise`, `KeepsPromise`): a timer is armed if its struct is in the timeout
  list, and it fires while the loop is in its handler.
* **ListLemmas**, **SloopProofs**, **SloopTimerProofs** - facts about inserting,
  removing and reversing in sequences, and the theorems about Sloop.
* **Leases** - `leases.c` as operators on a table. A C search that returns a
  pointer or NULL returns the set of the slot found.
* **Dhcpd** - `dhcpd.c`, `serverpacket.c` and `files.c`. One action per message
  (`Discover`, `Select`, `InitReboot`, `Renew`, `Decline`, `Release`,
  `Inform`), per signal (`Usr1`; SIGTERM is `Restart`), for the timeout
  (`AutoWrite`) and for each record that `read_leases` reads at start. `in` and
  `out` are the last packet and the reply to it. The file is a function from
  slots to records; reading it follows the byte offsets of the code (92 bytes
  written, 96 read).
* **MCDhcpd** - two dynamic clients and one static client.
* **DhcpdProofs**, **DhcpdLeaseProofs** - the theorems about Dhcpd: the table and
  the reservations; then the replies, the lease file and how long leases last.
* **Dhcpc** - `dhcpc.c` and the messages of `clientpacket.c`. One action per
  timeout of a state (`DiscoverTimeout`, `RequestTimeout`, `BoundTimeout`,
  `RenewingTimeout`, `RebindingTimeout`), per packet (`TakeOffer`, `AckConflict`,
  `TakeAck`, `TakeNak`, `Ignore`), per signal (`PerformRenew`, `PerformRelease`,
  `Terminate`), and for the loop (`OpenSocket`, `Tick`). `timeout` and `start`
  are only used in differences with the uptime; the model keeps the differences
  (`due`, `age`), so time has no bound. `held` is the address that the script
  has put on the interface; `left` tells who has left it there without a lease.
* **MCDhcpc**, **DhcpcProofs** - the instance and the theorems.
* **DhcpNet** - extends Dhcpd and instantiates Dhcpc for one of the server's
  clients; the server also starts and writes its file by itself
  (`ServerAlone`). Two links carry the messages; a message that is under way when the
  client chooses a new xid is outdated and arrives as one that it ignores.
* **MCDhcpNet**, **DhcpNetProofs** - the client and a competitor, with one
  address; and the theorems.
* **Postman** - `postman.c` with the effects of `getcfg.php`, `fatlady.php` and
  `wand.php`. The steps of a call are the values of `pc`, one for each system
  call or database command. The API used as GetCfg, SetValue, PassValue and the
  function `postman` share the steps; `req.api` tells them apart where they
  differ. Files are inodes: `dir` is the one that has the name, `fh` and
  `redirect` are what a process and its shell have open, and a lock belongs to
  an inode. `stale`, `lost`, `shared`, `blank` are history variables.
* **MCPostman**, **PostmanProofs** - the instance and the theorems.

### Assumptions and abstractions

Sloop. A handler does not cancel the registration it is running for (it returns
a negative number, or, for a timer, the registration ends by itself), nor does
it drain the list it runs from; a signal number is registered once; signal
numbers and descriptors are not 0. The code relies on this and does not check it,
and the tree holds no caller of sloop in source form to check it against (see the
hazards in `PROJECT.json`). With an empty pool a registration returns
NULL and changes nothing, so it is not an action. `select` fails with EINTR
only if it sleeps; it fails otherwise only when some descriptor is registered.
The model ends when `sloop_run` returns. `Gran` ticks are one second of
`get_uptime`. The dump and trace functions print only.

Dhcpd. The server has one thread, so a handler is one step; the uptime does not
advance inside it (the two seconds an ARP probe may wait are left out), and the
answers of the probe are the set `busy`. Packets arrive in any order and number,
which covers loss, delay and repetition. Hardware addresses are not zero. Host
and network order agree, as on the big-endian target. A `fread` that begins in
the middle of a record finds a time, a flag or text where it expects the address;
the range check rejects it. Host names, options, logging and the scripts run
after a write are left out. The configuration is the board's: no multi-instance,
no LAN address to hold back. `write_leases` is one step, so a crash inside it is
not modelled. `Word` (64 in the runs) stands for 2^32. `Remaining` is the option
of that name, `FileKept` whether the file survives a reboot; the router's own
setting is `remaining no` (`templates/aries/sony/services/DHCPS/dhcpserver.php:68`,
brand `sony` in `configs/default.config:165`) with the file under `/var/servd`
(`dhcpserver.php:14`), and `/var` is in memory
(`templates/aries/sony/events/FWUPDATER.sh:3`). The default of the server
(`files.c:428`), which the template of the other brands leaves alone, is
`remaining yes`.

Dhcpc. Any packet may arrive at any moment while the socket is open. Leases are
shorter than 2^32 / 7 seconds (`LeasesFit`): above that, `lease * 7` overflows
(`dhcpc.c:1017`) and T2 has no relation to the lease. A handler takes no time
except the ARP probe (`ArpWait`), which the code counts wrongly because `now` is
read before it; the `sleep(3)` after a NAK or a conflict, in which the client
has no lease, is left out. The options are the three that change control
(`-n`, `-q`, `-S 0`) and `--queryserver`; `background()` only detaches the
process. The script does what it is called for.

DhcpNet. A message is under way for at most `MaxDelay`, in order. The other
clients follow the protocol: they renew only addresses that the server has
recorded for them (`dhcpd_reserved` shows what happens otherwise), and the server
is not restarted (`dhcpd_restart`). The server probes an address by ARP before it
offers it and may or may not see the client's answer.

Postman. The database daemon handles one command after the other. A value is
accepted or rejected by the service's check, which is all that `fatlady.php` tells
the caller. A redirection that the shell opens a second time writes into the
same file if it still has the name; two writers may leave a document that cannot
be parsed, or the last one. `/etc/scripts/phpcontrol/getcfg.php`, which
`postman` names (`postman.c:80`), is not in the tree, so its output is empty.
The restart script runs to its end once started.

## Runs

| Run | Bounds | Shows |
|---|---|---|
| `sloop_dispatch` | 3 sockets, 2 descriptors, 1 signal, no timers | `PoolIntegrity`, `CursorInList`, `OncePerPass`, `NoneSkipped`, `Registrations`: handlers may register, cancel and return -1 in any order during a pass, and `select` may fail |
| `sloop_timers` | 2 timers, 1 socket, 1 signal, 2 ticks per second, 3 ticks, delays 0 and 3 | `TypeOK`, `TimersSorted`, `KeepsPromise`: the loop implements Timers; the remembered timer is never fired stale, early or out of order |
| `sloop_live` | 2 timers, 1 socket, 1 signal, 1 tick | `SignalServed`, `TimersFire`, `TerminateStops` under fairness |
| `dhcpd_table` | 3 clients, 2 slots, addresses 1..3, one static address in the range, 2 ticks | `TypeOK`, `TableConsistent`, `ReplyBacked`, `ReservedUnlessClaimed` |
| `dhcpd_file` | the same with the lease file and automatic writes; leases of 3 and 2, 3 ticks; clients ask for address 3 | `FileCovers`, `LeaseHorizon` |
| `dhcpc` | 2 servers, 2 addresses, leases of 9 and (without the option) 1, 3 requests in a series, waits 1 and 2, 3 option sets, one packet and one signal waiting | `TypeOK`, `LeaseRespected`, `Listening`, and under fairness `RenewalEnds`, `KeepsAsking`, and `TermExits`: SIGTERM ends the client unless packets come for ever |
| `dhcpnet` | 2 clients, 1 address (one that `valid_ip` refuses), 1 slot, lease 5, delay 2, one message each way, automatic writes, 6 ticks | `HeldIsReserved`, `AddressKept` |
| `postman` | 2 processes, 2 sessions, 2 services, 3 kinds of call, 3 calls | `TypeOK`, `CheckedOnly`, `RestartPending`, `CallsReturn` |
| `dhcpd_reserved`, `dhcpd_restart`, `dhcpc_release`, `postman_exclusive` | as above | four disagreements of the code with its documents, below |

Why the bounds are enough. Three sockets are one entry before the cursor, the
cursor and one after it, and two descriptors let two registrations share one.
Two timers give every order of equal, earlier and later; two ticks per second and
a delay of three ticks make the rounding of `get_uptime` visible. Two slots
against three clients and an address each make the table full and slots reused;
two ticks let an offer (1) and a lease (2) expire. With the file, a lease of three
seconds has more than `offer_time` to go for two of them, so `FileCovers` is about
restarts and writes some time after the grant too. The client's lease of nine
seconds passes through BOUND, several RENEWING and REBINDING requests and its
end; the lease of one second has T1 = T2 = 0, the boundary of the margins. Two
servers let a NAK of the wrong one arrive. In `dhcpnet` six ticks are a lease
with a renewal, its loss, and the expiry at the server while the competitor asks
for the only address. The address ends in 255 in a network where that is an
ordinary host: `find_address` hands it out (`leases.c:200`), and `valid_ip`
(`dhcpd.c:130`) refuses it to a client without a record. So, with a delay of two
seconds, a late renewal finds its record gone or taken over and is answered by a
NAK, which reaches the client while it still has a lease; `AddressKept` holds
because that is in the last two seconds of the lease.
Three calls are what `postman_exclusive` needs (one that
removes the file, one that waits, one that creates it again). Calls that delete
(`"del"`) are in the model and in the theorems, not in the run. The
theorems below carry the main invariants to all sizes.

`dhcpnet` identifies states that differ only in the last packet and reply
(`VIEW Memory`): `in`, `out` and `sent` are read by no action and by neither
property except primed, in the step that sets them.

Clients with the same role are symmetric in the DHCP runs: no operator compares
hardware addresses except for equality. The server never stops, so deadlock is
checked there, and in `dhcpc`, where a process that has exited is started again.
The Sloop runs end when `sloop_run` returns, `dhcpnet` with its clock and
`postman` with its number of calls, so it is not checked there.

Fairness (`FairSpec`). Sloop: weak fairness of the loop's own steps and of time.
The loop is one thread that the kernel schedules, handlers are assumed to
return, and a readable pipe makes `select` return. Nothing is assumed of
descriptors: they may be ready always or never, and the application may register
and cancel for ever. Dhcpc: weak fairness of
the loop (`Loop`: the process opens its socket, handles a timeout, reads a packet
or serves a signal whenever it can do one of them) and strong fairness of `Tick`:
time passes again and again, whatever happens in between. Nothing is assumed of the
network: it may answer always, never or wrongly, and it may keep the socket full
for ever. The pipe is only looked at when `select` finds nothing in the socket
(`dhcpc.c:811`), so under endless traffic SIGTERM may wait for ever; `TermExits`
says so: the client ends, or the socket is non-empty again and again for ever.
Postman: weak fairness of each process's steps; `lockf(F_LOCK)` waits in the
kernel, so a process is not required to get the lock in turn, and `CallsReturn`
holds because the calls of a run are finite. Calls and kills are not fair.

### Disagreements found

* `dhcpd_reserved`: a renewing client without a record gets any valid address,
  even one that is reserved (`dhcpd.c:526`); `samples/udhcpd.conf:48` says an
  offered address is reserved. `ReservedUnlessClaimed` is what does hold.
* `dhcpd_restart`: records are written with 92 bytes and read with 96
  (`files.c:559`, `files.c:623`), so a restart loses leases.
* `dhcpc_release`: in RENEW_REQUESTED, where a SIGUSR1 leads, SIGUSR2 neither
  sends a RELEASE nor clears the interface (`dhcpc.c:242`); `README.udhcpc:121`
  says that it releases the current lease and that signals need no pause.
* `postman_exclusive`: the temporary file is removed after it is unlocked
  (`postman.c:84`, `200`), so a waiting call locks an inode without a name while
  the next call creates and locks another; `postman.c:194` says that only one
  instance runs at a time. What it costs is that a document may be read half
  written; `CheckedOnly` shows that unchecked values are not stored nevertheless.

Seen while reading, and behaviours of the model, but not runs:

* The lease time 0xFFFFFFFF is granted to a dynamic client, and the expiry time
  wraps to the past (`serverpacket.c:359`, `leases.c:70`).
* A reused entry keeps the ACKed flag (`leases.c:61`), so the lease file may list
  leases that were only offered.
* SIGUSR1 sets the server's next automatic write from `time(0)` where the loop
  uses the uptime (`dhcpd.c:361`); `README.udhcpd:17` says the timer restarts.
* The deconfig at the start of the client is commented out (`dhcpc.c:593`), so an
  address that a killed client has left stays on the interface (`left`);
  `README.udhcpc:42` says that deconfig is used when udhcpc starts.
* Packets that come for ever keep the client from its signal pipe
  (`dhcpc.c:811`); the raw socket sees those of other hosts too.
* A signal handler that returns a negative number frees its registration but does
  not put SIG_DFL back (`sloop.c:537`, against `sloop_cancel_signal`): the signal
  stays caught with nobody registered for it, and is read and dropped.
* `PassValue` does not store after a deletion (`postman.c:233` against `108`).
* `fopen` with mode "w" empties the temporary file before the lock is asked for
  (`postman.c:62`, `180`).
* `check_ip` logs that it reserves a conflicting address for `conflict_time`, but
  the call is commented out (`leases.c:242-249`).

## Proofs

tlapm checks every obligation; nothing is assumed beyond the named assumptions
on the constants in Sloop, Leases, Dhcpd, Dhcpc, DhcpNet and Postman, which TLC
evaluates in the runs, and the hypotheses that a theorem states itself (`NoWrap`,
`Remaining \/ ~FileKept`, `Sized`, `Prompt`, explained below). The runs' instances
satisfy the hypotheses of the theorems that state their properties. All
invariants, the action properties and the refinement that the passing runs check
are proved.

* **SloopProofs**: `SloopTypes`, `SloopPools`, `SloopCursor`, for pools of any
  size. Neither `PoolIntegrity` nor `CursorInList` is inductive alone: freeing
  the handler's entry keeps the lists disjoint only if the entry is in the list
  it is removed from, and it is there only if the lists are disjoint when other
  entries move. The invariant `IInv` joins well-formed lists (each list without
  repetition, each struct in exactly one list of its own pool), the variables'
  types and the cursor's place. Every API call and loop step is a `Move`, a
  `Drain` or a change of the program counter, so the proof has one lemma for
  each of these on lists, and one per action.
  `SloopOncePerPass` and `SloopNoneSkipped` are about a pass over the readers or
  writers while the handlers change the list. `Pass` strengthens them with what
  is on either side of the cursor: after it nothing has been called or is new,
  before it nothing ready has been left out unless it is new. It survives
  because a registration enters at the head of the list, before the cursor, and
  because the next entry is read after the handler has returned.
  `SloopRegistrations`: `RegInv` adds that no two registrations have the same
  number, so that putting SIG_DFL back for one takes nothing from another; and
  every exit of the loop is `Exit`, which drains the four lists one by one.
* **DhcpdProofs**: `DhcpdTypes`, `DhcpdTable`, `DhcpdReservations`, for any
  clients, addresses, slots, static leases and times. The invariant is
  `TypeOK /\ TableConsistent`. `AddLeaseSlots` says what `add_lease` leaves in
  each slot; consistency follows because both the client's and the address's old
  entries are cleared before the one slot is filled. `FindByYiaddr` says that in a
  consistent table a search finds every entry with the address, so that "the
  search found nothing or an expired entry" means nobody holds the address: this
  is the step from consistency to `ReservedUnlessClaimed`.
* **DhcpdLeaseProofs**: `DhcpdReplies`, `DhcpdFileCovers`, `DhcpdHorizon`.
  - `ReplyBacked` needs what `add_lease` returns: it fails only when no entry has
    expired after it has cleared the client's and the address's own. An OFFER is
    then not sent; an ACK is, so an ACK without an entry means a full table. Hypothesis
    `NoWrap`: uptime plus the configured times is below 2^32 and no client asks
    for the infinite lease. The code grants that one and stores an expiry one
    second in the past, so the property is false with it.
  - `FileCovers` says that the lease is in the file, not that a restart reads it
    back (`dhcpd_restart` shows that it does not): each action either writes the
    file or only removes entries, shortens them or makes them offers of at most
    `offer_time`. It holds for both settings of `remaining`; with absolute times it
    speaks of the serving server only, because a record that ended one second ago
    is read as -1 and gets a new term, which is in the file once the table has been
    written again at the end of the start.
  - `LeaseHorizon` needs `FileHorizon`, the same bound for the records of the
    file, because a restart copies them into the table. Hypotheses: no infinite
    lease, and the file stores remaining times or does not survive a reboot
    (`Remaining \/ ~FileKept`). Absolute times are uptimes; after a reboot those of
    a kept file lie in the future of a clock that has started again, and TLC shows
    the violation with `Remaining = FALSE`, `FileKept = TRUE`. The router writes
    absolute times into a file in memory, so the hypothesis holds on it.

* **SloopTimerProofs**: `SloopTimersSorted` and `SloopKeepsPromise`, the
  refinement of Timers. Every step of the loop is classified by what it does to
  the timer list; the steps that leave it alone are stutters, and the others are
  `Arm` (insertion where `TimerSlot` says, which keeps the list sorted),
  `Cancel`, `CancelAll`, `Finish` and `Fire`. `Fire` needs two invariants besides
  `IInv`: the list is sorted, so that its first entry is the earliest timer, and
  `Remembered`: what `select` was asked to wait for covers the remembered timer,
  and if it returned 0 that timer is due, still first, and no signal handler has
  run in between.
* **DhcpcProofs**: `DhcpcTypes`, `DhcpcListens`, `DhcpcLease`, for all servers,
  addresses, options, retries and leases below 2^32 / 7. `LeaseRespected` is not
  inductive: that an address goes in time depends on the next timeout. `Deadline`
  adds it: in each state with a lease, `due + age` is bounded by T1, T2 or the
  lease, T1 <= T2 <= lease (so that the unsigned differences do not wrap), and in
  RENEW_REQUESTED by what the rest of the series can take. `LeftBehind` says the
  same of the released state.
* **DhcpNetProofs**: `NetReserved` and `NetKeeps`, for any number of other clients,
  addresses, retries and messages under way and for any delay.
  `HeldIsReserved` speaks of the lease that the client has; the lease comes from
  an ACK, which may still be in the socket or under way, and the ACK from a
  request. So the invariant `NetInv` treats each of these as a claim against the
  table: an ACK under way with `ttl` seconds to go needs the entry for
  `ServerLease + ttl - MaxDelay` seconds, an ACK in the socket for `ServerLease -
  MaxDelay`, the lease for `ServerLease - age - MaxDelay` (`Claims`). A claim
  shrinks with time as fast as the entry does. No step of another client takes
  the entry (`DhcpdReservations`); the client's own late DISCOVER, RELEASE or
  DECLINE could, and `InOrder` excludes it: links keep the order, and while such a
  message is under way the client has no ACK to the series that follows.
  `Refusals` says that a NAK follows a claim only when the claim is over, which
  gives the first half of `AddressKept`. `Timed` gives the other half: BOUND and
  RENEWING do not end before T1, REBINDING not before T2, and T1 <= T2 <= lease.
  Hypotheses. `Sized`: the client has no static lease; there is a slot for every
  address; uptime plus lease is below 2^32; the client sends at least one
  DISCOVER. With fewer slots than addresses `HeldIsReserved` is false, and TLC
  shows it with one slot and two addresses: a renewing client whose record was
  reused gets an ACK that is not recorded (`serverpacket.c:423` sends it before
  `add_lease` and goes on when that fails). The default is 254 slots
  (`files.c:427`), and `dhcpserver.php:80` writes a larger `max_leases` when the
  range is larger, so the hypothesis holds on the router. `Prompt`: `7 * lease`
  does not overflow, and the client's margin (`lease / 14400 + 1` seconds, at
  which it gives up) is at most `MaxDelay`.
* **PostmanProofs**: `PostmanTypes`, `PostmanRestarts` and `PostmanChecked`, for
  any processes (finitely many, so that an inode is free), sessions, services and
  requests. Types: a process has the file open exactly from `fopen` to `fclose`,
  so at most two inodes per process and the named one are in use. Restarts: a
  script is non-empty only between `Activate` and `RunScript` of its process, and
  a dirty list without an unnamed entry is taken as a whole, so that no service
  drops out between the list, the scripts and `lost`. Checked values: while no
  session is shared, each session number belongs to one call, and the session of a
  call between check and store holds no rejected value (`Clean`); a file with
  another call's document may overwrite a session only before its edit, and
  documents hold stored values.

Only model-checked: the liveness properties `SignalServed`, `TimersFire`,
`TerminateStops`, `RenewalEnds`, `KeepsAsking`, `TermExits` and `CallsReturn`. The
prover handles neither fairness nor ENABLED.

## Not modelled

Byte layout of packets, option parsing, raw sockets and the scripts themselves;
the xmldb exchange, whose server is a binary; memory, string, stream, encoding
and digest helpers, which are sequential byte code with test vectors as the right
tool; the PHP templates apart from the three scripts of `postman.c`, whose
interpreter is not in the repository; private binaries, vendored programs, the
kernel and the tools. These are almost all of the repository's lines; the models
cover the program's own concurrent and stateful code.

## Plan

1. Done: Sloop with Timers, Leases, Dhcpd, Dhcpc, DhcpNet, Postman, their runs and
   the theorems above.
2. Done: every invariant and action property of the passing runs as a theorem.
3. Next: what is true of the server when the hypotheses of `NetReserved` fail
   (fewer slots than addresses, a restart between two renewals), as weaker
   invariants with the exception named, like `ReservedUnlessClaimed`.
4. A crash inside `write_leases`, with the file as a prefix of its records.
