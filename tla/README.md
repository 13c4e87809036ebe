# TLA+ specifications of tincr

tincr is a peer-to-peer mesh VPN in Rust. Every daemon (`tincd`) keeps a few TCP
*meta connections*, floods the topology of the mesh over them, and exchanges
encrypted UDP datagrams directly with any other daemon. This directory holds TLA+
models of the parts where correctness depends on more than one step or more than
one actor, the TLC configurations that check them, and TLAPS proofs of the results
that matter most.

    tlc -workers 2 -config Gossip_calm.cfg Gossip      # one run
    tlapm ReplayWindowProofs.tla                       # the proofs of a module

`PROJECT.json` lists the components, the runs, the source lines behind every
definition (`map`), a mutant for every property (a plausible bug in the code that
the property detects), the hazards and the theorems.

## 1. The system

### Inventory

| Component | State | Operations | Hard behaviour | What makes it correct |
|---|---|---|---|---|
| SPTPS session (`tinc-sptps/src/state.rs`) | handshake state, own and peer KEX, pending key, two ciphers, counters | `start`, `force_kex`, `send_record`, `receive`, the fast-path `seal_data_into` / `open_data_into` | crossed rekeys, old and new key in one stream, lost or repeated handshake records | both ends agree on the keys; no `expect` fires; no data before confirmation; rekeys invisible to the user |
| Replay window and numbers (`state.rs`, `shard/probe.rs`, `shard/rx.rs`) | 64-bit shared counter; bitmap, next number, far-future counter | `alloc_seqnos`, `tx_probe`, `ReplayWindow::check` from two threads | duplicated, reordered, far-ahead datagrams; batches racing the limit; a check repeated by the slow path | never accept twice, never reuse a nonce, never refuse a fresh record inside the window |
| Topology gossip (`daemon/gossip/*`, `seen.rs`) | the graph (edges with attributes), past-request cache | `on_add_edge`, `on_del_edge`, `send_everything`, `forward_request`, the cache sweep | floods that cross, corrections, cached lines that outlive their meaning | own edges are own connections; floods end; views converge |
| Meta connections (`daemon/connect.rs`, `metaconn.rs`, `conn.rs`) | connection table, outgoing slots with retry timers, `pending_meta` | dial, accept, ACK, `terminate`, retry timer, SIGALRM | two connections between the same pair, either end closing at any time | one and the same connection at both ends; every slot keeps trying; no place leaks |
| Tunnel keys (`gossip/keys.rs`, `tunnel.rs`, `net/sptps.rs`) | per peer: session, salvaged previous session, `validkey`, published handles | REQ_KEY, ANS_KEY, restart, key expiry | both ends initiate at once, answers of a session already given up, workers with old keys | valid keys agree; the tunnel comes up; the old session opens stragglers, and dies |
| Subnets (`gossip/subnets.rs`, `subnet_tree.rs`) | owners of each prefix or address | ADD_SUBNET, DEL_SUBNET, lookup | same prologue and relay as the edges; the owner's defence | own subnets defended; stale claims withdrawn |
| Graph search (`graph/mod.rs`, `gossip/graph.rs`) | distances, via, next hop, spanning tree | `sssp_sticky`, `mst`, reachability changes | indirect edges, sticky choices, half-known edges | next hops lead to the target; the tree spans |
| Path MTU (`pmtu.rs`, `tx_control.rs`) | phase, bounds, counted probes, the published size | `tick`, probe reply, meta ack, EMSGSIZE, UDP timeout | replies of an earlier round racing the clock | never a size the path does not carry; ends at the size it does |
| UDP address choice and punching (`punch.rs`, `udp_info.rs`) | candidate addresses, punch rounds | MTU_INFO, UDP_INFO, punch exchange | hints that arrive late | never trust an unauthenticated address |
| Data-plane workers (`shard/*`) | snapshots, batches, punt ring | TX and RX fast path, publish | stale snapshots, full ring | same decision as the slow path |
| Packet routing (`route_*.rs`, `net/route.rs`) | MAC table and leases | classify, learn, forward, broadcast | stations that move, leases that expire | frames find the station; broadcasts reach everyone once |
| Invitations (`invitation_serve.rs`, `cmd/invite.rs`, `cmd/join.rs`) | invitation files, invitation key, host files | invite, join, serve, finalize, reload | two joiners, a crash between rename and delivery, key rotation | each is served once; an accepted joiner is known under its name |
| Purge, autoconnect, reload, periodic work, timers, address cache, resolver and script workers, discovery, port mapping, control socket, wire format, primitives, devices | see `PROJECT.json` | | | |

### How the parts interact

The control thread runs an event loop: it reads meta connections, handles one line
at a time to completion, and queues answers; handlers never block. An SPTPS session
in *stream* framing carries each meta connection. The lines on it (ADD_EDGE,
DEL_EDGE, ADD_SUBNET, REQ_KEY, ...) change the graph and the tunnels; the graph
search decides reachability and next hops; a REQ_KEY/ANS_KEY exchange over the meta
connections sets up a second SPTPS session, in *datagram* framing, for the UDP
tunnel. Its ciphers, counter and replay window are shared by `Arc` with the worker
threads, which read snapshots and *punt* whatever they cannot finish to the control
thread. Concurrency is thus of two kinds: between daemons (messages, in every order
the network allows), and between the control thread and the workers of one daemon
(the counter, the window, the snapshots, the punt ring).

## 2. Modules

| Module | Models | Uses |
|---|---|---|
| `ReplayWindow` | one direction of one datagram key: allocator, network, window, the two receive paths | |
| `ReplayWindowProofs` | theorems about it | `ReplayWindow` |
| `Sptps` | both ends of an SPTPS session, in either framing | the accepted-once fact of `ReplayWindow` |
| `SecureStream` | what a stream session promises its user: an ordered, lossless record channel | |
| `MCSptps` | `Sptps` for TLC and the refinement mapping to `SecureStream` | `Sptps`, `SecureStream` |
| `SptpsProofs` | theorems about both: the session's invariants, and the refinement's safety part | `MCSptps` |
| `Gossip` | edges, connections, flooding and the cache of every daemon of a mesh | |
| `GossipProofs` | theorems about it | `Gossip` |
| `Tunnel` | the session keys of one tunnel at both ends, and the workers that hold copies | key agreement of `Sptps` |
| `TunnelProofs` | theorems about it | `Tunnel` |
| `Connections` | the meta connections between two daemons that may dial each other | |
| `ConnectionsProofs` | theorems about it | `Connections` |
| `Pmtu` | path MTU discovery of one tunnel, with the path, the peer and a worker | |
| `PmtuProofs` | theorems about it | `Pmtu` |
| `Routes` | next hops and broadcast tree of every daemon of a mesh | the converged graph of `Gossip` |
| `Subnets` | MAC learning, leases and subnet gossip of a switched mesh | |
| `SubnetsProofs` | the theorem about it | `Subnets` |
| `Invitations` | inviter, daemon and joiners | |
| `InvitationsProofs` | theorems about it | `Invitations` |
| `MCParts` | for TLC: the parts that share no state, side by side | `ReplayWindow`, `Connections`, `Pmtu`, `Routes`, `Subnets`, `Invitations` |

Definitions marked *Mutant* in the modules are deliberately wrong versions of the
definition that follows them; nothing uses them except the mutants of
`PROJECT.json`.

### ReplayWindow

`outseqno` is the `AtomicU64` shared by all sending threads, `inseqno`, `late` and
`farfuture` are the fields of `ReplayWindow`, and `punted` is the worker's punt
ring. `sent` is at the same time the network: it keeps every sealed record and may
deliver any of them at any time, which covers loss, duplication and reordering of
any depth. `Alloc` is the `fetch_add` with the limit judged afterwards. The branches
of `ReplayWindow::check` are `FarAhead`, `Past`, `Near`, `TooOld` and `Already`;
`CheckErr` and `CheckOk` are its two results, with the effects each has. A worker
either accepts (`FastAccept`), gives up before the commit (`FastMiss`), or commits
and is refused (`FastRefuse`, `FastRefuseFull`); the control thread then takes the
datagram from the ring and checks again (`SlowAccept`, `SlowRefuse`). The wire
number is the counter modulo `SeqSpace`. `delivered`, `replayed` and `dropped` are
history. Authentication is not in the model: every record in it is genuine.

Handshake records do not pass `alloc_seqnos`; they are below `KeyBase` here. Under
an in-band rekey they are the few numbers around the switch, which the model does
not draw separately.

### Sptps and SecureStream

The state of each end is that of `Sptps` in `state.rs`, with the same names. One
action per call of the daemon (`ForceKex`, `SendApp`) and one per way `receive` can
end: `ReceiveKex`, `ReceiveSig`, `ReceiveAck`, `ReceiveConfirm`, `ReceiveApp`, and
`ReceiveBad` for every error. A `receive` that answers with several records emits
them in the order of the code, each under the cipher in force at that point, since
that order is what the rekey depends on. Cryptography is symbolic: a KEX is a fresh
name, key material a pair of them ordered by role, a cipher one half of the
material, a signature the transcript it signs. Decryption succeeds exactly under the
cipher that sealed, and a signature verifies exactly for its transcript. In the
stream, records arrive in order and an error ends the connection; in datagrams,
records are never removed from `net`, and each number is accepted at most once,
which is what `ReplayWindow` establishes of the window. Both ends are configured for
the same key exchange (`kexmode`, plain or hybrid, chosen in `Init`). The errors in
the model are those that the records of an honest peer can lead to. Left out are
stray and forged records, and the two failures of a primitive that leave state
behind: an encapsulation that fails after the KEXes were stored (`BadKex`), and a
`compute_shared` that fails after the ECDH secret was taken.

### Gossip

`edges[n]` is daemon n's graph, `conn[n]` its ends of its meta connections (before
ACK `pending`, afterwards `active`), `queue[n][m]` the lines n sent that m has not
read, `seen[n]` its `SeenRequests`. A line has no nonce because `normalize_key`
drops it before the cache is asked. `Connect`, `OnAck`, `Terminate` and
`TerminatePending` are the connection's life as gossip sees it, `OnPongRtt` the new
weight that a daemon announces of its own edge when the round trip time has changed
(at most every five ping intervals, so it counts as a change of the mesh); the
branches of
`on_add_edge` and `on_del_edge`, early returns included, are the eight disjuncts of
`Handle`. `AgePastRequests` is the sweep; it clears a whole cache, the case in which
the last line is old enough, and entries of different ages are not told apart.
`Reachable` is the set the graph search visits (an edge is followed only if its
reverse is known).

`Spacing` says how far apart the changes of the mesh are. A link may change at any
time under `none` and `burst`, once the lines about it have been read and have aged
under `link`, and once everything has under `mesh`. Caches age in the middle of a
flood only under `none`: a flood takes moments, a cached line lives for a ping
interval. It is an assumption on the environment, not something the code
enforces; the runs differ in it, because the result does.

Left out of `Gossip`: `tunnelserver` mode, the MAX_NODES/MAX_EDGES limits, the
`contradicting_*` counters that put a daemon to sleep, the duplicate-connection
branch of `on_ack` (that is `Connections`; here a link is redialled only when both
ends have dropped the old connection), subnets and purge (`Subnets`).

### Tunnel

`tun[d]` is daemon d's `TunnelState` for its peer: the current session, the salvaged
`prev_sptps` with its age, `validkey`, `waitingforkey`, the age of `last_req_key` and
the published handles; `snap[d]` is what a worker has loaded of the latter. A key is
the set of the two KEXes it comes from. `SendReqKey` is every place that starts a
session as initiator, `OnReqKey` the responder's side with the tie-break between
crossed initiators (`KeepsInitiator`), `OnAnsKey` a handshake record with each way
`receive` may end: not the expected number (maybe a restart), a signature of another
session, or progress. `SendPacket` is the slow path with `try_tx`, `RxUdp` the
receive path with its fallback to the previous session, `FastTx` a worker, `Tick`
the housekeeping (restart of what is stuck, the worn key, then the reaping of the
previous session), `KeyExpire` and the two reachability changes the rest. Time goes
in units of 10 s, REQ_KEY_RETRY, and `PingInterval` is at least one of them. The
configuration allows less; a session without an answer is then restarted by the 10 s
of `tunnel.rs` first, and `Patience` would have to be stated with those. Datagrams do
not outlive a unit, and meta messages do so only as a counted fault. The handshake is
the plain one; the hybrid handshake that `SPTPSKex` turns on has one more message and
is in `Sptps` only. KEXes are positive
numbers and a new one is the least that nobody holds (`NewKex`), so that the state
space is finite without a bound on sessions. `None`, the absent session or key, is
assumed to be neither a number nor a session.

### Connections

A stream is a TCP connection; each daemon has it in `connecting`, `open` or
`active`, or not at all. `Closed` is `terminate` up to the redial, and `DoOutgoing`
the redial: the next address for which a connect can be started, or the timer, when
no address is left or when the remaining ones fail at once, which counts as a
trouble. The three outcomes of `on_ack` are its disjuncts: no older connection, keep the older
(`KeepOld`), keep the newer; `MoveSlot` is what happens to the outgoing slot in
between. `OnRetry` is SIGALRM; the sweep that follows it in the same tick of the code
is an action of its own (`SweepStale`) and may come later, which only adds behaviours.
`Addrs` addresses are tried in a round.

### Pmtu

`pm` is `PmtuState`; `phase` is the number of probes a discovery has sent, `Fix` when
they are used up, or one of the fixed phases from `Steady` down to `Lost`, each
counted probe without an answer being a step. `published` is the size in the handles, which workers send up to.
The network is `path` (what it carries), `link` (what the kernel lets out, EMSGSIZE
above) and whether replies are filtered, in which case only the peer's meta acks
tell what arrived. `TryTx` is one call of `try_tx`: timeout, keepalive, seed and
tick, in this order. Which size a probe of the search has is taken from the range
the formula may give (`ProbeSize`), not from its floating-point value; whatever size
`tick` asks for, `send_udp_probe` sends at least MIN_PROBE_SIZE (`ProbeLen`). Upsets (a
changed path, a lost datagram, a timeout, an unreachable peer, a send that fails)
are bounded by `MaxUpsets`. `SendRefused` is data that the control thread sends and
the kernel refuses; workers only drop what is refused. Two other writers of `mtu` are
not in the model: the PMTU of a host file, which `on_ack` puts on `mtu` and `maxmtu`
and which may be below MINMTU, and the provisional `mtu` of a relay's MTU_INFO.
`UsableOrNothing` is about discovery alone.

### Routes

`Sssp` follows `sssp_sticky` edge by edge, with neighbours in the order of their
names, and `Stick` is its post-pass; `Mst` follows `mst` with its restarts. Every
daemon keeps the routes of its own last search, as the stickiness needs them. A link
may be up, down, or known from one side only (`Half`). The reference definitions
are reachability over links (`Component`) and following next hops (`Arrives`).

### Subnets

`claims[d]` is the tree, `macTable[d]` the flat table frames are routed by,
`leases[d]` the MAC leases. `OnAddSubnet` and `OnDelSubnet` are the handlers with
their answers to a line about one's own addresses, `LearnMac` a frame on the TAP,
`OnAgeSubnets` the lease timer, `Purge` and `ReloadSubnets` the two other places that
withdraw subnets. The DEL_EDGE lines that `purge` sends besides are left out: edges
are taken as known here. A station's frames keep its lease fresh only while the table
has the address as the daemon's own; after a reload it is learned again, unless the
lease table is full (`Refreshed`, `TableFull`). `Crowded` daemons have so many other
stations that one more lease fills their table. A lease ends only after lines in
flight have been read and caches have aged: this rests on the default `macexpire` of
600 s, which is far longer than both.

`Delivers` follows a frame from the daemon whose station sent it: to the owner the
table names, or, without an entry, to `FloodTargets`, the neighbours other than the
one towards whoever handed the frame over. A frame that meets an entry pointing back
is dropped. So an entry that names a daemon which no longer knows the station is a
black hole for everyone on the station's side of it, and `StationsFound` fails there.

### Invitations

Files survive a crash of the daemon, connections do not, except for what the daemon
had already sent. `Invite` is the sweep of
old invitations, the rotation of the key when none is left, the new file, and
the reload it asks for, which may fail. An invitation has two lifetimes, the week of
`tinc invite`'s sweep and the daemon's InvitationExpire (`old`, `expired`), which end
in either order. `ServeCookie` is the rename with what follows it in the same handler:
the file is sent, or it is expired, unreadable or malformed and stays renamed.
`ReceiveKey` creates the host file and writes the key, and the write may fail, leaving
a `Blank` file. `CrashRestart` may fall between the rename and the rest, and before,
between or after the two halves of `ReceiveKey`.

### MCParts

Six modules have no variable in common and do not interact. `MCParts` puts them
side by side: the variable `part` says which of them a behaviour exercises, and the
others stay in an initial state. So nothing is multiplied, and one run checks all
of them with their own instances. Fairness is that of the part that runs.

## 3. What the runs check

| Run | Instance | Properties | Result |
|---|---|---|---|
| `sptps_stream` | 3 KEXes and 3 records per end, fair | `TypeOK` `Agreement` `NeverFails` `Completes` `ImplementsSecureStream` | holds |
| `sptps_datagram` | 3 KEXes and 2 records per end | `NoPanic` `Agreement` `AppDelivery` `Confirmed` | holds |
| `gossip_calm` | triangle with one side down, 2 attributes, 4 changes of links or weights, `mesh` | `Converged` | holds |
| `gossip_floods` | triangle with one side down, cache of 3, limiter, 2 changes, `burst`, fair | `TypeOK` `OwnEdges` `FloodEnds` | holds |
| `tunnel` | 2 faults, 2 meta messages, 1 datagram, PingInterval 1 and KeyExpire 2 units, fair | `TypeOK` `KeyAgreement` `PrevDies` `StragglersOpen` `Patience` `Establishes` | holds |
| `parts`, replay | 13 wire numbers, 3 slots, limit 6, batches of 1 or 2, 1 punted | `TypeOK` `NoReplay` `NonceUnique` `WindowExact` | holds |
| `parts`, connections | both dial, 3 streams, 1 address, 1 pending, 1 trouble, fair | `ConnTypeOK` `OneActive` `PendingExact` `PartSettles` | holds |
| `parts`, path MTU | sizes to 5, usable from 3, probes from 2, 1 upset, fair | `PmtuTypeOK` `UsableOrNothing` `NeverTooLarge` `PartConverges` | holds |
| `parts`, routes | 4 daemons, 5 links, 2 of them indirect, 2 weights, 2 changes | `PartNextHopsArrive` `PartTreeSpans` | holds |
| `parts`, subnets | 3 daemons in a chain, 1 station, 1 move, 1 cut or reload, 1 purge, one crowded daemon, fair | `MacTableBacked` `PartStaleClaimsGo` `PartStationsFound` | holds |
| `parts`, invitations | 2 cookies, 2 names, 2 joiners, any number of crashes | `SingleUse` `Vouched` `OutstandingUsable` | holds |
| `replay_budget` | 3 slots | `DropBudget` | **violated** |
| `gossip_flap` | chain of 3, 3 changes, `none` | `Converged` | **violated** |
| `tunnel_workers` | as `tunnel` | `WorkersStop` | **violated** |
| `connections_retry` | as in `parts`: 1 trouble, a SIGALRM | `SlotKept` | **violated** |
| `routes_loop` | 5 daemons, 7 links, 3 of them indirect, no change | `NextHopsArrive` | **violated** |
| `switch_reload` | 1 reload | `LeaseClaimed` | **violated** |

Why the bounds are enough to meet the cases:

* *ReplayWindow*: the counter passes `SealLimit` and goes on to burn numbers; the
  window slides over its whole length several times, meets gaps, late arrivals and
  far-ahead numbers, and resyncs; `SealLimit + Batch` and the window just fit into
  the number space, as 2^32 - 2^16 and the default window do.
* *Sptps*: three KEXes per end are the initial handshake and two rekeys, enough for
  a crossed rekey after a finished one; records travel before, during and after.
* *Gossip*: three daemons are a relay between two that do not hear each other
  directly, and the triangle opens and closes a cycle. Three changes are down, up
  and down again. Two changes close the triangle while the DEL_EDGE lines of a
  broken link are still under way, which is what brings a daemon lines about its own
  edges to refute; a cache of three lines fills up within one flood.
* *Tunnel*: sessions, restarts and retries are not bounded; the faults are. With
  them there are crossed initiations, a restart whose predecessor's answers are
  still under way, a second restart before the first one ended, and a handshake
  that stalls until the previous session must die.
* *Connections*: three streams are the crossed pair and a redial while one of them
  is still being closed; one pending place makes accepts be refused.
* *Pmtu*: below, at and above the least usable size, and at both ends of the range;
  the least probe (2) is above the least size `tick` asks for, so that it is raised;
  four probes are more than the search of five sizes needs, so rounds end both by
  finding the size and by running out.
* *Routes*: four daemons with five links hold every cycle of three and four; two
  changes are a departure and a return, which is when stickiness decides. The loop
  of `routes_loop` needs five daemons and three indirect links.
* *Subnets*: the daemon in the middle relays, and a station that moves from one end
  to the other leaves a lease, a claim on every daemon and lines on both cables. After
  a reload a daemon learns the address again, or, if it is the crowded one, does not
  and lets the lease run out.
* *Invitations*: two invitations for one name or two, and two joiners for one URL.

Deadlock is checked for `Tunnel` and for `ReplayWindow` on its own. The other
configurations turn it off: calls and changes are bounded, and an idle session or
mesh has nothing to do.

**Fairness.** The event loop serves what is ready: each socket with something on it
(`WF` of `Receive`, `Handle`, `OnReqKey`, `OnAnsKey`, `Accept`, `OnAck`, `Eof`, ...)
and each timer that is due (`RetryTimer`, `SweepStale`, `SubnetStep`). Nobody is
obliged to start a rekey, to change a link, to lose anything, or to age a cache in
`Gossip`. `Tunnel` and `Pmtu` use strong fairness once each, on `Tick` and on a
`try_tx` whose keepalive is due: clocks advance, so these happen for ever although
other events may keep coming in between. They also assume what the daemon cannot
bring about: that packets for the peer keep coming, and that datagrams are not lost
for ever. `SecureStream`'s fairness on delivery is implied by that of `Sptps`, and
part of what `ImplementsSecureStream` checks. `Settles` speaks of behaviours
without SIGALRM, `StaleClaimsGo` and `StationsFound` of those without a lost
connection; what happens otherwise is below. In `Connections` each connection is
served fairly (`Serve`), whatever it is that is due on it.

### What the violated runs show

* `replay_budget`. A worker commits with `check_public`, which counts a far-ahead
  datagram even when it refuses it; the datagram then falls through to the slow
  path, which counts it again. The window resyncs after half of the drops that
  `state.rs` states, and `rx.rs` says that the window is untouched.
* `gossip_flap`. Third daemons do not forget cached lines when a link between two
  others returns: the second DEL_EDGE (or ADD_EDGE) of a flapping link is
  byte-identical to the first, and dropped. `purge_mentions` runs only at the two
  ends. `gossip_calm` shows that the views of three daemons converge without a second
  change inside the cache's lifetime.
* `tunnel_workers`. Nothing stores `false` into the published `validkey`: while a
  restart is under way, workers go on sealing under the key that was replaced.
* `connections_retry`. SIGALRM arms the timer of a slot whose dial is under way. The
  slot then has two connections; when both are activated, `on_ack` takes them for
  two slots and deletes the dropped one's, which is the survivor's too. The peer is
  not redialled any more.
* `routes_loop`. The upgrade of a node from an indirect to a direct path keeps the
  next hop of the indirect one. Daemons that agree on the graph may then each have
  the other as next hop towards a third, for good; the guard in `keys.rs` drops
  what comes back.
* `switch_reload`. A reload compares all subnets of the own name with the
  configuration, learned MAC addresses included, and withdraws them; their leases
  stay, and others' claims are refused meanwhile.

### Observed, not run

Behaviours met while modelling that follow from the code as it is:

* A key installed by an in-band rekey late in the number space runs past 2^32,
  where the window's plain comparison accepts records again; `NoWrap` excludes it.
* The correction that an edge's owner sends is the line its receiver cached when
  the owner first said it, and is dropped as seen; attributes from an older dump of
  another peer stay (`Gossip` with two attributes under `link`).
* Under `mesh` spacing too, four daemons may keep different attributes of an edge for
  good. Take the chain 0-2-1-3. 0-2 breaks; 1-2 breaks and returns with another
  weight or address, which 0 does not hear; 1-3 breaks; 0 and 3 connect, and their
  dumps cross: each takes the other's idea of the edge 1 -> 2, so that they have
  swapped the old and the new one. When 0 and 1 then connect, 0 finds that it
  already has what 1 says and does not relay it, and 3 stays with the old attribute.
  Edges that are there or not are settled by their owner's refutation, attributes
  only when the owner hears them.
* `shard/mod.rs` says that a published size that is too high is corrected by one
  EMSGSIZE; `handle_udp_emsgsize` does not store into the handles, and in the fixed
  phases `on_emsgsize` does not lower `minmtu`.
* A path of exactly MINMTU is not discovered, and the increase detector never
  probes MTU itself; both are part of how `Converges` is stated. A meta ack that
  overtakes the UDP reply of the same probe may leave `mtu` below `minmtu`.
* With repeated SIGALRMs two daemons may drop each other's connections for ever. A
  retry timer that finds the peer connected leaves its slot without timer; the slot
  is picked up again only when that connection was its own.
* A DEL_SUBNET that is lost with its connection is not repeated, so the claim stays
  behind the cut, and a daemon that reconnects from there announces it again. If that
  happens while its neighbours still have the first DEL_SUBNET in their caches, the
  owner's refutation is the same line and is dropped as seen: their tables name an
  owner that does not have the station, frames to it are lost, and nothing that is
  sent later corrects it, since the station's own daemon has nothing new to announce.
  `StationsFound` therefore excludes lost connections; an ADD_SUBNET refused because of a lease is not asked for again.
* Two `tinc invite` at once may both rotate the key. A joiner whose connection
  breaks after it received the file has used up the invitation, and its new
  `tinc.conf` keeps it from trying again.

## 4. What is proved

TLAPS proves the following for every value of the constants.

**ReplayWindowProofs**, from `ReplayWindowAssumption` (sizes positive, the window
smaller than the number space, one key's numbers fit into it):

* `TypeCorrect`: `Spec => []TypeOK`; above all the far-future counter stays within
  its limit and the window's number within the wire space.
* `NonceUniqueCorrect`: all sealed numbers lie in an interval shorter than `SeqSpace`
  starting at `KeyBase` (`SentRange`), so residues are distinct. A batch may begin
  just below the limit, hence `SealLimit + Batch <= SeqSpace` in the assumption.
* `NoReplayCorrect` and `WindowExactCorrect`, from `NoWrap` as well. Under `NoWrap`
  a wire number is its counter. `NoReplay` is not inductive: the bitmap has to be
  tied to the history. The inductive invariant `IInv` adds that every accepted
  number is below `inseqno` (`Behind`), that `inseqno` never passes the last sealed
  number by more than one, and that, for each number of the last `Slots` before
  `inseqno`, its bit is late exactly when it is unaccepted (`WindowBits`). The
  lemmas on `%` say that different numbers of one window have different slots. A
  resync marks everything late, but moves `inseqno` so far that no accepted number
  is left in the window except the one just taken.

`NoWrap` holds of the shipped constants for a session that was never rekeyed in
band: `KeyBase` is at most 3, SEAL_KEY_LIMIT = 2^32 - 2^16, batches have at most 64
numbers and the default window 32 * 8 slots. A configured window may be as large as
2^20 bytes, which uses up the margin at the very end of the number space.

**GossipProofs**, from `GossipAssumption`: `OwnEdgesCorrect`, for any mesh, any
number of changes, any spacing, any cache size and whatever lines are in the
queues. The invariant is `OwnEdges` with the shape of the variables; nothing is
assumed about queued lines except that they are lines, which is the point: a
daemon's own edges do not depend on what its peers say. The step that needs care is
`Deleted`, which removes an edge towards `n` while handling another node's line, and
`Withdrawn`, which removes two edges at once.

`TypeCorrect` is about the lines themselves: every view holds announced attributes
or none, and every stream carries well-formed lines, so no ADD_EDGE without an edge
behind it leaves a daemon. What `send_everything` puts on a new connection is a
fold over a set of edges. The library's induction theorems cannot be used here, so
the induction is made by hand: `LeastOf` (a set of naturals has a least element,
from the well-foundedness of `<`) turns it into a least counterexample, once to show
that a function exists which the fold's recursion describes (`FoldExists`) and once
for its values (`FoldType`). The invariant needs besides that no daemon is connected
to itself (`NoSelf`), or cutting a stream would cut both directions at once.

**SptpsProofs**, from `SptpsAssumption` (a framing; any number of KEXes and of
records): `TypeCorrect`, `NoPanicCorrect`, `AgreementCorrect`, `AppDeliveryCorrect`,
`ConfirmedCorrect` and `NeverFailsCorrect`, the last one about the stream.

* Handshakes are numbered by the KEXes an end has made. The core of `IInv` is that
  an end's state and this number determine everything else it holds (`EndOK`): its
  KEXes, the material it waits to install, both ciphers, the number of times it was
  done. What one end has taken the other has sent (`Behind`), so the two are never
  more than one record of one handshake apart, and `NoPanic`, `Agreement` and
  `Confirmed` follow.
* A record on its way was really sent, not before its time, and not under another
  handshake's cipher (`MsgOK`). That alone is not inductive on datagrams. The ACK
  that confirms the first hybrid handshake and the ACK of the first rekey are the
  same record: same type, same cipher, empty body. Only the number tells them apart,
  and only the window keeps the first one from being taken for the second. Hence
  `Numbers`: what numbers the records of the initial handshake have, and that they
  are spent. `Once` does the same for data.
* `AppDelivery` needs besides that no end takes data before it is done (`Late`).
* `NeverFails` is about order. `Flow` says of a stream that what is on its way is
  exactly what was sent and has not been read, each number once (`Queue`,
  `Pending`), that handshake records lie in the order of their handshakes
  (`InOrder`), and that data of a generation lies after the handshake that made its
  cipher and before the ACK that ends it (`DataInOrder`). So the record at the read
  position is one this end can open and whose type its state expects (`FirstFits`),
  and `ReceiveBad` is never enabled. This is the ORDER-SENSITIVE comment of
  `receive_sig`, for every number of crossed rekeys.

The last theorem of that module is `StreamSafetyCorrect`: on a stream
`Spec => Abstract!Safety`, that is, `Sptps` implements `SecureStream` without its
fairness. The mapping takes as `pipe` the bodies of the application records in `net`, in the order they were
sealed. The invariant `OInv` says that these are exactly the records from the one
after the last handed over to the last one sent, each once, and that sealing order
and record number agree (`Line`); `SealOrderIs` counts the records in front of each
one to show what the mapping gives. A step is then one of three (`StepEffect`): at
most one end gets ready (`Quietly`), a record joins at the end (`Pushes`), or the
first one leaves (`Delivers`); that no step is `ReceiveBad` comes from `FirstFits`.

**TunnelProofs**, from `TunnelAssumption`: `TypeCorrect`, `KeyAgreementCorrect`,
`PrevDiesCorrect`, `StragglersOpenCorrect` and the action property
`PatienceCorrect`, for any timers and any number of faults, messages and datagrams. `KeyAgreement` is not inductive: the
signature that makes a session valid comes from a session that may be gone when it
arrives. `IInv` therefore speaks of *armed* sessions, which are valid or have the
right signature on its way: two armed sessions are the two ends of one handshake
(`Agreed`). For its preservation `Linked` records who may know a session's KEX:
while the peer's KEX is unknown nobody has signed this one, and whoever has taken it
in plays the other role. The tie-break between crossed initiators is not used: the
keys agree whoever yields, and only `Establishes` depends on it. `PrevDies`
needs that a previous session is at most `KeyLifetime` old and was up when it was
salvaged.

`StragglersOpen` is about datagrams that overtake the handshake, so its invariant
(`SInv`, on top of `IInv`) has to follow the handshake. While at most one rekey has
happened and nothing was lost, late or reset, the two sessions and the messages
between them are in one of nine stages (`Stage`): idle, settled, and the stages of a
handshake from the REQ_KEY to the last signature, with the three that only crossings
produce (`Crossed`, `AnsweredBehind`, and `Overtaken`, in which the responder rekeys
while its last signature is still under way). Over the stages goes `Covered`:
every key under which a daemon may be sent something, now or after one more step of
the peer (datagrams in flight, the worker's snapshot and handles, the peer's valid
key, signatures on their way to the peer), is one that it opens or is about to
finish agreeing on. This is why one previous session is enough for one rekey: the
key of the salvaged session is the only other one the peer may still be using. Here the
tie-break matters: `Crossed` and `AnsweredBehind` are stages of daemon 2 alone.

**ConnectionsProofs**, from `ConnectionsAssumption`: `OneActiveCorrect`,
`PendingExactCorrect` and `ConnTypeCorrect`, for any finite set of streams, any
number of addresses, pending places, faults and SIGALRMs. The invariant says of each
daemon that a connection is in one stage, that `pending` counts the accepted
connections which are still open, and that the node points at the active one
(`Good`). Between the daemons it needs `Held`: a stream that is still being
connected is known to nobody else, and one in the backlog only to the end that
dialled it; otherwise a daemon might accept what it already holds and count it twice.
That the two ends settle on the same connection is `Settles`, which stays with TLC.

**PmtuProofs**, from `PmtuAssumption` (0 < MIN_PROBE_SIZE < MINMTU < MTU):
`PmtuTypeCorrect`, `UsableOrNothingCorrect`, `NeverTooLargeCorrect`, for any sizes, any
number of probes and upsets. The invariant follows a size through the system: a
request is within what can be sent, and no reply, meta ack or `rxMax` is above what
got through (`Reach`, the path until the first upset), so nothing learned from them
is. `UsableOrNothing` is part of it, since a size below MINMTU would otherwise be
locked when the probes run out. That probes are never smaller than MIN_PROBE_SIZE
rests on the clamp in `send_udp_probe`, not on `tick`, which may ask for less.

**InvitationsProofs**, from `InvitationsAssumption`: `SingleUseCorrect`,
`VouchedCorrect`, `OutstandingUsableCorrect`, for any number of invitations, names
and joiners, crashes included. The invariant describes each conversation by the
record on its way (`Talk`): what it says of the phases of the joiner and of the daemon,
if it was not restarted since, that both mean the same name, and, for an accepted
joiner, that the host file is already written.
`SingleUse` needs that whatever was served is gone from the disk (`ServedGone`).

**SubnetsProofs**, without any assumption on the constants: `MacTableBackedCorrect`,
for any mesh and any number of stations, moves, cuts, reloads and purges.
`MacTableBacked` is inductive once the two tables have their types (`TableInv`),
whatever the lines in flight say. Each step is one of a few (`TableAdd`, `TableDrop`): a claim is added and
the table points to it, or claims go and so do the entries that pointed to them.
Where a claim goes while another owner's claim to the same address stays, the entry
is cleared rather than moved, which keeps the table backed and makes the frame be
flooded.

Only model-checked:

* liveness, which needs fairness: `Completes`, `FloodEnds`, `Establishes`, `Settles`,
  `Converges`, `StaleClaimsGo`, `StationsFound`, and the fairness of `SecureStream`
  in `ImplementsSecureStream`;
* `Converged`. It holds of `gossip_calm`'s three daemons and is not a theorem of every
  mesh: four daemons suffice for two of them to keep different attributes of an edge
  (see *Observed, not run*). No violation about the presence of an edge was found
  under `mesh` spacing;
* `PartNextHopsArrive`: `routes_loop` refutes `NextHopsArrive` of five daemons, so it
  is a statement about the smaller instance;
* `PartTreeSpans`: it needs one induction over the restarts of `mst` and one over the
  search that says what is reachable, both of which `Routes` states with recursive
  operators that the prover does not take.

## 5. Plan

Every invariant that can hold of all instances has its theorem, except `TreeSpans`.
What is left to model is `Gossip` and `Connections` together: replacing a connection
broadcasts a DEL_EDGE and an ADD_EDGE that third daemons may have cached. What is
left to prove is `TreeSpans`, after `Kruskal` and `Search` have been restated as
recursive functions; `LeastOf` in `GossipProofs` shows how such an induction is made.

## 6. Not modelled

* UDP address choice and hole punching: random choices among hints, each of which
  costs a probe when wrong. The other parts see only whether UDP works, which `Pmtu`
  lets change at will.
* Autoconnect: a randomised policy; that it settles is true with probability one,
  which fairness cannot express.
* Address cache, resolver and script workers: one queue and one thread each.
* IP routing: a lookup and work on bytes for every packet, without state.
* Configuration, control socket, command line and wire formats: parsing and
  formatting, pure and well tested.
* Devices, sockets, segmentation offload, port mapping, discovery: input and output
  without protocol state of their own.
* The cryptographic primitives (symbolic here) and the C interface (a test harness).
