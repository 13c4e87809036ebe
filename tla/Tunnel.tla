------------------------------- MODULE Tunnel -------------------------------
(* Per-tunnel keys: two daemons that agree on SPTPS sessions over REQ_KEY  *)
(* and ANS_KEY (daemon/gossip/keys.rs), keep the previous session for      *)
(* stragglers (tunnel.rs), restart stuck handshakes (tx_control.rs,        *)
(* periodic.rs) and hand the keys to data-plane workers (shard/).          *)
(*                                                                         *)
(* A session key is the set of the two KEXes it was derived from; module   *)
(* Sptps shows that the two ends of one session derive the same key.       *)
(* Time is counted in units of REQ_KEY_RETRY (10 s).                       *)
EXTENDS Naturals, Sequences, FiniteSets

CONSTANTS
    None,
    PingInterval, KeyLifetime,   \* in time units
    MaxFaults,   \* how often a key expires, a meta message is lost on the way, a
                 \* daemon loses sight of its peer, or a message takes a time unit
    MaxMeta,     \* messages on the way when a daemon starts a session by itself
    MaxUdp       \* data datagrams on the way

ASSUME TunnelAssumption ==
    /\ PingInterval \in Nat \ {0} /\ KeyLifetime \in Nat \ {0}
    /\ {MaxFaults, MaxMeta, MaxUdp} \subseteq Nat
    /\ None \notin Nat
    /\ None \notin [role : {"I", "R"}, mine : Nat, his : Nat \cup {None},
                   inseqno : 0 .. 2, up : BOOLEAN]

VARIABLES
    tun,     \* dp.tunnels[peer] of each daemon, with its published handles
    snap,    \* the key in the snapshot a worker of each daemon holds
    reach,   \* the peer is reachable in each daemon's graph
    meta,    \* REQ_KEY and ANS_KEY on the way to each daemon
    udp,     \* keys of the data datagrams on the way to each daemon
    faults   \* how often each of the bounded events has happened

vars == <<tun, snap, reach, meta, udp, faults>>

Daemon == {1, 2}   \* ordered as their names are
Peer(d) == 3 - d
Retry == 1         \* REQ_KEY_RETRY, and the 10 s of maybe_restart_stuck_tunnel
AgeCap == 2 * PingInterval + 1
Never == AgeCap + 1 \* last_req_key = None

KeyOf(s) == {s.mine, s.his}

(* Sptps::start_with: KEX sent with number 0, waiting for the peer's. *)
Session(role, kex) == [role |-> role, mine |-> kex, his |-> None, inseqno |-> 0, up |-> FALSE]

Kex(req, s) == [req |-> req, seqno |-> 0, kex |-> {s.mine}]
Sig(s) == [req |-> "ANS_KEY", seqno |-> 1, kex |-> KeyOf(s)]

(* A KEX nobody holds any more may be drawn again: only equality counts.   *)
HeldKex(d) ==
    LET kept(s) == IF s = None THEN {} ELSE KeyOf(s)
        key(k) == IF k = None THEN {} ELSE k
    IN  UNION ({kept(tun[d].cur), kept(tun[d].prev), key(tun[d].handles), key(snap[d])}
               \cup udp[d] \cup {meta[d][i].kex : i \in DOMAIN meta[d]})

UsedKex == HeldKex(1) \cup HeldKex(2)

NewKex ==
    CHOOSE k \in 1 .. Cardinality(UsedKex) + 1 :
        k \notin UsedKex /\ \A j \in 1 .. k - 1 : j \in UsedKex

Budget == faults.rekey + faults.loss + faults.reset + faults.late < MaxFaults

NoTunnel == [cur |-> None, prev |-> None, valid |-> FALSE, waiting |-> FALSE,
             reqage |-> Never, prevage |-> 0, handles |-> None]

Init ==
    /\ tun = [d \in Daemon |-> NoTunnel]
    /\ snap = [d \in Daemon |-> None]
    /\ reach = [d \in Daemon |-> TRUE]
    /\ meta = [d \in Daemon |-> <<>>]
    /\ udp = [d \in Daemon |-> {}]
    /\ faults = [rekey |-> 0, loss |-> 0, reset |-> 0, late |-> 0]

-----------------------------------------------------------------------------
(* Starting a session. *)

(* Mutant: the session that is replaced is thrown away. *)
SalvageNothing(t) == t

(* Only a session that can decrypt is kept for stragglers. *)
Salvage(t) ==
    IF t.cur # None /\ t.cur.up THEN [t EXCEPT !.prev = t.cur, !.prevage = 0] ELSE t

(* Mutant: the new session inherits validkey. *)
RestartStillValid(t, s) ==
    [Salvage(t) EXCEPT !.cur = s, !.waiting = TRUE, !.reqage = 0]

Restart(t, s) ==
    [Salvage(t) EXCEPT !.cur = s, !.valid = FALSE, !.waiting = TRUE, !.reqage = 0]

(* conn_for_nexthop finds no connection toward an unreachable node. *)
Send(d, queue, msgs) ==
    IF reach[d] THEN [queue EXCEPT ![Peer(d)] = @ \o msgs] ELSE queue

Room == Len(meta[1]) + Len(meta[2]) < MaxMeta

(* send_req_key from tunnel state t, the queues being q. *)
SendReqKey(d, t, q) ==
    LET s == Session("I", NewKex) IN
    /\ tun' = [tun EXCEPT ![d] = Restart(t, s)]
    /\ meta' = Send(d, q, <<Kex("REQ_KEY", s)>>)

(* Mutant: no patience with a handshake under way. *)
StuckAnytime(t) == ~t.valid

Stuck(t) == ~t.valid /\ t.reqage >= Retry

(* maybe_restart_stuck_tunnel *)
MaybeRestart(d, q) ==
    \/ Stuck(tun[d]) /\ SendReqKey(d, tun[d], q)
    \/ ~Stuck(tun[d]) /\ meta' = q /\ UNCHANGED tun

-----------------------------------------------------------------------------
(* Meta messages. *)

(* Mutant: neither gives way. *)
KeepsInitiatorBoth(d) == LET t == tun[d] IN t.cur # None /\ ~t.valid /\ t.cur.role = "I"

(* Crossed REQ_KEYs: the greater name keeps its role. *)
KeepsInitiator(d) ==
    LET t == tun[d] IN
    t.cur # None /\ ~t.valid /\ t.cur.role = "I" /\ d > Peer(d)

(* on_req_key, the SPTPS-init request: become the responder. *)
OnReqKey(d) ==
    LET m == Head(meta[d])
        q == [meta EXCEPT ![d] = Tail(@)]
        s == [Session("R", NewKex) EXCEPT !.his = CHOOSE k \in m.kex : TRUE, !.inseqno = 1]
    IN
    /\ meta[d] # <<>> /\ m.req = "REQ_KEY"
    /\ \/ /\ ~reach[d] \/ KeepsInitiator(d)
          /\ meta' = q /\ UNCHANGED tun
       \/ /\ reach[d] /\ ~KeepsInitiator(d)
          /\ tun' = [tun EXCEPT ![d] = Restart(tun[d], s)]
          /\ meta' = Send(d, q, <<Kex("ANS_KEY", s)>>)
    /\ UNCHANGED <<snap, reach, udp, faults>>

(* Sptps::receive of a handshake record in the plaintext phase: the number *)
(* must be the next one, and is spent even when the signature is bad.      *)
InOrder(s, m) == ~s.up /\ m.seqno = s.inseqno

SigOk(s, m) == m.seqno = 1 /\ m.kex = KeyOf(s)

Received(s, m) ==
    [s EXCEPT !.inseqno = @ + 1,
              !.his = IF m.seqno = 0 THEN CHOOSE k \in m.kex : TRUE ELSE @,
              !.up = SigOk(s, m)]

(* The initiator signs on the KEX, the responder on a good SIG. *)
Answers(s, m) ==
    IF (s.role = "I" /\ m.seqno = 0) \/ (s.role = "R" /\ SigOk(s, m))
    THEN <<Sig(Received(s, m))>> ELSE <<>>

(* dispatch_tunnel_outputs: HandshakeDone also publishes fresh handles and *)
(* leaves the previous session alone.                                      *)
Dispatch(t, s) ==
    IF s.up THEN [t EXCEPT !.cur = s, !.valid = TRUE, !.waiting = FALSE, !.handles = KeyOf(s)]
    ELSE [t EXCEPT !.cur = s]

OnAnsKey(d) ==
    LET m == Head(meta[d])
        q == [meta EXCEPT ![d] = Tail(@)]
        s == tun[d].cur
    IN
    /\ meta[d] # <<>> /\ m.req = "ANS_KEY"
    /\ \/ s = None /\ SendReqKey(d, tun[d], q)
       \/ s # None /\ ~InOrder(s, m) /\ MaybeRestart(d, q)
       \/ /\ s # None /\ InOrder(s, m) /\ m.seqno = 1 /\ ~SigOk(s, m)
          /\ LET t == [tun[d] EXCEPT !.cur = Received(s, m)] IN
             \/ Stuck(t) /\ SendReqKey(d, t, q)
             \/ ~Stuck(t) /\ tun' = [tun EXCEPT ![d] = t] /\ meta' = q
       \/ /\ s # None /\ InOrder(s, m) /\ (m.seqno = 0 \/ SigOk(s, m))
          /\ tun' = [tun EXCEPT ![d] = Dispatch(@, Received(s, m))]
          /\ meta' = Send(d, q, Answers(s, m))
    /\ UNCHANGED <<snap, reach, udp, faults>>

(* A daemon between the two drops the message instead of relaying it. *)
MetaLose(d) ==
    /\ meta[d] # <<>> /\ Budget
    /\ meta' = [meta EXCEPT ![d] = Tail(@)]
    /\ faults' = [faults EXCEPT !.loss = @ + 1]
    /\ UNCHANGED <<tun, snap, reach, udp>>

-----------------------------------------------------------------------------
(* Data. *)

Fly(d, key) ==
    /\ Cardinality(udp[d]) + Cardinality(udp[Peer(d)] \cup {key}) <= MaxUdp
    /\ udp' = [udp EXCEPT ![Peer(d)] = @ \cup {key}]

(* send_sptps_packet, then try_tx: the first REQ_KEY, the retry after 10 s *)
(* (which forgets the stalled session first), or a datagram.               *)
SendPacket(d) ==
    LET t == tun[d] IN
    /\ reach[d]
    /\ \/ t.valid /\ Fly(d, KeyOf(t.cur)) /\ UNCHANGED <<tun, meta>>
       \/ ~t.valid /\ ~t.waiting /\ Room /\ SendReqKey(d, t, meta) /\ UNCHANGED udp
       \/ /\ ~t.valid /\ t.waiting /\ t.reqage >= Retry /\ Room
          /\ SendReqKey(d, [t EXCEPT !.cur = None], meta) /\ UNCHANGED udp
    /\ UNCHANGED <<snap, reach, faults>>

Opens(d, key) ==
    \/ tun[d].cur # None /\ tun[d].cur.up /\ KeyOf(tun[d].cur) = key
    \/ tun[d].prev # None /\ KeyOf(tun[d].prev) = key

(* handle_incoming_vpn_packet: the current session, then the previous one; *)
(* the plaintext phase refuses a data record's number.                     *)
RxUdp(d, key) ==
    LET t == tun[d] IN
    /\ key \in udp[d] /\ Room
    /\ udp' = [udp EXCEPT ![d] = @ \ {key}]
    /\ \/ t.cur = None /\ ~t.waiting /\ SendReqKey(d, t, meta)
       \/ t.cur = None /\ t.waiting /\ UNCHANGED <<tun, meta>>
       \/ t.cur # None /\ Opens(d, key) /\ UNCHANGED <<tun, meta>>
       \/ t.cur # None /\ ~Opens(d, key) /\ MaybeRestart(d, meta)
    /\ UNCHANGED <<snap, reach, faults>>

UdpLose(d, key) ==
    /\ key \in udp[d]
    /\ udp' = [udp EXCEPT ![d] = @ \ {key}]
    /\ UNCHANGED <<tun, snap, reach, meta, faults>>

(* tx_probe and seal in a worker: it trusts the handles it holds. *)
FastTx(d) ==
    /\ snap[d] # None /\ Fly(d, snap[d])
    /\ UNCHANGED <<tun, snap, reach, meta, faults>>

(* load_if_newer *)
Load(d) ==
    /\ snap[d] # tun[d].handles
    /\ snap' = [snap EXCEPT ![d] = tun[d].handles]
    /\ UNCHANGED <<tun, reach, meta, udp, faults>>

-----------------------------------------------------------------------------
(* Time, key expiry, reachability. *)

(* on_keyexpire *)
KeyExpire(d) ==
    /\ tun[d].valid /\ Budget /\ Room
    /\ SendReqKey(d, tun[d], meta)
    /\ faults' = [faults EXCEPT !.rekey = @ + 1]
    /\ UNCHANGED <<snap, reach, udp>>

Older(t) ==
    [t EXCEPT !.reqage = IF @ >= AgeCap THEN @ ELSE @ + 1,
              !.prevage = IF t.prev = None THEN 0 ELSE @ + 1]

(* periodic_rekey_due *)
RekeyDue(t, worn) ==
    \/ t.valid /\ ~t.waiting /\ worn
    \/ t.waiting /\ t.reqage # Never /\ t.reqage > PingInterval

(* Mutant: no backstop for a handshake that stalls. *)
ShouldReapHealthy(t) == t.valid /\ t.reqage > 2 * PingInterval

(* should_reap_prev_sptps *)
ShouldReap(t) ==
    \/ t.valid /\ t.reqage > 2 * PingInterval
    \/ t.prevage > KeyLifetime

Reap(t) == IF t.prev # None /\ ShouldReap(t) THEN [t EXCEPT !.prev = None, !.prevage = 0] ELSE t

(* A time unit ends at d: on_tunnel_housekeeping_tick, restarts first,     *)
(* then the reaping. worn: the seal counter passed SEAL_REKEY_THRESHOLD.   *)
Tick(d) ==
    LET t == Older(tun[d])
        s == Session("I", NewKex)
        late == \E p \in Daemon : meta[p] # <<>> \/ snap[p] # tun[p].handles
    IN
    /\ late => Budget
    /\ udp' = IF late THEN udp ELSE [p \in Daemon |-> {}]
    /\ \E worn \in {b \in BOOLEAN : b => t.valid /\ Budget /\ ~late} :
          /\ faults' = [faults EXCEPT !.rekey = IF worn THEN @ + 1 ELSE @,
                                      !.late = IF late THEN @ + 1 ELSE @]
          /\ \/ /\ RekeyDue(t, worn) /\ Room
                /\ tun' = [tun EXCEPT ![d] = Reap(Restart(t, s))]
                /\ meta' = Send(d, meta, <<Kex("REQ_KEY", s)>>)
             \/ /\ ~RekeyDue(t, worn)
                /\ tun' = [tun EXCEPT ![d] = Reap(t)]
                /\ UNCHANGED meta
    /\ UNCHANGED <<snap, reach>>

(* run_graph_and_log: reset_unreachable, and the handles are withdrawn.    *)
(* A restart of the daemon leaves it in the same state.                    *)
BecameUnreachable(d) ==
    /\ reach[d] /\ Budget
    /\ reach' = [reach EXCEPT ![d] = FALSE]
    /\ tun' = [tun EXCEPT ![d] = NoTunnel]
    /\ faults' = [faults EXCEPT !.reset = @ + 1]
    /\ UNCHANGED <<snap, meta, udp>>

BecameReachable(d) ==
    /\ ~reach[d]
    /\ reach' = [reach EXCEPT ![d] = TRUE]
    /\ UNCHANGED <<tun, snap, meta, udp, faults>>

Next ==
    \E d \in Daemon :
        \/ OnReqKey(d) \/ OnAnsKey(d) \/ MetaLose(d)
        \/ SendPacket(d) \/ FastTx(d) \/ Load(d)
        \/ \E key \in udp[d] : RxUdp(d, key) \/ UdpLose(d, key)
        \/ KeyExpire(d) \/ Tick(d)
        \/ BecameUnreachable(d) \/ BecameReachable(d)

(* The event loop serves its sockets and timers, packets for the peer keep *)
(* coming, workers reload, and a peer that stays configured comes back.    *)
Fairness ==
    \A d \in Daemon :
        /\ WF_vars(OnReqKey(d)) /\ WF_vars(OnAnsKey(d))
        /\ WF_vars(SendPacket(d)) /\ SF_vars(Tick(d)) /\ WF_vars(Load(d))
        /\ WF_vars(\E key \in udp[d] : RxUdp(d, key))
        /\ WF_vars(BecameReachable(d))

Spec == Init /\ [][Next]_vars /\ Fairness

-----------------------------------------------------------------------------
(* Properties. *)

KeyIds == Nat \ {0}

SessionOK(s) ==
    /\ s.role \in {"I", "R"} /\ s.mine \in KeyIds /\ s.his \in KeyIds \cup {None}
    /\ s.inseqno \in 0 .. 2 /\ s.up \in BOOLEAN

(* Every piece of state has its type, and the flags of a tunnel fit its    *)
(* session: validkey means a finished session (send_sptps_packet's         *)
(* "shouldn't happen"), waitingforkey an unfinished one.                   *)
TypeOK ==
    /\ \A d \in Daemon :
        LET t == tun[d] IN
        /\ t.cur # None => SessionOK(t.cur)
        /\ t.prev # None => SessionOK(t.prev) /\ t.prev.up
        /\ t.valid <=> (t.cur # None /\ t.cur.up)
        /\ t.waiting <=> (t.cur # None /\ ~t.cur.up)
        /\ t.reqage \in 0 .. Never
        /\ reach[d] \in BOOLEAN
    /\ Cardinality(udp[1]) + Cardinality(udp[2]) <= MaxUdp
    /\ faults.rekey + faults.loss + faults.reset + faults.late <= MaxFaults

(* Whatever is restarted, lost, late or crossed: two daemons that both     *)
(* hold a valid key hold the same one, as initiator and responder.         *)
KeyAgreement ==
    tun[1].valid /\ tun[2].valid =>
        /\ KeyOf(tun[1].cur) = KeyOf(tun[2].cur)
        /\ tun[1].cur.role # tun[2].cur.role

(* Forward secrecy: a salvaged session is gone a KeyExpire after it was    *)
(* replaced, even when the handshakes that should replace it keep failing. *)
PrevDies == \A d \in Daemon : tun[d].prevage <= KeyLifetime

(* One rekey, nothing lost: a datagram on its way is sealed under a key    *)
(* its receiver can open, or is about to finish agreeing on.               *)
StragglersOpen ==
    (faults.rekey <= 1 /\ faults.loss = 0 /\ faults.reset = 0 /\ faults.late = 0) =>
        \A d \in Daemon : \A key \in udp[d] :
            Opens(d, key) \/ (tun[d].cur # None /\ KeyOf(tun[d].cur) = key)

(* A handshake is given 10 seconds: until then only the peer's REQ_KEY or  *)
(* the loss of the peer ends it. And nothing that arrives from the peer    *)
(* but a REQ_KEY ends a session that is delivering.                        *)
Patience ==
    [][\A d \in Daemon :
         (/\ tun[d].cur # None /\ tun'[d].cur # None
          /\ tun'[d].cur.mine # tun[d].cur.mine /\ tun'[d].cur.role = "I")
         => \/ ~tun[d].valid /\ tun[d].reqage >= Retry
            \/ tun[d].valid /\ faults'.rekey > faults.rekey]_vars

(* Once keys stop expiring, messages stop being lost and the peers stay in *)
(* sight, the tunnel comes up and stays up, although both may have started *)
(* it at once and again and again.                                         *)
Establishes == <>[](tun[1].valid /\ tun[2].valid)

(* TunnelHandles.validkey, as documented: false once control starts a      *)
(* rekey, so that a worker seals at most the odd packet under the old key. *)
WorkersStop == \A d \in Daemon : tun[d].waiting /\ tun[d].reqage >= Retry => tun[d].handles = None
=============================================================================
