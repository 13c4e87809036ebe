-------------------------------- MODULE Pmtu --------------------------------
(* Path MTU discovery towards one peer: the state machine of pmtu.rs, its  *)
(* driver try_tx / try_udp (daemon/tx_control.rs), the kernel's EMSGSIZE,  *)
(* the UDP path with the peer that answers probes over UDP and over the    *)
(* meta connection, and the size published to the data-plane workers.      *)
(*                                                                         *)
(* Sizes are scaled down. Intervals are abstracted: whenever a timer could *)
(* be due it may be, but a tick with an answer still on its way, like any  *)
(* loss, failure or change of the path, is counted against MaxUpsets.      *)
EXTENDS Integers, FiniteSets, FiniteSetsExt

CONSTANTS
    MTU, MINMTU, MIN_PROBE_SIZE,
    MaxProbes,     \* probes of a discovery (20)
    Cycle,         \* PROBES_PER_CYCLE
    MaxUpsets      \* bound: losses, failures, delays and changes of the path

ASSUME PmtuAssumption ==
    /\ {MTU, MINMTU, MIN_PROBE_SIZE, MaxProbes, Cycle, MaxUpsets} \subseteq Nat
    /\ 0 < MIN_PROBE_SIZE /\ MIN_PROBE_SIZE < MINMTU /\ MINMTU < MTU
    /\ 0 < MaxProbes /\ 0 < Cycle

VARIABLES
    pm,         \* PmtuState; its instants are abstracted
    published,  \* minmtu of the TunnelHandles
    path,       \* the largest datagram that gets through
    link,       \* the largest the kernel accepts
    filtered,   \* UDP from the peer does not arrive: only meta acks come back
    requests, replies, rxMax, acks,   \* on the way, and the peer's udp_rx_maxlen
    upsets

pmtuVars == <<pm, published, path, link, filtered, requests, replies, rxMax, acks, upsets>>
pmtuNet == <<path, link, filtered, requests, replies, rxMax, acks>>

Size == 0 .. MTU

(* PmtuPhase by the `mtuprobes` it stands for; Discovery{sent} is sent.    *)
Fix == MaxProbes
Steady == -1
Lost == -4
Fixed(s) == s.phase < 0

(* PmtuState::new, made on the first try_tx. *)
PmtuInit ==
    /\ pm = [mtu |-> 0, minmtu |-> 0, maxmtu |-> MTU, phase |-> 0,
             confirmed |-> FALSE, ping |-> FALSE]
    /\ published = 0
    /\ path \in MIN_PROBE_SIZE .. MTU /\ link \in {path, MTU} /\ filtered \in BOOLEAN
    /\ requests = {} /\ replies = {} /\ rxMax = 0 /\ acks = {}
    /\ upsets = 0

-----------------------------------------------------------------------------
(* pmtu.rs *)

TryFix(s) ==
    LET min == IF s.minmtu <= s.maxmtu THEN s.minmtu
               ELSE IF s.maxmtu >= MINMTU THEN s.maxmtu ELSE 0
    IN IF Fixed(s) \/ (s.phase # Fix /\ s.minmtu < s.maxmtu) THEN s
       ELSE [s EXCEPT !.minmtu = min, !.maxmtu = min, !.mtu = min, !.phase = Steady]

(* probe_size. The power of the interval is abstracted to any offset it    *)
(* can give; the first of a cycle is the whole interval once maxmtu is     *)
(* known better than MTU, the last is always 1.                            *)
ProbeSize(s) ==
    LET eff == Max({s.minmtu, MINMTU})
        interval == Max({s.maxmtu - eff, 0})
        place == s.phase % Cycle
    IN IF interval = 0 THEN {eff}
       ELSE IF place = Cycle - 1 THEN {eff + 1}
       ELSE IF place = 0 /\ s.maxmtu # MTU THEN {eff + interval}
       ELSE eff + 1 .. eff + interval

(* Mutant: the miss is not counted. *)
OnCountedProbeSentNot(s) == s

OnCountedProbeSent(s) ==
    IF s.phase \in {-1, -2, -3} THEN [s EXCEPT !.phase = @ - 1] ELSE s

(* Mutant: the cap is stored without asking whether it lowers. *)
OnEmsgsizeSets(s, len) ==
    LET cap == Max({len - 1, MINMTU}) IN
    TryFix([s EXCEPT !.maxmtu = cap, !.mtu = cap])

OnEmsgsize(s, len) ==
    LET cap == Max({len - 1, MINMTU}) IN
    TryFix([s EXCEPT !.maxmtu = Min({@, cap}), !.mtu = Min({@, cap})])

(* Mutant: a keepalive's length feeds the convergence (issue #21). *)
RaisesTiny(s, len) == len > s.minmtu

Raises(s, len) == len >= MINMTU /\ len > s.minmtu

OnProbeReply(s, len) ==
    LET heard == [s EXCEPT !.ping = FALSE, !.confirmed = TRUE]
        steady == IF Fixed(s) /\ len = s.maxmtu THEN [heard EXCEPT !.phase = Steady] ELSE heard
    IN IF len > s.maxmtu
       THEN [heard EXCEPT !.minmtu = IF Raises([s EXCEPT !.minmtu = 0], len) THEN len ELSE 0,
                          !.maxmtu = MTU, !.phase = 1]
       ELSE IF Raises(s, len) THEN TryFix([steady EXCEPT !.minmtu = len])
       ELSE steady

OnMetaAck(s, len) ==
    LET steady == IF Fixed(s) /\ len >= s.maxmtu THEN [s EXCEPT !.phase = Steady] ELSE s
    IN IF ~s.ping THEN steady
       ELSE [steady EXCEPT !.confirmed = TRUE, !.maxmtu = Max({@, len}),
                           !.minmtu = IF Raises(s, len) THEN len ELSE @]

OnUdpTimeout(s) ==
    [s EXCEPT !.confirmed = FALSE, !.ping = FALSE, !.phase = 0, !.minmtu = 0, !.maxmtu = MTU]

-----------------------------------------------------------------------------
(* Mutant: the length is taken as asked for. *)
ProbeLenAsked(len) == len

(* send_udp_probe: the increase detector asks for less after a discovery   *)
(* that found nothing.                                                     *)
ProbeLen(len) == Max({len, MIN_PROBE_SIZE})

(* What a step of try_tx works on: the state, the requests on their way    *)
(* and whether the last submission was accepted.                           *)
Submit(w, asked, fails) ==
    LET len == ProbeLen(asked) IN
    IF len > link THEN [w EXCEPT !.s = OnEmsgsize(@, len), !.sent = FALSE]
    ELSE IF fails THEN [w EXCEPT !.sent = FALSE]
    ELSE [w EXCEPT !.requests = @ \cup {len}, !.sent = TRUE]

SubmitCounted(w, len, fails) ==
    LET x == Submit(w, len, fails) IN
    IF x.sent THEN [x EXCEPT !.s = OnCountedProbeSent(@)] ELSE x

(* try_udp's probe: on_udp_probe_attempt. *)
Keepalive(w, fails) ==
    LET x == Submit(w, MIN_PROBE_SIZE, fails) IN
    IF x.sent THEN [x EXCEPT !.s.ping = TRUE] ELSE x

(* The size that is held. *)
Top(s) == Max({s.maxmtu, MIN_PROBE_SIZE})

(* tick, with its probes sent. *)
Tick(w, fails) ==
    LET a == TryFix(w.s)
        s == IF a.phase = Lost THEN [a EXCEPT !.phase = 0, !.minmtu = 0] ELSE a
        x == [w EXCEPT !.s = s]
    IN IF s.phase >= 0
       THEN {Submit([x EXCEPT !.s.phase = @ + 1], len, fails) : len \in ProbeSize(s)}
       ELSE LET y == SubmitCounted(x, Top(s), fails) IN
            {IF s.phase = Steady /\ s.maxmtu + 1 < MTU THEN Submit(y, s.maxmtu + 1, fails) ELSE y}

Quiet == requests \cup replies \cup acks = {} /\ rxMax = 0

(* try_tx with mtu = true: the UDP timeout (an outstanding probe or a cold *)
(* path), the keepalive probe, the seed of maxmtu and the tick.            *)
TryTx(timeout, keepalive, tick, fails) ==
    LET s0 == IF timeout THEN OnUdpTimeout(pm) ELSE pm
        w0 == [s |-> s0, requests |-> requests, sent |-> FALSE]
        w1 == IF keepalive THEN Keepalive(w0, fails) ELSE w0
    IN
    /\ timeout => pm.confirmed
    /\ ~pm.confirmed => keepalive
    /\ \E seed \in {MTU, link} :
         LET w2 == IF w1.s.phase = 0 THEN [w1 EXCEPT !.s.maxmtu = seed] ELSE w1 IN
         \E w \in IF w2.s.confirmed /\ tick THEN Tick(w2, fails) ELSE {w2} :
            pm' = w.s /\ requests' = w.requests
    /\ published' = IF timeout THEN 0 ELSE published
    /\ UNCHANGED <<path, link, filtered, replies, rxMax, acks>>

CalmTx(keepalive) ==
    /\ Quiet
    /\ TryTx(FALSE, keepalive, TRUE, FALSE)
    /\ UNCHANGED upsets

UpsetTx ==
    /\ upsets < MaxUpsets /\ upsets' = upsets + 1
    /\ \E timeout, keepalive, tick, fails \in BOOLEAN : TryTx(timeout, keepalive, tick, fails)

(* The peer's udp_probe_h: answer, and remember the length. *)
PeerProbed(len) ==
    /\ len \in requests /\ len <= path
    /\ requests' = requests \ {len}
    /\ replies' = IF filtered THEN replies ELSE replies \cup {len}
    /\ rxMax' = Max({rxMax, len})
    /\ UNCHANGED <<pm, published, path, link, filtered, acks, upsets>>

(* The peer's send_udp_rx_ack, from its own try_udp. *)
PeerAcks ==
    /\ rxMax > 0
    /\ acks' = acks \cup {rxMax} /\ rxMax' = 0
    /\ UNCHANGED <<pm, published, path, link, filtered, requests, replies, upsets>>

TooLarge(len) ==
    /\ len \in requests /\ len > path
    /\ requests' = requests \ {len}
    /\ UNCHANGED <<pm, published, path, link, filtered, replies, rxMax, acks, upsets>>

LostOnTheWay ==
    /\ upsets < MaxUpsets /\ upsets' = upsets + 1
    /\ \/ \E len \in requests : requests' = requests \ {len} /\ UNCHANGED replies
       \/ \E len \in replies : replies' = replies \ {len} /\ UNCHANGED requests
    /\ UNCHANGED <<pm, published, path, link, filtered, rxMax, acks>>

(* udp_probe_h, a reply. *)
ProbeReply(len) ==
    /\ len \in replies
    /\ replies' = replies \ {len}
    /\ pm' = OnProbeReply(pm, len) /\ published' = pm'.minmtu
    /\ UNCHANGED <<path, link, filtered, requests, rxMax, acks, upsets>>

(* apply_meta_udp_confirm *)
MetaAck(len) ==
    /\ len \in acks
    /\ acks' = acks \ {len}
    /\ pm' = OnMetaAck(pm, len)
    /\ published' = IF pm.ping THEN pm'.minmtu ELSE published
    /\ UNCHANGED <<path, link, filtered, requests, replies, rxMax, upsets>>

(* The control thread sends data of this size and the kernel refuses it:   *)
(* handle_udp_emsgsize. A worker only drops what is refused.               *)
SendRefused(len) ==
    /\ len \in MINMTU .. published /\ len > link
    /\ pm' = OnEmsgsize(pm, len)
    /\ UNCHANGED <<published, pmtuNet, upsets>>

(* handle_udp_unreachable *)
SendUnreachable ==
    /\ upsets < MaxUpsets /\ upsets' = upsets + 1
    /\ pm.confirmed /\ pm' = [pm EXCEPT !.confirmed = FALSE]
    /\ UNCHANGED <<published, pmtuNet>>

(* BecameUnreachable: reset_unreachable, and the handles are dropped. *)
ResetUnreachable ==
    /\ upsets < MaxUpsets /\ upsets' = upsets + 1
    /\ pm' = [OnUdpTimeout(pm) EXCEPT !.mtu = pm.mtu]
    /\ published' = 0
    /\ UNCHANGED pmtuNet

PathChanges ==
    /\ upsets < MaxUpsets /\ upsets' = upsets + 1
    /\ path' \in MIN_PROBE_SIZE .. MTU /\ link' \in {path', MTU}
    /\ UNCHANGED <<pm, published, filtered, requests, replies, rxMax, acks>>

PmtuNext ==
    \/ \E k \in BOOLEAN : CalmTx(k)
    \/ UpsetTx
    \/ \E len \in Size :
          \/ PeerProbed(len) \/ TooLarge(len) \/ ProbeReply(len) \/ MetaAck(len)
          \/ SendRefused(len)
    \/ PeerAcks
    \/ LostOnTheWay \/ SendUnreachable \/ ResetUnreachable \/ PathChanges

(* Traffic keeps calling try_tx on both sides, keepalives fall due, and    *)
(* the network delivers.                                                   *)
PmtuFairness ==
    /\ WF_pmtuVars(CalmTx(FALSE)) /\ SF_pmtuVars(CalmTx(TRUE)) /\ WF_pmtuVars(PeerAcks)
    /\ \A len \in Size :
          /\ WF_pmtuVars(PeerProbed(len)) /\ WF_pmtuVars(TooLarge(len))
          /\ WF_pmtuVars(ProbeReply(len)) /\ WF_pmtuVars(MetaAck(len))

PmtuSpec == PmtuInit /\ [][PmtuNext]_pmtuVars /\ PmtuFairness

-----------------------------------------------------------------------------
(* The bounds are sizes, and every probe on its way is one the formula may *)
(* give: never below MIN_PROBE_SIZE, never above MTU.                      *)
PmtuTypeOK ==
    /\ {pm.mtu, pm.minmtu, pm.maxmtu, published} \subseteq Size
    /\ pm.phase \in Lost .. Fix
    /\ requests \cup replies \cup acks \subseteq MIN_PROBE_SIZE .. MTU
    /\ upsets \in 0 .. MaxUpsets

(* A dead path never converges at a tiny "usable" value: what is locked or *)
(* published is nothing or at least MINMTU (the invariant pmtu.rs states   *)
(* of minmtu).                                                             *)
UsableOrNothing == \A m \in {pm.mtu, pm.minmtu, published} : m = 0 \/ m \in MINMTU .. MTU

(* As long as nothing upset the path, nothing larger than what it carries  *)
(* is ever locked or published, whatever mixture of replies, acks and      *)
(* refusals arrived.                                                       *)
NeverTooLarge == upsets = 0 => pm.mtu <= path /\ pm.minmtu <= path /\ published <= path

(* After any number of upsets the path comes to be used to the full and    *)
(* stays so: no frame that does not fit is taken for one that does, the    *)
(* size that is probed and held is that of the path, and what is sent over *)
(* UDP reaches it. Three edges of the code are part of it: a refusal caps  *)
(* at MINMTU, discovery asks for MINMTU + 1 at least, and the increase     *)
(* detector never for MTU.                                                 *)
PathMtu == IF path = MTU THEN {MTU - 1, MTU} ELSE {path}
FullUse ==
    /\ pm.mtu <= Max({path, MINMTU})
    /\ path > MINMTU => pm.maxmtu \in PathMtu /\ pm.minmtu >= pm.maxmtu
Converges == <>[]FullUse
=============================================================================
