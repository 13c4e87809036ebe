---------------------------- MODULE Connections ----------------------------
(* Meta connections between two daemons: the ConnectTo slots and their     *)
(* retry timers, dialling and accepting, activation by ACK with the choice *)
(* between duplicates, teardown and redial (daemon/connect.rs, with        *)
(* net/rx.rs for accepts and periodic.rs for the sweep and SIGALRM).       *)
(*                                                                         *)
(* A stream is a TCP connection. The ID, the SPTPS handshake and all       *)
(* further traffic are left out; ACK is what changes state.                *)
EXTENDS Naturals, FiniteSets, FiniteSetsExt

CONSTANTS
    ConnectTo,    \* the daemons that are configured to dial the other one
    Addrs,        \* addresses known for a peer
    Streams,      \* names for TCP connections, free again once both ends closed
    MaxPending,   \* MAX_PENDING_META
    MaxTroubles   \* bound: refused connects, timeouts, broken connections, SIGALRMs

Daemon == {1, 2}   \* ordered as their names are
Peer(d) == 3 - d

ASSUME ConnectionsAssumption ==
    /\ ConnectTo \subseteq Daemon /\ Streams \subseteq Nat \ {0} /\ IsFiniteSet(Streams)
    /\ {Addrs, MaxPending, MaxTroubles} \subseteq Nat

VARIABLES
    dmn,      \* each daemon's connections and its slot for the peer
    backlog,  \* streams connected but not yet accepted
    acked,    \* the streams each daemon has sent its ACK on
    faults, retries   \* how many there were

connVars == <<dmn, backlog, acked, faults, retries>>

NoConn == 0

(* What a daemon keeps:                                                    *)
(*   connecting, open, active: its connections by stage;                   *)
(*   inb: those of them that were accepted and not yet activated           *)
(*     (counted_pending);  pending: pending_meta;                          *)
(*   out: those whose `outgoing` is the slot;                              *)
(*   cur: nodes[peer].conn, and with it the daemon's edge to the peer;     *)
(*   slot, timer: the Outgoing exists, its retry timer is armed;           *)
(*   cursor: addresses tried in this round;                                *)
(*   stale: marked by SIGALRM for the next ping sweep.                     *)
ConnInit ==
    /\ dmn = [d \in Daemon |->
                [connecting |-> {}, open |-> {}, active |-> {}, inb |-> {}, pending |-> 0,
                 out |-> {}, cur |-> NoConn, slot |-> d \in ConnectTo,
                 timer |-> d \in ConnectTo, cursor |-> 0, stale |-> {}]]
    /\ backlog = {}
    /\ acked = [d \in Daemon |-> {}]
    /\ faults = 0 /\ retries = 0

Live(r) == r.connecting \cup r.open \cup r.active

Free == Streams \ (Live(dmn[1]) \cup Live(dmn[2]) \cup backlog)

(* Daemon d ends the step with record r and the backlog b; a stream nobody *)
(* holds any more is forgotten.                                            *)
Becomes(d, r, b) ==
    /\ dmn' = [dmn EXCEPT ![d] = r]
    /\ backlog' = b
    /\ acked' = [e \in Daemon |-> acked[e] \cap (Live(r) \cup Live(dmn[Peer(d)]) \cup b)]

(* do_outgoing_connection: the next address that a connect can be started  *)
(* for, or retry_outgoing, which arms the timer and rewinds the cursor,    *)
(* once no address is left or when those that are left fail at once. The   *)
(* latter is a fault, on top of the f there were.                          *)
DoOutgoing(d, r, f) ==
    \/ \E k \in r.cursor + 1 .. Addrs :
          /\ Free # {}
          /\ LET c == Min(Free) IN
             Becomes(d, [r EXCEPT !.cursor = k, !.connecting = @ \cup {c}, !.out = @ \cup {c}],
                        backlog)
          /\ faults' = f
    \/ /\ \/ r.cursor = Addrs /\ faults' = f
          \/ r.cursor < Addrs /\ f + retries < MaxTroubles /\ faults' = f + 1
       /\ Becomes(d, [r EXCEPT !.cursor = 0, !.timer = TRUE], backlog)

(* Mutant: the node keeps pointing at the closed connection. *)
ClosedKeepsNode(r, c) ==
    [r EXCEPT !.connecting = @ \ {c}, !.open = @ \ {c}, !.active = @ \ {c},
              !.inb = @ \ {c}, !.pending = IF c \in r.inb THEN @ - 1 ELSE @,
              !.out = @ \ {c}, !.stale = @ \ {c}]

(* Mutant: the place of an accepted connection is not given back. *)
ClosedLeaks(r, c) ==
    [r EXCEPT !.connecting = @ \ {c}, !.open = @ \ {c}, !.active = @ \ {c},
              !.inb = @ \ {c}, !.out = @ \ {c}, !.stale = @ \ {c},
              !.cur = IF @ = c THEN NoConn ELSE @]

(* terminate, up to the redial. *)
Closed(r, c) ==
    [r EXCEPT !.connecting = @ \ {c}, !.open = @ \ {c}, !.active = @ \ {c},
              !.inb = @ \ {c}, !.pending = IF c \in r.inb THEN @ - 1 ELSE @,
              !.out = @ \ {c}, !.stale = @ \ {c},
              !.cur = IF @ = c THEN NoConn ELSE @]

(* Mutant: only a connection that got to ACK is redialled. *)
RedialsActive(r, c) == c \in r.out /\ r.slot /\ c \in r.active

Redials(r, c) == c \in r.out /\ r.slot

(* terminate: whatever carried the slot is redialled. *)
Terminate(d, c, f) ==
    LET r == dmn[d] IN
    \/ Redials(r, c) /\ DoOutgoing(d, Closed(r, c), f)
    \/ ~Redials(r, c) /\ Becomes(d, Closed(r, c), backlog) /\ faults' = f

-----------------------------------------------------------------------------

(* RetryOutgoing fires: setup_outgoing_connection. *)
RetryTimer(d) ==
    LET r == [dmn[d] EXCEPT !.timer = FALSE] IN
    /\ dmn[d].timer
    /\ \/ r.cur # NoConn /\ Becomes(d, r, backlog) /\ UNCHANGED faults
       \/ r.cur = NoConn /\ DoOutgoing(d, [r EXCEPT !.cursor = 0], faults)
    /\ UNCHANGED retries

(* on_connecting, finish_connecting *)
FinishConnecting(d, c) ==
    /\ c \in dmn[d].connecting
    /\ backlog' = backlog \cup {c}
    /\ dmn' = [dmn EXCEPT ![d].connecting = @ \ {c}, ![d].open = @ \cup {c}]
    /\ UNCHANGED <<acked, faults, retries>>

(* on_tcp_accept: too many that have not authenticated are closed at once. *)
Accept(d, c) ==
    /\ c \in backlog /\ c \notin dmn[d].out
    /\ \/ /\ dmn[d].pending >= MaxPending
          /\ Becomes(d, dmn[d], backlog \ {c})
       \/ /\ dmn[d].pending < MaxPending
          /\ Becomes(d, [dmn[d] EXCEPT !.open = @ \cup {c}, !.inb = @ \cup {c},
                                       !.pending = @ + 1], backlog \ {c})
    /\ UNCHANGED <<faults, retries>>

(* The handshake of a stream is done at d: send_ack. *)
SendAck(d, c) ==
    /\ c \in dmn[d].open /\ c \notin acked[d]
    /\ c \in dmn[Peer(d)].open \cup dmn[Peer(d)].active
    /\ acked' = [acked EXCEPT ![d] = @ \cup {c}]
    /\ UNCHANGED <<dmn, backlog, faults, retries>>

(* Of two connections one of which each end dialled, keep the one the      *)
(* smaller name dialled; otherwise the newer.                              *)
KeepOld(d, old, new) ==
    LET r == dmn[d] IN
    /\ (old \in r.out) # (new \in r.out)
    /\ (old \in r.out) = (d < Peer(d))

(* The slot moves from the dropped connection to the kept one; when both   *)
(* carry one, that of the dropped connection is deleted with its timer.    *)
MoveSlot(r, keep, drop) ==
    IF drop \notin r.out THEN r
    ELSE IF keep \notin r.out THEN [r EXCEPT !.out = (@ \ {drop}) \cup {keep}]
    ELSE [r EXCEPT !.out = @ \ {drop}, !.slot = FALSE, !.timer = FALSE]

(* Mutant: the connection that is replaced stays. *)
DropOldNot(r, keep, drop) == MoveSlot(r, keep, drop)

DropOld(r, keep, drop) == Closed(MoveSlot(r, keep, drop), drop)

Activated(r, c) ==
    [r EXCEPT !.open = @ \ {c}, !.active = @ \cup {c}, !.inb = @ \ {c},
              !.pending = IF c \in r.inb THEN @ - 1 ELSE @,
              !.stale = @ \ {c}, !.cur = c]

(* on_ack *)
OnAck(d, c) ==
    LET r == IF c \in dmn[d].out THEN [dmn[d] EXCEPT !.cursor = 0] ELSE dmn[d]
        old == r.cur
    IN
    /\ c \in dmn[d].open /\ c \in acked[d] /\ c \in acked[Peer(d)]
    /\ \/ old = NoConn /\ Becomes(d, Activated(r, c), backlog)
       \/ old # NoConn /\ KeepOld(d, old, c) /\ Becomes(d, DropOld(r, old, c), backlog)
       \/ old # NoConn /\ ~KeepOld(d, old, c) /\ Becomes(d, Activated(DropOld(r, c, old), c), backlog)
    /\ UNCHANGED <<faults, retries>>

(* The peer has closed: end of file. *)
Eof(d, c) ==
    /\ c \in dmn[d].open \cup dmn[d].active
    /\ c \notin Live(dmn[Peer(d)]) \cup backlog
    /\ Terminate(d, c, faults)
    /\ UNCHANGED retries

(* A refused connect, a timeout or a failure on an open connection.        *)
Fail(d, c) ==
    /\ faults + retries < MaxTroubles
    /\ c \in Live(dmn[d])
    /\ Terminate(d, c, faults + 1)
    /\ UNCHANGED retries

(* on_retry, on SIGALRM: the timer fires now, and connections of the slot  *)
(* that are not active are due in the next sweep.                          *)
OnRetry(d) ==
    /\ faults + retries < MaxTroubles /\ retries' = retries + 1
    /\ dmn' = [dmn EXCEPT ![d].timer = dmn[d].slot,
                          ![d].stale = dmn[d].out \ dmn[d].active]
    /\ UNCHANGED <<backlog, acked, faults>>

(* on_ping_tick on a marked connection. The code runs the sweep in the     *)
(* tick that SIGALRM was handled in; here it may come later as well.       *)
SweepStale(d, c) ==
    /\ c \in dmn[d].stale
    /\ Terminate(d, c, faults)
    /\ UNCHANGED retries

(* What the event loop does for a connection. *)
Serve(d, c) ==
    \/ FinishConnecting(d, c) \/ Accept(d, c) \/ SendAck(d, c) \/ OnAck(d, c)
    \/ Eof(d, c) \/ SweepStale(d, c)

ConnNext ==
    \E d \in Daemon :
        \/ RetryTimer(d) \/ OnRetry(d)
        \/ \E c \in Streams : Serve(d, c) \/ Fail(d, c)

(* The event loop serves sockets and timers, and the network does not hold *)
(* connects or bytes back for ever.                                        *)
ConnFairness ==
    \A d \in Daemon :
        /\ WF_connVars(RetryTimer(d))
        /\ \A c \in Streams : WF_connVars(Serve(d, c))

ConnSpec == ConnInit /\ [][ConnNext]_connVars /\ ConnFairness

-----------------------------------------------------------------------------
(* Properties. *)

(* Every part of a daemon's record has its type, and a connection is in    *)
(* one stage only.                                                         *)
ConnTypeOK ==
    /\ \A d \in Daemon :
        LET r == dmn[d] IN
        /\ \A s \in {r.connecting, r.open, r.active} : s \subseteq Streams
        /\ Cardinality(Live(r)) =
             Cardinality(r.connecting) + Cardinality(r.open) + Cardinality(r.active)
        /\ r.cur \in Live(r) \cup {NoConn} /\ r.out \subseteq Live(r)
        /\ r.slot \in BOOLEAN /\ r.timer \in BOOLEAN /\ r.cursor \in 0 .. Addrs
        /\ acked[d] \subseteq Streams
    /\ backlog \subseteq Streams /\ {faults, retries} \subseteq 0 .. MaxTroubles

(* A daemon has at most one activated connection to the peer, the one its  *)
(* edge stands for: whichever ACK came first, the other is closed.         *)
OneActive == \A d \in Daemon : dmn[d].active = {dmn[d].cur} \ {NoConn}

(* pending_meta counts the accepted connections that are not activated, so *)
(* that neither teardown nor the choice between duplicates leaks a place.  *)
PendingExact == \A d \in Daemon : dmn[d].pending = Cardinality(dmn[d].inb)

(* "One slot per ConnectTo": it is there for as long as the daemon runs    *)
(* and no reload removes it.                                               *)
SlotKept == \A d \in ConnectTo : dmn[d].slot

(* Both daemons may dial each other at once, and connections may fail:     *)
(* unless a SIGALRM sets a second attempt of one slot going, in the end    *)
(* both hold one and the same stream, and keep it.                         *)
Settles ==
    [](retries = 0) => <>[](dmn[1].cur # NoConn /\ dmn[1].cur = dmn[2].cur)
=============================================================================
