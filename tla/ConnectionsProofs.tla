------------------------- MODULE ConnectionsProofs --------------------------
(* A daemon holds at most one activated connection to its peer, and the    *)
(* count of accepted connections that have not authenticated is exact, for *)
(* any number of streams, addresses, faults and SIGALRMs.                  *)
EXTENDS Connections, FiniteSetTheorems, WellFoundedInduction, TLAPS

-----------------------------------------------------------------------------
(* What holds of each daemon's record. *)

DaemonType ==
    [connecting : SUBSET Streams, open : SUBSET Streams, active : SUBSET Streams,
     inb : SUBSET Streams, pending : Nat, out : SUBSET Streams, cur : Streams \cup {NoConn},
     slot : BOOLEAN, timer : BOOLEAN, cursor : 0 .. Addrs, stale : SUBSET Streams]

(* A connection is in one stage, what was accepted and counted is open,    *)
(* only connections that exist carry the slot, every attempt does, and the *)
(* node points at the one that is active.                                  *)
Apart(r) ==
    /\ r.connecting \cap r.open = {} /\ r.connecting \cap r.active = {}
    /\ r.open \cap r.active = {}

Good(r) ==
    /\ r \in DaemonType /\ Apart(r)
    /\ r.inb \subseteq r.open /\ r.pending = Cardinality(r.inb)
    /\ r.out \subseteq Live(r) /\ r.connecting \subseteq r.out
    /\ r.active = {r.cur} \ {NoConn}

(* Whose a stream is: one that is being connected is known to nobody else, *)
(* and one that waits to be accepted only to the end that dialled it.      *)
Held(d, r, b) ==
    /\ r.connecting \cap (Live(dmn[Peer(d)]) \cup b) = {}
    /\ dmn[Peer(d)].connecting \cap Live(r) = {}
    /\ b \cap Live(r) \subseteq r.out

(* The inductive invariant: every record is good, every stream is held as  *)
(* it should be, and the rest is typed.                                    *)
IInv ==
    /\ \A d \in Daemon : Held(d, dmn[d], backlog)
    /\ dmn \in [Daemon -> DaemonType] /\ \A d \in Daemon : Good(dmn[d])
    /\ backlog \subseteq Streams /\ acked \in [Daemon -> SUBSET Streams]
    /\ faults \in Nat /\ retries \in Nat /\ faults + retries <= MaxTroubles

(* Record q holds no stream that r does not, and forgets no dialling.      *)
Shrinks(q, r) ==
    /\ q.connecting \subseteq r.connecting /\ Live(q) \subseteq Live(r)
    /\ Live(q) \cap r.out \subseteq q.out

LEMMA StreamsFacts == IsFiniteSet(Streams) /\ NoConn \notin Streams /\ Streams \subseteq Nat
BY ConnectionsAssumption DEF NoConn

LEMMA PeerType == \A d \in Daemon : Peer(d) \in Daemon /\ Peer(d) # d
BY DEF Daemon, Peer

(* Counting one connection in or out. *)
LEMMA Counting ==
    ASSUME NEW S \in SUBSET Streams, NEW c \in Streams
    PROVE  /\ Cardinality(S) \in Nat
           /\ c \notin S => Cardinality(S \cup {c}) = Cardinality(S) + 1
           /\ c \in S => Cardinality(S \ {c}) = Cardinality(S) - 1 /\ Cardinality(S) > 0
<1>1. IsFiniteSet(S)
  BY StreamsFacts, FS_Subset
<1>2. Cardinality(S) \in Nat
  BY <1>1, FS_CardinalityType
<1>3. c \notin S => Cardinality(S \cup {c}) = Cardinality(S) + 1
  BY <1>1, FS_AddElement
<1>4. c \in S => Cardinality(S \ {c}) = Cardinality(S) - 1
  BY <1>1, FS_RemoveElement
<1>5. c \in S => Cardinality(S \ {c}) \in Nat
  BY <1>1, FS_RemoveElement, FS_CardinalityType
<1>6. QED BY <1>2, <1>3, <1>4, <1>5

(* A stream that is free is one of the streams nobody holds. *)
LEMMA FreeMin == Free # {} => Min(Free) \in Free
<1> SUFFICES ASSUME Free # {} PROVE Min(Free) \in Free
  OBVIOUS
<1>1. Free \subseteq Nat
  BY StreamsFacts DEF Free
<1> DEFINE less == {ss \in Nat \X Nat : ss[1] < ss[2]}
<1>2. IsWellFoundedOn(less, Nat)
  BY NatLessThanWellFounded, Zenon DEF OpToRel
<1>3. PICK x \in Free : \A y \in Free : <<y, x>> \notin less
  <2> HIDE DEF less
  <2>1. QED BY <1>1, <1>2, WFMin
<1>4. ASSUME NEW y \in Free PROVE x <= y
  <2>1. <<y, x>> \in Nat \X Nat /\ <<y, x>>[1] = y /\ <<y, x>>[2] = x
    BY <1>1
  <2>2. ~(y < x)
    BY <1>3, <2>1
  <2>3. QED BY <1>1, <2>2
<1>5. QED BY <1>4 DEF Min

-----------------------------------------------------------------------------
(* What the operations on a record preserve. *)

LEMMA ClosedGood ==
    ASSUME NEW r, Good(r), NEW c \in Streams
    PROVE  Good(Closed(r, c)) /\ Shrinks(Closed(r, c), r) /\ c \notin Live(Closed(r, c))
<1> DEFINE q == Closed(r, c)
<1>1. r \in DaemonType
  BY DEF Good
<1>2. /\ q.connecting = r.connecting \ {c} /\ q.open = r.open \ {c} /\ q.active = r.active \ {c}
      /\ q.inb = r.inb \ {c} /\ q.pending = (IF c \in r.inb THEN r.pending - 1 ELSE r.pending)
      /\ q.out = r.out \ {c} /\ q.stale = r.stale \ {c}
      /\ q.cur = (IF r.cur = c THEN NoConn ELSE r.cur)
      /\ q.slot = r.slot /\ q.timer = r.timer /\ q.cursor = r.cursor
  BY <1>1 DEF Closed, DaemonType
<1>3. q.pending \in Nat /\ q.pending = Cardinality(q.inb)
  <2>1. r.inb \in SUBSET Streams /\ r.pending = Cardinality(r.inb) /\ r.pending \in Nat
    BY <1>1 DEF Good, DaemonType
  <2>2. CASE c \in r.inb
    BY <1>2, <2>1, <2>2, Counting
  <2>3. CASE c \notin r.inb
    <3>1. r.inb \ {c} = r.inb
      BY <2>3
    <3>2. QED BY <1>2, <2>1, <2>3, <3>1
  <2>4. QED BY <2>2, <2>3
<1>4. q \in DaemonType
  BY <1>1, <1>3 DEF Closed, DaemonType
<1> HIDE DEF q
<1>5. Live(q) = Live(r) \ {c}
  BY <1>2 DEF Live
<1>6. q.active = {q.cur} \ {NoConn}
  BY <1>2 DEF Good
<1>7. Apart(q) /\ q.inb \subseteq q.open /\ q.out \subseteq Live(q)
  BY <1>2, <1>5 DEF Good, Apart
<1>8. Good(q) /\ Shrinks(q, r) /\ c \notin Live(q)
  BY <1>2, <1>3, <1>4, <1>5, <1>6, <1>7 DEF Good, Shrinks
<1>9. QED BY <1>8 DEF q

LEMMA ActivatedGood ==
    ASSUME NEW r, Good(r), r.cur = NoConn, NEW c \in Streams, c \in r.open
    PROVE  Good(Activated(r, c)) /\ Shrinks(Activated(r, c), r)
<1> DEFINE q == Activated(r, c)
<1>1. r \in DaemonType
  BY DEF Good
<1>2. /\ q.connecting = r.connecting /\ q.open = r.open \ {c} /\ q.active = r.active \cup {c}
      /\ q.inb = r.inb \ {c} /\ q.pending = (IF c \in r.inb THEN r.pending - 1 ELSE r.pending)
      /\ q.out = r.out /\ q.stale = r.stale \ {c} /\ q.cur = c
  BY <1>1 DEF Activated, DaemonType
<1>3. q.pending \in Nat /\ q.pending = Cardinality(q.inb)
  <2>1. r.inb \in SUBSET Streams /\ r.pending = Cardinality(r.inb) /\ r.pending \in Nat
    BY <1>1 DEF Good, DaemonType
  <2>2. CASE c \in r.inb
    BY <1>2, <2>1, <2>2, Counting
  <2>3. CASE c \notin r.inb
    <3>1. r.inb \ {c} = r.inb
      BY <2>3
    <3>2. QED BY <1>2, <2>1, <2>3, <3>1
  <2>4. QED BY <2>2, <2>3
<1>4. q \in DaemonType
  BY <1>1, <1>3 DEF Activated, DaemonType
<1> HIDE DEF q
<1>5. Live(q) = Live(r)
  BY <1>2 DEF Live
<1>6. q.active = {q.cur} \ {NoConn}
  BY <1>2, StreamsFacts DEF Good
<1>7. Apart(q) /\ q.inb \subseteq q.open /\ q.out \subseteq Live(q)
  BY <1>2, <1>5 DEF Good, Apart
<1>8. Good(q) /\ Shrinks(q, r)
  BY <1>2, <1>3, <1>4, <1>5, <1>6, <1>7 DEF Good, Shrinks
<1>9. QED BY <1>8 DEF q

(* The slot is handed to a connection that exists. *)
LEMMA MoveSlotGood ==
    ASSUME NEW r, Good(r), NEW keep \in Live(r), NEW drop \in Streams, drop \notin r.connecting
    PROVE  LET m == MoveSlot(r, keep, drop) IN
           /\ Good(m) /\ Live(m) = Live(r) /\ r.out \subseteq m.out \cup {drop}
           /\ m.cur = r.cur /\ m.open = r.open /\ m.connecting = r.connecting
<1> DEFINE m == MoveSlot(r, keep, drop)
<1>1. r \in DaemonType /\ keep \in Streams
  BY DEF Good, DaemonType, Live
<1>2. /\ m.connecting = r.connecting /\ m.open = r.open /\ m.active = r.active
      /\ m.inb = r.inb /\ m.pending = r.pending /\ m.cur = r.cur
      /\ m.out \in {r.out, r.out \ {drop}, (r.out \ {drop}) \cup {keep}}
      /\ m \in DaemonType
  <2>1. CASE drop \notin r.out
    BY <1>1, <2>1 DEF MoveSlot
  <2>2. CASE drop \in r.out /\ keep \notin r.out
    BY <1>1, <2>2 DEF MoveSlot, DaemonType
  <2>3. CASE drop \in r.out /\ keep \in r.out
    BY <1>1, <2>3 DEF MoveSlot, DaemonType
  <2>4. QED BY <2>1, <2>2, <2>3
<1> HIDE DEF m
<1>3. Live(m) = Live(r) /\ r.out \subseteq m.out \cup {drop}
  BY <1>2 DEF Live
<1>4. Good(m)
  BY <1>2, <1>3 DEF Good, Apart
<1>5. QED BY <1>2, <1>3, <1>4 DEF m

LEMMA DropOldGood ==
    ASSUME NEW r, Good(r), NEW keep \in Live(r), NEW drop \in Streams, drop \notin r.connecting
    PROVE  LET q == DropOld(r, keep, drop) IN
           /\ Good(q) /\ Shrinks(q, r) /\ q.open = r.open \ {drop}
           /\ q.cur = (IF r.cur = drop THEN NoConn ELSE r.cur)
<1> DEFINE m == MoveSlot(r, keep, drop)
           q == Closed(m, drop)
<1>1. /\ Good(m) /\ Live(m) = Live(r) /\ r.out \subseteq m.out \cup {drop}
      /\ m.cur = r.cur /\ m.open = r.open /\ m.connecting = r.connecting
  BY MoveSlotGood
<1> HIDE DEF m
<1>2. Good(q) /\ Shrinks(q, m) /\ drop \notin Live(q)
  BY <1>1, ClosedGood
<1>3. q.open = m.open \ {drop} /\ q.cur = (IF m.cur = drop THEN NoConn ELSE m.cur)
  BY <1>1 DEF Good, DaemonType, Closed
<1> HIDE DEF q
<1>4. Shrinks(q, r)
  BY <1>1, <1>2 DEF Shrinks
<1>5. QED BY <1>1, <1>2, <1>3, <1>4 DEF DropOld, m, q

-----------------------------------------------------------------------------
(* What a step leaves behind. *)

LEMMA BecomesGood ==
    ASSUME IInv, NEW d \in Daemon, NEW r, Good(r), NEW b \in SUBSET backlog, Held(d, r, b),
           Becomes(d, r, b),
           faults' \in Nat, retries' \in Nat, faults' + retries' <= MaxTroubles
    PROVE  IInv'
<1>1. dmn' = [dmn EXCEPT ![d] = r] /\ backlog' = b
  BY DEF Becomes
<1>2. r \in DaemonType
  BY DEF Good
<1>3. dmn' \in [Daemon -> DaemonType]
  BY <1>1, <1>2 DEF IInv
<1>4. dmn'[d] = r /\ dmn'[Peer(d)] = dmn[Peer(d)] /\ Peer(Peer(d)) = d /\ Daemon = {d, Peer(d)}
  BY <1>1 DEF IInv, Daemon, Peer
<1>5. \A e \in Daemon : Good(dmn'[e])
  BY <1>4 DEF IInv
<1>6. Held(d, dmn[d], backlog)' /\ Held(Peer(d), dmn[Peer(d)], backlog)'
  <2>1. Held(Peer(d), dmn[Peer(d)], backlog)
    BY PeerType DEF IInv
  <2>2. QED BY <1>1, <1>4, <2>1 DEF Held
<1>7. acked' \in [Daemon -> SUBSET Streams]
  BY DEF IInv, Becomes
<1>8. \A e \in Daemon : Held(e, dmn[e], backlog)'
  BY <1>4, <1>6
<1>9. backlog' \subseteq Streams
  BY <1>1 DEF IInv
<1>10. QED BY <1>3, <1>5, <1>7, <1>8, <1>9 DEF IInv

LEMMA ShrinksHeld ==
    ASSUME IInv, NEW d \in Daemon, NEW r, Shrinks(r, dmn[d]), NEW b \in SUBSET backlog
    PROVE  Held(d, r, b)
<1>1. Held(d, dmn[d], backlog)
  BY DEF IInv
<1>2. QED BY <1>1 DEF Held, Shrinks

(* Only the addresses that fail at once add to the faults. *)
LEMMA DoOutgoingCounts ==
    ASSUME NEW d, NEW r, NEW f, DoOutgoing(d, r, f)
    PROVE  faults' = f \/ (faults' = f + 1 /\ f + retries < MaxTroubles)
BY DEF DoOutgoing

LEMMA DoOutgoingGood ==
    ASSUME IInv, NEW d \in Daemon, NEW r, NEW f, Good(r), Shrinks(r, dmn[d]), DoOutgoing(d, r, f),
           faults' \in Nat, retries' \in Nat, faults' + retries' <= MaxTroubles
    PROVE  IInv'
<1>1. r \in DaemonType /\ Addrs \in Nat /\ Held(d, r, backlog)
  BY ConnectionsAssumption, ShrinksHeld DEF Good
<1>2. CASE \E k \in r.cursor + 1 .. Addrs :
             /\ Free # {}
             /\ LET c == Min(Free) IN
                Becomes(d, [r EXCEPT !.cursor = k, !.connecting = @ \cup {c}, !.out = @ \cup {c}],
                           backlog)
  <2> DEFINE c == Min(Free)
  <2>1. PICK k \in r.cursor + 1 .. Addrs :
           Free # {} /\ Becomes(d, [r EXCEPT !.cursor = k, !.connecting = @ \cup {c}, !.out = @ \cup {c}],
                                   backlog)
    BY <1>2
  <2>2. c \in Free
    BY <2>1, FreeMin
  <2> HIDE DEF c
  <2>3. c \in Streams /\ c \notin Live(dmn[1]) /\ c \notin Live(dmn[2]) /\ c \notin backlog
    BY <2>2 DEF Free
  <2>4. c \notin Live(r) /\ c \notin Live(dmn[Peer(d)])
    BY <2>3, PeerType DEF Daemon, Shrinks
  <2> DEFINE q == [r EXCEPT !.cursor = k, !.connecting = @ \cup {c}, !.out = @ \cup {c}]
  <2>5. k \in 0 .. Addrs
    BY <1>1 DEF DaemonType
  <2>6. /\ q.connecting = r.connecting \cup {c} /\ q.open = r.open /\ q.active = r.active
        /\ q.inb = r.inb /\ q.pending = r.pending /\ q.out = r.out \cup {c} /\ q.cur = r.cur
        /\ q \in DaemonType
    BY <1>1, <2>3, <2>5 DEF DaemonType
  <2>7. Becomes(d, q, backlog)
    BY <2>1
  <2> HIDE DEF q
  <2>8. Good(q) /\ Live(q) = Live(r) \cup {c}
    BY <2>4, <2>6 DEF Good, Apart, Live
  <2>9. dmn[Peer(d)].connecting \subseteq Live(dmn[Peer(d)])
    BY DEF Live
  <2>10. Held(d, q, backlog)
    BY <1>1, <2>3, <2>4, <2>6, <2>8, <2>9 DEF Held
  <2>11. QED BY <2>7, <2>8, <2>10, BecomesGood
<1>3. CASE Becomes(d, [r EXCEPT !.cursor = 0, !.timer = TRUE], backlog)
  <2> DEFINE q == [r EXCEPT !.cursor = 0, !.timer = TRUE]
  <2>1. 0 \in 0 .. Addrs
    BY <1>1
  <2>2. /\ q.connecting = r.connecting /\ q.open = r.open /\ q.active = r.active
        /\ q.inb = r.inb /\ q.pending = r.pending /\ q.out = r.out /\ q.cur = r.cur
        /\ q \in DaemonType
    BY <1>1, <2>1 DEF DaemonType
  <2>3. Becomes(d, q, backlog)
    BY <1>3
  <2> HIDE DEF q
  <2>4. Good(q) /\ Held(d, q, backlog)
    BY <1>1, <2>2 DEF Good, Apart, Live, Held
  <2>5. QED BY <2>3, <2>4, BecomesGood
<1>4. QED BY <1>2, <1>3 DEF DoOutgoing

LEMMA TerminateGood ==
    ASSUME IInv, NEW d \in Daemon, NEW c \in Streams, NEW f, Terminate(d, c, f),
           faults' \in Nat, retries' \in Nat, faults' + retries' <= MaxTroubles
    PROVE  IInv'
<1>1. Good(Closed(dmn[d], c)) /\ Shrinks(Closed(dmn[d], c), dmn[d])
  BY ClosedGood DEF IInv
<1>2. CASE DoOutgoing(d, Closed(dmn[d], c), f)
  BY <1>1, <1>2, DoOutgoingGood
<1>3. CASE Becomes(d, Closed(dmn[d], c), backlog)
  BY <1>1, <1>3, BecomesGood, ShrinksHeld
<1>4. QED BY <1>2, <1>3 DEF Terminate

-----------------------------------------------------------------------------
(* One lemma per action. *)

LEMMA RetryTimerStep ==
    ASSUME IInv, NEW d \in Daemon, RetryTimer(d)
    PROVE  IInv'
<1> DEFINE r == [dmn[d] EXCEPT !.timer = FALSE]
           z == [r EXCEPT !.cursor = 0]
<1>1. /\ \/ Becomes(d, r, backlog)
         \/ DoOutgoing(d, z, faults)
      /\ faults' = faults \/ DoOutgoing(d, z, faults)
      /\ retries' = retries
  BY DEF RetryTimer
<1>2. Good(dmn[d]) /\ dmn[d] \in DaemonType /\ 0 \in 0 .. Addrs
  BY ConnectionsAssumption DEF IInv
<1>3. ASSUME NEW q \in {r, z}
      PROVE  /\ q.connecting = dmn[d].connecting /\ q.open = dmn[d].open
             /\ q.active = dmn[d].active /\ q.inb = dmn[d].inb /\ q.pending = dmn[d].pending
             /\ q.out = dmn[d].out /\ q.cur = dmn[d].cur /\ q \in DaemonType
  BY <1>2 DEF DaemonType
<1> HIDE DEF r, z
<1>4. ASSUME NEW q \in {r, z} PROVE Good(q) /\ Shrinks(q, dmn[d])
  BY <1>2, <1>3 DEF Good, Apart, Live, Shrinks
<1>5. faults' \in Nat /\ retries' \in Nat /\ faults' + retries' <= MaxTroubles
  <2>1. faults' = faults \/ (faults' = faults + 1 /\ faults + retries < MaxTroubles)
    BY <1>1, DoOutgoingCounts
  <2>2. QED BY <1>1, <2>1, ConnectionsAssumption DEF IInv
<1>6. CASE Becomes(d, r, backlog)
  BY <1>4, <1>5, <1>6, BecomesGood, ShrinksHeld
<1>7. CASE DoOutgoing(d, z, faults)
  BY <1>4, <1>5, <1>7, DoOutgoingGood
<1>8. QED BY <1>1, <1>6, <1>7

(* A record that an action changes by itself. *)
LEMMA RecordStep ==
    ASSUME IInv, NEW d \in Daemon, NEW q, Good(q), dmn' = [dmn EXCEPT ![d] = q]
    PROVE  /\ dmn' \in [Daemon -> DaemonType] /\ \A e \in Daemon : Good(dmn'[e])
           /\ dmn'[d] = q /\ dmn'[Peer(d)] = dmn[Peer(d)] /\ Peer(Peer(d)) = d
           /\ Daemon = {d, Peer(d)}
<1>1. dmn' \in [Daemon -> DaemonType]
  BY DEF IInv, Good
<1>2. dmn'[d] = q /\ dmn'[Peer(d)] = dmn[Peer(d)] /\ Peer(Peer(d)) = d /\ Daemon = {d, Peer(d)}
  BY DEF IInv, Daemon, Peer
<1>3. QED BY <1>1, <1>2 DEF IInv

(* SIGALRM touches the timer and the marks only. *)
LEMMA OnRetryStep ==
    ASSUME IInv, NEW d \in Daemon, OnRetry(d)
    PROVE  IInv'
<1> DEFINE q == [dmn[d] EXCEPT !.timer = dmn[d].slot, !.stale = dmn[d].out \ dmn[d].active]
<1>1. /\ dmn' = [dmn EXCEPT ![d] = q]
      /\ faults + retries < MaxTroubles /\ retries' = retries + 1
      /\ UNCHANGED <<backlog, acked, faults>>
  BY DEF OnRetry, IInv, DaemonType
<1>2. Good(dmn[d]) /\ dmn[d] \in DaemonType
  BY DEF IInv
<1>3. /\ q.connecting = dmn[d].connecting /\ q.open = dmn[d].open
      /\ q.active = dmn[d].active /\ q.inb = dmn[d].inb /\ q.pending = dmn[d].pending
      /\ q.out = dmn[d].out /\ q.cur = dmn[d].cur /\ q \in DaemonType
  BY <1>2 DEF DaemonType
<1> HIDE DEF q
<1>4. Good(q) /\ Live(q) = Live(dmn[d])
  BY <1>2, <1>3 DEF Good, Apart, Live
<1>5. /\ dmn' \in [Daemon -> DaemonType] /\ \A e \in Daemon : Good(dmn'[e])
      /\ dmn'[d] = q /\ dmn'[Peer(d)] = dmn[Peer(d)] /\ Peer(Peer(d)) = d
      /\ Daemon = {d, Peer(d)}
  BY <1>1, <1>4, RecordStep
<1>6. faults' \in Nat /\ retries' \in Nat /\ faults' + retries' <= MaxTroubles
  BY <1>1, ConnectionsAssumption DEF IInv
<1>7. Held(d, dmn[d], backlog)' /\ Held(Peer(d), dmn[Peer(d)], backlog)'
  <2>1. Held(d, dmn[d], backlog) /\ Held(Peer(d), dmn[Peer(d)], backlog)
    BY PeerType DEF IInv
  <2>2. QED BY <1>1, <1>3, <1>4, <1>5, <2>1 DEF Held
<1>8. \A e \in Daemon : Held(e, dmn[e], backlog)'
  BY <1>5, <1>7
<1>9. QED BY <1>1, <1>5, <1>6, <1>8 DEF IInv

LEMMA FinishConnectingStep ==
    ASSUME IInv, NEW d \in Daemon, NEW c \in Streams, FinishConnecting(d, c)
    PROVE  IInv'
<1> DEFINE q == [dmn[d] EXCEPT !.connecting = @ \ {c}, !.open = @ \cup {c}]
<1>1. /\ c \in dmn[d].connecting /\ backlog' = backlog \cup {c}
      /\ dmn' = [dmn EXCEPT ![d] = q]
      /\ UNCHANGED <<acked, faults, retries>>
  BY DEF FinishConnecting, IInv, DaemonType
<1>2. Good(dmn[d]) /\ dmn[d] \in DaemonType
  BY DEF IInv
<1>3. /\ q.connecting = dmn[d].connecting \ {c} /\ q.open = dmn[d].open \cup {c}
      /\ q.active = dmn[d].active /\ q.inb = dmn[d].inb /\ q.pending = dmn[d].pending
      /\ q.out = dmn[d].out /\ q.cur = dmn[d].cur /\ q \in DaemonType
  BY <1>2 DEF DaemonType
<1> HIDE DEF q
<1>4. Good(q) /\ Live(q) = Live(dmn[d]) /\ c \in q.out
  BY <1>1, <1>2, <1>3 DEF Good, Apart, Live
<1>5. /\ dmn' \in [Daemon -> DaemonType] /\ \A e \in Daemon : Good(dmn'[e])
      /\ dmn'[d] = q /\ dmn'[Peer(d)] = dmn[Peer(d)] /\ Peer(Peer(d)) = d
      /\ Daemon = {d, Peer(d)}
  BY <1>1, <1>4, RecordStep
<1>6. Held(d, dmn[d], backlog) /\ Held(Peer(d), dmn[Peer(d)], backlog)
  BY PeerType DEF IInv
<1>7. c \notin Live(dmn[Peer(d)]) /\ c \notin dmn[Peer(d)].connecting
  BY <1>1, <1>6 DEF Held, Live
<1>8. Held(d, dmn[d], backlog)'
  BY <1>1, <1>3, <1>4, <1>5, <1>6 DEF Held
<1>9. Held(Peer(d), dmn[Peer(d)], backlog)'
  BY <1>1, <1>3, <1>4, <1>5, <1>6, <1>7 DEF Held
<1>10. \A e \in Daemon : Held(e, dmn[e], backlog)'
  BY <1>5, <1>8, <1>9
<1>11. backlog' \subseteq Streams
  BY <1>1 DEF IInv
<1>12. QED BY <1>1, <1>5, <1>10, <1>11 DEF IInv

(* Only a stream of the other daemon is accepted: it cannot be here yet.   *)
LEMMA AcceptStep ==
    ASSUME IInv, NEW d \in Daemon, NEW c \in Streams, Accept(d, c)
    PROVE  IInv'
<1> DEFINE q == [dmn[d] EXCEPT !.open = @ \cup {c}, !.inb = @ \cup {c}, !.pending = @ + 1]
<1>1. /\ c \in backlog /\ c \notin dmn[d].out
      /\ \/ Becomes(d, dmn[d], backlog \ {c})
         \/ Becomes(d, q, backlog \ {c})
      /\ faults' = faults /\ retries' = retries
  BY DEF Accept
<1>2. faults' \in Nat /\ retries' \in Nat /\ faults' + retries' <= MaxTroubles
  BY <1>1 DEF IInv
<1>3. Good(dmn[d]) /\ dmn[d] \in DaemonType /\ Held(d, dmn[d], backlog)
      /\ Held(Peer(d), dmn[Peer(d)], backlog)
  BY PeerType DEF IInv
<1>4. c \notin Live(dmn[d]) /\ c \notin dmn[Peer(d)].connecting
  BY <1>1, <1>3 DEF Held
<1>5. /\ q.connecting = dmn[d].connecting /\ q.open = dmn[d].open \cup {c}
      /\ q.active = dmn[d].active /\ q.inb = dmn[d].inb \cup {c} /\ q.pending = dmn[d].pending + 1
      /\ q.out = dmn[d].out /\ q.cur = dmn[d].cur /\ q \in DaemonType
  <2>1. /\ dmn[d].pending + 1 \in Nat /\ dmn[d].open \cup {c} \in SUBSET Streams
        /\ dmn[d].inb \cup {c} \in SUBSET Streams
    BY <1>3 DEF DaemonType
  <2>2. QED BY <1>3, <2>1 DEF DaemonType
<1> HIDE DEF q
<1>6. q.pending = Cardinality(q.inb)
  <2>1. c \notin dmn[d].inb /\ dmn[d].inb \in SUBSET Streams /\ dmn[d].pending = Cardinality(dmn[d].inb)
    BY <1>3, <1>4 DEF Good, Live, DaemonType
  <2>2. QED BY <1>5, <2>1, Counting
<1>7. Live(q) = Live(dmn[d]) \cup {c}
  BY <1>5 DEF Live
<1>8. Good(q)
  BY <1>3, <1>4, <1>5, <1>6, <1>7 DEF Good, Apart, Live
<1>9. Held(d, q, backlog \ {c})
  BY <1>3, <1>4, <1>5, <1>7 DEF Held
<1>10. Held(d, dmn[d], backlog \ {c})
  BY <1>3 DEF Held
<1>11. QED BY <1>1, <1>2, <1>3, <1>8, <1>9, <1>10, BecomesGood

LEMMA SendAckStep ==
    ASSUME IInv, NEW d \in Daemon, NEW c \in Streams, SendAck(d, c)
    PROVE  IInv'
<1>1. acked' = [acked EXCEPT ![d] = @ \cup {c}] /\ UNCHANGED <<dmn, backlog, faults, retries>>
  BY DEF SendAck
<1>2. acked' \in [Daemon -> SUBSET Streams]
  BY <1>1 DEF IInv
<1>3. QED BY <1>1, <1>2 DEF IInv, Held

(* Whichever of two connections is kept, one is active afterwards.         *)
LEMMA OnAckStep ==
    ASSUME IInv, NEW d \in Daemon, NEW c \in Streams, OnAck(d, c)
    PROVE  IInv'
<1> DEFINE r == IF c \in dmn[d].out THEN [dmn[d] EXCEPT !.cursor = 0] ELSE dmn[d]
           old == r.cur
<1>1. /\ c \in dmn[d].open
      /\ \/ old = NoConn /\ Becomes(d, Activated(r, c), backlog)
         \/ old # NoConn /\ Becomes(d, DropOld(r, old, c), backlog)
         \/ old # NoConn /\ Becomes(d, Activated(DropOld(r, c, old), c), backlog)
      /\ faults' = faults /\ retries' = retries
  BY DEF OnAck
<1>2. Good(dmn[d]) /\ dmn[d] \in DaemonType /\ 0 \in 0 .. Addrs
  BY ConnectionsAssumption DEF IInv
<1>3. /\ r.connecting = dmn[d].connecting /\ r.open = dmn[d].open
      /\ r.active = dmn[d].active /\ r.inb = dmn[d].inb /\ r.pending = dmn[d].pending
      /\ r.out = dmn[d].out /\ r.cur = dmn[d].cur /\ r \in DaemonType
  BY <1>2 DEF DaemonType
<1> HIDE DEF r
<1>4. Good(r) /\ Shrinks(r, dmn[d])
  BY <1>2, <1>3 DEF Good, Apart, Live, Shrinks
<1>5. faults' \in Nat /\ retries' \in Nat /\ faults' + retries' <= MaxTroubles
  BY <1>1 DEF IInv
<1>6. c \in r.open /\ c \in Live(r) /\ c \notin r.connecting /\ c \notin r.active
  BY <1>1, <1>3, <1>4 DEF Good, Apart, Live
<1>7. ASSUME NEW q, Good(q), Shrinks(q, r), Becomes(d, q, backlog) PROVE IInv'
  <2>1. Shrinks(q, dmn[d])
    BY <1>4, <1>7 DEF Shrinks
  <2>2. QED BY <1>5, <1>7, <2>1, BecomesGood, ShrinksHeld
<1>8. CASE old = NoConn /\ Becomes(d, Activated(r, c), backlog)
  BY <1>4, <1>6, <1>7, <1>8, ActivatedGood
<1>9. ASSUME old # NoConn
      PROVE  old \in Streams /\ old \in r.active /\ old \in Live(r) /\ old \notin r.connecting
             /\ old # c
  BY <1>4, <1>6, <1>9 DEF Good, Apart, DaemonType, Live
<1>10. CASE old # NoConn /\ Becomes(d, DropOld(r, old, c), backlog)
  BY <1>4, <1>6, <1>7, <1>9, <1>10, DropOldGood
<1>11. CASE old # NoConn /\ Becomes(d, Activated(DropOld(r, c, old), c), backlog)
  <2> DEFINE m == DropOld(r, c, old)
  <2>1. Good(m) /\ Shrinks(m, r) /\ m.open = r.open \ {old} /\ m.cur = NoConn
    BY <1>4, <1>6, <1>9, <1>11, DropOldGood
  <2> HIDE DEF m
  <2>2. c \in m.open
    BY <1>6, <1>9, <1>11, <2>1
  <2>3. Good(Activated(m, c)) /\ Shrinks(Activated(m, c), m)
    BY <2>1, <2>2, ActivatedGood
  <2>4. Shrinks(Activated(m, c), r)
    BY <2>1, <2>3 DEF Shrinks
  <2>5. QED BY <1>7, <1>11, <2>3, <2>4 DEF m
<1>12. QED BY <1>1, <1>8, <1>10, <1>11

LEMMA CloseStep ==
    ASSUME IInv, NEW d \in Daemon, NEW c \in Streams, Eof(d, c) \/ Fail(d, c) \/ SweepStale(d, c)
    PROVE  IInv'
<1>1. PICK f \in {faults, faults + 1} :
         /\ Terminate(d, c, f) /\ retries' = retries
         /\ f = faults \/ faults + retries < MaxTroubles
  BY DEF Eof, Fail, SweepStale
<1>2. f \in Nat /\ faults \in Nat /\ retries \in Nat /\ MaxTroubles \in Nat
      /\ f + retries <= MaxTroubles
  BY <1>1, ConnectionsAssumption DEF IInv
<1>3. faults' = f \/ (faults' = f + 1 /\ f + retries < MaxTroubles)
  BY <1>1, DoOutgoingCounts DEF Terminate
<1>4. faults' \in Nat /\ retries' \in Nat /\ faults' + retries' <= MaxTroubles
  BY <1>1, <1>2, <1>3
<1>5. QED BY <1>1, <1>4, TerminateGood

-----------------------------------------------------------------------------
LEMMA IInvInit == ConnInit => IInv
<1> SUFFICES ASSUME ConnInit PROVE IInv
  OBVIOUS
<1>1. \A d \in Daemon :
         /\ dmn[d] = [connecting |-> {}, open |-> {}, active |-> {}, inb |-> {}, pending |-> 0,
                      out |-> {}, cur |-> NoConn, slot |-> d \in ConnectTo,
                      timer |-> d \in ConnectTo, cursor |-> 0, stale |-> {}]
         /\ dmn[d] \in DaemonType
  <2>1. 0 \in 0 .. Addrs
    BY ConnectionsAssumption
  <2>2. QED BY <2>1 DEF ConnInit, DaemonType
<1>2. dmn \in [Daemon -> DaemonType]
  BY <1>1 DEF ConnInit
<1>3. ASSUME NEW d \in Daemon PROVE Good(dmn[d])
  <2>1. /\ dmn[d].connecting = {} /\ dmn[d].open = {} /\ dmn[d].active = {} /\ dmn[d].inb = {}
        /\ dmn[d].pending = 0 /\ dmn[d].out = {} /\ dmn[d].cur = NoConn
    <3> DEFINE on == d \in ConnectTo
    <3>1. dmn[d] = [connecting |-> {}, open |-> {}, active |-> {}, inb |-> {}, pending |-> 0,
                    out |-> {}, cur |-> NoConn, slot |-> on, timer |-> on, cursor |-> 0,
                    stale |-> {}]
      BY <1>1
    <3> HIDE DEF on
    <3>2. QED BY <3>1
  <2>2. Cardinality({}) = 0
    BY FS_EmptySet
  <2>3. Cardinality(dmn[d].inb) = 0
    BY <2>1, <2>2
  <2>4. Apart(dmn[d]) /\ Live(dmn[d]) = {}
    BY <2>1 DEF Apart, Live
  <2>5. dmn[d].active = {dmn[d].cur} \ {NoConn}
    BY <2>1
  <2>6. QED BY <1>1, <2>1, <2>3, <2>4, <2>5 DEF Good
<1>4. \A d \in Daemon : Held(d, dmn[d], backlog)
  BY <1>1, PeerType DEF Held, Live, ConnInit
<1>5. QED BY <1>2, <1>3, <1>4, ConnectionsAssumption DEF IInv, ConnInit

LEMMA IInvStep == IInv /\ [ConnNext]_connVars => IInv'
<1> SUFFICES ASSUME IInv, [ConnNext]_connVars PROVE IInv'
  OBVIOUS
<1>1. CASE UNCHANGED connVars
  BY <1>1 DEF connVars, IInv, Held
<1>2. QED
  BY <1>1, RetryTimerStep, OnRetryStep, FinishConnectingStep, AcceptStep, SendAckStep, OnAckStep,
     CloseStep DEF ConnNext, Serve

LEMMA IInvAlways == ConnSpec => []IInv
BY IInvInit, IInvStep, PTL DEF ConnSpec

(* Whichever ACK came first, whatever was dialled, dropped or redialled at *)
(* the same time, a daemon has one activated connection at most and its    *)
(* node points at it (on_ack, terminate).                                  *)
THEOREM OneActiveCorrect == ConnSpec => []OneActive
<1>1. IInv => OneActive
  BY DEF IInv, Good, OneActive
<1>2. QED BY <1>1, IInvAlways, PTL

(* No order of accepts, activations, duplicates and teardowns leaks or     *)
(* double-frees a place of pending_meta.                                   *)
THEOREM PendingExactCorrect == ConnSpec => []PendingExact
<1>1. IInv => PendingExact
  BY DEF IInv, Good, PendingExact
<1>2. QED BY <1>1, IInvAlways, PTL

(* The state stays typed: above all a connection is in one stage at a      *)
(* time, and only connections that exist carry the slot.                   *)
THEOREM ConnTypeCorrect == ConnSpec => []ConnTypeOK
<1>1. ASSUME IInv PROVE ConnTypeOK
  <2>1. ASSUME NEW d \in Daemon
        PROVE  Cardinality(Live(dmn[d])) = Cardinality(dmn[d].connecting)
                  + Cardinality(dmn[d].open) + Cardinality(dmn[d].active)
    <3> DEFINE x == dmn[d].connecting y == dmn[d].open z == dmn[d].active
    <3>1. x \subseteq Streams /\ y \subseteq Streams /\ z \subseteq Streams
          /\ x \cap y = {} /\ (x \cup y) \cap z = {} /\ Live(dmn[d]) = (x \cup y) \cup z
      BY <1>1 DEF IInv, Good, Apart, DaemonType, Live
    <3> HIDE DEF x, y, z
    <3>2. IsFiniteSet(x) /\ IsFiniteSet(y) /\ IsFiniteSet(z)
      BY <3>1, StreamsFacts, FS_Subset
    <3>3. /\ Cardinality(x) \in Nat /\ Cardinality(y) \in Nat /\ Cardinality(z) \in Nat
          /\ Cardinality({}) = 0
      BY <3>2, FS_CardinalityType, FS_EmptySet
    <3>4. IsFiniteSet(x \cup y) /\ Cardinality(x \cup y) = Cardinality(x) + Cardinality(y)
      BY <3>1, <3>2, <3>3, FS_Union
    <3> DEFINE w == x \cup y
    <3>5. IsFiniteSet(w) /\ w \cap z = {} /\ Cardinality(w) \in Nat
      BY <3>1, <3>4, FS_CardinalityType
    <3> HIDE DEF w
    <3>6. Cardinality(w \cup z) = Cardinality(w) + Cardinality(z) - Cardinality(w \cap z)
      BY <3>2, <3>5, FS_Union
    <3>7. Cardinality(w \cap z) = 0
      BY <3>3, <3>5, Zenon
    <3>8. Cardinality(w \cup z) = Cardinality(w) + Cardinality(z)
      BY <3>3, <3>5, <3>6, <3>7
    <3>9. QED BY <3>1, <3>4, <3>8 DEF w, x, y, z
  <2>2. ASSUME NEW d \in Daemon
        PROVE  /\ dmn[d].connecting \subseteq Streams /\ dmn[d].open \subseteq Streams
               /\ dmn[d].active \subseteq Streams
               /\ dmn[d].cur \in Live(dmn[d]) \cup {NoConn} /\ dmn[d].out \subseteq Live(dmn[d])
               /\ dmn[d].slot \in BOOLEAN /\ dmn[d].timer \in BOOLEAN /\ dmn[d].cursor \in 0 .. Addrs
               /\ acked[d] \subseteq Streams
    BY <1>1 DEF IInv, Good, DaemonType, Live
  <2>3. faults \in 0 .. MaxTroubles /\ retries \in 0 .. MaxTroubles /\ backlog \subseteq Streams
    BY <1>1, ConnectionsAssumption DEF IInv
  <2>4. QED BY <2>1, <2>2, <2>3 DEF ConnTypeOK
<1>2. QED BY <1>1, IInvAlways, PTL
=============================================================================
