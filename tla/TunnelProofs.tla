---------------------------- MODULE TunnelProofs ----------------------------
(* Two daemons that both hold a valid key hold the same one, a salvaged    *)
(* session dies in time, and a handshake gets its ten seconds: whatever is *)
(* crossed, lost, late or restarted, for any bounds. And while nothing is, *)
(* no datagram meets a daemon that cannot open it.                         *)
EXTENDS Tunnel, FiniteSetTheorems, WellFoundedInduction, TLAPS

-----------------------------------------------------------------------------
(* Types. *)

Sess == [role : {"I", "R"}, mine : KeyIds, his : KeyIds \cup {None}, inseqno : 0 .. 2, up : BOOLEAN]

Key == {k \in SUBSET KeyIds : IsFiniteSet(k)}

Tun == [cur : Sess \cup {None}, prev : Sess \cup {None}, valid : BOOLEAN, waiting : BOOLEAN,
        reqage : 0 .. Never, prevage : Nat, handles : Key \cup {None}]

(* A KEX is one key share; only a KEX travels as REQ_KEY. *)
Msg == {m \in [req : {"REQ_KEY", "ANS_KEY"}, seqno : {0, 1}, kex : Key] :
          /\ m.seqno = 0 => \E k \in KeyIds : m.kex = {k}
          /\ m.req = "REQ_KEY" => m.seqno = 0}

Shape ==
    /\ tun \in [Daemon -> Tun]
    /\ snap \in [Daemon -> Key \cup {None}]
    /\ reach \in [Daemon -> BOOLEAN]
    /\ meta \in [Daemon -> Seq(Msg)]
    /\ udp \in [Daemon -> {u \in SUBSET Key : IsFiniteSet(u)}]
    /\ faults \in [rekey : Nat, loss : Nat, reset : Nat, late : Nat]

(* How far a session has got, and how the flags of a tunnel fit it. *)
SessFits(s) ==
    /\ s.inseqno = 0 <=> s.his = None
    /\ s.his = None => s.role = "I" /\ ~s.up

HasParts(t) ==
    /\ t \in Tun
    /\ t.cur # None => SessFits(t.cur)
    /\ t.prev # None => SessFits(t.prev) /\ t.prev.up

TunOK(t) ==
    /\ HasParts(t)
    /\ t.valid <=> (t.cur # None /\ t.cur.up)
    /\ t.waiting <=> (t.cur # None /\ ~t.cur.up)

Bounds ==
    /\ Cardinality(udp[1]) + Cardinality(udp[2]) <= MaxUdp
    /\ faults.rekey + faults.loss + faults.reset + faults.late <= MaxFaults

-----------------------------------------------------------------------------
(* Who knows the KEX of d's session. *)

Elems(q) == {q[i] : i \in DOMAIN q}

Inbox(d) == Elems(meta[d])

(* The KEX goes out once, in the message that fits the role. Whoever has   *)
(* taken it in plays the other role, and until d knows the peer's KEX      *)
(* nobody has signed d's.                                                  *)
Linked(d) ==
    LET s == tun[d].cur
        r == tun[Peer(d)].cur
    IN
    s # None =>
        /\ \A m \in Inbox(Peer(d)) :
              m.seqno = 0 /\ m.kex = {s.mine} => (m.req = "REQ_KEY" <=> s.role = "I")
        /\ r # None => r.mine # s.mine /\ (r.his = s.mine => r.role # s.role)
        /\ s.his = None =>
              /\ \A m \in Inbox(d) \cup Inbox(Peer(d)) : m.seqno = 1 => s.mine \notin m.kex
              /\ r # None /\ r.his = s.mine => ~r.up

(* d is up, or the signature that will bring it up is on its way. *)
Armed(d) ==
    LET s == tun[d].cur IN
    s # None /\ (s.up \/ \E m \in Inbox(d) : SigOk(s, m))

(* Two sessions that are both armed are the two ends of one handshake.     *)
(* (Of valid sessions alone this is not inductive: the signature that      *)
(* makes one valid is sent by a session that may be gone when it arrives.) *)
Agreed ==
    Armed(1) /\ Armed(2) =>
        tun[1].cur.his = tun[2].cur.mine /\ tun[2].cur.his = tun[1].cur.mine

Links == (\A d \in Daemon : Linked(d)) /\ Agreed

(* The inductive invariant. *)
IInv ==
    /\ Shape /\ Bounds
    /\ \A d \in Daemon : TunOK(tun[d]) /\ tun[d].prevage <= KeyLifetime
    /\ Links

LEMMA Constants ==
    /\ PingInterval \in Nat \ {0} /\ KeyLifetime \in Nat \ {0}
    /\ MaxFaults \in Nat /\ MaxMeta \in Nat /\ MaxUdp \in Nat
    /\ None \notin KeyIds /\ None \notin Sess
    /\ AgeCap \in Nat /\ Never = AgeCap + 1 /\ AgeCap >= 1
<1>1. None \notin Sess
  <2>1. Sess \subseteq [role : {"I", "R"}, mine : Nat, his : Nat \cup {None},
                      inseqno : 0 .. 2, up : BOOLEAN]
    BY DEF Sess, KeyIds
  <2>2. QED BY <2>1, TunnelAssumption
<1>2. QED BY <1>1, TunnelAssumption DEF KeyIds, AgeCap, Never

LEMMA Peers == \A d \in Daemon : /\ Peer(d) \in Daemon /\ Peer(d) # d /\ Peer(Peer(d)) = d
                                 /\ Daemon = {d, Peer(d)}
BY DEF Daemon, Peer

-----------------------------------------------------------------------------
(* A new KEX is always to be had, and nobody else holds it. *)

LEMMA NatMin ==
    ASSUME NEW T \in SUBSET Nat, T # {}
    PROVE  \E x \in T : \A y \in T : x <= y
<1> DEFINE less == {ss \in Nat \X Nat : ss[1] < ss[2]}
<1>1. IsWellFoundedOn(less, Nat)
  BY NatLessThanWellFounded, Zenon DEF OpToRel
<1>2. PICK x \in T : \A y \in T : <<y, x>> \notin less
  <2> HIDE DEF less
  <2>1. QED BY <1>1, WFMin
<1>3. ASSUME NEW y \in T PROVE x <= y
  <2>1. <<y, x>> \in Nat \X Nat /\ <<y, x>>[1] = y /\ <<y, x>>[2] = x
    OBVIOUS
  <2>2. ~(y < x)
    BY <1>2, <2>1
  <2>3. QED BY <2>2
<1>4. QED BY <1>3

LEMMA PairFinite == \A a, b : IsFiniteSet({a, b})
<1> SUFFICES ASSUME NEW a, NEW b PROVE IsFiniteSet({a, b})
  OBVIOUS
<1>1. IsFiniteSet({a}) /\ {a, b} = {a} \cup {b}
  BY FS_Singleton
<1>2. QED BY <1>1, FS_AddElement

LEMMA HeldFinite ==
    ASSUME Shape, NEW d \in Daemon
    PROVE  IsFiniteSet(HeldKex(d))
<1> DEFINE kept(s) == IF s = None THEN {} ELSE KeyOf(s)
           key(k) == IF k = None THEN {} ELSE k
           A == {kept(tun[d].cur), kept(tun[d].prev), key(tun[d].handles), key(snap[d])}
           N == 1 .. Len(meta[d])
           C == {meta[d][i].kex : i \in N}
           f == [i \in N |-> meta[d][i].kex]
<1>1. \A s : IsFiniteSet(kept(s))
  BY PairFinite, FS_EmptySet DEF KeyOf
<1>2. \A k \in Key \cup {None} : IsFiniteSet(key(k))
  BY FS_EmptySet DEF Key
<1>3. tun[d].handles \in Key \cup {None} /\ snap[d] \in Key \cup {None}
  BY DEF Shape, Tun
<1>4. \A S \in A : IsFiniteSet(S)
  BY <1>1, <1>2, <1>3
<1>5. IsFiniteSet(A)
  <2> DEFINE a == kept(tun[d].cur) b == kept(tun[d].prev) c == key(tun[d].handles) e == key(snap[d])
  <2> HIDE DEF a, b, c, e
  <2>1. IsFiniteSet({a, b}) /\ IsFiniteSet({c, e})
    BY PairFinite
  <2>2. IsFiniteSet({a, b} \cup {c, e})
    BY <2>1, FS_Union
  <2>3. A = {a, b} \cup {c, e}
    BY DEF a, b, c, e
  <2>4. QED BY <2>2, <2>3
<1>6. IsFiniteSet(udp[d]) /\ \A S \in udp[d] : IsFiniteSet(S)
  BY DEF Shape, Key
<1>7. meta[d] \in Seq(Msg) /\ Len(meta[d]) \in Nat /\ DOMAIN meta[d] = N
  BY DEF Shape
<1>8. \A S \in C : IsFiniteSet(S)
  BY <1>7 DEF Msg, Key
<1>9. IsFiniteSet(C)
  <2>1. f \in Surjection(N, C)
    BY DEF Surjection
  <2>2. IsFiniteSet(N)
    BY <1>7, FS_Interval
  <2> HIDE DEF f, N, C
  <2>3. QED BY <2>1, <2>2, FS_Surjection
<1>10. HeldKex(d) = UNION (A \cup udp[d] \cup C)
  BY <1>7 DEF HeldKex
<1> HIDE DEF A, C, N
<1>11. IsFiniteSet(A \cup udp[d])
  BY <1>5, <1>6, FS_Union
<1>12. IsFiniteSet(A \cup udp[d] \cup C)
  BY <1>9, <1>11, FS_Union
<1>13. \A S \in A \cup udp[d] \cup C : IsFiniteSet(S)
  BY <1>4, <1>6, <1>8
<1>14. IsFiniteSet(UNION (A \cup udp[d] \cup C))
  BY <1>12, <1>13, FS_UNION
<1>15. QED BY <1>10, <1>14

LEMMA NewKexFresh == Shape => NewKex \in KeyIds /\ NewKex \notin UsedKex
<1> SUFFICES ASSUME Shape PROVE NewKex \in KeyIds /\ NewKex \notin UsedKex
  OBVIOUS
<1> DEFINE n == Cardinality(UsedKex)
           T == (1 .. n + 1) \ UsedKex
<1>1. IsFiniteSet(UsedKex)
  BY HeldFinite, FS_Union DEF UsedKex, Daemon
<1>2. n \in Nat
  BY <1>1, FS_CardinalityType
<1>3. T # {}
  <2> SUFFICES ASSUME (1 .. n + 1) \subseteq UsedKex PROVE FALSE
    OBVIOUS
  <2>1. Cardinality(1 .. n + 1) <= n
    BY <1>1, FS_Subset
  <2> HIDE DEF n
  <2>2. Cardinality(1 .. n + 1) = n + 1
    BY <1>2, FS_Interval
  <2>3. QED BY <1>2, <2>1, <2>2
<1> HIDE DEF n
<1>4. T \in SUBSET Nat
  BY <1>2
<1>5. PICK x \in T : \A y \in T : x <= y
  BY <1>3, <1>4, NatMin
<1>6. \A j \in 1 .. x - 1 : j \in UsedKex
  BY <1>2, <1>5
<1>7. NewKex \in 1 .. n + 1 /\ NewKex \notin UsedKex
  BY <1>5, <1>6 DEF NewKex, n
<1>8. QED BY <1>2, <1>7 DEF KeyIds

(* What it is new to. *)
LEMMA Fresh ==
    ASSUME Shape, NEW d \in Daemon, NEW k, k \notin UsedKex
    PROVE  /\ tun[d].cur # None => k # tun[d].cur.mine /\ k # tun[d].cur.his
           /\ \A m \in Inbox(d) : k \notin m.kex
<1>1. k \notin HeldKex(d)
  BY DEF UsedKex, Daemon
<1>2. tun[d].cur # None => KeyOf(tun[d].cur) \subseteq HeldKex(d)
  BY DEF HeldKex
<1>3. ASSUME NEW m \in Inbox(d) PROVE m.kex \subseteq HeldKex(d)
  <2>1. PICK i \in DOMAIN meta[d] : m = meta[d][i]
    BY DEF Inbox, Elems
  <2>2. QED BY <2>1 DEF HeldKex
<1>4. QED BY <1>1, <1>2, <1>3 DEF KeyOf

-----------------------------------------------------------------------------
(* Queues. *)

LEMMA QueueHead ==
    ASSUME NEW q \in Seq(Msg), q # <<>>
    PROVE  /\ Head(q) \in Elems(q) /\ Head(q) \in Msg
           /\ Tail(q) \in Seq(Msg) /\ Elems(Tail(q)) \subseteq Elems(q)
<1>1. Len(q) \in Nat /\ Len(q) >= 1 /\ DOMAIN q = 1 .. Len(q)
  OBVIOUS
<1>2. Head(q) = q[1] /\ 1 \in DOMAIN q
  BY <1>1
<1>3. Tail(q) \in Seq(Msg) /\ Len(Tail(q)) = Len(q) - 1
      /\ \A i \in 1 .. Len(q) - 1 : Tail(q)[i] = q[i + 1]
  BY <1>1
<1>4. Elems(Tail(q)) \subseteq Elems(q)
  BY <1>1, <1>3 DEF Elems
<1>5. Head(q) \in Elems(q)
  BY <1>2 DEF Elems
<1>6. Head(q) \in Msg
  BY <1>1, <1>2
<1>7. QED BY <1>3, <1>4, <1>5, <1>6

LEMMA QueueAdd ==
    ASSUME NEW q \in Seq(Msg), NEW m \in Msg
    PROVE  q \o <<m>> \in Seq(Msg) /\ Elems(q \o <<m>>) \subseteq Elems(q) \cup {m}
<1> DEFINE z == q \o <<m>>
<1>1. /\ z \in Seq(Msg) /\ Len(z) = Len(q) + 1 /\ Len(q) \in Nat
      /\ \A i \in 1 .. Len(z) : z[i] = IF i <= Len(q) THEN q[i] ELSE m
  OBVIOUS
<1>2. DOMAIN z = 1 .. Len(z) /\ DOMAIN q = 1 .. Len(q)
  BY <1>1
<1> HIDE DEF z
<1>3. \A i \in DOMAIN z : z[i] \in Elems(q) \cup {m}
  BY <1>1, <1>2 DEF Elems
<1>4. QED BY <1>1, <1>3 DEF Elems, z

(* What Send does to the queues q: at most one message, to the peer. *)
LEMMA SendOne ==
    ASSUME NEW d \in Daemon, NEW q \in [Daemon -> Seq(Msg)], NEW m \in Msg
    PROVE  LET z == Send(d, q, <<m>>) IN
           /\ z \in [Daemon -> Seq(Msg)] /\ z[d] = q[d]
           /\ Elems(z[Peer(d)]) \subseteq Elems(q[Peer(d)]) \cup {m}
<1> DEFINE z == Send(d, q, <<m>>)
           a == q[Peer(d)] \o <<m>>
<1>1. q[Peer(d)] \in Seq(Msg)
  BY Peers
<1>2. a \in Seq(Msg) /\ Elems(a) \subseteq Elems(q[Peer(d)]) \cup {m}
  BY <1>1, QueueAdd
<1>3. z = q \/ z = [q EXCEPT ![Peer(d)] = a]
  BY DEF Send
<1> HIDE DEF z, a
<1>4. QED BY <1>2, <1>3, Peers DEF z

LEMMA SendNone ==
    ASSUME NEW d \in Daemon, NEW q \in [Daemon -> Seq(Msg)]
    PROVE  Send(d, q, <<>>) = q
<1>1. q[Peer(d)] \o <<>> = q[Peer(d)]
  BY Peers
<1>2. [q EXCEPT ![Peer(d)] = q[Peer(d)]] = q
  BY Peers
<1>3. QED BY <1>1, <1>2 DEF Send

(* The queues after d has taken its next message. *)
LEMMA Taken ==
    ASSUME Shape, NEW d \in Daemon, meta[d] # <<>>
    PROVE  LET q == [meta EXCEPT ![d] = Tail(@)] IN
           /\ q \in [Daemon -> Seq(Msg)] /\ q[Peer(d)] = meta[Peer(d)]
           /\ Elems(q[d]) \subseteq Inbox(d)
           /\ Head(meta[d]) \in Inbox(d) /\ Head(meta[d]) \in Msg
<1>1. meta \in [Daemon -> Seq(Msg)]
  BY DEF Shape
<1>2. /\ Head(meta[d]) \in Elems(meta[d]) /\ Head(meta[d]) \in Msg
      /\ Tail(meta[d]) \in Seq(Msg) /\ Elems(Tail(meta[d])) \subseteq Elems(meta[d])
  BY <1>1, QueueHead
<1> DEFINE t == Tail(meta[d])
           q == [meta EXCEPT ![d] = t]
<1>3. q \in [Daemon -> Seq(Msg)] /\ q[d] = t /\ q[Peer(d)] = meta[Peer(d)]
  BY <1>1, <1>2, Peers
<1>4. QED BY <1>2, <1>3 DEF Inbox

LEMMA InboxType == Shape => \A d \in Daemon : Inbox(d) \subseteq Msg
BY DEF Shape, Inbox, Elems

LEMMA MsgTypes ==
    ASSUME NEW s \in Sess, NEW req \in {"REQ_KEY", "ANS_KEY"}
    PROVE  /\ Kex(req, s) \in Msg /\ Kex(req, s).seqno = 0 /\ Kex(req, s).kex = {s.mine}
           /\ Kex(req, s).req = req
           /\ s.his # None => /\ KeyOf(s) \in Key
                              /\ Sig(s) \in Msg /\ Sig(s).seqno = 1 /\ Sig(s).kex = KeyOf(s)
<1>1. s.mine \in KeyIds /\ s.his \in KeyIds \cup {None}
  BY DEF Sess
<1>2. {s.mine} \in Key
  BY <1>1, FS_Singleton DEF Key
<1>3. Kex(req, s) \in Msg /\ Kex(req, s).seqno = 0 /\ Kex(req, s).kex = {s.mine}
      /\ Kex(req, s).req = req
  BY <1>1, <1>2 DEF Kex, Msg
<1>4. ASSUME s.his # None PROVE KeyOf(s) \in Key
  BY <1>1, <1>4, PairFinite DEF KeyOf, Key
<1>5. ASSUME s.his # None PROVE Sig(s) \in Msg /\ Sig(s).seqno = 1 /\ Sig(s).kex = KeyOf(s)
  BY <1>4, <1>5 DEF Sig, Msg
<1>6. QED BY <1>3, <1>4, <1>5

-----------------------------------------------------------------------------
(* Tunnels. *)

(* A new session, over whatever there was. *)
LEMMA RestartOK ==
    ASSUME NEW t, HasParts(t), NEW s \in Sess, SessFits(s), ~s.up
    PROVE  LET r == Restart(t, s) IN
           /\ TunOK(r) /\ r.cur = s /\ ~r.valid
           /\ r.prevage \in {0, t.prevage} /\ (r.prev = None => t.prev = None /\ r.prevage = t.prevage)
<1> DEFINE a == Salvage(t)
           r == [a EXCEPT !.cur = s, !.valid = FALSE, !.waiting = TRUE, !.reqage = 0]
<1>1. t \in Tun /\ 0 \in 0 .. Never /\ s # None
  BY Constants DEF HasParts
<1>2. /\ a \in Tun /\ (a.prev # None => SessFits(a.prev) /\ a.prev.up)
      /\ a.prevage \in {0, t.prevage} /\ (a.prev = None => t.prev = None /\ a.prevage = t.prevage)
  <2>1. CASE t.cur # None /\ t.cur.up
    <3> DEFINE c == t.cur
    <3>1. a = [t EXCEPT !.prev = c, !.prevage = 0]
      BY <2>1 DEF Salvage
    <3>2. c \in Sess /\ c # None /\ SessFits(c) /\ c.up
      BY <1>1, <2>1 DEF HasParts, Tun
    <3> HIDE DEF c, a
    <3>3. a \in Tun /\ a.prev = c /\ a.prevage = 0
      BY <1>1, <3>1, <3>2 DEF Tun
    <3>4. QED BY <3>2, <3>3
  <2>2. CASE ~(t.cur # None /\ t.cur.up)
    BY <1>1, <2>2 DEF Salvage, HasParts
  <2>3. QED BY <2>1, <2>2
<1> HIDE DEF a
<1>3. /\ r \in Tun /\ r.cur = s /\ r.valid = FALSE /\ r.waiting = TRUE /\ r.prev = a.prev
      /\ r.prevage = a.prevage
  BY <1>1, <1>2 DEF Tun
<1>4. Restart(t, s) = r
  BY DEF Restart, a
<1> HIDE DEF r
<1>5. TunOK(r)
  BY <1>1, <1>2, <1>3 DEF TunOK, HasParts
<1>6. QED BY <1>2, <1>3, <1>4, <1>5

LEMMA OlderOK ==
    ASSUME NEW t, TunOK(t)
    PROVE  LET o == Older(t) IN
           /\ TunOK(o) /\ o.cur = t.cur /\ o.valid = t.valid /\ o.waiting = t.waiting
           /\ (o.prev = None => o.prevage = 0)
           /\ o.reqage = IF t.reqage >= AgeCap THEN t.reqage ELSE t.reqage + 1
<1> DEFINE n == IF t.reqage >= AgeCap THEN t.reqage ELSE t.reqage + 1
           a == IF t.prev = None THEN 0 ELSE t.prevage + 1
           o == [t EXCEPT !.reqage = n, !.prevage = a]
<1>1. t \in Tun /\ t.reqage \in 0 .. Never /\ t.prevage \in Nat
  BY DEF TunOK, HasParts, Tun
<1>2. n \in 0 .. Never /\ a \in Nat
  BY <1>1, Constants
<1>3. Older(t) = o
  BY DEF Older
<1>4. t.prev = None => a = 0
  OBVIOUS
<1>5. n = IF t.reqage >= AgeCap THEN t.reqage ELSE t.reqage + 1
  OBVIOUS
<1> HIDE DEF n, a
<1>6. /\ o \in Tun /\ o.cur = t.cur /\ o.valid = t.valid /\ o.waiting = t.waiting /\ o.prev = t.prev
      /\ o.reqage = n /\ o.prevage = a
  BY <1>1, <1>2 DEF Tun
<1> HIDE DEF o
<1>7. TunOK(o)
  BY <1>6 DEF TunOK, HasParts
<1>8. QED BY <1>3, <1>4, <1>5, <1>6, <1>7

LEMMA ReapOK ==
    ASSUME NEW t, TunOK(t), t.prev = None => t.prevage = 0
    PROVE  TunOK(Reap(t)) /\ Reap(t).cur = t.cur /\ Reap(t).prevage <= KeyLifetime
<1>1. t \in Tun /\ t.prevage \in Nat /\ KeyLifetime \in Nat
  BY Constants DEF TunOK, HasParts, Tun
<1>2. CASE t.prev # None /\ ShouldReap(t)
  <2> DEFINE r == [t EXCEPT !.prev = None, !.prevage = 0]
  <2>1. Reap(t) = r
    BY <1>2 DEF Reap
  <2>2. /\ r \in Tun /\ r.cur = t.cur /\ r.valid = t.valid /\ r.waiting = t.waiting
        /\ r.prev = None /\ r.prevage = 0
    BY <1>1 DEF Tun
  <2> HIDE DEF r
  <2>3. TunOK(r)
    BY <2>2 DEF TunOK, HasParts
  <2>4. QED BY <1>1, <2>1, <2>2, <2>3
<1>3. CASE ~(t.prev # None /\ ShouldReap(t))
  BY <1>1, <1>3 DEF Reap, ShouldReap
<1>4. QED BY <1>2, <1>3

(* Sptps::receive in order. *)
LEMMA ReceivedOK ==
    ASSUME NEW s \in Sess, SessFits(s), NEW m \in Msg, InOrder(s, m)
    PROVE  LET r == Received(s, m) IN
           /\ r \in Sess /\ SessFits(r) /\ r.mine = s.mine /\ r.role = s.role
           /\ m.seqno = 0 => /\ s.his = None /\ s.role = "I" /\ r.his # None /\ ~r.up
                             /\ m.kex = {r.his}
           /\ m.seqno = 1 => s.his # None /\ r.his = s.his /\ r.up = SigOk(s, m)
<1> DEFINE h == IF m.seqno = 0 THEN CHOOSE k \in m.kex : TRUE ELSE s.his
           u == SigOk(s, m)
           n == s.inseqno + 1
           r == [s EXCEPT !.inseqno = n, !.his = h, !.up = u]
<1>1. Received(s, m) = r
  BY DEF Received
<1>2. /\ s.inseqno \in 0 .. 2 /\ m.seqno \in {0, 1} /\ ~s.up /\ m.seqno = s.inseqno
      /\ s.his \in KeyIds \cup {None}
  BY DEF Sess, Msg, InOrder
<1>3. n \in 0 .. 2 /\ n # 0
  BY <1>2
<1>4. u \in BOOLEAN /\ (m.seqno = 0 => u = FALSE)
  BY DEF SigOk
<1>5. h \in KeyIds /\ (m.seqno = 0 => m.kex = {h}) /\ (m.seqno = 1 => h = s.his /\ s.his # None)
  <2>1. CASE m.seqno = 0
    <3>1. PICK k \in KeyIds : m.kex = {k}
      BY <2>1 DEF Msg
    <3>2. h = k
      BY <2>1, <3>1
    <3>3. QED BY <2>1, <3>1, <3>2
  <2>2. CASE m.seqno = 1
    BY <1>2, <2>2 DEF SessFits
  <2>3. QED BY <1>2, <2>1, <2>2
<1>6. u = SigOk(s, m)
  OBVIOUS
<1> HIDE DEF h, u, n
<1>7. r \in Sess /\ r.mine = s.mine /\ r.role = s.role /\ r.his = h /\ r.up = u /\ r.inseqno = n
  BY <1>3, <1>4, <1>5 DEF Sess
<1> HIDE DEF r
<1>8. SessFits(r) /\ r.his # None
  BY <1>3, <1>5, <1>7, Constants DEF SessFits
<1>9. m.seqno = 0 => s.his = None /\ s.role = "I"
  BY <1>2 DEF SessFits
<1>10. m.seqno = 0 => ~r.up
  BY <1>4, <1>7
<1>11. m.seqno = 1 => r.up = SigOk(s, m) /\ r.his = s.his /\ s.his # None
  BY <1>5, <1>6, <1>7
<1>12. m.seqno = 0 => m.kex = {r.his}
  BY <1>5, <1>7
<1>13. QED BY <1>1, <1>7, <1>8, <1>9, <1>10, <1>11, <1>12

(* The session of a tunnel goes on, or is done: dispatch_tunnel_outputs.   *)
LEMMA DispatchOK ==
    ASSUME NEW t, TunOK(t), t.cur # None, ~t.cur.up, NEW r \in Sess, SessFits(r)
    PROVE  /\ TunOK(Dispatch(t, r)) /\ Dispatch(t, r).cur = r
           /\ Dispatch(t, r).prevage = t.prevage
           /\ ~r.up => TunOK([t EXCEPT !.cur = r])
<1>1. t \in Tun /\ t.waiting /\ ~t.valid /\ r # None
  BY Constants DEF TunOK, HasParts
<1> DEFINE a == [t EXCEPT !.cur = r]
           k == KeyOf(r)
           b == [t EXCEPT !.cur = r, !.valid = TRUE, !.waiting = FALSE, !.handles = k]
<1>2. a \in Tun /\ a.cur = r /\ a.waiting = t.waiting /\ a.valid = t.valid /\ a.prev = t.prev
      /\ a.prevage = t.prevage
  BY <1>1 DEF Tun
<1>3. ~r.up => TunOK(a)
  <2> HIDE DEF a
  <2>1. QED BY <1>1, <1>2 DEF TunOK, HasParts
<1>4. CASE ~r.up
  BY <1>2, <1>3, <1>4 DEF Dispatch
<1>5. CASE r.up
  <2>1. k \in Key
    BY <1>5, MsgTypes DEF SessFits
  <2>2. Dispatch(t, r) = b
    BY <1>5 DEF Dispatch
  <2> HIDE DEF k
  <2>3. b \in Tun /\ b.cur = r /\ b.waiting = FALSE /\ b.valid = TRUE /\ b.prev = t.prev
        /\ b.prevage = t.prevage
    BY <1>1, <2>1 DEF Tun
  <2> HIDE DEF b
  <2>4. TunOK(b)
    BY <1>1, <1>5, <2>3 DEF TunOK, HasParts
  <2>5. QED BY <1>5, <2>2, <2>3, <2>4
<1>6. QED BY <1>3, <1>4, <1>5

-----------------------------------------------------------------------------
(* The argument for agreement, in three steps. *)

(* Forgetting sessions and losing messages does no harm. *)
LEMMA LinksSame ==
    ASSUME Links,
           \A d \in Daemon : tun'[d].cur \in {tun[d].cur, None} /\ Inbox(d)' \subseteq Inbox(d)
    PROVE  Links'
<1>1. ASSUME NEW d \in Daemon PROVE Linked(d)'
  <2>1. Linked(d)
    BY DEF Links
  <2>2. QED BY <2>1, Peers DEF Linked
<1>2. ASSUME NEW d \in Daemon, Armed(d)' PROVE Armed(d) /\ tun'[d].cur = tun[d].cur
  <2>1. tun'[d].cur # None /\ tun'[d].cur = tun[d].cur
    BY <1>2 DEF Armed
  <2>2. QED BY <1>2, <2>1 DEF Armed, SigOk
<1>3. Agreed'
  BY <1>2 DEF Agreed, Links, Daemon
<1>4. QED BY <1>1, <1>3 DEF Links

(* A session with a new KEX is not armed, and takes the role that fits     *)
(* what it answers.                                                        *)
LEMMA LinksNew ==
    ASSUME Shape, Links, NEW d \in Daemon,
           NEW s \in Sess, s.mine \notin UsedKex, SessFits(s), ~s.up,
           NEW req \in {"REQ_KEY", "ANS_KEY"}, req = "REQ_KEY" <=> s.role = "I",
           s.role = "R" => \E m \in Inbox(d) : m.req = "REQ_KEY" /\ m.seqno = 0 /\ m.kex = {s.his},
           s.role = "I" => s.his = None,
           tun'[d].cur = s, tun'[Peer(d)].cur = tun[Peer(d)].cur,
           Inbox(d)' \subseteq Inbox(d),
           Inbox(Peer(d))' \subseteq Inbox(Peer(d)) \cup {Kex(req, s)}
    PROVE  Links'
<1> DEFINE p == Peer(d)
           r == tun[p].cur
           k == Kex(req, s)
<1>1. p \in Daemon /\ p # d /\ Peer(p) = d /\ Daemon = {d, p}
  BY Peers
<1>2. k.seqno = 0 /\ k.kex = {s.mine} /\ k.req = req
  BY MsgTypes
<1>3. s # None /\ s.mine # None
  BY Constants DEF Sess
<1>4. \A m \in Inbox(d) \cup Inbox(p) : s.mine \notin m.kex
  BY <1>1, Fresh
<1>5. r # None => s.mine # r.mine /\ s.mine # r.his
  BY <1>1, Fresh
<1> HIDE DEF k, p, r
<1>6. Inbox(p)' \subseteq Inbox(p) \cup {k} /\ tun'[p].cur = r /\ tun[p].cur = r
  BY DEF p, k, r
<1>7. Linked(d)'
  <2>1. \A m \in Inbox(p)' : m.seqno = 0 /\ m.kex = {s.mine} => (m.req = "REQ_KEY" <=> s.role = "I")
    BY <1>2, <1>4, <1>6
  <2>2. \A m \in Inbox(d)' \cup Inbox(p)' : m.seqno = 1 => s.mine \notin m.kex
    BY <1>2, <1>4, <1>6
  <2>3. QED BY <1>5, <1>6, <2>1, <2>2 DEF Linked, p
<1>8. Linked(p)'
  <2> SUFFICES ASSUME r # None PROVE Linked(p)'
    BY <1>6 DEF Linked
  <2>1. Linked(p)
    BY <1>1 DEF Links
  <2>2. \A m \in Inbox(d) : m.seqno = 0 /\ m.kex = {r.mine} => (m.req = "REQ_KEY" <=> r.role = "I")
    BY <1>1, <1>6, <2>1 DEF Linked
  <2>3. s.his = r.mine => r.role # s.role
    <3>1. CASE s.role = "R"
      BY <2>2, <3>1
    <3>2. CASE s.role = "I"
      <4>1. r.mine \in KeyIds
        BY <1>1, <1>6 DEF Shape, Tun, Sess
      <4>2. QED BY <3>2, <4>1, Constants
    <3>3. QED BY <3>1, <3>2 DEF Sess
  <2>4. ASSUME r.his = None
        PROVE  \A m \in Inbox(d)' \cup Inbox(p)' : m.seqno = 1 => r.mine \notin m.kex
    <3>1. \A m \in Inbox(d) \cup Inbox(p) : m.seqno = 1 => r.mine \notin m.kex
      BY <1>1, <1>6, <2>1, <2>4 DEF Linked
    <3>2. QED BY <1>2, <1>6, <3>1
  <2>5. QED BY <1>1, <1>5, <1>6, <2>2, <2>3, <2>4 DEF Linked
<1>9. ~Armed(d)'
  <2>1. \A m \in Inbox(d)' : s.mine \notin m.kex
    BY <1>4
  <2>2. QED BY <2>1 DEF Armed, SigOk, KeyOf
<1>10. Agreed'
  BY <1>9 DEF Agreed, Daemon
<1>11. QED BY <1>1, <1>7, <1>8, <1>10 DEF Links

(* A session takes in a KEX or a good signature and answers.               *)
LEMMA LinksReceive ==
    ASSUME Shape, Links, \A e \in Daemon : TunOK(tun[e]), NEW d \in Daemon, tun[d].cur # None,
           NEW m \in Inbox(d), m.req = "ANS_KEY", InOrder(tun[d].cur, m),
           tun'[d].cur = Received(tun[d].cur, m), tun'[Peer(d)].cur = tun[Peer(d)].cur,
           Inbox(d)' \subseteq Inbox(d),
           Inbox(Peer(d))' \subseteq Inbox(Peer(d)) \cup Elems(Answers(tun[d].cur, m))
    PROVE  Links'
<1> DEFINE p == Peer(d)
           s == tun[d].cur
           r == tun[p].cur
           z == Received(s, m)
<1>1. p \in Daemon /\ p # d /\ Peer(p) = d /\ Daemon = {d, p}
  BY Peers
<1>2. s \in Sess /\ SessFits(s) /\ m \in Msg /\ m.seqno \in {0, 1} /\ InOrder(s, m)
  BY InboxType DEF TunOK, HasParts, Tun, Msg
<1>3. /\ z \in Sess /\ z.mine = s.mine /\ z.role = s.role /\ z # None
      /\ m.seqno = 0 => /\ s.his = None /\ s.role = "I" /\ z.his # None /\ ~z.up
                        /\ m.kex = {z.his}
      /\ m.seqno = 1 => s.his # None /\ z.his = s.his /\ z.up = SigOk(s, m)
  BY <1>2, ReceivedOK, Constants
<1>4. Sig(z).seqno = 1 /\ Sig(z).kex = {z.mine, z.his}
  BY DEF Sig, KeyOf
<1>5. /\ \A x \in Elems(Answers(s, m)) : x = Sig(z)
      /\ Elems(Answers(s, m)) # {} => m.seqno = 0 \/ (SigOk(s, m) /\ s.role = "R")
  BY DEF Answers, Elems
<1>6. Linked(d) /\ Linked(p)
  BY <1>1 DEF Links
<1>7. /\ Inbox(p)' \subseteq Inbox(p) \cup Elems(Answers(s, m)) /\ Inbox(d)' \subseteq Inbox(d)
      /\ tun'[p].cur = r /\ tun'[d].cur = z /\ s # None
  OBVIOUS
<1>8. z.his # None
  BY <1>2, <1>3
<1> HIDE DEF z
<1>9. /\ \A x \in Inbox(p) : x.seqno = 0 /\ x.kex = {s.mine} => (x.req = "REQ_KEY" <=> s.role = "I")
      /\ r # None => r.mine # s.mine /\ (r.his = s.mine => r.role # s.role)
      /\ s.his = None => \A x \in Inbox(d) \cup Inbox(p) : x.seqno = 1 => s.mine \notin x.kex
  BY <1>6 DEF Linked
<1>10. r # None =>
         /\ \A x \in Inbox(d) : x.seqno = 0 /\ x.kex = {r.mine} => (x.req = "REQ_KEY" <=> r.role = "I")
         /\ s.his = r.mine => r.role # s.role
         /\ r.his = None => \A x \in Inbox(d) \cup Inbox(p) : x.seqno = 1 => r.mine \notin x.kex
         /\ r.his = None => r.role = "I"
         /\ r.role \in {"I", "R"}
         /\ r.his = None /\ s.his = r.mine => ~s.up
  <2>1. r # None => r \in Sess /\ SessFits(r)
    BY <1>1 DEF Shape, Tun, TunOK, HasParts
  <2>2. QED BY <1>1, <1>6, <1>7, <2>1 DEF Linked, SessFits, Sess
<1> HIDE DEF s, r, p
<1>11. Linked(d)'
  <2>1. \A x \in Inbox(p)' : x.seqno = 0 /\ x.kex = {z.mine} => (x.req = "REQ_KEY" <=> z.role = "I")
    BY <1>3, <1>4, <1>5, <1>7, <1>9
  <2>2. r # None => r.mine # z.mine /\ (r.his = z.mine => r.role # z.role)
    BY <1>3, <1>9
  <2>3. QED BY <1>7, <1>8, <2>1, <2>2 DEF Linked, p
(* What d may have learned from m of a peer that has signed nothing. *)
<1>12. ASSUME r # None, r.his = None, z.his = r.mine PROVE m.seqno = 1 /\ ~SigOk(s, m)
  <2>1. m.seqno # 0
    BY <1>3, <1>10, <1>12
  <2>2. m.seqno = 1 /\ s.his = r.mine
    BY <1>2, <1>3, <1>12, <2>1
  <2>3. r.mine \notin m.kex
    BY <1>10, <1>12, <2>2
  <2>4. QED BY <2>2, <2>3 DEF SigOk, KeyOf
<1>13. Linked(p)'
  <2> SUFFICES ASSUME r # None PROVE Linked(p)'
    BY <1>7 DEF Linked
  <2>1. \A x \in Inbox(d)' : x.seqno = 0 /\ x.kex = {r.mine} => (x.req = "REQ_KEY" <=> r.role = "I")
    BY <1>7, <1>10
  <2>2. z.mine # r.mine
    BY <1>3, <1>9
  <2>3. z.his = r.mine => z.role # r.role
    <3>1. CASE m.seqno = 0
      BY <1>3, <1>10, <3>1
    <3>2. CASE m.seqno = 1
      BY <1>3, <1>10, <3>2
    <3>3. QED BY <1>2, <3>1, <3>2
  <2>4. ASSUME r.his = None, NEW x \in Inbox(d)' \cup Inbox(p)', x.seqno = 1 PROVE r.mine \notin x.kex
    <3>1. CASE x \in Inbox(d) \cup Inbox(p)
      BY <1>10, <2>4, <3>1
    <3>2. CASE x = Sig(z) /\ (m.seqno = 0 \/ SigOk(s, m))
      BY <1>4, <1>12, <2>2, <2>4, <3>2
    <3>3. QED BY <1>5, <1>7, <3>1, <3>2
  <2>5. r.his = None /\ z.his = r.mine => ~z.up
    BY <1>3, <1>12
  <2>6. QED BY <1>1, <1>7, <2>1, <2>2, <2>3, <2>4, <2>5 DEF Linked
<1>14. ASSUME Armed(d)', Armed(p)' PROVE z.his = r.mine /\ r.his = z.mine
  <2>1. CASE m.seqno = 0
    <3>1. ~z.up /\ s.his = None
      BY <1>3, <2>1
    <3>2. PICK x \in Inbox(d)' : SigOk(z, x)
      BY <1>7, <1>14, <3>1 DEF Armed
    <3>3. x \in Inbox(d) /\ x.seqno = 1 /\ s.mine \in x.kex
      BY <1>3, <1>7, <3>2 DEF SigOk, KeyOf
    <3>4. QED BY <1>9, <3>1, <3>3
  <2>2. CASE m.seqno = 1
    <3>1. z.his = s.his /\ z.up = SigOk(s, m) /\ z.mine = s.mine
      BY <1>3, <2>2
    <3>2. Armed(d)
      <4>1. CASE z.up
        BY <1>7, <3>1, <4>1 DEF Armed, s
      <4>2. CASE \E x \in Inbox(d)' : SigOk(z, x)
        BY <1>7, <3>1, <4>2 DEF Armed, SigOk, KeyOf, s
      <4>3. QED BY <1>7, <1>14, <4>1, <4>2 DEF Armed
    <3>3. CASE Armed(p)
      <4>1. s.his = r.mine /\ r.his = s.mine
        BY <1>1, <3>2, <3>3 DEF Links, Agreed, Daemon, s, r
      <4>2. QED BY <3>1, <4>1
    <3>4. CASE ~Armed(p)
      <4>1. r # None /\ SigOk(r, Sig(z))
        <5>1. r # None /\ ~r.up
          BY <1>7, <1>14, <3>4 DEF Armed, r
        <5>2. PICK x \in Inbox(p)' : SigOk(r, x)
          BY <1>7, <1>14, <5>1 DEF Armed
        <5>3. x \notin Inbox(p)
          BY <3>4, <5>1, <5>2 DEF Armed, r
        <5>4. QED BY <1>5, <1>7, <5>1, <5>2, <5>3
      <4>2. {r.mine, r.his} = {z.mine, z.his} /\ r.mine # z.mine
        BY <1>3, <1>4, <1>9, <4>1 DEF SigOk, KeyOf
      <4>3. QED BY <4>2
    <3>5. QED BY <3>3, <3>4
  <2>3. QED BY <1>2, <2>1, <2>2
<1>15. Agreed'
  BY <1>1, <1>7, <1>14 DEF Agreed, Daemon
<1>16. QED BY <1>1, <1>11, <1>13, <1>15 DEF Links

-----------------------------------------------------------------------------
(* The steps. What the control plane changes, and the rest. *)

Core ==
    /\ tun \in [Daemon -> Tun] /\ meta \in [Daemon -> Seq(Msg)]
    /\ \A d \in Daemon : TunOK(tun[d]) /\ tun[d].prevage <= KeyLifetime
    /\ Links

Rest ==
    /\ snap \in [Daemon -> Key \cup {None}]
    /\ reach \in [Daemon -> BOOLEAN]
    /\ udp \in [Daemon -> {u \in SUBSET Key : IsFiniteSet(u)}]
    /\ faults \in [rekey : Nat, loss : Nat, reset : Nat, late : Nat]
    /\ Bounds

LEMMA Parts == IInv <=> Core /\ Rest
BY DEF IInv, Shape, Core, Rest

LEMMA PartsNext == Core' /\ Rest' => IInv'
BY DEF IInv, Shape, Core, Rest

LEMMA CoreSame == Core /\ UNCHANGED <<tun, meta>> => Core'
<1> SUFFICES ASSUME Core, UNCHANGED <<tun, meta>> PROVE Core'
  OBVIOUS
<1>1. Links'
  BY LinksSame DEF Core, Inbox
<1>2. QED BY <1>1 DEF Core

LEMMA RestSame == Rest /\ UNCHANGED <<snap, reach, udp, faults>> => Rest'
BY DEF Rest, Bounds

(* d's tunnel becomes r. *)
LEMMA CorePut ==
    ASSUME Core, NEW d \in Daemon, NEW r, TunOK(r), r.prevage <= KeyLifetime,
           tun' = [tun EXCEPT ![d] = r], meta' \in [Daemon -> Seq(Msg)], Links'
    PROVE  Core'
<1>1. r \in Tun
  BY DEF TunOK, HasParts
<1>2. tun' \in [Daemon -> Tun] /\ \A e \in Daemon : tun'[e] = IF e = d THEN r ELSE tun[e]
  BY <1>1 DEF Core
<1>3. \A e \in Daemon : TunOK(tun'[e]) /\ tun'[e].prevage <= KeyLifetime
  BY <1>2 DEF Core
<1>4. QED BY <1>2, <1>3 DEF Core

LEMMA NewSession ==
    ASSUME Shape
    PROVE  LET s == Session("I", NewKex) IN
           /\ s \in Sess /\ SessFits(s) /\ ~s.up /\ s.mine \notin UsedKex /\ s.mine = NewKex
           /\ s.role = "I" /\ s.his = None
<1> DEFINE k == NewKex
           s == Session("I", k)
<1>1. k \in KeyIds /\ k \notin UsedKex /\ 0 \in 0 .. 2
  BY NewKexFresh
<1> HIDE DEF k
<1>2. /\ s \in Sess /\ s.role = "I" /\ s.mine = k /\ s.his = None /\ s.inseqno = 0 /\ s.up = FALSE
  BY <1>1 DEF Session, Sess
<1> HIDE DEF s
<1>3. SessFits(s)
  BY <1>2 DEF SessFits
<1>4. QED BY <1>1, <1>2, <1>3 DEF s, k

(* d becomes the initiator of a new session, in tunnel state r. *)
LEMMA StepNew ==
    ASSUME IInv, NEW d \in Daemon, NEW r, TunOK(r), r.prevage <= KeyLifetime,
           r.cur = Session("I", NewKex),
           NEW q \in [Daemon -> Seq(Msg)], \A e \in Daemon : Elems(q[e]) \subseteq Inbox(e),
           tun' = [tun EXCEPT ![d] = r],
           meta' = Send(d, q, <<Kex("REQ_KEY", Session("I", NewKex))>>)
    PROVE  Core'
<1> DEFINE s == Session("I", NewKex)
           m == Kex("REQ_KEY", s)
<1>1. Shape /\ Links /\ Core
  BY Parts DEF IInv
<1>2. s \in Sess /\ SessFits(s) /\ ~s.up /\ s.mine \notin UsedKex /\ s.role = "I" /\ s.his = None
  BY <1>1, NewSession
<1>3. r.cur = s /\ meta' = Send(d, q, <<m>>)
  OBVIOUS
<1> HIDE DEF s
<1>4. m \in Msg
  BY <1>2, MsgTypes
<1> HIDE DEF m
<1>5. /\ meta' \in [Daemon -> Seq(Msg)] /\ meta'[d] = q[d]
      /\ Elems(meta'[Peer(d)]) \subseteq Elems(q[Peer(d)]) \cup {m}
  <2> DEFINE z == Send(d, q, <<m>>)
  <2>1. /\ z \in [Daemon -> Seq(Msg)] /\ z[d] = q[d]
        /\ Elems(z[Peer(d)]) \subseteq Elems(q[Peer(d)]) \cup {m}
    BY <1>4, SendOne
  <2> HIDE DEF z
  <2>2. QED BY <1>3, <2>1 DEF z
<1>6. tun'[d].cur = s /\ tun'[Peer(d)].cur = tun[Peer(d)].cur
  BY <1>1, <1>3, Peers DEF Core
<1>7. Inbox(d)' \subseteq Inbox(d) /\ Inbox(Peer(d))' \subseteq Inbox(Peer(d)) \cup {m}
  BY <1>5, Peers DEF Inbox
<1>8. Inbox(Peer(d))' \subseteq Inbox(Peer(d)) \cup {Kex("REQ_KEY", s)}
  BY <1>7 DEF m
<1>9. Links'
  BY <1>1, <1>2, <1>6, <1>7, <1>8, LinksNew
<1>10. QED BY <1>1, <1>5, <1>9, CorePut

(* send_req_key, from a tunnel that is d's or d's without its session. *)
LEMMA StepSendReqKey ==
    ASSUME IInv, NEW d \in Daemon, NEW t, HasParts(t), t.prevage <= KeyLifetime,
           NEW q \in [Daemon -> Seq(Msg)], \A e \in Daemon : Elems(q[e]) \subseteq Inbox(e),
           SendReqKey(d, t, q)
    PROVE  Core'
<1> DEFINE s == Session("I", NewKex)
           r == Restart(t, s)
<1>1. s \in Sess /\ SessFits(s) /\ ~s.up
  BY NewSession DEF IInv
<1>2. tun' = [tun EXCEPT ![d] = r] /\ meta' = Send(d, q, <<Kex("REQ_KEY", s)>>)
  BY DEF SendReqKey
<1>3. TunOK(r) /\ r.cur = s /\ r.prevage \in {0, t.prevage}
  <2> HIDE DEF s
  <2>1. QED BY <1>1, RestartOK
<1> HIDE DEF r
<1>4. r.prevage <= KeyLifetime
  BY <1>3, Constants
<1>5. QED BY <1>2, <1>3, <1>4, StepNew

(* Messages only leave the queues, sessions stay. *)
LEMMA StepQuiet ==
    ASSUME IInv, NEW q \in [Daemon -> Seq(Msg)], \A e \in Daemon : Elems(q[e]) \subseteq Inbox(e),
           meta' = q, UNCHANGED tun
    PROVE  Core'
<1>1. \A e \in Daemon : tun'[e].cur \in {tun[e].cur, None} /\ Inbox(e)' \subseteq Inbox(e)
  BY DEF Inbox
<1>2. Links'
  BY <1>1, LinksSame DEF IInv
<1>3. QED BY <1>2, Parts DEF Core

LEMMA MineOK == IInv => \A d \in Daemon : /\ HasParts(tun[d]) /\ TunOK(tun[d])
                                          /\ tun[d].prevage <= KeyLifetime
BY DEF IInv, TunOK

LEMMA StepMaybeRestart ==
    ASSUME IInv, NEW d \in Daemon, NEW q \in [Daemon -> Seq(Msg)],
           \A e \in Daemon : Elems(q[e]) \subseteq Inbox(e), MaybeRestart(d, q)
    PROVE  Core'
<1>1. CASE SendReqKey(d, tun[d], q)
  BY <1>1, MineOK, StepSendReqKey
<1>2. CASE meta' = q /\ UNCHANGED tun
  BY <1>2, StepQuiet
<1>3. QED BY <1>1, <1>2 DEF MaybeRestart

(* The queues as they are, and with d's next message taken. *)
LEMMA Unmoved == IInv => meta \in [Daemon -> Seq(Msg)] /\ \A e \in Daemon : Elems(meta[e]) \subseteq Inbox(e)
BY DEF IInv, Shape, Inbox

LEMMA TakenAll ==
    ASSUME IInv, NEW d \in Daemon, meta[d] # <<>>
    PROVE  LET q == [meta EXCEPT ![d] = Tail(@)] IN
           /\ q \in [Daemon -> Seq(Msg)] /\ \A e \in Daemon : Elems(q[e]) \subseteq Inbox(e)
<1> DEFINE q == [meta EXCEPT ![d] = Tail(@)]
<1>1. q \in [Daemon -> Seq(Msg)] /\ q[Peer(d)] = meta[Peer(d)] /\ Elems(q[d]) \subseteq Inbox(d)
  BY Taken DEF IInv
<1> HIDE DEF q
<1>2. \A e \in Daemon : Elems(q[e]) \subseteq Inbox(e)
  BY <1>1, Peers DEF Inbox
<1>3. QED BY <1>1, <1>2 DEF q

LEMMA StepOnReqKey ==
    ASSUME IInv, NEW d \in Daemon, OnReqKey(d)
    PROVE  IInv'
<1> DEFINE m == Head(meta[d])
           q == [meta EXCEPT ![d] = Tail(@)]
           h == CHOOSE k \in m.kex : TRUE
           s == [Session("R", NewKex) EXCEPT !.his = h, !.inseqno = 1]
           r == Restart(tun[d], s)
           x == Kex("ANS_KEY", s)
<1>1. /\ meta[d] # <<>> /\ m.req = "REQ_KEY" /\ UNCHANGED <<snap, reach, udp, faults>>
      /\ \/ meta' = q /\ UNCHANGED tun
         \/ tun' = [tun EXCEPT ![d] = r] /\ meta' = Send(d, q, <<x>>)
  BY DEF OnReqKey
<1>2. Shape /\ Links /\ Core /\ Rest /\ KeyLifetime \in Nat
  BY Parts, Constants DEF IInv
<1>3. Rest'
  BY <1>1, <1>2, RestSame
<1>4. q \in [Daemon -> Seq(Msg)] /\ (\A e \in Daemon : Elems(q[e]) \subseteq Inbox(e))
  BY <1>1, TakenAll
<1>5. m \in Inbox(d) /\ m \in Msg
  BY <1>1, <1>2, Taken
<1> HIDE DEF q, m
<1>6. CASE meta' = q /\ UNCHANGED tun
  BY <1>3, <1>4, <1>6, StepQuiet, PartsNext
<1>7. CASE tun' = [tun EXCEPT ![d] = r] /\ meta' = Send(d, q, <<x>>)
  <2>1. m.seqno = 0 /\ h \in KeyIds /\ m.kex = {h}
    <3>1. m.seqno = 0
      BY <1>1, <1>5 DEF Msg
    <3>2. PICK k \in KeyIds : m.kex = {k}
      BY <1>5, <3>1 DEF Msg
    <3>3. h = k
      BY <3>2
    <3>4. QED BY <3>1, <3>2, <3>3
  <2> HIDE DEF h
  <2>2. /\ s \in Sess /\ s.mine \notin UsedKex /\ s.role = "R" /\ s.his = h /\ s.inseqno = 1
        /\ s.up = FALSE
    <3> DEFINE k == NewKex
    <3>1. k \in KeyIds /\ k \notin UsedKex /\ 1 \in 0 .. 2 /\ 0 \in 0 .. 2
      BY <1>2, NewKexFresh
    <3> HIDE DEF k
    <3>2. s = [[role |-> "R", mine |-> k, his |-> None, inseqno |-> 0, up |-> FALSE]
                 EXCEPT !.his = h, !.inseqno = 1]
      BY DEF Session, k
    <3>3. QED BY <2>1, <3>1, <3>2 DEF Sess
  <2>3. SessFits(s) /\ ~s.up
    <3> HIDE DEF s
    <3>1. QED BY <2>1, <2>2, Constants DEF SessFits
  <2> HIDE DEF s
  <2>4. TunOK(r) /\ r.cur = s /\ r.prevage \in {0, tun[d].prevage}
    BY <2>2, <2>3, RestartOK, MineOK
  <2>5. x \in Msg
    BY <2>2, MsgTypes
  <2> HIDE DEF x, r
  <2>6. /\ meta' \in [Daemon -> Seq(Msg)] /\ meta'[d] = q[d]
        /\ Elems(meta'[Peer(d)]) \subseteq Elems(q[Peer(d)]) \cup {x}
    BY <1>4, <1>7, <2>5, SendOne
  <2>7. tun'[d].cur = s /\ tun'[Peer(d)].cur = tun[Peer(d)].cur
    BY <1>2, <1>7, <2>4, Peers DEF Core
  <2>8. Inbox(d)' \subseteq Inbox(d) /\ Inbox(Peer(d))' \subseteq Inbox(Peer(d)) \cup {x}
    BY <1>4, <2>6, Peers DEF Inbox
  <2>9. \E e \in Inbox(d) : e.req = "REQ_KEY" /\ e.seqno = 0 /\ e.kex = {s.his}
    BY <1>1, <1>5, <2>1, <2>2
  <2>10. Links'
    BY <1>2, <2>2, <2>3, <2>7, <2>8, <2>9, LinksNew DEF x
  <2>11. r.prevage <= KeyLifetime
    BY <1>2, <2>4, MineOK
  <2>12. QED BY <1>2, <1>3, <1>7, <2>4, <2>6, <2>10, <2>11, CorePut, PartsNext
<1>8. QED BY <1>1, <1>6, <1>7

LEMMA AnswersType ==
    ASSUME NEW s \in Sess, SessFits(s), NEW m \in Msg, InOrder(s, m), NEW d \in Daemon,
           NEW q \in [Daemon -> Seq(Msg)]
    PROVE  LET z == Send(d, q, Answers(s, m)) IN
           /\ z \in [Daemon -> Seq(Msg)] /\ z[d] = q[d]
           /\ Elems(z[Peer(d)]) \subseteq Elems(q[Peer(d)]) \cup Elems(Answers(s, m))
<1> DEFINE r == Received(s, m)
           x == Sig(r)
<1>1. r \in Sess /\ r.his # None
  <2>1. m.seqno \in {0, 1}
    BY DEF Msg
  <2>2. QED BY <2>1, ReceivedOK
<1>2. x \in Msg
  BY <1>1, MsgTypes
<1>3. CASE Answers(s, m) = <<x>>
  <2> HIDE DEF x
  <2>1. Elems(<<x>>) = {x}
    BY DEF Elems
  <2>2. LET z == Send(d, q, <<x>>) IN
        /\ z \in [Daemon -> Seq(Msg)] /\ z[d] = q[d]
        /\ Elems(z[Peer(d)]) \subseteq Elems(q[Peer(d)]) \cup {x}
    BY <1>2, SendOne
  <2>3. QED BY <1>3, <2>1, <2>2
<1>4. CASE Answers(s, m) = <<>>
  BY <1>4, SendNone
<1>5. QED BY <1>3, <1>4 DEF Answers

LEMMA StepOnAnsKey ==
    ASSUME IInv, NEW d \in Daemon, OnAnsKey(d)
    PROVE  IInv'
<1> DEFINE m == Head(meta[d])
           q == [meta EXCEPT ![d] = Tail(@)]
           s == tun[d].cur
           r == Received(s, m)
           t == [tun[d] EXCEPT !.cur = r]
           c == Dispatch(tun[d], r)
<1>1. /\ meta[d] # <<>> /\ m.req = "ANS_KEY" /\ UNCHANGED <<snap, reach, udp, faults>>
      /\ \/ SendReqKey(d, tun[d], q)
         \/ MaybeRestart(d, q)
         \/ /\ s # None /\ InOrder(s, m) /\ m.seqno = 1 /\ ~SigOk(s, m)
            /\ \/ SendReqKey(d, t, q)
               \/ tun' = [tun EXCEPT ![d] = t] /\ meta' = q
         \/ /\ s # None /\ InOrder(s, m)
            /\ tun' = [tun EXCEPT ![d] = Dispatch(@, r)] /\ meta' = Send(d, q, Answers(s, m))
  BY DEF OnAnsKey
<1>2. Shape /\ Links /\ Core /\ Rest /\ tun \in [Daemon -> Tun] /\ \A e \in Daemon : TunOK(tun[e])
  BY Parts DEF IInv, Shape
<1>3. Rest'
  BY <1>1, <1>2, RestSame
<1>4. q \in [Daemon -> Seq(Msg)] /\ (\A e \in Daemon : Elems(q[e]) \subseteq Inbox(e))
  BY <1>1, TakenAll
<1>5. m \in Inbox(d) /\ m \in Msg
  BY <1>1, <1>2, Taken
<1> HIDE DEF q, m
<1>6. CASE SendReqKey(d, tun[d], q)
  BY <1>3, <1>4, <1>6, StepSendReqKey, MineOK, PartsNext
<1>7. CASE MaybeRestart(d, q)
  BY <1>3, <1>4, <1>7, StepMaybeRestart, PartsNext
<1>8. CASE s # None /\ InOrder(s, m)
  <2>1. s \in Sess /\ SessFits(s) /\ ~s.up /\ TunOK(tun[d]) /\ tun[d].prevage <= KeyLifetime
    BY <1>2, <1>8, MineOK DEF TunOK, HasParts, Tun, InOrder
  <2>2. r \in Sess /\ SessFits(r) /\ (m.seqno = 1 => r.up = SigOk(s, m))
    BY <1>5, <1>8, <2>1, ReceivedOK
  <2>3. r = Received(tun[d].cur, m)
    OBVIOUS
  <2> HIDE DEF r
  <2>4. /\ TunOK(c) /\ c.cur = r /\ c.prevage = tun[d].prevage
        /\ ~r.up => TunOK(t)
    BY <1>8, <2>1, <2>2, DispatchOK
  <2>5. t.cur = r /\ t.prevage = tun[d].prevage
    BY <1>2 DEF Tun
  <2> HIDE DEF c, t
  <2>6. CASE m.seqno = 1 /\ ~SigOk(s, m) /\ SendReqKey(d, t, q)
    <3>1. TunOK(t) /\ HasParts(t) /\ t.prevage <= KeyLifetime
      BY <2>1, <2>2, <2>4, <2>5, <2>6 DEF TunOK
    <3>2. QED BY <1>3, <1>4, <2>6, <3>1, StepSendReqKey, PartsNext
  <2>7. CASE m.seqno = 1 /\ ~SigOk(s, m) /\ tun' = [tun EXCEPT ![d] = t] /\ meta' = q
    <3>1. TunOK(t) /\ t.prevage <= KeyLifetime
      BY <2>1, <2>2, <2>4, <2>5, <2>7
    <3>2. tun'[d].cur = r /\ tun'[Peer(d)].cur = tun[Peer(d)].cur
      BY <1>2, <2>5, <2>7, Peers
    <3>3. Inbox(d)' \subseteq Inbox(d) /\ Inbox(Peer(d))' \subseteq Inbox(Peer(d))
      BY <1>4, <2>7, Peers DEF Inbox
    <3>4. Links'
      BY <1>1, <1>2, <1>5, <1>8, <2>3, <3>2, <3>3, LinksReceive
    <3>5. QED BY <1>2, <1>3, <1>4, <2>7, <3>1, <3>4, CorePut, PartsNext
  <2>8. CASE tun' = [tun EXCEPT ![d] = c] /\ meta' = Send(d, q, Answers(s, m))
    <3>1. tun'[d].cur = r /\ tun'[Peer(d)].cur = tun[Peer(d)].cur
      BY <1>2, <2>4, <2>8, Peers
    <3>2. /\ meta' \in [Daemon -> Seq(Msg)] /\ meta'[d] = q[d]
          /\ Elems(meta'[Peer(d)]) \subseteq Elems(q[Peer(d)]) \cup Elems(Answers(s, m))
      BY <1>4, <1>5, <1>8, <2>1, <2>8, AnswersType
    <3>3. /\ Inbox(d)' \subseteq Inbox(d)
          /\ Inbox(Peer(d))' \subseteq Inbox(Peer(d)) \cup Elems(Answers(tun[d].cur, m))
      BY <1>4, <3>2, Peers DEF Inbox
    <3>4. Links'
      BY <1>1, <1>2, <1>5, <1>8, <2>3, <3>1, <3>3, LinksReceive
    <3>5. c.prevage <= KeyLifetime
      BY <2>1, <2>4
    <3>6. QED BY <1>2, <1>3, <2>4, <2>8, <3>2, <3>4, <3>5, CorePut, PartsNext
  <2>9. tun' = [tun EXCEPT ![d] = Dispatch(@, r)] => tun' = [tun EXCEPT ![d] = c]
    BY <1>2 DEF c
  <2>10. \/ SendReqKey(d, tun[d], q)
         \/ MaybeRestart(d, q)
         \/ m.seqno = 1 /\ ~SigOk(s, m) /\ (SendReqKey(d, t, q) \/ (tun' = [tun EXCEPT ![d] = t] /\ meta' = q))
         \/ tun' = [tun EXCEPT ![d] = Dispatch(@, r)] /\ meta' = Send(d, q, Answers(s, m))
    BY <1>1 DEF t, r
  <2>11. QED BY <1>6, <1>7, <2>6, <2>7, <2>8, <2>9, <2>10
<1>9. QED BY <1>1, <1>6, <1>7, <1>8

LEMMA OneMore ==
    ASSUME NEW a \in Nat, NEW b \in Nat, NEW c \in Nat, NEW e \in Nat, a + b + c + e < MaxFaults
    PROVE  /\ (a + 1) + b + c + e <= MaxFaults /\ a + (b + 1) + c + e <= MaxFaults
           /\ a + b + (c + 1) + e <= MaxFaults /\ a + b + c + (e + 1) <= MaxFaults
BY Constants

LEMMA StepMetaLose ==
    ASSUME IInv, NEW d \in Daemon, MetaLose(d)
    PROVE  IInv'
<1> DEFINE q == [meta EXCEPT ![d] = Tail(@)]
           n == faults.loss + 1
<1>1. /\ meta[d] # <<>> /\ Budget /\ meta' = q /\ faults' = [faults EXCEPT !.loss = n]
      /\ UNCHANGED <<tun, snap, reach, udp>>
  BY DEF MetaLose
<1>2. q \in [Daemon -> Seq(Msg)] /\ \A e \in Daemon : Elems(q[e]) \subseteq Inbox(e)
  BY <1>1, TakenAll
<1> HIDE DEF q
<1>3. Core'
  BY <1>1, <1>2, StepQuiet
<1>4. Rest
  BY Parts
<1>5. /\ faults.rekey \in Nat /\ faults.loss \in Nat /\ faults.reset \in Nat /\ faults.late \in Nat
      /\ n = faults.loss + 1
  BY <1>4 DEF Rest
<1> HIDE DEF n
<1>6. /\ faults' \in [rekey : Nat, loss : Nat, reset : Nat, late : Nat]
      /\ faults'.loss = n /\ faults'.rekey = faults.rekey /\ faults'.reset = faults.reset
      /\ faults'.late = faults.late
  BY <1>1, <1>4, <1>5 DEF Rest
<1>7. faults'.rekey + faults'.loss + faults'.reset + faults'.late <= MaxFaults
  <2>1. faults.rekey + faults.loss + faults.reset + faults.late < MaxFaults
    BY <1>1 DEF Budget
  <2>2. faults.rekey + (faults.loss + 1) + faults.reset + faults.late <= MaxFaults
    BY <1>5, <2>1, OneMore
  <2>3. QED BY <1>5, <1>6, <2>2
<1>8. Rest'
  BY <1>1, <1>4, <1>6, <1>7 DEF Rest, Bounds
<1>9. QED BY <1>3, <1>8, PartsNext

Datagrams == {u \in SUBSET Key : IsFiniteSet(u)}

(* The datagrams on the way change, to d's peer or to d. *)
LEMMA RestUdp ==
    ASSUME Rest, udp' \in [Daemon -> Datagrams], UNCHANGED <<snap, reach, faults>>,
           NEW d \in Daemon, Cardinality(udp'[d]) + Cardinality(udp'[Peer(d)]) <= MaxUdp
    PROVE  Rest'
<1>1. Cardinality(udp'[1]) \in Nat /\ Cardinality(udp'[2]) \in Nat
  <2>1. IsFiniteSet(udp'[1]) /\ IsFiniteSet(udp'[2])
    BY DEF Daemon, Datagrams
  <2>2. QED BY <2>1, FS_CardinalityType
<1>2. (d = 1 /\ Peer(d) = 2) \/ (d = 2 /\ Peer(d) = 1)
  BY DEF Daemon, Peer
<1>3. Cardinality(udp'[1]) + Cardinality(udp'[2]) <= MaxUdp
  BY <1>1, <1>2
<1>4. QED BY <1>3 DEF Rest, Bounds, Datagrams

LEMMA FlyOK ==
    ASSUME Rest, NEW d \in Daemon, NEW key \in Key, Fly(d, key), UNCHANGED <<snap, reach, faults>>
    PROVE  Rest'
<1> DEFINE u == udp[Peer(d)] \cup {key}
<1>1. udp \in [Daemon -> Datagrams] /\ Peer(d) \in Daemon /\ Peer(d) # d
  BY Peers DEF Rest, Datagrams
<1>2. u \in Datagrams
  BY <1>1, FS_AddElement DEF Datagrams
<1>3. udp' = [udp EXCEPT ![Peer(d)] = u] /\ Cardinality(udp[d]) + Cardinality(u) <= MaxUdp
  BY DEF Fly
<1> HIDE DEF u
<1>4. udp' \in [Daemon -> Datagrams] /\ udp'[d] = udp[d] /\ udp'[Peer(d)] = u
  BY <1>1, <1>2, <1>3
<1>5. QED BY <1>3, <1>4, RestUdp

LEMMA DropOK ==
    ASSUME Rest, NEW d \in Daemon, NEW key, udp' = [udp EXCEPT ![d] = @ \ {key}],
           UNCHANGED <<snap, reach, faults>>
    PROVE  Rest'
<1> DEFINE u == udp[d] \ {key}
<1>1. udp \in [Daemon -> Datagrams] /\ Peer(d) \in Daemon /\ Peer(d) # d
  BY Peers DEF Rest, Datagrams
<1>2. u \in Datagrams /\ Cardinality(u) <= Cardinality(udp[d])
  BY <1>1, FS_Subset DEF Datagrams
<1>3. udp' = [udp EXCEPT ![d] = u]
  BY <1>1
<1> HIDE DEF u
<1>4. udp' \in [Daemon -> Datagrams] /\ udp'[d] = u /\ udp'[Peer(d)] = udp[Peer(d)]
  BY <1>1, <1>2, <1>3
<1>5. Cardinality(udp[d]) + Cardinality(udp[Peer(d)]) <= MaxUdp
  <2>1. Cardinality(udp[1]) \in Nat /\ Cardinality(udp[2]) \in Nat
    <3>1. IsFiniteSet(udp[1]) /\ IsFiniteSet(udp[2])
      BY <1>1 DEF Daemon, Datagrams
    <3>2. QED BY <3>1, FS_CardinalityType
  <2>2. (d = 1 /\ Peer(d) = 2) \/ (d = 2 /\ Peer(d) = 1)
    BY DEF Daemon, Peer
  <2>3. QED BY <2>1, <2>2 DEF Rest, Bounds
<1>6. Cardinality(u) \in Nat /\ Cardinality(udp[d]) \in Nat /\ Cardinality(udp[Peer(d)]) \in Nat
  <2>1. IsFiniteSet(u) /\ IsFiniteSet(udp[d]) /\ IsFiniteSet(udp[Peer(d)])
    BY <1>1, <1>2 DEF Datagrams
  <2>2. QED BY <2>1, FS_CardinalityType
<1>7. Cardinality(udp'[d]) + Cardinality(udp'[Peer(d)]) <= MaxUdp
  <2>1. Cardinality(u) + Cardinality(udp[Peer(d)]) <= MaxUdp
    BY <1>2, <1>5, <1>6, Constants
  <2>2. QED BY <1>4, <2>1
<1>8. QED BY <1>4, <1>7, RestUdp

LEMMA StepSendPacket ==
    ASSUME IInv, NEW d \in Daemon, SendPacket(d)
    PROVE  IInv'
<1> DEFINE t == tun[d]
           f == [t EXCEPT !.cur = None]
<1>1. /\ UNCHANGED <<snap, reach, faults>>
      /\ \/ t.valid /\ Fly(d, KeyOf(t.cur)) /\ UNCHANGED <<tun, meta>>
         \/ SendReqKey(d, t, meta) /\ UNCHANGED udp
         \/ SendReqKey(d, f, meta) /\ UNCHANGED udp
  BY DEF SendPacket
<1>2. Core /\ Rest /\ TunOK(t) /\ t \in Tun
  BY Parts DEF IInv, Shape
<1>3. CASE t.valid /\ Fly(d, KeyOf(t.cur)) /\ UNCHANGED <<tun, meta>>
  <2>1. t.cur # None /\ t.cur.up /\ t.cur \in Sess /\ SessFits(t.cur)
    BY <1>2, <1>3 DEF TunOK, HasParts, Tun
  <2>2. KeyOf(t.cur) \in Key
    BY <2>1, MsgTypes DEF SessFits
  <2>3. QED BY <1>1, <1>2, <1>3, <2>2, FlyOK, CoreSame, PartsNext
<1>4. CASE SendReqKey(d, t, meta) /\ UNCHANGED udp
  BY <1>1, <1>2, <1>4, StepSendReqKey, MineOK, Unmoved, RestSame, PartsNext
<1>5. CASE SendReqKey(d, f, meta) /\ UNCHANGED udp
  <2>1. f \in Tun /\ f.cur = None /\ f.prev = t.prev /\ f.prevage = t.prevage
    BY <1>2 DEF Tun
  <2> HIDE DEF f
  <2>2. HasParts(f) /\ f.prevage <= KeyLifetime
    BY <1>2, <2>1, MineOK DEF HasParts, TunOK
  <2>3. QED BY <1>1, <1>2, <1>5, <2>2, StepSendReqKey, Unmoved, RestSame, PartsNext
<1>6. QED BY <1>1, <1>3, <1>4, <1>5

LEMMA StepRxUdp ==
    ASSUME IInv, NEW d \in Daemon, NEW key, RxUdp(d, key)
    PROVE  IInv'
<1>1. /\ udp' = [udp EXCEPT ![d] = @ \ {key}] /\ UNCHANGED <<snap, reach, faults>>
      /\ \/ SendReqKey(d, tun[d], meta)
         \/ UNCHANGED <<tun, meta>>
         \/ MaybeRestart(d, meta)
  BY DEF RxUdp
<1>2. Core /\ Rest
  BY Parts
<1>3. Rest'
  BY <1>1, <1>2, DropOK
<1>4. CASE SendReqKey(d, tun[d], meta)
  BY <1>3, <1>4, StepSendReqKey, MineOK, Unmoved, PartsNext
<1>5. CASE UNCHANGED <<tun, meta>>
  BY <1>2, <1>3, <1>5, CoreSame, PartsNext
<1>6. CASE MaybeRestart(d, meta)
  BY <1>3, <1>6, StepMaybeRestart, Unmoved, PartsNext
<1>7. QED BY <1>1, <1>4, <1>5, <1>6

LEMMA StepUdpLose ==
    ASSUME IInv, NEW d \in Daemon, NEW key, UdpLose(d, key)
    PROVE  IInv'
BY Parts, DropOK, CoreSame, PartsNext DEF UdpLose

LEMMA StepFastTx ==
    ASSUME IInv, NEW d \in Daemon, FastTx(d)
    PROVE  IInv'
<1>1. snap[d] \in Key
  BY DEF FastTx, IInv, Shape
<1>2. QED BY <1>1, Parts, FlyOK, CoreSame, PartsNext DEF FastTx

LEMMA StepLoad ==
    ASSUME IInv, NEW d \in Daemon, Load(d)
    PROVE  IInv'
<1> DEFINE h == tun[d].handles
<1>1. h \in Key \cup {None}
  BY DEF IInv, Shape, Tun
<1>2. Core /\ Rest
  BY Parts
<1>3. snap' = [snap EXCEPT ![d] = h] /\ UNCHANGED <<tun, reach, meta, udp, faults>>
  BY DEF Load
<1> HIDE DEF h
<1>4. Rest'
  BY <1>1, <1>2, <1>3 DEF Rest, Bounds
<1>5. QED BY <1>2, <1>3, <1>4, CoreSame, PartsNext

(* Another fault is within the budget. *)
LEMMA RestFault ==
    ASSUME Rest, NEW f \in {"rekey", "reset"}, Budget,
           faults' = [faults EXCEPT ![f] = @ + 1],
           udp' = udp, snap' = snap, reach' \in [Daemon -> BOOLEAN]
    PROVE  Rest'
<1> DEFINE n == faults[f] + 1
<1>1. /\ faults.rekey \in Nat /\ faults.loss \in Nat /\ faults.reset \in Nat /\ faults.late \in Nat
      /\ n = faults[f] + 1 /\ n \in Nat
  BY DEF Rest
<1>2. faults' = [faults EXCEPT ![f] = n]
  BY DEF Rest
<1> HIDE DEF n
<1>3. /\ faults' \in [rekey : Nat, loss : Nat, reset : Nat, late : Nat]
      /\ faults'.loss = faults.loss /\ faults'.late = faults.late
      /\ faults'.rekey = IF f = "rekey" THEN n ELSE faults.rekey
      /\ faults'.reset = IF f = "reset" THEN n ELSE faults.reset
  BY <1>1, <1>2 DEF Rest
<1>4. faults.rekey + faults.loss + faults.reset + faults.late < MaxFaults
  BY DEF Budget
<1>5. /\ (faults.rekey + 1) + faults.loss + faults.reset + faults.late <= MaxFaults
      /\ faults.rekey + faults.loss + (faults.reset + 1) + faults.late <= MaxFaults
  BY <1>1, <1>4, OneMore
<1>6. faults'.rekey + faults'.loss + faults'.reset + faults'.late <= MaxFaults
  BY <1>1, <1>3, <1>5
<1>7. QED BY <1>3, <1>6 DEF Rest, Bounds

LEMMA StepKeyExpire ==
    ASSUME IInv, NEW d \in Daemon, KeyExpire(d)
    PROVE  IInv'
<1>1. /\ SendReqKey(d, tun[d], meta) /\ Budget /\ faults' = [faults EXCEPT !.rekey = @ + 1]
      /\ UNCHANGED <<snap, reach, udp>>
  BY DEF KeyExpire
<1>2. Rest'
  BY <1>1, RestFault, Parts DEF Rest
<1>3. Core'
  BY <1>1, StepSendReqKey, MineOK, Unmoved
<1>4. QED BY <1>2, <1>3, PartsNext

LEMMA StepBecameUnreachable ==
    ASSUME IInv, NEW d \in Daemon, BecameUnreachable(d)
    PROVE  IInv'
<1>1. /\ Budget /\ reach' = [reach EXCEPT ![d] = FALSE] /\ tun' = [tun EXCEPT ![d] = NoTunnel]
      /\ faults' = [faults EXCEPT !.reset = @ + 1] /\ UNCHANGED <<snap, meta, udp>>
  BY DEF BecameUnreachable
<1>2. Core /\ Rest
  BY Parts
<1>3. reach' \in [Daemon -> BOOLEAN]
  BY <1>1, <1>2 DEF Rest
<1>4. Rest'
  BY <1>1, <1>2, <1>3, RestFault
<1>5. TunOK(NoTunnel) /\ NoTunnel.prevage = 0 /\ NoTunnel.cur = None
  BY Constants DEF NoTunnel, TunOK, HasParts, Tun
<1>6. \A e \in Daemon : tun'[e].cur \in {tun[e].cur, None} /\ Inbox(e)' \subseteq Inbox(e)
  BY <1>1, <1>2, <1>5 DEF Core, Inbox
<1>7. Links'
  BY <1>6, LinksSame DEF IInv
<1>8. NoTunnel.prevage <= KeyLifetime /\ meta' \in [Daemon -> Seq(Msg)]
  BY <1>1, <1>2, <1>5, Constants DEF Core
<1>9. Core'
  BY <1>1, <1>2, <1>5, <1>7, <1>8, CorePut
<1>10. QED BY <1>4, <1>9, PartsNext

LEMMA StepBecameReachable ==
    ASSUME IInv, NEW d \in Daemon, BecameReachable(d)
    PROVE  IInv'
<1>1. reach' = [reach EXCEPT ![d] = TRUE] /\ UNCHANGED <<tun, snap, meta, udp, faults>>
  BY DEF BecameReachable
<1>2. Rest'
  BY <1>1, Parts DEF Rest, Bounds
<1>3. QED BY <1>1, <1>2, Parts, CoreSame, PartsNext

(* What a tick counts and what it does to the datagrams on the way. *)
LEMMA TickRest ==
    ASSUME Rest, NEW worn \in BOOLEAN, NEW late \in BOOLEAN, late => Budget, worn => Budget /\ ~late,
           udp' = IF late THEN udp ELSE [p \in Daemon |-> {}],
           faults' = [faults EXCEPT !.rekey = IF worn THEN @ + 1 ELSE @,
                                    !.late = IF late THEN @ + 1 ELSE @],
           UNCHANGED <<snap, reach>>
    PROVE  Rest'
<1> DEFINE a == IF worn THEN faults.rekey + 1 ELSE faults.rekey
           b == IF late THEN faults.late + 1 ELSE faults.late
<1>1. /\ faults.rekey \in Nat /\ faults.loss \in Nat /\ faults.reset \in Nat /\ faults.late \in Nat
      /\ a \in Nat /\ b \in Nat
  BY DEF Rest
<1>2. a + faults.loss + faults.reset + b <= MaxFaults
  <2>1. faults.rekey + faults.loss + faults.reset + faults.late <= MaxFaults
    BY DEF Rest, Bounds
  <2>2. CASE worn
    <3>1. faults.rekey + faults.loss + faults.reset + faults.late < MaxFaults
      BY <2>2 DEF Budget
    <3>2. QED BY <1>1, <2>2, <3>1, OneMore
  <2>3. CASE ~worn /\ late
    <3>1. faults.rekey + faults.loss + faults.reset + faults.late < MaxFaults
      BY <2>3 DEF Budget
    <3>2. QED BY <1>1, <2>3, <3>1, OneMore
  <2>4. CASE ~worn /\ ~late
    BY <2>1, <2>4
  <2>5. QED BY <2>2, <2>3, <2>4
<1>3. faults' = [faults EXCEPT !.rekey = a, !.late = b]
  OBVIOUS
<1> HIDE DEF a, b
<1>4. /\ faults' \in [rekey : Nat, loss : Nat, reset : Nat, late : Nat]
      /\ faults'.rekey = a /\ faults'.late = b /\ faults'.loss = faults.loss
      /\ faults'.reset = faults.reset
  BY <1>1, <1>3 DEF Rest
<1>5. udp' \in [Daemon -> Datagrams] /\ Cardinality(udp'[1]) + Cardinality(udp'[2]) <= MaxUdp
  <2>1. CASE late
    BY <2>1 DEF Rest, Bounds, Datagrams
  <2>2. CASE ~late
    <3>1. udp' = [p \in Daemon |-> {}]
      BY <2>2
    <3>2. {} \in Datagrams /\ Cardinality({}) = 0
      BY FS_EmptySet DEF Datagrams
    <3>3. udp'[1] = {} /\ udp'[2] = {}
      BY <3>1 DEF Daemon
    <3>4. udp' \in [Daemon -> Datagrams]
      BY <3>1, <3>2
    <3>5. Cardinality(udp'[1]) = 0 /\ Cardinality(udp'[2]) = 0
      BY <3>2, <3>3, Zenon
    <3>6. QED BY <3>4, <3>5, Constants
  <2>3. QED BY <2>1, <2>2
<1>6. faults'.rekey + faults'.loss + faults'.reset + faults'.late <= MaxFaults
  BY <1>2, <1>4
<1>7. QED BY <1>4, <1>5, <1>6 DEF Rest, Bounds, Datagrams

LEMMA StepTick ==
    ASSUME IInv, NEW d \in Daemon, Tick(d)
    PROVE  IInv'
<1> DEFINE t == Older(tun[d])
           s == Session("I", NewKex)
           c == Restart(t, s)
           late == \E p \in Daemon : meta[p] # <<>> \/ snap[p] # tun[p].handles
<1>1. PICK worn \in BOOLEAN :
         /\ worn => Budget /\ ~late
         /\ faults' = [faults EXCEPT !.rekey = IF worn THEN @ + 1 ELSE @,
                                     !.late = IF late THEN @ + 1 ELSE @]
         /\ \/ /\ tun' = [tun EXCEPT ![d] = Reap(c)]
               /\ meta' = Send(d, meta, <<Kex("REQ_KEY", s)>>)
            \/ tun' = [tun EXCEPT ![d] = Reap(t)] /\ UNCHANGED meta
  BY DEF Tick
<1>2. /\ late => Budget /\ late \in BOOLEAN
      /\ udp' = IF late THEN udp ELSE [p \in Daemon |-> {}]
      /\ UNCHANGED <<snap, reach>>
  BY DEF Tick
<1>3. Core /\ Rest /\ Shape /\ Links
  BY Parts DEF IInv
<1>4. Rest'
  <2> HIDE DEF late
  <2>1. QED BY <1>1, <1>2, <1>3, TickRest
<1> HIDE DEF late
<1>5. TunOK(t) /\ HasParts(t) /\ t.cur = tun[d].cur /\ (t.prev = None => t.prevage = 0)
  BY OlderOK, MineOK DEF TunOK
<1> HIDE DEF t
<1>6. CASE tun' = [tun EXCEPT ![d] = Reap(t)] /\ UNCHANGED meta
  <2>1. TunOK(Reap(t)) /\ Reap(t).cur = tun[d].cur /\ Reap(t).prevage <= KeyLifetime
    BY <1>5, ReapOK
  <2>2. \A e \in Daemon : tun'[e].cur \in {tun[e].cur, None} /\ Inbox(e)' \subseteq Inbox(e)
    BY <1>3, <1>6, <2>1 DEF Core, Inbox
  <2>3. Links'
    BY <1>3, <2>2, LinksSame
  <2>4. meta' \in [Daemon -> Seq(Msg)]
    BY <1>3, <1>6 DEF Core
  <2>5. QED BY <1>3, <1>4, <1>6, <2>1, <2>3, <2>4, CorePut, PartsNext
<1>7. CASE /\ tun' = [tun EXCEPT ![d] = Reap(c)]
           /\ meta' = Send(d, meta, <<Kex("REQ_KEY", s)>>)
  <2>1. s \in Sess /\ SessFits(s) /\ ~s.up
    BY <1>3, NewSession
  <2>2. TunOK(c) /\ c.cur = s /\ (c.prev = None => c.prevage = 0)
    <3> HIDE DEF s
    <3>1. QED BY <1>5, <2>1, RestartOK
  <2> HIDE DEF c
  <2>3. TunOK(Reap(c)) /\ Reap(c).cur = s /\ Reap(c).prevage <= KeyLifetime
    BY <2>2, ReapOK
  <2>4. Core'
    BY <1>7, <2>3, StepNew, Unmoved
  <2>5. QED BY <1>4, <2>4, PartsNext
<1>8. QED BY <1>1, <1>6, <1>7

-----------------------------------------------------------------------------
(* The invariant holds. *)

LEMMA IInvInit == Init => IInv
<1> SUFFICES ASSUME Init PROVE IInv
  OBVIOUS
<1>1. TunOK(NoTunnel) /\ NoTunnel.prevage = 0 /\ NoTunnel.cur = None /\ NoTunnel \in Tun
  BY Constants DEF NoTunnel, TunOK, HasParts, Tun
<1>2. \A d \in Daemon : tun[d] = NoTunnel
  BY DEF Init
<1>3. Links
  BY <1>1, <1>2, Peers DEF Links, Linked, Agreed, Armed, Daemon
<1>4. Core
  <2>1. tun \in [Daemon -> Tun]
    BY <1>1 DEF Init
  <2>2. meta \in [Daemon -> Seq(Msg)]
    BY DEF Init
  <2>3. \A d \in Daemon : TunOK(tun[d]) /\ tun[d].prevage <= KeyLifetime
    BY <1>1, <1>2, Constants
  <2>4. QED BY <1>3, <2>1, <2>2, <2>3 DEF Core
<1>5. Rest
  <2>1. {} \in Datagrams /\ Cardinality({}) = 0
    BY FS_EmptySet DEF Datagrams
  <2>2. udp \in [Daemon -> Datagrams] /\ udp[1] = {} /\ udp[2] = {}
    BY <2>1 DEF Init, Daemon
  <2>3. Cardinality(udp[1]) + Cardinality(udp[2]) <= MaxUdp
    BY <2>1, <2>2, Constants
  <2>4. /\ faults \in [rekey : Nat, loss : Nat, reset : Nat, late : Nat]
        /\ faults.rekey + faults.loss + faults.reset + faults.late <= MaxFaults
    BY Constants DEF Init
  <2>5. QED BY <2>2, <2>3, <2>4 DEF Init, Rest, Bounds, Datagrams
<1>6. QED BY <1>4, <1>5, Parts

LEMMA IInvStep == IInv /\ [Next]_vars => IInv'
<1> SUFFICES ASSUME IInv, [Next]_vars PROVE IInv'
  OBVIOUS
<1>1. CASE Next
  <2> SUFFICES ASSUME NEW d \in Daemon,
                      \/ OnReqKey(d) \/ OnAnsKey(d) \/ MetaLose(d)
                      \/ SendPacket(d) \/ FastTx(d) \/ Load(d)
                      \/ \E key \in udp[d] : RxUdp(d, key) \/ UdpLose(d, key)
                      \/ KeyExpire(d) \/ Tick(d)
                      \/ BecameUnreachable(d) \/ BecameReachable(d)
               PROVE  IInv'
    BY <1>1 DEF Next
  <2>1. CASE OnReqKey(d)
    BY <2>1, StepOnReqKey
  <2>2. CASE OnAnsKey(d)
    BY <2>2, StepOnAnsKey
  <2>3. CASE MetaLose(d)
    BY <2>3, StepMetaLose
  <2>4. CASE SendPacket(d)
    BY <2>4, StepSendPacket
  <2>5. CASE FastTx(d)
    BY <2>5, StepFastTx
  <2>6. CASE Load(d)
    BY <2>6, StepLoad
  <2>7. CASE \E key \in udp[d] : RxUdp(d, key) \/ UdpLose(d, key)
    BY <2>7, StepRxUdp, StepUdpLose
  <2>8. CASE KeyExpire(d)
    BY <2>8, StepKeyExpire
  <2>9. CASE Tick(d)
    BY <2>9, StepTick
  <2>10. CASE BecameUnreachable(d)
    BY <2>10, StepBecameUnreachable
  <2>11. CASE BecameReachable(d)
    BY <2>11, StepBecameReachable
  <2>12. QED BY <2>1, <2>2, <2>3, <2>4, <2>5, <2>6, <2>7, <2>8, <2>9, <2>10, <2>11
<1>2. CASE UNCHANGED vars
  BY <1>2, Parts, CoreSame, RestSame, PartsNext DEF vars
<1>3. QED BY <1>1, <1>2

LEMMA IInvAlways == Spec => []IInv
BY IInvInit, IInvStep, PTL DEF Spec

(* The flags of a tunnel fit its session, and the bounds are kept.         *)
(* send_sptps_packet never meets validkey without a finished session.      *)
THEOREM TypeCorrect == Spec => []TypeOK
<1>1. IInv => TypeOK
  <2> SUFFICES ASSUME IInv PROVE TypeOK
    OBVIOUS
  <2>1. ASSUME NEW s \in Sess PROVE SessionOK(s)
    BY DEF Sess, SessionOK
  <2>2. \A d \in Daemon : tun[d] \in Tun /\ reach[d] \in BOOLEAN /\ TunOK(tun[d])
    BY DEF IInv, Shape
  <2>3. \A d \in Daemon : /\ tun[d].cur # None => SessionOK(tun[d].cur)
                          /\ tun[d].prev # None => SessionOK(tun[d].prev) /\ tun[d].prev.up
                          /\ tun[d].reqage \in 0 .. Never
    BY <2>1, <2>2 DEF Tun, TunOK, HasParts
  <2>4. QED BY <2>2, <2>3 DEF TypeOK, TunOK, IInv, Bounds
<1>2. QED BY <1>1, IInvAlways, PTL

LEMMA InvAgrees == IInv => KeyAgreement
<1> SUFFICES ASSUME IInv, tun[1].valid, tun[2].valid
             PROVE  /\ KeyOf(tun[1].cur) = KeyOf(tun[2].cur)
                    /\ tun[1].cur.role # tun[2].cur.role
  BY DEF KeyAgreement
<1>1. \A d \in Daemon : tun[d].valid => tun[d].cur # None /\ tun[d].cur.up
  BY MineOK DEF TunOK
<1>2. 1 \in Daemon /\ 2 \in Daemon /\ Peer(1) = 2
  BY DEF Daemon, Peer
<1>3. Armed(1) /\ Armed(2) /\ tun[1].cur # None /\ tun[2].cur # None
  BY <1>1, <1>2 DEF Armed
<1>4. tun[1].cur.his = tun[2].cur.mine /\ tun[2].cur.his = tun[1].cur.mine
  BY <1>3 DEF IInv, Links, Agreed
<1>5. Linked(1)
  BY <1>2 DEF IInv, Links
<1>6. tun[1].cur.role # tun[2].cur.role
  BY <1>2, <1>3, <1>4, <1>5 DEF Linked
<1>7. KeyOf(tun[1].cur) = KeyOf(tun[2].cur)
  BY <1>4 DEF KeyOf
<1>8. QED BY <1>6, <1>7

(* Two daemons that both hold a valid key hold the same one, in the two    *)
(* roles of one handshake, whatever keys.rs, tx_control.rs and periodic.rs *)
(* restarted and the network crossed, delayed or lost.                     *)
THEOREM KeyAgreementCorrect == Spec => []KeyAgreement
BY InvAgrees, IInvAlways, PTL

(* A salvaged session is gone a KeyExpire after it was replaced, even when *)
(* the handshakes that should replace it keep failing                      *)
(* (should_reap_prev_sptps's backstop).                                    *)
THEOREM PrevDiesCorrect == Spec => []PrevDies
<1>1. IInv => PrevDies
  BY DEF IInv, PrevDies
<1>2. QED BY <1>1, IInvAlways, PTL

-----------------------------------------------------------------------------
(* Patience, an action property: a step starts no session over another as  *)
(* initiator, or the old one was stuck, or a rekey was due.                *)

Calm(d) ==
    ~(/\ tun[d].cur # None /\ tun'[d].cur # None
      /\ tun'[d].cur.mine # tun[d].cur.mine /\ tun'[d].cur.role = "I")

Excused(d) ==
    \/ ~tun[d].valid /\ tun[d].reqage >= Retry
    \/ tun[d].valid /\ faults'.rekey > faults.rekey

LEMMA RestartCur == \A t \in Tun : \A s : Restart(t, s).cur = s
<1> SUFFICES ASSUME NEW t \in Tun, NEW s PROVE Restart(t, s).cur = s
  OBVIOUS
<1>1. \A a \in Tun : [a EXCEPT !.cur = s, !.valid = FALSE, !.waiting = TRUE, !.reqage = 0].cur = s
  BY DEF Tun
<1>2. CASE Salvage(t) = t
  BY <1>1, <1>2 DEF Restart
<1>3. CASE Salvage(t) = [t EXCEPT !.prev = t.cur, !.prevage = 0]
  <2> DEFINE c == t.cur
             a == [t EXCEPT !.prev = c, !.prevage = 0]
  <2>1. c \in Sess \cup {None} /\ 0 \in Nat
    BY DEF Tun
  <2>2. Salvage(t) = a
    BY <1>3
  <2> HIDE DEF c
  <2>3. a \in Tun
    BY <2>1 DEF Tun
  <2>4. QED BY <1>1, <2>2, <2>3 DEF Restart
<1>4. QED BY <1>2, <1>3 DEF Salvage

LEMMA OthersCalm ==
    ASSUME IInv, NEW d \in Daemon, NEW r, tun' = [tun EXCEPT ![d] = r], NEW e \in Daemon, e # d
    PROVE  Calm(e)
BY DEF Calm, IInv, Shape

LEMMA CalmSame == UNCHANGED tun => \A d \in Daemon : Calm(d)
BY DEF Calm

LEMMA CalmSend ==
    ASSUME IInv, NEW d \in Daemon, NEW t, NEW q, SendReqKey(d, t, q), tun[d].cur = None \/ Excused(d)
    PROVE  \A e \in Daemon : Calm(e) \/ Excused(e)
<1> DEFINE r == Restart(t, Session("I", NewKex))
<1>1. tun' = [tun EXCEPT ![d] = r]
  BY DEF SendReqKey
<1> HIDE DEF r
<1>2. Calm(d) \/ Excused(d)
  BY DEF Calm
<1>3. QED BY <1>1, <1>2, OthersCalm

LEMMA CalmMaybe ==
    ASSUME IInv, NEW d \in Daemon, NEW q, MaybeRestart(d, q)
    PROVE  \A e \in Daemon : Calm(e) \/ Excused(e)
<1>1. CASE Stuck(tun[d]) /\ SendReqKey(d, tun[d], q)
  <2>1. Excused(d)
    BY <1>1 DEF Stuck, Excused
  <2>2. QED BY <1>1, <2>1, CalmSend
<1>2. CASE UNCHANGED tun
  BY <1>2, CalmSame
<1>3. QED BY <1>1, <1>2 DEF MaybeRestart

LEMMA CalmOnReqKey ==
    ASSUME IInv, NEW d \in Daemon, OnReqKey(d)
    PROVE  \A e \in Daemon : Calm(e) \/ Excused(e)
<1> DEFINE h == CHOOSE k \in Head(meta[d]).kex : TRUE
           s == [Session("R", NewKex) EXCEPT !.his = h, !.inseqno = 1]
           r == Restart(tun[d], s)
<1>1. UNCHANGED tun \/ tun' = [tun EXCEPT ![d] = r]
  BY DEF OnReqKey
<1>2. s.role = "R"
  BY DEF Session
<1> HIDE DEF s
<1>3. tun[d] \in Tun /\ tun \in [Daemon -> Tun]
  BY DEF IInv, Shape
<1>4. r.cur = s
  BY <1>3, RestartCur
<1> HIDE DEF r
<1>5. tun' = [tun EXCEPT ![d] = r] => Calm(d)
  BY <1>2, <1>3, <1>4 DEF Calm
<1>6. QED BY <1>1, <1>5, CalmSame, OthersCalm

LEMMA CalmOnAnsKey ==
    ASSUME IInv, NEW d \in Daemon, OnAnsKey(d)
    PROVE  \A e \in Daemon : Calm(e) \/ Excused(e)
<1> DEFINE m == Head(meta[d])
           q == [meta EXCEPT ![d] = Tail(@)]
           s == tun[d].cur
           z == Received(s, m)
           t == [tun[d] EXCEPT !.cur = z]
           c == Dispatch(tun[d], z)
<1>1. tun \in [Daemon -> Tun] /\ tun[d] \in Tun
  BY DEF IInv, Shape
<1>2. \/ s = None /\ SendReqKey(d, tun[d], q)
      \/ MaybeRestart(d, q)
      \/ Stuck(t) /\ SendReqKey(d, t, q)
      \/ s # None /\ tun' = [tun EXCEPT ![d] = t]
      \/ s # None /\ tun' = [tun EXCEPT ![d] = Dispatch(@, z)]
  BY DEF OnAnsKey
<1>3. tun' = [tun EXCEPT ![d] = Dispatch(@, z)] => tun' = [tun EXCEPT ![d] = c]
  BY <1>1
<1>4. s # None => z.mine = s.mine
  BY <1>1 DEF Received, Tun, Sess
<1> HIDE DEF z
<1>5. t.cur = z /\ t.valid = tun[d].valid /\ t.reqage = tun[d].reqage
  BY <1>1 DEF Tun
<1>6. c.cur = z
  BY <1>1 DEF Dispatch, Tun
<1> HIDE DEF c, t, q
<1>7. CASE Stuck(t) /\ SendReqKey(d, t, q)
  BY <1>5, <1>7, CalmSend DEF Stuck, Excused
<1>8. ASSUME NEW r, r.cur = z, s # None, tun' = [tun EXCEPT ![d] = r]
      PROVE  \A e \in Daemon : Calm(e)
  <2>1. Calm(d)
    BY <1>1, <1>4, <1>8 DEF Calm
  <2>2. QED BY <1>8, <2>1, OthersCalm
<1>9. CASE s # None /\ tun' = [tun EXCEPT ![d] = t]
  BY <1>5, <1>8, <1>9
<1>10. CASE s # None /\ tun' = [tun EXCEPT ![d] = Dispatch(@, z)]
  BY <1>3, <1>6, <1>8, <1>10
<1>11. QED BY <1>2, <1>7, <1>9, <1>10, CalmSend, CalmMaybe

LEMMA CalmSendPacket ==
    ASSUME IInv, NEW d \in Daemon, SendPacket(d)
    PROVE  \A e \in Daemon : Calm(e) \/ Excused(e)
<1> DEFINE t == tun[d]
<1>1. \/ UNCHANGED tun
      \/ ~t.valid /\ ~t.waiting /\ SendReqKey(d, t, meta)
      \/ ~t.valid /\ t.reqage >= Retry /\ SendReqKey(d, [t EXCEPT !.cur = None], meta)
  BY DEF SendPacket
<1>2. ~t.valid /\ ~t.waiting => t.cur = None
  BY MineOK DEF TunOK
<1>3. QED BY <1>1, <1>2, CalmSame, CalmSend DEF Excused

LEMMA CalmTick ==
    ASSUME IInv, NEW d \in Daemon, Tick(d)
    PROVE  \A e \in Daemon : Calm(e) \/ Excused(e)
<1> DEFINE t == Older(tun[d])
           s == Session("I", NewKex)
           late == \E p \in Daemon : meta[p] # <<>> \/ snap[p] # tun[p].handles
           b == IF late THEN faults.late + 1 ELSE faults.late
<1>1. PICK worn \in BOOLEAN :
         /\ faults' = [faults EXCEPT !.rekey = IF worn THEN @ + 1 ELSE @, !.late = b]
         /\ \/ RekeyDue(t, worn) /\ tun' = [tun EXCEPT ![d] = Reap(Restart(t, s))]
            \/ tun' = [tun EXCEPT ![d] = Reap(t)]
  BY DEF Tick
<1> HIDE DEF b
<1>2. faults \in [rekey : Nat, loss : Nat, reset : Nat, late : Nat] /\ tun \in [Daemon -> Tun]
  BY DEF IInv, Shape
<1>3. worn => faults'.rekey > faults.rekey
  <2> DEFINE n == faults.rekey + 1
  <2>1. n > faults.rekey
    BY <1>2
  <2>2. worn => faults' = [faults EXCEPT !.rekey = n, !.late = b]
    BY <1>1
  <2> HIDE DEF n
  <2>3. worn => faults'.rekey = n
    BY <1>2, <2>2
  <2>4. QED BY <2>1, <2>3
<1>4. /\ TunOK(t) /\ t.cur = tun[d].cur /\ t.valid = tun[d].valid /\ t.waiting = tun[d].waiting
      /\ (t.prev = None => t.prevage = 0)
      /\ t.reqage = IF tun[d].reqage >= AgeCap THEN tun[d].reqage ELSE tun[d].reqage + 1
  BY OlderOK, MineOK
<1> HIDE DEF t
<1>5. CASE tun' = [tun EXCEPT ![d] = Reap(t)]
  <2>1. Reap(t).cur = tun[d].cur
    BY <1>4, ReapOK
  <2>2. Calm(d)
    BY <1>2, <1>5, <2>1 DEF Calm
  <2>3. QED BY <1>5, <2>2, OthersCalm
<1>6. CASE RekeyDue(t, worn) /\ tun' = [tun EXCEPT ![d] = Reap(Restart(t, s))]
  <2>1. Excused(d)
    <3>1. CASE t.valid /\ worn
      BY <1>3, <1>4, <3>1 DEF Excused
    <3>2. CASE t.waiting /\ t.reqage > PingInterval
      <4>1. ~tun[d].valid
        BY <1>4, <3>2 DEF TunOK
      <4>2. tun[d].reqage \in Nat
        BY <1>2, Constants DEF Tun
      <4>3. tun[d].reqage >= 1
        BY <1>4, <3>2, <4>2, Constants
      <4>4. QED BY <4>1, <4>3 DEF Excused, Retry
    <3>3. QED BY <1>6, <3>1, <3>2 DEF RekeyDue
  <2>2. QED BY <1>6, <2>1, OthersCalm
<1>7. QED BY <1>1, <1>5, <1>6

LEMMA CalmStep == IInv /\ [Next]_vars => \A e \in Daemon : Calm(e) \/ Excused(e)
<1> SUFFICES ASSUME IInv, [Next]_vars PROVE \A e \in Daemon : Calm(e) \/ Excused(e)
  OBVIOUS
<1>1. CASE UNCHANGED tun
  BY <1>1, CalmSame
<1>2. ASSUME NEW d \in Daemon, NEW key, RxUdp(d, key)
      PROVE  \A e \in Daemon : Calm(e) \/ Excused(e)
  <2>1. \/ tun[d].cur = None /\ SendReqKey(d, tun[d], meta)
        \/ UNCHANGED tun
        \/ MaybeRestart(d, meta)
    BY <1>2 DEF RxUdp
  <2>2. QED BY <1>1, <2>1, CalmSend, CalmMaybe
<1>3. ASSUME NEW d \in Daemon, KeyExpire(d)
      PROVE  \A e \in Daemon : Calm(e) \/ Excused(e)
  <2>1. tun[d].valid /\ SendReqKey(d, tun[d], meta) /\ faults' = [faults EXCEPT !.rekey = @ + 1]
    BY <1>3 DEF KeyExpire
  <2>2. faults'.rekey > faults.rekey
    BY <2>1 DEF IInv, Shape
  <2>3. QED BY <2>1, <2>2, CalmSend DEF Excused
<1>4. ASSUME NEW d \in Daemon, BecameUnreachable(d)
      PROVE  \A e \in Daemon : Calm(e) \/ Excused(e)
  <2>1. tun' = [tun EXCEPT ![d] = NoTunnel] /\ NoTunnel.cur = None
    BY <1>4 DEF BecameUnreachable, NoTunnel
  <2>2. tun'[d].cur = None
    BY <2>1 DEF IInv, Shape
  <2>3. Calm(d)
    BY <2>2 DEF Calm
  <2>4. QED BY <2>1, <2>3, OthersCalm
<1>5. CASE Next
  <2> SUFFICES ASSUME NEW d \in Daemon,
                      \/ OnReqKey(d) \/ OnAnsKey(d) \/ MetaLose(d)
                      \/ SendPacket(d) \/ FastTx(d) \/ Load(d)
                      \/ \E key \in udp[d] : RxUdp(d, key) \/ UdpLose(d, key)
                      \/ KeyExpire(d) \/ Tick(d)
                      \/ BecameUnreachable(d) \/ BecameReachable(d)
               PROVE  \A e \in Daemon : Calm(e) \/ Excused(e)
    BY <1>5 DEF Next
  <2>1. CASE OnReqKey(d)
    BY <2>1, CalmOnReqKey
  <2>2. CASE OnAnsKey(d)
    BY <2>2, CalmOnAnsKey
  <2>3. CASE SendPacket(d)
    BY <2>3, CalmSendPacket
  <2>4. CASE Tick(d)
    BY <2>4, CalmTick
  <2>5. CASE MetaLose(d) \/ FastTx(d) \/ Load(d) \/ BecameReachable(d)
             \/ \E key \in udp[d] : UdpLose(d, key)
    BY <1>1, <2>5 DEF MetaLose, FastTx, Load, BecameReachable, UdpLose
  <2>6. QED BY <1>2, <1>3, <1>4, <2>1, <2>2, <2>3, <2>4, <2>5
<1>6. QED BY <1>1, <1>5 DEF vars

(* A handshake is given REQ_KEY_RETRY: until then only the peer's REQ_KEY  *)
(* or the loss of the peer ends it, and a session that is delivering is    *)
(* replaced only by the peer's REQ_KEY or a rekey that was due.            *)
THEOREM PatienceCorrect == Spec => Patience
<1>1. IInv /\ [Next]_vars =>
        [\A d \in Daemon :
           (/\ tun[d].cur # None /\ tun'[d].cur # None
            /\ tun'[d].cur.mine # tun[d].cur.mine /\ tun'[d].cur.role = "I")
           => \/ ~tun[d].valid /\ tun[d].reqage >= Retry
              \/ tun[d].valid /\ faults'.rekey > faults.rekey]_vars
  BY CalmStep DEF Calm, Excused
<1>2. QED BY <1>1, IInvAlways, PTL DEF Spec, Patience

-----------------------------------------------------------------------------
(* Stragglers. With at most one rekey and nothing lost, late or reset, the *)
(* two ends go through the stages of one handshake and then of another.    *)

Smooth == faults.rekey <= 1 /\ faults.loss = 0 /\ faults.reset = 0 /\ faults.late = 0

(* Where a session stands: its REQ_KEY is out, it has the peer's KEX and   *)
(* waits for the signature, or it is done.                                 *)
Asks(s) == s # None /\ s.role = "I" /\ s.his = None
Waits(s, role) == /\ s # None /\ s.role = role /\ s.his # None
                  /\ s.inseqno = 1 /\ ~s.up
Done(s) == s # None /\ s.up

Request(s) == Kex("REQ_KEY", s)
Answer(s) == Kex("ANS_KEY", s)

(* The stages, of the sessions a and b and the messages qa and qb on the   *)
(* way to them; pb is the session b's daemon has salvaged, n the number of *)
(* rekeys.                                                                 *)
Idle(a, b, qa, qb, n) == a = None /\ b = None /\ qa = <<>> /\ qb = <<>> /\ n = 0

Settled(a, b, qa, qb) == Done(a) /\ Done(b) /\ qa = <<>> /\ qb = <<>>

Requested(a, b, qa, qb, pb, n) ==
    /\ Asks(a) /\ qa = <<>> /\ qb = <<Request(a)>> /\ pb = None
    /\ (b = None /\ n = 0) \/ (Done(b) /\ n = 1)

(* Both asked. The smaller name will answer, the greater drop its request. *)
Crossed(a, b, qa, qb, n) ==
    /\ Asks(a) /\ Asks(b) /\ n = 0
    /\ qa \in {<<>>, <<Request(b)>>} /\ qb = <<Request(a)>>

Answered(a, b, qa, qb) ==
    /\ Asks(a) /\ Waits(b, "R") /\ b.his = a.mine
    /\ qa = <<Answer(b)>> /\ qb = <<>>

(* ... with the request the greater name has yet to drop. *)
AnsweredBehind(a, b, qa, qb) ==
    /\ Asks(a) /\ Waits(b, "R") /\ b.his = a.mine
    /\ \E m \in Msg : m.req = "REQ_KEY" /\ qa = <<m, Answer(b)>>
    /\ qb = <<>>

Signed(a, b, qa, qb) ==
    /\ Waits(a, "I") /\ Waits(b, "R") /\ KeyOf(a) = KeyOf(b)
    /\ qa = <<>> /\ qb = <<Sig(a)>>

Half(a, b, qa, qb) == Waits(a, "I") /\ Done(b) /\ qa = <<Sig(a)>> /\ qb = <<>>

(* The responder rekeys before its last signature has arrived. *)
Overtaken(a, b, qa, qb, pb, n) ==
    /\ Asks(a) /\ Waits(b, "I") /\ pb = None /\ n = 1
    /\ qa = <<>> /\ qb = <<Sig(b), Request(a)>>

StageAt(i, a, b, qa, qb, pb, n) ==
    \/ Idle(a, b, qa, qb, n)
    \/ Settled(a, b, qa, qb)
    \/ Requested(a, b, qa, qb, pb, n)
    \/ i = 2 /\ Crossed(a, b, qa, qb, n)
    \/ Answered(a, b, qa, qb)
    \/ i = 2 /\ AnsweredBehind(a, b, qa, qb)
    \/ Signed(a, b, qa, qb)
    \/ Half(a, b, qa, qb)
    \/ Overtaken(a, b, qa, qb, pb, n)

Stage ==
    \E i \in Daemon :
        StageAt(i, tun[i].cur, tun[Peer(i)].cur, meta[i], meta[Peer(i)],
                tun[Peer(i)].prev, faults.rekey)

(* The keys under which d may be sent something: those on the way, those a *)
(* worker or the slow path of the peer may use, and those the peer is      *)
(* about to finish agreeing on.                                            *)
Sigs(d) == {m.kex : m \in {x \in Inbox(d) : x.seqno = 1}}

KeysToward(d) ==
    LET t == tun[Peer(d)] IN
    UNION {udp[d], Sigs(Peer(d)), {snap[Peer(d)], t.handles} \ {None},
           IF t.valid THEN {KeyOf(t.cur)} ELSE {}}

WillOpen(d, key) == Opens(d, key) \/ (tun[d].cur # None /\ KeyOf(tun[d].cur) = key)

Covered(d) == \A key \in KeysToward(d) : WillOpen(d, key)

Orderly(d) ==
    LET t == tun[d] IN
    /\ reach[d]
    /\ t.waiting => t.reqage = 0
    /\ faults.rekey = 0 => t.prev = None
    /\ t.cur = None => t.prev = None /\ t.handles = None
    /\ t.valid => t.handles = KeyOf(t.cur)

SmoothInv == Stage /\ \A d \in Daemon : Orderly(d) /\ Covered(d)

SInv == Smooth => SmoothInv

-----------------------------------------------------------------------------
LEMMA KeysTowardType == IInv => \A d \in Daemon : KeysToward(d) \subseteq Key
<1> SUFFICES ASSUME IInv, NEW d \in Daemon PROVE KeysToward(d) \subseteq Key
  OBVIOUS
<1>1. Shape /\ Peer(d) \in Daemon
  BY Peers DEF IInv
<1>2. udp[d] \subseteq Key /\ snap[Peer(d)] \in Key \cup {None}
  BY <1>1 DEF Shape
<1>3. tun[Peer(d)].handles \in Key \cup {None}
  BY <1>1 DEF Shape, Tun
<1>4. Sigs(Peer(d)) \subseteq Key
  <2>1. Inbox(Peer(d)) \subseteq Msg
    BY <1>1, InboxType
  <2>2. QED BY <2>1 DEF Sigs, Msg
<1>5. ASSUME tun[Peer(d)].valid PROVE KeyOf(tun[Peer(d)].cur) \in Key
  <2>1. TunOK(tun[Peer(d)])
    BY <1>1, MineOK
  <2>2. tun[Peer(d)].cur \in Sess /\ tun[Peer(d)].cur.his # None
    BY <1>1, <1>5, <2>1 DEF Shape, Tun, TunOK, HasParts, SessFits
  <2>3. QED BY <2>2, MsgTypes
<1>6. QED BY <1>2, <1>3, <1>4, <1>5 DEF KeysToward

(* A session that has not got the peer's KEX has no key. *)
LEMMA NoKeyYet == \A s : s.his = None => KeyOf(s) \notin Key
BY Constants DEF KeyOf, Key

LEMMA SigsShrink ==
    ASSUME NEW e, NEW x, x.seqno = 0, Inbox(e)' \subseteq Inbox(e) \cup {x}
    PROVE  Sigs(e)' \subseteq Sigs(e)
BY DEF Sigs

LEMMA KeysSame ==
    ASSUME NEW e \in Daemon, udp'[e] \subseteq udp[e], snap'[Peer(e)] = snap[Peer(e)],
           tun'[Peer(e)].handles = tun[Peer(e)].handles,
           tun'[Peer(e)].valid => tun[Peer(e)].valid /\ tun'[Peer(e)].cur = tun[Peer(e)].cur,
           Sigs(Peer(e))' \subseteq Sigs(Peer(e))
    PROVE  KeysToward(e)' \subseteq KeysToward(e)
BY DEF KeysToward

(* Faults only become more. *)
LEMMA SmoothBack == IInv /\ [Next]_vars /\ Smooth' => Smooth
<1> SUFFICES ASSUME IInv, [Next]_vars, Smooth' PROVE Smooth
  OBVIOUS
<1>1. faults \in [rekey : Nat, loss : Nat, reset : Nat, late : Nat]
  BY DEF IInv, Shape
<1>2. CASE UNCHANGED faults
  BY <1>2 DEF Smooth
<1>3. ASSUME NEW f \in {"rekey", "loss", "reset"}, faults' = [faults EXCEPT ![f] = @ + 1]
      PROVE  Smooth
  BY <1>1, <1>3 DEF Smooth
<1>4. ASSUME NEW d \in Daemon, Tick(d) PROVE Smooth
  <2> DEFINE late == \E p \in Daemon : meta[p] # <<>> \/ snap[p] # tun[p].handles
  <2>1. PICK worn \in BOOLEAN :
          faults' = [faults EXCEPT !.rekey = IF worn THEN @ + 1 ELSE @,
                                   !.late = IF late THEN @ + 1 ELSE @]
    BY <1>4 DEF Tick
  <2> HIDE DEF late
  <2>2. QED BY <1>1, <2>1 DEF Smooth
<1>5. CASE Next
  <2> SUFFICES ASSUME NEW d \in Daemon,
                      \/ OnReqKey(d) \/ OnAnsKey(d) \/ MetaLose(d)
                      \/ SendPacket(d) \/ FastTx(d) \/ Load(d)
                      \/ \E key \in udp[d] : RxUdp(d, key) \/ UdpLose(d, key)
                      \/ KeyExpire(d) \/ Tick(d)
                      \/ BecameUnreachable(d) \/ BecameReachable(d)
               PROVE  Smooth
    BY <1>5 DEF Next
  <2>1. CASE MetaLose(d)
    BY <1>3, <2>1 DEF MetaLose
  <2>2. CASE KeyExpire(d)
    BY <1>3, <2>2 DEF KeyExpire
  <2>3. CASE BecameUnreachable(d)
    BY <1>3, <2>3 DEF BecameUnreachable
  <2>4. CASE Tick(d)
    BY <1>4, <2>4
  <2>5. CASE \/ OnReqKey(d) \/ OnAnsKey(d) \/ SendPacket(d) \/ FastTx(d) \/ Load(d)
             \/ \E key \in udp[d] : RxUdp(d, key) \/ UdpLose(d, key)
             \/ BecameReachable(d)
    BY <1>2, <2>5 DEF OnReqKey, OnAnsKey, SendPacket, FastTx, Load, RxUdp, UdpLose, BecameReachable
  <2>6. QED BY <2>1, <2>2, <2>3, <2>4, <2>5
<1>6. QED BY <1>2, <1>5 DEF vars

-----------------------------------------------------------------------------
(* Steps that leave the tunnels and the messages alone. *)

LEMMA DataStep ==
    ASSUME SmoothInv, UNCHANGED <<tun, meta, reach, faults>>,
           \A e \in Daemon : KeysToward(e)' \subseteq KeysToward(e)
    PROVE  SmoothInv'
<1>1. Stage'
  BY DEF SmoothInv, Stage
<1>2. \A e \in Daemon : Orderly(e)'
  BY DEF SmoothInv, Orderly
<1>3. \A e \in Daemon : \A key : WillOpen(e, key)' <=> WillOpen(e, key)
  BY DEF WillOpen, Opens
<1>4. \A e \in Daemon : Covered(e)'
  BY <1>3 DEF SmoothInv, Covered
<1>5. QED BY <1>1, <1>2, <1>4 DEF SmoothInv

LEMMA SmoothFly ==
    ASSUME IInv, SmoothInv, NEW d \in Daemon, NEW key, key \in KeysToward(Peer(d)), Fly(d, key),
           UNCHANGED <<tun, snap, reach, meta, faults>>
    PROVE  SmoothInv'
<1>1. udp' = [udp EXCEPT ![Peer(d)] = @ \cup {key}] /\ udp \in [Daemon -> SUBSET Key]
  BY DEF Fly, IInv, Shape
<1>2. \A e \in Daemon : udp'[e] \subseteq udp[e] \/ (e = Peer(d) /\ udp'[e] = udp[e] \cup {key})
  BY <1>1, Peers
<1>3. \A e \in Daemon : Sigs(e)' = Sigs(e)
  BY DEF Sigs, Inbox
<1>4. \A e \in Daemon : KeysToward(e)' \subseteq KeysToward(e)
  BY <1>2, <1>3, Peers DEF KeysToward
<1>5. QED BY <1>4, DataStep

LEMMA SmoothDrop ==
    ASSUME IInv, SmoothInv, NEW d \in Daemon, NEW key, udp' = [udp EXCEPT ![d] = @ \ {key}],
           UNCHANGED <<tun, snap, reach, meta, faults>>
    PROVE  SmoothInv'
<1>1. udp \in [Daemon -> SUBSET Key]
  BY DEF IInv, Shape
<1>2. \A e \in Daemon : udp'[e] \subseteq udp[e]
  BY <1>1
<1>3. \A e \in Daemon : Sigs(e)' = Sigs(e)
  BY DEF Sigs, Inbox
<1>4. \A e \in Daemon : KeysToward(e)' \subseteq KeysToward(e)
  BY <1>2, <1>3, Peers DEF KeysToward
<1>5. QED BY <1>4, DataStep

LEMMA SmoothFastTx ==
    ASSUME IInv, SmoothInv, NEW d \in Daemon, FastTx(d)
    PROVE  SmoothInv'
<1>1. snap[d] # None /\ Fly(d, snap[d]) /\ UNCHANGED <<tun, snap, reach, meta, faults>>
  BY DEF FastTx
<1>2. snap[d] \in KeysToward(Peer(d))
  BY <1>1, Peers DEF KeysToward
<1>3. QED BY <1>1, <1>2, SmoothFly, Peers

LEMMA SmoothLoad ==
    ASSUME IInv, SmoothInv, NEW d \in Daemon, Load(d)
    PROVE  SmoothInv'
<1> DEFINE h == tun[d].handles
<1>1. snap' = [snap EXCEPT ![d] = h] /\ UNCHANGED <<tun, reach, meta, udp, faults>>
      /\ snap \in [Daemon -> Key \cup {None}]
  BY DEF Load, IInv, Shape
<1>2. \A e \in Daemon : snap'[e] = IF e = d THEN tun[e].handles ELSE snap[e]
  BY <1>1
<1>3. \A e \in Daemon : Sigs(e)' = Sigs(e)
  BY <1>1 DEF Sigs, Inbox
<1>4. \A e \in Daemon : KeysToward(e)' \subseteq KeysToward(e)
  BY <1>1, <1>2, <1>3, Peers DEF KeysToward
<1>5. QED BY <1>1, <1>4, DataStep

(* A handshake in progress is not stuck. *)
LEMMA NotStuck ==
    ASSUME IInv, SmoothInv, NEW d \in Daemon, tun[d].cur # None
    PROVE  ~Stuck(tun[d])
<1>1. TunOK(tun[d]) /\ Orderly(d)
  BY MineOK DEF SmoothInv
<1>2. QED BY <1>1 DEF TunOK, Orderly, Stuck, Retry

LEMMA SmoothRxUdp ==
    ASSUME IInv, SmoothInv, NEW d \in Daemon, NEW key, RxUdp(d, key)
    PROVE  SmoothInv'
<1>1. key \in udp[d] /\ key \in Key
  BY DEF RxUdp, IInv, Shape
<1>3. WillOpen(d, key)
  BY <1>1 DEF SmoothInv, Covered, KeysToward
<1>4. tun[d].cur # None
  BY <1>3 DEF WillOpen, Opens, SmoothInv, Orderly
<1>5. ~Stuck(tun[d])
  BY <1>4, NotStuck
<1>6. UNCHANGED <<tun, meta, snap, reach, faults>> /\ udp' = [udp EXCEPT ![d] = @ \ {key}]
  BY <1>4, <1>5 DEF RxUdp, MaybeRestart
<1>7. QED BY <1>6, SmoothDrop

-----------------------------------------------------------------------------
(* A new session starts. *)

LEMMA RestartParts ==
    ASSUME NEW t \in Tun, NEW s \in Sess
    PROVE  LET r == Restart(t, s) IN
           /\ r \in Tun /\ r.cur = s /\ ~r.valid /\ r.reqage = 0 /\ r.handles = t.handles
           /\ r.prev = IF Done(t.cur) THEN t.cur ELSE t.prev
           /\ Done(t.cur) => r.prevage = 0
<1> DEFINE a == Salvage(t)
<1>1. /\ a \in Tun /\ a.handles = t.handles
      /\ a.prev = IF Done(t.cur) THEN t.cur ELSE t.prev
      /\ Done(t.cur) => a.prevage = 0
  BY DEF Salvage, Done, Tun
<1> HIDE DEF a
<1>2. Restart(t, s) = [a EXCEPT !.cur = s, !.valid = FALSE, !.waiting = TRUE, !.reqage = 0]
  BY DEF Restart, a
<1>3. 0 \in 0 .. Never
  BY Constants
<1>4. QED BY <1>1, <1>2, <1>3 DEF Tun

(* d's tunnel after it started session s over a session that is done, or   *)
(* that has no key yet, with nothing salvaged before.                      *)
Started(d, s) ==
    LET t == tun[d]
        r == tun'[d]
    IN
    /\ tun' = [tun EXCEPT ![d] = r]
    /\ s \in Sess /\ ~s.up
    /\ r.cur = s /\ ~r.valid /\ r.reqage = 0 /\ r.handles = t.handles
    /\ r.prev = (IF Done(t.cur) THEN t.cur ELSE t.prev)
    /\ t.prev = None
    /\ t.cur # None => Done(t.cur) \/ t.cur.his = None

LEMMA StartedCovers ==
    ASSUME IInv, IInv', SmoothInv, NEW d \in Daemon, NEW s, Started(d, s),
           NEW x, x.seqno = 0, \A e \in Daemon : Inbox(e)' \subseteq Inbox(e) \cup {x},
           \A e \in Daemon : udp'[e] \subseteq udp[e], UNCHANGED <<snap, reach>>,
           faults'.rekey = 0 => faults.rekey = 0 /\ ~Done(tun[d].cur)
    PROVE  \A e \in Daemon : Orderly(e)' /\ Covered(e)'
<1>1. /\ tun'[Peer(d)] = tun[Peer(d)] /\ Peer(d) \in Daemon /\ Peer(d) # d /\ Daemon = {d, Peer(d)}
      /\ Peer(Peer(d)) = d
  BY Peers DEF IInv, Shape, Started
<1>2. s # None /\ TunOK(tun'[d])
  BY Constants DEF Started, IInv
<1>3. Orderly(d)'
  BY <1>2 DEF Orderly, Started, SmoothInv, TunOK
<1>4. Orderly(Peer(d))'
  BY <1>1 DEF Orderly, SmoothInv
<1>5. \A e \in Daemon : Sigs(e)' \subseteq Sigs(e)
  BY SigsShrink
<1>6. \A e \in Daemon : KeysToward(e)' \subseteq KeysToward(e)
  <2>1. \A e \in Daemon : /\ tun'[e].handles = tun[e].handles
                          /\ tun'[e].valid => tun[e].valid /\ tun'[e].cur = tun[e].cur
    BY <1>1 DEF Started
  <2>2. QED BY <1>1, <1>5, <2>1, KeysSame
<1>7. ASSUME NEW key \in KeysToward(d) PROVE WillOpen(d, key)'
  <2>1. key \in Key /\ WillOpen(d, key)
    BY KeysTowardType DEF SmoothInv, Covered
  <2>2. tun[d].cur # None /\ KeyOf(tun[d].cur) = key
    BY <2>1 DEF WillOpen, Opens, Started
  <2>3. Done(tun[d].cur)
    BY <2>1, <2>2, NoKeyYet DEF Started
  <2>4. tun'[d].prev = tun[d].cur
    BY <2>3 DEF Started
  <2>5. QED BY <2>2, <2>4 DEF WillOpen, Opens
<1>8. ASSUME NEW key \in KeysToward(Peer(d)) PROVE WillOpen(Peer(d), key)'
  <2>1. WillOpen(Peer(d), key)
    BY <1>1 DEF SmoothInv, Covered
  <2>2. QED BY <1>1, <2>1 DEF WillOpen, Opens
<1>9. Covered(d)' /\ Covered(Peer(d))'
  BY <1>1, <1>6, <1>7, <1>8 DEF Covered
<1>10. QED BY <1>1, <1>3, <1>4, <1>9

(* send_req_key of a daemon that has no session, or whose key is due. *)
LEMMA SmoothRequest ==
    ASSUME IInv, IInv', SmoothInv, Smooth, Smooth', NEW d \in Daemon, NEW s, Started(d, s),
           s.role = "I", s.his = None,
           meta' = Send(d, meta, <<Request(s)>>),
           \A e \in Daemon : udp'[e] \subseteq udp[e], UNCHANGED <<snap, reach>>,
           \/ tun[d].cur = None /\ faults' = faults
           \/ Done(tun[d].cur) /\ faults'.rekey = faults.rekey + 1
    PROVE  SmoothInv'
<1> DEFINE p == Peer(d)
           a == tun[d].cur
           b == tun[p].cur
           n == faults.rekey
           x == Request(s)
<1>1. p \in Daemon /\ p # d /\ Daemon = {d, p} /\ Peer(p) = d
  BY Peers
<1>2. /\ tun \in [Daemon -> Tun] /\ meta \in [Daemon -> Seq(Msg)]
      /\ n \in Nat /\ n <= 1 /\ faults'.rekey <= 1 /\ reach[d]
      /\ \A e \in Daemon : n = 0 => tun[e].prev = None
  BY DEF IInv, Shape, Smooth, SmoothInv, Orderly
<1>3. /\ tun'[p] = tun[p] /\ tun'[d].cur = s /\ s # None /\ s \in Sess
      /\ tun'[d].prev = IF Done(a) THEN a ELSE None
  BY <1>1, <1>2, Constants DEF Started
<1>4. x \in Msg /\ x.seqno = 0 /\ Asks(s)
  BY <1>3, MsgTypes DEF Request, Asks
<1>5. meta' = [meta EXCEPT ![p] = meta[p] \o <<x>>]
  BY <1>2 DEF Send
<1>6. meta'[d] = meta[d] /\ meta'[p] = meta[p] \o <<x>>
  BY <1>1, <1>2, <1>5
<1>7. \A e \in Daemon : Inbox(e)' \subseteq Inbox(e) \cup {x}
  <2>1. meta[p] \in Seq(Msg)
    BY <1>1, <1>2
  <2>2. Elems(meta[p] \o <<x>>) \subseteq Elems(meta[p]) \cup {x}
    BY <1>4, <2>1, QueueAdd
  <2>3. QED BY <1>1, <1>6, <2>2 DEF Inbox
<1>8. faults'.rekey = 0 => n = 0 /\ ~Done(a)
  BY <1>2 DEF Done
<1>9. \A e \in Daemon : Orderly(e)' /\ Covered(e)'
  BY <1>4, <1>7, <1>8, StartedCovers
<1>10. PICK i \in Daemon : StageAt(i, tun[i].cur, tun[Peer(i)].cur, meta[i], meta[Peer(i)],
                                  tun[Peer(i)].prev, n)
  BY DEF SmoothInv, Stage
<1>11. meta[p] = <<>> => meta'[p] = <<x>>
  BY <1>6
<1> HIDE DEF x, n
<1>12. CASE a = None /\ faults' = faults
  <2>1. i = d \/ i = p
    BY <1>1
  <2>2. CASE b = None /\ meta[d] = <<>> /\ meta[p] = <<>> /\ n = 0
    <3>1. Requested(tun'[d].cur, tun'[p].cur, meta'[d], meta'[p], tun'[p].prev, faults'.rekey)
      BY <1>1, <1>2, <1>3, <1>4, <1>6, <1>11, <1>12, <2>2 DEF Requested, n, x
    <3>2. Stage'
      BY <3>1 DEF Stage, StageAt
    <3>3. QED BY <1>9, <3>2 DEF SmoothInv
  <2>3. CASE Asks(b) /\ meta[p] = <<>> /\ meta[d] = <<Request(b)>> /\ n = 0
    <3>1. meta'[p] = <<x>> /\ meta'[d] = <<Request(b)>> /\ tun'[p].cur = b
      BY <1>3, <1>6, <1>11, <2>3
    <3>2. /\ Crossed(tun'[d].cur, tun'[p].cur, meta'[d], meta'[p], faults'.rekey)
          /\ Crossed(tun'[p].cur, tun'[d].cur, meta'[p], meta'[d], faults'.rekey)
      BY <1>3, <1>4, <1>12, <2>3, <3>1 DEF Crossed, n, x
    <3>3. Stage'
      <4>1. d = 2 \/ p = 2
        BY <1>1 DEF Daemon, Peer
      <4>2. QED BY <1>1, <3>2, <4>1 DEF Stage, StageAt
    <3>4. QED BY <1>9, <3>3 DEF SmoothInv
  <2>4. (b = None /\ meta[d] = <<>> /\ meta[p] = <<>> /\ n = 0)
        \/ (Asks(b) /\ meta[p] = <<>> /\ meta[d] = <<Request(b)>> /\ n = 0)
    <3>1. CASE i = d
      BY <1>10, <1>12, <3>1 DEF StageAt, Idle, Settled, Requested, Crossed, Answered, AnsweredBehind,
                                Signed, Half, Overtaken, Asks, Waits, Done
    <3>2. CASE i = p
      BY <1>1, <1>10, <1>12, <3>2
         DEF StageAt, Idle, Settled, Requested, Crossed, Answered, AnsweredBehind,
             Signed, Half, Overtaken, Asks, Waits, Done
    <3>3. QED BY <2>1, <3>1, <3>2
  <2>5. QED BY <2>2, <2>3, <2>4
<1>13. CASE Done(a) /\ faults'.rekey = n + 1
  <2>1. n = 0 /\ faults'.rekey = 1 /\ tun[p].prev = None
    BY <1>1, <1>2, <1>13 DEF n
  <2>2. CASE Done(b) /\ meta[d] = <<>> /\ meta[p] = <<>>
    <3>1. Requested(tun'[d].cur, tun'[p].cur, meta'[d], meta'[p], tun'[p].prev, faults'.rekey)
      BY <1>3, <1>4, <1>6, <1>11, <2>1, <2>2 DEF Requested, x
    <3>2. Stage'
      BY <3>1 DEF Stage, StageAt
    <3>3. QED BY <1>9, <3>2 DEF SmoothInv
  <2>3. CASE Waits(b, "I") /\ meta[d] = <<>> /\ meta[p] = <<Sig(b)>>
    <3>1. meta'[p] = <<Sig(b), x>>
      BY <1>6, <2>3
    <3>2. Overtaken(tun'[d].cur, tun'[p].cur, meta'[d], meta'[p], tun'[p].prev, faults'.rekey)
      BY <1>3, <1>4, <1>6, <2>1, <2>3, <3>1 DEF Overtaken, x
    <3>3. Stage'
      BY <3>2 DEF Stage, StageAt
    <3>4. QED BY <1>9, <3>3 DEF SmoothInv
  <2>4. SessFits(a) /\ a # None
    BY <1>13, MineOK DEF TunOK, HasParts, Done
  <2>5. (Done(b) /\ meta[d] = <<>> /\ meta[p] = <<>>)
        \/ (Waits(b, "I") /\ meta[d] = <<>> /\ meta[p] = <<Sig(b)>>)
    <3>1. CASE i = d
      BY <1>10, <1>13, <2>1, <2>4, <3>1
         DEF StageAt, Idle, Settled, Requested, Crossed, Answered, AnsweredBehind,
             Signed, Half, Overtaken, Asks, Waits, Done, SessFits
    <3>2. CASE i = p
      BY <1>1, <1>10, <1>13, <2>1, <2>4, <3>2
         DEF StageAt, Idle, Settled, Requested, Crossed, Answered, AnsweredBehind,
             Signed, Half, Overtaken, Asks, Waits, Done, SessFits
    <3>3. QED BY <1>1, <3>1, <3>2
  <2>6. QED BY <2>2, <2>3, <2>5
<1>14. QED BY <1>12, <1>13 DEF n

LEMMA SendReqKeyStarts ==
    ASSUME IInv, NEW d \in Daemon, SendReqKey(d, tun[d], meta),
           tun[d].prev = None, tun[d].cur # None => Done(tun[d].cur)
    PROVE  \E s : /\ Started(d, s) /\ s.role = "I" /\ s.his = None
                  /\ meta' = Send(d, meta, <<Request(s)>>)
<1> DEFINE s == Session("I", NewKex)
           r == Restart(tun[d], s)
<1>1. s \in Sess /\ ~s.up /\ s.role = "I" /\ s.his = None
  BY NewSession DEF IInv
<1>2. tun' = [tun EXCEPT ![d] = r] /\ meta' = Send(d, meta, <<Request(s)>>)
  BY DEF SendReqKey, Request
<1>3. tun[d] \in Tun /\ tun \in [Daemon -> Tun]
  BY DEF IInv, Shape
<1> HIDE DEF s
<1>4. /\ r \in Tun /\ r.cur = s /\ ~r.valid /\ r.reqage = 0 /\ r.handles = tun[d].handles
      /\ r.prev = IF Done(tun[d].cur) THEN tun[d].cur ELSE tun[d].prev
  BY <1>1, <1>3, RestartParts
<1> HIDE DEF r
<1>5. tun'[d] = r /\ tun' = [tun EXCEPT ![d] = tun'[d]]
  BY <1>2, <1>3
<1>6. Started(d, s)
  BY <1>1, <1>4, <1>5 DEF Started
<1>7. QED BY <1>1, <1>2, <1>6

LEMMA SmoothSendPacket ==
    ASSUME IInv, IInv', SmoothInv, Smooth, Smooth', NEW d \in Daemon, SendPacket(d)
    PROVE  SmoothInv'
<1> DEFINE t == tun[d]
<1>1. /\ UNCHANGED <<snap, reach, faults>>
      /\ \/ t.valid /\ Fly(d, KeyOf(t.cur)) /\ UNCHANGED <<tun, meta>>
         \/ ~t.valid /\ ~t.waiting /\ SendReqKey(d, t, meta) /\ UNCHANGED udp
         \/ ~t.valid /\ t.waiting /\ t.reqage >= Retry
  BY DEF SendPacket
<1>2. TunOK(t) /\ Orderly(d)
  BY MineOK DEF SmoothInv
<1>3. CASE t.valid /\ Fly(d, KeyOf(t.cur)) /\ UNCHANGED <<tun, meta>>
  <2>1. KeyOf(t.cur) \in KeysToward(Peer(d))
    BY <1>3, Peers DEF KeysToward
  <2>2. QED BY <1>1, <1>3, <2>1, SmoothFly
<1>4. CASE ~t.valid /\ ~t.waiting /\ SendReqKey(d, t, meta) /\ UNCHANGED udp
  <2>1. t.cur = None /\ t.prev = None
    BY <1>2, <1>4 DEF TunOK, Orderly
  <2>2. PICK s : /\ Started(d, s) /\ s.role = "I" /\ s.his = None
                 /\ meta' = Send(d, meta, <<Request(s)>>)
    BY <1>4, <2>1, SendReqKeyStarts
  <2>3. QED BY <1>1, <1>4, <2>1, <2>2, SmoothRequest
<1>5. CASE ~t.valid /\ t.waiting /\ t.reqage >= Retry
  BY <1>2, <1>5 DEF Orderly, Retry
<1>6. QED BY <1>1, <1>3, <1>4, <1>5

LEMMA SmoothKeyExpire ==
    ASSUME IInv, IInv', SmoothInv, Smooth, Smooth', NEW d \in Daemon, KeyExpire(d)
    PROVE  SmoothInv'
<1>1. /\ tun[d].valid /\ SendReqKey(d, tun[d], meta) /\ faults' = [faults EXCEPT !.rekey = @ + 1]
      /\ UNCHANGED <<snap, reach, udp>>
  BY DEF KeyExpire
<1>2. faults \in [rekey : Nat, loss : Nat, reset : Nat, late : Nat]
  BY DEF IInv, Shape
<1>3. faults'.rekey = faults.rekey + 1
  BY <1>1, <1>2
<1>4. faults.rekey = 0
  BY <1>2, <1>3 DEF Smooth
<1>5. Done(tun[d].cur) /\ tun[d].prev = None
  BY <1>1, <1>4, MineOK DEF TunOK, Done, SmoothInv, Orderly
<1>6. PICK s : /\ Started(d, s) /\ s.role = "I" /\ s.his = None
               /\ meta' = Send(d, meta, <<Request(s)>>)
  BY <1>1, <1>5, SendReqKeyStarts
<1>7. QED BY <1>1, <1>3, <1>5, <1>6, SmoothRequest

(* A unit of time ends: with everything delivered, the two are idle or     *)
(* settled, and a previous session that is reaped is nobody's key.         *)
LEMMA SmoothTick ==
    ASSUME IInv, IInv', SmoothInv, Smooth, Smooth', NEW d \in Daemon, Tick(d)
    PROVE  SmoothInv'
<1> DEFINE t == Older(tun[d])
           s == Session("I", NewKex)
           c == Restart(t, s)
           late == \E p \in Daemon : meta[p] # <<>> \/ snap[p] # tun[p].handles
<1>1. PICK worn \in BOOLEAN :
         /\ worn => t.valid
         /\ faults' = [faults EXCEPT !.rekey = IF worn THEN @ + 1 ELSE @,
                                     !.late = IF late THEN @ + 1 ELSE @]
         /\ \/ /\ RekeyDue(t, worn) /\ tun' = [tun EXCEPT ![d] = Reap(c)]
               /\ meta' = Send(d, meta, <<Kex("REQ_KEY", s)>>)
            \/ ~RekeyDue(t, worn) /\ tun' = [tun EXCEPT ![d] = Reap(t)] /\ UNCHANGED meta
  BY DEF Tick
<1>2. udp' = (IF late THEN udp ELSE [p \in Daemon |-> {}]) /\ UNCHANGED <<snap, reach>>
  BY DEF Tick
<1>3. /\ faults \in [rekey : Nat, loss : Nat, reset : Nat, late : Nat]
      /\ tun \in [Daemon -> Tun]
  BY DEF IInv, Shape
<1>4. ~late
  <2> DEFINE a == IF worn THEN faults.rekey + 1 ELSE faults.rekey
             b == IF late THEN faults.late + 1 ELSE faults.late
  <2>1. faults' = [faults EXCEPT !.rekey = a, !.late = b]
    BY <1>1
  <2> HIDE DEF late
  <2>2. late => b # 0
    BY <1>3
  <2> HIDE DEF a, b
  <2>3. faults'.late = b
    BY <1>3, <2>1
  <2>4. QED BY <2>2, <2>3 DEF Smooth
<1>5. /\ \A e \in Daemon : meta[e] = <<>> /\ snap[e] = tun[e].handles /\ udp'[e] = {}
  BY <1>2, <1>4
<1>6. faults'.rekey = IF worn THEN faults.rekey + 1 ELSE faults.rekey
  BY <1>1, <1>3
<1> HIDE DEF late
<1>7. PICK i \in Daemon : StageAt(i, tun[i].cur, tun[Peer(i)].cur, meta[i], meta[Peer(i)],
                                  tun[Peer(i)].prev, faults.rekey)
  BY DEF SmoothInv, Stage
<1>8. \/ (\A e \in Daemon : tun[e].cur = None) /\ faults.rekey = 0
      \/ \A e \in Daemon : Done(tun[e].cur)
  <2>1. \A x, y : <<x>> # <<>> /\ <<x, y>> # <<>>
    OBVIOUS
  <2>2. meta[i] = <<>> /\ meta[Peer(i)] = <<>> /\ Daemon = {i, Peer(i)}
    BY <1>5, Peers
  <2>3. QED BY <1>7, <2>1, <2>2 DEF StageAt, Idle, Settled, Requested, Crossed, Answered,
                                    AnsweredBehind, Signed, Half, Overtaken
<1>9. \A e \in Daemon : TunOK(tun[e]) /\ Orderly(e)
  BY MineOK DEF SmoothInv
<1>10. /\ t \in Tun /\ t.cur = tun[d].cur /\ t.prev = tun[d].prev /\ t.valid = tun[d].valid
       /\ t.waiting = tun[d].waiting /\ t.handles = tun[d].handles
  <2> DEFINE o == tun[d]
             x == IF o.reqage >= AgeCap THEN o.reqage ELSE o.reqage + 1
             y == IF o.prev = None THEN 0 ELSE o.prevage + 1
  <2>1. o \in Tun /\ t = [o EXCEPT !.reqage = x, !.prevage = y]
    BY <1>3 DEF Older
  <2>2. x \in 0 .. Never /\ y \in Nat
    BY <2>1, Constants DEF Tun
  <2> HIDE DEF x, y, o
  <2>3. t \in Tun /\ t.cur = o.cur /\ t.prev = o.prev /\ t.valid = o.valid /\ t.waiting = o.waiting
        /\ t.handles = o.handles
    <3>1. t = [o EXCEPT !.reqage = x, !.prevage = y]
      BY <2>1
    <3> HIDE DEF t
    <3>2. QED BY <2>1, <2>2, <3>1 DEF Tun
  <2>4. QED BY <2>3 DEF o
<1> HIDE DEF t
<1>11. ~t.waiting
  BY <1>8, <1>9, <1>10 DEF TunOK, Done
<1>12. CASE worn
  <2>1. faults.rekey = 0 /\ faults'.rekey = faults.rekey + 1
    BY <1>3, <1>6, <1>12 DEF Smooth
  <2>2. Done(tun[d].cur) /\ tun[d].prev = None
    BY <1>1, <1>9, <1>10, <1>12, <2>1 DEF TunOK, Done, Orderly
  <2>3. RekeyDue(t, worn)
    BY <1>1, <1>11, <1>12 DEF RekeyDue
  <2>4. tun' = [tun EXCEPT ![d] = Reap(c)] /\ meta' = Send(d, meta, <<Request(s)>>)
    BY <1>1, <2>3 DEF Request
  <2>5. s \in Sess /\ ~s.up /\ s.role = "I" /\ s.his = None
    BY NewSession DEF IInv
  <2> HIDE DEF s
  <2>6. /\ c \in Tun /\ c.cur = s /\ ~c.valid /\ c.reqage = 0 /\ c.handles = tun[d].handles
        /\ c.prev = (IF Done(tun[d].cur) THEN tun[d].cur ELSE tun[d].prev) /\ c.prevage = 0
    BY <1>10, <2>2, <2>5, RestartParts
  <2> HIDE DEF c
  <2>7. Reap(c) = c
    BY <2>6, Constants DEF Reap, ShouldReap
  <2>8. tun'[d] = c /\ tun' = [tun EXCEPT ![d] = tun'[d]]
    BY <1>3, <2>4, <2>7
  <2>9. Started(d, s)
    BY <2>2, <2>5, <2>6, <2>8 DEF Started
  <2>10. \A e \in Daemon : udp'[e] \subseteq udp[e]
    BY <1>5
  <2>11. QED BY <1>2, <2>1, <2>2, <2>4, <2>5, <2>9, <2>10, SmoothRequest
<1>13. CASE ~worn
  <2>1. tun' = [tun EXCEPT ![d] = Reap(t)] /\ UNCHANGED meta /\ faults'.rekey = faults.rekey
    BY <1>1, <1>6, <1>11, <1>13 DEF RekeyDue
  <2> DEFINE r == Reap(t)
  <2>2. /\ r.cur = tun[d].cur /\ r.valid = tun[d].valid /\ r.waiting = tun[d].waiting
        /\ r.handles = tun[d].handles /\ r.prev \in {tun[d].prev, None}
    BY <1>10 DEF Reap, Tun
  <2> HIDE DEF r
  <2>3. \A e \in Daemon : tun'[e] = IF e = d THEN r ELSE tun[e]
    BY <1>3, <2>1 DEF r
  <2>4. \A e \in Daemon : /\ tun'[e].cur = tun[e].cur /\ tun'[e].valid = tun[e].valid
                          /\ tun'[e].waiting = tun[e].waiting /\ tun'[e].handles = tun[e].handles
                          /\ tun'[e].prev \in {tun[e].prev, None}
    BY <2>2, <2>3
  <2>5. \A e \in Daemon : ~tun[e].waiting
    BY <1>8, <1>9 DEF TunOK, Done
  <2>6. \A e \in Daemon : Orderly(e)'
    BY <1>2, <1>9, <2>1, <2>4, <2>5 DEF Orderly
  <2>7. Stage'
    <3>1. i \in Daemon /\ Peer(i) \in Daemon /\ Daemon = {i, Peer(i)}
      BY Peers
    <3>2. Idle(tun[i].cur, tun[Peer(i)].cur, meta[i], meta[Peer(i)], faults.rekey)
          \/ Settled(tun[i].cur, tun[Peer(i)].cur, meta[i], meta[Peer(i)])
      BY <1>5, <1>8, <3>1 DEF Idle, Settled
    <3>3. Idle(tun'[i].cur, tun'[Peer(i)].cur, meta'[i], meta'[Peer(i)], faults'.rekey)
          \/ Settled(tun'[i].cur, tun'[Peer(i)].cur, meta'[i], meta'[Peer(i)])
      BY <2>1, <2>4, <3>1, <3>2
    <3>4. QED BY <3>1, <3>3 DEF Stage, StageAt
  <2>8. ASSUME NEW e \in Daemon, NEW key \in KeysToward(e)' PROVE WillOpen(e, key)'
    <3> DEFINE p == Peer(e)
    <3>1. p \in Daemon /\ Peer(p) = e /\ p # e
      BY Peers
    <3>2. Sigs(p)' = {}
      BY <1>5, <2>1, <3>1 DEF Sigs, Inbox, Elems
    <3>3. key \in ({snap[p], tun[p].handles} \ {None}) \cup IF tun[p].valid THEN {KeyOf(tun[p].cur)} ELSE {}
      BY <1>2, <1>5, <2>4, <2>8, <3>1, <3>2 DEF KeysToward
    <3>4. key = KeyOf(tun[p].cur) /\ tun[p].valid
      <4>1. CASE tun[p].cur = None
        BY <1>5, <1>9, <3>1, <3>3, <4>1 DEF Orderly, TunOK
      <4>2. CASE Done(tun[p].cur)
        BY <1>5, <1>9, <3>1, <3>3, <4>2 DEF Orderly, TunOK, Done
      <4>3. QED BY <1>8, <3>1, <4>1, <4>2
    <3>5. Done(tun[e].cur) /\ tun[e].valid
      BY <1>8, <1>9, <3>1, <3>4 DEF TunOK, Done
    <3>6. KeyOf(tun[e].cur) = KeyOf(tun[p].cur)
      <4>1. KeyAgreement
        BY InvAgrees
      <4>2. (e = 1 /\ p = 2) \/ (e = 2 /\ p = 1)
        BY DEF Daemon, Peer
      <4>3. QED BY <3>4, <3>5, <4>1, <4>2 DEF KeyAgreement
    <3>7. QED BY <2>4, <3>4, <3>5, <3>6 DEF WillOpen, Done
  <2>9. QED BY <2>6, <2>7, <2>8 DEF SmoothInv, Covered
<1>14. QED BY <1>12, <1>13
-----------------------------------------------------------------------------
(* The peer's messages. *)

(* The stages in which d's next message is a REQ_KEY. *)
LEMMA RequestStages ==
    ASSUME SmoothInv, NEW d \in Daemon, meta[d] # <<>>, Head(meta[d]).req = "REQ_KEY"
    PROVE  LET p == Peer(d)
               a == tun[d].cur
               b == tun[p].cur
           IN
           \/ /\ d = 2 /\ Crossed(a, b, meta[d], meta[p], faults.rekey)
              /\ meta[d] = <<Request(b)>>
           \/ d = 2 /\ AnsweredBehind(a, b, meta[d], meta[p])
           \/ Requested(b, a, meta[p], meta[d], tun[d].prev, faults.rekey)
           \/ d = 1 /\ Crossed(b, a, meta[p], meta[d], faults.rekey)
<1> DEFINE p == Peer(d)
           a == tun[d].cur
           b == tun[p].cur
           n == faults.rekey
<1>1. PICK i \in Daemon : StageAt(i, tun[i].cur, tun[Peer(i)].cur, meta[i], meta[Peer(i)],
                                  tun[Peer(i)].prev, n)
  BY DEF SmoothInv, Stage
<1>2. \A s : <<Answer(s)>> # <<>> /\ Head(<<Answer(s)>>).req # "REQ_KEY"
  BY DEF Answer, Kex
<1>3. \A s : Head(<<Sig(s)>>).req # "REQ_KEY" /\ \A x : Head(<<Sig(s), x>>).req # "REQ_KEY"
  BY DEF Sig
<1>4. (d = 1 /\ p = 2) \/ (d = 2 /\ p = 1)
  BY DEF Daemon, Peer
<1>5. CASE i = d
  BY <1>1, <1>2, <1>3, <1>5
     DEF StageAt, Idle, Settled, Requested, Crossed, Answered, AnsweredBehind, Signed, Half, Overtaken
<1>6. CASE i = p
  BY <1>1, <1>2, <1>3, <1>4, <1>6, Peers
     DEF StageAt, Idle, Settled, Requested, Crossed, Answered, AnsweredBehind, Signed, Half, Overtaken
<1>7. QED BY <1>5, <1>6, Peers

(* on_req_key of the greater name drops the request that crossed its own.  *)
LEMMA SmoothDropRequest ==
    ASSUME IInv, SmoothInv, NEW d \in Daemon, d = 2, meta[d] # <<>>,
           meta' = [meta EXCEPT ![d] = Tail(@)], UNCHANGED <<tun, snap, reach, udp, faults>>,
           LET a == tun[d].cur
               b == tun[Peer(d)].cur
           IN  \/ /\ Crossed(a, b, meta[d], meta[Peer(d)], faults.rekey)
                  /\ meta[d] = <<Request(b)>>
               \/ AnsweredBehind(a, b, meta[d], meta[Peer(d)])
    PROVE  SmoothInv'
<1> DEFINE p == Peer(d)
           a == tun[d].cur
           b == tun[p].cur
<1>1. meta \in [Daemon -> Seq(Msg)] /\ p \in Daemon /\ p # d
  BY Peers DEF IInv, Shape
<1>2. meta'[d] = Tail(meta[d]) /\ meta'[p] = meta[p]
  BY <1>1
<1>3. Stage'
  <2>1. CASE Crossed(a, b, meta[d], meta[p], faults.rekey) /\ meta[d] = <<Request(b)>>
    <3>1. meta'[d] = <<>>
      BY <1>2, <2>1
    <3>2. Crossed(a, b, meta'[d], meta'[p], faults.rekey)
      BY <1>2, <2>1, <3>1 DEF Crossed
    <3>3. QED BY <3>2 DEF Stage, StageAt
  <2>2. CASE AnsweredBehind(a, b, meta[d], meta[p])
    <3>1. PICK m \in Msg : meta[d] = <<m, Answer(b)>>
      BY <2>2 DEF AnsweredBehind
    <3>2. meta'[d] = <<Answer(b)>>
      BY <1>2, <3>1
    <3>3. Answered(a, b, meta'[d], meta'[p])
      BY <1>2, <2>2, <3>2 DEF Answered, AnsweredBehind
    <3>4. QED BY <3>3 DEF Stage, StageAt
  <2>3. QED BY <2>1, <2>2
<1>4. \A e \in Daemon : Orderly(e)'
  BY DEF SmoothInv, Orderly
<1>5. \A e \in Daemon : Inbox(e)' \subseteq Inbox(e)
  <2>1. \A e \in Daemon : Elems([meta EXCEPT ![d] = Tail(@)][e]) \subseteq Inbox(e)
    BY TakenAll
  <2>2. QED BY <2>1 DEF Inbox
<1>6. \A e \in Daemon : Sigs(e)' \subseteq Sigs(e)
  BY <1>5 DEF Sigs
<1>7. \A e \in Daemon : KeysToward(e)' \subseteq KeysToward(e)
  BY <1>6, KeysSame, Peers
<1>8. \A e \in Daemon : Covered(e)'
  <2>1. \A e \in Daemon : \A key : WillOpen(e, key)' <=> WillOpen(e, key)
    BY DEF WillOpen, Opens
  <2>2. QED BY <1>7, <2>1 DEF SmoothInv, Covered
<1>9. QED BY <1>3, <1>4, <1>8 DEF SmoothInv

LEMMA QueueOne == ASSUME NEW x PROVE <<>> \o <<x>> = <<x>>
OBVIOUS

LEMMA QueueTwo == ASSUME NEW x \in Msg, NEW y \in Msg PROVE <<x>> \o <<y>> = <<x, y>>
<1> DEFINE z == <<x>> \o <<y>>
<1>1. z \in Seq(Msg) /\ Len(z) = 2 /\ z[1] = x /\ z[2] = y
  OBVIOUS
<1> HIDE DEF z
<1>2. z = <<x, y>>
  BY <1>1
<1>3. QED BY <1>2 DEF z

(* on_req_key becomes the responder. *)
LEMMA SmoothAccept ==
    ASSUME IInv, IInv', SmoothInv, NEW d \in Daemon, NEW s, Started(d, s),
           Waits(s, "R"), s.his = tun[Peer(d)].cur.mine,
           Asks(tun[Peer(d)].cur), UNCHANGED <<snap, reach, udp, faults>>,
           faults.rekey = 0 => ~Done(tun[d].cur),
           meta[d] # <<>>, Tail(meta[d]) = <<>>,
           meta' = Send(d, [meta EXCEPT ![d] = Tail(@)], <<Answer(s)>>),
           meta[Peer(d)] # <<>> =>
              d = 1 /\ \E m \in Msg : m.req = "REQ_KEY" /\ meta[Peer(d)] = <<m>>
    PROVE  SmoothInv'
<1> DEFINE p == Peer(d)
           b == tun[p].cur
           x == Answer(s)
           q == [meta EXCEPT ![d] = Tail(@)]
<1>1. p \in Daemon /\ p # d /\ Peer(p) = d /\ Daemon = {d, p} /\ reach[d]
  BY Peers DEF SmoothInv, Orderly
<1>2. tun \in [Daemon -> Tun] /\ meta \in [Daemon -> Seq(Msg)]
  BY DEF IInv, Shape
<1>3. s \in Sess /\ x \in Msg /\ x.seqno = 0
  BY MsgTypes DEF Started, Answer
<1>4. tun'[p] = tun[p] /\ tun'[d].cur = s
  BY <1>1, <1>2 DEF Started
<1>5. /\ q \in [Daemon -> Seq(Msg)] /\ \A e \in Daemon : Elems(q[e]) \subseteq Inbox(e)
  BY TakenAll
<1>6. q[d] = <<>> /\ q[p] = meta[p]
  BY <1>1, <1>2
<1> HIDE DEF q, x
<1>7. meta' = [q EXCEPT ![p] = meta[p] \o <<x>>]
  BY <1>1, <1>6 DEF Send, q, x
<1>8. meta'[d] = <<>> /\ meta'[p] = meta[p] \o <<x>>
  BY <1>1, <1>5, <1>6, <1>7
<1>9. \A e \in Daemon : Inbox(e)' \subseteq Inbox(e) \cup {x}
  <2>1. meta[p] \in Seq(Msg)
    BY <1>1, <1>2
  <2>2. Elems(meta[p] \o <<x>>) \subseteq Elems(meta[p]) \cup {x}
    BY <1>3, <2>1, QueueAdd
  <2>3. Inbox(d)' = {}
    BY <1>8 DEF Inbox, Elems
  <2>4. QED BY <1>1, <1>8, <2>2, <2>3 DEF Inbox
<1>10. \A e \in Daemon : Orderly(e)' /\ Covered(e)'
  BY <1>3, <1>9, StartedCovers
<1>11. Stage'
  <2>1. CASE meta[p] = <<>>
    <3>1. meta'[p] = <<x>>
      BY <1>8, <2>1, QueueOne
    <3>2. Answered(tun'[p].cur, tun'[d].cur, meta'[p], meta'[d])
      BY <1>4, <1>8, <3>1 DEF Answered, x
    <3>3. QED BY <1>1, <3>2 DEF Stage, StageAt
  <2>2. CASE meta[p] # <<>>
    <3>1. PICK m \in Msg : m.req = "REQ_KEY" /\ meta[p] = <<m>>
      BY <2>2
    <3>2. p = 2 /\ meta'[p] = <<m, x>>
      <4>1. p = 2
        BY <2>2 DEF Peer
      <4>2. QED BY <1>3, <1>8, <3>1, <4>1, QueueTwo
    <3>3. AnsweredBehind(tun'[p].cur, tun'[d].cur, meta'[p], meta'[d])
      BY <1>4, <1>8, <3>1, <3>2 DEF AnsweredBehind, x
    <3>4. QED BY <1>1, <3>2, <3>3 DEF Stage, StageAt
  <2>3. QED BY <2>1, <2>2
<1>12. QED BY <1>10, <1>11 DEF SmoothInv

LEMMA SmoothOnReqKey ==
    ASSUME IInv, IInv', SmoothInv, NEW d \in Daemon, OnReqKey(d)
    PROVE  SmoothInv'
<1> DEFINE p == Peer(d)
           a == tun[d].cur
           b == tun[p].cur
           n == faults.rekey
           m == Head(meta[d])
           q == [meta EXCEPT ![d] = Tail(@)]
           h == CHOOSE k \in m.kex : TRUE
           s == [Session("R", NewKex) EXCEPT !.his = h, !.inseqno = 1]
           r == Restart(tun[d], s)
<1>1. /\ meta[d] # <<>> /\ m.req = "REQ_KEY" /\ UNCHANGED <<snap, reach, udp, faults>>
      /\ \/ (~reach[d] \/ KeepsInitiator(d)) /\ meta' = q /\ UNCHANGED tun
         \/ ~KeepsInitiator(d) /\ tun' = [tun EXCEPT ![d] = r]
            /\ meta' = Send(d, q, <<Answer(s)>>)
  BY DEF OnReqKey, Answer
<1>2. /\ reach[d] /\ TunOK(tun[d]) /\ tun \in [Daemon -> Tun] /\ tun[d] \in Tun
      /\ n = 0 => tun[d].prev = None
  BY MineOK DEF SmoothInv, Orderly, IInv, Shape
<1>3. m \in Msg
  BY <1>1, Taken DEF IInv
<1>4. a # None /\ a.his = None => a.role = "I" /\ ~a.up /\ ~tun[d].valid
  BY <1>2 DEF TunOK, HasParts, SessFits
<1>5. CASE d = 2 /\ (\/ Crossed(a, b, meta[d], meta[p], n) /\ meta[d] = <<Request(b)>>
                     \/ AnsweredBehind(a, b, meta[d], meta[p]))
  <2>1. Asks(a)
    BY <1>5 DEF Crossed, AnsweredBehind
  <2>2. KeepsInitiator(d)
    BY <1>4, <1>5, <2>1 DEF KeepsInitiator, Asks, Peer
  <2>3. meta' = q /\ UNCHANGED tun
    BY <1>1, <2>2
  <2>4. QED BY <1>1, <1>5, <2>3, SmoothDropRequest
<1>6. CASE \/ Requested(b, a, meta[p], meta[d], tun[d].prev, n)
           \/ d = 1 /\ Crossed(b, a, meta[p], meta[d], n)
  <2>1. Asks(b) /\ meta[d] = <<Request(b)>>
    BY <1>6 DEF Requested, Crossed
  <2>2. m = Request(b) /\ Tail(meta[d]) = <<>>
    BY <2>1
  <2>3. m.kex = {b.mine}
    BY <2>2 DEF Request, Kex
  <2>4. h = b.mine /\ h \in KeyIds
    <3>1. PICK k \in KeyIds : m.kex = {k}
      BY <1>1, <1>3 DEF Msg
    <3>2. QED BY <2>3, <3>1
  <2> HIDE DEF h
  <2>5. /\ s \in Sess /\ s.role = "R" /\ s.his = h /\ s.inseqno = 1 /\ ~s.up
    <3> DEFINE k == NewKex
    <3>1. k \in KeyIds /\ 1 \in 0 .. 2 /\ 0 \in 0 .. 2
      BY NewKexFresh DEF IInv
    <3> HIDE DEF k
    <3>2. s = [[role |-> "R", mine |-> k, his |-> None, inseqno |-> 0, up |-> FALSE]
                 EXCEPT !.his = h, !.inseqno = 1]
      BY DEF Session, k
    <3>3. QED BY <2>4, <3>1, <3>2 DEF Sess
  <2> HIDE DEF s
  <2>6. Waits(s, "R") /\ s.his = b.mine
    BY <2>4, <2>5, Constants DEF Waits
  <2>7. ~KeepsInitiator(d)
    <3>1. CASE Requested(b, a, meta[p], meta[d], tun[d].prev, n)
      BY <1>2, <3>1 DEF Requested, Done, KeepsInitiator, TunOK
    <3>2. CASE d = 1
      BY <3>2 DEF KeepsInitiator, Peer
    <3>3. QED BY <1>6, <3>1, <3>2
  <2>8. tun' = [tun EXCEPT ![d] = r] /\ meta' = Send(d, q, <<Answer(s)>>)
    BY <1>1, <1>2, <2>7
  <2>9. /\ r \in Tun /\ r.cur = s /\ ~r.valid /\ r.reqage = 0 /\ r.handles = tun[d].handles
        /\ r.prev = IF Done(a) THEN a ELSE tun[d].prev
    BY <1>2, <2>5, RestartParts
  <2> HIDE DEF r
  <2>10. tun'[d] = r /\ tun' = [tun EXCEPT ![d] = tun'[d]]
    BY <1>2, <2>8
  <2>11. tun[d].prev = None /\ (a # None => Done(a) \/ a.his = None) /\ (n = 0 => ~Done(a))
    <3>1. CASE Requested(b, a, meta[p], meta[d], tun[d].prev, n)
      BY <3>1 DEF Requested, Done
    <3>2. CASE Crossed(b, a, meta[p], meta[d], n)
      BY <1>2, <1>4, <3>2 DEF Crossed, Done, Asks
    <3>3. QED BY <1>6, <3>1, <3>2
  <2>12. Started(d, s)
    BY <2>5, <2>9, <2>10, <2>11 DEF Started
  <2>13. meta[p] # <<>> => d = 1 /\ \E e \in Msg : e.req = "REQ_KEY" /\ meta[p] = <<e>>
    <3>1. CASE Requested(b, a, meta[p], meta[d], tun[d].prev, n)
      BY <3>1 DEF Requested
    <3>2. CASE d = 1 /\ Crossed(b, a, meta[p], meta[d], n)
      <4>1. a \in Sess
        BY <1>2, <3>2 DEF Crossed, Asks, Tun
      <4>2. Request(a) \in Msg /\ Request(a).req = "REQ_KEY"
        BY <4>1, MsgTypes DEF Request
      <4>3. meta[p] \in {<<>>, <<Request(a)>>}
        BY <3>2 DEF Crossed
      <4>4. QED BY <3>2, <4>2, <4>3
    <3>3. QED BY <1>6, <3>1, <3>2
  <2>14. QED BY <1>1, <2>1, <2>2, <2>6, <2>8, <2>11, <2>12, <2>13, SmoothAccept
<1>7. QED BY <1>1, <1>5, <1>6, RequestStages
(* The stages in which d's next message is an ANS_KEY. *)
LEMMA AnswerStages ==
    ASSUME SmoothInv, NEW d \in Daemon, meta[d] # <<>>, Head(meta[d]).req = "ANS_KEY"
    PROVE  LET p == Peer(d)
               a == tun[d].cur
               b == tun[p].cur
           IN
           \/ Answered(a, b, meta[d], meta[p])
           \/ Half(a, b, meta[d], meta[p])
           \/ Signed(b, a, meta[p], meta[d])
           \/ Overtaken(b, a, meta[p], meta[d], tun[d].prev, faults.rekey)
<1> DEFINE p == Peer(d)
           n == faults.rekey
<1>1. PICK i \in Daemon : StageAt(i, tun[i].cur, tun[Peer(i)].cur, meta[i], meta[Peer(i)],
                                  tun[Peer(i)].prev, n)
  BY DEF SmoothInv, Stage
<1>2. \A s : Head(<<Request(s)>>).req # "ANS_KEY"
  BY DEF Request, Kex
<1>3. \A m, x : Head(<<m, x>>) = m
  OBVIOUS
<1>4. CASE i = d
  BY <1>1, <1>2, <1>3, <1>4
     DEF StageAt, Idle, Settled, Requested, Crossed, Answered, AnsweredBehind, Signed, Half, Overtaken
<1>5. CASE i = p
  BY <1>1, <1>2, <1>3, <1>5, Peers
     DEF StageAt, Idle, Settled, Requested, Crossed, Answered, AnsweredBehind, Signed, Half, Overtaken
<1>6. QED BY <1>4, <1>5, Peers

(* d's session goes on to r. A key it finishes with is one the peer has    *)
(* signed, which the peer will therefore open; a key it signs is its own.  *)
LEMMA ProceedCovers ==
    ASSUME IInv, IInv', SmoothInv, NEW d \in Daemon, NEW r,
           tun' = [tun EXCEPT ![d] = tun'[d]], UNCHANGED <<snap, reach, udp, faults>>,
           tun[d].cur # None, ~tun[d].cur.up,
           tun'[d].cur = r, r # None, tun'[d].prev = tun[d].prev, tun'[d].reqage = tun[d].reqage,
           tun'[d].handles = (IF r.up THEN KeyOf(r) ELSE tun[d].handles),
           tun[d].cur.his = None \/ KeyOf(r) = KeyOf(tun[d].cur),
           r.up => KeyOf(r) \in Sigs(d),
           Sigs(d)' \subseteq Sigs(d), Sigs(Peer(d))' \subseteq Sigs(Peer(d)) \cup {KeyOf(r)}
    PROVE  \A e \in Daemon : Orderly(e)' /\ Covered(e)'
<1> DEFINE p == Peer(d)
<1>1. tun'[p] = tun[p] /\ p \in Daemon /\ p # d /\ Daemon = {d, p} /\ Peer(p) = d
  BY Peers DEF IInv, Shape
<1>2. TunOK(tun[d]) /\ TunOK(tun'[d]) /\ Orderly(d) /\ Orderly(p)
  BY <1>1, MineOK DEF IInv, SmoothInv
<1>3. Orderly(d)'
  BY <1>2 DEF Orderly, TunOK
<1>4. Orderly(p)'
  BY <1>1, <1>2 DEF Orderly
<1>5. ASSUME NEW key \in KeysToward(d)' PROVE WillOpen(d, key)'
  <2>1. key \in KeysToward(d) \/ key = KeyOf(r)
    BY <1>1 DEF KeysToward
  <2>2. CASE key = KeyOf(r)
    BY <2>2 DEF WillOpen
  <2>3. CASE key \in KeysToward(d)
    <3>1. key \in Key /\ WillOpen(d, key)
      BY <2>3, KeysTowardType DEF SmoothInv, Covered
    <3>2. (tun[d].prev # None /\ KeyOf(tun[d].prev) = key) \/ KeyOf(tun[d].cur) = key
      BY <3>1 DEF WillOpen, Opens
    <3>3. CASE tun[d].prev # None /\ KeyOf(tun[d].prev) = key
      BY <3>3 DEF WillOpen, Opens
    <3>4. CASE KeyOf(tun[d].cur) = key
      BY <3>1, <3>4, NoKeyYet DEF WillOpen
    <3>5. QED BY <3>2, <3>3, <3>4
  <2>4. QED BY <2>1, <2>2, <2>3
<1>6. ASSUME NEW key \in KeysToward(p)' PROVE WillOpen(p, key)'
  <2>1. tun'[d].valid => tun'[d].cur.up
    BY <1>2 DEF TunOK
  <2>2. key \in KeysToward(p)
    BY <1>1, <2>1 DEF KeysToward
  <2>3. WillOpen(p, key)
    BY <1>1, <2>2 DEF SmoothInv, Covered
  <2>4. QED BY <1>1, <2>3 DEF WillOpen, Opens
<1>7. QED BY <1>1, <1>3, <1>4, <1>5, <1>6 DEF Covered

LEMMA DispatchParts ==
    ASSUME NEW t \in Tun, NEW r \in Sess, r.up => r.his # None
    PROVE  LET c == Dispatch(t, r) IN
           /\ c.cur = r /\ c.prev = t.prev /\ c.reqage = t.reqage
           /\ c.handles = IF r.up THEN KeyOf(r) ELSE t.handles
<1> DEFINE k == KeyOf(r)
           a == [t EXCEPT !.cur = r]
           b == [t EXCEPT !.cur = r, !.valid = TRUE, !.waiting = FALSE, !.handles = k]
<1>1. Dispatch(t, r) = IF r.up THEN b ELSE a
  BY DEF Dispatch
<1> HIDE DEF k
<1>2. b.cur = r /\ b.prev = t.prev /\ b.reqage = t.reqage /\ b.handles = k
  BY DEF Tun
<1>3. a.cur = r /\ a.prev = t.prev /\ a.reqage = t.reqage /\ a.handles = t.handles
  BY DEF Tun
<1> HIDE DEF a, b
<1>4. QED BY <1>1, <1>2, <1>3 DEF k
LEMMA SmoothOnAnsKey ==
    ASSUME IInv, IInv', SmoothInv, NEW d \in Daemon, OnAnsKey(d)
    PROVE  SmoothInv'
<1> DEFINE p == Peer(d)
           a == tun[d].cur
           b == tun[p].cur
           n == faults.rekey
           m == Head(meta[d])
           q == [meta EXCEPT ![d] = Tail(@)]
           r == Received(a, m)
           c == Dispatch(tun[d], r)
<1>1. meta[d] # <<>> /\ m.req = "ANS_KEY" /\ UNCHANGED <<snap, reach, udp, faults>>
  BY DEF OnAnsKey
<1>2. /\ p \in Daemon /\ p # d /\ Peer(p) = d /\ Daemon = {d, p} /\ reach[d] /\ TunOK(tun[d])
      /\ tun \in [Daemon -> Tun] /\ meta \in [Daemon -> Seq(Msg)] /\ tun[d] \in Tun /\ tun[p] \in Tun
  BY Peers, MineOK DEF SmoothInv, Orderly, IInv, Shape
<1>3. m \in Msg /\ m \in Inbox(d) /\ q \in [Daemon -> Seq(Msg)] /\ q[p] = meta[p]
      /\ Elems(q[d]) \subseteq Inbox(d) /\ q[d] = Tail(meta[d])
  BY <1>1, <1>2, Taken DEF IInv
<1>4. \/ Answered(a, b, meta[d], meta[p])
      \/ Half(a, b, meta[d], meta[p])
      \/ Signed(b, a, meta[p], meta[d])
      \/ Overtaken(b, a, meta[p], meta[d], tun[d].prev, n)
  BY <1>1, AnswerStages
(* In each of them the message is the one that is due. *)
<1>5. a # None /\ a \in Sess /\ SessFits(a) /\ ~a.up
  BY <1>2, <1>4 DEF Answered, Half, Signed, Overtaken, Asks, Waits, TunOK, HasParts, SessFits, Tun
<1>6. \/ /\ Answered(a, b, meta[d], meta[p]) /\ m = Answer(b) /\ Tail(meta[d]) = <<>>
         /\ m.seqno = 0 /\ m.kex = {b.mine} /\ meta[p] = <<>>
      \/ /\ Waits(a, "I") \/ Waits(a, "R")
         /\ m.seqno = 1 /\ m.kex = KeyOf(a)
  <2>1. CASE Answered(a, b, meta[d], meta[p])
    BY <2>1 DEF Answered, Answer, Kex
  <2>2. CASE Half(a, b, meta[d], meta[p])
    BY <2>2 DEF Half, Sig
  <2>3. CASE Signed(b, a, meta[p], meta[d])
    BY <2>3 DEF Signed, Sig
  <2>4. CASE Overtaken(b, a, meta[p], meta[d], tun[d].prev, n)
    BY <2>4 DEF Overtaken, Sig
  <2>5. QED BY <1>4, <2>1, <2>2, <2>3, <2>4
<1>7. InOrder(a, m) /\ (m.seqno = 0 \/ SigOk(a, m))
  BY <1>5, <1>6 DEF InOrder, SigOk, Answered, Asks, Waits, SessFits
<1>8. tun' = [tun EXCEPT ![d] = c] /\ meta' = Send(d, q, Answers(a, m))
  <2>1. tun' = [tun EXCEPT ![d] = Dispatch(@, r)] /\ meta' = Send(d, q, Answers(a, m))
    BY <1>5, <1>7 DEF OnAnsKey
  <2>2. QED BY <1>2, <2>1
<1>9. /\ r \in Sess /\ SessFits(r) /\ r.mine = a.mine /\ r.role = a.role /\ r # None
      /\ m.seqno = 0 => a.his = None /\ a.role = "I" /\ r.his # None /\ ~r.up /\ m.kex = {r.his}
      /\ m.seqno = 1 => a.his # None /\ r.his = a.his /\ r.up
  <2>1. \A e \in Sess : e # None
    BY Constants
  <2>2. m.seqno \in {0, 1}
    BY <1>6
  <2>3. QED BY <1>3, <1>5, <1>7, <2>1, <2>2, ReceivedOK
<1>10. m.seqno = 0 => r.inseqno = 1
  <2> DEFINE h == IF m.seqno = 0 THEN CHOOSE k \in m.kex : TRUE ELSE a.his
             u == SigOk(a, m)
             j == a.inseqno + 1
  <2>1. r = [a EXCEPT !.inseqno = j, !.his = h, !.up = u]
    BY DEF Received
  <2>2. m.seqno = 0 => j = 1
    BY <1>7 DEF InOrder
  <2> HIDE DEF h, u, j, r
  <2>3. r.inseqno = j
    BY <1>5, <2>1 DEF Sess
  <2>4. QED BY <2>2, <2>3
<1>11. Answers(a, m) = IF m.seqno = 0 \/ a.role = "R" THEN <<Sig(r)>> ELSE <<>>
  BY <1>6, <1>7, <1>9 DEF Answers, SigOk
<1> HIDE DEF r, m, q
<1>12. /\ c.cur = r /\ c.prev = tun[d].prev /\ c.reqage = tun[d].reqage
       /\ c.handles = IF r.up THEN KeyOf(r) ELSE tun[d].handles
  BY <1>2, <1>9, DispatchParts DEF SessFits
<1> HIDE DEF c
<1>13. tun'[d] = c /\ tun'[p] = tun[p] /\ tun' = [tun EXCEPT ![d] = tun'[d]]
  BY <1>2, <1>8
<1>14. a.his = None \/ KeyOf(r) = KeyOf(a)
  BY <1>6, <1>9 DEF KeyOf
<1>15. Sig(r) \in Msg /\ Sig(r).seqno = 1 /\ Sig(r).kex = KeyOf(r)
  <2>1. r.his # None
    BY <1>6, <1>9
  <2>2. QED BY <1>9, <2>1, MsgTypes
<1> DEFINE x == Sig(r)
           y == m.seqno = 0 \/ a.role = "R"
<1> HIDE DEF x
<1>16. meta' \in [Daemon -> Seq(Msg)] /\ meta'[d] = q[d]
       /\ meta'[p] = IF y THEN meta[p] \o <<x>> ELSE meta[p]
  <2> HIDE DEF y
  <2>1. CASE y
    <3>1. meta[p] \o <<x>> \in Seq(Msg)
      BY <1>2, <1>15, QueueAdd DEF x
    <3>2. meta' = [q EXCEPT ![p] = meta[p] \o <<x>>]
      BY <1>2, <1>3, <1>8, <1>11, <2>1 DEF Send, x, y
    <3>3. QED BY <1>2, <1>3, <2>1, <3>1, <3>2
  <2>2. CASE ~y
    <3>1. meta' = q
      BY <1>3, <1>8, <1>11, <2>2, SendNone DEF y
    <3>2. QED BY <1>3, <2>2, <3>1
  <2>3. QED BY <2>1, <2>2
<1>17. Inbox(d)' \subseteq Inbox(d) /\ Inbox(p)' \subseteq Inbox(p) \cup {x}
  <2>1. Elems(meta[p] \o <<x>>) \subseteq Elems(meta[p]) \cup {x}
    BY <1>2, <1>15, QueueAdd DEF x
  <2>2. QED BY <1>3, <1>16, <2>1 DEF Inbox
<1>18. Sigs(d)' \subseteq Sigs(d) /\ Sigs(p)' \subseteq Sigs(p) \cup {KeyOf(r)}
  BY <1>15, <1>17 DEF Sigs, x
<1>19. r.up => KeyOf(r) \in Sigs(d)
  <2>1. CASE m.seqno = 1
    BY <1>3, <1>6, <1>9, <1>14, <2>1 DEF Sigs
  <2>2. CASE m.seqno = 0
    BY <1>9, <2>2
  <2>3. QED BY <1>6, <2>1, <2>2
<1>20. \A e \in Daemon : Orderly(e)' /\ Covered(e)'
  BY <1>1, <1>5, <1>9, <1>12, <1>13, <1>14, <1>18, <1>19, ProceedCovers
<1>21. Stage'
  <2>1. CASE Answered(a, b, meta[d], meta[p])
    <3>1. m.seqno = 0 /\ m.kex = {b.mine} /\ Tail(meta[d]) = <<>> /\ meta[p] = <<>>
      BY <1>6, <2>1 DEF Answered, Asks, Waits
    <3>2. meta'[d] = <<>> /\ meta'[p] = <<x>>
      BY <1>3, <1>16, <3>1, QueueOne
    <3>3. Waits(r, "I") /\ r.his = b.mine
      BY <1>9, <1>10, <3>1 DEF Waits
    <3>4. KeyOf(r) = KeyOf(b)
      BY <1>9, <2>1, <3>3 DEF KeyOf, Answered
    <3>5. Signed(tun'[d].cur, tun'[p].cur, meta'[d], meta'[p])
      BY <1>12, <1>13, <2>1, <3>2, <3>3, <3>4 DEF Signed, Answered, x
    <3>6. QED BY <3>5 DEF Stage, StageAt
  <2>2. CASE Half(a, b, meta[d], meta[p])
    <3>1. m.seqno = 1 /\ a.role = "I" /\ meta[d] = <<Sig(a)>> /\ meta[p] = <<>>
      BY <1>6, <2>2 DEF Half, Waits, Answered, Asks
    <3>2. meta'[d] = <<>> /\ meta'[p] = <<>>
      BY <1>3, <1>16, <3>1
    <3>3. Settled(tun'[d].cur, tun'[p].cur, meta'[d], meta'[p])
      BY <1>9, <1>12, <1>13, <2>2, <3>1, <3>2 DEF Settled, Half, Done
    <3>4. QED BY <3>3 DEF Stage, StageAt
  <2>3. CASE Signed(b, a, meta[p], meta[d])
    <3>1. m.seqno = 1 /\ a.role = "R" /\ meta[d] = <<Sig(b)>> /\ meta[p] = <<>> /\ KeyOf(b) = KeyOf(a)
      BY <1>6, <2>3 DEF Signed, Waits, Answered, Asks
    <3>2. meta'[d] = <<>> /\ meta'[p] = <<x>>
      BY <1>3, <1>16, <3>1, QueueOne
    <3>3. x = Sig(b)
      BY <1>9, <1>14, <3>1 DEF Sig, x
    <3>4. Half(tun'[p].cur, tun'[d].cur, meta'[p], meta'[d])
      BY <1>9, <1>12, <1>13, <2>3, <3>1, <3>2, <3>3 DEF Half, Signed, Done
    <3>5. QED BY <1>2, <3>4 DEF Stage, StageAt
  <2>4. CASE Overtaken(b, a, meta[p], meta[d], tun[d].prev, n)
    <3>1. m.seqno = 1 /\ a.role = "I" /\ meta[d] = <<Sig(a), Request(b)>> /\ meta[p] = <<>>
      BY <1>6, <2>4 DEF Overtaken, Waits, Answered, Asks
    <3>2. meta'[d] = <<Request(b)>> /\ meta'[p] = <<>>
      BY <1>3, <1>16, <3>1
    <3>3. Requested(tun'[p].cur, tun'[d].cur, meta'[p], meta'[d], tun'[d].prev, faults'.rekey)
      BY <1>1, <1>9, <1>12, <1>13, <2>4, <3>1, <3>2 DEF Requested, Overtaken, Done
    <3>4. QED BY <1>2, <3>3 DEF Stage, StageAt
  <2>5. QED BY <1>4, <2>1, <2>2, <2>3, <2>4
<1>22. QED BY <1>20, <1>21 DEF SmoothInv

-----------------------------------------------------------------------------
LEMMA SInvInit == Init => SInv
<1> SUFFICES ASSUME Init PROVE SmoothInv
  BY DEF SInv
<1>1. \A d \in Daemon : /\ tun[d] = NoTunnel /\ snap[d] = None /\ reach[d] /\ meta[d] = <<>>
                        /\ udp[d] = {}
  BY DEF Init
<1>2. /\ NoTunnel.cur = None /\ NoTunnel.prev = None /\ NoTunnel.handles = None
      /\ ~NoTunnel.valid /\ ~NoTunnel.waiting
  BY DEF NoTunnel
<1>3. Stage
  <2>1. 1 \in Daemon /\ Peer(1) \in Daemon
    BY DEF Daemon, Peer
  <2>2. faults.rekey = 0
    BY DEF Init
  <2>3. Idle(tun[1].cur, tun[Peer(1)].cur, meta[1], meta[Peer(1)], faults.rekey)
    BY <1>1, <1>2, <2>1, <2>2 DEF Idle
  <2>4. QED BY <2>1, <2>3 DEF Stage, StageAt
<1>4. \A d \in Daemon : Orderly(d)
  BY <1>1, <1>2 DEF Orderly
<1>5. \A d \in Daemon : Sigs(d) = {}
  BY <1>1 DEF Sigs, Inbox, Elems
<1>6. \A d \in Daemon : KeysToward(d) = {}
  BY <1>1, <1>2, <1>5, Peers DEF KeysToward
<1>7. QED BY <1>3, <1>4, <1>6 DEF SmoothInv, Covered

LEMMA SInvStep == IInv /\ SInv /\ [Next]_vars => SInv'
<1> SUFFICES ASSUME IInv, SInv, [Next]_vars, Smooth' PROVE SmoothInv'
  BY DEF SInv
<1>1. IInv' /\ Smooth /\ SmoothInv
  BY IInvStep, SmoothBack DEF SInv
<1>2. faults \in [rekey : Nat, loss : Nat, reset : Nat, late : Nat]
  BY DEF IInv, Shape
<1>3. CASE Next
  <2> SUFFICES ASSUME NEW d \in Daemon,
                      \/ OnReqKey(d) \/ OnAnsKey(d) \/ MetaLose(d)
                      \/ SendPacket(d) \/ FastTx(d) \/ Load(d)
                      \/ \E key \in udp[d] : RxUdp(d, key) \/ UdpLose(d, key)
                      \/ KeyExpire(d) \/ Tick(d)
                      \/ BecameUnreachable(d) \/ BecameReachable(d)
               PROVE  SmoothInv'
    BY <1>3 DEF Next
  <2>1. CASE OnReqKey(d)
    BY <1>1, <2>1, SmoothOnReqKey
  <2>2. CASE OnAnsKey(d)
    BY <1>1, <2>2, SmoothOnAnsKey
  <2>3. CASE MetaLose(d)
    BY <1>1, <1>2, <2>3 DEF MetaLose, Smooth
  <2>4. CASE SendPacket(d)
    BY <1>1, <2>4, SmoothSendPacket
  <2>5. CASE FastTx(d)
    BY <1>1, <2>5, SmoothFastTx
  <2>6. CASE Load(d)
    BY <1>1, <2>6, SmoothLoad
  <2>7. CASE \E key \in udp[d] : RxUdp(d, key) \/ UdpLose(d, key)
    BY <1>1, <2>7, SmoothRxUdp, SmoothDrop DEF UdpLose
  <2>8. CASE KeyExpire(d)
    BY <1>1, <2>8, SmoothKeyExpire
  <2>9. CASE Tick(d)
    BY <1>1, <2>9, SmoothTick
  <2>10. CASE BecameUnreachable(d)
    BY <1>1, <1>2, <2>10 DEF BecameUnreachable, Smooth
  <2>11. CASE BecameReachable(d)
    BY <1>1, <2>11 DEF BecameReachable, SmoothInv, Orderly
  <2>12. QED BY <2>1, <2>2, <2>3, <2>4, <2>5, <2>6, <2>7, <2>8, <2>9, <2>10, <2>11
<1>4. CASE UNCHANGED vars
  <2>1. \A e \in Daemon : KeysToward(e)' = KeysToward(e)
    BY <1>4 DEF vars, KeysToward, Sigs, Inbox
  <2>2. QED BY <1>1, <1>4, <2>1, DataStep DEF vars
<1>5. QED BY <1>3, <1>4

(* While nothing is lost, late or reset and at most one rekey happens, a   *)
(* datagram under way is sealed under a key that its receiver opens, with  *)
(* the current or the salvaged session, or is about to finish agreeing on. *)
THEOREM StragglersOpenCorrect == Spec => []StragglersOpen
<1>1. SInv => StragglersOpen
  BY DEF SInv, Smooth, SmoothInv, Covered, KeysToward, WillOpen, StragglersOpen
<1>2. QED BY <1>1, SInvInit, SInvStep, IInvAlways, PTL DEF Spec
=============================================================================
