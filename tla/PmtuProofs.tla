----------------------------- MODULE PmtuProofs -----------------------------
(* What path MTU discovery locks and publishes is nothing or usable, and   *)
(* as long as nothing upset the path no more than it carries: for any      *)
(* sizes, any number of probes and of upsets.                              *)
EXTENDS Pmtu, TLAPS

Sent == MIN_PROBE_SIZE .. MTU

PmType == [mtu : Size, minmtu : Size, maxmtu : Size, phase : Lost .. Fix,
           confirmed : BOOLEAN, ping : BOOLEAN]

(* A size to lock or to publish where frames up to p get through. *)
Usable(p) == {0} \cup MINMTU .. p

Good(s, p) == s \in PmType /\ s.mtu \in Usable(p) /\ s.minmtu \in Usable(p)

(* What is known to get through: the path, until it was upset. *)
Reach == IF upsets = 0 THEN path ELSE MTU

(* The inductive invariant. Nothing that arrived, and nothing that was     *)
(* learned from it, is larger than what got through.                       *)
IInv ==
    /\ Good(pm, Reach) /\ published \in Usable(Reach)
    /\ path \in Sent /\ link \in Sent /\ filtered \in BOOLEAN
    /\ requests \subseteq Sent
    /\ replies \subseteq MIN_PROBE_SIZE .. Reach /\ acks \subseteq MIN_PROBE_SIZE .. Reach
    /\ rxMax \in {0} \cup MIN_PROBE_SIZE .. Reach
    /\ upsets \in 0 .. MaxUpsets

(* The work of a step of try_tx. *)
Work(w, p) ==
    /\ w \in [s : PmType, requests : SUBSET Sent, sent : BOOLEAN]
    /\ Good(w.s, p)

LEMMA Constants ==
    /\ MTU \in Nat /\ MINMTU \in Nat /\ MIN_PROBE_SIZE \in Nat /\ MaxProbes \in Nat
    /\ Cycle \in Nat /\ MaxUpsets \in Nat
    /\ 0 < MIN_PROBE_SIZE /\ MIN_PROBE_SIZE < MINMTU /\ MINMTU < MTU /\ 0 < MaxProbes /\ 0 < Cycle
BY PmtuAssumption

LEMMA MaxTwo == \A a, b \in Int : Max({a, b}) = IF a >= b THEN a ELSE b
<1> SUFFICES ASSUME NEW a \in Int, NEW b \in Int PROVE Max({a, b}) = IF a >= b THEN a ELSE b
  OBVIOUS
<1> DEFINE m == IF a >= b THEN a ELSE b
<1>1. m \in {a, b} /\ \A y \in {a, b} : m >= y
  OBVIOUS
<1>2. \A x \in {a, b} : (\A y \in {a, b} : x >= y) => x = m
  OBVIOUS
<1>3. QED BY <1>1, <1>2 DEF Max

LEMMA MinTwo == \A a, b \in Int : Min({a, b}) = IF a <= b THEN a ELSE b
<1> SUFFICES ASSUME NEW a \in Int, NEW b \in Int PROVE Min({a, b}) = IF a <= b THEN a ELSE b
  OBVIOUS
<1> DEFINE m == IF a <= b THEN a ELSE b
<1>1. m \in {a, b} /\ \A y \in {a, b} : m <= y
  OBVIOUS
<1>2. \A x \in {a, b} : (\A y \in {a, b} : x <= y) => x = m
  OBVIOUS
<1>3. QED BY <1>1, <1>2 DEF Min

LEMMA ReachType == IInv => Reach \in Sent
BY Constants DEF IInv, Reach, Sent

-----------------------------------------------------------------------------
(* pmtu.rs *)

LEMMA TryFixGood ==
    ASSUME NEW p \in Sent, NEW s, Good(s, p)
    PROVE  Good(TryFix(s), p) /\ (TryFix(s).phase >= 0 => TryFix(s).phase < Fix)
<1> DEFINE min == IF s.minmtu <= s.maxmtu THEN s.minmtu
                  ELSE IF s.maxmtu >= MINMTU THEN s.maxmtu ELSE 0
<1>1. /\ s \in PmType /\ s.minmtu \in Size /\ s.maxmtu \in Size /\ s.mtu \in Size
      /\ s.phase \in Lost .. Fix /\ s.minmtu \in Usable(p) /\ s.mtu \in Usable(p)
  BY DEF Good, PmType
<1>2. CASE Fixed(s) \/ (s.phase # Fix /\ s.minmtu < s.maxmtu)
  <2>1. TryFix(s) = s
    BY <1>2 DEF TryFix
  <2>2. s.phase >= 0 => s.phase < Fix
    BY <1>1, <1>2, Constants DEF Fixed, Fix, Lost
  <2>3. QED BY <2>1, <2>2
<1>3. CASE ~(Fixed(s) \/ (s.phase # Fix /\ s.minmtu < s.maxmtu))
  <2>1. TryFix(s) = [s EXCEPT !.minmtu = min, !.maxmtu = min, !.mtu = min, !.phase = Steady]
    BY <1>3 DEF TryFix
  <2>2. min \in Usable(p) /\ min \in Size
    BY <1>1, Constants DEF Usable, Size, Sent
  <2>3. Steady \in Lost .. Fix
    BY Constants DEF Steady, Lost, Fix
  <2> HIDE DEF min
  <2>4. TryFix(s) \in PmType
    BY <1>1, <2>1, <2>2, <2>3 DEF PmType
  <2>5. TryFix(s).mtu = min /\ TryFix(s).minmtu = min /\ TryFix(s).phase = Steady
    BY <1>1, <2>1 DEF PmType
  <2>6. QED BY <2>2, <2>4, <2>5 DEF Good, Steady
<1>4. QED BY <1>2, <1>3

LEMMA OnEmsgsizeGood ==
    ASSUME NEW p \in Sent, NEW s, Good(s, p), NEW len \in Sent
    PROVE  Good(OnEmsgsize(s, len), p)
<1> DEFINE cap == Max({len - 1, MINMTU})
           t == [s EXCEPT !.maxmtu = Min({@, cap}), !.mtu = Min({@, cap})]
<1>1. cap \in MINMTU .. MTU
  BY Constants, MaxTwo DEF Sent
<1> HIDE DEF cap
<1>2. /\ s \in PmType /\ s.maxmtu \in Size /\ s.mtu \in Size /\ s.minmtu \in Usable(p)
      /\ s.mtu \in Usable(p)
  BY DEF Good, PmType
<1>3. Min({s.maxmtu, cap}) \in Size
  BY <1>1, <1>2, Constants, MinTwo DEF Size
<1>4. Min({s.mtu, cap}) \in Size /\ Min({s.mtu, cap}) \in Usable(p)
  BY <1>1, <1>2, Constants, MinTwo DEF Size, Usable, Sent
<1>5. t \in PmType /\ t.mtu = Min({s.mtu, cap}) /\ t.minmtu = s.minmtu
  BY <1>2, <1>3, <1>4 DEF PmType
<1> HIDE DEF t
<1>6. Good(t, p)
  BY <1>2, <1>4, <1>5 DEF Good
<1>7. QED BY <1>6, TryFixGood DEF OnEmsgsize, t, cap

LEMMA OnProbeReplyGood ==
    ASSUME NEW p \in Sent, NEW s, Good(s, p), NEW len \in MIN_PROBE_SIZE .. p
    PROVE  Good(OnProbeReply(s, len), p)
<1> DEFINE heard == [s EXCEPT !.ping = FALSE, !.confirmed = TRUE]
           steady == IF Fixed(s) /\ len = s.maxmtu THEN [heard EXCEPT !.phase = Steady] ELSE heard
           zero == [s EXCEPT !.minmtu = 0]
           low == IF Raises(zero, len) THEN len ELSE 0
           restart == [heard EXCEPT !.minmtu = low, !.maxmtu = MTU, !.phase = 1]
           raised == [steady EXCEPT !.minmtu = len]
<1>1. OnProbeReply(s, len) = IF len > s.maxmtu THEN restart
                             ELSE IF Raises(s, len) THEN TryFix(raised) ELSE steady
  BY DEF OnProbeReply
<1>2. s \in PmType /\ s.minmtu \in Usable(p) /\ s.mtu \in Usable(p)
  BY DEF Good
<1>3. len \in Size /\ MTU \in Size /\ 1 \in Lost .. Fix /\ Steady \in Lost .. Fix /\ 0 \in Size
  BY Constants DEF Size, Sent, Lost, Fix, Steady
<1>4. low \in Size /\ low \in Usable(p)
  BY <1>3 DEF Raises, Usable, Sent
<1> HIDE DEF low
<1>5. heard \in PmType /\ heard.mtu = s.mtu /\ heard.minmtu = s.minmtu
  BY <1>2 DEF PmType
<1> HIDE DEF heard
<1>6. Good(restart, p)
  <2>1. restart \in PmType /\ restart.mtu = s.mtu /\ restart.minmtu = low
    BY <1>3, <1>4, <1>5 DEF PmType
  <2>2. QED BY <1>2, <1>4, <2>1 DEF Good
<1>7. steady \in PmType /\ steady.mtu = s.mtu /\ steady.minmtu = s.minmtu
  BY <1>3, <1>5 DEF PmType
<1> HIDE DEF steady, restart
<1>8. ASSUME Raises(s, len) PROVE Good(TryFix(raised), p)
  <2>1. raised \in PmType /\ raised.mtu = s.mtu /\ raised.minmtu = len
    BY <1>3, <1>7 DEF PmType
  <2>2. len \in Usable(p)
    BY <1>8 DEF Raises, Usable, Sent
  <2>3. QED BY <1>2, <2>1, <2>2, TryFixGood DEF Good
<1>9. Good(steady, p)
  BY <1>2, <1>7 DEF Good
<1>10. QED BY <1>1, <1>6, <1>8, <1>9

LEMMA OnMetaAckGood ==
    ASSUME NEW p \in Sent, NEW s, Good(s, p), NEW len \in MIN_PROBE_SIZE .. p
    PROVE  Good(OnMetaAck(s, len), p)
<1> DEFINE steady == IF Fixed(s) /\ len >= s.maxmtu THEN [s EXCEPT !.phase = Steady] ELSE s
           top == Max({steady.maxmtu, len})
           low == IF Raises(s, len) THEN len ELSE steady.minmtu
           q == [steady EXCEPT !.confirmed = TRUE, !.maxmtu = top, !.minmtu = low]
<1>1. OnMetaAck(s, len) = IF ~s.ping THEN steady ELSE q
  BY DEF OnMetaAck
<1>2. s \in PmType /\ s.minmtu \in Usable(p) /\ s.mtu \in Usable(p)
  BY DEF Good
<1>3. len \in Size /\ Steady \in Lost .. Fix
  BY Constants DEF Size, Sent, Lost, Fix, Steady
<1>4. steady \in PmType /\ steady.mtu = s.mtu /\ steady.minmtu = s.minmtu
  BY <1>2, <1>3 DEF PmType
<1> HIDE DEF steady
<1>5. steady.maxmtu \in Size /\ steady.minmtu \in Size
  BY <1>4 DEF PmType
<1>6. top \in Size /\ low \in Size /\ low \in Usable(p)
  BY <1>2, <1>3, <1>4, <1>5, MaxTwo, Constants DEF Size, Raises, Usable, Sent
<1> HIDE DEF top, low
<1>7. q \in PmType /\ q.mtu = s.mtu /\ q.minmtu = low
  BY <1>4, <1>6 DEF PmType
<1> HIDE DEF q
<1>8. QED BY <1>1, <1>2, <1>4, <1>6, <1>7 DEF Good

LEMMA OnUdpTimeoutGood ==
    ASSUME NEW p \in Sent, NEW s, Good(s, p)
    PROVE  Good(OnUdpTimeout(s), p) /\ OnUdpTimeout(s).mtu = s.mtu
<1> DEFINE q == OnUdpTimeout(s)
<1>1. s \in PmType /\ s.mtu \in Usable(p) /\ 0 \in Size /\ MTU \in Size /\ 0 \in Lost .. Fix
  BY Constants DEF Good, Size, Lost, Fix
<1>2. q \in PmType /\ q.mtu = s.mtu /\ q.minmtu = 0
  BY <1>1 DEF OnUdpTimeout, PmType
<1>3. QED BY <1>1, <1>2 DEF Good, Usable

LEMMA OnCountedProbeSentGood ==
    ASSUME NEW p \in Sent, NEW s, Good(s, p)
    PROVE  Good(OnCountedProbeSent(s), p)
<1>1. s \in PmType /\ s.mtu \in Usable(p) /\ s.minmtu \in Usable(p)
  BY DEF Good
<1>2. CASE s.phase \in {-1, -2, -3}
  <2> DEFINE n == s.phase - 1
             q == [s EXCEPT !.phase = n]
  <2>1. OnCountedProbeSent(s) = q
    BY <1>2 DEF OnCountedProbeSent
  <2>2. n \in Lost .. Fix
    BY <1>2, Constants DEF Lost, Fix
  <2> HIDE DEF n
  <2>3. q \in PmType /\ q.mtu = s.mtu /\ q.minmtu = s.minmtu
    BY <1>1, <2>2 DEF PmType
  <2>4. QED BY <1>1, <2>1, <2>3 DEF Good
<1>3. CASE s.phase \notin {-1, -2, -3}
  BY <1>3 DEF OnCountedProbeSent
<1>4. QED BY <1>2, <1>3

-----------------------------------------------------------------------------
(* The driver: what is submitted is a size, whatever was asked for. *)

LEMMA SubmitGood ==
    ASSUME NEW p \in Sent, NEW w, Work(w, p), NEW asked \in Size, NEW fails, IInv
    PROVE  Work(Submit(w, asked, fails), p)
<1> DEFINE len == ProbeLen(asked)
<1>1. len \in Sent
  BY Constants, MaxTwo DEF ProbeLen, Size, Sent
<1> HIDE DEF len
<1>2. w \in [s : PmType, requests : SUBSET Sent, sent : BOOLEAN] /\ Good(w.s, p)
  BY DEF Work
<1>3. CASE len > link
  <2> DEFINE t == OnEmsgsize(w.s, len)
             q == [w EXCEPT !.s = t, !.sent = FALSE]
  <2>1. Submit(w, asked, fails) = q
    BY <1>3 DEF Submit, len
  <2>2. Good(t, p) /\ t \in PmType
    BY <1>1, <1>2, OnEmsgsizeGood DEF Good
  <2> HIDE DEF t
  <2>3. q \in [s : PmType, requests : SUBSET Sent, sent : BOOLEAN] /\ q.s = t
    BY <1>2, <2>2
  <2>4. QED BY <2>1, <2>2, <2>3 DEF Work
<1>4. CASE ~(len > link) /\ fails
  <2> DEFINE q == [w EXCEPT !.sent = FALSE]
  <2>1. Submit(w, asked, fails) = q
    BY <1>4 DEF Submit, len
  <2>2. q \in [s : PmType, requests : SUBSET Sent, sent : BOOLEAN] /\ q.s = w.s
    BY <1>2
  <2>3. QED BY <1>2, <2>1, <2>2 DEF Work
<1>5. CASE ~(len > link) /\ ~fails
  <2> DEFINE q == [w EXCEPT !.requests = @ \cup {len}, !.sent = TRUE]
  <2>1. Submit(w, asked, fails) = q
    BY <1>5 DEF Submit, len
  <2>2. q \in [s : PmType, requests : SUBSET Sent, sent : BOOLEAN] /\ q.s = w.s
    BY <1>1, <1>2
  <2>3. QED BY <1>2, <2>1, <2>2 DEF Work
<1>6. QED BY <1>3, <1>4, <1>5

(* Another state in the same work. *)
LEMMA WorkWith ==
    ASSUME NEW p \in Sent, NEW w, Work(w, p), NEW t, Good(t, p)
    PROVE  Work([w EXCEPT !.s = t], p)
<1> DEFINE q == [w EXCEPT !.s = t]
<1>1. q \in [s : PmType, requests : SUBSET Sent, sent : BOOLEAN] /\ q.s = t
  BY DEF Work, Good
<1>2. QED BY <1>1 DEF Work

LEMMA SubmitCountedGood ==
    ASSUME NEW p \in Sent, NEW w, Work(w, p), NEW asked \in Size, NEW fails, IInv
    PROVE  Work(SubmitCounted(w, asked, fails), p)
<1> DEFINE x == Submit(w, asked, fails)
<1>1. Work(x, p)
  BY SubmitGood
<1>2. SubmitCounted(w, asked, fails)
        = IF x.sent THEN [x EXCEPT !.s = OnCountedProbeSent(x.s)] ELSE x
  BY DEF SubmitCounted
<1> HIDE DEF x
<1>3. Good(OnCountedProbeSent(x.s), p)
  BY <1>1, OnCountedProbeSentGood DEF Work
<1>4. QED BY <1>1, <1>2, <1>3, WorkWith

LEMMA KeepaliveGood ==
    ASSUME NEW p \in Sent, NEW w, Work(w, p), NEW fails, IInv
    PROVE  Work(Keepalive(w, fails), p)
<1> DEFINE x == Submit(w, MIN_PROBE_SIZE, fails)
           t == [x.s EXCEPT !.ping = TRUE]
<1>1. Work(x, p)
  <2>1. MIN_PROBE_SIZE \in Size
    BY Constants DEF Size
  <2>2. QED BY <2>1, SubmitGood
<1>2. Keepalive(w, fails) = IF x.sent THEN [x EXCEPT !.s.ping = TRUE] ELSE x
  BY DEF Keepalive
<1> HIDE DEF x
<1>3. [x EXCEPT !.s.ping = TRUE] = [x EXCEPT !.s = t]
  OBVIOUS
<1>4. Good(t, p)
  <2>1. t \in PmType /\ t.mtu = x.s.mtu /\ t.minmtu = x.s.minmtu
    BY <1>1 DEF Work, Good, PmType
  <2>2. QED BY <1>1, <2>1 DEF Work, Good
<1> HIDE DEF t
<1>5. QED BY <1>1, <1>2, <1>3, <1>4, WorkWith

LEMMA ProbeSizeType ==
    ASSUME NEW s \in PmType
    PROVE  ProbeSize(s) \subseteq Size
<1> DEFINE eff == Max({s.minmtu, MINMTU})
           interval == Max({s.maxmtu - eff, 0})
<1>1. s.minmtu \in Size /\ s.maxmtu \in Size
  BY DEF PmType
<1>2. eff \in Size
  BY <1>1, MaxTwo, Constants DEF Size
<1> HIDE DEF eff
<1>3. interval \in Nat /\ eff + interval \in Size
  BY <1>1, <1>2, MaxTwo, Constants DEF Size
<1> HIDE DEF interval
<1>4. interval # 0 => eff + 1 \in Size /\ eff + 1 .. eff + interval \subseteq Size
  BY <1>2, <1>3, Constants DEF Size
<1>5. \A x \in ProbeSize(s) :
         x = eff \/ (interval # 0 /\ x \in {eff + 1, eff + interval} \cup (eff + 1 .. eff + interval))
  BY DEF ProbeSize, eff, interval
<1>6. QED BY <1>2, <1>3, <1>4, <1>5

LEMMA TickGood ==
    ASSUME NEW p \in Sent, NEW w, Work(w, p), NEW fails, IInv
    PROVE  \A x \in Tick(w, fails) : Work(x, p)
<1> DEFINE a == TryFix(w.s)
           s == IF a.phase = Lost THEN [a EXCEPT !.phase = 0, !.minmtu = 0] ELSE a
           x == [w EXCEPT !.s = s]
<1>1. Good(a, p) /\ (a.phase >= 0 => a.phase < Fix)
  BY TryFixGood DEF Work
<1>2. Tick(w, fails) =
        IF s.phase >= 0
        THEN {Submit([x EXCEPT !.s.phase = @ + 1], len, fails) : len \in ProbeSize(s)}
        ELSE LET y == SubmitCounted(x, Top(s), fails) IN
             {IF s.phase = Steady /\ s.maxmtu + 1 < MTU THEN Submit(y, s.maxmtu + 1, fails) ELSE y}
  BY DEF Tick
<1> HIDE DEF a
<1>3. Good(s, p) /\ (s.phase >= 0 => s.phase < Fix)
  <2>1. CASE a.phase = Lost
    <3> DEFINE z == [a EXCEPT !.phase = 0, !.minmtu = 0]
    <3>1. z \in PmType /\ z.mtu = a.mtu /\ z.minmtu = 0 /\ z.phase = 0
      <4>1. 0 \in Lost .. Fix /\ 0 \in Size
        BY Constants DEF Lost, Fix, Size
      <4>2. QED BY <1>1, <4>1 DEF Good, PmType
    <3>2. s = z
      BY <2>1
    <3>3. QED BY <1>1, <3>1, <3>2, Constants DEF Good, Usable, Fix
  <2>2. CASE a.phase # Lost
    BY <1>1, <2>2
  <2>3. QED BY <2>1, <2>2
<1> HIDE DEF s
<1>4. Work(x, p) /\ x.s = s
  BY <1>3, WorkWith DEF Work
<1> HIDE DEF x
<1>5. s \in PmType /\ s.maxmtu \in Size /\ s.phase \in Lost .. Fix
  BY <1>3 DEF Good, PmType
<1>6. CASE s.phase >= 0
  <2> DEFINE t == [s EXCEPT !.phase = s.phase + 1]
             y == [x EXCEPT !.s = t]
  <2>1. [x EXCEPT !.s.phase = @ + 1] = y
    BY <1>4
  <2>2. Good(t, p)
    <3>1. s.phase + 1 \in Lost .. Fix
      BY <1>3, <1>5, <1>6, Constants DEF Lost, Fix
    <3>2. t \in PmType /\ t.mtu = s.mtu /\ t.minmtu = s.minmtu
      BY <1>5, <3>1 DEF PmType
    <3>3. QED BY <1>3, <3>2 DEF Good
  <2> HIDE DEF t
  <2>3. Work(y, p)
    BY <1>4, <2>2, WorkWith
  <2> HIDE DEF y
  <2>4. Tick(w, fails) = {Submit(y, len, fails) : len \in ProbeSize(s)}
    BY <1>2, <1>6, <2>1
  <2>5. \A len \in ProbeSize(s) : Work(Submit(y, len, fails), p)
    BY <1>5, <2>3, ProbeSizeType, SubmitGood
  <2>6. QED BY <2>4, <2>5
<1>7. CASE ~(s.phase >= 0)
  <2> DEFINE y == SubmitCounted(x, Top(s), fails)
  <2>1. Tick(w, fails) = {IF s.phase = Steady /\ s.maxmtu + 1 < MTU
                          THEN Submit(y, s.maxmtu + 1, fails) ELSE y}
    BY <1>2, <1>7
  <2>2. Top(s) \in Size
    BY <1>5, MaxTwo, Constants DEF Top, Size
  <2>3. Work(y, p)
    BY <1>4, <2>2, SubmitCountedGood
  <2> HIDE DEF y
  <2>4. s.maxmtu + 1 < MTU => s.maxmtu + 1 \in Size
    BY <1>5, Constants DEF Size
  <2>5. s.maxmtu + 1 < MTU => Work(Submit(y, s.maxmtu + 1, fails), p)
    BY <2>3, <2>4, SubmitGood
  <2>6. QED BY <2>1, <2>3, <2>5
<1>8. QED BY <1>6, <1>7

LEMMA TryTxGood ==
    ASSUME IInv, NEW timeout \in BOOLEAN, NEW keepalive \in BOOLEAN, NEW tick \in BOOLEAN,
           NEW fails \in BOOLEAN, TryTx(timeout, keepalive, tick, fails)
    PROVE  /\ Good(pm', Reach) /\ requests' \subseteq Sent /\ published' \in Usable(Reach)
           /\ UNCHANGED <<path, link, filtered, replies, rxMax, acks>>
<1> DEFINE s0 == IF timeout THEN OnUdpTimeout(pm) ELSE pm
           w0 == [s |-> s0, requests |-> requests, sent |-> FALSE]
           w1 == IF keepalive THEN Keepalive(w0, fails) ELSE w0
<1>1. PICK seed \in {MTU, link} :
         LET w2 == IF w1.s.phase = 0 THEN [w1 EXCEPT !.s.maxmtu = seed] ELSE w1 IN
         \E w \in IF w2.s.confirmed /\ tick THEN Tick(w2, fails) ELSE {w2} :
            pm' = w.s /\ requests' = w.requests
  BY DEF TryTx
<1>2. Reach \in Sent /\ seed \in Size /\ Good(pm, Reach) /\ requests \subseteq Sent
  <2>1. Reach \in Sent /\ Good(pm, Reach) /\ requests \subseteq Sent
    BY ReachType DEF IInv
  <2>2. seed \in Size
    BY Constants DEF IInv, Sent, Size
  <2>3. QED BY <2>1, <2>2
<1>3. Good(s0, Reach)
  BY <1>2, OnUdpTimeoutGood
<1> HIDE DEF s0
<1>4. Work(w0, Reach)
  <2>1. w0 \in [s : PmType, requests : SUBSET Sent, sent : BOOLEAN] /\ w0.s = s0
    BY <1>2, <1>3 DEF Good
  <2>2. QED BY <1>3, <2>1 DEF Work
<1> HIDE DEF w0
<1>5. Work(w1, Reach)
  BY <1>2, <1>4, KeepaliveGood
<1> HIDE DEF w1
<1> DEFINE t == [w1.s EXCEPT !.maxmtu = seed]
           w2 == IF w1.s.phase = 0 THEN [w1 EXCEPT !.s = t] ELSE w1
<1>6. Work(w2, Reach)
  <2>1. t \in PmType /\ t.mtu = w1.s.mtu /\ t.minmtu = w1.s.minmtu
    BY <1>2, <1>5 DEF Work, Good, PmType
  <2>2. Good(t, Reach)
    BY <1>5, <2>1 DEF Work, Good
  <2> HIDE DEF t
  <2>3. QED BY <1>2, <1>5, <2>2, WorkWith
<1>7. PICK w \in IF w2.s.confirmed /\ tick THEN Tick(w2, fails) ELSE {w2} :
         pm' = w.s /\ requests' = w.requests
  BY <1>1
<1> HIDE DEF w2
<1>8. Work(w, Reach)
  BY <1>2, <1>6, <1>7, TickGood
<1>9. Good(pm', Reach) /\ requests' \subseteq Sent
  BY <1>7, <1>8 DEF Work
<1>10. published' \in Usable(Reach) /\ UNCHANGED <<path, link, filtered, replies, rxMax, acks>>
  BY DEF TryTx, IInv, Usable
<1>11. QED BY <1>9, <1>10

-----------------------------------------------------------------------------
(* The actions. Upsetting the path only widens what may be known of it. *)

LEMMA Widens ==
    ASSUME NEW p \in Sent, NEW q \in Sent, p <= q
    PROVE  /\ \A s : Good(s, p) => Good(s, q)
           /\ Usable(p) \subseteq Usable(q)
           /\ MIN_PROBE_SIZE .. p \subseteq MIN_PROBE_SIZE .. q
BY Constants DEF Good, Usable, Sent

LEMMA Upset ==
    ASSUME IInv, upsets < MaxUpsets, upsets' = upsets + 1
    PROVE  Reach' = MTU /\ MTU \in Sent /\ Reach \in Sent /\ Reach <= MTU /\ upsets' \in 0 .. MaxUpsets
BY Constants, ReachType DEF IInv, Reach, Sent

LEMMA CalmTxStep ==
    ASSUME IInv, NEW k \in BOOLEAN, CalmTx(k)
    PROVE  IInv'
<1>1. TryTx(FALSE, k, TRUE, FALSE) /\ upsets' = upsets
  BY DEF CalmTx
<1>2. /\ Good(pm', Reach) /\ requests' \subseteq Sent /\ published' \in Usable(Reach)
      /\ UNCHANGED <<path, link, filtered, replies, rxMax, acks>>
  BY <1>1, TryTxGood
<1>3. Reach' = Reach
  BY <1>1, <1>2 DEF Reach
<1>4. QED BY <1>1, <1>2, <1>3 DEF IInv

LEMMA UpsetTxStep ==
    ASSUME IInv, UpsetTx
    PROVE  IInv'
<1>1. upsets < MaxUpsets /\ upsets' = upsets + 1
  BY DEF UpsetTx
<1>2. /\ Good(pm', Reach) /\ requests' \subseteq Sent /\ published' \in Usable(Reach)
      /\ UNCHANGED <<path, link, filtered, replies, rxMax, acks>>
  BY TryTxGood DEF UpsetTx
<1>3. Good(pm', MTU) /\ published' \in Usable(MTU) /\ replies' \subseteq MIN_PROBE_SIZE .. MTU
      /\ acks' \subseteq MIN_PROBE_SIZE .. MTU /\ rxMax' \in {0} \cup MIN_PROBE_SIZE .. MTU
  BY <1>1, <1>2, Upset, Widens DEF IInv
<1>4. QED BY <1>1, <1>2, <1>3, Upset DEF IInv

LEMMA PeerStep ==
    ASSUME IInv, NEW len \in Size, PeerProbed(len) \/ PeerAcks \/ TooLarge(len)
    PROVE  IInv'
<1>1. /\ UNCHANGED <<pm, published, path, link, filtered, upsets>>
      /\ requests' \subseteq requests
      /\ Reach' = Reach /\ Reach \in Sent
  BY ReachType DEF PeerProbed, PeerAcks, TooLarge, Reach
<1>2. CASE PeerProbed(len)
  <2>1. len \in Sent /\ len <= path
    BY <1>2 DEF PeerProbed, IInv
  <2>2. len \in MIN_PROBE_SIZE .. Reach
    BY <2>1, Constants DEF Reach, Sent, IInv
  <2>3. replies' \subseteq MIN_PROBE_SIZE .. Reach /\ acks' = acks
    BY <1>2, <2>2 DEF PeerProbed, IInv
  <2>4. rxMax \in Int /\ len \in Int
    BY <2>2, Constants, <1>1 DEF IInv, Sent
  <2>5. Max({rxMax, len}) = IF rxMax >= len THEN rxMax ELSE len
    BY <2>4, MaxTwo
  <2>6. rxMax' \in {0} \cup MIN_PROBE_SIZE .. Reach
    BY <1>2, <2>2, <2>5 DEF PeerProbed, IInv
  <2>7. QED BY <1>1, <2>3, <2>6 DEF IInv
<1>3. CASE PeerAcks
  <2>1. rxMax \in MIN_PROBE_SIZE .. Reach /\ acks' = acks \cup {rxMax} /\ rxMax' = 0
        /\ replies' = replies
    BY <1>3 DEF PeerAcks, IInv
  <2>2. QED BY <1>1, <2>1 DEF IInv
<1>4. CASE TooLarge(len)
  BY <1>1, <1>4 DEF TooLarge, IInv
<1>5. QED BY <1>2, <1>3, <1>4

LEMMA LostOnTheWayStep ==
    ASSUME IInv, LostOnTheWay
    PROVE  IInv'
<1>1. /\ upsets < MaxUpsets /\ upsets' = upsets + 1
      /\ requests' \subseteq requests /\ replies' \subseteq replies
      /\ UNCHANGED <<pm, published, path, link, filtered, rxMax, acks>>
  BY DEF LostOnTheWay
<1>2. Good(pm', MTU) /\ published' \in Usable(MTU) /\ replies' \subseteq MIN_PROBE_SIZE .. MTU
      /\ acks' \subseteq MIN_PROBE_SIZE .. MTU /\ rxMax' \in {0} \cup MIN_PROBE_SIZE .. MTU
  BY <1>1, Upset, Widens DEF IInv
<1>3. QED BY <1>1, <1>2, Upset DEF IInv

LEMMA ProbeReplyStep ==
    ASSUME IInv, NEW len \in Size, ProbeReply(len)
    PROVE  IInv'
<1>1. /\ len \in MIN_PROBE_SIZE .. Reach /\ replies' \subseteq replies
      /\ pm' = OnProbeReply(pm, len) /\ published' = pm'.minmtu
      /\ UNCHANGED <<path, link, filtered, requests, rxMax, acks, upsets>>
  BY DEF ProbeReply, IInv
<1>2. Reach' = Reach
  BY <1>1 DEF Reach
<1>3. Good(pm', Reach)
  BY <1>1, ReachType, OnProbeReplyGood DEF IInv
<1>4. published' \in Usable(Reach)
  BY <1>1, <1>3 DEF Good
<1>5. QED BY <1>1, <1>2, <1>3, <1>4 DEF IInv

LEMMA MetaAckStep ==
    ASSUME IInv, NEW len \in Size, MetaAck(len)
    PROVE  IInv'
<1>1. /\ len \in MIN_PROBE_SIZE .. Reach /\ acks' \subseteq acks
      /\ pm' = OnMetaAck(pm, len)
      /\ (published' = pm'.minmtu \/ published' = published)
      /\ UNCHANGED <<path, link, filtered, requests, rxMax, replies, upsets>>
  BY DEF MetaAck, IInv
<1>2. Reach' = Reach
  BY <1>1 DEF Reach
<1>3. Good(pm', Reach)
  BY <1>1, ReachType, OnMetaAckGood DEF IInv
<1>4. published' \in Usable(Reach)
  BY <1>1, <1>3 DEF Good, IInv
<1>5. QED BY <1>1, <1>2, <1>3, <1>4 DEF IInv

(* A refusal lowers, and never below what is usable. *)
LEMMA SendRefusedStep ==
    ASSUME IInv, NEW len \in Size, SendRefused(len)
    PROVE  IInv'
<1>1. /\ len \in MINMTU .. published /\ pm' = OnEmsgsize(pm, len)
      /\ UNCHANGED <<published, path, link, filtered, requests, replies, rxMax, acks, upsets>>
  BY DEF SendRefused, pmtuNet
<1>2. Reach' = Reach
  BY <1>1 DEF Reach
<1>3. len \in Sent
  BY <1>1, Constants DEF Size, Sent
<1>4. Good(pm', Reach)
  BY <1>1, <1>3, ReachType, OnEmsgsizeGood DEF IInv
<1>5. QED BY <1>1, <1>2, <1>4 DEF IInv

LEMMA ResetStep ==
    ASSUME IInv, SendUnreachable \/ ResetUnreachable
    PROVE  IInv'
<1>1. /\ upsets < MaxUpsets /\ upsets' = upsets + 1
      /\ published' \in {published, 0}
      /\ UNCHANGED <<path, link, filtered, requests, replies, rxMax, acks>>
  BY DEF SendUnreachable, ResetUnreachable, pmtuNet
<1>2. Good(pm, Reach) /\ Reach \in Sent
  BY ReachType DEF IInv
<1>3. Good(pm', Reach)
  <2>1. CASE SendUnreachable
    <3>1. pm' = [pm EXCEPT !.confirmed = FALSE]
      BY <2>1 DEF SendUnreachable
    <3>2. pm' \in PmType /\ pm'.mtu = pm.mtu /\ pm'.minmtu = pm.minmtu
      BY <1>2, <3>1 DEF Good, PmType
    <3>3. QED BY <1>2, <3>2 DEF Good
  <2>2. CASE ResetUnreachable
    <3> DEFINE t == OnUdpTimeout(pm)
    <3>1. pm' = [t EXCEPT !.mtu = pm.mtu]
      BY <2>2 DEF ResetUnreachable
    <3>2. Good(t, Reach) /\ t.mtu = pm.mtu
      BY <1>2, OnUdpTimeoutGood
    <3> HIDE DEF t
    <3>3. pm' \in PmType /\ pm'.mtu = pm.mtu /\ pm'.minmtu = t.minmtu
      BY <1>2, <3>1, <3>2 DEF Good, PmType
    <3>4. QED BY <1>2, <3>2, <3>3 DEF Good
  <2>3. QED BY <2>1, <2>2
<1>4. published' \in Usable(Reach)
  BY <1>1 DEF IInv, Usable
<1>5. Good(pm', MTU) /\ published' \in Usable(MTU) /\ replies' \subseteq MIN_PROBE_SIZE .. MTU
      /\ acks' \subseteq MIN_PROBE_SIZE .. MTU /\ rxMax' \in {0} \cup MIN_PROBE_SIZE .. MTU
  BY <1>1, <1>3, <1>4, Upset, Widens DEF IInv
<1>6. QED BY <1>1, <1>5, Upset DEF IInv

LEMMA PathChangesStep ==
    ASSUME IInv, PathChanges
    PROVE  IInv'
<1>1. /\ upsets < MaxUpsets /\ upsets' = upsets + 1
      /\ path' \in Sent /\ link' \in Sent
      /\ UNCHANGED <<pm, published, filtered, requests, replies, rxMax, acks>>
  BY Constants DEF PathChanges, Sent
<1>2. Good(pm', MTU) /\ published' \in Usable(MTU) /\ replies' \subseteq MIN_PROBE_SIZE .. MTU
      /\ acks' \subseteq MIN_PROBE_SIZE .. MTU /\ rxMax' \in {0} \cup MIN_PROBE_SIZE .. MTU
  BY <1>1, Upset, Widens DEF IInv
<1>3. QED BY <1>1, <1>2, Upset DEF IInv

-----------------------------------------------------------------------------
LEMMA IInvInit == PmtuInit => IInv
<1> SUFFICES ASSUME PmtuInit PROVE IInv
  OBVIOUS
<1>1. path \in Sent /\ link \in Sent /\ Reach = path /\ upsets \in 0 .. MaxUpsets
  BY Constants DEF PmtuInit, Sent, Reach
<1>2. 0 \in Size /\ MTU \in Size /\ 0 \in Lost .. Fix
  BY Constants DEF Size, Lost, Fix
<1>3. pm \in PmType /\ pm.mtu = 0 /\ pm.minmtu = 0
  BY <1>2 DEF PmtuInit, PmType
<1>4. QED BY <1>1, <1>3 DEF PmtuInit, IInv, Good, Usable

LEMMA IInvStep == IInv /\ [PmtuNext]_pmtuVars => IInv'
<1> SUFFICES ASSUME IInv, [PmtuNext]_pmtuVars PROVE IInv'
  OBVIOUS
<1>1. CASE UNCHANGED pmtuVars
  BY <1>1 DEF pmtuVars, IInv, Reach
<1>2. CASE PeerAcks
  <2>1. 0 \in Size
    BY Constants DEF Size
  <2>2. QED BY <1>2, <2>1, PeerStep
<1>3. QED
  BY <1>1, <1>2, CalmTxStep, UpsetTxStep, PeerStep, LostOnTheWayStep, ProbeReplyStep, MetaAckStep,
     SendRefusedStep, ResetStep, PathChangesStep DEF PmtuNext

LEMMA IInvAlways == PmtuSpec => []IInv
BY IInvInit, IInvStep, PTL DEF PmtuSpec

(* Every bound is a size, the phase one of pmtu.rs, and no probe is sent   *)
(* below MIN_PROBE_SIZE or above MTU, whatever tick asks for.              *)
THEOREM PmtuTypeCorrect == PmtuSpec => []PmtuTypeOK
<1>1. ASSUME IInv PROVE PmtuTypeOK
  <2>1. pm.mtu \in Size /\ pm.minmtu \in Size /\ pm.maxmtu \in Size /\ pm.phase \in Lost .. Fix
    BY <1>1 DEF IInv, Good, PmType
  <2>2. published \in Size
    BY <1>1, ReachType, Constants DEF IInv, Usable, Size, Sent
  <2>3. replies \subseteq Sent /\ acks \subseteq Sent
    BY <1>1, ReachType, Constants DEF IInv, Sent
  <2>4. QED BY <1>1, <2>1, <2>2, <2>3 DEF PmtuTypeOK, IInv, Sent
<1>2. QED BY <1>1, IInvAlways, PTL

(* The comment in pmtu.rs on minmtu, of all that is locked or published:   *)
(* a dead path never converges at a tiny value.                            *)
THEOREM UsableOrNothingCorrect == PmtuSpec => []UsableOrNothing
<1>1. ASSUME IInv PROVE UsableOrNothing
  BY <1>1, ReachType, Constants DEF UsableOrNothing, IInv, Good, Usable, Sent
<1>2. QED BY <1>1, IInvAlways, PTL

(* Replies, acks over the meta connection and refusals in any order never  *)
(* raise a size beyond an undisturbed path (on_probe_reply, on_meta_ack,   *)
(* on_emsgsize, try_fix_mtu).                                              *)
THEOREM NeverTooLargeCorrect == PmtuSpec => []NeverTooLarge
<1>1. ASSUME IInv PROVE NeverTooLarge
  BY <1>1, Constants DEF NeverTooLarge, IInv, Good, Usable, Reach, Sent
<1>2. QED BY <1>1, IInvAlways, PTL
=============================================================================
