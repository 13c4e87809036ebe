---------------------------- MODULE SptpsProofs ----------------------------
(* Safety of an SPTPS session for any number of rekeys and records and in  *)
(* either framing: the handshake's expects never fire, the two ends agree  *)
(* on their ciphers, data is delivered once and not too early, and on an   *)
(* ordered stream no record ever meets an end that cannot take it; such a  *)
(* stream is the channel of SecureStream: whatever rekeys cross, records   *)
(* leave in the order in which they were sent, none is lost and none comes *)
(* twice.                                                                  *)
EXTENDS MCSptps, FiniteSetTheorems, TLAPS

-----------------------------------------------------------------------------
(* Handshakes are numbered: the n-th KEX of an end belongs to the n-th     *)
(* handshake. How far an end has got says everything about its secrets.    *)

Gens == 1 .. MaxKex

States == {"Kex", "SecondaryKex", "Sig", "Ack", "Confirm"}

Hybrid == kexmode = "X25519MlKem768"

Mat(g) == <<<<"I", g>>, <<"R", g>>>>

(* The ciphers of an end after handshake g; none before the first. *)
Sealing(p, g) == IF g = 0 THEN None ELSE KeyHalf(p, Mat(g), TRUE)

Opening(p, g) == IF g = 0 THEN None ELSE KeyHalf(p, Mat(g), FALSE)

OutGen(p) == IF st[p] \in {"Kex", "Sig"} THEN nkex[p] - 1 ELSE nkex[p]

InGen(p) == IF st[p] \in {"Kex", "Sig", "Ack"} THEN nkex[p] - 1 ELSE nkex[p]

EndOK(p) ==
    /\ st[p] \in States /\ nkex[p] \in Gens
    /\ mykex[p] = IF st[p] \in {"Kex", "Sig"} THEN <<p, nkex[p]>> ELSE None
    /\ hiskex[p] = IF st[p] = "Sig" THEN <<Other(p), nkex[p]>> ELSE None
    /\ key[p] = IF st[p] = "Ack" THEN Mat(nkex[p]) ELSE None
    /\ outcipher[p] = Sealing(p, OutGen(p))
    /\ incipher[p] = Opening(p, InGen(p))
    /\ st[p] = "Ack" => nkex[p] >= 2
    /\ st[p] = "Confirm" => nkex[p] = 1 /\ Hybrid
    /\ done[p] = IF st[p] = "SecondaryKex" THEN nkex[p] ELSE nkex[p] - 1

Rank(s) == IF s = "Kex" THEN 0 ELSE IF s = "Sig" THEN 1 ELSE IF s = "SecondaryKex" THEN 3 ELSE 2

(* p has come to rank j of handshake k. *)
At(p, k, j) == nkex[p] > k \/ (nkex[p] = k /\ Rank(st[p]) >= j)

-----------------------------------------------------------------------------
(* Records 0, 1 and 2 of handshake k: KEX, SIG and ACK. The first ACK      *)
(* exists only in the hybrid handshake, under the new cipher.              *)

Real(k, j) == k \in Gens /\ j \in 0 .. 2 /\ (j = 2 => k >= 2 \/ Hybrid)

(* The rank at which o has sent record j; its receiver has rank j + 1 when *)
(* it has taken it. The responder signs a step later than the initiator.   *)
SentAt(o, j) == IF j = 1 /\ o = "I" THEN 1 ELSE IF j = 0 THEN 0 ELSE 2

Is(p, m, k, j) ==
    LET o == Other(p)
        r == m.rec
    IN
    \/ j = 0 /\ r.ty = "kex" /\ r.cipher = Sealing(o, k - 1) /\ r.body = <<o, k>>
    \/ /\ j = 1 /\ r.ty = "sig" /\ r.cipher = Sealing(o, k - 1)
       /\ r.body = Transcript(o, <<o, k>>, <<p, k>>)
    \/ j = 2 /\ k >= 2 /\ r.ty = "ack" /\ r.cipher = Sealing(o, k - 1) /\ m.seqno >= 3
    \/ j = 2 /\ k = 1 /\ r.ty = "ack" /\ r.cipher = Sealing(o, 1) /\ m.seqno = 2

IsApp(p, m, g) ==
    /\ m.rec.ty = "app" /\ m.rec.cipher = Sealing(Other(p), g)
    /\ m.rec.body \in 1 .. napp[Other(p)]

(* What is on its way was sent, and not before its time. *)
MsgOK(p, m) ==
    LET o == Other(p) IN
    /\ m.seqno \in Nat /\ m.seqno < outseqno[o]
    /\ \/ \E k \in Gens, j \in 0 .. 2 : Real(k, j) /\ Is(p, m, k, j) /\ At(o, k, SentAt(o, j))
       \/ \E g \in Gens : IsApp(p, m, g) /\ g <= OutGen(o)

(* What p has taken, o has sent. *)
Behind(p) ==
    \A k \in Gens, j \in 0 .. 2 :
        Real(k, j) /\ At(p, k, j + 1) => At(Other(p), k, SentAt(Other(p), j))

Read(p, n) == IF Framing = "stream" THEN n < inseqno[p] ELSE n \in seen[p]

(* The numbers of the initial handshake are fixed; so is that of the first *)
(* ACK, and it is not taken for the ACK of a rekey, which looks the same.  *)
Numbers(p) ==
    /\ outseqno[p] \in Nat /\ inseqno[p] \in 0 .. outseqno[Other(p)]
    /\ seen[p] \subseteq 0 .. outseqno[Other(p)] - 1
    /\ nkex[p] = 1 /\ Rank(st[p]) = 0 => outseqno[p] = 1
    /\ nkex[p] = 1 /\ Rank(st[p]) = 1 => outseqno[p] = IF p = "I" THEN 2 ELSE 1
    /\ At(p, 1, 2) => outseqno[p] >= 2
    /\ nkex[p] >= 2 => outseqno[p] >= 3
    /\ Hybrid /\ At(p, 1, 3) => Read(p, 2)

(* Data: no body twice on the way, none unread that was delivered. *)
Once(p) ==
    /\ napp[p] \in 0 .. MaxApp
    /\ got[p] \in Seq(1 .. napp[Other(p)])
    /\ \A i, j \in 1 .. Len(got[p]) : got[p][i] = got[p][j] => i = j
    /\ \A m \in net[p] : m.rec.ty = "app" =>
          /\ ~Read(p, m.seqno) => \A i \in 1 .. Len(got[p]) : got[p][i] # m.rec.body
          /\ \A x \in net[p] : x.rec.ty = "app" /\ x.rec.body = m.rec.body => x.seqno = m.seqno

Doms ==
    /\ kexmode \in KexModes
    /\ st \in [Peers -> States] /\ nkex \in [Peers -> Gens]
    /\ DOMAIN mykex = Peers /\ DOMAIN hiskex = Peers /\ DOMAIN key = Peers
    /\ DOMAIN incipher = Peers /\ DOMAIN outcipher = Peers
    /\ DOMAIN outseqno = Peers /\ DOMAIN inseqno = Peers /\ DOMAIN seen = Peers
    /\ DOMAIN net = Peers /\ DOMAIN failed = Peers
    /\ DOMAIN napp = Peers /\ DOMAIN done = Peers /\ DOMAIN got = Peers

(* The inductive invariant. *)
IInv ==
    /\ Doms
    /\ \A p \in Peers :
          /\ EndOK(p) /\ Behind(p) /\ Numbers(p) /\ Once(p)
          /\ \A m \in net[p] : MsgOK(p, m)

-----------------------------------------------------------------------------
(* On a stream, and for NeverFails, the order of the records as well.      *)

Before(k, j, l, i) == k < l \/ (k = l /\ j < i)

(* The records on their way to p are the ones sent and not taken, each     *)
(* once and in the order of the handshakes. Data under the key of          *)
(* handshake g comes after that handshake and before the ACK of the next,  *)
(* which makes p open with the next key.                                   *)
Queue(p) ==
    \A m \in net[p] : m.seqno >= inseqno[p] /\ \A x \in net[p] : x.seqno = m.seqno => x = m

Pending(p) ==
    \A k \in Gens, j \in 0 .. 2 : Real(k, j) /\ At(Other(p), k, SentAt(Other(p), j)) =>
        (At(p, k, j + 1) <=> ~ \E m \in net[p] : Is(p, m, k, j))

InOrder(p) ==
    \A m, x \in net[p], k, l \in Gens, j, i \in 0 .. 2 : Is(p, m, k, j) /\ Is(p, x, l, i) =>
        /\ Before(k, j, l, i) => m.seqno < x.seqno
        /\ k = l /\ j = i => m = x

DataInOrder(p) ==
    /\ \A m, x \in net[p], g, k \in Gens, j \in 0 .. 2 : IsApp(p, m, g) /\ Is(p, x, k, j) =>
          /\ k <= g => x.seqno < m.seqno
          /\ k > g /\ j = 2 => m.seqno < x.seqno
    /\ \A m \in net[p], g \in Gens : IsApp(p, m, g) => ~At(p, g + 1, 3)

Flow(p) == Queue(p) /\ Pending(p) /\ InOrder(p) /\ DataInOrder(p)

SInv == NeverFails /\ (Framing = "stream" => \A p \in Peers : Flow(p))

-----------------------------------------------------------------------------
(* Names and ciphers. *)

LEMMA PeerFacts ==
    \A p \in Peers : /\ Other(p) \in Peers /\ Other(p) # p /\ Other(Other(p)) = p
                     /\ Peers = {p, Other(p)} /\ p \in {"I", "R"}
BY DEF Peers, Other

LEMMA NotNone ==
    /\ \A a, b : <<a, b>> # None
    /\ \A a, b : [mat |-> a, half |-> b] # None
<1>1. ASSUME NEW a, NEW b PROVE <<a, b>> # None
  <2>1. Len(<<a, b>>) = 2 /\ Len(None) = 0
    BY DEF None
  <2>2. QED BY <2>1
<1>2. ASSUME NEW a, NEW b PROVE [mat |-> a, half |-> b] # None
  <2>1. DOMAIN [mat |-> a, half |-> b] = {"mat", "half"}
    OBVIOUS
  <2>2. DOMAIN None = {}
    BY DEF None
  <2>3. QED BY <2>1, <2>2
<1>3. QED BY <1>1, <1>2

LEMMA CipherNone ==
    \A p : \A g \in Nat : (Sealing(p, g) = None <=> g = 0) /\ (Opening(p, g) = None <=> g = 0)
BY NotNone DEF Sealing, Opening, KeyHalf

(* One end's outbound cipher is the other's inbound cipher exactly when    *)
(* both come from the same handshake.                                      *)
LEMMA CipherMatch ==
    \A p \in Peers : \A k, g \in Nat : Sealing(Other(p), k) = Opening(p, g) <=> k = g
<1> SUFFICES ASSUME NEW p \in Peers, NEW k \in Nat, NEW g \in Nat
             PROVE  Sealing(Other(p), k) = Opening(p, g) <=> k = g
  OBVIOUS
<1>1. CASE k = 0 \/ g = 0
  <2>1. (Sealing(Other(p), k) = None <=> k = 0) /\ (Opening(p, g) = None <=> g = 0)
    BY CipherNone
  <2>2. QED BY <1>1, <2>1
<1>2. CASE k # 0 /\ g # 0
  <2> DEFINE h == IF (Other(p) = "I") = TRUE THEN 1 ELSE 0
             i == IF (p = "I") = FALSE THEN 1 ELSE 0
  <2>1. h = i
    BY DEF Peers, Other
  <2>2. Sealing(Other(p), k) = [mat |-> Mat(k), half |-> h]
    BY <1>2 DEF Sealing, Opening, KeyHalf
  <2>3. Opening(p, g) = [mat |-> Mat(g), half |-> i]
    BY <1>2 DEF Sealing, Opening, KeyHalf
  <2> HIDE DEF h, i
  <2>4. Mat(k) = Mat(g) => k = g
    BY DEF Mat
  <2>5. [mat |-> Mat(k), half |-> h] = [mat |-> Mat(g), half |-> i] => Mat(k) = Mat(g)
    <3> DEFINE a == Mat(k)
               b == Mat(g)
    <3> HIDE DEF a, b
    <3>1. [mat |-> a, half |-> h].mat = a /\ [mat |-> b, half |-> i].mat = b
      OBVIOUS
    <3>2. QED BY <3>1 DEF a, b
  <2>6. QED BY <2>1, <2>2, <2>3, <2>4, <2>5
<1>3. QED BY <1>1, <1>2

LEMMA CipherHalves ==
    \A p \in Peers : \A k, g \in Nat \ {0} : Sealing(p, k) # Opening(p, g)
<1> SUFFICES ASSUME NEW p \in Peers, NEW k \in Nat \ {0}, NEW g \in Nat \ {0}
             PROVE  Sealing(p, k) # Opening(p, g)
  OBVIOUS
<1> DEFINE a == Mat(k)
           b == Mat(g)
           h == IF (p = "I") = TRUE THEN 1 ELSE 0
           i == IF (p = "I") = FALSE THEN 1 ELSE 0
<1>1. Sealing(p, k) = [mat |-> a, half |-> h] /\ Opening(p, g) = [mat |-> b, half |-> i]
  BY DEF Sealing, Opening, KeyHalf
<1>2. h # i
  OBVIOUS
<1> HIDE DEF a, b, h, i
<1>3. [mat |-> a, half |-> h].half = h /\ [mat |-> b, half |-> i].half = i
  OBVIOUS
<1>4. QED BY <1>1, <1>2, <1>3

LEMMA CipherType ==
    \A p : \A g \in Gens \cup {0} : Sealing(p, g) \in Ciphers /\ Opening(p, g) \in Ciphers
<1> SUFFICES ASSUME NEW p, NEW g \in Gens \cup {0}
             PROVE  Sealing(p, g) \in Ciphers /\ Opening(p, g) \in Ciphers
  OBVIOUS
<1>1. CASE g = 0
  BY <1>1 DEF Sealing, Opening, Ciphers
<1>2. CASE g # 0
  <2> DEFINE h == IF (p = "I") = TRUE THEN 1 ELSE 0
             i == IF (p = "I") = FALSE THEN 1 ELSE 0
  <2>1. Mat(g) \in Kexes("I") \X Kexes("R")
    BY <1>2 DEF Mat, Kexes, Gens
  <2>2. h \in {0, 1} /\ i \in {0, 1}
    OBVIOUS
  <2>3. Sealing(p, g) = [mat |-> Mat(g), half |-> h] /\ Opening(p, g) = [mat |-> Mat(g), half |-> i]
    BY <1>2 DEF Sealing, Opening, KeyHalf
  <2> HIDE DEF h, i
  <2>4. QED BY <2>1, <2>2, <2>3 DEF Ciphers
<1>3. QED BY <1>1, <1>2

LEMMA SealingInjective ==
    \A o \in Peers : \A k, l \in Nat : Sealing(o, k) = Sealing(o, l) => k = l
<1> SUFFICES ASSUME NEW o \in Peers, NEW k \in Nat, NEW l \in Nat, Sealing(o, k) = Sealing(o, l)
             PROVE  k = l
  OBVIOUS
<1> PICK p : p = Other(o)
  OBVIOUS
<1>1. p \in Peers /\ Other(p) = o
  BY PeerFacts
<1>2. Sealing(o, k) = Opening(p, k)
  BY <1>1, CipherMatch
<1>3. Sealing(o, l) = Opening(p, k)
  BY <1>2
<1>4. QED BY <1>1, <1>3, CipherMatch

(* A record tells which one it is. *)
LEMMA IsUnique ==
    ASSUME NEW p \in Peers, NEW m, NEW k \in Gens, NEW l \in Gens, NEW j \in 0 .. 2, NEW i \in 0 .. 2,
           Is(p, m, k, j), Is(p, m, l, i)
    PROVE  k = l /\ j = i
<1> PICK o : o = Other(p)
  OBVIOUS
<1>1. o \in Peers /\ k \in Nat /\ l \in Nat /\ k >= 1 /\ l >= 1 /\ k - 1 \in Nat /\ l - 1 \in Nat
  BY PeerFacts, SptpsAssumption DEF Gens
<1>2. Sealing(o, k - 1) = Sealing(o, l - 1) => k = l
  <2>1. Sealing(o, k - 1) = Sealing(o, l - 1) => k - 1 = l - 1
    BY <1>1, SealingInjective
  <2>2. QED BY <1>1, <2>1
<1>3. j = i
  BY DEF Is
<1>4. CASE j \in {0, 1}
  BY <1>2, <1>3, <1>4 DEF Is
<1>5. CASE j = 2 /\ k >= 2 /\ l >= 2
  BY <1>1, <1>2, <1>3, <1>5 DEF Is
<1>6. CASE j = 2 /\ k = 1
  <2>1. m.seqno = 2
    BY <1>6 DEF Is
  <2>2. ~(l >= 2)
    BY <1>3, <1>6, <2>1 DEF Is
  <2>3. QED BY <1>1, <1>3, <1>6, <2>2
<1>7. CASE j = 2 /\ l = 1
  <2>1. m.seqno = 2
    BY <1>3, <1>7 DEF Is
  <2>2. ~(k >= 2)
    BY <1>7, <2>1 DEF Is
  <2>3. QED BY <1>1, <1>3, <1>7, <2>2
<1>8. QED BY <1>1, <1>4, <1>5, <1>6, <1>7

-----------------------------------------------------------------------------
(* Sending. *)

New(n, rec) == [seqno |-> n, rec |-> rec]

Batch(n, recs) == {New(n + i - 1, recs[i]) : i \in 1 .. Len(recs)}

LEMMA Emitted ==
    ASSUME Doms, NEW p \in Peers, NEW recs, Emit(p, recs)
    PROVE  /\ DOMAIN outseqno' = Peers /\ DOMAIN net' = Peers
           /\ outseqno'[p] = outseqno[p] + Len(recs) /\ outseqno'[Other(p)] = outseqno[Other(p)]
           /\ net'[Other(p)] = net[Other(p)] \cup Batch(outseqno[p], recs)
           /\ net'[p] = net[p]
<1> DEFINE o == Other(p)
           Y == net[o] \cup Batch(outseqno[p], recs)
           c == outseqno[p] + Len(recs)
<1>1. o \in Peers /\ o # p /\ DOMAIN outseqno = Peers /\ DOMAIN net = Peers
  BY PeerFacts DEF Doms
<1>2. outseqno' = [outseqno EXCEPT ![p] = c] /\ net' = [net EXCEPT ![o] = Y]
  BY DEF Emit, New, Batch
<1> HIDE DEF Y, c, o
<1>3. /\ DOMAIN outseqno' = Peers /\ outseqno'[p] = c /\ outseqno'[o] = outseqno[o]
      /\ DOMAIN net' = Peers /\ net'[o] = Y /\ net'[p] = net[p]
  BY <1>1, <1>2
<1>4. QED BY <1>3 DEF Y, c, o

LEMMA Answered ==
    ASSUME Doms, NEW p \in Peers, NEW m, NEW recs, Answer(p, m, recs)
    PROVE  /\ DOMAIN outseqno' = Peers /\ DOMAIN net' = Peers
           /\ outseqno'[p] = outseqno[p] + Len(recs) /\ outseqno'[Other(p)] = outseqno[Other(p)]
           /\ net'[Other(p)] = net[Other(p)] \cup Batch(outseqno[p], recs)
           /\ net'[p] \subseteq net[p]
           /\ net'[p] = IF Framing = "stream" THEN net[p] \ {m} ELSE net[p]
<1> DEFINE o == Other(p)
           Y == net[o] \cup Batch(outseqno[p], recs)
           Z == IF Framing = "stream" THEN net[p] \ {m} ELSE net[p]
           c == outseqno[p] + Len(recs)
<1>1. o \in Peers /\ o # p /\ DOMAIN outseqno = Peers /\ DOMAIN net = Peers
  BY PeerFacts DEF Doms
<1>2. outseqno' = [outseqno EXCEPT ![p] = c] /\ net' = [net EXCEPT ![o] = Y, ![p] = Z]
  BY DEF Answer, New, Batch
<1>3. Z \subseteq net[p]
  OBVIOUS
<1> HIDE DEF Y, Z, c, o
<1>4. /\ DOMAIN outseqno' = Peers /\ outseqno'[p] = c /\ outseqno'[o] = outseqno[o]
      /\ DOMAIN net' = Peers /\ net'[o] = Y /\ net'[p] = Z
  BY <1>1, <1>2
<1>5. QED BY <1>3, <1>4 DEF Y, Z, c, o

LEMMA Batches ==
    ASSUME NEW n \in Nat, NEW a, NEW b
    PROVE  /\ Batch(n, <<>>) = {} /\ Len(<<>>) = 0
           /\ Batch(n, <<a>>) = {New(n, a)} /\ Len(<<a>>) = 1
           /\ Batch(n, <<a, b>>) = {New(n, a), New(n + 1, b)} /\ Len(<<a, b>>) = 2
<1>1. Len(<<>>) = 0 /\ Len(<<a>>) = 1 /\ Len(<<a, b>>) = 2
      /\ <<a>>[1] = a /\ <<a, b>>[1] = a /\ <<a, b>>[2] = b
  OBVIOUS
<1>2. n + 1 - 1 = n /\ n + 2 - 1 = n + 1 /\ 1 .. 0 = {} /\ 1 .. 1 = {1} /\ 1 .. 2 = {1, 2}
  OBVIOUS
<1>3. Batch(n, <<>>) = {}
  BY <1>1, <1>2 DEF Batch
<1>4. Batch(n, <<a>>) = {New(n, a)}
  BY <1>1, <1>2 DEF Batch
<1>5. Batch(n, <<a, b>>) = {New(n, a), New(n + 1, b)}
  BY <1>1, <1>2 DEF Batch
<1>6. QED BY <1>1, <1>3, <1>4, <1>5

LEMMA Joined ==
    ASSUME NEW a, NEW b
    PROVE  /\ <<>> \o <<>> = <<>> /\ <<a>> \o <<>> = <<a>> /\ <<>> \o <<b>> = <<b>>
           /\ <<a>> \o <<b>> = <<a, b>>
<1> DEFINE S == {a, b}
<1>1. <<>> \in Seq(S) /\ <<a>> \in Seq(S) /\ <<b>> \in Seq(S) /\ <<a, b>> \in Seq(S)
  OBVIOUS
<1> HIDE DEF S
<1>2. <<>> \o <<>> = <<>>
  OBVIOUS
<1>3. <<a>> \o <<>> = <<a>> /\ <<>> \o <<b>> = <<b>>
  BY <1>1
<1>4. <<a>> \o <<b>> = <<a, b>>
  <2>1. /\ Len(<<a>> \o <<b>>) = 2 /\ (<<a>> \o <<b>>)[1] = a /\ (<<a>> \o <<b>>)[2] = b
        /\ <<a>> \o <<b>> \in Seq(S)
    BY <1>1
  <2>2. ASSUME NEW s \in Seq(S), NEW t \in Seq(S), Len(s) = 2, Len(t) = 2, s[1] = t[1], s[2] = t[2]
        PROVE  s = t
    <3>1. DOMAIN s = 1 .. 2 /\ DOMAIN t = 1 .. 2 /\ \A i \in 1 .. 2 : s[i] = t[i]
      BY <2>2
    <3>2. QED BY <3>1
  <2>3. Len(<<a, b>>) = 2 /\ <<a, b>>[1] = a /\ <<a, b>>[2] = b
    OBVIOUS
  <2>4. QED BY <1>1, <2>1, <2>2, <2>3
<1>5. QED BY <1>2, <1>3, <1>4

-----------------------------------------------------------------------------
(* Progress. *)

(* How p, now in state s with n KEXes, may have got there. *)
Move(p, s, n) ==
    LET o == Other(p) IN
    \/ s = st[p] /\ n = nkex[p]
    \/ st[p] = "SecondaryKex" /\ s = "Kex" /\ n = nkex[p] + 1
    \/ /\ (st[p] = "Kex" /\ n = nkex[p]) \/ (st[p] = "SecondaryKex" /\ n = nkex[p] + 1)
       /\ s = "Sig" /\ At(o, n, 0)
    \/ /\ st[p] = "Sig" /\ n = nkex[p] /\ At(o, n, SentAt(o, 1))
       /\ s = IF n >= 2 THEN "Ack" ELSE IF Hybrid THEN "Confirm" ELSE "SecondaryKex"
    \/ st[p] \in {"Ack", "Confirm"} /\ s = "SecondaryKex" /\ n = nkex[p] /\ At(o, n, 2)

LEMMA RankType == \A s : Rank(s) \in 0 .. 3
BY DEF Rank

LEMMA Ranks == /\ Rank("Kex") = 0 /\ Rank("Sig") = 1 /\ Rank("Ack") = 2 /\ Rank("Confirm") = 2
               /\ Rank("SecondaryKex") = 3
BY DEF Rank

LEMMA Moved ==
    ASSUME IInv, NEW p \in Peers, NEW s \in States, NEW n \in Gens, Move(p, s, n),
           st' = [st EXCEPT ![p] = s], nkex' = [nkex EXCEPT ![p] = n], kexmode' = kexmode
    PROVE  /\ st' \in [Peers -> States] /\ nkex' \in [Peers -> Gens]
           /\ st'[p] = s /\ nkex'[p] = n
           /\ st'[Other(p)] = st[Other(p)] /\ nkex'[Other(p)] = nkex[Other(p)]
           /\ \A q \in Peers : /\ Behind(q)' /\ OutGen(q) <= OutGen(q)'
                               /\ \A k \in Gens, j \in 0 .. 3 : At(q, k, j) => At(q, k, j)'
<1> DEFINE o == Other(p)
<1>1. o \in Peers /\ o # p /\ Other(o) = p /\ Peers = {p, o} /\ p \in {"I", "R"} /\ o \in {"I", "R"}
  BY PeerFacts
<1>2. /\ st \in [Peers -> States] /\ nkex \in [Peers -> Gens]
      /\ nkex[p] \in Nat /\ n \in Nat /\ Rank(s) \in Nat /\ Rank(st[p]) \in Nat
      /\ Rank(s) <= 3 /\ Rank(st[p]) <= 3
  BY RankType DEF IInv, Doms, Gens
<1>3. /\ st' \in [Peers -> States] /\ nkex' \in [Peers -> Gens]
      /\ st'[p] = s /\ nkex'[p] = n /\ st'[o] = st[o] /\ nkex'[o] = nkex[o]
  BY <1>1, <1>2
<1>4. Behind(p) /\ Behind(o) /\ EndOK(p) /\ EndOK(o)
  BY <1>1 DEF IInv
<1>5. \A k \in Gens, j \in 0 .. 3 : At(o, k, j)' <=> At(o, k, j)
  BY <1>3 DEF At
<1>6. ASSUME NEW k \in Gens, NEW j \in 0 .. 3, At(p, k, j) PROVE At(p, k, j)'
  <2>1. n > nkex[p] \/ (n = nkex[p] /\ Rank(s) >= Rank(st[p]))
    <3>1. CASE n = nkex[p] + 1
      BY <1>2, <3>1
    <3>2. CASE n = nkex[p]
      BY <1>2, <3>2, Ranks DEF Move
    <3>3. QED BY <3>1, <3>2 DEF Move
  <2>2. k \in Nat /\ j \in Nat /\ (nkex[p] > k \/ (nkex[p] = k /\ Rank(st[p]) >= j))
    BY <1>6 DEF At, Gens
  <2>3. n > k \/ (n = k /\ Rank(s) >= j)
    BY <1>2, <2>1, <2>2
  <2>4. QED BY <1>3, <2>3 DEF At
<1>7. OutGen(p) <= OutGen(p)' /\ OutGen(o) <= OutGen(o)'
  <2>1. OutGen(o)' = OutGen(o)
    BY <1>3 DEF OutGen
  <2>2. nkex[o] \in Nat
    BY <1>1, <1>2 DEF Gens
  <2>3. OutGen(o) \in Int
    BY <2>2 DEF OutGen
  <2>4. OutGen(p) \in Int /\ OutGen(p) <= nkex[p]
    BY <1>2 DEF OutGen
  <2>5. OutGen(p)' = IF s \in {"Kex", "Sig"} THEN n - 1 ELSE n
    BY <1>3 DEF OutGen
  <2>6. CASE n = nkex[p] + 1
    BY <1>2, <2>1, <2>3, <2>4, <2>5, <2>6
  <2>7. CASE n = nkex[p]
    <3>1. s \in {"Kex", "Sig"} => st[p] \in {"Kex", "Sig"}
      BY <1>2, <2>7 DEF Move
    <3>2. QED BY <1>2, <2>1, <2>3, <2>4, <2>5, <2>7, <3>1 DEF OutGen
  <2>8. n = nkex[p] \/ n = nkex[p] + 1
    BY DEF Move
  <2>9. QED BY <2>6, <2>7, <2>8
<1>8. \A k, j : Real(k, j)' <=> Real(k, j)
  BY DEF Real, Hybrid
<1>9. SentAt(p, 0) = 0 /\ SentAt(p, 1) \in 0 .. 3 /\ SentAt(p, 2) = 2
  BY DEF SentAt
<1>10. ASSUME NEW k \in Gens, NEW j \in 0 .. 2, Real(k, j), At(o, k, j + 1)'
       PROVE  At(p, k, SentAt(p, j))'
  <2>1. At(o, k, j + 1) /\ j + 1 \in 0 .. 3
    BY <1>5, <1>10
  <2>2. At(p, k, SentAt(p, j))
    BY <1>1, <1>4, <1>10, <2>1 DEF Behind
  <2>3. SentAt(p, j) \in 0 .. 3
    BY DEF SentAt
  <2>4. QED BY <1>6, <2>2, <2>3
<1>11. ASSUME NEW k \in Gens, NEW j \in 0 .. 2, Real(k, j), At(p, k, j + 1)'
       PROVE  At(o, k, SentAt(o, j))'
  <2>1. SentAt(o, j) \in 0 .. 3
    BY DEF SentAt
  <2> SUFFICES At(o, k, SentAt(o, j))
    BY <1>5, <2>1
  <2>2. CASE At(p, k, j + 1)
    BY <1>4, <1>11, <2>2 DEF Behind
  <2>3. CASE ~At(p, k, j + 1)
    <3>1. k \in Nat /\ j \in {0, 1, 2} /\ (n > k \/ (n = k /\ Rank(s) >= j + 1))
      BY <1>3, <1>11 DEF At, Gens
    <3>2. ~(nkex[p] > k) /\ ~(nkex[p] = k /\ Rank(st[p]) >= j + 1)
      BY <2>3 DEF At
    <3>3. CASE st[p] = "SecondaryKex" /\ s = "Kex" /\ n = nkex[p] + 1
      BY <1>2, <3>1, <3>2, <3>3, Ranks
    <3>4. CASE /\ (st[p] = "Kex" /\ n = nkex[p]) \/ (st[p] = "SecondaryKex" /\ n = nkex[p] + 1)
               /\ s = "Sig" /\ At(o, n, 0)
      <4>1. k = n /\ j = 0
        BY <1>2, <3>1, <3>2, <3>4, Ranks
      <4>2. QED BY <3>4, <4>1 DEF SentAt
    <3>5. CASE /\ st[p] = "Sig" /\ n = nkex[p] /\ At(o, n, SentAt(o, 1))
               /\ s = IF n >= 2 THEN "Ack" ELSE IF Hybrid THEN "Confirm" ELSE "SecondaryKex"
      <4>1. k = n /\ j \in {1, 2}
        BY <1>2, <3>1, <3>2, <3>5, Ranks
      <4>2. j = 1
        BY <1>2, <1>11, <3>1, <3>5, <4>1, Ranks DEF Real
      <4>3. QED BY <3>5, <4>1, <4>2
    <3>6. CASE st[p] \in {"Ack", "Confirm"} /\ s = "SecondaryKex" /\ n = nkex[p] /\ At(o, n, 2)
      <4>1. k = n /\ j = 2
        BY <1>2, <3>1, <3>2, <3>6, Ranks
      <4>2. QED BY <3>6, <4>1 DEF SentAt
    <3>7. CASE s = st[p] /\ n = nkex[p]
      BY <3>1, <3>2, <3>7
    <3>8. QED BY <3>3, <3>4, <3>5, <3>6, <3>7 DEF Move
  <2>4. QED BY <2>2, <2>3
<1>12. Behind(p)'
  BY <1>8, <1>11 DEF Behind
<1>13. Behind(o)'
  BY <1>1, <1>8, <1>10 DEF Behind
<1>14. QED BY <1>1, <1>3, <1>5, <1>6, <1>7, <1>12, <1>13

-----------------------------------------------------------------------------
(* What a step of p leaves alone: the other end. *)

Frame(p) ==
    LET o == Other(p) IN
    /\ kexmode' = kexmode
    /\ mykex'[o] = mykex[o] /\ hiskex'[o] = hiskex[o] /\ key'[o] = key[o]
    /\ incipher'[o] = incipher[o] /\ outcipher'[o] = outcipher[o]
    /\ outseqno'[o] = outseqno[o] /\ inseqno'[o] = inseqno[o] /\ seen'[o] = seen[o]
    /\ napp'[o] = napp[o] /\ done'[o] = done[o] /\ got'[o] = got[o]
    /\ DOMAIN mykex' = Peers /\ DOMAIN hiskex' = Peers /\ DOMAIN key' = Peers
    /\ DOMAIN incipher' = Peers /\ DOMAIN outcipher' = Peers
    /\ DOMAIN outseqno' = Peers /\ DOMAIN inseqno' = Peers /\ DOMAIN seen' = Peers
    /\ DOMAIN net' = Peers /\ DOMAIN failed' = Peers
    /\ DOMAIN napp' = Peers /\ DOMAIN done' = Peers /\ DOMAIN got' = Peers

LEMMA OtherEnd ==
    ASSUME IInv, NEW p \in Peers, Frame(p), st'[Other(p)] = st[Other(p)],
           nkex'[Other(p)] = nkex[Other(p)], outseqno'[p] \in Nat, outseqno'[p] >= outseqno[p]
    PROVE  EndOK(Other(p))' /\ Numbers(Other(p))'
<1> DEFINE o == Other(p)
<1>1. o \in Peers /\ Other(o) = p /\ EndOK(o) /\ Numbers(o) /\ Numbers(p)
  BY PeerFacts DEF IInv
<1>2. /\ kexmode' = kexmode /\ st'[o] = st[o] /\ nkex'[o] = nkex[o]
      /\ mykex'[o] = mykex[o] /\ hiskex'[o] = hiskex[o] /\ key'[o] = key[o]
      /\ incipher'[o] = incipher[o] /\ outcipher'[o] = outcipher[o]
      /\ outseqno'[o] = outseqno[o] /\ inseqno'[o] = inseqno[o] /\ seen'[o] = seen[o]
      /\ done'[o] = done[o]
  BY DEF Frame
<1> HIDE DEF o
<1>3. EndOK(o)'
  BY <1>1, <1>2 DEF EndOK, OutGen, InGen, Hybrid
<1>4. Numbers(o)'
  <2>1. inseqno[o] \in 0 .. outseqno[p] /\ seen[o] \subseteq 0 .. outseqno[p] - 1 /\ outseqno[p] \in Nat
    BY <1>1 DEF Numbers
  <2>2. inseqno'[o] \in 0 .. outseqno'[p] /\ seen'[o] \subseteq 0 .. outseqno'[p] - 1
    BY <1>2, <2>1
  <2>3. (Read(o, 2)' <=> Read(o, 2)) /\ (Hybrid' <=> Hybrid)
        /\ (At(o, 1, 3)' <=> At(o, 1, 3)) /\ (At(o, 1, 2)' <=> At(o, 1, 2))
    BY <1>2 DEF Read, Hybrid, At
  <2>4. QED BY <1>1, <1>2, <2>2, <2>3 DEF Numbers
<1>5. QED BY <1>3, <1>4 DEF o

(* Progress makes no message on the way wrong. *)
LEMMA OldMessage ==
    ASSUME IInv, NEW q \in Peers, NEW m \in net[q], kexmode' = kexmode,
           OutGen(Other(q)) <= OutGen(Other(q))',
           \A k \in Gens, j \in 0 .. 3 : At(Other(q), k, j) => At(Other(q), k, j)',
           outseqno'[Other(q)] \in Nat, outseqno'[Other(q)] >= outseqno[Other(q)],
           napp'[Other(q)] \in Nat, napp'[Other(q)] >= napp[Other(q)],
           OutGen(Other(q))' \in Int
    PROVE  MsgOK(q, m)'
<1> DEFINE o == Other(q)
<1>1. MsgOK(q, m) /\ o \in Peers
  BY PeerFacts DEF IInv
<1>2. outseqno[o] \in Nat /\ napp[o] \in Nat /\ OutGen(o) \in Int
  <2>1. Numbers(o) /\ Once(o) /\ EndOK(o)
    BY <1>1 DEF IInv
  <2>2. nkex[o] \in Nat
    BY <2>1 DEF EndOK, Gens
  <2>3. napp[o] \in Nat
    BY <2>1, SptpsAssumption DEF Once
  <2>4. QED BY <2>1, <2>2, <2>3 DEF Numbers, OutGen
<1>3. m.seqno \in Nat /\ m.seqno < outseqno'[o]
  BY <1>1, <1>2 DEF MsgOK
<1>4. \A k, j : Real(k, j)' <=> Real(k, j)
  BY DEF Real, Hybrid
<1>5. CASE \E k \in Gens, j \in 0 .. 2 : Real(k, j) /\ Is(q, m, k, j) /\ At(o, k, SentAt(o, j))
  <2>1. PICK k \in Gens, j \in 0 .. 2 : Real(k, j) /\ Is(q, m, k, j) /\ At(o, k, SentAt(o, j))
    BY <1>5
  <2>2. SentAt(o, j) \in 0 .. 3
    BY DEF SentAt
  <2>3. Real(k, j)' /\ At(o, k, SentAt(o, j))'
    BY <1>4, <2>1, <2>2
  <2>4. QED BY <1>3, <2>1, <2>3 DEF MsgOK
<1>6. CASE \E g \in Gens : IsApp(q, m, g) /\ g <= OutGen(o)
  <2>1. PICK g \in Gens : IsApp(q, m, g) /\ g <= OutGen(o)
    BY <1>6
  <2>2. m.rec.body \in 1 .. napp'[o]
    BY <1>2, <2>1 DEF IsApp
  <2>3. IsApp(q, m, g)'
    BY <2>1, <2>2 DEF IsApp
  <2>4. g <= OutGen(o)'
    BY <1>2, <2>1 DEF Gens
  <2>5. QED BY <1>3, <2>3, <2>4 DEF MsgOK
<1>7. QED BY <1>1, <1>5, <1>6 DEF MsgOK

(* Enough for a step of p: what p's own state and its new records are. *)
LEMMA StepOK ==
    ASSUME IInv, NEW p \in Peers, NEW s \in States, NEW n \in Gens, Move(p, s, n),
           st' = [st EXCEPT ![p] = s], nkex' = [nkex EXCEPT ![p] = n], Frame(p),
           net'[p] \subseteq net[p], \A x \in net'[Other(p)] : x \in net[Other(p)] \/ MsgOK(Other(p), x)',
           outseqno'[p] \in Nat, outseqno'[p] >= outseqno[p], napp'[p] \in Nat, napp'[p] >= napp[p],
           EndOK(p)', Numbers(p)', Once(p)', Once(Other(p))'
    PROVE  IInv'
<1> DEFINE o == Other(p)
<1>1. o \in Peers /\ Other(o) = p /\ Peers = {p, o}
  BY PeerFacts
<1>2. kexmode' = kexmode /\ outseqno'[o] = outseqno[o] /\ napp'[o] = napp[o]
  BY DEF Frame
<1>3. /\ st' \in [Peers -> States] /\ nkex' \in [Peers -> Gens]
      /\ st'[p] = s /\ nkex'[p] = n
      /\ st'[o] = st[o] /\ nkex'[o] = nkex[o]
      /\ \A q \in Peers : /\ Behind(q)' /\ OutGen(q) <= OutGen(q)'
                          /\ \A k \in Gens, j \in 0 .. 3 : At(q, k, j) => At(q, k, j)'
  BY <1>2, Moved
<1>4. EndOK(o)' /\ Numbers(o)'
  BY <1>3, OtherEnd
<1>5. outseqno[o] \in Nat /\ napp[o] \in Nat
  BY <1>1 DEF IInv, Numbers, Once
<1>6. \A q \in Peers : OutGen(q)' \in Int
  BY <1>3 DEF OutGen, Gens
<1>7. ASSUME NEW m \in net'[p] PROVE MsgOK(p, m)'
  <2>1. m \in net[p]
    OBVIOUS
  <2>2. outseqno'[o] >= outseqno[o] /\ napp'[o] >= napp[o] /\ outseqno'[o] \in Nat /\ napp'[o] \in Nat
    BY <1>2, <1>5
  <2>3. QED BY <1>1, <1>2, <1>3, <1>6, <2>1, <2>2, OldMessage
<1>8. ASSUME NEW m \in net'[o] PROVE MsgOK(o, m)'
  <2>1. CASE m \in net[o]
    BY <1>1, <1>2, <1>3, <1>6, <2>1, OldMessage
  <2>2. QED BY <2>1
<1>9. Doms'
  BY <1>2, <1>3 DEF Frame, Doms, IInv
<1>10. \A q \in Peers : EndOK(q)' /\ Behind(q)' /\ Numbers(q)' /\ Once(q)'
  BY <1>1, <1>3, <1>4
<1>11. \A q \in Peers : \A m \in net'[q] : MsgOK(q, m)'
  BY <1>1, <1>7, <1>8
<1>12. QED BY <1>9, <1>10, <1>11 DEF IInv

(* Data is left alone by all but its own two steps. *)
LEMMA OnceKept ==
    ASSUME IInv, NEW q \in Peers, \A m \in net'[q] : m \in net[q] \/ m.rec.ty # "app",
           got'[q] = got[q], napp'[q] = napp[q], napp'[Other(q)] = napp[Other(q)],
           \A m \in net[q] : Read(q, m.seqno) => Read(q, m.seqno)'
    PROVE  Once(q)'
<1>1. Once(q)
  BY DEF IInv
<1>2. \A m \in net'[q] : m.rec.ty = "app" => m \in net[q]
  OBVIOUS
<1>3. napp'[q] \in 0 .. MaxApp /\ got'[q] \in Seq(1 .. napp'[Other(q)])
  BY <1>1 DEF Once
<1>4. QED BY <1>1, <1>2, <1>3 DEF Once

(* Receiving spends the number of the record, which was not spent before   *)
(* (but for the plaintext phase of datagrams).                             *)
LEMMA Consumed ==
    ASSUME IInv, NEW p \in Peers, NEW m \in net[p], Arrives(p, m), Consume(p, m)
    PROVE  /\ DOMAIN inseqno' = Peers /\ DOMAIN seen' = Peers
           /\ inseqno'[Other(p)] = inseqno[Other(p)] /\ seen'[Other(p)] = seen[Other(p)]
           /\ inseqno'[p] \in 0 .. outseqno[Other(p)]
           /\ seen'[p] \subseteq 0 .. outseqno[Other(p)] - 1
           /\ \A n \in Nat : Read(p, n) => Read(p, n)'
           /\ Read(p, m.seqno)' /\ m.seqno \in Nat
           /\ ~Plain(p) => ~Read(p, m.seqno)
           /\ Framing = "stream" => m.seqno = inseqno[p] /\ inseqno'[p] = inseqno[p] + 1
<1> DEFINE o == Other(p)
           a == IF Framing = "stream" \/ Plain(p) THEN inseqno[p] + 1 ELSE inseqno[p]
           b == IF Framing = "datagram" THEN seen[p] \cup {m.seqno} ELSE seen[p]
<1>1. /\ o \in Peers /\ o # p /\ DOMAIN inseqno = Peers /\ DOMAIN seen = Peers
      /\ inseqno[p] \in 0 .. outseqno[o] /\ seen[p] \subseteq 0 .. outseqno[o] - 1
      /\ outseqno[o] \in Nat /\ m.seqno \in Nat /\ m.seqno < outseqno[o]
  BY PeerFacts DEF IInv, Doms, Numbers, MsgOK
<1>2. inseqno' = [inseqno EXCEPT ![p] = a] /\ seen' = [seen EXCEPT ![p] = b]
  BY DEF Consume
<1>3. a \in 0 .. outseqno[o] /\ b \subseteq 0 .. outseqno[o] - 1 /\ a >= inseqno[p]
  BY <1>1 DEF Arrives
<1>4. Framing = "stream" => m.seqno = inseqno[p] /\ a = inseqno[p] + 1
  BY DEF Arrives
<1>5. Framing # "stream" => m.seqno \in b /\ seen[p] \subseteq b
  BY SptpsAssumption
<1> HIDE DEF a, b
<1>6. /\ DOMAIN inseqno' = Peers /\ DOMAIN seen' = Peers /\ inseqno'[o] = inseqno[o]
      /\ seen'[o] = seen[o] /\ inseqno'[p] = a /\ seen'[p] = b
  BY <1>1, <1>2
<1>7. ASSUME NEW n \in Nat, Read(p, n) PROVE Read(p, n)'
  BY <1>1, <1>3, <1>5, <1>6, <1>7 DEF Read
<1>8. Read(p, m.seqno)'
  BY <1>1, <1>4, <1>5, <1>6 DEF Read
<1>9. ~Plain(p) => ~Read(p, m.seqno)
  BY <1>1, SptpsAssumption DEF Arrives, Read
<1>10. QED BY <1>1, <1>3, <1>4, <1>6, <1>7, <1>8, <1>9

LEMMA Here ==
    ASSUME IInv, NEW p \in Peers
    PROVE  /\ Doms /\ EndOK(p) /\ Numbers(p) /\ Once(p) /\ Behind(p)
           /\ Other(p) \in Peers /\ Other(p) # p /\ Other(Other(p)) = p /\ p \in {"I", "R"}
           /\ st[p] \in States /\ nkex[p] \in Gens /\ nkex[p] \in Nat /\ nkex[p] >= 1 /\ nkex[p] <= MaxKex
           /\ outseqno[p] \in Nat /\ napp[p] \in Nat /\ MaxKex \in Nat /\ MaxApp \in Nat
<1>1. Doms /\ EndOK(p) /\ Numbers(p) /\ Once(p) /\ Behind(p)
  BY DEF IInv
<1>2. nkex[p] \in Gens /\ st[p] \in States /\ MaxKex \in Nat /\ MaxApp \in Nat
  BY <1>1, SptpsAssumption DEF EndOK
<1>3. outseqno[p] \in Nat /\ napp[p] \in Nat
  BY <1>1, <1>2 DEF Numbers, Once
<1>4. QED BY <1>1, <1>2, <1>3, PeerFacts DEF Gens

-----------------------------------------------------------------------------
(* What the order of the records on a stream depends on. *)

(* p takes record m and nothing else. *)
Takes(p, m) ==
    \A k \in Gens, j \in 0 .. 2 : Real(k, j) => (At(p, k, j + 1)' <=> At(p, k, j + 1) \/ Is(p, m, k, j))

(* p sends D: the records of handshake n, where it is now, that it had not *)
(* sent yet, in order.                                                     *)
Adds(p, n, D) ==
    LET o == Other(p) IN
    /\ net'[o] = net[o] \cup D
    /\ \A z \in D : /\ z.seqno \in Nat /\ z.seqno >= outseqno[p]
                    /\ \E j \in 0 .. 2 : Is(o, z, n, j) /\ ~At(p, n, SentAt(p, j))
    /\ \A z, y \in D : z.seqno = y.seqno => z = y
    /\ \A z, y \in D, j, i \in 0 .. 2 : Is(o, z, n, j) /\ Is(o, y, n, i) =>
          /\ j < i => z.seqno < y.seqno
          /\ j = i => z = y
    /\ \A j \in 0 .. 2 : /\ Real(n, j) /\ ~At(p, n, SentAt(p, j)) /\ At(p, n, SentAt(p, j))'
                         => \E z \in D : Is(o, z, n, j)

(* p moves in handshake n only. *)
Ahead(p, n) ==
    \A k \in Gens, i \in 0 .. 3 : /\ At(p, k, i) => At(p, k, i)'
                                  /\ k # n /\ At(p, k, i)' => At(p, k, i)

Sends(p) ==
    /\ Frame(p) /\ napp' = napp /\ UNCHANGED <<st[Other(p)], nkex[Other(p)]>>
    /\ \E n \in Gens : Ahead(p, n) /\ \E D : Adds(p, n, D)

LEMMA MovesAhead ==
    ASSUME IInv, NEW p \in Peers, NEW s \in States, NEW n \in Gens, Move(p, s, n),
           st' = [st EXCEPT ![p] = s], nkex' = [nkex EXCEPT ![p] = n], kexmode' = kexmode
    PROVE  Ahead(p, n) /\ UNCHANGED <<st[Other(p)], nkex[Other(p)]>>
<1>1. /\ st'[p] = s /\ nkex'[p] = n
      /\ st'[Other(p)] = st[Other(p)] /\ nkex'[Other(p)] = nkex[Other(p)]
      /\ \A k \in Gens, i \in 0 .. 3 : At(p, k, i) => At(p, k, i)'
  BY Moved
<1>2. ASSUME NEW k \in Gens, NEW i \in 0 .. 3, k # n, At(p, k, i)' PROVE At(p, k, i)
  <2>1. k \in Nat /\ n \in Nat /\ nkex[p] \in Nat
    BY Here DEF Gens
  <2>2. n > k
    BY <1>1, <1>2, <2>1 DEF At
  <2>3. n = nkex[p] \/ (n = nkex[p] + 1 /\ st[p] = "SecondaryKex")
    BY DEF Move
  <2>4. nkex[p] > k \/ (nkex[p] = k /\ st[p] = "SecondaryKex")
    BY <2>1, <2>2, <2>3
  <2>5. QED BY <2>4, Ranks DEF At
<1>3. QED BY <1>1, <1>2 DEF Ahead

(* Record e of handshake n, and no other, is what takes p to state s. *)
Fits(p, m, s, n, e) ==
    /\ Is(p, m, n, e)
    /\ \A i \in 0 .. 2 : i < e => At(p, n, i + 1)
    /\ Rank(s) >= e + 1
    /\ \A i \in 0 .. 2 : Real(n, i) /\ i > e => Rank(s) < i + 1

LEMMA TakesIt ==
    ASSUME IInv, NEW p \in Peers, NEW s \in States, NEW n \in Gens, Move(p, s, n),
           st' = [st EXCEPT ![p] = s], nkex' = [nkex EXCEPT ![p] = n], kexmode' = kexmode,
           NEW m, NEW e \in 0 .. 2, Fits(p, m, s, n, e)
    PROVE  Takes(p, m)
<1> SUFFICES ASSUME NEW k \in Gens, NEW j \in 0 .. 2, Real(k, j)
             PROVE  At(p, k, j + 1)' <=> At(p, k, j + 1) \/ Is(p, m, k, j)
  BY DEF Takes
<1>1. Ahead(p, n)
  BY MovesAhead
<1>2. st'[p] = s /\ nkex'[p] = n /\ n \in Nat /\ Rank(s) \in Nat /\ j + 1 \in 0 .. 3
  BY Here, RankType DEF Doms, Gens
<1>3. Is(p, m, k, j) <=> k = n /\ j = e
  BY IsUnique DEF Fits
<1>4. CASE k # n
  BY <1>1, <1>2, <1>3, <1>4 DEF Ahead
<1>5. CASE k = n
  <2>1. At(p, k, j + 1)' <=> Rank(s) >= j + 1
    BY <1>2, <1>5 DEF At
  <2>2. At(p, k, j + 1) => At(p, k, j + 1)'
    BY <1>1, <1>2 DEF Ahead
  <2>3. CASE j < e
    BY <1>5, <2>2, <2>3 DEF Fits
  <2>4. CASE j = e
    BY <1>3, <1>5, <2>1, <2>4 DEF Fits
  <2>5. CASE j > e
    <3>1. ~At(p, k, j + 1)'
      BY <1>2, <1>5, <2>1, <2>5 DEF Fits
    <3>2. QED BY <1>3, <2>2, <2>5, <3>1
  <2>6. QED BY <2>3, <2>4, <2>5
<1>6. QED BY <1>4, <1>5

(* Record j, then record i, each of them perhaps. *)
Part(p, n, A, j) ==
    \A z \in A : /\ z.seqno \in Nat /\ z.seqno >= outseqno[p] /\ Is(Other(p), z, n, j)
                 /\ ~At(p, n, SentAt(p, j)) /\ \A y \in A : y = z

Parts(p, n, A, j, B, i) ==
    /\ net'[Other(p)] = net[Other(p)] \cup (A \cup B)
    /\ \A z \in A, y \in B : z.seqno < y.seqno
    /\ \A e \in 0 .. 2 : Real(n, e) /\ ~At(p, n, SentAt(p, e)) /\ At(p, n, SentAt(p, e))'
                         => (e = j /\ A # {}) \/ (e = i /\ B # {})

LEMMA AddsTwo ==
    ASSUME NEW p \in Peers, NEW n \in Gens, NEW A, NEW B, NEW j \in 0 .. 2, NEW i \in 0 .. 2, j < i,
           Part(p, n, A, j), Part(p, n, B, i), Parts(p, n, A, j, B, i)
    PROVE  \E D : Adds(p, n, D)
<1> PICK o, D : o = Other(p) /\ D = A \cup B
  OBVIOUS
<1>1. o \in Peers
  BY PeerFacts
<1>2. ASSUME NEW z \in D, NEW e \in 0 .. 2, Is(o, z, n, e)
      PROVE  (e = j /\ z \in A) \/ (e = i /\ z \in B)
  <2>1. CASE z \in A
    <3>1. Is(o, z, n, j)
      BY <2>1 DEF Part
    <3>2. e = j
      BY <1>1, <1>2, <3>1, IsUnique
    <3>3. QED BY <2>1, <3>2
  <2>2. CASE z \in B
    <3>1. Is(o, z, n, i)
      BY <2>2 DEF Part
    <3>2. e = i
      BY <1>1, <1>2, <3>1, IsUnique
    <3>3. QED BY <2>2, <3>2
  <2>3. QED BY <2>1, <2>2
<1>3. net'[o] = net[o] \cup D
  BY DEF Parts
<1>4. \A z \in D : /\ z.seqno \in Nat /\ z.seqno >= outseqno[p]
                   /\ \E e \in 0 .. 2 : Is(o, z, n, e) /\ ~At(p, n, SentAt(p, e))
  BY DEF Part
<1>5. \A z, y \in D : z.seqno = y.seqno => z = y
  <2> SUFFICES ASSUME NEW z \in D, NEW y \in D, z.seqno = y.seqno PROVE z = y
    OBVIOUS
  <2>1. z.seqno \in Nat /\ y.seqno \in Nat
    BY <1>4
  <2>2. ~(z.seqno < y.seqno) /\ ~(y.seqno < z.seqno)
    BY <2>1
  <2>3. QED BY <2>2 DEF Part, Parts
<1>6. ASSUME NEW z \in D, NEW y \in D, NEW e \in 0 .. 2, NEW g \in 0 .. 2, Is(o, z, n, e), Is(o, y, n, g)
      PROVE  (e < g => z.seqno < y.seqno) /\ (e = g => z = y)
  <2>1. (e = j /\ z \in A) \/ (e = i /\ z \in B)
    BY <1>2, <1>6
  <2>2. (g = j /\ y \in A) \/ (g = i /\ y \in B)
    BY <1>2, <1>6
  <2>3. QED BY <2>1, <2>2 DEF Part, Parts
<1>7. ASSUME NEW e \in 0 .. 2, Real(n, e), ~At(p, n, SentAt(p, e)), At(p, n, SentAt(p, e))'
      PROVE  \E z \in D : Is(o, z, n, e)
  <2>1. CASE e = j /\ A # {}
    BY <2>1 DEF Part
  <2>2. CASE e = i /\ B # {}
    BY <2>2 DEF Part
  <2>3. QED BY <1>7, <2>1, <2>2 DEF Parts
<1>8. QED BY <1>3, <1>4, <1>5, <1>6, <1>7 DEF Adds

-----------------------------------------------------------------------------
(* The steps. *)

LEMMA StepForceKex ==
    ASSUME IInv, NEW p \in Peers, ForceKex(p)
    PROVE  IInv' /\ Sends(p)
<1> DEFINE o == Other(p)
           r == Rec(outcipher[p], "kex", NewKex(p))
<1> PICK g, n, x : g = nkex[p] /\ n = nkex[p] + 1 /\ x = New(outseqno[p], r)
  OBVIOUS
<1>1. /\ Doms /\ EndOK(p) /\ Numbers(p) /\ Once(p)
      /\ o \in Peers /\ o # p /\ Other(o) = p /\ g \in Nat /\ g >= 1 /\ outseqno[p] \in Nat
      /\ napp[p] \in Nat /\ MaxKex \in Nat
  BY Here
<1>2. st[p] = "SecondaryKex" /\ g < MaxKex
  BY DEF ForceKex
<1>3. n \in Gens /\ n \in Nat /\ n - 1 = g
  BY <1>1, <1>2 DEF Gens
<1>4. /\ DOMAIN outseqno' = Peers /\ DOMAIN net' = Peers
      /\ outseqno'[p] = outseqno[p] + 1 /\ outseqno'[o] = outseqno[o]
      /\ net'[o] = net[o] \cup {x} /\ net'[p] = net[p]
  <2>1. Emit(p, <<r>>)
    BY DEF ForceKex
  <2> HIDE DEF r
  <2>2. Batch(outseqno[p], <<r>>) = {x} /\ Len(<<r>>) = 1
    BY <1>1, Batches
  <2>3. QED BY <1>1, <2>1, <2>2, Emitted
<1>5. /\ st' = [st EXCEPT ![p] = "Kex"] /\ nkex' = [nkex EXCEPT ![p] = n]
      /\ mykex' = [mykex EXCEPT ![p] = <<p, n>>]
      /\ UNCHANGED <<kexmode, hiskex, key, incipher, outcipher, inseqno, seen, failed, napp, done, got>>
  BY DEF ForceKex, NewKex
<1>6. x.seqno = outseqno[p] /\ x.rec.cipher = outcipher[p] /\ x.rec.ty = "kex" /\ x.rec.body = <<p, n>>
  BY DEF New, Rec, NewKex
<1> HIDE DEF o, r
<1>7. Frame(p)
  BY <1>1, <1>4, <1>5 DEF Frame, Doms, o
<1>8. Move(p, "Kex", n)
  BY <1>2 DEF Move
<1>9. st'[p] = "Kex" /\ nkex'[p] = n /\ mykex'[p] = <<p, n>>
  BY <1>1, <1>5 DEF Doms
<1>10. outcipher[p] = Sealing(p, g) /\ incipher[p] = Opening(p, g) /\ hiskex[p] = None
       /\ key[p] = None /\ done[p] = g
  BY <1>1, <1>2 DEF EndOK, OutGen, InGen
<1>11. EndOK(p)'
  <2>1. OutGen(p)' = g /\ InGen(p)' = g
    BY <1>3, <1>9 DEF OutGen, InGen
  <2>2. done'[p] = n - 1
    BY <1>3, <1>5, <1>10
  <2>3. QED BY <1>3, <1>5, <1>9, <1>10, <2>1, <2>2 DEF EndOK, States
<1>12. Numbers(p)'
  <2>1. outseqno[p] >= 2 /\ At(p, 1, 3)
    BY <1>1, <1>2, Ranks DEF Numbers, At
  <2>2. Hybrid' => Read(p, 2)'
    BY <1>1, <1>5, <2>1 DEF Numbers, Hybrid, Read
  <2>3. n # 1 /\ outseqno'[p] \in Nat /\ outseqno'[p] >= 3
    BY <1>1, <1>3, <1>4, <2>1
  <2>4. inseqno'[p] \in 0 .. outseqno'[o] /\ seen'[p] \subseteq 0 .. outseqno'[o] - 1
    BY <1>1, <1>4, <1>5 DEF Numbers, o
  <2>5. QED BY <1>9, <2>2, <2>3, <2>4 DEF Numbers, o
<1>13. Once(p)' /\ Once(o)'
  <2>1. \A q \in Peers : \A m \in net[q] : Read(q, m.seqno) => Read(q, m.seqno)'
    BY <1>5 DEF Read
  <2>2. Once(p)'
    BY <1>4, <1>5, <2>1, OnceKept
  <2>3. Once(o)'
    BY <1>1, <1>4, <1>5, <1>6, <2>1, OnceKept
  <2>4. QED BY <2>2, <2>3
<1>14. MsgOK(o, x)'
  <2>1. Is(o, x, n, 0)
    BY <1>1, <1>3, <1>6, <1>10 DEF Is
  <2>2. At(p, n, SentAt(p, 0))'
    BY <1>9, Ranks DEF At, SentAt
  <2>3. Real(n, 0)'
    BY <1>3 DEF Real
  <2>4. x.seqno \in Nat /\ x.seqno < outseqno'[p]
    BY <1>1, <1>4, <1>6
  <2>5. QED BY <1>1, <1>3, <2>1, <2>2, <2>3, <2>4 DEF MsgOK
<1>15. outseqno'[p] \in Nat /\ outseqno'[p] >= outseqno[p] /\ napp'[p] \in Nat /\ napp'[p] >= napp[p]
  BY <1>1, <1>4, <1>5
<1>16. /\ \A z \in net'[Other(p)] : z \in net[Other(p)] \/ MsgOK(Other(p), z)'
       /\ net'[p] \subseteq net[p] /\ "Kex" \in States
  BY <1>4, <1>14 DEF o, States
<1>17. IInv'
  BY <1>3, <1>5, <1>7, <1>8, <1>11, <1>12, <1>13, <1>15, <1>16, StepOK DEF o
<1>18. Ahead(p, n) /\ UNCHANGED <<st[Other(p)], nkex[Other(p)]>>
  BY <1>3, <1>5, <1>8, <1>16, MovesAhead
<1>19. \E D : Adds(p, n, D)
  <2> PICK A, B : A = {x} /\ B = {}
    OBVIOUS
  <2>1. \A z \in A : /\ z.seqno \in Nat /\ z.seqno >= outseqno[p] /\ Is(Other(p), z, n, 0)
                     /\ ~At(p, n, SentAt(p, 0)) /\ \A y \in A : y = z
    <3>1. Is(o, x, n, 0)
      BY <1>1, <1>3, <1>6, <1>10 DEF Is
    <3>2. ~At(p, n, SentAt(p, 0))
      BY <1>1 DEF At
    <3>3. QED BY <1>1, <1>6, <3>1, <3>2 DEF o
  <2>2. net'[Other(p)] = net[Other(p)] \cup (A \cup B)
    BY <1>4 DEF o
  <2>3. \A e \in 0 .. 2 : At(p, n, SentAt(p, e))' => e = 0 /\ A # {}
    BY <1>9, Ranks DEF At, SentAt
  <2>4. Part(p, n, A, 0) /\ Part(p, n, B, 1)
    BY <2>1 DEF Part
  <2>5. Parts(p, n, A, 0, B, 1)
    BY <2>2, <2>3 DEF Parts
  <2>6. p \in Peers /\ n \in Gens /\ 0 \in 0 .. 2 /\ 1 \in 0 .. 2 /\ 0 < 1
    BY <1>3
  <2>7. QED BY ONLY <2>4, <2>5, <2>6, AddsTwo, Zenon
<1>20. QED BY <1>3, <1>5, <1>7, <1>17, <1>18, <1>19 DEF Sends

LEMMA StepSendApp ==
    ASSUME IInv, NEW p \in Peers, SendApp(p)
    PROVE  IInv'
<1> DEFINE o == Other(p)
           r == Rec(outcipher[p], "app", napp[p] + 1)
<1> PICK g, n, x : g = OutGen(p) /\ n = napp[p] + 1 /\ x = New(outseqno[p], r)
  OBVIOUS
<1>1. /\ Doms /\ EndOK(p) /\ Numbers(p) /\ Once(p)
      /\ o \in Peers /\ o # p /\ Other(o) = p /\ outseqno[p] \in Nat /\ st[p] \in States
      /\ nkex[p] \in Gens /\ nkex[p] \in Nat /\ nkex[p] >= 1 /\ nkex[p] <= MaxKex
      /\ napp[p] \in Nat /\ MaxKex \in Nat /\ MaxApp \in Nat
  BY Here
<1>2. outcipher[p] # None /\ napp[p] < MaxApp
  BY DEF SendApp, AppSendReady
<1>3. g \in Gens /\ outcipher[p] = Sealing(p, g)
  <2>1. g \in Nat /\ g <= MaxKex
    BY <1>1 DEF OutGen
  <2>2. outcipher[p] = Sealing(p, g)
    BY <1>1 DEF EndOK
  <2>3. g # 0
    BY <1>2, <2>1, <2>2, CipherNone
  <2>4. QED BY <1>1, <2>1, <2>2, <2>3 DEF Gens
<1>4. /\ DOMAIN outseqno' = Peers /\ DOMAIN net' = Peers
      /\ outseqno'[p] = outseqno[p] + 1 /\ outseqno'[o] = outseqno[o]
      /\ net'[o] = net[o] \cup {x} /\ net'[p] = net[p]
  <2>1. Emit(p, <<r>>)
    BY DEF SendApp
  <2> HIDE DEF r
  <2>2. Batch(outseqno[p], <<r>>) = {x} /\ Len(<<r>>) = 1
    BY <1>1, Batches
  <2>3. QED BY <1>1, <2>1, <2>2, Emitted
<1>5. /\ napp' = [napp EXCEPT ![p] = n]
      /\ UNCHANGED <<kexmode, st, mykex, hiskex, key, incipher, outcipher, inseqno, seen, failed,
                     nkex, done, got>>
  BY DEF SendApp, handshake
<1>6. x.seqno = outseqno[p] /\ x.rec.cipher = outcipher[p] /\ x.rec.ty = "app" /\ x.rec.body = n
  BY DEF New, Rec
<1> HIDE DEF o, r
<1>7. Frame(p)
  BY <1>1, <1>4, <1>5 DEF Frame, Doms, o
<1>8. /\ Move(p, st[p], nkex[p]) /\ st' = [st EXCEPT ![p] = st[p]]
      /\ nkex' = [nkex EXCEPT ![p] = nkex[p]]
  BY <1>1, <1>5 DEF Move, Doms
<1>9. napp'[p] = n /\ napp'[o] = napp[o] /\ n \in Nat /\ n \in 1 .. MaxApp
  BY <1>1, <1>2, <1>5 DEF Doms
<1>10. EndOK(p)'
  BY <1>1, <1>5 DEF EndOK, OutGen, InGen, Hybrid
<1>11. Numbers(p)'
  <2>1. ~(nkex[p] = 1 /\ Rank(st[p]) \in {0, 1})
    BY <1>1, <1>3, Ranks DEF OutGen, Gens, States
  <2>2. (Read(p, 2)' <=> Read(p, 2)) /\ (Hybrid' <=> Hybrid)
        /\ (At(p, 1, 3)' <=> At(p, 1, 3)) /\ (At(p, 1, 2)' <=> At(p, 1, 2))
    BY <1>5 DEF Read, Hybrid, At
  <2>3. outseqno'[p] \in Nat /\ outseqno'[p] >= outseqno[p]
    BY <1>1, <1>4
  <2>4. inseqno'[p] \in 0 .. outseqno'[o] /\ seen'[p] \subseteq 0 .. outseqno'[o] - 1
    BY <1>1, <1>4, <1>5 DEF Numbers, o
  <2>5. At(p, 1, 2) => outseqno'[p] >= 2
    BY <1>1, <2>3 DEF Numbers
  <2>6. nkex[p] >= 2 => outseqno'[p] >= 3
    BY <1>1, <2>3 DEF Numbers
  <2>7. Hybrid /\ At(p, 1, 3) => Read(p, 2)
    BY <1>1 DEF Numbers
  <2>8. QED BY <1>5, <2>1, <2>2, <2>3, <2>4, <2>5, <2>6, <2>7 DEF Numbers, o
<1>12. Once(p)'
  <2>1. \A m \in net[p] : Read(p, m.seqno) <=> Read(p, m.seqno)'
    BY <1>5 DEF Read
  <2>2. QED BY <1>1, <1>4, <1>5, <1>9, <2>1 DEF Once, o
<1>13. Once(o)'
  <2>1. Once(o)
    BY <1>1 DEF IInv
  <2>2. \A m \in net[o] : m.rec.ty = "app" => m.rec.body \in 1 .. napp[p]
    <3> SUFFICES ASSUME NEW m \in net[o], m.rec.ty = "app" PROVE m.rec.body \in 1 .. napp[p]
      OBVIOUS
    <3>1. MsgOK(o, m)
      BY <1>1 DEF IInv
    <3>2. QED BY <1>1, <3>1 DEF MsgOK, Is, IsApp
  <2>3. \A m \in net[o] : Read(o, m.seqno) <=> Read(o, m.seqno)'
    BY <1>5 DEF Read
  <2>4. got[o] \in Seq(1 .. napp[p]) /\ \A i \in 1 .. Len(got[o]) : got[o][i] \in 1 .. napp[p]
    BY <1>1, <2>1 DEF Once
  <2>5. got'[o] \in Seq(1 .. napp'[p])
    <3>1. (1 .. napp[p]) \subseteq (1 .. n)
      BY <1>1
    <3>2. QED BY <1>5, <1>9, <2>4, <3>1
  <2>6. \A i \in 1 .. Len(got[o]) : got[o][i] # n
    BY <1>1, <2>4
  <2>7. \A m \in net[o] : m.rec.ty = "app" => m.rec.body # n
    BY <1>1, <2>2
  <2>8. napp'[o] \in 0 .. MaxApp /\ \A i, j \in 1 .. Len(got'[o]) : got'[o][i] = got'[o][j] => i = j
    BY <1>5, <1>9, <2>1 DEF Once
  <2>9. ASSUME NEW m \in net'[o], m.rec.ty = "app", ~Read(o, m.seqno)', NEW i \in 1 .. Len(got'[o])
        PROVE  got'[o][i] # m.rec.body
    BY <1>4, <1>5, <1>6, <2>1, <2>3, <2>6, <2>9 DEF Once
  <2>10. ASSUME NEW m \in net'[o], m.rec.ty = "app",
                NEW z \in net'[o], z.rec.ty = "app", z.rec.body = m.rec.body
         PROVE  z.seqno = m.seqno
    BY <1>4, <1>6, <2>1, <2>7, <2>10 DEF Once
  <2>11. QED BY <1>1, <2>5, <2>8, <2>9, <2>10 DEF Once
<1>14. MsgOK(o, x)'
  <2>1. IsApp(o, x, g)'
    BY <1>1, <1>3, <1>6, <1>9 DEF IsApp
  <2>2. g <= OutGen(p)'
    BY <1>3, <1>5 DEF OutGen, Gens
  <2>3. x.seqno \in Nat /\ x.seqno < outseqno'[p]
    BY <1>1, <1>4, <1>6
  <2>4. QED BY <1>1, <1>3, <2>1, <2>2, <2>3 DEF MsgOK
<1>15. outseqno'[p] \in Nat /\ outseqno'[p] >= outseqno[p] /\ napp'[p] \in Nat /\ napp'[p] >= napp[p]
  BY <1>1, <1>4, <1>9
<1>16. /\ \A z \in net'[Other(p)] : z \in net[Other(p)] \/ MsgOK(Other(p), z)'
       /\ net'[p] \subseteq net[p]
  BY <1>4, <1>14 DEF o
<1>17. QED BY <1>1, <1>7, <1>8, <1>10, <1>11, <1>12, <1>13, <1>15, <1>16, StepOK DEF o

(* What the cipher of a record tells of it. *)
LEMMA Opened ==
    ASSUME IInv, NEW p \in Peers, NEW m \in net[p], Opens(p, m)
    PROVE  LET o == Other(p)
               k == InGen(p) + 1
           IN  /\ InGen(p) \in Nat /\ m.seqno \in Nat
               /\ m.rec.ty = "kex" => k \in Gens /\ m.rec.body = <<o, k>> /\ At(o, k, 0) /\ Is(p, m, k, 0)
               /\ m.rec.ty = "sig" =>
                     /\ k \in Gens /\ m.rec.body = Transcript(o, <<o, k>>, <<p, k>>)
                     /\ At(o, k, SentAt(o, 1)) /\ Is(p, m, k, 1)
               /\ m.rec.ty = "ack" =>
                     \/ k \in Gens /\ k >= 2 /\ m.seqno >= 3 /\ At(o, k, 2) /\ Is(p, m, k, 2)
                     \/ InGen(p) = 1 /\ Hybrid /\ m.seqno = 2 /\ At(o, 1, 2) /\ Is(p, m, 1, 2)
               /\ m.rec.ty = "app" => m.rec.body \in 1 .. napp[o]
<1> PICK o, h : o = Other(p) /\ h = InGen(p)
  OBVIOUS
<1>1. /\ EndOK(p) /\ o \in Peers /\ nkex[p] \in Nat /\ nkex[p] >= 1 /\ Other(o) = p /\ MsgOK(p, m)
      /\ o \in {"I", "R"} /\ MaxKex \in Nat
  BY Here, PeerFacts DEF IInv
<1>2. h \in Nat /\ m.rec.cipher = Opening(p, h) /\ m.seqno \in Nat
  BY <1>1 DEF InGen, EndOK, Opens, MsgOK
<1>0. ASSUME NEW e \in Nat, m.rec.cipher = Sealing(o, e) PROVE e = h
  <2>1. Sealing(o, e) = Opening(p, h) <=> e = h
    BY <1>2, CipherMatch
  <2>2. Sealing(o, e) = Opening(p, h)
    BY <1>0, <1>2
  <2>3. QED BY <2>1, <2>2
<1>3. ASSUME NEW k \in Gens, m.rec.cipher = Sealing(o, k - 1) PROVE k = h + 1
  <2>1. k - 1 \in Nat /\ k \in Nat
    BY <1>1 DEF Gens
  <2>2. k - 1 = h
    BY <1>0, <1>3, <2>1
  <2>3. QED BY <1>2, <2>1, <2>2
<1>4. m.rec.cipher = Sealing(o, 1) => h = 1
  BY <1>0
<1>5. CASE \E k \in Gens, j \in 0 .. 2 : Real(k, j) /\ Is(p, m, k, j) /\ At(o, k, SentAt(o, j))
  <2>1. PICK k \in Gens, j \in 0 .. 2 : Real(k, j) /\ Is(p, m, k, j) /\ At(o, k, SentAt(o, j))
    BY <1>5
  <2>2. CASE j = 0
    <3>1. /\ m.rec.ty = "kex" /\ m.rec.cipher = Sealing(o, k - 1) /\ m.rec.body = <<o, k>>
          /\ At(o, k, 0) /\ Is(p, m, k, 0)
      BY <2>1, <2>2 DEF Is, SentAt
    <3>2. k = h + 1
      BY <1>3, <3>1
    <3>3. QED BY <1>2, <3>1, <3>2
  <2>3. CASE j = 1
    <3>1. /\ m.rec.ty = "sig" /\ m.rec.cipher = Sealing(o, k - 1)
          /\ m.rec.body = Transcript(o, <<o, k>>, <<p, k>>) /\ At(o, k, SentAt(o, 1))
          /\ Is(p, m, k, 1)
      BY <2>1, <2>3 DEF Is
    <3>2. k = h + 1
      BY <1>3, <3>1
    <3>3. QED BY <1>2, <3>1, <3>2
  <2>4. CASE j = 2 /\ k >= 2
    <3>1. /\ m.rec.ty = "ack" /\ m.rec.cipher = Sealing(o, k - 1)
          /\ m.seqno >= 3 /\ At(o, k, 2) /\ Is(p, m, k, 2)
      BY <2>1, <2>4 DEF Is, SentAt
    <3>2. k = h + 1
      BY <1>3, <3>1
    <3>3. QED BY <1>2, <2>4, <3>1, <3>2
  <2>5. CASE j = 2 /\ k = 1
    BY <1>2, <1>4, <2>1, <2>5 DEF Is, SentAt, Real
  <2>6. QED BY <2>2, <2>3, <2>4, <2>5 DEF Gens
<1>6. CASE \E g \in Gens : IsApp(p, m, g)
  BY <1>2, <1>6 DEF IsApp
<1>7. QED BY <1>1, <1>5, <1>6 DEF MsgOK

LEMMA Fields ==
    \A c, a, t, b : LET z == New(c, Rec(a, t, b)) IN
        z.seqno = c /\ z.rec.cipher = a /\ z.rec.ty = t /\ z.rec.body = b
BY DEF New, Rec

(* A record other than data was taken and answered with others than data. *)
LEMMA Quiet ==
    ASSUME IInv, NEW p \in Peers, NEW m \in net[p], Arrives(p, m), Consume(p, m),
           net'[p] \subseteq net[p], \A x \in net'[Other(p)] : x \in net[Other(p)] \/ x.rec.ty # "app",
           got' = got, napp' = napp
    PROVE  Once(p)' /\ Once(Other(p))'
<1> PICK o : o = Other(p)
  OBVIOUS
<1>1. /\ o \in Peers /\ \A n \in Nat : Read(p, n) => Read(p, n)'
      /\ inseqno'[o] = inseqno[o] /\ seen'[o] = seen[o]
  BY PeerFacts, Consumed
<1>2. \A x \in net[p] : x.seqno \in Nat
  BY DEF IInv, MsgOK
<1>3. Once(p)'
  BY <1>1, <1>2, OnceKept
<1>4. \A x \in net[o] : Read(o, x.seqno) => Read(o, x.seqno)'
  BY <1>1 DEF Read
<1>5. Once(o)'
  BY <1>1, <1>4, OnceKept
<1>6. QED BY <1>3, <1>5

LEMMA StepReceiveKex ==
    ASSUME IInv, NEW p \in Peers, NEW m \in net[p], ReceiveKex(p, m)
    PROVE  IInv' /\ Sends(p) /\ Takes(p, m)
<1> DEFINE f == st[p] = "SecondaryKex"
           i == p = "I"
<1> PICK o, h, n, c : o = Other(p) /\ h = InGen(p) /\ n = h + 1 /\ c = outseqno[p]
  OBVIOUS
<1> PICK ra, rb : ra = Rec(outcipher[p], "kex", <<p, n>>)
                  /\ rb = Rec(outcipher[p], "sig", Transcript(p, <<p, n>>, <<o, n>>))
  OBVIOUS
<1> PICK A, B, recs : A = (IF f THEN <<ra>> ELSE <<>>) /\ B = (IF i THEN <<rb>> ELSE <<>>) /\ recs = A \o B
  OBVIOUS
<1>1. /\ Doms /\ EndOK(p) /\ Numbers(p)
      /\ o \in Peers /\ o # p /\ Other(o) = p /\ p \in {"I", "R"}
      /\ nkex[p] \in Nat /\ nkex[p] >= 1 /\ c \in Nat /\ napp[p] \in Nat
  BY Here
<1>2. Arrives(p, m) /\ Opens(p, m) /\ Consume(p, m) /\ m.rec.ty = "kex" /\ st[p] \in {"Kex", "SecondaryKex"}
  BY DEF ReceiveKex, KexOk
<1>3. h \in Nat /\ n \in Gens /\ m.rec.body = <<o, n>> /\ At(o, n, 0) /\ Is(p, m, n, 0)
  BY <1>2, Opened
<1>4. n \in Nat /\ n >= 1 /\ n - 1 = h /\ OutGen(p) = h /\ n = (IF f THEN nkex[p] + 1 ELSE nkex[p])
  BY <1>1, <1>2, <1>3 DEF InGen, OutGen
<1>5. /\ outcipher[p] = Sealing(p, h) /\ incipher[p] = Opening(p, h) /\ key[p] = None
      /\ ~f => mykex[p] = <<p, n>>
      /\ done[p] = h
  BY <1>1, <1>2, <1>4 DEF EndOK, InGen
<1>6. /\ mykex' = [mykex EXCEPT ![p] = <<p, n>>] /\ hiskex' = [hiskex EXCEPT ![p] = <<o, n>>]
      /\ nkex' = [nkex EXCEPT ![p] = n] /\ st' = [st EXCEPT ![p] = "Sig"]
      /\ UNCHANGED <<kexmode, key, incipher, outcipher, failed, napp, done, got>>
  <2>1. NewKex(p) = <<p, nkex[p] + 1>>
    BY DEF NewKex
  <2>2. CASE f
    BY <1>3, <1>4, <2>1, <2>2 DEF ReceiveKex
  <2>3. CASE ~f
    BY <1>3, <1>4, <1>5, <2>3 DEF ReceiveKex
  <2>4. QED BY <2>2, <2>3
<1>7. Answer(p, m, recs)
  <2>1. NewKex(p) = <<p, nkex[p] + 1>>
    BY DEF NewKex
  <2>2. CASE f
    BY <1>3, <1>4, <2>1, <2>2 DEF ReceiveKex
  <2>3. CASE ~f
    BY <1>3, <1>4, <1>5, <2>3 DEF ReceiveKex
  <2>4. QED BY <2>2, <2>3
<1> HIDE DEF f, i
<1>8. PICK d, D : d = Len(recs) /\ D = Batch(c, recs)
  OBVIOUS
<1>9. /\ f /\ i => D = {New(c, ra), New(c + 1, rb)} /\ d = 2
      /\ f /\ ~i => D = {New(c, ra)} /\ d = 1
      /\ ~f /\ i => D = {New(c, rb)} /\ d = 1
      /\ ~f /\ ~i => D = {} /\ d = 0
  <2>1. (f => A = <<ra>>) /\ (~f => A = <<>>) /\ (i => B = <<rb>>) /\ (~i => B = <<>>) /\ recs = A \o B
    OBVIOUS
  <2>2. /\ <<>> \o <<>> = <<>> /\ <<ra>> \o <<>> = <<ra>> /\ <<>> \o <<rb>> = <<rb>>
        /\ <<ra>> \o <<rb>> = <<ra, rb>>
    BY Joined
  <2>3. /\ Batch(c, <<>>) = {} /\ Len(<<>>) = 0
        /\ Batch(c, <<ra>>) = {New(c, ra)} /\ Len(<<ra>>) = 1
        /\ Batch(c, <<rb>>) = {New(c, rb)} /\ Len(<<rb>>) = 1
        /\ Batch(c, <<ra, rb>>) = {New(c, ra), New(c + 1, rb)} /\ Len(<<ra, rb>>) = 2
    <3>1. c \in Nat
      BY <1>1
    <3>2. /\ Batch(c, <<>>) = {} /\ Len(<<>>) = 0 /\ Batch(c, <<ra>>) = {New(c, ra)} /\ Len(<<ra>>) = 1
          /\ Batch(c, <<ra, rb>>) = {New(c, ra), New(c + 1, rb)} /\ Len(<<ra, rb>>) = 2
      BY ONLY <3>1, Batches
    <3>3. Batch(c, <<rb>>) = {New(c, rb)} /\ Len(<<rb>>) = 1
      BY ONLY <3>1, Batches
    <3>4. QED BY <3>2, <3>3
  <2>4. QED BY ONLY <1>8, <2>1, <2>2, <2>3, Zenon
<1>10. /\ DOMAIN outseqno' = Peers /\ DOMAIN net' = Peers /\ d \in Nat
       /\ outseqno'[p] = c + d /\ outseqno'[o] = outseqno[o]
       /\ net'[o] = net[o] \cup D /\ net'[p] \subseteq net[p]
  <2>1. d \in Nat
    BY <1>9
  <2>2. Doms /\ p \in Peers /\ o = Other(p) /\ c = outseqno[p]
    BY <1>1
  <2>3. QED BY ONLY <1>7, <1>8, <2>1, <2>2, Answered, Zenon
<1>11. ASSUME NEW z \in D
       PROVE  /\ z.seqno \in Nat /\ z.seqno < c + d /\ z.rec.cipher = outcipher[p]
              /\ \/ z.rec.ty = "kex" /\ z.rec.body = <<p, n>>
                 \/ i /\ z.rec.ty = "sig" /\ z.rec.body = Transcript(p, <<p, n>>, <<o, n>>)
  <2>1. \A e : LET y == New(e, ra) IN y.seqno = e /\ y.rec.cipher = outcipher[p]
                                      /\ y.rec.ty = "kex" /\ y.rec.body = <<p, n>>
    BY Fields
  <2>2. \A e : LET y == New(e, rb) IN
          y.seqno = e /\ y.rec.cipher = outcipher[p] /\ y.rec.ty = "sig"
          /\ y.rec.body = Transcript(p, <<p, n>>, <<o, n>>)
    BY Fields
  <2>3. CASE f /\ i
    BY <1>1, <1>9, <2>1, <2>2, <2>3
  <2>4. CASE f /\ ~i
    BY <1>1, <1>9, <2>1, <2>2, <2>4
  <2>5. CASE ~f /\ i
    BY <1>1, <1>9, <2>1, <2>2, <2>5
  <2>6. CASE ~f /\ ~i
    BY <1>9, <2>6
  <2>7. QED BY <2>3, <2>4, <2>5, <2>6
<1>12. /\ DOMAIN inseqno' = Peers /\ DOMAIN seen' = Peers
       /\ inseqno'[o] = inseqno[o] /\ seen'[o] = seen[o]
       /\ inseqno'[p] \in 0 .. outseqno[o] /\ seen'[p] \subseteq 0 .. outseqno[o] - 1
       /\ Read(p, 2) => Read(p, 2)'
  BY <1>2, Consumed
<1>13. Frame(p)
  BY <1>1, <1>6, <1>10, <1>12 DEF Frame, Doms
<1>14. Move(p, "Sig", n)
  BY <1>2, <1>3, <1>4 DEF Move, f
<1>15. st'[p] = "Sig" /\ nkex'[p] = n /\ mykex'[p] = <<p, n>> /\ hiskex'[p] = <<o, n>>
  BY <1>1, <1>6 DEF Doms
<1>16. EndOK(p)'
  <2>1. OutGen(p)' = h /\ InGen(p)' = h
    BY <1>4, <1>15 DEF OutGen, InGen
  <2>2. done'[p] = n - 1
    BY <1>4, <1>5, <1>6
  <2>3. QED BY <1>3, <1>5, <1>6, <1>15, <2>1, <2>2 DEF EndOK, States
<1>17. Numbers(p)'
  <2>1. outseqno'[p] \in Nat /\ outseqno'[p] >= c
    BY <1>1, <1>10
  <2>2. n = 1 => outseqno'[p] = IF p = "I" THEN 2 ELSE 1
    <3> SUFFICES ASSUME n = 1 PROVE outseqno'[p] = IF p = "I" THEN 2 ELSE 1
      OBVIOUS
    <3>1. ~f /\ nkex[p] = 1 /\ st[p] = "Kex"
      BY <1>1, <1>2, <1>4 DEF f
    <3>2. c = 1
      BY <1>1, <3>1, Ranks DEF Numbers
    <3>3. QED BY <1>9, <1>10, <3>1, <3>2 DEF i
  <2>3. n >= 2 => outseqno'[p] >= 3 /\ At(p, 1, 3)
    <3> SUFFICES ASSUME n >= 2 PROVE outseqno'[p] >= 3 /\ At(p, 1, 3)
      OBVIOUS
    <3>1. CASE ~f
      <4>1. nkex[p] >= 2
        BY <1>4, <3>1
      <4>2. c >= 3 /\ At(p, 1, 3)
        BY <1>1, <4>1 DEF Numbers, At
      <4>3. QED BY <1>1, <2>1, <4>2
    <3>2. CASE f
      <4>1. At(p, 1, 3) /\ At(p, 1, 2)
        BY <1>1, <3>2, Ranks DEF f, At
      <4>2. c >= 2 /\ d >= 1
        BY <1>1, <1>9, <3>2, <4>1 DEF Numbers
      <4>3. QED BY <1>1, <1>10, <4>1, <4>2
    <3>3. QED BY <3>1, <3>2
  <2>4. At(p, 1, 3)' \/ At(p, 1, 2)' => n >= 2
    BY <1>3, <1>4, <1>15, Ranks DEF At
  <2>5. Hybrid' /\ At(p, 1, 3)' => Read(p, 2)'
    BY <1>1, <1>6, <1>12, <2>3, <2>4 DEF Numbers, Hybrid
  <2>6. inseqno'[p] \in 0 .. outseqno'[o] /\ seen'[p] \subseteq 0 .. outseqno'[o] - 1
    BY <1>10, <1>12
  <2>7. QED BY <1>4, <1>15, <2>1, <2>2, <2>3, <2>4, <2>5, <2>6, Ranks DEF Numbers
<1>18. Once(p)' /\ Once(o)'
  <2>1. \A x \in net'[o] : x \in net[o] \/ x.rec.ty # "app"
    BY <1>10, <1>11
  <2>2. QED BY <1>2, <1>6, <1>10, <2>1, Quiet
<1>19. ASSUME NEW z \in D PROVE MsgOK(o, z)'
  <2>1. z.seqno \in Nat /\ z.seqno < outseqno'[p]
    BY <1>10, <1>11
  <2>2. CASE z.rec.ty = "kex" /\ z.rec.body = <<p, n>>
    <3>1. Is(o, z, n, 0)
      BY <1>1, <1>4, <1>5, <1>11, <2>2 DEF Is
    <3>2. At(p, n, SentAt(p, 0))'
      BY <1>15, Ranks DEF At, SentAt
    <3>3. Real(n, 0)'
      BY <1>3 DEF Real
    <3>4. QED BY <1>1, <1>3, <2>1, <3>1, <3>2, <3>3 DEF MsgOK
  <2>3. CASE i /\ z.rec.ty = "sig" /\ z.rec.body = Transcript(p, <<p, n>>, <<o, n>>)
    <3>1. Is(o, z, n, 1)
      BY <1>1, <1>4, <1>5, <1>11, <2>3 DEF Is
    <3>2. At(p, n, SentAt(p, 1))'
      BY <1>15, <2>3, Ranks DEF At, SentAt, i
    <3>3. Real(n, 1)'
      BY <1>3 DEF Real
    <3>4. QED BY <1>1, <1>3, <2>1, <3>1, <3>2, <3>3 DEF MsgOK
  <2>4. QED BY <1>11, <2>2, <2>3
<1>20. outseqno'[p] \in Nat /\ outseqno'[p] >= outseqno[p] /\ napp'[p] \in Nat /\ napp'[p] >= napp[p]
  BY <1>1, <1>6, <1>10
<1>21. /\ \A z \in net'[Other(p)] : z \in net[Other(p)] \/ MsgOK(Other(p), z)'
       /\ net'[p] \subseteq net[p] /\ "Sig" \in States
  BY <1>10, <1>19 DEF States
<1>22. IInv'
  BY <1>3, <1>6, <1>13, <1>14, <1>16, <1>17, <1>18, <1>20, <1>21, StepOK
<1>23. Ahead(p, n) /\ UNCHANGED <<st[Other(p)], nkex[Other(p)]>>
  BY <1>3, <1>6, <1>14, <1>21, MovesAhead
<1>24. \E E : Adds(p, n, E)
  <2> PICK x, y : x = New(c, ra) /\ y = New(IF f THEN c + 1 ELSE c, rb)
    OBVIOUS
  <2> PICK X, Y : X = (IF f THEN {x} ELSE {}) /\ Y = (IF i THEN {y} ELSE {})
    OBVIOUS
  <2>1. D = X \cup Y
    BY <1>9
  <2>2. /\ x.seqno = c /\ x.rec.cipher = outcipher[p] /\ x.rec.ty = "kex" /\ x.rec.body = <<p, n>>
        /\ y.seqno = (IF f THEN c + 1 ELSE c) /\ y.rec.cipher = outcipher[p] /\ y.rec.ty = "sig"
        /\ y.rec.body = Transcript(p, <<p, n>>, <<o, n>>)
    BY Fields
  <2>3. Is(o, x, n, 0) /\ Is(o, y, n, 1)
    BY <1>1, <1>4, <1>5, <2>2 DEF Is
  <2>4. f => ~At(p, n, SentAt(p, 0))
    BY <1>1, <1>4 DEF At
  <2>5. i => ~At(p, n, SentAt(p, 1))
    <3>1. Rank(st[p]) = 0 \/ nkex[p] < n
      BY <1>1, <1>2, <1>4, Ranks DEF f
    <3>2. QED BY <1>1, <1>4, <3>1 DEF At, SentAt, i
  <2>6. \A z \in X : /\ z.seqno \in Nat /\ z.seqno >= outseqno[p] /\ Is(Other(p), z, n, 0)
                     /\ ~At(p, n, SentAt(p, 0)) /\ \A u \in X : u = z
    BY <1>1, <2>2, <2>3, <2>4
  <2>7. \A z \in Y : /\ z.seqno \in Nat /\ z.seqno >= outseqno[p] /\ Is(Other(p), z, n, 1)
                     /\ ~At(p, n, SentAt(p, 1)) /\ \A u \in Y : u = z
    <3>1. CASE i
      <4>1. Y = {y} /\ ~At(p, n, SentAt(p, 1)) /\ Is(Other(p), y, n, 1)
        BY <2>3, <2>5, <3>1
      <4>2. y.seqno \in Nat /\ y.seqno >= outseqno[p]
        <5>1. y.seqno \in {c, c + 1}
          BY <2>2
        <5>2. c \in Nat /\ c = outseqno[p]
          BY <1>1
        <5>3. QED BY ONLY <5>1, <5>2
      <4>3. QED BY ONLY <4>1, <4>2, Zenon
    <3>2. CASE ~i
      BY <3>2
    <3>3. QED BY <3>1, <3>2
  <2>8. \A z \in X, u \in Y : z.seqno < u.seqno
    BY <1>1, <2>2
  <2>9. ASSUME NEW e \in 0 .. 2, ~At(p, n, SentAt(p, e)), At(p, n, SentAt(p, e))'
        PROVE  (e = 0 /\ X # {}) \/ (e = 1 /\ Y # {})
    <3>1. SentAt(p, e) <= 1
      BY <1>4, <1>15, <2>9, Ranks DEF At, SentAt
    <3>2. CASE e = 0
      <4>1. SentAt(p, e) = 0
        BY <3>2 DEF SentAt
      <4>2. ~At(p, n, 0)
        BY <2>9, <4>1
      <4>3. nkex[p] # n
        <5>1. Rank(st[p]) >= 0
          BY RankType
        <5>2. QED BY <4>2, <5>1 DEF At
      <4>4. f
        BY <1>4, <4>3
      <4>5. QED BY <3>2, <4>4
    <3>3. CASE e = 1
      BY <3>1, <3>3 DEF SentAt, i
    <3>4. CASE e = 2
      BY <3>1, <3>4 DEF SentAt
    <3>5. QED BY <3>2, <3>3, <3>4
  <2>10. net'[Other(p)] = net[Other(p)] \cup (X \cup Y)
    BY <1>10, <2>1
  <2>11. Part(p, n, X, 0) /\ Part(p, n, Y, 1)
    BY <2>6, <2>7 DEF Part
  <2>12. Parts(p, n, X, 0, Y, 1)
    BY <2>8, <2>9, <2>10 DEF Parts
  <2>13. p \in Peers /\ n \in Gens /\ 0 \in 0 .. 2 /\ 1 \in 0 .. 2 /\ 0 < 1
    BY <1>3
  <2>14. QED BY ONLY <2>11, <2>12, <2>13, AddsTwo, Zenon
<1>25. Takes(p, m)
  <2>1. Rank("Sig") >= 0 + 1 /\ \A e \in 0 .. 2 : e > 0 => Rank("Sig") < e + 1
    BY Ranks
  <2>2. Fits(p, m, "Sig", n, 0)
    BY <1>3, <2>1 DEF Fits
  <2>3. /\ IInv /\ p \in Peers /\ "Sig" \in States /\ n \in Gens /\ Move(p, "Sig", n)
        /\ st' = [st EXCEPT ![p] = "Sig"] /\ nkex' = [nkex EXCEPT ![p] = n] /\ kexmode' = kexmode
        /\ 0 \in 0 .. 2
    BY <1>3, <1>6, <1>14, <1>21
  <2>4. QED BY ONLY <2>2, <2>3, TakesIt, Zenon
<1>26. QED BY <1>3, <1>6, <1>13, <1>22, <1>23, <1>24, <1>25 DEF Sends

LEMMA StepReceiveSig ==
    ASSUME IInv, NEW p \in Peers, NEW m \in net[p], ReceiveSig(p, m)
    PROVE  IInv' /\ Sends(p) /\ Takes(p, m)
<1> DEFINE f == p = "R"
<1> PICK o, h, n, c, s : /\ o = Other(p) /\ h = InGen(p) /\ n = h + 1 /\ c = outseqno[p]
                         /\ s = IF h + 1 >= 2 THEN "Ack" ELSE IF Hybrid THEN "Confirm" ELSE "SecondaryKex"
  OBVIOUS
<1> DEFINE i == n >= 2 \/ Hybrid
<1> PICK ra, rb : /\ ra = Rec(outcipher[p], "sig", Transcript(p, <<p, n>>, <<o, n>>))
                  /\ rb = Rec(IF n >= 2 THEN outcipher[p] ELSE Sealing(p, n), "ack", None)
  OBVIOUS
<1> PICK A, B, recs : A = (IF f THEN <<ra>> ELSE <<>>) /\ B = (IF i THEN <<rb>> ELSE <<>>) /\ recs = A \o B
  OBVIOUS
<1>1. /\ Doms /\ EndOK(p) /\ Numbers(p)
      /\ o \in Peers /\ o # p /\ Other(o) = p /\ p \in {"I", "R"}
      /\ nkex[p] \in Nat /\ nkex[p] >= 1 /\ c \in Nat /\ napp[p] \in Nat
  BY Here
<1>2. Arrives(p, m) /\ Opens(p, m) /\ Consume(p, m) /\ m.rec.ty = "sig" /\ st[p] = "Sig"
  BY DEF ReceiveSig, SigOk
<1>3. h \in Nat /\ n \in Gens /\ At(o, n, SentAt(o, 1)) /\ Is(p, m, n, 1)
  BY <1>2, Opened
<1>4. n \in Nat /\ n >= 1 /\ n - 1 = h /\ OutGen(p) = h /\ n = nkex[p]
  BY <1>1, <1>2, <1>3 DEF InGen, OutGen
<1>5. /\ outcipher[p] = Sealing(p, h) /\ incipher[p] = Opening(p, h) /\ key[p] = None
      /\ mykex[p] = <<p, n>> /\ hiskex[p] = <<o, n>> /\ done[p] = h
  BY <1>1, <1>2, <1>4 DEF EndOK
<1>6. /\ outcipher[p] # None <=> n >= 2
      /\ Confirms(p) <=> n = 1 /\ Hybrid
      /\ Material(p, <<p, n>>, <<o, n>>) = Mat(n)
      /\ KeyHalf(p, Mat(n), TRUE) = Sealing(p, n) /\ KeyHalf(p, Mat(n), FALSE) = Opening(p, n)
  <2>1. outcipher[p] # None <=> n >= 2
    BY <1>3, <1>4, <1>5, CipherNone
  <2>2. Confirms(p) <=> n = 1 /\ Hybrid
    BY <1>4, <2>1 DEF Confirms, Hybrid
  <2>3. Material(p, <<p, n>>, <<o, n>>) = Mat(n)
    BY <1>1 DEF Material, Mat, Other
  <2>4. KeyHalf(p, Mat(n), TRUE) = Sealing(p, n) /\ KeyHalf(p, Mat(n), FALSE) = Opening(p, n)
    BY <1>4 DEF Sealing, Opening, KeyHalf
  <2>5. QED BY <2>1, <2>2, <2>3, <2>4
<1>7. /\ mykex' = [mykex EXCEPT ![p] = None] /\ hiskex' = [hiskex EXCEPT ![p] = None]
      /\ outcipher' = [outcipher EXCEPT ![p] = Sealing(p, n)]
      /\ key' = [key EXCEPT ![p] = IF n >= 2 THEN Mat(n) ELSE None]
      /\ incipher' = [incipher EXCEPT ![p] = IF n >= 2 THEN @ ELSE Opening(p, n)]
      /\ st' = [st EXCEPT ![p] = s]
      /\ done' = [done EXCEPT ![p] = IF i THEN @ ELSE @ + 1]
      /\ Answer(p, m, recs)
      /\ UNCHANGED <<kexmode, failed, nkex, napp, got>>
  <2>1. CASE n >= 2
    BY <1>5, <1>6, <2>1 DEF ReceiveSig
  <2>2. CASE n = 1 /\ Hybrid
    BY <1>5, <1>6, <2>2 DEF ReceiveSig
  <2>3. CASE n = 1 /\ ~Hybrid
    BY <1>5, <1>6, <2>3 DEF ReceiveSig
  <2>4. QED BY <1>4, <2>1, <2>2, <2>3
<1> HIDE DEF f, i
<1>8. PICK d, D : d = Len(recs) /\ D = Batch(c, recs)
  OBVIOUS
<1>9. /\ f /\ i => D = {New(c, ra), New(c + 1, rb)} /\ d = 2
      /\ f /\ ~i => D = {New(c, ra)} /\ d = 1
      /\ ~f /\ i => D = {New(c, rb)} /\ d = 1
      /\ ~f /\ ~i => D = {} /\ d = 0
  <2>1. (f => A = <<ra>>) /\ (~f => A = <<>>) /\ (i => B = <<rb>>) /\ (~i => B = <<>>) /\ recs = A \o B
    OBVIOUS
  <2>2. /\ <<>> \o <<>> = <<>> /\ <<ra>> \o <<>> = <<ra>> /\ <<>> \o <<rb>> = <<rb>>
        /\ <<ra>> \o <<rb>> = <<ra, rb>>
    BY Joined
  <2>3. /\ Batch(c, <<>>) = {} /\ Len(<<>>) = 0
        /\ Batch(c, <<ra>>) = {New(c, ra)} /\ Len(<<ra>>) = 1
        /\ Batch(c, <<rb>>) = {New(c, rb)} /\ Len(<<rb>>) = 1
        /\ Batch(c, <<ra, rb>>) = {New(c, ra), New(c + 1, rb)} /\ Len(<<ra, rb>>) = 2
    <3>1. c \in Nat
      BY <1>1
    <3>2. /\ Batch(c, <<>>) = {} /\ Len(<<>>) = 0 /\ Batch(c, <<ra>>) = {New(c, ra)} /\ Len(<<ra>>) = 1
          /\ Batch(c, <<ra, rb>>) = {New(c, ra), New(c + 1, rb)} /\ Len(<<ra, rb>>) = 2
      BY ONLY <3>1, Batches
    <3>3. Batch(c, <<rb>>) = {New(c, rb)} /\ Len(<<rb>>) = 1
      BY ONLY <3>1, Batches
    <3>4. QED BY <3>2, <3>3
  <2>4. QED BY ONLY <1>8, <2>1, <2>2, <2>3, Zenon
<1>10. /\ DOMAIN outseqno' = Peers /\ DOMAIN net' = Peers /\ d \in Nat
       /\ outseqno'[p] = c + d /\ outseqno'[o] = outseqno[o]
       /\ net'[o] = net[o] \cup D /\ net'[p] \subseteq net[p]
  <2>1. d \in Nat
    BY <1>9
  <2>2. Doms /\ p \in Peers /\ o = Other(p) /\ c = outseqno[p] /\ Answer(p, m, recs)
    BY <1>1, <1>7
  <2>3. QED BY ONLY <1>8, <2>1, <2>2, Answered, Zenon
<1>11. /\ n >= 2 => c >= 3 /\ i
       /\ n = 1 => c = (IF f THEN 1 ELSE 2) /\ (i <=> Hybrid)
  <2>1. n >= 2 => c >= 3 /\ i
    BY <1>1, <1>4 DEF Numbers, i
  <2>2. n = 1 => c = IF f THEN 1 ELSE 2
    BY <1>1, <1>2, <1>4, Ranks DEF Numbers, f
  <2>3. n = 1 => (i <=> Hybrid)
    BY DEF i
  <2>4. QED BY <2>1, <2>2, <2>3
<1>12. ASSUME NEW z \in D
       PROVE  /\ z.seqno \in Nat /\ z.seqno < c + d
              /\ \/ /\ f /\ z.rec.ty = "sig" /\ z.rec.body = Transcript(p, <<p, n>>, <<o, n>>)
                    /\ z.rec.cipher = outcipher[p]
                 \/ /\ i /\ z.rec.ty = "ack"
                    /\ n >= 2 => z.seqno >= 3 /\ z.rec.cipher = outcipher[p]
                    /\ n = 1 => z.seqno = 2 /\ z.rec.cipher = Sealing(p, n)
  <2>1. \A e : LET y == New(e, ra) IN
          y.seqno = e /\ y.rec.cipher = outcipher[p] /\ y.rec.ty = "sig"
          /\ y.rec.body = Transcript(p, <<p, n>>, <<o, n>>)
    BY Fields
  <2>2. \A e : LET y == New(e, rb) IN
          y.seqno = e /\ y.rec.ty = "ack" /\ y.rec.cipher = IF n >= 2 THEN outcipher[p] ELSE Sealing(p, n)
    BY Fields
  <2>3. CASE f /\ i
    <3>1. CASE z = New(c, ra)
      BY <1>1, <1>9, <2>1, <2>3, <3>1
    <3>2. CASE z = New(c + 1, rb)
      BY <1>1, <1>4, <1>9, <1>11, <2>2, <2>3, <3>2
    <3>3. QED BY <1>9, <2>3, <3>1, <3>2
  <2>4. CASE f /\ ~i
    BY <1>1, <1>9, <2>1, <2>4
  <2>5. CASE ~f /\ i
    BY <1>1, <1>4, <1>9, <1>11, <2>2, <2>5
  <2>6. CASE ~f /\ ~i
    BY <1>9, <2>6
  <2>7. QED BY <2>3, <2>4, <2>5, <2>6
<1>13. /\ DOMAIN inseqno' = Peers /\ DOMAIN seen' = Peers
       /\ inseqno'[o] = inseqno[o] /\ seen'[o] = seen[o]
       /\ inseqno'[p] \in 0 .. outseqno[o] /\ seen'[p] \subseteq 0 .. outseqno[o] - 1
       /\ Read(p, 2) => Read(p, 2)'
  BY <1>2, Consumed
<1>14. Frame(p)
  BY <1>1, <1>7, <1>10, <1>13 DEF Frame, Doms
<1>15. s \in States /\ Rank(s) \in {2, 3} /\ (Rank(s) = 3 => n = 1 /\ ~Hybrid)
  BY <1>4, Ranks DEF States
<1>16. Move(p, s, n) /\ nkex' = [nkex EXCEPT ![p] = n]
  BY <1>1, <1>2, <1>3, <1>4, <1>7 DEF Move, Doms
<1>17. /\ st'[p] = s /\ nkex'[p] = n /\ mykex'[p] = None /\ hiskex'[p] = None
       /\ outcipher'[p] = Sealing(p, n)
       /\ key'[p] = (IF n >= 2 THEN Mat(n) ELSE None)
       /\ incipher'[p] = (IF n >= 2 THEN Opening(p, h) ELSE Opening(p, n))
       /\ done'[p] = (IF i THEN h ELSE h + 1)
  BY <1>1, <1>4, <1>5, <1>7 DEF Doms
<1>18. EndOK(p)'
  <2>1. CASE n >= 2
    <3>1. s = "Ack" /\ i
      BY <2>1 DEF i
    <3>2. OutGen(p)' = n /\ InGen(p)' = h
      BY <1>4, <1>17, <3>1 DEF OutGen, InGen
    <3>3. QED BY <1>3, <1>4, <1>17, <2>1, <3>1, <3>2 DEF EndOK, States
  <2>2. CASE n = 1 /\ Hybrid
    <3>1. s = "Confirm" /\ i /\ Hybrid'
      BY <1>7, <2>2 DEF i, Hybrid
    <3>2. OutGen(p)' = n /\ InGen(p)' = n
      BY <1>4, <1>17, <3>1 DEF OutGen, InGen
    <3>3. QED BY <1>3, <1>4, <1>17, <2>2, <3>1, <3>2 DEF EndOK, States
  <2>3. CASE n = 1 /\ ~Hybrid
    <3>1. s = "SecondaryKex" /\ ~i
      BY <2>3 DEF i
    <3>2. OutGen(p)' = n /\ InGen(p)' = n
      BY <1>4, <1>17, <3>1 DEF OutGen, InGen
    <3>3. QED BY <1>3, <1>4, <1>17, <2>3, <3>1, <3>2 DEF EndOK, States
  <2>4. QED BY <1>4, <2>1, <2>2, <2>3
<1>19. Numbers(p)'
  <2>1. outseqno'[p] \in Nat /\ outseqno'[p] >= c
    BY <1>1, <1>10
  <2>2. outseqno'[p] >= 2 /\ (n >= 2 => outseqno'[p] >= 3)
    <3>1. CASE n >= 2
      BY <1>1, <1>11, <2>1, <3>1
    <3>2. CASE n = 1 /\ f
      <4>1. c = 1 /\ d >= 1
        BY <1>9, <1>11, <3>2
      <4>2. QED BY <1>1, <1>10, <3>2, <4>1
    <3>3. CASE n = 1 /\ ~f
      BY <1>1, <1>11, <2>1, <3>3
    <3>4. QED BY <1>4, <3>1, <3>2, <3>3
  <2>3. Hybrid' /\ At(p, 1, 3)' => Read(p, 2)'
    <3> SUFFICES ASSUME Hybrid, At(p, 1, 3)' PROVE Read(p, 2)'
      BY <1>7 DEF Hybrid
    <3>1. n >= 2
      BY <1>4, <1>15, <1>17 DEF At
    <3>2. At(p, 1, 3)
      BY <1>4, <3>1 DEF At
    <3>3. QED BY <1>1, <1>13, <3>2 DEF Numbers
  <2>4. inseqno'[p] \in 0 .. outseqno'[o] /\ seen'[p] \subseteq 0 .. outseqno'[o] - 1
    BY <1>10, <1>13
  <2>5. QED BY <1>4, <1>15, <1>17, <2>1, <2>2, <2>3, <2>4 DEF Numbers
<1>20. Once(p)' /\ Once(o)'
  <2>1. \A x \in net'[o] : x \in net[o] \/ x.rec.ty # "app"
    BY <1>10, <1>12
  <2>2. QED BY <1>2, <1>7, <1>10, <2>1, Quiet
<1>21. ASSUME NEW z \in D PROVE MsgOK(o, z)'
  <2>1. z.seqno \in Nat /\ z.seqno < outseqno'[p]
    BY <1>10, <1>12
  <2>2. CASE /\ f /\ z.rec.ty = "sig" /\ z.rec.body = Transcript(p, <<p, n>>, <<o, n>>)
             /\ z.rec.cipher = outcipher[p]
    <3>1. Is(o, z, n, 1)
      BY <1>1, <1>4, <1>5, <2>2 DEF Is
    <3>2. At(p, n, SentAt(p, 1))'
      BY <1>15, <1>17, <2>2 DEF At, SentAt, f
    <3>3. Real(n, 1)'
      BY <1>3 DEF Real
    <3>4. QED BY <1>1, <1>3, <2>1, <3>1, <3>2, <3>3 DEF MsgOK
  <2>3. CASE /\ i /\ z.rec.ty = "ack"
             /\ n >= 2 => z.seqno >= 3 /\ z.rec.cipher = outcipher[p]
             /\ n = 1 => z.seqno = 2 /\ z.rec.cipher = Sealing(p, n)
    <3>1. Is(o, z, n, 2)
      <4>1. CASE n >= 2
        BY <1>1, <1>4, <1>5, <2>3, <4>1 DEF Is
      <4>2. CASE n = 1
        BY <1>1, <1>4, <1>5, <2>3, <4>2 DEF Is
      <4>3. QED BY <1>4, <4>1, <4>2
    <3>2. At(p, n, SentAt(p, 2))'
      BY <1>15, <1>17 DEF At, SentAt
    <3>3. Real(n, 2)'
      BY <1>3, <1>7, <2>3 DEF Real, i, Hybrid
    <3>4. QED BY <1>1, <1>3, <2>1, <3>1, <3>2, <3>3 DEF MsgOK
  <2>4. QED BY <1>12, <2>2, <2>3
<1>22. outseqno'[p] \in Nat /\ outseqno'[p] >= outseqno[p] /\ napp'[p] \in Nat /\ napp'[p] >= napp[p]
  BY <1>1, <1>7, <1>10
<1>23. /\ \A z \in net'[Other(p)] : z \in net[Other(p)] \/ MsgOK(Other(p), z)'
       /\ net'[p] \subseteq net[p]
  BY <1>10, <1>21
<1>24. IInv'
  BY <1>3, <1>7, <1>14, <1>15, <1>16, <1>18, <1>19, <1>20, <1>22, <1>23, StepOK
<1>25. Ahead(p, n) /\ UNCHANGED <<st[Other(p)], nkex[Other(p)]>>
  BY <1>3, <1>7, <1>15, <1>16, MovesAhead
<1>26. \E E : Adds(p, n, E)
  <2> PICK x, y : x = New(c, ra) /\ y = New(IF f THEN c + 1 ELSE c, rb)
    OBVIOUS
  <2> PICK X, Y : X = (IF f THEN {x} ELSE {}) /\ Y = (IF i THEN {y} ELSE {})
    OBVIOUS
  <2>1. D = X \cup Y
    BY <1>9
  <2>2. /\ x.seqno = c /\ x.rec.cipher = outcipher[p] /\ x.rec.ty = "sig"
        /\ x.rec.body = Transcript(p, <<p, n>>, <<o, n>>)
        /\ y.seqno = (IF f THEN c + 1 ELSE c) /\ y.rec.ty = "ack"
        /\ y.rec.cipher = (IF n >= 2 THEN outcipher[p] ELSE Sealing(p, n))
    BY Fields
  <2>3. Is(o, x, n, 1)
    BY <1>1, <1>4, <1>5, <2>2 DEF Is
  <2>4. i => Is(o, y, n, 2)
    <3>1. CASE n >= 2
      <4>1. y.seqno >= 3
        BY <1>1, <1>11, <2>2, <3>1
      <4>2. QED BY <1>1, <1>4, <1>5, <2>2, <3>1, <4>1 DEF Is
    <3>2. CASE n = 1
      <4>1. y.seqno = 2
        BY <1>1, <1>11, <2>2, <3>2
      <4>2. QED BY <1>1, <1>4, <1>5, <2>2, <3>2, <4>1 DEF Is
    <3>3. QED BY <1>4, <3>1, <3>2
  <2>5. ~At(p, n, 2)
    BY <1>1, <1>2, <1>4, Ranks DEF At
  <2>6. (f => SentAt(p, 1) = 2) /\ (~f => SentAt(p, 1) = 1) /\ SentAt(p, 2) = 2 /\ SentAt(p, 0) = 0
    BY <1>1 DEF SentAt, f
  <2>7. \A z \in X : /\ z.seqno \in Nat /\ z.seqno >= outseqno[p] /\ Is(Other(p), z, n, 1)
                     /\ ~At(p, n, SentAt(p, 1)) /\ \A u \in X : u = z
    <3>1. CASE f
      <4>1. X = {x} /\ Is(Other(p), x, n, 1)
        BY <2>3, <3>1
      <4>2. x.seqno \in Nat /\ x.seqno >= outseqno[p]
        BY <1>1, <2>2
      <4>3. ~At(p, n, SentAt(p, 1))
        BY <2>5, <2>6, <3>1
      <4>4. QED BY ONLY <4>1, <4>2, <4>3, Zenon
    <3>2. CASE ~f
      BY <3>2
    <3>3. QED BY <3>1, <3>2
  <2>8. \A z \in Y : /\ z.seqno \in Nat /\ z.seqno >= outseqno[p] /\ Is(Other(p), z, n, 2)
                     /\ ~At(p, n, SentAt(p, 2)) /\ \A u \in Y : u = z
    BY <1>1, <2>2, <2>4, <2>5, <2>6
  <2>9. \A z \in X, u \in Y : z.seqno < u.seqno
    BY <1>1, <2>2
  <2>10. ASSUME NEW e \in 0 .. 2, Real(n, e), ~At(p, n, SentAt(p, e)), At(p, n, SentAt(p, e))'
         PROVE  (e = 1 /\ X # {}) \/ (e = 2 /\ Y # {})
    <3>1. At(p, n, 0) /\ At(p, n, 1)
      BY <1>1, <1>2, <1>4, Ranks DEF At
    <3>2. CASE e = 0
      BY <2>6, <2>10, <3>1, <3>2
    <3>3. CASE e = 1
      BY <2>6, <2>10, <3>1, <3>3
    <3>4. CASE e = 2
      BY <1>4, <2>10, <3>4 DEF Real, i
    <3>5. QED BY <3>2, <3>3, <3>4
  <2>11. net'[Other(p)] = net[Other(p)] \cup (X \cup Y)
    BY <1>10, <2>1
  <2>12. Part(p, n, X, 1) /\ Part(p, n, Y, 2)
    BY <2>7, <2>8 DEF Part
  <2>13. Parts(p, n, X, 1, Y, 2)
    BY <2>9, <2>10, <2>11 DEF Parts
  <2>14. p \in Peers /\ n \in Gens /\ 1 \in 0 .. 2 /\ 2 \in 0 .. 2 /\ 1 < 2
    BY <1>3
  <2>15. QED BY ONLY <2>12, <2>13, <2>14, AddsTwo, Zenon
<1>27. Takes(p, m)
  <2>1. Rank(s) >= 1 + 1
    BY <1>15
  <2>2. \A e \in 0 .. 2 : Real(n, e) /\ e > 1 => Rank(s) < e + 1
    BY <1>4, <1>15 DEF Real
  <2>3. \A e \in 0 .. 2 : e < 1 => At(p, n, e + 1)
    BY <1>1, <1>2, <1>4, Ranks DEF At
  <2>4. Fits(p, m, s, n, 1)
    BY <1>3, <2>1, <2>2, <2>3 DEF Fits
  <2>5. /\ IInv /\ p \in Peers /\ s \in States /\ n \in Gens /\ Move(p, s, n)
        /\ st' = [st EXCEPT ![p] = s] /\ nkex' = [nkex EXCEPT ![p] = n] /\ kexmode' = kexmode
        /\ 1 \in 0 .. 2
    <3>1. st' = [st EXCEPT ![p] = s] /\ kexmode' = kexmode
      BY <1>7
    <3>2. 1 \in 0 .. 2
      OBVIOUS
    <3>3. QED BY <1>3, <1>15, <1>16, <3>1, <3>2, Zenon
  <2>6. QED BY ONLY <2>4, <2>5, TakesIt, Zenon
<1>28. QED BY <1>3, <1>7, <1>14, <1>24, <1>25, <1>26, <1>27 DEF Sends

(* The steps that answer nothing. *)
LEMMA Answerless ==
    ASSUME IInv, NEW p \in Peers, NEW m, Answer(p, m, <<>>)
    PROVE  /\ DOMAIN outseqno' = Peers
           /\ outseqno'[p] = outseqno[p] /\ outseqno'[Other(p)] = outseqno[Other(p)]
           /\ DOMAIN net' = Peers /\ net'[Other(p)] = net[Other(p)]
           /\ net'[p] \subseteq net[p]
           /\ net'[p] = IF Framing = "stream" THEN net[p] \ {m} ELSE net[p]
<1> PICK o, recs : o = Other(p) /\ recs = <<>>
  OBVIOUS
<1>1. Doms /\ outseqno[p] \in Nat
  BY Here
<1>2. Batch(outseqno[p], recs) = {} /\ Len(recs) = 0
  BY <1>1, Batches
<1>3. /\ DOMAIN net' = Peers /\ outseqno'[p] = outseqno[p] + Len(recs)
      /\ DOMAIN outseqno' = Peers /\ outseqno'[o] = outseqno[o]
      /\ net'[o] = net[o] \cup Batch(outseqno[p], recs) /\ net'[p] \subseteq net[p]
      /\ net'[p] = IF Framing = "stream" THEN net[p] \ {m} ELSE net[p]
  <2>1. p \in Peers /\ Answer(p, m, recs) /\ o = Other(p)
    OBVIOUS
  <2>2. QED BY ONLY <1>1, <2>1, Answered, Zenon
<1>4. QED BY <1>1, <1>2, <1>3

LEMMA StepReceiveAck ==
    ASSUME IInv, NEW p \in Peers, NEW m \in net[p], ReceiveAck(p, m)
    PROVE  IInv' /\ Sends(p) /\ Takes(p, m)
<1> PICK o, h, n : o = Other(p) /\ h = InGen(p) /\ n = h + 1
  OBVIOUS
<1>1. /\ Doms /\ EndOK(p) /\ Numbers(p)
      /\ o \in Peers /\ o # p /\ Other(o) = p /\ p \in {"I", "R"}
      /\ nkex[p] \in Nat /\ nkex[p] >= 1 /\ outseqno[p] \in Nat /\ napp[p] \in Nat
  BY Here
<1>2. Arrives(p, m) /\ Opens(p, m) /\ Consume(p, m) /\ m.rec.ty = "ack" /\ st[p] = "Ack"
  BY DEF ReceiveAck
<1>3. h \in Nat /\ nkex[p] >= 2 /\ nkex[p] = n /\ n - 1 = h /\ n \in Nat /\ OutGen(p) = n
  BY <1>1, <1>2 DEF EndOK, InGen, OutGen
<1>4. /\ outcipher[p] = Sealing(p, n) /\ incipher[p] = Opening(p, h) /\ key[p] = Mat(n)
      /\ mykex[p] = None /\ hiskex[p] = None /\ done[p] = h
  BY <1>1, <1>2, <1>3 DEF EndOK
<1>5. At(p, 1, 3)
  BY <1>3 DEF At
<1>6. n \in Gens /\ At(o, n, 2) /\ Is(p, m, n, 2)
  <2>1. \/ n \in Gens /\ At(o, n, 2) /\ Is(p, m, n, 2)
        \/ Hybrid /\ m.seqno = 2
    BY <1>2, <1>3, Opened
  <2>2. ~(Hybrid /\ m.seqno = 2)
    <3>1. ~Plain(p)
      BY <1>3, <1>4, CipherNone DEF Plain
    <3>2. ~Read(p, m.seqno)
      BY <1>2, <3>1, Consumed
    <3>3. QED BY <1>1, <1>5, <3>2 DEF Numbers
  <2>3. QED BY <2>1, <2>2
<1>7. /\ incipher' = [incipher EXCEPT ![p] = Opening(p, n)] /\ key' = [key EXCEPT ![p] = None]
      /\ st' = [st EXCEPT ![p] = "SecondaryKex"] /\ done' = [done EXCEPT ![p] = @ + 1]
      /\ UNCHANGED <<kexmode, mykex, hiskex, outcipher, failed, nkex, napp, got>>
  <2>1. KeyHalf(p, Mat(n), FALSE) = Opening(p, n)
    BY <1>3 DEF Opening, KeyHalf
  <2>2. QED BY <1>4, <2>1 DEF ReceiveAck
<1>8. /\ DOMAIN outseqno' = Peers /\ outseqno'[p] = outseqno[p] /\ outseqno'[o] = outseqno[o]
      /\ DOMAIN net' = Peers /\ net'[o] = net[o] /\ net'[p] \subseteq net[p]
  <2>1. Answer(p, m, <<>>)
    BY DEF ReceiveAck
  <2>2. QED BY <2>1, Answerless
<1>9. /\ DOMAIN inseqno' = Peers /\ DOMAIN seen' = Peers
      /\ inseqno'[o] = inseqno[o] /\ seen'[o] = seen[o]
      /\ inseqno'[p] \in 0 .. outseqno[o] /\ seen'[p] \subseteq 0 .. outseqno[o] - 1
      /\ Read(p, 2) => Read(p, 2)'
  BY <1>2, Consumed
<1>10. Frame(p)
  BY <1>1, <1>7, <1>8, <1>9 DEF Frame, Doms
<1>11. Move(p, "SecondaryKex", n) /\ nkex' = [nkex EXCEPT ![p] = n] /\ "SecondaryKex" \in States
  BY <1>1, <1>2, <1>3, <1>6, <1>7 DEF Move, Doms, States
<1>12. /\ st'[p] = "SecondaryKex" /\ nkex'[p] = n /\ incipher'[p] = Opening(p, n) /\ key'[p] = None
       /\ done'[p] = h + 1
  BY <1>1, <1>3, <1>4, <1>7 DEF Doms
<1>13. EndOK(p)'
  <2>1. OutGen(p)' = n /\ InGen(p)' = n
    BY <1>12 DEF OutGen, InGen
  <2>2. QED BY <1>3, <1>4, <1>6, <1>7, <1>12, <2>1 DEF EndOK, States
<1>14. Numbers(p)'
  <2>1. outseqno[p] >= 3 /\ (Hybrid => Read(p, 2))
    BY <1>1, <1>3, <1>5 DEF Numbers
  <2>2. Hybrid' => Read(p, 2)'
    BY <1>7, <1>9, <2>1 DEF Hybrid
  <2>3. QED BY <1>1, <1>3, <1>8, <1>9, <1>12, <2>1, <2>2 DEF Numbers
<1>15. Once(p)' /\ Once(o)'
  BY <1>2, <1>7, <1>8, Quiet
<1>16. outseqno'[p] \in Nat /\ outseqno'[p] >= outseqno[p] /\ napp'[p] \in Nat /\ napp'[p] >= napp[p]
  BY <1>1, <1>7, <1>8
<1>17. \A z \in net'[Other(p)] : z \in net[Other(p)] \/ MsgOK(Other(p), z)'
  BY <1>8
<1>18. IInv'
  BY <1>6, <1>7, <1>8, <1>10, <1>11, <1>13, <1>14, <1>15, <1>16, <1>17, StepOK
<1>19. Ahead(p, n) /\ UNCHANGED <<st[Other(p)], nkex[Other(p)]>>
  BY <1>6, <1>7, <1>11, MovesAhead
<1>20. Adds(p, n, {})
  <2>1. \A j \in 0 .. 2 : At(p, n, SentAt(p, j))
    BY <1>2, <1>3, Ranks DEF At, SentAt
  <2>2. QED BY <1>8, <2>1 DEF Adds
<1>21. Takes(p, m)
  <2>1. Fits(p, m, "SecondaryKex", n, 2)
    <3>1. \A e \in 0 .. 2 : e < 2 => At(p, n, e + 1)
      BY <1>2, <1>3, Ranks DEF At
    <3>2. QED BY <1>6, <3>1, Ranks DEF Fits
  <2>2. /\ IInv /\ p \in Peers /\ "SecondaryKex" \in States /\ n \in Gens /\ Move(p, "SecondaryKex", n)
        /\ st' = [st EXCEPT ![p] = "SecondaryKex"] /\ nkex' = [nkex EXCEPT ![p] = n]
        /\ kexmode' = kexmode /\ 2 \in 0 .. 2
    <3>1. st' = [st EXCEPT ![p] = "SecondaryKex"] /\ kexmode' = kexmode
      BY <1>7
    <3>2. 2 \in 0 .. 2
      OBVIOUS
    <3>3. QED BY <1>6, <1>7, <1>11, <3>1, <3>2, Zenon
  <2>3. QED BY ONLY <2>1, <2>2, TakesIt, Zenon
<1>22. QED BY <1>6, <1>7, <1>10, <1>18, <1>19, <1>20, <1>21 DEF Sends

LEMMA StepReceiveConfirm ==
    ASSUME IInv, NEW p \in Peers, NEW m \in net[p], ReceiveConfirm(p, m)
    PROVE  IInv' /\ Sends(p) /\ Takes(p, m)
<1> PICK o : o = Other(p)
  OBVIOUS
<1>1. /\ Doms /\ EndOK(p) /\ Numbers(p) /\ Behind(o)
      /\ o \in Peers /\ o # p /\ Other(o) = p /\ p \in {"I", "R"}
      /\ nkex[p] \in Nat /\ nkex[p] >= 1 /\ outseqno[p] \in Nat /\ napp[p] \in Nat
  BY Here
<1>2. Arrives(p, m) /\ Opens(p, m) /\ Consume(p, m) /\ m.rec.ty = "ack" /\ st[p] = "Confirm"
  BY DEF ReceiveConfirm
<1>3. nkex[p] = 1 /\ Hybrid /\ OutGen(p) = 1 /\ InGen(p) = 1 /\ 1 \in Gens
  BY <1>1, <1>2 DEF EndOK, InGen, OutGen
<1>4. m.seqno = 2 /\ At(o, 1, 2) /\ Is(p, m, 1, 2)
  <2>1. \/ 2 \in Gens /\ At(o, 2, 2)
        \/ m.seqno = 2 /\ At(o, 1, 2) /\ Is(p, m, 1, 2)
    <3>1. PICK n : n = InGen(p) + 1
      OBVIOUS
    <3>2. (n \in Gens /\ At(o, n, 2)) \/ (m.seqno = 2 /\ At(o, 1, 2) /\ Is(p, m, 1, 2))
      BY <1>2, <3>1, Opened
    <3>3. n = 2
      BY <1>3, <3>1
    <3>4. QED BY <3>2, <3>3
  <2>2. ASSUME 2 \in Gens, At(o, 2, 2) PROVE FALSE
    <3>1. nkex[o] \in Nat /\ Rank(st[o]) \in Nat
      BY <1>1, Here, RankType
    <3>2. At(o, 2, 0 + 1)
      BY <2>2, <3>1 DEF At
    <3>3. At(p, 2, SentAt(p, 0))
      BY <1>1, <2>2, <3>2 DEF Behind, Real
    <3>4. QED BY <1>3, <3>3 DEF At
  <2>3. QED BY <2>1, <2>2
<1>5. /\ st' = [st EXCEPT ![p] = "SecondaryKex"] /\ done' = [done EXCEPT ![p] = @ + 1]
      /\ UNCHANGED <<kexmode, mykex, hiskex, key, incipher, outcipher, failed, nkex, napp, got>>
  BY DEF ReceiveConfirm
<1>6. /\ DOMAIN outseqno' = Peers /\ outseqno'[p] = outseqno[p] /\ outseqno'[o] = outseqno[o]
      /\ DOMAIN net' = Peers /\ net'[o] = net[o] /\ net'[p] \subseteq net[p]
  <2>1. Answer(p, m, <<>>)
    BY DEF ReceiveConfirm
  <2>2. QED BY <2>1, Answerless
<1>7. /\ DOMAIN inseqno' = Peers /\ DOMAIN seen' = Peers
      /\ inseqno'[o] = inseqno[o] /\ seen'[o] = seen[o]
      /\ inseqno'[p] \in 0 .. outseqno[o] /\ seen'[p] \subseteq 0 .. outseqno[o] - 1
      /\ Read(p, m.seqno)'
  BY <1>2, Consumed
<1>8. Frame(p)
  BY <1>1, <1>5, <1>6, <1>7 DEF Frame, Doms
<1>9. Move(p, "SecondaryKex", 1) /\ nkex' = [nkex EXCEPT ![p] = 1] /\ "SecondaryKex" \in States
  BY <1>1, <1>2, <1>3, <1>4, <1>5 DEF Move, Doms, States
<1>10. st'[p] = "SecondaryKex" /\ nkex'[p] = 1 /\ done'[p] = 1 /\ done[p] = 0
  BY <1>1, <1>2, <1>3, <1>5 DEF Doms, EndOK
<1>11. EndOK(p)'
  <2>1. OutGen(p)' = 1 /\ InGen(p)' = 1
    BY <1>10 DEF OutGen, InGen
  <2>2. QED BY <1>1, <1>2, <1>3, <1>5, <1>10, <2>1 DEF EndOK, States
<1>12. Numbers(p)'
  <2>1. outseqno[p] >= 2
    BY <1>1, <1>2, <1>3, Ranks DEF Numbers, At
  <2>2. Read(p, 2)'
    BY <1>4, <1>7
  <2>3. QED BY <1>1, <1>6, <1>7, <1>10, <2>1, <2>2, Ranks DEF Numbers
<1>13. Once(p)' /\ Once(o)'
  BY <1>2, <1>5, <1>6, Quiet
<1>14. outseqno'[p] \in Nat /\ outseqno'[p] >= outseqno[p] /\ napp'[p] \in Nat /\ napp'[p] >= napp[p]
  BY <1>1, <1>5, <1>6
<1>15. \A z \in net'[Other(p)] : z \in net[Other(p)] \/ MsgOK(Other(p), z)'
  BY <1>6
<1>16. IInv'
  BY <1>3, <1>5, <1>6, <1>8, <1>9, <1>11, <1>12, <1>13, <1>14, <1>15, StepOK
<1>17. Ahead(p, 1) /\ UNCHANGED <<st[Other(p)], nkex[Other(p)]>>
  BY <1>3, <1>5, <1>9, MovesAhead
<1>18. Adds(p, 1, {})
  <2>1. \A j \in 0 .. 2 : At(p, 1, SentAt(p, j))
    BY <1>2, <1>3, Ranks DEF At, SentAt
  <2>2. QED BY <1>6, <2>1 DEF Adds
<1>19. Takes(p, m)
  <2>1. Fits(p, m, "SecondaryKex", 1, 2)
    <3>1. \A e \in 0 .. 2 : e < 2 => At(p, 1, e + 1)
      BY <1>2, <1>3, Ranks DEF At
    <3>2. QED BY <1>4, <3>1, Ranks DEF Fits
  <2>2. /\ IInv /\ p \in Peers /\ "SecondaryKex" \in States /\ 1 \in Gens /\ Move(p, "SecondaryKex", 1)
        /\ st' = [st EXCEPT ![p] = "SecondaryKex"] /\ nkex' = [nkex EXCEPT ![p] = 1]
        /\ kexmode' = kexmode /\ 2 \in 0 .. 2
    <3>1. st' = [st EXCEPT ![p] = "SecondaryKex"] /\ kexmode' = kexmode
      BY <1>5
    <3>2. 2 \in 0 .. 2
      OBVIOUS
    <3>3. QED BY <1>3, <1>5, <1>9, <3>1, <3>2, Zenon
  <2>3. QED BY ONLY <2>1, <2>2, TakesIt, Zenon
<1>20. QED BY <1>3, <1>5, <1>8, <1>16, <1>17, <1>18, <1>19 DEF Sends

(* A step that takes a record and changes neither the handshake nor KEXes. *)
LEMMA StepTaken ==
    ASSUME IInv, NEW p \in Peers, NEW m \in net[p], Arrives(p, m), Consume(p, m),
           Answer(p, m, <<>>), DOMAIN failed' = Peers, DOMAIN got' = Peers,
           got'[Other(p)] = got[Other(p)], Once(p)',
           UNCHANGED <<kexmode, st, mykex, hiskex, key, incipher, outcipher, nkex, napp, done>>
    PROVE  IInv' /\ Sends(p)
<1> PICK o : o = Other(p)
  OBVIOUS
<1>1. /\ Doms /\ EndOK(p) /\ Numbers(p)
      /\ o \in Peers /\ o # p /\ Other(o) = p /\ st[p] \in States
      /\ nkex[p] \in Gens /\ outseqno[p] \in Nat /\ napp[p] \in Nat
  BY Here
<1>2. /\ DOMAIN outseqno' = Peers /\ outseqno'[p] = outseqno[p] /\ outseqno'[o] = outseqno[o]
      /\ DOMAIN net' = Peers /\ net'[o] = net[o] /\ net'[p] \subseteq net[p]
  BY Answerless
<1>3. /\ DOMAIN inseqno' = Peers /\ DOMAIN seen' = Peers
      /\ inseqno'[o] = inseqno[o] /\ seen'[o] = seen[o]
      /\ inseqno'[p] \in 0 .. outseqno[o] /\ seen'[p] \subseteq 0 .. outseqno[o] - 1
      /\ Read(p, 2) => Read(p, 2)'
  BY Consumed
<1>4. Frame(p)
  BY <1>1, <1>2, <1>3 DEF Frame, Doms
<1>5. /\ Move(p, st[p], nkex[p]) /\ st' = [st EXCEPT ![p] = st[p]]
      /\ nkex' = [nkex EXCEPT ![p] = nkex[p]]
  BY <1>1 DEF Move, Doms
<1>6. EndOK(p)'
  BY <1>1 DEF EndOK, OutGen, InGen, Hybrid
<1>7. Numbers(p)'
  <2>1. /\ Hybrid' <=> Hybrid
        /\ At(p, 1, 3)' <=> At(p, 1, 3)
        /\ At(p, 1, 2)' <=> At(p, 1, 2)
    BY DEF Hybrid, At
  <2>2. QED BY <1>1, <1>2, <1>3, <2>1 DEF Numbers
<1>8. Once(o)'
  <2>1. \A x \in net[o] : Read(o, x.seqno) => Read(o, x.seqno)'
    BY <1>3 DEF Read
  <2>2. QED BY <1>1, <1>2, <2>1, OnceKept
<1>9. outseqno'[p] \in Nat /\ outseqno'[p] >= outseqno[p] /\ napp'[p] \in Nat /\ napp'[p] >= napp[p]
  BY <1>1, <1>2
<1>10. \A z \in net'[Other(p)] : z \in net[Other(p)] \/ MsgOK(Other(p), z)'
  BY <1>2
<1>11. IInv'
  BY <1>1, <1>2, <1>4, <1>5, <1>6, <1>7, <1>8, <1>9, <1>10, StepOK
<1>12. ASSUME NEW n \in Gens PROVE Ahead(p, n) /\ Adds(p, n, {})
  <2>1. \A k, i : At(p, k, i)' <=> At(p, k, i)
    BY DEF At
  <2>2. QED BY <1>2, <2>1 DEF Ahead, Adds
<1>13. QED BY <1>1, <1>4, <1>11, <1>12 DEF Sends

LEMMA StepReceiveApp ==
    ASSUME IInv, NEW p \in Peers, NEW m \in net[p], ReceiveApp(p, m)
    PROVE  IInv' /\ Sends(p) /\ Takes(p, m)
<1> PICK o, b, s : o = Other(p) /\ b = m.rec.body /\ s = got[p]
  OBVIOUS
<1>1. /\ Doms /\ Once(p) /\ o \in Peers /\ o # p
  BY Here
<1>2. /\ Arrives(p, m) /\ Opens(p, m) /\ Consume(p, m) /\ Answer(p, m, <<>>)
      /\ m.rec.ty = "app" /\ ~Plain(p)
      /\ got' = [got EXCEPT ![p] = Append(s, b)]
      /\ UNCHANGED <<kexmode, st, mykex, hiskex, key, incipher, outcipher, failed, nkex, napp, done>>
  BY DEF ReceiveApp, AppOk, handshake
<1>3. DOMAIN failed' = Peers /\ DOMAIN got' = Peers /\ got'[o] = got[o] /\ got'[p] = Append(s, b)
  BY <1>1, <1>2 DEF Doms
<1>4. b \in 1 .. napp[o]
  BY <1>2, Opened
<1>5. /\ Read(p, m.seqno)' /\ ~Read(p, m.seqno) /\ \A n \in Nat : Read(p, n) => Read(p, n)'
  BY <1>2, Consumed
<1>6. \A x \in net[p] : x.seqno \in Nat
  BY DEF IInv, MsgOK
<1>7. net'[p] \subseteq net[p]
  BY <1>2, Answerless
<1>8. /\ s \in Seq(1 .. napp[o]) /\ napp[p] \in 0 .. MaxApp
      /\ \A i, j \in 1 .. Len(s) : s[i] = s[j] => i = j
      /\ \A i \in 1 .. Len(s) : s[i] # b
  BY <1>1, <1>2, <1>5 DEF Once
<1>9. /\ Append(s, b) \in Seq(1 .. napp[o]) /\ Len(Append(s, b)) = Len(s) + 1 /\ Len(s) \in Nat
      /\ Append(s, b)[Len(s) + 1] = b
      /\ \A i \in 1 .. Len(s) : Append(s, b)[i] = s[i]
  BY <1>4, <1>8
<1>10. Once(p)'
  <2>1. \A i, j \in 1 .. Len(got'[p]) : got'[p][i] = got'[p][j] => i = j
    BY <1>3, <1>8, <1>9
  <2>2. ASSUME NEW x \in net'[p], x.rec.ty = "app", ~Read(p, x.seqno)',
               NEW i \in 1 .. Len(got'[p])
        PROVE  got'[p][i] # x.rec.body
    <3>1. x \in net[p] /\ ~Read(p, x.seqno)
      BY <1>5, <1>6, <1>7, <2>2
    <3>2. x.rec.body # b
      BY <1>1, <1>2, <1>5, <2>2, <3>1 DEF Once
    <3>3. CASE i \in 1 .. Len(s)
      BY <1>1, <1>3, <1>9, <2>2, <3>1, <3>3 DEF Once
    <3>4. CASE i = Len(s) + 1
      BY <1>3, <1>9, <3>2, <3>4
    <3>5. QED BY <1>3, <1>9, <3>3, <3>4
  <2>3. \A x, z \in net'[p] : x.rec.ty = "app" /\ z.rec.ty = "app" /\ z.rec.body = x.rec.body
                                => z.seqno = x.seqno
    BY <1>1, <1>7 DEF Once
  <2>4. napp'[p] \in 0 .. MaxApp /\ got'[p] \in Seq(1 .. napp'[o])
    BY <1>2, <1>3, <1>8, <1>9
  <2>5. QED BY <2>1, <2>2, <2>3, <2>4 DEF Once
<1>11. Takes(p, m)
  <2>1. \A k, j : (At(p, k, j)' <=> At(p, k, j)) /\ ~Is(p, m, k, j)
    BY <1>2 DEF At, Is
  <2>2. QED BY <2>1 DEF Takes
<1>12. QED BY <1>2, <1>3, <1>10, <1>11, StepTaken

LEMMA StepReceiveBad ==
    ASSUME IInv, NEW p \in Peers, NEW m \in net[p], ReceiveBad(p, m)
    PROVE  IInv'
<1>1. /\ Arrives(p, m) /\ Consume(p, m) /\ Answer(p, m, <<>>)
      /\ DOMAIN failed' = DOMAIN failed
      /\ UNCHANGED <<kexmode, st, mykex, hiskex, key, incipher, outcipher, nkex, napp, done, got>>
  BY DEF ReceiveBad, handshake, history
<1>2. DOMAIN failed' = Peers /\ DOMAIN got' = Peers
  BY <1>1 DEF IInv, Doms
<1>3. net'[p] \subseteq net[p] /\ net'[Other(p)] = net[Other(p)]
  BY <1>1, Answerless
<1>4. Once(p)'
  BY <1>1, <1>3, Quiet
<1>5. QED BY <1>1, <1>2, <1>4, StepTaken

LEMMA IInvStep == IInv /\ [Next]_vars => IInv'
<1> SUFFICES ASSUME IInv, [Next]_vars PROVE IInv'
  OBVIOUS
<1>1. CASE UNCHANGED vars
  <2>1. UNCHANGED <<kexmode, st, mykex, hiskex, key, incipher, outcipher, outseqno, inseqno, seen, net,
                    failed, nkex, napp, done, got>>
    BY <1>1 DEF vars, handshake, history
  <2>2. Doms'
    BY <2>1 DEF IInv, Doms
  <2>3. ASSUME NEW p \in Peers
        PROVE  /\ EndOK(p)' /\ Behind(p)' /\ Numbers(p)' /\ Once(p)'
               /\ \A m \in net[p] : MsgOK(p, m)'
    <3>1. EndOK(p) /\ Behind(p) /\ Numbers(p) /\ Once(p) /\ \A m \in net[p] : MsgOK(p, m)
      BY DEF IInv
    <3>2. EndOK(p)'
      BY <2>1, <3>1 DEF EndOK, OutGen, InGen, Hybrid
    <3>3. Behind(p)'
      BY <2>1, <3>1 DEF Behind, Real, Hybrid, At
    <3>4. Numbers(p)'
      BY <2>1, <3>1 DEF Numbers, Hybrid, At, Read
    <3>5. Once(p)'
      BY <2>1, <3>1 DEF Once, Read
    <3>6. \A m \in net[p] : MsgOK(p, m)'
      BY <2>1, <3>1 DEF MsgOK, IsApp, Real, Hybrid, At, OutGen
    <3>7. QED BY <3>2, <3>3, <3>4, <3>5, <3>6
  <2>4. QED BY <2>1, <2>2, <2>3 DEF IInv
<1>2. ASSUME NEW p \in Peers, ForceKex(p) PROVE IInv'
  BY <1>2, StepForceKex
<1>3. ASSUME NEW p \in Peers, SendApp(p) PROVE IInv'
  BY <1>3, StepSendApp
<1>4. ASSUME NEW p \in Peers, NEW m \in net[p], Receive(p, m) PROVE IInv'
  <2>1. CASE ReceiveKex(p, m)
    BY <2>1, StepReceiveKex
  <2>2. CASE ReceiveSig(p, m)
    BY <2>2, StepReceiveSig
  <2>3. CASE ReceiveAck(p, m)
    BY <2>3, StepReceiveAck
  <2>4. CASE ReceiveConfirm(p, m)
    BY <2>4, StepReceiveConfirm
  <2>5. CASE ReceiveApp(p, m)
    BY <2>5, StepReceiveApp
  <2>6. CASE ReceiveBad(p, m)
    BY <2>6, StepReceiveBad
  <2>7. QED BY <1>4, <2>1, <2>2, <2>3, <2>4, <2>5, <2>6 DEF Receive
<1>5. QED BY <1>1, <1>2, <1>3, <1>4 DEF Next

LEMMA IInvInit == Init => IInv
<1> SUFFICES ASSUME Init PROVE IInv
  OBVIOUS
<1>1. 1 \in Gens /\ 0 .. MaxApp \subseteq Nat /\ 0 \in 0 .. MaxApp
  BY SptpsAssumption DEF Gens
<1>2. Doms
  BY <1>1 DEF Init, Doms, States
<1>3. ASSUME NEW p \in Peers
      PROVE  EndOK(p) /\ Behind(p) /\ Numbers(p) /\ Once(p) /\ \A m \in net[p] : MsgOK(p, m)
  <2> PICK o, x : o = Other(p) /\ x = [seqno |-> 0, rec |-> Rec(None, "kex", <<Other(p), 1>>)]
    OBVIOUS
  <2>1. o \in Peers
    BY PeerFacts
  <2>2. /\ st[p] = "Kex" /\ nkex[p] = 1 /\ mykex[p] = <<p, 1>> /\ hiskex[p] = None /\ key[p] = None
        /\ incipher[p] = None /\ outcipher[p] = None /\ done[p] = 0 /\ napp[p] = 0 /\ got[p] = <<>>
        /\ outseqno[p] = 1 /\ inseqno[p] = 0 /\ seen[p] = {} /\ net[p] = {x}
        /\ st[o] = "Kex" /\ nkex[o] = 1 /\ outseqno[o] = 1 /\ napp[o] = 0
    BY <2>1 DEF Init
  <2>3. OutGen(p) = 0 /\ InGen(p) = 0
    BY <2>2 DEF OutGen, InGen
  <2>4. EndOK(p)
    BY <1>1, <2>2, <2>3 DEF EndOK, States, Sealing, Opening
  <2>5. Behind(p)
    <3>1. \A k \in Gens, j \in 0 .. 2 : ~At(p, k, j + 1)
      BY <2>2, Ranks DEF At, Gens
    <3>2. QED BY <3>1 DEF Behind
  <2>6. Numbers(p)
    BY <2>2, Ranks DEF Numbers, At
  <2>7. x.seqno = 0 /\ x.rec.cipher = None /\ x.rec.ty = "kex" /\ x.rec.body = <<o, 1>>
    BY DEF Rec
  <2>8. Once(p)
    BY <1>1, <2>2, <2>7 DEF Once
  <2>9. MsgOK(p, x)
    <3>1. Is(p, x, 1, 0)
      BY <2>7 DEF Is, Sealing
    <3>2. At(o, 1, SentAt(o, 0)) /\ Real(1, 0)
      BY <1>1, <2>2, Ranks DEF At, SentAt, Real
    <3>3. QED BY <1>1, <2>2, <2>7, <3>1, <3>2 DEF MsgOK
  <2>10. QED BY <2>2, <2>4, <2>5, <2>6, <2>8, <2>9
<1>4. QED BY <1>2, <1>3 DEF IInv

LEMMA IInvAlways == Spec => []IInv
BY IInvInit, IInvStep, PTL DEF Spec

-----------------------------------------------------------------------------
(* The results. *)

(* In every state of a session of any length the secrets, ciphers and      *)
(* counters of both ends have their types.                                 *)
THEOREM TypeCorrect == Spec => []TypeOK
<1>1. ASSUME IInv PROVE TypeOK
  <2>1. Doms /\ MaxKex \in Nat /\ MaxKex >= 1 /\ 0 \in Nat
    BY <1>1, SptpsAssumption DEF IInv
  <2>2. ASSUME NEW p \in Peers
        PROVE  /\ mykex[p] \in {None} \cup Kexes(p) /\ hiskex[p] \in {None} \cup Kexes(Other(p))
               /\ key[p] \in {None} \cup (Kexes("I") \X Kexes("R"))
               /\ incipher[p] \in Ciphers /\ outcipher[p] \in Ciphers
               /\ seen[p] \subseteq 0 .. outseqno[Other(p)] - 1 /\ inseqno[p] <= outseqno[Other(p)]
               /\ nkex[p] \in 1 .. MaxKex /\ napp[p] \in 0 .. MaxApp /\ done[p] \in Nat
    <3> PICK n : n = nkex[p]
      OBVIOUS
    <3>1. /\ EndOK(p) /\ Numbers(p) /\ Once(p) /\ n \in Nat /\ n >= 1 /\ n <= MaxKex /\ n \in Gens
          /\ Numbers(Other(p))
      BY <1>1, Here
    <3>2. <<p, n>> \in Kexes(p) /\ <<Other(p), n>> \in Kexes(Other(p)) /\ Mat(n) \in Kexes("I") \X Kexes("R")
      BY <3>1 DEF Kexes, Mat, Gens
    <3>3. mykex[p] \in {None} \cup Kexes(p) /\ hiskex[p] \in {None} \cup Kexes(Other(p))
      BY <3>1, <3>2 DEF EndOK
    <3>4. key[p] \in {None} \cup (Kexes("I") \X Kexes("R"))
      BY <3>1, <3>2 DEF EndOK
    <3>5. OutGen(p) \in Gens \cup {0} /\ InGen(p) \in Gens \cup {0}
      BY <2>1, <3>1 DEF OutGen, InGen, Gens
    <3>6. incipher[p] \in Ciphers /\ outcipher[p] \in Ciphers
      BY <3>1, <3>5, CipherType DEF EndOK
    <3>7. seen[p] \subseteq 0 .. outseqno[Other(p)] - 1 /\ inseqno[p] <= outseqno[Other(p)]
      BY <3>1 DEF Numbers
    <3>8. done[p] \in Nat
      BY <3>1 DEF EndOK
    <3>9. QED BY <3>1, <3>3, <3>4, <3>6, <3>7, <3>8 DEF Once, Gens
  <2>3. QED BY <2>1, <2>2 DEF TypeOK, Doms, States
<1>2. QED BY <1>1, IInvAlways, PTL

(* receive_sig, receive_ack and send_kex always find the secrets that they *)
(* expect, whatever the network repeats, loses or reorders.                *)
THEOREM NoPanicCorrect == Spec => []NoPanic
<1>1. ASSUME IInv PROVE NoPanic
  <2>1. ASSUME NEW p \in Peers
        PROVE  /\ st[p] = "Sig" => mykex[p] # None /\ hiskex[p] # None
               /\ st[p] = "Kex" => mykex[p] # None
               /\ st[p] = "Ack" => key[p] # None
               /\ st[p] = "SecondaryKex" => mykex[p] = None /\ hiskex[p] = None
    <3>1. EndOK(p)
      BY <1>1 DEF IInv
    <3>2. <<p, nkex[p]>> # None /\ <<Other(p), nkex[p]>> # None /\ Mat(nkex[p]) # None
      BY NotNone DEF Mat
    <3>3. QED BY <3>1, <3>2 DEF EndOK
  <2>2. QED BY <2>1 DEF NoPanic
<1>2. QED BY <1>1, IInvAlways, PTL

(* Ends that are both between handshakes have come to the same handshake.  *)
LEMMA SameHandshake ==
    ASSUME IInv, \A p \in Peers : st[p] = "SecondaryKex"
    PROVE  nkex["I"] = nkex["R"]
<1>1. \A p \in Peers : nkex[p] <= nkex[Other(p)]
  <2> SUFFICES ASSUME NEW p \in Peers PROVE nkex[p] <= nkex[Other(p)]
    OBVIOUS
  <2> PICK o, k : o = Other(p) /\ k = nkex[p]
    OBVIOUS
  <2>1. o \in Peers /\ Behind(p) /\ k \in Gens /\ k \in Nat /\ nkex[o] \in Nat
    BY Here
  <2>2. At(p, k, 0 + 1) /\ Real(k, 0)
    BY <2>1, Ranks DEF At, Real
  <2>3. At(o, k, SentAt(o, 0))
    BY <2>1, <2>2 DEF Behind
  <2>4. QED BY <2>1, <2>3 DEF At
<1>2. nkex["I"] \in Nat /\ nkex["R"] \in Nat
  BY Here DEF Peers
<1>3. QED BY <1>1, <1>2 DEF Peers, Other

(* Two ends that both believe no handshake is running hold each other's    *)
(* ciphers, and each seals and opens with different ones.                  *)
THEOREM AgreementCorrect == Spec => []Agreement
<1>1. ASSUME IInv PROVE Agreement
  <2> SUFFICES ASSUME \A p \in Peers : st[p] = "SecondaryKex", NEW p \in Peers
               PROVE  outcipher[p] = incipher[Other(p)] /\ outcipher[p] # incipher[p]
    BY DEF Agreement
  <2> PICK o, n : o = Other(p) /\ n = nkex[p]
    OBVIOUS
  <2>1. /\ o \in Peers /\ Other(o) = p /\ EndOK(p) /\ EndOK(o) /\ n \in Nat /\ n >= 1
    BY <1>1, Here
  <2>2. nkex[o] = n
    BY <1>1, SameHandshake DEF Peers, Other
  <2>3. outcipher[p] = Sealing(p, n) /\ incipher[p] = Opening(p, n) /\ incipher[o] = Opening(o, n)
    BY <2>1, <2>2 DEF EndOK, OutGen, InGen
  <2>4. Sealing(p, n) = Opening(o, n)
    BY <2>1, CipherMatch
  <2>5. Sealing(p, n) # Opening(p, n)
    BY <2>1, CipherHalves
  <2>6. QED BY <2>3, <2>4, <2>5
<1>2. QED BY <1>1, IInvAlways, PTL

(* Application data is handed over at most once however many rekeys cross  *)
(* it, and not before HandshakeDone.                                       *)
THEOREM AppDeliveryCorrect == Spec => []AppDelivery
<1> DEFINE Late == \A p \in Peers : got[p] # <<>> => done[p] > 0
<1>1. Init => Late
  BY DEF Init
<1>2. IInv /\ Late /\ [Next]_vars => Late'
  <2> SUFFICES ASSUME IInv, Late, [Next]_vars, NEW q \in Peers, got'[q] # <<>> PROVE done'[q] > 0
    OBVIOUS
  <2>1. /\ EndOK(q) /\ DOMAIN done = Peers /\ DOMAIN got = Peers /\ nkex[q] \in Nat /\ nkex[q] >= 1
    BY Here DEF Doms
  <2>2. done[q] \in Nat
    BY <2>1 DEF EndOK
  <2>3. done'[q] \in Nat /\ done'[q] >= done[q]
    <3>1. CASE UNCHANGED vars
      BY <2>2, <3>1 DEF vars, history
    <3>2. ASSUME NEW p \in Peers, ForceKex(p) \/ SendApp(p) PROVE done'[q] \in Nat /\ done'[q] >= done[q]
      BY <2>2, <3>2 DEF ForceKex, SendApp
    <3>3. ASSUME NEW p \in Peers, NEW m \in net[p], Receive(p, m) PROVE done'[q] \in Nat /\ done'[q] >= done[q]
      <4>1. CASE ReceiveKex(p, m) \/ ReceiveApp(p, m) \/ ReceiveBad(p, m)
        BY <2>2, <4>1 DEF ReceiveKex, ReceiveApp, ReceiveBad, history
      <4>2. CASE ReceiveSig(p, m) \/ ReceiveAck(p, m) \/ ReceiveConfirm(p, m)
        <5>1. \E d \in {done[p], done[p] + 1} : done' = [done EXCEPT ![p] = d]
          BY <4>2 DEF ReceiveSig, ReceiveAck, ReceiveConfirm
        <5>2. QED BY <2>1, <2>2, <5>1
      <4>3. QED BY <3>3, <4>1, <4>2 DEF Receive
    <3>4. QED BY <3>1, <3>2, <3>3 DEF Next
  <2>4. CASE got'[q] = got[q]
    BY <2>2, <2>3, <2>4
  <2>5. CASE got'[q] # got[q]
    <3>1. \E m \in net[q] : ReceiveApp(q, m)
      <4>1. ~UNCHANGED got
        BY <2>5
      <4>2. PICK p \in Peers : \E m \in net[p] : ReceiveApp(p, m)
        <5>1. /\ UNCHANGED vars => UNCHANGED got
              /\ \A p : ForceKex(p) \/ SendApp(p) => UNCHANGED got
          BY DEF vars, history, ForceKex, SendApp
        <5>2. \A p, m : /\ ReceiveKex(p, m) => UNCHANGED got
                        /\ ReceiveSig(p, m) => UNCHANGED got
                        /\ ReceiveAck(p, m) \/ ReceiveConfirm(p, m) \/ ReceiveBad(p, m) => UNCHANGED got
          <6> TAKE p, m
          <6>1. ReceiveKex(p, m) => UNCHANGED got
            BY DEF ReceiveKex
          <6>2. ReceiveSig(p, m) => UNCHANGED got
            BY DEF ReceiveSig
          <6>3. ReceiveAck(p, m) \/ ReceiveConfirm(p, m) \/ ReceiveBad(p, m) => UNCHANGED got
            BY DEF history, ReceiveAck, ReceiveConfirm, ReceiveBad
          <6>4. QED BY <6>1, <6>2, <6>3
        <5>3. \A p, m : Receive(p, m) => ReceiveApp(p, m) \/ UNCHANGED got
          BY <5>2 DEF Receive
        <5>4. QED BY <4>1, <5>1, <5>3 DEF Next
      <4>3. p = q
        BY <2>1, <2>5, <4>2 DEF ReceiveApp
      <4>4. QED BY <4>2, <4>3
    <3>2. incipher[q] # None /\ st[q] # "Confirm"
      BY <3>1 DEF ReceiveApp, AppOk, Plain
    <3>3. InGen(q) # 0
      BY <2>1, <3>2 DEF EndOK, Opening
    <3>4. done[q] > 0
      BY <2>1, <3>2, <3>3 DEF EndOK, InGen, States
    <3>5. QED BY <2>2, <2>3, <3>4
  <2>6. QED BY <2>4, <2>5
<1>3. IInv /\ Late => AppDelivery
  BY DEF AppDelivery, IInv, Once
<1> HIDE DEF Late
<1>4. QED BY <1>1, <1>2, <1>3, IInvAlways, PTL DEF Spec

(* An end reports the first hybrid handshake done only when the other end  *)
(* seals with the cipher that it opens with.                               *)
THEOREM ConfirmedCorrect == Spec => []Confirmed
<1>1. ASSUME IInv PROVE Confirmed
  <2> SUFFICES ASSUME NEW p \in Peers, Hybrid, done[p] = 1, nkex[p] = 1
               PROVE  outcipher[Other(p)] = incipher[p]
    BY DEF Confirmed, Hybrid
  <2> PICK o : o = Other(p)
    OBVIOUS
  <2>1. /\ o \in Peers /\ o # p /\ Other(o) = p /\ EndOK(p) /\ EndOK(o) /\ Behind(p) /\ Behind(o)
        /\ nkex[o] \in Nat /\ nkex[o] >= 1 /\ 1 \in Gens /\ nkex[o] \in Gens /\ MaxKex \in Nat
    BY <1>1, Here
  <2>2. st[p] = "SecondaryKex"
    BY <2>1 DEF EndOK
  <2>3. incipher[p] = Opening(p, 1)
    BY <2>1, <2>2 DEF EndOK, InGen
  <2>4. At(o, 1, 2)
    <3>1. At(p, 1, 2 + 1) /\ Real(1, 2)
      BY <2>1, <2>2, Ranks DEF At, Real
    <3>2. At(o, 1, SentAt(o, 2))
      BY <2>1, <3>1 DEF Behind
    <3>3. QED BY <3>2 DEF SentAt
  <2>5. OutGen(o) = 1
    <3>1. CASE nkex[o] = 1
      BY <2>1, <2>4, <3>1, Ranks DEF At, OutGen
    <3>2. CASE nkex[o] # 1
      <4>1. 2 \in Gens /\ nkex[o] >= 2
        BY <2>1, <3>2 DEF Gens
      <4>2. ~At(o, 2, 1)
        <5>1. ASSUME At(o, 2, 0 + 1) PROVE FALSE
          <6>1. At(p, 2, SentAt(p, 0))
            BY <2>1, <4>1, <5>1 DEF Behind, Real
          <6>2. QED BY <6>1 DEF At
        <5>2. QED BY <5>1
      <4>3. nkex[o] = 2 /\ Rank(st[o]) < 1
        BY <2>1, <4>1, <4>2, RankType DEF At
      <4>4. st[o] = "Kex"
        BY <4>3, RankType DEF Rank
      <4>5. QED BY <4>3, <4>4 DEF OutGen
    <3>3. QED BY <3>1, <3>2
  <2>6. Sealing(o, 1) = Opening(p, 1)
    BY <2>1, CipherMatch
  <2>7. QED BY <2>1, <2>3, <2>5, <2>6 DEF EndOK
<1>2. QED BY <1>1, IInvAlways, PTL

-----------------------------------------------------------------------------
(* On a stream no record is taken amiss. *)

(* The records of o are sent in the order of the handshakes. *)
LEMMA SentEarlier ==
    ASSUME IInv, NEW o \in Peers, NEW k \in Gens, NEW l \in Gens, NEW j \in 0 .. 2, NEW i \in 0 .. 2,
           At(o, k, SentAt(o, j)), Before(l, i, k, j)
    PROVE  At(o, l, SentAt(o, i))
<1>1. k \in Nat /\ l \in Nat /\ nkex[o] \in Nat /\ Rank(st[o]) \in Nat
  BY Here, RankType DEF Gens
<1>2. SentAt(o, j) \in Nat /\ SentAt(o, i) \in Nat /\ (i < j => SentAt(o, i) <= SentAt(o, j))
  BY DEF SentAt
<1>3. nkex[o] > k \/ (nkex[o] = k /\ Rank(st[o]) >= SentAt(o, j))
  BY DEF At
<1>4. CASE l < k
  <2>1. nkex[o] > l
    BY <1>1, <1>3, <1>4
  <2>2. QED BY <2>1 DEF At
<1>5. CASE l = k /\ i < j
  <2>1. nkex[o] > l \/ (nkex[o] = l /\ Rank(st[o]) >= SentAt(o, i))
    BY <1>1, <1>2, <1>3, <1>5
  <2>2. QED BY <2>1 DEF At
<1>6. QED BY <1>4, <1>5 DEF Before

(* p has taken all that was sent before the record at its read position.   *)
LEMMA FirstInLine ==
    ASSUME IInv, NEW p \in Peers, Flow(p), NEW m \in net[p], m.seqno = inseqno[p],
           NEW l \in Gens, NEW i \in 0 .. 2, Real(l, i),
           \/ \E k \in Gens, j \in 0 .. 2 : /\ Is(p, m, k, j) /\ At(Other(p), k, SentAt(Other(p), j))
                                            /\ Before(l, i, k, j)
           \/ \E g \in Gens : IsApp(p, m, g) /\ g <= OutGen(Other(p)) /\ l <= g
    PROVE  At(p, l, i + 1)
<1> PICK o : o = Other(p)
  OBVIOUS
<1>1. /\ o \in Peers /\ Queue(p) /\ Pending(p) /\ InOrder(p) /\ DataInOrder(p)
      /\ nkex[o] \in Nat /\ st[o] \in States
  BY Here DEF Flow
<1>2. \A x \in net[p] : x.seqno \in Nat
  BY DEF IInv, MsgOK
<1>3. inseqno[p] \in Nat
  BY <1>2
<1>4. ASSUME NEW x \in net[p], Is(p, x, l, i) PROVE FALSE
  <2>1. x.seqno < m.seqno
    BY <1>1, <1>4 DEF InOrder, DataInOrder
  <2>2. x.seqno >= m.seqno
    BY <1>1 DEF Queue
  <2>3. QED BY <1>2, <2>1, <2>2
<1>5. At(o, l, SentAt(o, i))
  <2>1. CASE \E k \in Gens, j \in 0 .. 2 : At(o, k, SentAt(o, j)) /\ Before(l, i, k, j)
    BY <1>1, <2>1, SentEarlier
  <2>2. CASE \E g \in Gens : g <= OutGen(o) /\ l <= g
    <3>1. PICK g \in Gens : g <= OutGen(o) /\ l <= g
      BY <2>2
    <3>2. g \in Nat /\ l \in Nat
      BY DEF Gens
    <3>3. nkex[o] > l \/ (nkex[o] = l /\ st[o] \notin {"Kex", "Sig"})
      BY <1>1, <3>1, <3>2 DEF OutGen
    <3>4. SentAt(o, i) \in 0 .. 2
      BY DEF SentAt
    <3>5. st[o] \notin {"Kex", "Sig"} => Rank(st[o]) >= SentAt(o, i)
      BY <3>4 DEF Rank
    <3>6. QED BY <3>3, <3>5 DEF At
  <2>3. QED BY <2>1, <2>2
<1>6. QED BY <1>1, <1>4, <1>5 DEF Pending

(* That record opens, and p is waiting for it. *)
LEMMA FirstFits ==
    ASSUME IInv, NEW p \in Peers, Flow(p), NEW m \in net[p], m.seqno = inseqno[p]
    PROVE  ~Misfit(p, m)
<1> PICK o, n : o = Other(p) /\ n = nkex[p]
  OBVIOUS
<1>1. /\ o \in Peers /\ EndOK(p) /\ MsgOK(p, m) /\ Pending(p) /\ DataInOrder(p)
      /\ n \in Nat /\ n >= 1 /\ n \in Gens /\ st[p] \in States /\ MaxKex \in Nat
  BY Here DEF IInv, Flow
<1>2. ASSUME NEW g \in Nat, m.rec.cipher = Sealing(o, g), InGen(p) = g PROVE Opens(p, m)
  <2>1. Sealing(o, g) = Opening(p, g)
    BY <1>1, CipherMatch
  <2>2. QED BY <1>1, <1>2, <2>1 DEF EndOK, Opens
<1>3. CASE \E k \in Gens, j \in 0 .. 2 : Real(k, j) /\ Is(p, m, k, j) /\ At(o, k, SentAt(o, j))
  <2>1. PICK k \in Gens, j \in 0 .. 2 : Real(k, j) /\ Is(p, m, k, j) /\ At(o, k, SentAt(o, j))
    BY <1>3
  <2>2. k \in Nat /\ k >= 1
    BY DEF Gens
  <2>3. ~At(p, k, j + 1)
    BY <1>1, <2>1 DEF Pending
  <2>4. \A l \in Gens, i \in 0 .. 2 : Real(l, i) /\ Before(l, i, k, j) => At(p, l, i + 1)
    BY <2>1, FirstInLine
  <2>5. CASE j = 0
    <3>1. m.rec.ty = "kex" /\ m.rec.cipher = Sealing(o, k - 1) /\ k - 1 \in Nat
      BY <2>1, <2>2, <2>5 DEF Is
    <3>2. n < k \/ (n = k /\ st[p] = "Kex")
      <4>1. ~At(p, k, 1)
        BY <2>3, <2>5
      <4>2. QED BY <1>1, <2>2, <4>1, Ranks DEF At, States
    <3>3. k >= 2 => n = k \/ (n = k - 1 /\ st[p] = "SecondaryKex")
      <4> SUFFICES ASSUME k >= 2 PROVE n = k \/ (n = k - 1 /\ st[p] = "SecondaryKex")
        OBVIOUS
      <4> PICK l : l = k - 1
        OBVIOUS
      <4>1. l \in Nat /\ l \in Gens /\ l < k
        BY <2>2, <1>1 DEF Gens
      <4>2. At(p, l, 1 + 1)
        BY <2>4, <4>1 DEF Before, Real
      <4>3. Real(l, 2) => At(p, l, 2 + 1)
        BY <2>4, <4>1 DEF Before
      <4>4. n >= l
        BY <1>1, <4>1, <4>2 DEF At
      <4>5. n = l => st[p] = "SecondaryKex"
        <5> SUFFICES ASSUME n = l PROVE st[p] = "SecondaryKex"
          OBVIOUS
        <5>1. Rank(st[p]) >= 2 /\ (l >= 2 \/ Hybrid => Rank(st[p]) >= 3)
          BY <1>1, <4>1, <4>2, <4>3 DEF At, Real
        <5>2. l = 1 /\ ~Hybrid => st[p] \notin {"Ack", "Confirm"}
          BY <1>1 DEF EndOK
        <5>3. l >= 2 \/ l = 1
          BY <4>1 DEF Gens
        <5>4. QED BY <1>1, <5>1, <5>2, <5>3, Ranks DEF States
      <4>6. QED BY <1>1, <2>2, <3>2, <4>1, <4>4, <4>5
    <3>4. InGen(p) = k - 1 /\ st[p] \in {"Kex", "SecondaryKex"}
      <4>1. CASE n = k
        BY <1>1, <2>2, <3>2, <4>1 DEF InGen
      <4>2. CASE n # k
        BY <1>1, <2>2, <3>2, <3>3, <4>2 DEF InGen
      <4>3. QED BY <4>1, <4>2
    <3>5. Opens(p, m) /\ KexOk(p, m)
      <4>1. PICK g : g = k - 1
        OBVIOUS
      <4>2. Opens(p, m)
        BY <1>2, <3>1, <3>4, <4>1
      <4>3. hiskex[p] = None
        BY <1>1, <3>4 DEF EndOK
      <4>4. QED BY <3>1, <3>4, <4>2, <4>3 DEF KexOk
    <3>6. QED BY <3>5 DEF Misfit
  <2>6. CASE j = 1
    <3>1. /\ m.rec.ty = "sig" /\ m.rec.cipher = Sealing(o, k - 1) /\ k - 1 \in Nat
          /\ m.rec.body = Transcript(o, <<o, k>>, <<p, k>>)
      BY <2>1, <2>2, <2>6 DEF Is
    <3>2. n = k /\ st[p] = "Sig"
      <4>1. At(p, k, 0 + 1)
        BY <2>4, <2>6 DEF Before, Real
      <4>2. ~At(p, k, 2)
        BY <2>3, <2>6
      <4>3. QED BY <1>1, <2>2, <4>1, <4>2, Ranks DEF At, States
    <3>3. InGen(p) = k - 1 /\ hiskex[p] = <<o, k>> /\ mykex[p] = <<p, k>>
      BY <1>1, <3>2 DEF InGen, EndOK
    <3>4. Opens(p, m) /\ SigOk(p, m)
      BY <1>2, <3>1, <3>2, <3>3 DEF SigOk
    <3>5. QED BY <3>4 DEF Misfit
  <2>7. CASE j = 2
    <3>1. n = k /\ st[p] \in {"Ack", "Confirm"}
      <4>1. At(p, k, 1 + 1)
        BY <2>4, <2>7 DEF Before, Real
      <4>2. ~At(p, k, 3)
        BY <2>3, <2>7
      <4>3. QED BY <1>1, <2>2, <4>1, <4>2, Ranks DEF At, States
    <3>2. m.rec.ty = "ack"
      BY <2>1, <2>7 DEF Is
    <3>3. Opens(p, m)
      <4>1. CASE k >= 2
        <5>1. InGen(p) = k - 1 /\ m.rec.cipher = Sealing(o, k - 1) /\ k - 1 \in Nat
          BY <1>1, <2>1, <2>2, <2>7, <3>1, <4>1 DEF Is, InGen, EndOK
        <5>2. QED BY <1>2, <5>1
      <4>2. CASE k = 1
        <5>1. InGen(p) = 1 /\ m.rec.cipher = Sealing(o, 1)
          BY <1>1, <2>1, <2>7, <3>1, <4>2 DEF Is, InGen, EndOK
        <5>2. QED BY <1>2, <5>1
      <4>3. QED BY <2>2, <4>1, <4>2
    <3>4. QED BY <3>1, <3>2, <3>3 DEF Misfit
  <2>8. QED BY <2>5, <2>6, <2>7
<1>4. CASE \E g \in Gens : IsApp(p, m, g) /\ g <= OutGen(o)
  <2>1. PICK g \in Gens : IsApp(p, m, g) /\ g <= OutGen(o)
    BY <1>4
  <2>2. g \in Nat /\ g >= 1 /\ m.rec.ty = "app" /\ m.rec.cipher = Sealing(o, g)
    BY <2>1 DEF Gens, IsApp
  <2>3. \A i \in 0 .. 2 : Real(g, i) => At(p, g, i + 1)
    BY <2>1, <2>2, FirstInLine
  <2>4. At(p, g, 3)
    <3>1. CASE Real(g, 2)
      BY <2>3, <3>1
    <3>2. CASE ~Real(g, 2)
      <4>1. g = 1 /\ ~Hybrid /\ At(p, g, 1 + 1)
        BY <2>2, <2>3, <3>2 DEF Real
      <4>2. n = 1 => st[p] \notin {"Ack", "Confirm"}
        BY <1>1, <4>1 DEF EndOK
      <4>3. QED BY <1>1, <2>2, <4>1, <4>2, Ranks DEF At, States
    <3>3. QED BY <3>1, <3>2
  <2>5. ~At(p, g + 1, 3)
    BY <1>1, <2>1 DEF DataInOrder
  <2>6. InGen(p) = g /\ st[p] # "Confirm"
    <3>1. CASE n = g
      <4>1. st[p] = "SecondaryKex"
        BY <1>1, <2>4, <3>1, Ranks DEF At, States
      <4>2. QED BY <3>1, <4>1 DEF InGen
    <3>2. CASE n # g
      <4>1. n = g + 1 /\ st[p] # "SecondaryKex"
        BY <1>1, <2>2, <2>4, <2>5, <3>2, Ranks DEF At
      <4>2. st[p] # "Confirm"
        BY <1>1, <2>2, <4>1 DEF EndOK
      <4>3. QED BY <1>1, <2>2, <4>1, <4>2 DEF InGen, States
    <3>3. QED BY <3>1, <3>2
  <2>7. Opens(p, m) /\ ~Plain(p)
    <3>1. Opens(p, m)
      BY <1>2, <2>2, <2>6
    <3>2. ~Plain(p)
      BY <1>1, <2>2, <2>6, CipherNone DEF Plain, EndOK
    <3>3. QED BY <3>1, <3>2
  <2>8. QED BY <2>2, <2>6, <2>7 DEF Misfit, AppOk
<1>5. QED BY <1>1, <1>3, <1>4 DEF MsgOK

LEMMA FlowIn ==
    ASSUME IInv, IInv', NEW p \in Peers, NEW m \in net[p], Flow(p), m.seqno = inseqno[p],
           inseqno'[p] = inseqno[p] + 1, net'[p] = net[p] \ {m}, kexmode' = kexmode,
           st'[Other(p)] = st[Other(p)], nkex'[Other(p)] = nkex[Other(p)],
           napp'[Other(p)] = napp[Other(p)], Takes(p, m)
    PROVE  Flow(p)'
<1> PICK o : o = Other(p)
  OBVIOUS
<1>1. /\ Queue(p) /\ Pending(p) /\ InOrder(p) /\ DataInOrder(p) /\ o \in Peers
      /\ nkex'[p] \in Gens /\ MaxKex \in Nat
  <2>1. nkex'[p] \in Gens
    BY DEF IInv, EndOK
  <2>2. QED BY <2>1, Here DEF Flow
<1>2. \A x \in net[p] : x.seqno \in Nat
  BY DEF IInv, MsgOK
<1>3. \A x \in net'[p] : x \in net[p] /\ x # m
  OBVIOUS
<1>4. /\ \A k, j : Real(k, j)' <=> Real(k, j)
      /\ \A k, j : At(o, k, j)' <=> At(o, k, j)
      /\ \A x, g : IsApp(p, x, g)' <=> IsApp(p, x, g)
  BY DEF Real, Hybrid, At, IsApp
<1>5. Queue(p)'
  <2>1. ASSUME NEW x \in net'[p] PROVE x.seqno >= inseqno'[p]
    <3>1. x.seqno >= inseqno[p] /\ x.seqno # m.seqno
      BY <1>1, <1>3 DEF Queue
    <3>2. QED BY <1>2, <1>3, <3>1
  <2>2. QED BY <1>1, <1>3, <2>1 DEF Queue
<1>6. ASSUME NEW k \in Gens, NEW j \in 0 .. 2, Real(k, j), At(o, k, SentAt(o, j))
      PROVE  At(p, k, j + 1)' <=> ~ \E x \in net'[p] : Is(p, x, k, j)
  <2>1. At(p, k, j + 1)' <=> At(p, k, j + 1) \/ Is(p, m, k, j)
    BY <1>6 DEF Takes
  <2>2. At(p, k, j + 1) <=> ~ \E x \in net[p] : Is(p, x, k, j)
    BY <1>1, <1>6 DEF Pending
  <2>3. CASE Is(p, m, k, j)
    <3>1. ASSUME NEW x \in net'[p], Is(p, x, k, j) PROVE FALSE
      BY <1>1, <1>3, <2>3, <3>1 DEF InOrder
    <3>2. QED BY <2>1, <2>3, <3>1
  <2>4. CASE ~Is(p, m, k, j)
    <3>1. (\E x \in net[p] : Is(p, x, k, j)) <=> (\E x \in net'[p] : Is(p, x, k, j))
      BY <2>4
    <3>2. QED BY <2>1, <2>2, <2>4, <3>1
  <2>5. QED BY <2>3, <2>4
<1>7. Pending(p)'
  <2> SUFFICES ASSUME NEW k \in Gens, NEW j \in 0 .. 2, Real(k, j)', At(o, k, SentAt(o, j))'
               PROVE  At(p, k, j + 1)' <=> ~ \E x \in net'[p] : Is(p, x, k, j)
    BY DEF Pending
  <2>1. QED BY <1>4, <1>6
<1>8. InOrder(p)'
  BY <1>1, <1>3 DEF InOrder
<1>9. ASSUME NEW x \in net'[p], NEW g \in Gens, IsApp(p, x, g), At(p, g + 1, 3)' PROVE FALSE
  <2> PICK k : k = g + 1
    OBVIOUS
  <2>1. g \in Nat /\ g >= 1 /\ k \in Nat /\ k >= 2
    BY <1>1 DEF Gens
  <2>2. k \in Gens
    <3>1. nkex'[p] >= k
      BY <1>1, <1>9, <2>1 DEF At, Gens
    <3>2. QED BY <1>1, <2>1, <3>1 DEF Gens
  <2>3. Real(k, 2)
    BY <2>1, <2>2 DEF Real
  <2>4. At(p, k, 2 + 1)' => At(p, k, 2 + 1) \/ Is(p, m, k, 2)
    BY <2>2, <2>3 DEF Takes
  <2>5. ~At(p, k, 3)
    BY <1>1, <1>3, <1>9 DEF DataInOrder
  <2>6. Is(p, m, k, 2)
    BY <1>9, <2>4, <2>5
  <2>7. x.seqno < m.seqno
    BY <1>1, <1>3, <1>9, <2>1, <2>2, <2>6 DEF DataInOrder
  <2>8. QED BY <1>1, <1>2, <1>3, <2>7 DEF Queue
<1>10. DataInOrder(p)'
  <2>1. \A x, y \in net'[p], g, k \in Gens, j \in 0 .. 2 : IsApp(p, x, g) /\ Is(p, y, k, j) =>
          /\ k <= g => y.seqno < x.seqno
          /\ k > g /\ j = 2 => x.seqno < y.seqno
    BY <1>1, <1>3 DEF DataInOrder
  <2>2. QED BY <1>4, <1>9, <2>1 DEF DataInOrder
<1>11. QED BY <1>5, <1>7, <1>8, <1>10 DEF Flow

LEMMA FlowOut ==
    ASSUME IInv, NEW p \in Peers, NEW n \in Gens, NEW D, Flow(Other(p)), Adds(p, n, D),
           inseqno'[Other(p)] = inseqno[Other(p)], kexmode' = kexmode, napp'[p] = napp[p],
           st'[Other(p)] = st[Other(p)], nkex'[Other(p)] = nkex[Other(p)],
           Ahead(p, n)
    PROVE  Flow(Other(p))'
<1> PICK o : o = Other(p)
  OBVIOUS
<1>1. /\ Queue(o) /\ Pending(o) /\ InOrder(o) /\ DataInOrder(o) /\ o \in Peers /\ Other(o) = p
      /\ outseqno[p] \in Nat /\ n \in Nat /\ Behind(o) /\ Numbers(o) /\ nkex[p] \in Nat /\ st[p] \in States
  BY Here DEF Flow, Gens
<1>2. \A x \in net[o] : x.seqno \in Nat /\ x.seqno < outseqno[p]
  BY <1>1 DEF IInv, MsgOK
<1>3. net'[o] = net[o] \cup D
  BY DEF Adds
<1>4. ASSUME NEW z \in D PROVE z.seqno \in Nat /\ z.seqno >= outseqno[p] /\ z \notin net[o]
  BY <1>1, <1>2, <1>4 DEF Adds
<1>5. /\ \A k, j : Real(k, j)' <=> Real(k, j)
      /\ \A k, j : At(o, k, j)' <=> At(o, k, j)
      /\ \A x, g : IsApp(o, x, g)' <=> IsApp(o, x, g)
  BY <1>1 DEF Real, Hybrid, At, IsApp
<1>6. ASSUME NEW x \in net[o], NEW k \in Gens, NEW j \in 0 .. 2, Is(o, x, k, j)
      PROVE  At(p, k, SentAt(p, j))
  <2>1. MsgOK(o, x)
    BY <1>1 DEF IInv
  <2>2. x.rec.ty # "app"
    BY <1>6 DEF Is
  <2>3. PICK l \in Gens, i \in 0 .. 2 : Is(o, x, l, i) /\ At(p, l, SentAt(p, i))
    BY <1>1, <2>1, <2>2 DEF MsgOK, IsApp
  <2>4. l = k /\ i = j
    BY <1>1, <1>6, <2>3, IsUnique
  <2>5. QED BY <2>3, <2>4
<1>7. ASSUME NEW z \in D, NEW k \in Gens, NEW j \in 0 .. 2, Is(o, z, k, j)
      PROVE  k = n /\ ~At(p, n, SentAt(p, j))
  <2>1. PICK i \in 0 .. 2 : Is(o, z, n, i) /\ ~At(p, n, SentAt(p, i))
    BY DEF Adds
  <2>2. k = n /\ j = i
    BY <1>1, <1>7, <2>1, IsUnique
  <2>3. QED BY <2>1, <2>2
<1>8. Queue(o)'
  <2>1. inseqno[o] \in Nat /\ inseqno[o] <= outseqno[p]
    BY <1>1 DEF Numbers
  <2>2. \A x \in net'[o] : x.seqno >= inseqno[o]
    BY <1>1, <1>2, <1>3, <1>4, <2>1 DEF Queue
  <2>3. ASSUME NEW x \in net'[o], NEW y \in net'[o], x.seqno = y.seqno PROVE x = y
    <3>1. CASE x \in net[o] /\ y \in net[o]
      BY <1>1, <2>3, <3>1 DEF Queue
    <3>2. CASE x \in D /\ y \in D
      BY <2>3, <3>2 DEF Adds
    <3>3. CASE (x \in net[o] /\ y \in D) \/ (x \in D /\ y \in net[o])
      BY <1>1, <1>2, <1>4, <2>3, <3>3
    <3>4. QED BY <1>3, <3>1, <3>2, <3>3
  <2>4. QED BY <2>2, <2>3 DEF Queue
<1>9. \A j \in 0 .. 2 : SentAt(p, j) \in 0 .. 3
  BY DEF SentAt
<1>10. ASSUME NEW k \in Gens, NEW j \in 0 .. 2, Real(k, j), At(p, k, SentAt(p, j))'
       PROVE  At(o, k, j + 1) <=> ~ \E x \in net'[o] : Is(o, x, k, j)
  <2>1. CASE At(p, k, SentAt(p, j))
    <3>1. At(o, k, j + 1) <=> ~ \E x \in net[o] : Is(o, x, k, j)
      BY <1>1, <1>10, <2>1 DEF Pending
    <3>2. \A z \in D : ~Is(o, z, k, j)
      BY <1>7, <2>1
    <3>3. QED BY <1>3, <3>1, <3>2
  <2>2. CASE ~At(p, k, SentAt(p, j))
    <3>1. k = n
      BY <1>9, <1>10, <2>2 DEF Ahead
    <3>2. \E z \in D : Is(o, z, k, j)
      BY <1>10, <2>2, <3>1 DEF Adds
    <3>3. ~At(o, k, j + 1)
      BY <1>1, <1>10, <2>2 DEF Behind
    <3>4. QED BY <1>3, <3>2, <3>3
  <2>3. QED BY <2>1, <2>2
<1>11. Pending(o)'
  <2> SUFFICES ASSUME NEW k \in Gens, NEW j \in 0 .. 2, Real(k, j)', At(p, k, SentAt(p, j))'
               PROVE  At(o, k, j + 1)' <=> ~ \E x \in net'[o] : Is(o, x, k, j)
    BY <1>1 DEF Pending
  <2>1. QED BY <1>5, <1>10
<1>12. ASSUME NEW x \in net'[o], NEW y \in net'[o], NEW k \in Gens, NEW l \in Gens,
              NEW j \in 0 .. 2, NEW i \in 0 .. 2, Is(o, x, k, j), Is(o, y, l, i)
       PROVE  /\ Before(k, j, l, i) => x.seqno < y.seqno
              /\ k = l /\ j = i => x = y
  <2>1. CASE x \in net[o] /\ y \in net[o]
    BY <1>1, <1>12, <2>1 DEF InOrder
  <2>2. CASE x \in D /\ y \in D
    <3>1. k = n /\ l = n
      BY <1>7, <1>12, <2>2
    <3>2. Before(k, j, l, i) => j < i
      BY <1>1, <3>1 DEF Before
    <3>3. QED BY <1>12, <2>2, <3>1, <3>2 DEF Adds
  <2>3. CASE x \in net[o] /\ y \in D
    <3>1. At(p, k, SentAt(p, j)) /\ ~At(p, l, SentAt(p, i))
      BY <1>6, <1>7, <1>12, <2>3
    <3>2. ~(k = l /\ j = i)
      BY <3>1
    <3>3. QED BY <1>1, <1>2, <1>4, <2>3, <3>2
  <2>4. CASE x \in D /\ y \in net[o]
    <3>1. ~At(p, k, SentAt(p, j)) /\ At(p, l, SentAt(p, i))
      BY <1>6, <1>7, <1>12, <2>4
    <3>2. ~(k = l /\ j = i) /\ ~Before(k, j, l, i)
      BY <3>1, SentEarlier
    <3>3. QED BY <3>2
  <2>5. QED BY <1>3, <2>1, <2>2, <2>3, <2>4
<1>13. InOrder(o)'
  BY <1>12 DEF InOrder
<1>14. ASSUME NEW x \in net'[o], NEW g \in Gens, IsApp(o, x, g)
       PROVE  x \in net[o] /\ g <= OutGen(p)
  <2>1. x.rec.ty = "app" /\ x.rec.cipher = Sealing(p, g)
    BY <1>1, <1>14 DEF IsApp
  <2>2. x \in net[o]
    <3>1. ASSUME x \in D PROVE FALSE
      BY <2>1, <3>1 DEF Adds, Is
    <3>2. QED BY <1>3, <3>1
  <2>3. MsgOK(o, x)
    BY <1>1, <2>2 DEF IInv
  <2>4. PICK e \in Gens : x.rec.cipher = Sealing(p, e) /\ e <= OutGen(p)
    BY <1>1, <2>1, <2>3 DEF MsgOK, Is, IsApp
  <2>5. e = g
    <3>1. e \in Nat /\ g \in Nat
      BY DEF Gens
    <3>2. QED BY <2>1, <2>4, <3>1, SealingInjective
  <2>6. QED BY <2>2, <2>4, <2>5
<1>15. ASSUME NEW x \in net'[o], NEW y \in net'[o], NEW g \in Gens, NEW k \in Gens, NEW j \in 0 .. 2,
              IsApp(o, x, g), Is(o, y, k, j)
       PROVE  /\ k <= g => y.seqno < x.seqno
              /\ k > g /\ j = 2 => x.seqno < y.seqno
  <2>1. x \in net[o] /\ g <= OutGen(p)
    BY <1>14, <1>15
  <2>2. CASE y \in net[o]
    BY <1>1, <1>15, <2>1, <2>2 DEF DataInOrder
  <2>3. CASE y \in D
    <3>1. ~At(p, k, SentAt(p, j))
      BY <1>7, <1>15, <2>3
    <3>2. k \in Nat /\ g \in Nat /\ SentAt(p, j) \in 0 .. 2
      BY DEF Gens, SentAt
    <3>3. ~(k <= g)
      <4> SUFFICES ASSUME k <= g PROVE FALSE
        OBVIOUS
      <4>1. nkex[p] > k \/ (nkex[p] = k /\ st[p] \notin {"Kex", "Sig"})
        BY <1>1, <2>1, <3>2 DEF OutGen
      <4>2. st[p] \notin {"Kex", "Sig"} => Rank(st[p]) >= SentAt(p, j)
        BY <3>2 DEF Rank
      <4>3. QED BY <3>1, <4>1, <4>2 DEF At
    <3>4. x.seqno < y.seqno
      BY <1>1, <1>2, <1>4, <2>1, <2>3
    <3>5. QED BY <3>3, <3>4
  <2>4. QED BY <1>3, <2>2, <2>3
<1>16. DataInOrder(o)'
  <2>1. \A x \in net'[o], g \in Gens : IsApp(o, x, g) => ~At(o, g + 1, 3)
    BY <1>1, <1>14 DEF DataInOrder
  <2>2. QED BY <1>5, <1>15, <2>1 DEF DataInOrder
<1>17. QED BY <1>8, <1>11, <1>13, <1>16 DEF Flow

(* p receives nothing, and neither does it move past a record. *)
LEMMA FlowSame ==
    ASSUME IInv, IInv', NEW p \in Peers, Flow(p), inseqno'[p] = inseqno[p], net'[p] = net[p],
           kexmode' = kexmode, st'[Other(p)] = st[Other(p)], nkex'[Other(p)] = nkex[Other(p)],
           napp'[Other(p)] = napp[Other(p)],
           \A k \in Gens, j \in 0 .. 2 : At(p, k, j + 1)' <=> At(p, k, j + 1)
    PROVE  Flow(p)'
<1> PICK o : o = Other(p)
  OBVIOUS
<1>1. /\ Queue(p) /\ Pending(p) /\ InOrder(p) /\ DataInOrder(p) /\ nkex'[p] \in Gens /\ MaxKex \in Nat
  <2>1. nkex'[p] \in Gens
    BY DEF IInv, EndOK
  <2>2. QED BY <2>1, Here DEF Flow
<1>2. /\ \A k, j : Real(k, j)' <=> Real(k, j)
      /\ \A k, j : At(o, k, j)' <=> At(o, k, j)
      /\ \A x, g : IsApp(p, x, g)' <=> IsApp(p, x, g)
  BY DEF Real, Hybrid, At, IsApp
<1>3. Queue(p)'
  BY <1>1 DEF Queue
<1>4. Pending(p)'
  <2> SUFFICES ASSUME NEW k \in Gens, NEW j \in 0 .. 2, Real(k, j)', At(o, k, SentAt(o, j))'
               PROVE  At(p, k, j + 1)' <=> ~ \E x \in net'[p] : Is(p, x, k, j)
    BY DEF Pending
  <2>1. Real(k, j) /\ At(o, k, SentAt(o, j))
    BY <1>2
  <2>2. At(p, k, j + 1) <=> ~ \E x \in net[p] : Is(p, x, k, j)
    BY <1>1, <2>1 DEF Pending
  <2>3. QED BY <2>2
<1>5. InOrder(p)'
  BY <1>1 DEF InOrder
<1>6. ASSUME NEW x \in net[p], NEW g \in Gens, IsApp(p, x, g), At(p, g + 1, 3)' PROVE FALSE
  <2> PICK k : k = g + 1
    OBVIOUS
  <2>1. g \in Nat /\ g >= 1 /\ k \in Nat
    BY <1>1 DEF Gens
  <2>2. k \in Gens
    <3>1. nkex'[p] >= k
      BY <1>1, <1>6, <2>1 DEF At, Gens
    <3>2. QED BY <1>1, <2>1, <3>1 DEF Gens
  <2>3. At(p, k, 2 + 1)' <=> At(p, k, 2 + 1)
    BY <2>2
  <2>4. ~At(p, k, 3)
    BY <1>1, <1>6 DEF DataInOrder
  <2>5. QED BY <1>6, <2>3, <2>4
<1>7. DataInOrder(p)'
  BY <1>1, <1>2, <1>6 DEF DataInOrder
<1>8. QED BY <1>3, <1>4, <1>5, <1>7 DEF Flow

LEMMA FlowSendApp ==
    ASSUME IInv, NEW p \in Peers, SendApp(p), Flow(Other(p))
    PROVE  Flow(Other(p))'
<1> PICK o, g, r, x : /\ o = Other(p) /\ g = OutGen(p) /\ r = Rec(outcipher[p], "app", napp[p] + 1)
                      /\ x = New(outseqno[p], r)
  OBVIOUS
<1>1. /\ Queue(o) /\ Pending(o) /\ InOrder(o) /\ DataInOrder(o) /\ o \in Peers /\ o # p /\ Other(o) = p
      /\ Doms /\ EndOK(p) /\ outseqno[p] \in Nat /\ napp[p] \in Nat /\ Behind(o) /\ Numbers(o)
      /\ nkex[p] \in Nat /\ nkex[p] >= 1 /\ nkex[p] <= MaxKex /\ st[p] \in States /\ MaxKex \in Nat
      /\ nkex[o] \in Nat /\ nkex[o] <= MaxKex
  BY Here DEF Flow
<1>2. net'[o] = net[o] \cup {x}
  <2>1. Emit(p, <<r>>)
    BY DEF SendApp
  <2>2. Batch(outseqno[p], <<r>>) = {x}
    <3>1. outseqno[p] \in Nat /\ x = New(outseqno[p], r)
      BY <1>1
    <3>2. QED BY ONLY <3>1, Batches
  <2>3. QED BY <1>1, <2>1, <2>2, Emitted
<1>3. x.seqno = outseqno[p] /\ x.rec.cipher = outcipher[p] /\ x.rec.ty = "app"
  BY Fields
<1>4. UNCHANGED <<kexmode, st, nkex, inseqno>>
  BY DEF SendApp, handshake
<1>5. g \in Nat /\ outcipher[p] = Sealing(p, g)
  BY <1>1 DEF EndOK, OutGen
<1>6. /\ \A k, j : Real(k, j)' <=> Real(k, j)
      /\ \A q, k, j : At(q, k, j)' <=> At(q, k, j)
  BY <1>4 DEF Real, Hybrid, At
<1>7. \A z \in net[o] : z.seqno \in Nat /\ z.seqno < outseqno[p]
  BY <1>1 DEF IInv, MsgOK
<1>8. \A k, j : ~Is(o, x, k, j)
  BY <1>3 DEF Is
<1>9. Queue(o)'
  <2>1. inseqno[o] \in Nat /\ inseqno[o] <= outseqno[p]
    BY <1>1 DEF Numbers
  <2>2. QED BY <1>1, <1>2, <1>3, <1>4, <1>7, <2>1 DEF Queue
<1>10. Pending(o)'
  <2>1. \A k, j : (\E z \in net'[o] : Is(o, z, k, j)) <=> (\E z \in net[o] : Is(o, z, k, j))
    BY <1>2, <1>8
  <2>2. QED BY <1>1, <1>6, <2>1 DEF Pending
<1>11. InOrder(o)'
  BY <1>1, <1>2, <1>8 DEF InOrder
<1>12. ASSUME NEW z \in net[o], NEW e \in Gens, IsApp(o, z, e)' PROVE IsApp(o, z, e)
  <2>1. MsgOK(o, z) /\ z.rec.ty = "app" /\ z.rec.cipher = Sealing(p, e)
    BY <1>1, <1>12 DEF IInv, IsApp
  <2>2. z.rec.body \in 1 .. napp[p]
    BY <1>1, <2>1 DEF MsgOK, Is, IsApp
  <2>3. QED BY <1>1, <2>1, <2>2 DEF IsApp
<1>13. ASSUME NEW e \in Gens, IsApp(o, x, e)' PROVE e = g
  <2>1. e \in Nat /\ Sealing(p, e) = Sealing(p, g)
    BY <1>1, <1>3, <1>5, <1>13 DEF IsApp, Gens
  <2>2. QED BY <1>5, <2>1, SealingInjective
<1>14. ASSUME NEW y \in net[o], NEW k \in Gens, Is(o, y, k, 2) PROVE k <= g
  <2>1. MsgOK(o, y) /\ y.rec.ty # "app"
    BY <1>1, <1>14 DEF IInv, Is
  <2>2. PICK l \in Gens, i \in 0 .. 2 : Is(o, y, l, i) /\ At(p, l, SentAt(p, i))
    BY <1>1, <2>1 DEF MsgOK, IsApp
  <2>3. l = k /\ i = 2
    BY <1>1, <1>14, <2>2, IsUnique
  <2>4. At(p, k, 2)
    BY <2>2, <2>3 DEF SentAt
  <2>5. k \in Nat
    BY DEF Gens
  <2>6. nkex[p] > k \/ (nkex[p] = k /\ st[p] \notin {"Kex", "Sig"})
    BY <2>4, Ranks DEF At
  <2>7. QED BY <1>1, <2>5, <2>6 DEF OutGen
<1>15. ASSUME NEW z \in net'[o], NEW y \in net'[o], NEW e \in Gens, NEW k \in Gens, NEW j \in 0 .. 2,
              IsApp(o, z, e)', Is(o, y, k, j)
       PROVE  /\ k <= e => y.seqno < z.seqno
              /\ k > e /\ j = 2 => z.seqno < y.seqno
  <2>1. y \in net[o]
    BY <1>2, <1>8, <1>15
  <2>2. CASE z \in net[o]
    BY <1>1, <1>12, <1>15, <2>1, <2>2 DEF DataInOrder
  <2>3. CASE z = x
    <3>1. e = g /\ y.seqno < z.seqno
      BY <1>3, <1>7, <1>13, <1>15, <2>1, <2>3
    <3>2. j = 2 => ~(k > e)
      BY <1>5, <1>14, <1>15, <2>1, <3>1 DEF Gens
    <3>3. QED BY <3>1, <3>2
  <2>4. QED BY <1>2, <2>2, <2>3
<1>16. ASSUME NEW z \in net'[o], NEW e \in Gens, IsApp(o, z, e)' PROVE ~At(o, e + 1, 3)
  <2>1. CASE z \in net[o]
    BY <1>1, <1>12, <1>16, <2>1 DEF DataInOrder
  <2>2. CASE z = x
    <3> PICK k : k = e + 1
      OBVIOUS
    <3>1. e = g /\ k = g + 1 /\ g >= 1 /\ k \in Nat /\ k >= 2
      BY <1>5, <1>13, <1>16, <2>2 DEF Gens
    <3>2. ASSUME At(o, k, 2 + 1) PROVE FALSE
      <4>1. nkex[o] >= k
        BY <1>1, <3>1, <3>2 DEF At
      <4>2. k \in Gens
        BY <1>1, <3>1, <4>1 DEF Gens
      <4>3. At(p, k, SentAt(p, 2))
        BY <1>1, <3>1, <3>2, <4>2 DEF Behind, Real
      <4>4. nkex[p] > k \/ (nkex[p] = k /\ st[p] \notin {"Kex", "Sig"})
        BY <4>3, Ranks DEF At, SentAt
      <4>5. QED BY <1>1, <3>1, <4>4 DEF OutGen
    <3>3. QED BY <3>2
  <2>3. QED BY <1>2, <2>1, <2>2
<1>17. DataInOrder(o)'
  BY <1>6, <1>15, <1>16 DEF DataInOrder
<1>18. QED BY <1>9, <1>10, <1>11, <1>17 DEF Flow

LEMMA SInvInit == Init => SInv
<1> SUFFICES ASSUME Init PROVE SInv
  OBVIOUS
<1>1. IInv
  BY IInvInit
<1>2. ASSUME NEW p \in Peers PROVE ~failed[p] /\ Flow(p)
  <2> PICK o, x : o = Other(p) /\ x = [seqno |-> 0, rec |-> Rec(None, "kex", <<Other(p), 1>>)]
    OBVIOUS
  <2>1. /\ o \in Peers /\ net[p] = {x} /\ inseqno[p] = 0 /\ st[p] = "Kex" /\ nkex[p] = 1
        /\ st[o] = "Kex" /\ nkex[o] = 1 /\ ~failed[p]
    BY PeerFacts DEF Init
  <2>2. x.seqno = 0 /\ x.rec.cipher = None /\ x.rec.ty = "kex" /\ x.rec.body = <<o, 1>>
    BY DEF Rec
  <2>3. 1 \in Gens /\ \A k \in Gens : k \in Nat /\ k >= 1
    BY SptpsAssumption DEF Gens
  <2>4. Is(p, x, 1, 0)
    BY <2>2 DEF Is, Sealing
  <2>5. \A k \in Gens, j \in 0 .. 2 : Is(p, x, k, j) <=> k = 1 /\ j = 0
    BY <2>3, <2>4, IsUnique
  <2>6. \A g : ~IsApp(p, x, g)
    BY <2>2 DEF IsApp
  <2>7. Queue(p)
    BY <2>1, <2>2 DEF Queue
  <2>8. Pending(p)
    <3> SUFFICES ASSUME NEW k \in Gens, NEW j \in 0 .. 2, At(o, k, SentAt(o, j))
                 PROVE  At(p, k, j + 1) <=> ~ \E m \in net[p] : Is(p, m, k, j)
      BY DEF Pending
    <3>1. k = 1 /\ j = 0
      BY <2>1, <2>3, Ranks DEF At, SentAt
    <3>2. ~At(p, k, j + 1)
      BY <2>1, <3>1, Ranks DEF At
    <3>3. QED BY <2>1, <2>4, <3>1, <3>2
  <2>9. InOrder(p)
    BY <2>1, <2>3, <2>5 DEF InOrder, Before
  <2>10. DataInOrder(p)
    BY <2>1, <2>6 DEF DataInOrder
  <2>11. QED BY <2>1, <2>7, <2>8, <2>9, <2>10 DEF Flow
<1>3. QED BY <1>2 DEF SInv, NeverFails

(* A step of p that sends handshake records, or none, keeps the flow to    *)
(* the other end.                                                          *)
LEMMA FlowSends ==
    ASSUME IInv, NEW p \in Peers, Flow(Other(p)), Sends(p)
    PROVE  Flow(Other(p))'
<1>1. PICK n \in Gens : Ahead(p, n) /\ \E D : Adds(p, n, D)
  BY DEF Sends
<1>2. PICK D : Adds(p, n, D)
  BY <1>1
<1>3. /\ inseqno'[Other(p)] = inseqno[Other(p)] /\ kexmode' = kexmode /\ napp'[p] = napp[p]
      /\ st'[Other(p)] = st[Other(p)] /\ nkex'[Other(p)] = nkex[Other(p)]
  BY DEF Sends, Frame
<1>4. QED BY <1>1, <1>2, <1>3, FlowOut

(* Taking a record on a stream. *)
LEMMA FlowReceive ==
    ASSUME Framing = "stream", IInv, IInv', NEW p \in Peers, NEW m \in net[p], \A q \in Peers : Flow(q),
           Arrives(p, m), Consume(p, m), NEW recs, Answer(p, m, recs), Sends(p), Takes(p, m)
    PROVE  \A q \in Peers : Flow(q)'
<1>1. Other(p) \in Peers /\ Peers = {p, Other(p)} /\ Doms
  BY PeerFacts DEF IInv
<1>2. Flow(Other(p))'
  BY <1>1, FlowSends
<1>3. m.seqno = inseqno[p] /\ inseqno'[p] = inseqno[p] + 1
  BY Consumed
<1>4. net'[p] = net[p] \ {m}
  BY <1>1, Answered
<1>5. /\ kexmode' = kexmode /\ st'[Other(p)] = st[Other(p)] /\ nkex'[Other(p)] = nkex[Other(p)]
      /\ napp'[Other(p)] = napp[Other(p)]
  BY DEF Sends, Frame
<1>6. Flow(p)'
  BY <1>3, <1>4, <1>5, FlowIn
<1>7. QED BY <1>1, <1>2, <1>6

LEMMA SInvStep == IInv /\ SInv /\ [Next]_vars => SInv'
<1> SUFFICES ASSUME IInv, SInv, [Next]_vars PROVE SInv'
  OBVIOUS
<1>1. IInv' /\ DOMAIN failed = Peers
  BY IInvStep DEF IInv, Doms
<1>2. NeverFails'
  <2>1. CASE UNCHANGED failed
    BY <2>1 DEF SInv, NeverFails
  <2>2. ASSUME NEW p \in Peers, NEW m \in net[p], ReceiveBad(p, m) PROVE NeverFails'
    <3>1. Framing # "stream"
      <4> SUFFICES ASSUME Framing = "stream" PROVE FALSE
        OBVIOUS
      <4>1. m.seqno = inseqno[p] /\ Misfit(p, m)
        BY <2>2 DEF ReceiveBad, Arrives
      <4>2. QED BY <4>1, FirstFits DEF SInv
    <3>2. failed' = [failed EXCEPT ![p] = FALSE]
      BY <2>2, <3>1 DEF ReceiveBad
    <3>3. QED BY <1>1, <3>2 DEF SInv, NeverFails
  <2>3. /\ UNCHANGED vars => UNCHANGED failed
        /\ \A p : ForceKex(p) \/ SendApp(p) => UNCHANGED failed
    BY DEF vars, ForceKex, SendApp
  <2>4. ASSUME NEW p, NEW m, Receive(p, m) PROVE UNCHANGED failed \/ ReceiveBad(p, m)
    <3>1. ReceiveKex(p, m) => UNCHANGED failed
      BY DEF ReceiveKex
    <3>2. ReceiveSig(p, m) => UNCHANGED failed
      BY DEF ReceiveSig
    <3>3. ReceiveAck(p, m) \/ ReceiveConfirm(p, m) \/ ReceiveApp(p, m) => UNCHANGED failed
      BY DEF ReceiveAck, ReceiveConfirm, ReceiveApp
    <3>4. QED BY <2>4, <3>1, <3>2, <3>3 DEF Receive
  <2>5. QED BY <2>1, <2>2, <2>3, <2>4 DEF Next
<1>3. ASSUME Framing = "stream" PROVE \A q \in Peers : Flow(q)'
  <2>1. \A q \in Peers : Flow(q)
    BY <1>3 DEF SInv
  <2>2. CASE UNCHANGED vars
    <3>1. UNCHANGED <<kexmode, st, nkex, napp, inseqno, net>>
      BY <2>2 DEF vars, handshake, history
    <3>2. \A q, k, j : At(q, k, j)' <=> At(q, k, j)
      BY <3>1 DEF At
    <3>3. QED BY <1>1, <2>1, <3>1, <3>2, FlowSame
  <2>3. ASSUME NEW p \in Peers, ForceKex(p) PROVE \A q \in Peers : Flow(q)'
    <3>1. Other(p) \in Peers /\ Peers = {p, Other(p)} /\ Doms /\ p # Other(p) /\ nkex[p] \in Nat
      BY PeerFacts, Here
    <3>2. Sends(p)
      BY <2>3, StepForceKex
    <3>3. Flow(Other(p))'
      BY <2>1, <3>1, <3>2, FlowSends
    <3>4. /\ kexmode' = kexmode /\ st'[Other(p)] = st[Other(p)] /\ nkex'[Other(p)] = nkex[Other(p)]
          /\ napp'[Other(p)] = napp[Other(p)] /\ inseqno'[p] = inseqno[p]
      BY <2>3, <3>2 DEF Sends, Frame, ForceKex
    <3>5. net'[p] = net[p]
      BY <2>3, <3>1 DEF ForceKex, Emit, Doms
    <3>6. st[p] = "SecondaryKex" /\ st'[p] = "Kex" /\ nkex'[p] = nkex[p] + 1
      BY <2>3, <3>1 DEF ForceKex, Doms
    <3>7. \A k \in Gens, j \in 0 .. 2 : At(p, k, j + 1)' <=> At(p, k, j + 1)
      BY <3>1, <3>6, Ranks DEF At, Gens
    <3>8. Flow(p)'
      BY <1>1, <2>1, <3>4, <3>5, <3>7, FlowSame
    <3>9. QED BY <3>1, <3>3, <3>8
  <2>4. ASSUME NEW p \in Peers, SendApp(p) PROVE \A q \in Peers : Flow(q)'
    <3>1. Other(p) \in Peers /\ Peers = {p, Other(p)} /\ Doms /\ p # Other(p)
      BY PeerFacts, Here
    <3>2. Flow(Other(p))'
      BY <2>1, <2>4, <3>1, FlowSendApp
    <3>3. /\ UNCHANGED <<kexmode, st, nkex, inseqno>> /\ napp'[Other(p)] = napp[Other(p)]
          /\ net'[p] = net[p]
      BY <2>4, <3>1 DEF SendApp, Emit, handshake, Doms
    <3>4. \A k \in Gens, j \in 0 .. 2 : At(p, k, j + 1)' <=> At(p, k, j + 1)
      BY <3>3 DEF At
    <3>5. Flow(p)'
      BY <1>1, <2>1, <3>3, <3>4, FlowSame
    <3>6. QED BY <3>1, <3>2, <3>5
  <2>5. ASSUME NEW p \in Peers, NEW m \in net[p], Receive(p, m) PROVE \A q \in Peers : Flow(q)'
    <3>1. ~ReceiveBad(p, m)
      <4>1. ReceiveBad(p, m) => m.seqno = inseqno[p] /\ Misfit(p, m)
        BY <1>3 DEF ReceiveBad, Arrives
      <4>2. QED BY <2>1, <4>1, FirstFits
    <3>2. CASE ReceiveKex(p, m)
      <4>1. Arrives(p, m) /\ Consume(p, m) /\ \E recs : Answer(p, m, recs)
        BY <3>2 DEF ReceiveKex
      <4>2. Sends(p) /\ Takes(p, m)
        BY <3>2, StepReceiveKex
      <4>3. QED BY <1>1, <1>3, <2>1, <4>1, <4>2, FlowReceive
    <3>3. CASE ReceiveSig(p, m)
      <4>1. Arrives(p, m) /\ Consume(p, m) /\ \E recs : Answer(p, m, recs)
        BY <3>3 DEF ReceiveSig
      <4>2. Sends(p) /\ Takes(p, m)
        BY <3>3, StepReceiveSig
      <4>3. QED BY <1>1, <1>3, <2>1, <4>1, <4>2, FlowReceive
    <3>4. CASE ReceiveAck(p, m)
      <4>1. Arrives(p, m) /\ Consume(p, m) /\ \E recs : Answer(p, m, recs)
        BY <3>4 DEF ReceiveAck
      <4>2. Sends(p) /\ Takes(p, m)
        BY <3>4, StepReceiveAck
      <4>3. QED BY <1>1, <1>3, <2>1, <4>1, <4>2, FlowReceive
    <3>5. CASE ReceiveConfirm(p, m)
      <4>1. Arrives(p, m) /\ Consume(p, m) /\ \E recs : Answer(p, m, recs)
        BY <3>5 DEF ReceiveConfirm
      <4>2. Sends(p) /\ Takes(p, m)
        BY <3>5, StepReceiveConfirm
      <4>3. QED BY <1>1, <1>3, <2>1, <4>1, <4>2, FlowReceive
    <3>6. CASE ReceiveApp(p, m)
      <4>1. Arrives(p, m) /\ Consume(p, m) /\ \E recs : Answer(p, m, recs)
        BY <3>6 DEF ReceiveApp
      <4>2. Sends(p) /\ Takes(p, m)
        BY <3>6, StepReceiveApp
      <4>3. QED BY <1>1, <1>3, <2>1, <4>1, <4>2, FlowReceive
    <3>7. QED BY <2>5, <3>1, <3>2, <3>3, <3>4, <3>5, <3>6 DEF Receive
  <2>6. QED BY <2>2, <2>3, <2>4, <2>5 DEF Next
<1>4. QED BY <1>2, <1>3 DEF SInv

(* On an ordered stream no interleaving of data and of rekeys begun by     *)
(* either end, or by both at once, makes receive return an error; on       *)
(* datagrams an error never ends the session.                              *)
THEOREM NeverFailsCorrect == Spec => []NeverFails
<1>1. SInv => NeverFails
  BY DEF SInv
<1>2. QED BY <1>1, SInvInit, SInvStep, IInvAlways, PTL DEF Spec

-----------------------------------------------------------------------------
(* A stream session implements SecureStream, the safety part. First, a run *)
(* of consecutive records, and how a set of them is put in order.          *)

Run(a, b) == [i \in 1 .. b - a |-> a + i]

(* S carries the records a + 1 to b, each once. *)
Carries(S, a, b) ==
    /\ \A m \in S : m.rec.body \in a + 1 .. b
    /\ \A k \in a + 1 .. b : \E m \in S : m.rec.body = k
    /\ \A m, x \in S : m.rec.body = x.rec.body => m = x

LEMMA Counted ==
    ASSUME NEW S, NEW a \in Nat, NEW b \in Nat, a <= b, Carries(S, a, b)
    PROVE  Cardinality(S) = b - a
<1> DEFINE f == [k \in a + 1 .. b |-> CHOOSE m \in S : m.rec.body = k]
<1>1. \A k \in a + 1 .. b : f[k] \in S /\ f[k].rec.body = k
  BY DEF Carries
<1>2. f \in Bijection(a + 1 .. b, S)
  <2>1. f \in [a + 1 .. b -> S]
    BY <1>1
  <2>2. \A k, l \in a + 1 .. b : f[k] = f[l] => k = l
    BY <1>1
  <2>3. \A m \in S : \E k \in a + 1 .. b : f[k] = m
    BY <1>1 DEF Carries
  <2> HIDE DEF f
  <2>4. QED BY <2>1, <2>2, <2>3 DEF Bijection, Injection, Surjection, IsInjective
<1>3. IsFiniteSet(a + 1 .. b) /\ Cardinality(a + 1 .. b) = b - a
  <2>1. a + 1 \in Int /\ b \in Int /\ (IF a + 1 > b THEN 0 ELSE b - (a + 1) + 1) = b - a
    OBVIOUS
  <2>2. QED BY <2>1, FS_Interval
<1>4. QED BY <1>2, <1>3, FS_Bijection DEF ExistsBijection

(* ... and in the order in which they were sealed. *)
Line(S, a, b) ==
    /\ a \in Nat /\ b \in Nat /\ a <= b /\ Carries(S, a, b)
    /\ \A m \in S : m.seqno \in Nat
    /\ \A m, x \in S : m.seqno < x.seqno <=> m.rec.body < x.rec.body

LEMMA SealOrderIs ==
    ASSUME NEW S, NEW a, NEW b, Line(S, a, b)
    PROVE  SealOrder(S) = Run(a, b)
<1> DEFINE ahead(m) == {x \in S : x.seqno < m.seqno}
<1>0. /\ a \in Nat /\ b \in Nat /\ a <= b /\ Carries(S, a, b)
      /\ \A m, x \in S : m.seqno < x.seqno <=> m.rec.body < x.rec.body
  BY DEF Line
<1>1. ASSUME NEW m \in S PROVE Cardinality(ahead(m)) = m.rec.body - a - 1
  <2>1. PICK k \in a + 1 .. b : m.rec.body = k
    BY <1>0 DEF Carries
  <2>2. \A x \in S : x \in ahead(m) <=> x.rec.body < k
    BY <1>0, <2>1
  <2>3. Carries(ahead(m), a, k - 1)
    BY <1>0, <2>2 DEF Carries
  <2> HIDE DEF ahead
  <2>4. k - 1 \in Nat /\ a <= k - 1
    BY <1>0
  <2>5. QED BY <1>0, <2>1, <2>3, <2>4, Counted
<1>2. Cardinality(S) = b - a
  BY <1>0, Counted
<1>3. ASSUME NEW i \in 1 .. b - a
      PROVE  (CHOOSE m \in S : Cardinality(ahead(m)) = i - 1).rec.body = a + i
  <2> HIDE DEF ahead
  <2>1. a + i \in a + 1 .. b
    BY <1>0
  <2>2. PICK m \in S : m.rec.body = a + i
    BY <1>0, <2>1 DEF Carries
  <2>3. Cardinality(ahead(m)) = i - 1
    BY <1>0, <1>1, <2>2
  <2>4. \A x \in S : Cardinality(ahead(x)) = i - 1 => x.rec.body = a + i
    BY <1>0, <1>1 DEF Carries
  <2>5. QED BY <2>3, <2>4
<1>4. QED BY <1>2, <1>3 DEF SealOrder, Run

(* The next record joins at the end, and the first leaves. *)
LEMMA LineNext ==
    ASSUME NEW S, NEW a, NEW b, Line(S, a, b), NEW x, x.rec.body = b + 1, x.seqno \in Nat,
           \A m \in S : m.seqno < x.seqno
    PROVE  Line(S \cup {x}, a, b + 1)
<1>1. /\ a \in Nat /\ b \in Nat /\ a <= b /\ Carries(S, a, b)
      /\ \A m \in S : m.seqno \in Nat
      /\ \A m, y \in S : m.seqno < y.seqno <=> m.rec.body < y.rec.body
  BY DEF Line
<1>2. \A m \in S : m.rec.body \in Nat /\ m.rec.body < b + 1
  BY <1>1 DEF Carries
<1>3. Carries(S \cup {x}, a, b + 1)
  <2>1. \A k \in a + 1 .. b + 1 : k = b + 1 \/ k \in a + 1 .. b
    BY <1>1
  <2>2. \A k \in a + 1 .. b : k \in a + 1 .. b + 1
    BY <1>1
  <2>3. b + 1 \in a + 1 .. b + 1
    BY <1>1
  <2>4. \A m \in S : m.rec.body # b + 1
    BY <1>1, <1>2
  <2>5. QED BY <1>1, <2>1, <2>2, <2>3, <2>4 DEF Carries
<1>4. \A m, y \in S \cup {x} : m.seqno < y.seqno <=> m.rec.body < y.rec.body
  <2> SUFFICES ASSUME NEW m \in S \cup {x}, NEW y \in S \cup {x}
               PROVE  m.seqno < y.seqno <=> m.rec.body < y.rec.body
    OBVIOUS
  <2>1. CASE m \in S /\ y \in S
    BY <1>1, <2>1
  <2>2. CASE m \in S /\ y = x
    BY <1>2, <2>2
  <2>3. CASE m = x /\ y \in S
    BY <1>1, <1>2, <2>3
  <2>4. CASE m = x /\ y = x
    BY <1>1, <2>4
  <2>5. QED BY <2>1, <2>2, <2>3, <2>4
<1>5. QED BY <1>1, <1>3, <1>4 DEF Line

LEMMA LineTaken ==
    ASSUME NEW S, NEW a, NEW b, Line(S, a, b), NEW m \in S, \A x \in S : x.seqno >= m.seqno
    PROVE  m.rec.body = a + 1 /\ a < b /\ Line(S \ {m}, a + 1, b)
<1>1. /\ a \in Nat /\ b \in Nat /\ a <= b /\ Carries(S, a, b)
      /\ \A x \in S : x.seqno \in Nat
      /\ \A x, y \in S : x.seqno < y.seqno <=> x.rec.body < y.rec.body
  BY DEF Line
<1>2. m.rec.body \in a + 1 .. b
  BY <1>1 DEF Carries
<1>3. m.rec.body = a + 1
  <2>1. PICK x \in S : x.rec.body = a + 1
    BY <1>1, <1>2 DEF Carries
  <2>2. ~(x.rec.body < m.rec.body)
    BY <1>1
  <2>3. QED BY <1>1, <1>2, <2>1, <2>2
<1>4. Carries(S \ {m}, a + 1, b)
  <2>1. \A k \in a + 1 .. b : k = a + 1 \/ k \in a + 1 + 1 .. b
    BY <1>1
  <2>2. \A k \in a + 1 + 1 .. b : k \in a + 1 .. b /\ k # a + 1
    BY <1>1
  <2>3. QED BY <1>1, <1>3, <2>1, <2>2 DEF Carries
<1>5. QED BY <1>1, <1>2, <1>3, <1>4 DEF Line

(* What Append, Head and Tail make of a run. *)
LEMMA Runs ==
    ASSUME NEW a \in Nat, NEW b \in Nat, a <= b
    PROVE  /\ Append(Run(a, b), b + 1) = Run(a, b + 1)
           /\ a < b => Run(a, b) # <<>> /\ Head(Run(a, b)) = a + 1 /\ Tail(Run(a, b)) = Run(a + 1, b)
           /\ Run(a, a) = <<>>
<1>1. /\ Run(a, b) \in Seq(Nat) /\ Len(Run(a, b)) = b - a
      /\ \A i \in 1 .. b - a : Run(a, b)[i] = a + i
  BY DEF Run
<1>2. Append(Run(a, b), b + 1) = Run(a, b + 1)
  <2> DEFINE s == Append(Run(a, b), b + 1)
  <2>1. /\ s \in Seq(Nat) /\ Len(s) = b + 1 - a /\ \A i \in 1 .. b + 1 - a : s[i] = a + i
    <3>1. b + 1 \in Nat /\ b - a \in Nat /\ b + 1 - a = (b - a) + 1
      OBVIOUS
    <3>2. \A r \in Seq(Nat), x \in Nat :
              /\ Append(r, x) \in Seq(Nat) /\ Len(Append(r, x)) = Len(r) + 1
              /\ \A i \in 1 .. Len(r) : Append(r, x)[i] = r[i]
              /\ Append(r, x)[Len(r) + 1] = x
      OBVIOUS
    <3>3. /\ s \in Seq(Nat) /\ Len(s) = (b - a) + 1 /\ s[(b - a) + 1] = b + 1
          /\ \A i \in 1 .. b - a : s[i] = Run(a, b)[i]
      <4> PICK r, n : r = Run(a, b) /\ n = b - a
        OBVIOUS
      <4>1. r \in Seq(Nat) /\ Len(r) = n
        BY <1>1
      <4>2. /\ Append(r, b + 1) \in Seq(Nat) /\ Len(Append(r, b + 1)) = n + 1
            /\ \A i \in 1 .. n : Append(r, b + 1)[i] = r[i]
            /\ Append(r, b + 1)[n + 1] = b + 1
        BY ONLY <3>1, <3>2, <4>1
      <4>3. QED BY <4>2
    <3>4. \A i \in 1 .. b - a : s[i] = a + i
      BY <1>1, <3>3
    <3> HIDE DEF s
    <3>5. QED BY <3>1, <3>3, <3>4
  <2> HIDE DEF s
  <2>2. s = [i \in 1 .. b + 1 - a |-> a + i]
    BY <2>1
  <2>3. QED BY <2>2 DEF s, Run
<1>3. ASSUME a < b
      PROVE  Run(a, b) # <<>> /\ Head(Run(a, b)) = a + 1 /\ Tail(Run(a, b)) = Run(a + 1, b)
  <2> DEFINE s == Tail(Run(a, b))
  <2>1. /\ s \in Seq(Nat) /\ Len(s) = b - (a + 1) /\ \A i \in 1 .. b - (a + 1) : s[i] = (a + 1) + i
    BY <1>1, <1>3
  <2>2. Run(a, b) # <<>> /\ Head(Run(a, b)) = a + 1
    BY <1>1, <1>3
  <2> HIDE DEF s
  <2>3. s = [i \in 1 .. b - (a + 1) |-> (a + 1) + i]
    BY <2>1
  <2>4. QED BY <2>2, <2>3 DEF s, Run
<1>4. Run(a, a) = <<>>
  BY DEF Run
<1>5. QED BY <1>2, <1>3, <1>4

-----------------------------------------------------------------------------
(* The application records on their way to p are those that were sent and  *)
(* not handed over, in the order of sending.                               *)

Apps(p) == {m \in net[p] : m.rec.ty = "app"}

Whole(p) == Line(Apps(p), Len(got[p]), napp[Other(p)])

OInv == Framing = "stream" => \A p \in Peers : Whole(p)

(* What a step does to what SecureStream sees: at most p gets ready, or p  *)
(* sends a record behind all others, or takes the first of them.           *)
Quietly(p) ==
    /\ UNCHANGED <<napp, got>> /\ \A q \in Peers : Apps(q)' = Apps(q)
    /\ done' = done \/ \E d \in {done[p], done[p] + 1} : done' = [done EXCEPT ![p] = d]

Pushes(p) ==
    /\ UNCHANGED <<got, done>> /\ done[p] > 0
    /\ napp' = [napp EXCEPT ![p] = @ + 1] /\ Apps(p)' = Apps(p)
    /\ \E x : /\ Apps(Other(p))' = Apps(Other(p)) \cup {x}
              /\ x.rec.body = napp[p] + 1 /\ x.seqno \in Nat
              /\ \A m \in Apps(Other(p)) : m.seqno < x.seqno

Delivers(p) ==
    /\ UNCHANGED <<napp, done>> /\ done[p] > 0 /\ Apps(Other(p))' = Apps(Other(p))
    /\ \E m \in Apps(p) : /\ Apps(p)' = Apps(p) \ {m}
                          /\ got' = [got EXCEPT ![p] = Append(@, m.rec.body)]
                          /\ \A x \in Apps(p) : x.seqno >= m.seqno

LEMMA SendEffect ==
    ASSUME IInv, NEW p \in Peers, SendApp(p)
    PROVE  Pushes(p)
<1> PICK o, r, x : /\ o = Other(p) /\ r = Rec(outcipher[p], "app", napp[p] + 1)
                   /\ x = New(outseqno[p], r)
  OBVIOUS
<1>1. /\ Doms /\ EndOK(p) /\ outseqno[p] \in Nat /\ o \in Peers /\ Other(o) = p
      /\ nkex[p] \in Nat /\ nkex[p] >= 1 /\ st[p] \in States
  BY Here
<1>2. net'[o] = net[o] \cup {x} /\ net'[p] = net[p]
  <2>1. Emit(p, <<r>>)
    BY DEF SendApp
  <2>2. Batch(outseqno[p], <<r>>) = {x}
    <3>1. outseqno[p] \in Nat /\ x = New(outseqno[p], r)
      BY <1>1
    <3>2. QED BY ONLY <3>1, Batches
  <2>3. QED BY <1>1, <2>1, <2>2, Emitted
<1>3. x.seqno = outseqno[p] /\ x.rec.ty = "app" /\ x.rec.body = napp[p] + 1
  BY Fields
<1>4. \A z \in net[o] : z.seqno \in Nat /\ z.seqno < outseqno[p]
  BY <1>1 DEF IInv, MsgOK
<1>5. Apps(o)' = Apps(o) \cup {x} /\ Apps(p)' = Apps(p)
  BY <1>2, <1>3 DEF Apps
<1>6. done[p] > 0
  <2>1. outcipher[p] # None /\ st[p] # "Confirm"
    BY DEF SendApp, AppSendReady
  <2>2. OutGen(p) # 0
    BY <1>1, <2>1 DEF EndOK, Sealing
  <2>3. QED BY <1>1, <2>1, <2>2 DEF EndOK, OutGen, States
<1>7. UNCHANGED <<got, done>> /\ napp' = [napp EXCEPT ![p] = @ + 1]
  BY DEF SendApp
<1>8. QED BY <1>1, <1>3, <1>4, <1>5, <1>6, <1>7 DEF Pushes, Apps

LEMMA TakeEffect ==
    ASSUME IInv, SInv, Framing = "stream", NEW p \in Peers, NEW m \in net[p], ReceiveApp(p, m)
    PROVE  Delivers(p)
<1>1. /\ Doms /\ EndOK(p) /\ nkex[p] \in Nat /\ nkex[p] >= 1 /\ st[p] \in States /\ Queue(p)
      /\ outseqno[p] \in Nat
  BY Here DEF SInv, Flow
<1>2. /\ m.rec.ty = "app" /\ incipher[p] # None /\ st[p] # "Confirm" /\ m.seqno = inseqno[p]
      /\ Answer(p, m, <<>>) /\ UNCHANGED <<napp, done>>
      /\ got' = [got EXCEPT ![p] = Append(@, m.rec.body)]
  BY DEF ReceiveApp, AppOk, Plain, Arrives
<1>3. net'[p] = net[p] \ {m} /\ net'[Other(p)] = net[Other(p)]
  <2>1. Batch(outseqno[p], <<>>) = {}
    BY <1>1, Batches
  <2>2. net'[p] = net[p] \ {m}
    BY <1>1, <1>2, Answered
  <2>3. net'[Other(p)] = net[Other(p)] \cup Batch(outseqno[p], <<>>)
    BY <1>1, <1>2, Answered
  <2>4. QED BY <2>1, <2>2, <2>3
<1>4. Apps(p)' = Apps(p) \ {m} /\ Apps(Other(p))' = Apps(Other(p)) /\ m \in Apps(p)
  BY <1>2, <1>3 DEF Apps
<1>5. \A x \in Apps(p) : x.seqno >= m.seqno
  BY <1>1, <1>2 DEF Queue, Apps
<1>6. done[p] > 0
  <2>1. InGen(p) # 0
    BY <1>1, <1>2 DEF EndOK, Opening
  <2>2. QED BY <1>1, <1>2, <2>1 DEF EndOK, InGen, States
<1>7. QED BY <1>2, <1>4, <1>5, <1>6 DEF Delivers

(* A record of the handshake carries no data. *)
LEMMA SendsNoData ==
    ASSUME NEW p \in Peers, Sends(p)
    PROVE  \E D : net'[Other(p)] = net[Other(p)] \cup D /\ \A z \in D : z.rec.ty # "app"
<1>1. \A q, z, k, j : Is(q, z, k, j) => z.rec.ty # "app"
  BY DEF Is
<1>2. PICK n \in Gens : \E D : Adds(p, n, D)
  BY DEF Sends
<1>3. PICK D : Adds(p, n, D)
  BY <1>2
<1>4. QED BY <1>1, <1>3 DEF Adds

LEMMA QuietEffect ==
    ASSUME IInv, Framing = "stream", NEW p \in Peers, NEW m \in net[p], m.rec.ty # "app",
           Sends(p), \E recs : Answer(p, m, recs)
    PROVE  \A q \in Peers : Apps(q)' = Apps(q)
<1>1. Doms /\ Peers = {p, Other(p)}
  BY Here, PeerFacts
<1>2. net'[p] = net[p] \ {m}
  BY <1>1, Answered
<1>3. PICK D : /\ net'[Other(p)] = net[Other(p)] \cup D
               /\ \A z \in D : z.rec.ty # "app"
  BY SendsNoData
<1>4. QED BY <1>1, <1>2, <1>3 DEF Apps

LEMMA StepEffect ==
    ASSUME IInv, SInv, Framing = "stream", Next
    PROVE  \E p \in Peers : Quietly(p) \/ Pushes(p) \/ Delivers(p)
<1>1. ASSUME NEW p \in Peers, ForceKex(p) PROVE Quietly(p)
  <2>1. Sends(p) /\ net'[p] = net[p] /\ UNCHANGED <<napp, got, done>> /\ Peers = {p, Other(p)}
    <3>1. Sends(p)
      BY <1>1, StepForceKex
    <3>2. net'[p] = net[p]
      BY <1>1, Here, PeerFacts DEF ForceKex, Emit, Doms
    <3>3. QED BY <1>1, <3>1, <3>2, PeerFacts DEF ForceKex
  <2>2. PICK D : /\ net'[Other(p)] = net[Other(p)] \cup D
                 /\ \A z \in D : z.rec.ty # "app"
    BY <2>1, SendsNoData
  <2>3. QED BY <2>1, <2>2 DEF Quietly, Apps
<1>2. ASSUME NEW p \in Peers, SendApp(p) PROVE Pushes(p)
  BY <1>2, SendEffect
<1>3. ASSUME NEW p \in Peers, NEW m \in net[p], Receive(p, m) PROVE Quietly(p) \/ Delivers(p)
  <2>1. ~ReceiveBad(p, m)
    <3>1. ReceiveBad(p, m) => m.seqno = inseqno[p] /\ Misfit(p, m)
      BY DEF ReceiveBad, Arrives
    <3>2. QED BY <3>1, FirstFits DEF SInv
  <2>2. CASE ReceiveApp(p, m)
    BY <2>2, TakeEffect
  <2>3. CASE ReceiveKex(p, m)
    <3>1. m.rec.ty # "app" /\ (\E recs : Answer(p, m, recs)) /\ UNCHANGED <<napp, got, done>>
      BY <2>3 DEF ReceiveKex, KexOk
    <3>2. Sends(p)
      BY <2>3, StepReceiveKex
    <3>3. QED BY <3>1, <3>2, QuietEffect DEF Quietly
  <2>4. CASE ReceiveSig(p, m)
    <3>1. /\ m.rec.ty # "app" /\ \E recs : Answer(p, m, recs)
          /\ UNCHANGED <<napp, got>> /\ \E d \in {done[p], done[p] + 1} : done' = [done EXCEPT ![p] = d]
      <4>1. m.rec.ty # "app" /\ (\E recs : Answer(p, m, recs)) /\ UNCHANGED <<napp, got>>
        BY <2>4 DEF ReceiveSig, SigOk
      <4>2. \E d \in {done[p], done[p] + 1} : done' = [done EXCEPT ![p] = d]
        BY <2>4 DEF ReceiveSig
      <4>3. QED BY <4>1, <4>2
    <3>2. Sends(p)
      BY <2>4, StepReceiveSig
    <3>3. QED BY <3>1, <3>2, QuietEffect DEF Quietly
  <2>5. CASE ReceiveAck(p, m)
    <3>1. /\ m.rec.ty # "app" /\ \E recs : Answer(p, m, recs)
          /\ UNCHANGED <<napp, got>> /\ done' = [done EXCEPT ![p] = @ + 1]
      BY <2>5 DEF ReceiveAck
    <3>2. Sends(p)
      BY <2>5, StepReceiveAck
    <3>3. QED BY <3>1, <3>2, QuietEffect DEF Quietly
  <2>6. CASE ReceiveConfirm(p, m)
    <3>1. /\ m.rec.ty # "app" /\ \E recs : Answer(p, m, recs)
          /\ UNCHANGED <<napp, got>> /\ done' = [done EXCEPT ![p] = @ + 1]
      BY <2>6 DEF ReceiveConfirm
    <3>2. Sends(p)
      BY <2>6, StepReceiveConfirm
    <3>3. QED BY <3>1, <3>2, QuietEffect DEF Quietly
  <2>7. QED BY <1>3, <2>1, <2>2, <2>3, <2>4, <2>5, <2>6 DEF Receive
<1>4. QED BY <1>1, <1>2, <1>3 DEF Next

-----------------------------------------------------------------------------
(* The order is kept. *)

LEMMA OInvInit == Init => OInv
<1> SUFFICES ASSUME Init, NEW p \in Peers PROVE Whole(p)
  BY DEF OInv
<1>1. Apps(p) = {} /\ got[p] = <<>> /\ napp[Other(p)] = 0 /\ Len(<<>>) = 0
  BY PeerFacts DEF Apps, Init, Rec
<1>2. Line({}, 0, 0)
  BY DEF Line, Carries
<1>3. QED BY <1>1, <1>2 DEF Whole

(* What is on its way to q after a step of p. *)
LEMMA WholeStep ==
    ASSUME IInv, NEW p \in Peers, Quietly(p) \/ Pushes(p) \/ Delivers(p),
           \A q \in Peers : Whole(q)
    PROVE  \A q \in Peers : Whole(q)'
<1> PICK o : o = Other(p)
  OBVIOUS
<1>1. /\ o \in Peers /\ o # p /\ Other(o) = p /\ Peers = {p, o}
      /\ DOMAIN got = Peers /\ DOMAIN napp = Peers /\ napp[p] \in Nat
      /\ Line(Apps(p), Len(got[p]), napp[o]) /\ Line(Apps(o), Len(got[o]), napp[p])
  BY Here, PeerFacts DEF Doms, Whole
<1>2. SUFFICES /\ Line(Apps(p)', Len(got'[p]), napp'[o])
               /\ Line(Apps(o)', Len(got'[o]), napp'[p])
  BY <1>1 DEF Whole
<1>3. CASE Quietly(p)
  BY <1>1, <1>3 DEF Quietly
<1>4. CASE Pushes(p)
  <2>1. /\ got' = got /\ napp'[p] = napp[p] + 1 /\ napp'[o] = napp[o] /\ Apps(p)' = Apps(p)
    BY <1>1, <1>4 DEF Pushes
  <2>2. PICK x : /\ Apps(o)' = Apps(o) \cup {x}
                 /\ x.rec.body = napp[p] + 1 /\ x.seqno \in Nat
                 /\ \A m \in Apps(o) : m.seqno < x.seqno
    BY <1>4 DEF Pushes
  <2>3. Line(Apps(o) \cup {x}, Len(got[o]), napp[p] + 1)
    BY <1>1, <2>2, LineNext
  <2>4. QED BY <1>1, <2>1, <2>2, <2>3
<1>5. CASE Delivers(p)
  <2>1. napp' = napp /\ Apps(o)' = Apps(o)
    BY <1>5 DEF Delivers
  <2>2. PICK m \in Apps(p) : /\ Apps(p)' = Apps(p) \ {m}
                             /\ got' = [got EXCEPT ![p] = Append(@, m.rec.body)]
                             /\ \A x \in Apps(p) : x.seqno >= m.seqno
    BY <1>5 DEF Delivers
  <2>3. Line(Apps(p) \ {m}, Len(got[p]) + 1, napp[o])
    BY <1>1, <2>2, LineTaken
  <2>4. got'[o] = got[o] /\ Len(got'[p]) = Len(got[p]) + 1
    <3>1. got'[o] = got[o] /\ got'[p] = Append(got[p], m.rec.body)
      BY <1>1, <2>2
    <3>2. got[p] \in Seq(1 .. napp[o]) /\ m.rec.body \in 1 .. napp[o]
      <4>1. Once(p) /\ Carries(Apps(p), Len(got[p]), napp[o]) /\ Len(got[p]) \in Nat /\ napp[o] \in Nat
        BY <1>1, Here DEF Line
      <4>2. m.rec.body \in Len(got[p]) + 1 .. napp[o]
        BY <4>1 DEF Carries
      <4>3. QED BY <4>1, <4>2 DEF Once
    <3>3. QED BY <3>1, <3>2
  <2>5. QED BY <1>1, <2>1, <2>2, <2>3, <2>4
<1>6. QED BY <1>3, <1>4, <1>5

LEMMA OInvStep == IInv /\ SInv /\ OInv /\ [Next]_vars => OInv'
<1> SUFFICES ASSUME IInv, SInv, OInv, [Next]_vars, Framing = "stream"
             PROVE  \A q \in Peers : Whole(q)'
  BY DEF OInv
<1>1. CASE UNCHANGED vars
  BY <1>1 DEF vars, history, OInv, Whole, Apps
<1>2. CASE Next
  BY <1>2, StepEffect, WholeStep DEF OInv
<1>3. QED BY <1>1, <1>2

-----------------------------------------------------------------------------
(* Every step maps to one of SecureStream or to none. *)

LEMMA MapsInit == Init => Abstract!Init
<1> SUFFICES ASSUME Init PROVE Abstract!Init
  OBVIOUS
<1>1. \A p \in Peers : InFlight(p) = <<>>
  <2> TAKE p \in Peers
  <2>1. {m \in net[p] : m.rec.ty = "app"} = {}
    BY DEF Init, Rec
  <2>2. Line({}, 0, 0)
    BY DEF Line, Carries
  <2>3. SealOrder({}) = <<>>
    BY <2>2, SealOrderIs, Runs
  <2>4. QED BY <2>1, <2>3 DEF InFlight
<1>2. {p \in Peers : done[p] > 0} = {} /\ napp = [e \in Peers |-> 0] /\ got = [e \in Peers |-> <<>>]
  BY DEF Init
<1>3. QED BY <1>1, <1>2 DEF Abstract!Init

LEMMA MapsStep ==
    ASSUME IInv, SInv, OInv, Framing = "stream", Next
    PROVE  Abstract!Next \/ UNCHANGED Abstract!vars
<1> PICK p \in Peers : Quietly(p) \/ Pushes(p) \/ Delivers(p)
  BY StepEffect
<1> PICK o : o = Other(p)
  OBVIOUS
<1>1. /\ o \in Peers /\ o # p /\ Other(o) = p /\ Peers = {p, o}
      /\ DOMAIN got = Peers /\ DOMAIN napp = Peers /\ DOMAIN done = Peers
      /\ napp[p] \in Nat /\ napp[o] \in Nat /\ done[p] \in Nat
  <2>1. Doms /\ EndOK(p) /\ nkex[p] \in Nat /\ nkex[p] >= 1
    BY Here
  <2>2. done[p] \in Nat
    BY <2>1 DEF EndOK
  <2>3. QED BY <2>1, <2>2, Here, PeerFacts DEF Doms
<1>2. \A q \in Peers : Whole(q)
  BY DEF OInv
<1>3. \A q \in Peers : Whole(q)'
  BY <1>2, WholeStep
<1>4. \A q \in Peers : /\ InFlight(q) = Run(Len(got[q]), napp[Other(q)])
                       /\ Len(got[q]) \in Nat /\ napp[Other(q)] \in Nat /\ Len(got[q]) <= napp[Other(q)]
  BY <1>2, SealOrderIs DEF Whole, Line, InFlight, Apps
<1>5. \A q \in Peers : InFlight(q)' = Run(Len(got'[q]), napp'[Other(q)])
  BY <1>3, SealOrderIs DEF Whole, InFlight, Apps
<1>6. CASE Quietly(p)
  <2>1. UNCHANGED <<napp, got>> /\ \A q \in Peers : InFlight(q)' = InFlight(q)
    BY <1>4, <1>5, <1>6 DEF Quietly
  <2>2. [q \in Peers |-> InFlight(q)]' = [q \in Peers |-> InFlight(q)]
    BY <2>1
  <2>3. \/ {q \in Peers : done[q] > 0}' = {q \in Peers : done[q] > 0}
        \/ {q \in Peers : done[q] > 0}' = {q \in Peers : done[q] > 0} \cup {p}
    <3>1. CASE done' = done
      BY <3>1
    <3>2. CASE done' # done
      <4>1. done'[p] \in {done[p], done[p] + 1} /\ done'[o] = done[o]
        BY <1>1, <1>6, <3>2 DEF Quietly
      <4>2. QED BY <1>1, <4>1
    <3>3. QED BY <3>1, <3>2
  <2>4. CASE {q \in Peers : done[q] > 0}' = {q \in Peers : done[q] > 0}
    BY <2>1, <2>2, <2>4 DEF Abstract!vars
  <2>5. CASE {q \in Peers : done[q] > 0}' = {q \in Peers : done[q] > 0} \cup {p}
    BY <2>1, <2>2, <2>5 DEF Abstract!Next, Abstract!Establish
  <2>6. QED BY <2>3, <2>4, <2>5
<1>7. CASE Pushes(p)
  <2>1. /\ UNCHANGED <<got, done>> /\ p \in {q \in Peers : done[q] > 0}
        /\ napp' = [napp EXCEPT ![p] = @ + 1] /\ napp'[p] = napp[p] + 1 /\ napp'[o] = napp[o]
    BY <1>1, <1>7 DEF Pushes
  <2>2. InFlight(o)' = Append(InFlight(o), napp[p] + 1) /\ InFlight(p)' = InFlight(p)
    <3> PICK a, b, c : a = Len(got[o]) /\ b = napp[p] /\ c = Run(Len(got[p]), napp[o])
      OBVIOUS
    <3>1. /\ a \in Nat /\ b \in Nat /\ a <= b /\ InFlight(o) = Run(a, b) /\ InFlight(p) = c
          /\ InFlight(o)' = Run(a, b + 1) /\ InFlight(p)' = c
      BY <1>1, <1>4, <1>5, <2>1
    <3>2. a \in Nat /\ b \in Nat /\ a <= b
      BY <3>1
    <3>3. Append(Run(a, b), b + 1) = Run(a, b + 1)
      BY ONLY <3>2, Runs, Zenon
    <3>4. QED BY ONLY <3>1, <3>3, b = napp[p], Zenon
  <2>3. [q \in Peers |-> InFlight(q)]' =
            [[q \in Peers |-> InFlight(q)] EXCEPT ![o] = Append(@, napp[p] + 1)]
    BY <1>1, <2>2
  <2>4. QED BY <1>1, <2>1, <2>3 DEF Abstract!Next, Abstract!Push
<1>8. CASE Delivers(p)
  <2>1. UNCHANGED <<napp, done>> /\ p \in {q \in Peers : done[q] > 0}
    BY <1>8 DEF Delivers
  <2>2. PICK m \in Apps(p) : /\ got' = [got EXCEPT ![p] = Append(@, m.rec.body)]
                             /\ \A x \in Apps(p) : x.seqno >= m.seqno
    BY <1>8 DEF Delivers
  <2>3. m.rec.body = Len(got[p]) + 1 /\ Len(got[p]) < napp[o]
    BY <1>2, <2>2, LineTaken DEF Whole
  <2>4. got'[o] = got[o] /\ Len(got'[p]) = Len(got[p]) + 1
    <3>1. got'[o] = got[o] /\ got'[p] = Append(got[p], m.rec.body)
      BY <1>1, <2>2
    <3>2. got[p] \in Seq(Nat) /\ m.rec.body \in Nat
      BY <1>1, <1>4, <2>3, Here DEF Once
    <3>3. QED BY <3>1, <3>2
  <2>5. /\ InFlight(p) # <<>> /\ Head(InFlight(p)) = m.rec.body
        /\ InFlight(p)' = Tail(InFlight(p)) /\ InFlight(o)' = InFlight(o)
    <3> PICK a, b, c : a = Len(got[p]) /\ b = napp[o] /\ c = Run(Len(got[o]), napp[p])
      OBVIOUS
    <3>1. /\ a \in Nat /\ b \in Nat /\ a < b /\ InFlight(p) = Run(a, b) /\ InFlight(o) = c
          /\ InFlight(p)' = Run(a + 1, b) /\ InFlight(o)' = c /\ m.rec.body = a + 1
      BY <1>1, <1>4, <1>5, <2>1, <2>3, <2>4
    <3>2. a \in Nat /\ b \in Nat /\ a <= b /\ a < b
      BY <3>1
    <3>3. Run(a, b) # <<>> /\ Head(Run(a, b)) = a + 1 /\ Tail(Run(a, b)) = Run(a + 1, b)
      BY ONLY <3>2, Runs, Zenon
    <3>4. QED BY ONLY <3>1, <3>3, Zenon
  <2>6. [q \in Peers |-> InFlight(q)]' = [[q \in Peers |-> InFlight(q)] EXCEPT ![p] = Tail(@)]
    BY <1>1, <2>5
  <2>7. QED BY <1>1, <2>1, <2>2, <2>5, <2>6 DEF Abstract!Next, Abstract!Deliver
<1>9. QED BY <1>6, <1>7, <1>8

(* A stream session, with rekeys begun by either end at any moment, is an  *)
(* ordered channel that loses and repeats nothing: Sptps implements the    *)
(* safety part of SecureStream.                                            *)
THEOREM StreamSafetyCorrect == ASSUME Framing = "stream" PROVE Spec => Abstract!Safety
<1>1. IInv /\ SInv /\ OInv /\ [Next]_vars => [Abstract!Next]_(Abstract!vars)
  <2> SUFFICES ASSUME IInv, SInv, OInv, [Next]_vars PROVE [Abstract!Next]_(Abstract!vars)
    OBVIOUS
  <2>1. CASE Next
    BY <2>1, MapsStep
  <2>2. CASE UNCHANGED vars
    BY <2>2 DEF vars, history, Abstract!vars, InFlight
  <2>3. QED BY <2>1, <2>2
<1>2. QED BY <1>1, MapsInit, OInvInit, OInvStep, SInvInit, SInvStep, IInvAlways, PTL
      DEF Spec, Abstract!Safety
=============================================================================
