------------------------- MODULE ReplayWindowProofs -------------------------
(***************************************************************************)
(* The replay window never accepts a record twice and is exact inside its  *)
(* window, for every window size, limit and interleaving of the two        *)
(* receive paths, as long as the key retires before the wire numbers wrap. *)
(***************************************************************************)
EXTENDS ReplayWindow, TLAPS

(* Numbers closer than the modulus have different residues: two records    *)
(* inside one window never share a bit of `late`, and two records of one   *)
(* key never share a wire number.                                          *)
LEMMA ModDistinct ==
    ASSUME NEW M \in Nat, M > 0,
           NEW i \in Nat, NEW j \in Nat, i < j, j - i < M
    PROVE  i % M # j % M
<1> DEFINE qi == i \div M
           qj == j \div M
<1>1. /\ qi \in Int /\ qj \in Int /\ i % M \in Int /\ j % M \in Int
      /\ i = M * qi + (i % M) /\ j = M * qj + (j % M)
  OBVIOUS
<1>2. SUFFICES ASSUME i % M = j % M PROVE FALSE
  OBVIOUS
<1>3. j - i = M * (qj - qi)
  BY <1>1, <1>2
<1>4. CASE qj - qi <= 0
  <2>1. M * (qj - qi) <= 0
    BY <1>1, <1>4
  <2>2. QED BY <2>1, <1>1, <1>3
<1>5. CASE qj - qi >= 1
  <2>1. M * (qj - qi) >= M
    BY <1>1, <1>5
  <2>2. QED BY <2>1, <1>1, <1>3
<1>6. QED BY <1>1, <1>4, <1>5

(* The bit of any number exists; numbers below the modulus travel as they are. *)
LEMMA SlotType ==
    ASSUME NEW n \in Nat
    PROVE  Slot(n) \in 0 .. Slots - 1
BY ReplayWindowAssumption DEF Slot

LEMMA WireType ==
    ASSUME NEW n \in Nat
    PROVE  Wire(n) \in 0 .. SeqSpace - 1
BY ReplayWindowAssumption DEF Wire

LEMMA WireSmall ==
    ASSUME NEW n \in Nat, n < SeqSpace
    PROVE  Wire(n) = n
BY ReplayWindowAssumption DEF Wire

-----------------------------------------------------------------------------
(* Type correctness of the check on its own. *)
LEMMA CheckErrType ==
    ASSUME TypeOK, NEW s \in 0 .. SeqSpace - 1, CheckErr(s)
    PROVE  farfuture' \in 0 .. FarLimit /\ inseqno' = inseqno /\ late' = late
BY ReplayWindowAssumption DEF TypeOK, CheckErr, Refuses, FarAhead, Past

LEMMA CheckOkType ==
    ASSUME TypeOK, NEW s \in 0 .. SeqSpace - 1, CheckOk(s)
    PROVE  /\ farfuture' = 0 /\ 0 \in 0 .. FarLimit
           /\ inseqno' \in 0 .. SeqSpace - 1
           /\ late' \subseteq 0 .. Slots - 1
<1>1. farfuture' = 0 /\ 0 \in 0 .. FarLimit
  BY ReplayWindowAssumption DEF CheckOk
<1>2. inseqno' \in 0 .. SeqSpace - 1
  BY ReplayWindowAssumption DEF CheckOk, TypeOK
<1>3. \A i \in inseqno .. s - 1 : Slot(i) \in 0 .. Slots - 1
  BY SlotType, ReplayWindowAssumption DEF TypeOK
<1>4. Skipped(s) \subseteq 0 .. Slots - 1
  BY <1>3 DEF Skipped, TypeOK
<1>5. QED BY <1>1, <1>2, <1>4 DEF CheckOk

LEMMA TypeStep ==
    ASSUME TypeOK, [Next]_vars
    PROVE  TypeOK'
<1>1. ASSUME NEW n \in 1 .. Batch, Alloc(n) PROVE TypeOK'
  BY <1>1, ReplayWindowAssumption DEF TypeOK, Alloc, window
<1> SUFFICES ASSUME ~ \E n \in 1 .. Batch : Alloc(n) PROVE TypeOK'
  BY <1>1
<1>2. ASSUME NEW n \in sent, Deliver(n), UNCHANGED <<outseqno, sent>>, punted' \subseteq punted
      PROVE  TypeOK'
  <2>1. Wire(n) \in 0 .. SeqSpace - 1
    BY WireType DEF TypeOK
  <2>2. /\ farfuture' \in 0 .. FarLimit /\ inseqno' \in 0 .. SeqSpace - 1
        /\ late' \subseteq 0 .. Slots - 1
    BY <1>2, <2>1, CheckOkType DEF Deliver
  <2>3. QED BY <1>2, <2>2 DEF TypeOK, Deliver
<1>3. ASSUME NEW n \in sent, CheckErr(Wire(n)), UNCHANGED <<outseqno, sent, delivered, replayed>>,
             punted' \subseteq punted \cup {n}, dropped' \in Nat
      PROVE  TypeOK'
  <2>1. Wire(n) \in 0 .. SeqSpace - 1
    BY WireType DEF TypeOK
  <2>2. farfuture' \in 0 .. FarLimit /\ inseqno' = inseqno /\ late' = late
    BY <1>3, <2>1, CheckErrType
  <2>3. QED BY <1>3, <2>2 DEF TypeOK
<1>4. ASSUME NEW n \in sent, FastAccept(n) PROVE TypeOK'
  BY <1>2, <1>4 DEF FastAccept
<1>5. ASSUME NEW n \in sent, FastMiss(n) PROVE TypeOK'
  BY <1>5 DEF FastMiss, TypeOK, window
<1>6. ASSUME NEW n \in sent, FastRefuse(n) PROVE TypeOK'
  BY <1>3, <1>6 DEF FastRefuse, TypeOK
<1>7. ASSUME NEW n \in sent, FastRefuseFull(n) PROVE TypeOK'
  BY <1>3, <1>7 DEF FastRefuseFull, Lose, TypeOK
<1>8. ASSUME NEW n \in sent, SlowAccept(n) PROVE TypeOK'
  BY <1>2, <1>8 DEF SlowAccept
<1>9. ASSUME NEW n \in sent, SlowRefuse(n) PROVE TypeOK'
  BY <1>3, <1>9 DEF SlowRefuse, Lose, TypeOK
<1>10. CASE UNCHANGED vars
  BY <1>10 DEF TypeOK, vars, window
<1>11. QED BY <1>4, <1>5, <1>6, <1>7, <1>8, <1>9, <1>10 DEF Next

(* Every reachable state of the allocator and of the window is well-typed, *)
(* wrapped or not; in particular farfuture never passes FarLimit.          *)
THEOREM TypeCorrect == Spec => []TypeOK
<1>1. Init => TypeOK
  BY ReplayWindowAssumption, WireType DEF Init, TypeOK
<1>2. QED BY <1>1, TypeStep, PTL DEF Spec

-----------------------------------------------------------------------------
(* The numbers a key can seal: below the limit, plus one racing batch. *)
Top == KeyBase + SealLimit + Batch - 1

SentRange == sent \subseteq KeyBase .. Top - 1

LEMMA SentRangeStep ==
    ASSUME TypeOK, SentRange, KeyBase <= outseqno, [Next]_vars
    PROVE  SentRange' /\ KeyBase <= outseqno'
<1>1. ASSUME NEW n \in 1 .. Batch, Alloc(n) PROVE SentRange' /\ KeyBase <= outseqno'
  BY <1>1, ReplayWindowAssumption DEF TypeOK, SentRange, Alloc, Top
<1>2. CASE UNCHANGED <<outseqno, sent>>
  BY <1>2 DEF SentRange, Top
<1>3. QED BY <1>1, <1>2 DEF Next, vars, FastAccept, FastMiss, FastRefuse, FastRefuseFull,
                            SlowAccept, SlowRefuse

(* No two records sealed under one key carry the same wire number, however *)
(* many threads reserve past SEAL_KEY_LIMIT and wherever the key starts.   *)
THEOREM NonceUniqueCorrect == Spec => []NonceUnique
<1> DEFINE SInv == TypeOK /\ SentRange /\ KeyBase <= outseqno
<1>1. Init => SInv
  BY ReplayWindowAssumption, WireType DEF Init, TypeOK, SentRange
<1>2. SInv /\ [Next]_vars => SInv'
  BY TypeStep, SentRangeStep
<1>3. SInv => NonceUnique
  <2>1. SUFFICES ASSUME SInv, NEW m \in sent, NEW n \in sent, m < n
                 PROVE  Wire(m) # Wire(n)
    BY DEF NonceUnique, TypeOK
  <2>2. m \in Nat /\ n \in Nat /\ n - m < SeqSpace
    BY <2>1, ReplayWindowAssumption DEF SentRange, Top
  <2>3. SeqSpace \in Nat /\ SeqSpace > 0
    BY ReplayWindowAssumption
  <2>4. m % SeqSpace # n % SeqSpace
    BY <2>1, <2>2, <2>3, ModDistinct
  <2>5. QED BY <2>4 DEF Wire
<1>4. QED BY <1>1, <1>2, <1>3, PTL DEF Spec

-----------------------------------------------------------------------------
(* What `late` means, for the numbers still inside the window. *)
WindowBits ==
    \A m \in KeyBase .. inseqno - 1 :
        m >= inseqno - Slots => (Slot(m) \in late <=> m \notin delivered)

Behind == \A n \in delivered : n < inseqno

(* The inductive invariant: NoReplay needs to know which numbers the       *)
(* bitmap speaks for, and that everything accepted lies behind inseqno.    *)
IInv ==
    /\ TypeOK
    /\ SentRange /\ KeyBase <= outseqno
    /\ inseqno \in KeyBase .. Top
    /\ Behind
    /\ WindowBits
    /\ NoReplay

(* Without wrap the three branches of the check are the natural ones. *)
LEMMA Branches ==
    ASSUME NoWrap, IInv, NEW s \in sent
    PROVE  /\ s \in Nat /\ inseqno \in Nat /\ Wire(s) = s
           /\ FarAhead(s) <=> s >= inseqno + Slots
           /\ Past(s) <=> s < inseqno
           /\ Near(s) <=> (inseqno < s /\ s < inseqno + Slots)
           /\ TooOld(s) <=> s < inseqno - Slots
           /\ s \in KeyBase .. Top - 1
<1>1. s \in Nat /\ inseqno \in Nat /\ s \in KeyBase .. Top - 1
  BY ReplayWindowAssumption DEF IInv, TypeOK, SentRange
<1>2. s < SeqSpace /\ inseqno + Slots < SeqSpace
  BY <1>1, ReplayWindowAssumption DEF NoWrap, IInv, Top
<1>3. Wire(s) = s
  BY <1>1, <1>2, WireSmall
<1>4. (inseqno + Slots) % SeqSpace = inseqno + Slots
  BY <1>1, <1>2, WireSmall, ReplayWindowAssumption DEF Wire
<1>5. QED
  BY <1>1, <1>3, <1>4, ReplayWindowAssumption DEF FarAhead, Past, Near, TooOld

(* Inside the window the check refuses exactly what was accepted. *)
LEMMA ExactFromBits ==
    ASSUME NoWrap, IInv, NEW n \in sent
    PROVE  /\ (inseqno - Slots <= n /\ n < inseqno + Slots) => (Refuses(n) <=> n \in delivered)
           /\ ~Refuses(n) => n \notin delivered
<1>1. CASE n < inseqno
  BY <1>1, Branches, ReplayWindowAssumption DEF Refuses, Already, IInv, WindowBits
<1>2. CASE n >= inseqno
  BY <1>2, Branches, ReplayWindowAssumption DEF Refuses, IInv, Behind
<1>3. QED BY <1>1, <1>2, Branches

(* Accepting a record keeps the meaning of the bitmap. *)
LEMMA DeliverStep ==
    ASSUME NoWrap, IInv, NEW s \in sent, Deliver(s)
    PROVE  inseqno' \in KeyBase .. Top /\ Behind' /\ WindowBits' /\ NoReplay'
<1> DEFINE top == IF s >= inseqno THEN s + 1 ELSE inseqno
<1>0. /\ Slots \in Nat /\ Slots > 0 /\ KeyBase \in Nat /\ Top \in Nat
      /\ SeqSpace \in Nat /\ Top + Slots < SeqSpace
  BY ReplayWindowAssumption DEF NoWrap, Top
<1>1. /\ s \in Nat /\ inseqno \in Nat /\ Wire(s) = s /\ s \in KeyBase .. Top - 1
      /\ inseqno \in KeyBase .. Top /\ delivered \subseteq Nat /\ late \subseteq 0 .. Slots - 1
  BY Branches DEF IInv, TypeOK
<1>2. /\ ~Refuses(s) /\ late' = Skipped(s) \ {Slot(s)}
      /\ inseqno' = IF s >= inseqno THEN (s + 1) % SeqSpace ELSE inseqno
      /\ delivered' = delivered \cup {s}
  BY <1>1 DEF Deliver, CheckOk
<1>3. s \notin delivered
  BY <1>2, ExactFromBits
<1>4. NoReplay'
  BY <1>3 DEF Deliver, IInv, NoReplay
<1>5. inseqno' = top /\ top \in KeyBase .. Top
  <2>1. s + 1 \in Nat /\ s + 1 < SeqSpace
    BY <1>0, <1>1
  <2>2. (s + 1) % SeqSpace = s + 1
    BY <2>1, WireSmall DEF Wire
  <2>3. QED BY <2>2, <1>0, <1>1, <1>2
<1>6. Behind'
  BY <1>1, <1>2, <1>5 DEF Behind, IInv
<1>7. WindowBits'
  <2>1. SUFFICES ASSUME NEW m \in KeyBase .. top - 1, m >= top - Slots
                 PROVE  Slot(m) \in late' <=> m \notin delivered'
    BY <1>5 DEF WindowBits
  <2>2. m \in Nat /\ m < top
    BY <2>1, <1>0, <1>5
  <2>3. CASE m = s
    BY <2>3, <1>2
  <2>4. ASSUME m # s PROVE Slot(m) # Slot(s)
    <3>1. CASE m < s
      <4>1. s - m < Slots
        BY <3>1, <2>1, <2>2, <1>0, <1>1
      <4>2. QED BY <4>1, <3>1, <2>2, <1>0, <1>1, ModDistinct DEF Slot
    <3>2. CASE s < m
      <4>1. ~FarAhead(s) /\ s < inseqno
        BY <3>2, <2>2, <1>1, <1>0, Branches
      <4>2. s >= inseqno - Slots
        BY <4>1, <1>0, <1>1, <1>2, Branches DEF Refuses
      <4>3. m - s < Slots
        BY <4>1, <4>2, <3>2, <2>2, <1>0, <1>1
      <4>4. QED BY <4>3, <3>2, <2>2, <1>0, <1>1, ModDistinct DEF Slot
    <3>3. QED BY <3>1, <3>2, <2>2, <2>4, <1>1
  <2>5. ASSUME m # s PROVE Slot(m) \in Skipped(s) <=> m \notin delivered
    <3>1. CASE FarAhead(s)
      <4>1. m >= inseqno
        BY <3>1, <2>1, <2>2, <1>0, <1>1, Branches
      <4>2. m \notin delivered
        BY <4>1, <2>2, <1>1 DEF IInv, Behind
      <4>3. Slot(m) \in 0 .. Slots - 1
        BY <2>2, SlotType
      <4>4. Skipped(s) = 0 .. Slots - 1
        BY <3>1 DEF Skipped, Near
      <4>5. QED BY <4>2, <4>3, <4>4
    <3>2. CASE Near(s) /\ m >= inseqno
      <4>1. m \notin delivered
        BY <3>2, <2>2, <1>1 DEF IInv, Behind
      <4>2. m \in inseqno .. s - 1
        BY <3>2, <2>2, <2>5, <1>1, Branches
      <4>3. ~FarAhead(s)
        BY <3>2 DEF Near
      <4>4. QED BY <4>1, <4>2, <4>3, <3>2 DEF Skipped
    <3>3. CASE Near(s) /\ m < inseqno
      <4>1. \A i \in inseqno .. s - 1 : Slot(i) # Slot(m)
        <5>1. SUFFICES ASSUME NEW i \in inseqno .. s - 1 PROVE Slot(i) # Slot(m)
          OBVIOUS
        <5>2. i \in Nat /\ m < i /\ i - m < Slots
          BY <5>1, <3>3, <2>1, <2>2, <1>0, <1>1
        <5>3. QED BY <5>2, <2>2, <1>0, ModDistinct DEF Slot
      <4>2. Slot(m) \in late <=> m \notin delivered
        BY <3>3, <2>1, <2>2, <1>0, <1>1, Branches DEF IInv, WindowBits
      <4>3. ~FarAhead(s)
        BY <3>3 DEF Near
      <4>4. QED BY <4>1, <4>2, <4>3, <3>3 DEF Skipped
    <3>4. CASE ~FarAhead(s) /\ ~Near(s)
      <4>1. s <= inseqno
        BY <3>4, <1>0, <1>1, Branches
      <4>2. m < inseqno /\ m >= inseqno - Slots
        BY <4>1, <2>1, <2>2, <2>5, <1>0, <1>1
      <4>3. Slot(m) \in late <=> m \notin delivered
        BY <4>2, <2>1, <2>2, <1>0, <1>1 DEF IInv, WindowBits
      <4>4. QED BY <4>3, <3>4 DEF Skipped
    <3>5. QED BY <3>1, <3>2, <3>3, <3>4, <2>2, <1>1
  <2>6. QED BY <2>3, <2>4, <2>5, <1>2
<1>8. QED BY <1>4, <1>5, <1>6, <1>7

LEMMA IInvStep ==
    ASSUME NoWrap, IInv, [Next]_vars
    PROVE  IInv'
<1>1. TypeOK' /\ SentRange' /\ KeyBase <= outseqno'
  BY TypeStep, SentRangeStep DEF IInv
<1>2. ASSUME UNCHANGED <<inseqno, late, delivered, replayed>>
      PROVE  inseqno' \in KeyBase .. Top /\ Behind' /\ WindowBits' /\ NoReplay'
  BY <1>2 DEF IInv, Behind, WindowBits, NoReplay, Top
<1>3. CASE \E n \in sent : FastAccept(n) \/ SlowAccept(n)
  BY <1>1, <1>3, DeliverStep DEF FastAccept, SlowAccept, IInv
<1>4. CASE ~ \E n \in sent : FastAccept(n) \/ SlowAccept(n)
  <2>1. UNCHANGED <<inseqno, late, delivered, replayed>>
    BY <1>4 DEF Next, vars, window, Alloc, FastMiss, FastRefuse, FastRefuseFull, SlowRefuse,
                Lose, CheckErr
  <2>2. QED BY <1>1, <1>2, <2>1 DEF IInv
<1>5. QED BY <1>3, <1>4

LEMMA IInvInit ==
    ASSUME NoWrap, Init
    PROVE  IInv
<1>1. Wire(KeyBase) = KeyBase /\ KeyBase \in 0 .. SeqSpace - 1 /\ KeyBase \in KeyBase .. Top
  BY ReplayWindowAssumption, WireSmall DEF NoWrap, Top
<1>2. QED
  BY <1>1, ReplayWindowAssumption
     DEF Init, IInv, TypeOK, SentRange, Behind, WindowBits, NoReplay

(* While the key retires before the wire numbers wrap, no record is        *)
(* accepted twice by the window, through either receive path.              *)
THEOREM NoReplayCorrect ==
    ASSUME NoWrap
    PROVE  Spec => []NoReplay
<1>1. Init => IInv
  BY IInvInit
<1>2. IInv /\ [Next]_vars => IInv'
  BY IInvStep
<1>3. IInv => NoReplay
  BY DEF IInv
<1>4. QED BY <1>1, <1>2, <1>3, PTL DEF Spec

(* Under the same assumption the window refuses, of the records in its     *)
(* reach, exactly those it has already accepted.                           *)
THEOREM WindowExactCorrect ==
    ASSUME NoWrap
    PROVE  Spec => []WindowExact
<1>1. Init => IInv
  BY IInvInit
<1>2. IInv /\ [Next]_vars => IInv'
  BY IInvStep
<1>3. IInv => WindowExact
  BY ExactFromBits DEF WindowExact
<1>4. QED BY <1>1, <1>2, <1>3, PTL DEF Spec

=============================================================================
