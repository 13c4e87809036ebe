---------------------------- MODULE ReplayWindow ----------------------------
(***************************************************************************)
(* One direction of one SPTPS datagram key: the sequence-number allocator  *)
(* of the sending daemon, an unreliable UDP path, and the receiving        *)
(* daemon's replay window, which the control thread and the data-plane     *)
(* workers share under a mutex.                                            *)
(*                                                                         *)
(* A record is named by the sender's 64-bit counter; on the wire only its  *)
(* residue modulo SeqSpace (2^32) travels.  The network keeps every sealed   *)
(* record forever and may hand any of them to the receiver at any time:    *)
(* loss, duplication and reordering of any depth.  A datagram the worker   *)
(* cannot finish is punted to the control thread, which runs the same      *)
(* check again later, with other datagrams checked in between.             *)
(***************************************************************************)
EXTENDS Integers, FiniteSets

CONSTANTS
    SeqSpace,     \* number of wire sequence numbers (2^32)
    Slots,      \* bits of the window, ReplayWindow * 8
    FarLimit,   \* far-future records refused before a resync, ReplayWindow / 4
    SealLimit,  \* SEAL_KEY_LIMIT
    Batch,      \* most sequence numbers one alloc_seqnos / tx_probe reserves
    KeyBase,    \* out_key_base: the counter when this key was installed
    BurnBound,  \* bound of the model: counters burned past SealLimit
    PuntCap     \* PUNT_CAP of the worker's punt ring

ASSUME ReplayWindowAssumption ==
    /\ SeqSpace \in Nat \ {0} /\ Slots \in Nat \ {0} /\ Slots < SeqSpace
    /\ FarLimit \in Nat /\ SealLimit \in Nat \ {0} /\ Batch \in Nat \ {0}
    /\ KeyBase \in Nat /\ BurnBound \in Nat /\ PuntCap \in Nat
    /\ SealLimit + Batch <= SeqSpace

VARIABLES
    outseqno,   \* sender: next counter value (AtomicU64 shared by all threads)
    sent,       \* sender: records sealed under this key
    inseqno,    \* receiver: next expected wire sequence number (u32)
    late,       \* receiver: slots flagged "skipped, not seen yet" (bit = 1)
    farfuture,  \* receiver: far-future records since the last accepted one
    punted,     \* receiver: records waiting for the control thread
    delivered,  \* history: records accepted
    replayed,   \* history: records accepted a second time
    dropped     \* history: far-future records lost since the last accepted one

window == <<inseqno, late, farfuture>>
vars == <<outseqno, sent, window, punted, delivered, replayed, dropped>>

(* `as u32` on the 64-bit counter; the bit of `late` a number lives in. *)
Wire(n) == n % SeqSpace
Slot(s) == s % Slots

-----------------------------------------------------------------------------
(* ReplayWindow::check, branch by branch, for the wire number s. *)

FarAhead(s) == s # inseqno /\ s >= (inseqno + Slots) % SeqSpace

Past(s) == ~FarAhead(s) /\ s < inseqno

Near(s) == ~FarAhead(s) /\ s > inseqno

TooOld(s) == inseqno >= Slots /\ s < inseqno - Slots

Already(s) == Slot(s) \notin late

Refuses(s) ==
    \/ FarAhead(s) /\ farfuture < FarLimit
    \/ Past(s) /\ (TooOld(s) \/ Already(s))

(* Err(BadSeqno): only the far-future counter can move. *)
CheckErr(s) ==
    /\ Refuses(s)
    /\ farfuture' = IF FarAhead(s) THEN farfuture + 1 ELSE farfuture
    /\ UNCHANGED <<inseqno, late>>

(* Mutant: the gap loop starts one past the expected number. *)
SkippedOffByOne(s) ==
    CASE FarAhead(s) -> 0 .. Slots - 1
      [] Near(s)     -> late \cup {Slot(i) : i \in inseqno + 1 .. s - 1}
      [] OTHER       -> late

(* Slots that read "not seen" before the record's own bit is cleared. *)
Skipped(s) ==
    CASE FarAhead(s) -> 0 .. Slots - 1
      [] Near(s)     -> late \cup {Slot(i) : i \in inseqno .. s - 1}
      [] OTHER       -> late

(* Mutants: the counter is not reset; the record's own bit is not cleared. *)
CheckOkNoReset(s) ==
    /\ ~Refuses(s)
    /\ late' = Skipped(s) \ {Slot(s)}
    /\ farfuture' = IF FarAhead(s) THEN farfuture + 1 ELSE farfuture
    /\ inseqno' = IF s >= inseqno THEN (s + 1) % SeqSpace ELSE inseqno

CheckOkKeepsBit(s) ==
    /\ ~Refuses(s)
    /\ late' = Skipped(s)
    /\ farfuture' = 0
    /\ inseqno' = IF s >= inseqno THEN (s + 1) % SeqSpace ELSE inseqno

CheckOk(s) ==
    /\ ~Refuses(s)
    /\ late' = Skipped(s) \ {Slot(s)}
    /\ farfuture' = 0
    /\ inseqno' = IF s >= inseqno THEN (s + 1) % SeqSpace ELSE inseqno

-----------------------------------------------------------------------------
(* An established session: the handshake records used up the numbers       *)
(* below KeyBase, all arrived in order, and nothing is flagged late.       *)
Init ==
    /\ outseqno = KeyBase /\ sent = {}
    /\ inseqno = Wire(KeyBase) /\ late = {} /\ farfuture = 0
    /\ punted = {}
    /\ delivered = {} /\ replayed = {} /\ dropped = 0

(* Mutant: the reservation is never refused. *)
AllocUnlimited(n) ==
    /\ outseqno < KeyBase + SealLimit + BurnBound
    /\ outseqno' = outseqno + n
    /\ sent' = sent \cup outseqno .. (outseqno + n - 1)
    /\ UNCHANGED <<window, punted, delivered, replayed, dropped>>

(* alloc_seqnos / tx_probe: one fetch_add, then the limit is judged on the *)
(* value fetched.  A refused reservation burns its numbers.                *)
Alloc(n) ==
    /\ outseqno < KeyBase + SealLimit + BurnBound
    /\ outseqno' = outseqno + n
    /\ sent' = IF outseqno - KeyBase >= SealLimit THEN sent
               ELSE sent \cup outseqno .. (outseqno + n - 1)
    /\ UNCHANGED <<window, punted, delivered, replayed, dropped>>

Deliver(n) ==
    /\ CheckOk(Wire(n))
    /\ delivered' = delivered \cup {n}
    /\ replayed' = IF n \in delivered THEN replayed \cup {n} ELSE replayed
    /\ dropped' = 0

Lose(n) ==
    /\ CheckErr(Wire(n))
    /\ dropped' = IF FarAhead(Wire(n)) THEN dropped + 1 ELSE dropped
    /\ UNCHANGED <<delivered, replayed>>

(* rx_open ran every gate and committed the record to the window. *)
FastAccept(n) ==
    /\ n \in sent
    /\ Deliver(n)
    /\ UNCHANGED <<outseqno, sent, punted>>

PuntRoom == Cardinality(punted) < PuntCap

(* rx_probe / rx_open missed a gate before the commit. *)
FastMiss(n) ==
    /\ n \in sent
    /\ PuntRoom /\ punted' = punted \cup {n}
    /\ UNCHANGED <<outseqno, sent, window, delivered, replayed, dropped>>

(* rx_open's commit was refused: the datagram falls through to the slow    *)
(* path like any other miss.                                               *)
FastRefuse(n) ==
    /\ n \in sent
    /\ PuntRoom /\ punted' = punted \cup {n}
    /\ CheckErr(Wire(n))
    /\ UNCHANGED <<outseqno, sent, delivered, replayed, dropped>>

(* The same with the punt ring full: PuntQueue::push drops the datagram. *)
FastRefuseFull(n) ==
    /\ n \in sent
    /\ ~PuntRoom
    /\ Lose(n)
    /\ UNCHANGED <<outseqno, sent, punted>>

(* on_shard_punt -> handle_incoming_vpn_packet -> open_data_into. *)
SlowAccept(n) ==
    /\ n \in punted
    /\ punted' = punted \ {n}
    /\ Deliver(n)
    /\ UNCHANGED <<outseqno, sent>>

SlowRefuse(n) ==
    /\ n \in punted
    /\ punted' = punted \ {n}
    /\ Lose(n)
    /\ UNCHANGED <<outseqno, sent>>

Next ==
    \/ \E n \in 1 .. Batch : Alloc(n)
    \/ \E n \in sent :
          \/ FastAccept(n) \/ FastMiss(n) \/ FastRefuse(n) \/ FastRefuseFull(n)
          \/ SlowAccept(n) \/ SlowRefuse(n)

Spec == Init /\ [][Next]_vars

-----------------------------------------------------------------------------
TypeOK ==
    /\ outseqno \in Nat /\ sent \subseteq Nat
    /\ inseqno \in 0 .. SeqSpace - 1 /\ late \subseteq 0 .. Slots - 1
    /\ farfuture \in 0 .. FarLimit
    /\ punted \subseteq sent /\ delivered \subseteq sent
    /\ replayed \subseteq delivered /\ dropped \in Nat

(* The key retires before its numbers, and a window ahead of them, reach   *)
(* the end of the wire space.  It holds of every session that was never    *)
(* rekeyed in band: KeyBase <= 3, SEAL_KEY_LIMIT = 2^32 - 2^16, Batch = 64. *)
NoWrap == KeyBase + SealLimit + Batch + Slots <= SeqSpace

(* No record is accepted twice, whatever the network repeats and whichever *)
(* of the two receive paths sees it ("REJECTS reused seqnos, doesn't       *)
(* accept-twice", shard/probe.rs).                                         *)
NoReplay == replayed = {}

(* The nonce of every record sealed under the key is its own: the numbers  *)
(* reserved past SEAL_KEY_LIMIT by a racing batch do not come round again. *)
NonceUnique == \A m, n \in sent : Wire(m) = Wire(n) => m = n

(* Inside the window the check is exact: a record is refused if and only   *)
(* if it was accepted before.  No sequence of gaps, resyncs and late       *)
(* arrivals makes the bitmap forget a record or blame a fresh one.         *)
WindowExact ==
    \A n \in sent :
        (inseqno - Slots <= n /\ n < inseqno + Slots)
            => (Refuses(n) <=> n \in delivered)

(* With no datagram waiting for the control thread, a resync happens only  *)
(* after FarLimit datagrams were dropped as too far ahead ("the first      *)
(* win/4 such packets are dropped", state.rs).                             *)
DropBudget ==
    [][\A n \in sent :
          (/\ FarAhead(Wire(n)) /\ punted = {}
           /\ n \notin delivered /\ n \in delivered')
              => dropped >= FarLimit]_vars

=============================================================================
