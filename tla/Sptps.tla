------------------------------- MODULE Sptps -------------------------------
(***************************************************************************)
(* The SPTPS session state machine (tinc-sptps/src/state.rs) run by both   *)
(* ends of one connection: initial handshake, application records, and     *)
(* in-band rekeys that either end, or both at once, may start.             *)
(*                                                                         *)
(* Framing "stream" is the meta-connection: an ordered, reliable byte      *)
(* stream on which any error ends the connection.  Framing "datagram" is   *)
(* the UDP tunnel: records are lost, repeated and reordered at will, and a *)
(* record that does not fit is dropped.  The replay window appears as what *)
(* ReplayWindow proves of it: a number is accepted at most once.           *)
(*                                                                         *)
(* Cryptography is symbolic.  A KEX is a fresh name, key material is the   *)
(* pair of KEXes, a cipher is one half of it, a signature is its           *)
(* transcript, and decryption succeeds exactly under the sealing cipher.   *)
(***************************************************************************)
EXTENDS Integers, Sequences, FiniteSets

CONSTANTS
    Framing,    \* "stream" or "datagram"
    MaxKex,     \* bound: KEX records an end generates
    MaxApp      \* bound: application records an end sends

ASSUME SptpsAssumption ==
    /\ Framing \in {"stream", "datagram"}
    /\ MaxKex \in Nat \ {0} /\ MaxApp \in Nat

KexModes == {"X25519", "X25519MlKem768"}  \* SptpsKex, equal at both ends
Peers == {"I", "R"}                       \* Role::Initiator, Role::Responder
Other(p) == IF p = "I" THEN "R" ELSE "I"
Kexes(p) == {<<p, n>> : n \in 1 .. MaxKex}
None == <<>>
Ciphers == {None} \cup [mat : Kexes("I") \X Kexes("R"), half : {0, 1}]

VARIABLES
    kexmode,    \* the session's configured SptpsKex
    st,         \* State of each end
    mykex,      \* own KEX of the running handshake; its ecdh secret lives with it
    hiskex,     \* the peer's KEX of the running handshake
    key,        \* derived material whose inbound half is not installed yet
    incipher, outcipher,
    outseqno,   \* records sealed or sent in the clear, in either framing
    inseqno,    \* next record of the stream / of the plaintext datagram phase
    seen,       \* datagram: numbers the replay window has taken
    net,        \* records on their way to each end
    failed,     \* stream: the end returned an error, the connection is gone
    nkex, napp, \* KEXes generated and application records sent
    done,       \* HandshakeDone events
    got         \* application records handed to the daemon, in order

handshake == <<st, mykex, hiskex, key, incipher, outcipher>>
history == <<nkex, napp, done, got>>
vars == <<kexmode, handshake, outseqno, inseqno, seen, net, failed, history>>

-----------------------------------------------------------------------------
(* Mutant: the half depends on the role alone. *)
KeyHalfByRole(p, mat, outbound) ==
    [mat |-> mat, half |-> IF p = "I" THEN 1 ELSE 0]

(* key_half: the initiator seals with half 1, the responder with half 0. *)
KeyHalf(p, mat, outbound) ==
    [mat |-> mat, half |-> IF (p = "I") = outbound THEN 1 ELSE 0]

(* Mutant: own KEX first. *)
MaterialByEnd(p, mine, his) == <<mine, his>>

(* generate_key_material orders the two KEXes by role, not by end. *)
Material(p, mine, his) == IF p = "I" THEN <<mine, his>> ELSE <<his, mine>>

(* sig_transcript: the signer's role bit, its own KEX first. *)
Transcript(signer, mine, his) == [bit |-> signer, kex_a |-> mine, kex_b |-> his]

Rec(cipher, ty, body) == [cipher |-> cipher, ty |-> ty, body |-> body]

(* send_record_priv for each record in turn: the counter ticks once per    *)
(* record, encrypted or not.                                               *)
Emit(p, recs) ==
    /\ outseqno' = [outseqno EXCEPT ![p] = @ + Len(recs)]
    /\ net' = [net EXCEPT ![Other(p)] = @ \cup
                  {[seqno |-> outseqno[p] + i - 1, rec |-> recs[i]] : i \in 1 .. Len(recs)}]

(* receive consumed one record of p and p answers with recs. *)
Answer(p, m, recs) ==
    /\ outseqno' = [outseqno EXCEPT ![p] = @ + Len(recs)]
    /\ net' = [net EXCEPT
                  ![Other(p)] = @ \cup
                      {[seqno |-> outseqno[p] + i - 1, rec |-> recs[i]] : i \in 1 .. Len(recs)},
                  ![p] = IF Framing = "stream" THEN @ \ {m} ELSE @]

Init ==
    LET kex(p) == <<p, 1>> IN
    /\ kexmode \in KexModes
    /\ st = [p \in Peers |-> "Kex"]
    /\ mykex = [p \in Peers |-> kex(p)] /\ hiskex = [p \in Peers |-> None]
    /\ key = [p \in Peers |-> None]
    /\ incipher = [p \in Peers |-> None] /\ outcipher = [p \in Peers |-> None]
    /\ outseqno = [p \in Peers |-> 1] /\ inseqno = [p \in Peers |-> 0]
    /\ seen = [p \in Peers |-> {}]
    /\ net = [p \in Peers |-> {[seqno |-> 0, rec |-> Rec(None, "kex", kex(Other(p)))]}]
    /\ failed = [p \in Peers |-> FALSE]
    /\ nkex = [p \in Peers |-> 1] /\ napp = [p \in Peers |-> 0]
    /\ done = [p \in Peers |-> 0] /\ got = [p \in Peers |-> <<>>]

-----------------------------------------------------------------------------
(* Calls from the daemon. *)

NewKex(p) == <<p, nkex[p] + 1>>

(* Mutant: a rekey may start while another one is running. *)
ForceKexAnytime(p) ==
    /\ ~failed[p] /\ nkex[p] < MaxKex
    /\ outcipher[p] # None
    /\ st' = [st EXCEPT ![p] = "Kex"]
    /\ mykex' = [mykex EXCEPT ![p] = NewKex(p)]
    /\ nkex' = [nkex EXCEPT ![p] = @ + 1]
    /\ Emit(p, <<Rec(outcipher[p], "kex", NewKex(p))>>)
    /\ UNCHANGED <<kexmode, hiskex, key, incipher, outcipher, inseqno, seen, failed, napp, done, got>>

(* force_kex: only between handshakes. *)
ForceKex(p) ==
    /\ ~failed[p] /\ nkex[p] < MaxKex
    /\ outcipher[p] # None /\ st[p] = "SecondaryKex"
    /\ st' = [st EXCEPT ![p] = "Kex"]
    /\ mykex' = [mykex EXCEPT ![p] = NewKex(p)]
    /\ nkex' = [nkex EXCEPT ![p] = @ + 1]
    /\ Emit(p, <<Rec(outcipher[p], "kex", NewKex(p))>>)
    /\ UNCHANGED <<kexmode, hiskex, key, incipher, outcipher, inseqno, seen, failed, napp, done, got>>

(* Mutant: ready as soon as there is a cipher. *)
AppSendReadyCipher(p) == outcipher[p] # None

(* app_send_ready *)
AppSendReady(p) == outcipher[p] # None /\ st[p] # "Confirm"

(* send_record / seal_data_into: also in the middle of a rekey. *)
SendApp(p) ==
    /\ ~failed[p] /\ napp[p] < MaxApp
    /\ AppSendReady(p)
    /\ napp' = [napp EXCEPT ![p] = @ + 1]
    /\ Emit(p, <<Rec(outcipher[p], "app", napp[p] + 1)>>)
    /\ UNCHANGED <<kexmode, handshake, inseqno, seen, failed, nkex, done, got>>

-----------------------------------------------------------------------------
(* Framing: which record is next, and does it open? *)

Plain(p) == incipher[p] = None

(* The stream hands over the record at its read position; the plaintext    *)
(* datagram phase insists on the very next number; afterwards any datagram *)
(* that decrypts and that the replay window has not taken.                 *)
Arrives(p, m) ==
    /\ ~failed[p] /\ m \in net[p]
    /\ \/ Framing = "stream" /\ m.seqno = inseqno[p]
       \/ Framing = "datagram" /\ Plain(p) /\ m.seqno = inseqno[p]
       \/ Framing = "datagram" /\ ~Plain(p) /\ m.rec.cipher = incipher[p]
                               /\ m.seqno \notin seen[p]

Opens(p, m) == m.rec.cipher = incipher[p]

(* The number is spent before the record is looked at. *)
Consume(p, m) ==
    /\ inseqno' = [inseqno EXCEPT ![p] = IF Framing = "stream" \/ Plain(p) THEN @ + 1 ELSE @]
    /\ seen' = [seen EXCEPT ![p] = IF Framing = "datagram" THEN @ \cup {m.seqno} ELSE @]

(* Mutants: a KEX is taken in any state; a KEX between handshakes is not taken. *)
KexOkAnyState(p, m) == m.rec.ty = "kex" /\ hiskex[p] = None

KexOkNoSecondary(p, m) == m.rec.ty = "kex" /\ st[p] = "Kex" /\ hiskex[p] = None

(* receive_handshake in Kex and SecondaryKex, with receive_kex. *)
KexOk(p, m) ==
    /\ m.rec.ty = "kex" /\ st[p] \in {"Kex", "SecondaryKex"} /\ hiskex[p] = None

ReceiveKex(p, m) ==
    LET answering == st[p] = "SecondaryKex"
        mine == IF answering THEN NewKex(p) ELSE mykex[p]
        his  == m.rec.body
        kexs == IF answering THEN <<Rec(outcipher[p], "kex", mine)>> ELSE <<>>
        sigs == IF p = "I" THEN <<Rec(outcipher[p], "sig", Transcript(p, mine, his))>> ELSE <<>>
    IN
    /\ Arrives(p, m) /\ Opens(p, m) /\ KexOk(p, m)
    /\ answering => nkex[p] < MaxKex
    /\ Consume(p, m)
    /\ mykex' = [mykex EXCEPT ![p] = mine]
    /\ hiskex' = [hiskex EXCEPT ![p] = his]
    /\ nkex' = [nkex EXCEPT ![p] = IF answering THEN @ + 1 ELSE @]
    /\ st' = [st EXCEPT ![p] = "Sig"]
    /\ Answer(p, m, kexs \o sigs)
    /\ UNCHANGED <<kexmode, key, incipher, outcipher, failed, napp, done, got>>

(* receive_handshake in Sig, with receive_sig: the responder's SIG and a   *)
(* rekey's ACK still leave under the old cipher, then outcipher switches.  *)
SigOk(p, m) ==
    /\ m.rec.ty = "sig" /\ st[p] = "Sig"
    /\ m.rec.body = Transcript(Other(p), hiskex[p], mykex[p])

(* Mutant: no key confirmation. *)
ConfirmsNever(p) == FALSE

(* Only the initial hybrid handshake waits for the peer's ACK. *)
Confirms(p) == outcipher[p] = None /\ kexmode = "X25519MlKem768"

ReceiveSig(p, m) ==
    LET was_rekey == outcipher[p] # None
        old == outcipher[p]
        mat == Material(p, mykex[p], hiskex[p])
        new == KeyHalf(p, mat, TRUE)
        confirm == Confirms(p)
        sigs == IF p = "R" THEN <<Rec(old, "sig", Transcript(p, mykex[p], hiskex[p]))>> ELSE <<>>
        acks == IF was_rekey THEN <<Rec(old, "ack", None)>>
                ELSE IF confirm THEN <<Rec(new, "ack", None)>> ELSE <<>>
    IN
    /\ Arrives(p, m) /\ Opens(p, m) /\ SigOk(p, m)
    /\ Consume(p, m)
    /\ mykex' = [mykex EXCEPT ![p] = None]
    /\ hiskex' = [hiskex EXCEPT ![p] = None]
    /\ outcipher' = [outcipher EXCEPT ![p] = new]
    /\ key' = [key EXCEPT ![p] = IF was_rekey THEN mat ELSE None]
    /\ incipher' = [incipher EXCEPT ![p] = IF was_rekey THEN @ ELSE KeyHalf(p, mat, FALSE)]
    /\ st' = [st EXCEPT ![p] = IF was_rekey THEN "Ack"
                               ELSE IF confirm THEN "Confirm" ELSE "SecondaryKex"]
    /\ done' = [done EXCEPT ![p] = IF was_rekey \/ confirm THEN @ ELSE @ + 1]
    /\ Answer(p, m, sigs \o acks)
    /\ UNCHANGED <<kexmode, failed, nkex, napp, got>>

(* receive_handshake in Ack, with receive_ack. *)
ReceiveAck(p, m) ==
    /\ Arrives(p, m) /\ Opens(p, m)
    /\ m.rec.ty = "ack" /\ st[p] = "Ack"
    /\ Consume(p, m)
    /\ incipher' = [incipher EXCEPT ![p] = KeyHalf(p, key[p], FALSE)]
    /\ key' = [key EXCEPT ![p] = None]
    /\ st' = [st EXCEPT ![p] = "SecondaryKex"]
    /\ done' = [done EXCEPT ![p] = @ + 1]
    /\ Answer(p, m, <<>>)
    /\ UNCHANGED <<kexmode, mykex, hiskex, outcipher, failed, nkex, napp, got>>

(* receive_handshake in Confirm: the peer's first record under the key. *)
ReceiveConfirm(p, m) ==
    /\ Arrives(p, m) /\ Opens(p, m)
    /\ m.rec.ty = "ack" /\ st[p] = "Confirm"
    /\ Consume(p, m)
    /\ st' = [st EXCEPT ![p] = "SecondaryKex"]
    /\ done' = [done EXCEPT ![p] = @ + 1]
    /\ Answer(p, m, <<>>)
    /\ UNCHANGED <<kexmode, mykex, hiskex, key, incipher, outcipher, failed, nkex, napp, got>>

(* Mutant: data is taken before the key is confirmed. *)
AppOkInConfirm(p, m) == m.rec.ty = "app" /\ ~Plain(p)

(* dispatch_record for application data. *)
AppOk(p, m) == m.rec.ty = "app" /\ ~Plain(p) /\ st[p] # "Confirm"

ReceiveApp(p, m) ==
    /\ Arrives(p, m) /\ Opens(p, m) /\ AppOk(p, m)
    /\ Consume(p, m)
    /\ got' = [got EXCEPT ![p] = Append(@, m.rec.body)]
    /\ Answer(p, m, <<>>)
    /\ UNCHANGED <<kexmode, handshake, failed, nkex, napp, done>>

(* BadKex, BadSig, BadAck, BadRecord, DecryptFailed: the number is spent,  *)
(* nothing else moves; on a stream the daemon drops the connection.        *)
Misfit(p, m) ==
    \/ ~Opens(p, m)
    \/ ~ \/ KexOk(p, m) \/ SigOk(p, m) \/ AppOk(p, m)
         \/ m.rec.ty = "ack" /\ st[p] \in {"Ack", "Confirm"}

ReceiveBad(p, m) ==
    /\ Arrives(p, m) /\ Misfit(p, m)
    /\ Consume(p, m)
    /\ failed' = [failed EXCEPT ![p] = Framing = "stream"]
    /\ Answer(p, m, <<>>)
    /\ UNCHANGED <<kexmode, handshake, history>>

Receive(p, m) ==
    \/ ReceiveKex(p, m) \/ ReceiveSig(p, m) \/ ReceiveAck(p, m)
    \/ ReceiveConfirm(p, m) \/ ReceiveApp(p, m) \/ ReceiveBad(p, m)

Next ==
    \E p \in Peers :
        \/ ForceKex(p) \/ SendApp(p)
        \/ \E m \in net[p] : Receive(p, m)

Spec == Init /\ [][Next]_vars

(* Each end reads its socket whenever there is a record on it; nothing     *)
(* obliges anyone to start a rekey or to send.                             *)
FairSpec == Spec /\ \A p \in Peers : WF_vars(\E m \in net[p] : Receive(p, m))

-----------------------------------------------------------------------------
TypeOK ==
    /\ kexmode \in KexModes
    /\ st \in [Peers -> {"Kex", "SecondaryKex", "Sig", "Ack", "Confirm"}]
    /\ \A p \in Peers :
          /\ mykex[p] \in {None} \cup Kexes(p) /\ hiskex[p] \in {None} \cup Kexes(Other(p))
          /\ key[p] \in {None} \cup (Kexes("I") \X Kexes("R"))
          /\ incipher[p] \in Ciphers /\ outcipher[p] \in Ciphers
          /\ seen[p] \subseteq 0 .. outseqno[Other(p)] - 1 /\ inseqno[p] <= outseqno[Other(p)]
          /\ nkex[p] \in 1 .. MaxKex /\ napp[p] \in 0 .. MaxApp /\ done[p] \in Nat

(* The `expect`s of the handshake never fire and send_kex never finds a    *)
(* KEX still pending, whatever the network repeats, loses or reorders.     *)
NoPanic ==
    \A p \in Peers :
        /\ st[p] = "Sig" => mykex[p] # None /\ hiskex[p] # None
        /\ st[p] = "Kex" => mykex[p] # None
        /\ st[p] = "Ack" => key[p] # None
        /\ st[p] = "SecondaryKex" => mykex[p] = None /\ hiskex[p] = None

(* Two ends that both believe no handshake is running use each other's     *)
(* ciphers, and never one cipher for both directions.                      *)
Agreement ==
    (\A p \in Peers : st[p] = "SecondaryKex")
        => \A p \in Peers : /\ outcipher[p] = incipher[Other(p)]
                             /\ outcipher[p] # incipher[p]

(* On an ordered stream no interleaving of rekeys, from either end or from *)
(* both at once, with application data makes an end report an error        *)
(* (the ORDER-SENSITIVE part of receive_sig).                              *)
NeverFails == \A p \in Peers : ~failed[p]

(* Hybrid: HandshakeDone waits for proof that the peer holds the same key. *)
Confirmed ==
    \A p \in Peers :
        (kexmode = "X25519MlKem768" /\ done[p] = 1 /\ nkex[p] = 1)
            => outcipher[Other(p)] = incipher[p]

(* No application record before HandshakeDone, none twice across rekeys.   *)
AppDelivery ==
    \A p \in Peers :
        /\ got[p] # <<>> => done[p] > 0
        /\ \A i, j \in 1 .. Len(got[p]) : got[p][i] = got[p][j] => i = j

(* A handshake or rekey, once begun, completes at both ends. *)
Completes ==
    \A p \in Peers : (st[p] # "SecondaryKex") ~> (st[p] = "SecondaryKex")

=============================================================================
