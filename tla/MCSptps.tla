------------------------------ MODULE MCSptps ------------------------------
(* Sptps for TLC, and the mapping of a stream session to SecureStream. *)
EXTENDS Sptps

(* What a set of application records carries, in the order they were       *)
(* sealed: the i-th has i - 1 others in front of it.                       *)
SealOrder(apps) ==
    LET ahead(m) == {x \in apps : x.seqno < m.seqno}
    IN  [i \in 1 .. Cardinality(apps) |->
            (CHOOSE m \in apps : Cardinality(ahead(m)) = i - 1).rec.body]

(* The application records in flight to p. *)
InFlight(p) == SealOrder({m \in net[p] : m.rec.ty = "app"})

Abstract == INSTANCE SecureStream WITH
    Ends <- Peers, Far <- Other,
    ready <- {p \in Peers : done[p] > 0},
    pushed <- napp,
    pipe <- [p \in Peers |-> InFlight(p)],
    out <- got

(* A stream session implements the reliable ordered channel its users      *)
(* assume, rekeys from both ends included: nothing is lost, repeated or    *)
(* overtaken, and everything sent is delivered.                            *)
ImplementsSecureStream == Abstract!Spec
=============================================================================
