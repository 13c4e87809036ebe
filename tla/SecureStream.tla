---------------------------- MODULE SecureStream ----------------------------
(***************************************************************************)
(* What a stream-framed SPTPS session promises the meta-protocol: after    *)
(* each end has seen HandshakeDone, records travel in each direction in    *)
(* order, without loss or repetition, and rekeys are invisible.            *)
(***************************************************************************)
EXTENDS Naturals, Sequences

CONSTANTS Ends, Far(_)      \* the two ends, and the far end of each

VARIABLES
    ready,      \* ends that have seen HandshakeDone
    pushed,     \* number of records each end has sent
    pipe,       \* records on their way to each end
    out         \* records each end has been handed

vars == <<ready, pushed, pipe, out>>

Init ==
    /\ ready = {} /\ pushed = [e \in Ends |-> 0]
    /\ pipe = [e \in Ends |-> <<>>] /\ out = [e \in Ends |-> <<>>]

Establish(e) == ready' = ready \cup {e} /\ UNCHANGED <<pushed, pipe, out>>

Push(e) ==
    /\ e \in ready
    /\ pushed' = [pushed EXCEPT ![e] = @ + 1]
    /\ pipe' = [pipe EXCEPT ![Far(e)] = Append(@, pushed[e] + 1)]
    /\ UNCHANGED <<ready, out>>

Deliver(e) ==
    /\ e \in ready /\ pipe[e] # <<>>
    /\ out' = [out EXCEPT ![e] = Append(@, Head(pipe[e]))]
    /\ pipe' = [pipe EXCEPT ![e] = Tail(@)]
    /\ UNCHANGED <<ready, pushed>>

Next == \E e \in Ends : Establish(e) \/ Push(e) \/ Deliver(e)

(* Nothing is lost, repeated or overtaken, ... *)
Safety == Init /\ [][Next]_vars

(* ... and whatever was sent is handed over. *)
Spec == Safety /\ \A e \in Ends : WF_vars(Deliver(e))
=============================================================================
