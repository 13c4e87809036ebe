---------------------------- MODULE GossipProofs ----------------------------
(***************************************************************************)
(* For every mesh, a daemon's own edges are exactly its active meta        *)
(* connections, whatever lines its peers send and in whatever order.       *)
(*                                                                         *)
(* OwnEdges is inductive once the views are known to be functions on the   *)
(* pairs of nodes; nothing is assumed of the lines in the streams.  That   *)
(* those are well-formed lines is the second result, TypeCorrect: it needs *)
(* what the fold in send_everything returns, shown by a least              *)
(* counterexample, and that no daemon has a connection with itself.        *)
(***************************************************************************)
EXTENDS Gossip, FiniteSetTheorems, WellFoundedInduction, TLAPS

Shape ==
    /\ conn \in [Nodes -> [Nodes -> ConnState]]
    /\ edges = [n \in Nodes |-> [e \in Pairs |-> edges[n][e]]]

IInv == Shape /\ OwnEdges

(***************************************************************************)
(* The graph search reaches the node it starts from.                       *)
(***************************************************************************)
LEMMA ReachesSelf ==
    ASSUME NEW E, NEW n \in Nodes
    PROVE  n \in Reachable(E, n)
BY DEF Reachable

LEMMA AttrsNonzero ==
    /\ \A attr \in Attrs : attr # 0
    /\ (CHOOSE attr \in Attrs : TRUE) # 0
BY GossipAssumption

(***************************************************************************)
(* At the start the links that are up give both ends their edge.           *)
(***************************************************************************)
LEMMA IInvInit == Init => IInv
<1> SUFFICES ASSUME Init PROVE IInv
  OBVIOUS
<1>1. conn \in [Nodes -> [Nodes -> ConnState]]
  BY DEF Init, ConnState
<1>2. edges = [n \in Nodes |-> [e \in Pairs |-> edges[n][e]]]
  BY DEF Init
<1>3. ASSUME NEW n \in Nodes, NEW m \in Nodes
      PROVE  edges[n][<<n, m>>] # 0 <=> conn[n][m] = "active"
  <2>1. <<n, m>> \in Pairs
    BY DEF Pairs
  <2>2. edges[n][<<n, m>>] = UpView[<<n, m>>]
    BY <2>1, ReachesSelf DEF Init
  <2>3. UpView[<<n, m>>] # 0 <=> {n, m} \in Up
    BY <2>1, AttrsNonzero DEF UpView
  <2> QED
    BY <2>2, <2>3 DEF Init
<1> QED
  BY <1>1, <1>2, <1>3 DEF IInv, Shape, OwnEdges

(***************************************************************************)
(* A step that leaves the connections alone, and changes in every view     *)
(* only edges of other nodes, preserves the invariant.                     *)
(***************************************************************************)
LEMMA Foreign ==
    ASSUME IInv,
           UNCHANGED conn,
           edges' = [k \in Nodes |-> [e \in Pairs |-> edges'[k][e]]],
           \A k, m \in Nodes : edges'[k][<<k, m>>] = edges[k][<<k, m>>]
    PROVE  IInv'
<1>1. Shape'
  BY DEF IInv, Shape
<1>2. OwnEdges'
  <2> SUFFICES ASSUME NEW k \in Nodes, NEW m \in Nodes
               PROVE  edges'[k][<<k, m>>] # 0 <=> conn'[k][m] = "active"
    BY DEF OwnEdges
  <2>1. edges[k][<<k, m>>] # 0 <=> conn[k][m] = "active"
    BY DEF IInv, OwnEdges
  <2>2. edges'[k][<<k, m>>] = edges[k][<<k, m>>]
    OBVIOUS
  <2>3. conn' = conn
    OBVIOUS
  <2> QED
    BY <2>1, <2>2, <2>3
<1> QED
  BY <1>1, <1>2 DEF IInv

(* A view is a function on the pairs of nodes. *)
IsView(E) == E = [e \in Pairs |-> E[e]]

(***************************************************************************)
(* Replacing the view of one node by a view keeps the shape of `edges`.    *)
(***************************************************************************)
LEMMA SetView ==
    ASSUME Shape, NEW n \in Nodes, NEW E, IsView(E),
           edges' = [edges EXCEPT ![n] = E]
    PROVE  /\ edges' = [k \in Nodes |-> [e \in Pairs |-> edges'[k][e]]]
           /\ edges'[n] = E
           /\ \A k \in Nodes : k # n => edges'[k] = edges[k]
<1>1. edges' = [k \in Nodes |-> IF k = n THEN E ELSE edges[k]]
  BY DEF Shape
<1>2. \A k \in Nodes : edges[k] = [e \in Pairs |-> edges[k][e]]
  BY DEF Shape
<1>3. edges'[n] = E /\ \A k \in Nodes : k # n => edges'[k] = edges[k]
  BY <1>1
<1>4. \A k \in Nodes : edges'[k] = [e \in Pairs |-> edges'[k][e]]
  BY <1>2, <1>3 DEF IsView
<1>5. edges' = [k \in Nodes |-> edges'[k]]
  BY <1>1
<1>6. edges' = [k \in Nodes |-> [e \in Pairs |-> edges'[k][e]]]
  BY <1>4, <1>5
<1> QED
  BY <1>3, <1>6

LEMMA ShapeView == ASSUME Shape, NEW n \in Nodes PROVE IsView(edges[n])
BY DEF Shape, IsView

(***************************************************************************)
(* on_del_edge never takes away an edge of the node that runs it: the line *)
(* is about another node's edge, and the search always reaches the node    *)
(* itself.                                                                 *)
(***************************************************************************)
LEMMA DeletedForeign ==
    ASSUME Shape, NEW n \in Nodes, NEW a, NEW b, a # n
    PROVE  /\ IsView(Deleted(n, a, b))
           /\ \A m \in Nodes : Deleted(n, a, b)[<<n, m>>] = edges[n][<<n, m>>]
<1> DEFINE E == [edges[n] EXCEPT ![<<a, b>>] = 0]
           F == [E EXCEPT ![<<b, n>>] = 0]
<1>a. E = [edges[n] EXCEPT ![<<a, b>>] = 0] /\ F = [E EXCEPT ![<<b, n>>] = 0]
  OBVIOUS
<1>b. Deleted(n, a, b) = IF b \notin Reachable(E, n) THEN F ELSE E
  BY DEF Deleted
<1> HIDE DEF E, F
<1>1. IsView(E) /\ \A e \in Pairs : E[e] = IF e = <<a, b>> THEN 0 ELSE edges[n][e]
  <2>1. IsView(edges[n])
    BY ShapeView
  <2>2. E = [e \in Pairs |-> IF e = <<a, b>> THEN 0 ELSE edges[n][e]]
    BY <1>a, <2>1 DEF IsView
  <2> QED
    BY <2>2 DEF IsView
<1>2. ASSUME NEW m \in Nodes PROVE E[<<n, m>>] = edges[n][<<n, m>>]
  <2>1. <<n, m>> \in Pairs /\ <<n, m>> # <<a, b>>
    BY DEF Pairs
  <2> QED
    BY <1>1, <2>1
<1>3. CASE b \notin Reachable(E, n)
  <2>1. b # n
    BY <1>3, ReachesSelf
  <2>2. IsView(F) /\ \A e \in Pairs : F[e] = IF e = <<b, n>> THEN 0 ELSE E[e]
    <3>1. F = [e \in Pairs |-> IF e = <<b, n>> THEN 0 ELSE E[e]]
      BY <1>a, <1>1 DEF IsView
    <3> QED
      BY <3>1 DEF IsView
  <2>3. ASSUME NEW m \in Nodes PROVE F[<<n, m>>] = E[<<n, m>>]
    <3>1. <<n, m>> \in Pairs /\ <<n, m>> # <<b, n>>
      BY <2>1 DEF Pairs
    <3> QED
      BY <2>2, <3>1
  <2>4. Deleted(n, a, b) = F
    BY <1>3, <1>b
  <2> QED
    BY <1>2, <2>2, <2>3, <2>4
<1>4. CASE b \in Reachable(E, n)
  <2>1. Deleted(n, a, b) = E
    BY <1>4, <1>b
  <2> QED
    BY <1>1, <1>2, <2>1
<1> QED
  BY <1>3, <1>4

(***************************************************************************)
(* terminate takes away the edge of the connection it closes, and no other *)
(* edge of the node that runs it.                                          *)
(***************************************************************************)
LEMMA WithdrawnOwn ==
    ASSUME Shape, NEW x \in Nodes, NEW y \in Nodes
    PROVE  /\ IsView(Withdrawn(x, y).view)
           /\ \A m \in Nodes : Withdrawn(x, y).view[<<x, m>>]
                                 = IF m = y THEN 0 ELSE edges[x][<<x, m>>]
<1> DEFINE E == [edges[x] EXCEPT ![<<x, y>>] = 0]
           F == [E EXCEPT ![<<y, x>>] = 0]
           lost == y \notin Reachable(E, x) /\ E[<<y, x>>] # 0
<1>a. E = [edges[x] EXCEPT ![<<x, y>>] = 0] /\ F = [E EXCEPT ![<<y, x>>] = 0]
  OBVIOUS
<1>b. Withdrawn(x, y).view = IF lost THEN F ELSE E
  BY DEF Withdrawn
<1> HIDE DEF E, F
<1>1. IsView(E) /\ \A e \in Pairs : E[e] = IF e = <<x, y>> THEN 0 ELSE edges[x][e]
  <2>1. IsView(edges[x])
    BY ShapeView
  <2>2. E = [e \in Pairs |-> IF e = <<x, y>> THEN 0 ELSE edges[x][e]]
    BY <1>a, <2>1 DEF IsView
  <2> QED
    BY <2>2 DEF IsView
<1>2. \A m \in Nodes : E[<<x, m>>] = IF m = y THEN 0 ELSE edges[x][<<x, m>>]
  BY <1>1 DEF Pairs
<1>3. CASE lost
  <2>1. y # x
    BY <1>3, ReachesSelf
  <2>2. IsView(F) /\ \A e \in Pairs : F[e] = IF e = <<y, x>> THEN 0 ELSE E[e]
    <3>1. F = [e \in Pairs |-> IF e = <<y, x>> THEN 0 ELSE E[e]]
      BY <1>a, <1>1 DEF IsView
    <3> QED
      BY <3>1 DEF IsView
  <2>3. ASSUME NEW m \in Nodes PROVE F[<<x, m>>] = E[<<x, m>>]
    <3>1. <<x, m>> \in Pairs /\ <<x, m>> # <<y, x>>
      BY <2>1 DEF Pairs
    <3> QED
      BY <2>2, <3>1
  <2>4. Withdrawn(x, y).view = F
    BY <1>3, <1>b
  <2> QED
    BY <1>2, <2>2, <2>3, <2>4
<1>4. CASE ~ lost
  <2>1. Withdrawn(x, y).view = E
    BY <1>4, <1>b
  <2> QED
    BY <1>1, <1>2, <2>1
<1> QED
  BY <1>3, <1>4
(***************************************************************************)
(* A step of n that gives it the view E, with n's own edges as they were,  *)
(* and leaves the connections alone, preserves the invariant.              *)
(***************************************************************************)
LEMMA ForeignView ==
    ASSUME IInv, NEW n \in Nodes, NEW E, IsView(E),
           UNCHANGED conn,
           edges' = [edges EXCEPT ![n] = E],
           \A m \in Nodes : E[<<n, m>>] = edges[n][<<n, m>>]
    PROVE  IInv'
<1>1. /\ edges' = [k \in Nodes |-> [e \in Pairs |-> edges'[k][e]]]
      /\ edges'[n] = E
      /\ \A k \in Nodes : k # n => edges'[k] = edges[k]
  BY SetView DEF IInv
<1>2. \A k, m \in Nodes : edges'[k][<<k, m>>] = edges[k][<<k, m>>]
  BY <1>1
<1> QED
  BY <1>1, <1>2, Foreign

(***************************************************************************)
(* No handler of a gossip line touches the reader's own edges.             *)
(***************************************************************************)
LEMMA HandleStep ==
    ASSUME IInv, NEW n \in Nodes, NEW m \in Nodes, Handle(n, m)
    PROVE  IInv'
<1> DEFINE l == Line(n, m)
<1>1. CASE AddEdgeApply(n, m)
  <2> DEFINE E == [edges[n] EXCEPT ![<<l.from, l.to>>] = l.attr]
  <2>1. /\ l.from # n
        /\ edges' = [edges EXCEPT ![n] = E]
        /\ UNCHANGED conn
    BY <1>1 DEF AddEdgeApply
  <2>2. IsView(edges[n])
    BY ShapeView DEF IInv
  <2>3. E = [e \in Pairs |-> IF e = <<l.from, l.to>> THEN l.attr ELSE edges[n][e]]
    BY <2>2 DEF IsView
  <2>4. IsView(E)
    BY <2>3 DEF IsView
  <2>5. ASSUME NEW k \in Nodes PROVE E[<<n, k>>] = edges[n][<<n, k>>]
    <3>1. <<n, k>> \in Pairs /\ <<n, k>> # <<l.from, l.to>>
      BY <2>1 DEF Pairs
    <3> QED
      BY <2>3, <3>1
  <2> HIDE DEF E, l
  <2> QED
    BY <2>1, <2>4, <2>5, ForeignView
<1>2. CASE DelEdgeApply(n, m)
  <2>1. /\ l.from # n
        /\ edges' = [edges EXCEPT ![n] = Deleted(n, l.from, l.to)]
        /\ UNCHANGED conn
    BY <1>2 DEF DelEdgeApply
  <2> HIDE DEF l
  <2>2. /\ IsView(Deleted(n, l.from, l.to))
        /\ \A k \in Nodes : Deleted(n, l.from, l.to)[<<n, k>>] = edges[n][<<n, k>>]
    BY <2>1, DeletedForeign DEF IInv
  <2> QED
    BY <2>1, <2>2, ForeignView
<1>3. CASE UNCHANGED <<edges, conn>>
  BY <1>3 DEF IInv, Shape, OwnEdges
<1> QED
  BY <1>1, <1>2, <1>3
  DEF Handle, Duplicate, AddEdgeKnown, AddEdgeCorrect, AddEdgeRefute, DelEdgeUnknown,
      DelEdgeRefute

(***************************************************************************)
(* A step of x that changes its end of the connection with y and, of the   *)
(* edges that nodes own, only x -> y, preserves the invariant when the two *)
(* agree afterwards.                                                       *)
(***************************************************************************)
LEMMA OwnView ==
    ASSUME IInv, NEW x \in Nodes, NEW y \in Nodes,
           conn' \in [Nodes -> [Nodes -> ConnState]],
           \A k, m \in Nodes : (k # x \/ m # y) => conn'[k][m] = conn[k][m],
           edges' = [k \in Nodes |-> [e \in Pairs |-> edges'[k][e]]],
           \A k \in Nodes : k # x => edges'[k] = edges[k],
           \A m \in Nodes : m # y => edges'[x][<<x, m>>] = edges[x][<<x, m>>],
           edges'[x][<<x, y>>] # 0 <=> conn'[x][y] = "active"
    PROVE  IInv'
<1>1. ASSUME NEW k \in Nodes, NEW m \in Nodes
      PROVE  edges'[k][<<k, m>>] # 0 <=> conn'[k][m] = "active"
  <2>1. CASE k = x /\ m = y
    BY <2>1
  <2>2. CASE k # x \/ m # y
    <3>1. conn'[k][m] = conn[k][m]
      BY <2>2
    <3>2. edges'[k][<<k, m>>] = edges[k][<<k, m>>]
      BY <2>2
    <3>3. edges[k][<<k, m>>] # 0 <=> conn[k][m] = "active"
      BY DEF IInv, OwnEdges
    <3> QED
      BY <3>1, <3>2, <3>3
  <2> QED
    BY <2>1, <2>2
<1>2. Shape'
  BY DEF Shape
<1>3. OwnEdges'
  BY <1>1 DEF OwnEdges
<1> QED
  BY <1>2, <1>3 DEF IInv

LEMMA IInvStep == IInv /\ [Next]_vars => IInv'
<1> SUFFICES ASSUME IInv, [Next]_vars PROVE IInv'
  OBVIOUS
<1>1. ASSUME NEW x \in Nodes, NEW y \in Nodes, Connect(x, y) PROVE IInv'
  <2>1. conn' \in [Nodes -> [Nodes -> ConnState]]
    BY <1>1 DEF Connect, IInv, Shape, ConnState
  <2>2. \A n, m \in Nodes : conn'[n][m] = "active" <=> conn[n][m] = "active"
    BY <1>1 DEF Connect, IInv, Shape, ConnState
  <2>3. UNCHANGED edges
    BY <1>1 DEF Connect
  <2> QED
    BY <2>1, <2>2, <2>3 DEF IInv, Shape, OwnEdges
<1>2. ASSUME NEW x \in Nodes, NEW y \in Nodes, NEW attr \in Attrs,
             OnAck(x, y, attr) \/ OnPongRtt(x, y, attr)
      PROVE  IInv'
  <2> DEFINE E == [edges[x] EXCEPT ![<<x, y>>] = attr]
  <2>1. /\ edges' = [edges EXCEPT ![x] = E]
        /\ conn' = [conn EXCEPT ![x][y] = "active"]
    <3>1. CASE OnAck(x, y, attr)
      BY <3>1 DEF OnAck
    <3>2. CASE OnPongRtt(x, y, attr)
      BY <3>2 DEF OnPongRtt, IInv, Shape
    <3>3. QED BY <1>2, <3>1, <3>2
  <2>2. IsView(edges[x])
    BY ShapeView DEF IInv
  <2>3. E = [e \in Pairs |-> IF e = <<x, y>> THEN attr ELSE edges[x][e]]
    BY <2>2 DEF IsView
  <2>4. IsView(E)
    BY <2>3 DEF IsView
  <2>5. E[<<x, y>>] # 0
    BY <2>3, AttrsNonzero DEF Pairs
  <2>6. \A m \in Nodes : m # y => E[<<x, m>>] = edges[x][<<x, m>>]
    BY <2>3 DEF Pairs
  <2> HIDE DEF E
  <2>7. /\ conn' \in [Nodes -> [Nodes -> ConnState]]
        /\ \A k, m \in Nodes : (k # x \/ m # y) => conn'[k][m] = conn[k][m]
        /\ conn'[x][y] = "active"
    BY <2>1 DEF IInv, Shape, ConnState
  <2>8. /\ edges' = [k \in Nodes |-> [e \in Pairs |-> edges'[k][e]]]
        /\ edges'[x] = E
        /\ \A k \in Nodes : k # x => edges'[k] = edges[k]
    BY <2>1, <2>4, SetView DEF IInv
  <2> QED
    BY <2>5, <2>6, <2>7, <2>8, OwnView
<1>3. ASSUME NEW x \in Nodes, NEW y \in Nodes, Terminate(x, y) PROVE IInv'
  <2> DEFINE E == Withdrawn(x, y).view
  <2>1. /\ edges' = [edges EXCEPT ![x] = E]
        /\ conn' = [conn EXCEPT ![x][y] = "none"]
    BY <1>3 DEF Terminate
  <2>2. /\ IsView(E)
        /\ \A m \in Nodes : E[<<x, m>>] = IF m = y THEN 0 ELSE edges[x][<<x, m>>]
    BY WithdrawnOwn DEF IInv
  <2> HIDE DEF E
  <2>3. /\ conn' \in [Nodes -> [Nodes -> ConnState]]
        /\ \A k, m \in Nodes : (k # x \/ m # y) => conn'[k][m] = conn[k][m]
        /\ conn'[x][y] = "none"
    BY <2>1 DEF IInv, Shape, ConnState
  <2>4. /\ edges' = [k \in Nodes |-> [e \in Pairs |-> edges'[k][e]]]
        /\ edges'[x] = E
        /\ \A k \in Nodes : k # x => edges'[k] = edges[k]
    BY <2>1, <2>2, SetView DEF IInv
  <2>5. edges'[x][<<x, y>>] # 0 <=> conn'[x][y] = "active"
    BY <2>2, <2>3, <2>4
  <2>6. \A m \in Nodes : m # y => edges'[x][<<x, m>>] = edges[x][<<x, m>>]
    BY <2>2, <2>4
  <2>7. /\ edges' = [k \in Nodes |-> [e \in Pairs |-> edges'[k][e]]]
        /\ \A k \in Nodes : k # x => edges'[k] = edges[k]
    BY <2>4
  <2>8. /\ conn' \in [Nodes -> [Nodes -> ConnState]]
        /\ \A k, m \in Nodes : (k # x \/ m # y) => conn'[k][m] = conn[k][m]
    BY <2>3
  <2> QED
    BY <2>5, <2>6, <2>7, <2>8, OwnView
<1>4. ASSUME NEW x \in Nodes, NEW y \in Nodes, TerminatePending(x, y) PROVE IInv'
  <2>1. conn' \in [Nodes -> [Nodes -> ConnState]]
    BY <1>4 DEF TerminatePending, IInv, Shape, ConnState
  <2>2. \A n, m \in Nodes : conn'[n][m] = "active" <=> conn[n][m] = "active"
    BY <1>4 DEF TerminatePending, IInv, Shape, ConnState
  <2>3. UNCHANGED edges
    BY <1>4 DEF TerminatePending
  <2> QED
    BY <2>1, <2>2, <2>3 DEF IInv, Shape, OwnEdges
<1>5. ASSUME NEW n \in Nodes, AgePastRequests(n) PROVE IInv'
  BY <1>5 DEF AgePastRequests, IInv, Shape, OwnEdges
<1>6. CASE UNCHANGED vars
  BY <1>6 DEF vars, IInv, Shape, OwnEdges
<1> QED
  BY <1>1, <1>2, <1>3, <1>4, <1>5, <1>6, HandleStep DEF Next

(***************************************************************************)
(* In every mesh and for every history of connections, gossip, losses and  *)
(* cache sweeps, a daemon advertises an edge of its own exactly while the  *)
(* connection behind it is past its ACK.                                   *)
(***************************************************************************)
THEOREM OwnEdgesCorrect == Spec => []OwnEdges
<1>1. IInv => OwnEdges
  BY DEF IInv
<1> QED
  BY <1>1, IInvInit, IInvStep, PTL DEF Spec

-----------------------------------------------------------------------------
(***************************************************************************)
(* What is in the streams are lines.  For send_everything this takes an    *)
(* induction over the set of edges that Everything folds, made here by a   *)
(* least counterexample.                                                   *)
(***************************************************************************)
LEMMA LeastOf ==
    ASSUME NEW T \in SUBSET Nat, T # {}
    PROVE  \E x \in T : \A y \in T : x <= y
<1> DEFINE less == {ss \in Nat \X Nat : ss[1] < ss[2]}
<1>1. IsWellFoundedOn(less, Nat)
  BY NatLessThanWellFounded, Zenon DEF OpToRel
<1>2. PICK x \in T : \A y \in T : <<y, x>> \notin less
  <2> HIDE DEF less
  <2>1. QED BY <1>1, WFMin
<1>3. ASSUME NEW y \in T PROVE x <= y
  <2>1. <<y, x>> \in Nat \X Nat /\ <<y, x>>[1] = y /\ <<y, x>>[2] = x
    OBVIOUS
  <2>2. ~(y < x)
    BY <1>2, <2>1
  <2>3. QED BY <2>2
<1>4. QED BY <1>3

Pick(s) == CHOOSE x \in s : TRUE

OneLine(E, x) == AddEdge(x[1], x[2], E[x])

(* What the fold makes of the set s, when f says what it makes of smaller  *)
(* ones.                                                                   *)
Unfold(E, f, s) == IF s = {} THEN <<>> ELSE Append(f[s \ {Pick(s)}], OneLine(E, Pick(s)))

Folds(E, f, S) == f = [s \in SUBSET S |-> Unfold(E, f, s)]

LEMMA EverythingFolds ==
    ASSUME NEW E
    PROVE  LET S == {e \in Pairs : E[e] # 0} IN Everything(E) = (CHOOSE f : Folds(E, f, S))[S]
BY DEF Everything, FoldSet, MapThenFoldSet, Folds, Unfold, OneLine, Pick

(* A set without the element the fold picks is smaller by one. *)
LEMMA PickLess ==
    ASSUME NEW s, IsFiniteSet(s), s # {}
    PROVE  /\ Pick(s) \in s /\ IsFiniteSet(s \ {Pick(s)})
           /\ Cardinality(s) \in Nat /\ Cardinality(s \ {Pick(s)}) \in Nat
           /\ Cardinality(s \ {Pick(s)}) = Cardinality(s) - 1
<1>1. Pick(s) \in s
  BY DEF Pick
<1>2. QED BY <1>1, FS_RemoveElement, FS_CardinalityType

LEMMA FoldExists ==
    ASSUME NEW S, IsFiniteSet(S), NEW E
    PROVE  \E f : Folds(E, f, S)
<1> DEFINE L(n) == {s \in SUBSET S : Cardinality(s) <= n}
           Partly(f, n) == f = [s \in L(n) |-> Unfold(E, f, s)]
           T == {n \in Nat : ~ \E f : Partly(f, n)}
<1>1. \A s \in SUBSET S : IsFiniteSet(s) /\ Cardinality(s) \in Nat /\ Cardinality(s) <= Cardinality(S)
  BY FS_Subset, FS_CardinalityType
<1>2. T = {}
  <2> SUFFICES ASSUME T # {} PROVE FALSE
    OBVIOUS
  <2>1. PICK n \in T : \A k \in T : n <= k
    <3>1. T \in SUBSET Nat
      OBVIOUS
    <3> HIDE DEF T
    <3>2. QED BY <3>1, LeastOf
  <2>2. n \in Nat /\ ~ \E f : Partly(f, n)
    BY <2>1
  <2>3. CASE n = 0
    <3> DEFINE f == [s \in L(0) |-> <<>>]
    <3>1. \A s \in L(0) : s = {}
      BY <1>1, FS_EmptySet
    <3>2. \A s \in L(0) : Unfold(E, f, s) = <<>>
      BY <3>1 DEF Unfold
    <3>3. f = [s \in L(0) |-> Unfold(E, f, s)]
      BY <3>2
    <3> HIDE DEF f
    <3>4. QED BY <2>2, <2>3, <3>3
  <2>4. CASE n # 0
    <3>1. n - 1 \in Nat /\ n - 1 \notin T
      <4> HIDE DEF T
      <4>1. QED BY <2>1, <2>2, <2>4
    <3>2. PICK f : Partly(f, n - 1)
      BY <3>1
    <3> DEFINE g == [s \in L(n) |-> Unfold(E, f, s)]
    <3>3. \A s \in L(n - 1) : f[s] = Unfold(E, f, s)
      BY <3>2
    <3>4. L(n - 1) \subseteq L(n)
      BY <1>1, <2>2, <3>1
    <3>5. \A s \in L(n - 1) : g[s] = f[s]
      BY <3>3, <3>4
    <3>6. ASSUME NEW s \in L(n), s # {} PROVE s \ {Pick(s)} \in L(n - 1)
      <4>1. IsFiniteSet(s) /\ Cardinality(s) <= n
        BY <1>1, <3>6
      <4>2. Cardinality(s) \in Nat /\ Cardinality(s \ {Pick(s)}) = Cardinality(s) - 1
        BY <3>6, <4>1, PickLess
      <4>3. Cardinality(s \ {Pick(s)}) <= n - 1
        BY <2>2, <4>1, <4>2
      <4>4. QED BY <3>6, <4>3
    <3>7. ASSUME NEW s \in L(n) PROVE Unfold(E, f, s) = Unfold(E, g, s)
      <4> HIDE DEF g, L
      <4>1. QED BY <3>5, <3>6 DEF Unfold
    <3>8. g = [s \in L(n) |-> Unfold(E, g, s)]
      BY <3>7
    <3> HIDE DEF g
    <3>9. QED BY <2>2, <3>8
  <2>5. QED BY <2>3, <2>4
<1>3. Cardinality(S) \in Nat /\ L(Cardinality(S)) = SUBSET S
  BY <1>1, FS_CardinalityType
<1>4. PICK f : Partly(f, Cardinality(S))
  BY <1>2, <1>3
<1>5. QED BY <1>3, <1>4 DEF Folds

LEMMA FoldType ==
    ASSUME NEW S, IsFiniteSet(S), NEW E, \A x \in S : OneLine(E, x) \in Lines,
           NEW f, Folds(E, f, S)
    PROVE  f[S] \in Seq(Lines)
<1> SUFFICES ASSUME f[S] \notin Seq(Lines) PROVE FALSE
  OBVIOUS
<1> DEFINE bad == {s \in SUBSET S : f[s] \notin Seq(Lines)}
           T == {Cardinality(s) : s \in bad}
<1>1. \A s \in SUBSET S : IsFiniteSet(s) /\ Cardinality(s) \in Nat
  BY FS_Subset, FS_CardinalityType
<1>2. T \in SUBSET Nat /\ T # {}
  <2>1. S \in bad /\ \A s \in bad : Cardinality(s) \in Nat
    BY <1>1
  <2> HIDE DEF bad
  <2>2. QED BY <2>1
<1>3. PICK n \in T : \A k \in T : n <= k
  <2> HIDE DEF T
  <2>1. QED BY <1>2, LeastOf
<1>4. PICK s \in bad : n = Cardinality(s)
  BY <1>3
<1>5. s \in SUBSET S /\ f[s] = Unfold(E, f, s) /\ f[s] \notin Seq(Lines)
  BY <1>4 DEF Folds
<1> HIDE DEF T
<1>6. CASE s = {}
  <2>1. f[s] = <<>>
    BY <1>5, <1>6 DEF Unfold
  <2>2. QED BY <1>5, <2>1
<1>7. CASE s # {}
  <2> DEFINE u == s \ {Pick(s)}
  <2>1. u \in SUBSET S /\ Pick(s) \in S /\ Cardinality(u) = n - 1 /\ n \in Nat
    BY <1>1, <1>4, <1>5, <1>7, PickLess
  <2> HIDE DEF u
  <2>2. u \notin bad
    <3>1. Cardinality(u) \notin T
      BY <1>3, <2>1
    <3> HIDE DEF bad
    <3>2. QED BY <3>1 DEF T
  <2>3. f[u] \in Seq(Lines) /\ OneLine(E, Pick(s)) \in Lines
    BY <2>1, <2>2
  <2>4. f[s] = Append(f[u], OneLine(E, Pick(s)))
    BY <1>5, <1>7 DEF Unfold, u
  <2> HIDE DEF bad
  <2>5. QED BY <1>5, <2>3, <2>4
<1>8. QED BY <1>6, <1>7

View == [Pairs -> Attrs \cup {0}]

LEMMA AddEdgeType ==
    \A a, b \in Nodes : /\ \A attr \in Attrs : AddEdge(a, b, attr) \in Lines
                        /\ DelEdge(a, b) \in Lines
BY DEF AddEdge, DelEdge, Lines

LEMMA EverythingType ==
    ASSUME NEW E \in View
    PROVE  Everything(E) \in Seq(Lines)
<1> DEFINE S == {e \in Pairs : E[e] # 0}
           f == CHOOSE g : Folds(E, g, S)
<1>1. IsFiniteSet(S)
  <2>1. IsFiniteSet(Pairs)
    BY GossipAssumption, FS_Product DEF Pairs
  <2>2. QED BY <2>1, FS_Subset
<1>2. ASSUME NEW x \in S PROVE OneLine(E, x) \in Lines
  <2>1. x[1] \in Nodes /\ x[2] \in Nodes /\ E[x] \in Attrs
    BY DEF Pairs, View
  <2>2. QED BY <2>1, AddEdgeType DEF OneLine
<1>3. Everything(E) = f[S]
  BY EverythingFolds
<1> HIDE DEF S
<1>4. Folds(E, f, S)
  <2>1. \E g : Folds(E, g, S)
    BY <1>1, FoldExists
  <2>2. QED BY <2>1
<1> HIDE DEF f
<1>5. QED BY <1>1, <1>2, <1>3, <1>4, FoldType
-----------------------------------------------------------------------------
(* Types. *)

Streams == [Nodes -> [Nodes -> Seq(Lines)]]

LEMMA SendType ==
    ASSUME NEW q \in Streams, NEW n \in Nodes, NEW targets, NEW lines \in Seq(Lines)
    PROVE  Send(q, n, targets, lines) \in Streams
<1> DEFINE r == [m \in Nodes |->
                   IF m \in targets /\ conn[m][n] # "none" THEN q[n][m] \o lines ELSE q[n][m]]
<1>1. ASSUME NEW m \in Nodes PROVE q[n][m] \o lines \in Seq(Lines) /\ q[n][m] \in Seq(Lines)
  <2>1. q[n][m] \in Seq(Lines)
    BY DEF Streams
  <2>2. QED BY <2>1
<1>2. r \in [Nodes -> Seq(Lines)]
  BY <1>1
<1>3. Send(q, n, targets, lines) = [q EXCEPT ![n] = r]
  BY DEF Send
<1> HIDE DEF r
<1>4. QED BY <1>2, <1>3 DEF Streams

LEMMA StreamPut ==
    ASSUME NEW q \in Streams, NEW n \in Nodes, NEW m \in Nodes, NEW z \in Seq(Lines)
    PROVE  [q EXCEPT ![n][m] = z] \in Streams
BY DEF Streams

LEMMA CutType ==
    ASSUME TypeOK, NEW x \in Nodes, NEW y \in Nodes, x # y,
           NEW kept \in Nat, kept <= Len(queue[x][y])
    PROVE  Cut(x, y, kept) \in Streams
<1> DEFINE z == IF conn[y][x] = "none" THEN <<>> ELSE SubSeq(queue[x][y], 1, kept)
           q == [queue EXCEPT ![y][x] = <<>>]
<1>1. queue \in Streams /\ <<>> \in Seq(Lines)
  BY DEF TypeOK, Streams
<1>2. queue[x][y] \in Seq(Lines)
  BY <1>1 DEF Streams
<1>3. SubSeq(queue[x][y], 1, kept) \in Seq(Lines)
  <2>1. \A i \in 1 .. kept : queue[x][y][i] \in Lines
    BY <1>2
  <2>2. QED BY <1>2, <2>1
<1>4. z \in Seq(Lines)
  BY <1>1, <1>3
<1>5. Cut(x, y, kept) = [q EXCEPT ![x][y] = z]
  BY <1>1 DEF Cut, Streams
<1>6. q \in Streams
  BY <1>1, StreamPut
<1> HIDE DEF q, z
<1>7. [q EXCEPT ![x][y] = z] \in Streams
  BY <1>4, <1>6, StreamPut
<1>8. QED BY <1>5, <1>7, Zenon

(* The next line of a stream, and the stream without it. *)
LEMMA ReadType ==
    ASSUME TypeOK, NEW n \in Nodes, NEW m \in Nodes, Readable(n, m)
    PROVE  Read(n, m) \in Streams /\ Line(n, m) \in Lines
<1>1. queue \in Streams /\ queue[m][n] \in Seq(Lines) /\ queue[m][n] # <<>>
  BY DEF TypeOK, Streams, Readable
<1>2. Tail(queue[m][n]) \in Seq(Lines) /\ Head(queue[m][n]) \in Lines
  BY <1>1
<1>3. [queue EXCEPT ![m][n] = Tail(queue[m][n])] \in Streams
  BY <1>1, <1>2, StreamPut
<1>4. QED BY <1>2, <1>3 DEF Read, Line

LEMMA ViewPut ==
    ASSUME NEW E \in View, NEW e, NEW a \in Attrs \cup {0}
    PROVE  [E EXCEPT ![e] = a] \in View
BY DEF View

LEMMA OneLineType == \A l \in Lines : <<l>> \in Seq(Lines)
OBVIOUS

LEMMA WithdrawnType ==
    ASSUME TypeOK, NEW x \in Nodes, NEW y \in Nodes
    PROVE  Withdrawn(x, y).view \in View /\ Withdrawn(x, y).lines \in Seq(Lines)
<1> DEFINE E == [edges[x] EXCEPT ![<<x, y>>] = 0]
           F == [E EXCEPT ![<<y, x>>] = 0]
           lost == y \notin Reachable(E, x) /\ E[<<y, x>>] # 0
           a == DelEdge(x, y)
           b == DelEdge(y, x)
<1>1. edges[x] \in View
  BY DEF TypeOK, View
<1>2. E \in View /\ F \in View
  BY <1>1, ViewPut
<1>3. Withdrawn(x, y).view = (IF lost THEN F ELSE E)
      /\ Withdrawn(x, y).lines = IF lost THEN <<a, b>> ELSE <<a>>
  BY DEF Withdrawn
<1>4. a \in Lines /\ b \in Lines
  BY AddEdgeType
<1> HIDE DEF E, F, a, b, lost
<1>5. <<a>> \in Seq(Lines) /\ <<a, b>> \in Seq(Lines)
  BY <1>4
<1>6. QED BY <1>2, <1>3, <1>5

LEMMA DeletedType ==
    ASSUME TypeOK, NEW n \in Nodes, NEW a, NEW b
    PROVE  Deleted(n, a, b) \in View
<1> DEFINE E == [edges[n] EXCEPT ![<<a, b>>] = 0]
           F == [E EXCEPT ![<<b, n>>] = 0]
<1>1. edges[n] \in View
  BY DEF TypeOK, View
<1>2. E \in View /\ F \in View
  BY <1>1, ViewPut
<1>3. Deleted(n, a, b) \in {E, F}
  BY DEF Deleted
<1>4. QED BY <1>2, <1>3

LEMMA TypeInit == Init => TypeOK
<1> SUFFICES ASSUME Init PROVE TypeOK
  OBVIOUS
<1>1. UpView \in View
  BY GossipAssumption DEF UpView, View
<1>2. edges \in [Nodes -> View]
  BY <1>1 DEF Init, View
<1>3. conn \in [Nodes -> [Nodes -> ConnState]]
  BY DEF Init, ConnState
<1>4. queue \in [Nodes -> [Nodes -> Seq(Lines)]] /\ seen \in [Nodes -> SUBSET Lines]
  BY DEF Init
<1>5. changes \in 0 .. MaxChanges
  BY GossipAssumption DEF Init
<1>6. QED BY <1>2, <1>3, <1>4, <1>5 DEF TypeOK, View

LEMMA BreaksType ==
    ASSUME TypeOK, NEW x \in Nodes, NEW y \in Nodes, Breaks(x, y)
    PROVE  changes' \in 0 .. MaxChanges
BY GossipAssumption DEF TypeOK, Breaks

LEMMA TypeOnAck ==
    ASSUME TypeOK, NEW x \in Nodes, NEW y \in Nodes, NEW attr \in Attrs, OnAck(x, y, attr)
    PROVE  TypeOK'
<1> DEFINE E == [edges[x] EXCEPT ![<<x, y>>] = attr]
           c == [conn EXCEPT ![x][y] = "active"]
           greeted == Send(queue, x, {y}, Everything(E))
           l == AddEdge(x, y, attr)
<1>1. /\ conn' = c /\ edges' = [edges EXCEPT ![x] = E]
      /\ seen' = [seen EXCEPT ![x] = Purged(seen[x], y)]
      /\ queue' = Send(greeted, x, Targets(c, x, {}), <<l>>) /\ UNCHANGED changes
  BY DEF OnAck
<1>2. edges[x] \in View /\ queue \in Streams
  BY DEF TypeOK, View, Streams
<1>3. E \in View
  BY <1>2, ViewPut
<1>4. Everything(E) \in Seq(Lines)
  BY <1>3, EverythingType
<1>5. <<l>> \in Seq(Lines)
  BY AddEdgeType, OneLineType
<1> HIDE DEF E, l
<1>6. greeted \in Streams
  BY <1>2, <1>4, SendType
<1> HIDE DEF greeted
<1>7. queue' \in Streams
  BY <1>1, <1>5, <1>6, SendType
<1>8. conn' \in [Nodes -> [Nodes -> ConnState]]
  BY <1>1 DEF TypeOK, ConnState
<1>9. seen' \in [Nodes -> SUBSET Lines]
  BY <1>1 DEF TypeOK, Purged
<1>10. edges' \in [Nodes -> View]
  BY <1>1, <1>3 DEF TypeOK, View
<1>11. QED BY <1>1, <1>7, <1>8, <1>9, <1>10 DEF TypeOK, Streams, View

LEMMA TypeOnPongRtt ==
    ASSUME TypeOK, NEW x \in Nodes, NEW y \in Nodes, NEW attr \in Attrs, OnPongRtt(x, y, attr)
    PROVE  TypeOK'
<1> DEFINE E == [edges[x] EXCEPT ![<<x, y>>] = attr]
           l == AddEdge(x, y, attr)
<1>1. /\ edges' = [edges EXCEPT ![x] = E]
      /\ queue' = Send(queue, x, Targets(conn, x, {}), <<l>>)
      /\ changes' = changes + 1 /\ changes < MaxChanges /\ UNCHANGED <<conn, seen>>
  BY DEF OnPongRtt, TypeOK
<1>2. edges[x] \in View /\ queue \in Streams
  BY DEF TypeOK, View, Streams
<1>3. E \in View
  BY <1>2, ViewPut
<1>4. <<l>> \in Seq(Lines)
  BY AddEdgeType, OneLineType
<1> HIDE DEF E, l
<1>5. queue' \in Streams
  BY <1>1, <1>2, <1>4, SendType
<1>6. edges' \in [Nodes -> View]
  BY <1>1, <1>3 DEF TypeOK, View
<1>7. changes' \in 0 .. MaxChanges
  BY <1>1, GossipAssumption DEF TypeOK
<1>8. QED BY <1>1, <1>5, <1>6, <1>7 DEF TypeOK, Streams, View

(* No daemon has a connection with itself: a link has two ends. *)
NoSelf == \A n \in Nodes : conn[n][n] = "none"

LEMMA LinkEnds == \A n \in Nodes : {n, n} \notin Links /\ {n, n} \notin Up
<1> SUFFICES ASSUME NEW n \in Nodes, {n, n} \in Links PROVE FALSE
  BY GossipAssumption
<1>1. Cardinality({n}) = 1
  BY FS_Singleton
<1>2. {n, n} = {n}
  OBVIOUS
<1>3. \A l \in Links : Cardinality(l) = 2
  BY GossipAssumption
<1>4. Cardinality({n}) = 2
  BY <1>2, <1>3, Zenon
<1>5. QED BY <1>1, <1>4

LEMMA NoSelfInit == Init => NoSelf
BY LinkEnds DEF Init, NoSelf

LEMMA NoSelfStep ==
    ASSUME TypeOK, NoSelf, [Next]_vars
    PROVE  NoSelf'
<1>1. ASSUME NEW x \in Nodes, NEW y \in Nodes, Connect(x, y) PROVE NoSelf'
  <2>1. x # y
    BY <1>1, LinkEnds DEF Connect
  <2>2. QED BY <1>1, <2>1 DEF Connect, TypeOK, NoSelf
<1>2. ASSUME NEW x \in Nodes, NEW y \in Nodes, NEW attr \in Attrs, OnAck(x, y, attr) PROVE NoSelf'
  <2>1. x # y /\ conn' = [conn EXCEPT ![x][y] = "active"]
    BY <1>2 DEF OnAck, NoSelf
  <2>2. QED BY <2>1 DEF TypeOK, NoSelf
<1>3. ASSUME NEW x \in Nodes, NEW y \in Nodes, Terminate(x, y) \/ TerminatePending(x, y) PROVE NoSelf'
  <2>1. conn' = [conn EXCEPT ![x][y] = "none"]
    BY <1>3 DEF Terminate, TerminatePending
  <2>2. QED BY <2>1 DEF TypeOK, NoSelf
<1>4. ASSUME NEW x \in Nodes, NEW y \in Nodes, Handle(x, y) PROVE NoSelf'
  <2>1. UNCHANGED conn
    BY <1>4 DEF Handle, Duplicate, AddEdgeKnown, AddEdgeCorrect, AddEdgeRefute, AddEdgeApply,
         DelEdgeUnknown, DelEdgeRefute, DelEdgeApply
  <2>2. QED BY <2>1 DEF NoSelf
<1>5. ASSUME (\E n \in Nodes : AgePastRequests(n))
             \/ \E x, y \in Nodes, attr \in Attrs : OnPongRtt(x, y, attr)
      PROVE  NoSelf'
  BY <1>5 DEF AgePastRequests, OnPongRtt, NoSelf
<1>6. CASE UNCHANGED vars
  BY <1>6 DEF vars, NoSelf
<1>7. QED BY <1>1, <1>2, <1>3, <1>4, <1>5, <1>6 DEF Next

LEMMA TypeTerminate ==
    ASSUME TypeOK, NoSelf, NEW x \in Nodes, NEW y \in Nodes, Terminate(x, y) \/ TerminatePending(x, y)
    PROVE  TypeOK'
<1>1. /\ Breaks(x, y) /\ conn' = [conn EXCEPT ![x][y] = "none"] /\ UNCHANGED seen
  BY DEF Terminate, TerminatePending
<1>2. changes' \in 0 .. MaxChanges
  BY <1>1, BreaksType
<1>3. conn' \in [Nodes -> [Nodes -> ConnState]]
  BY <1>1 DEF TypeOK, ConnState
<1>4. Len(queue[x][y]) \in Nat /\ x # y
  BY DEF TypeOK, NoSelf, Terminate, TerminatePending
<1>5. CASE Terminate(x, y)
  <2> DEFINE w == Withdrawn(x, y)
  <2>1. w.view \in View /\ w.lines \in Seq(Lines)
    BY WithdrawnType
  <2>2. edges' = [edges EXCEPT ![x] = w.view]
    BY <1>5 DEF Terminate
  <2>3. PICK kept \in 0 .. Len(queue[x][y]) :
           queue' = Send(Cut(x, y, kept), x, Targets(conn, x, {y}), w.lines)
    BY <1>5 DEF Terminate
  <2> HIDE DEF w
  <2>4. Cut(x, y, kept) \in Streams
    BY <1>4, CutType
  <2>5. queue' \in Streams
    BY <2>1, <2>3, <2>4, SendType
  <2>6. edges' \in [Nodes -> View]
    BY <2>1, <2>2 DEF TypeOK, View
  <2>7. QED BY <1>1, <1>2, <1>3, <2>5, <2>6 DEF TypeOK, Streams, View
<1>6. CASE TerminatePending(x, y)
  <2>1. queue' = Cut(x, y, 0) /\ UNCHANGED edges
    BY <1>6 DEF TerminatePending
  <2>2. queue' \in Streams
    BY <1>4, <2>1, CutType
  <2>3. QED BY <1>1, <1>2, <1>3, <2>1, <2>2 DEF TypeOK, Streams
<1>7. QED BY <1>5, <1>6

(* A line is read and perhaps cached, and one line may go out. *)
LEMMA TypeRead ==
    ASSUME TypeOK, NEW n \in Nodes, NEW m \in Nodes, Readable(n, m),
           seen' \in {seen, [seen EXCEPT ![n] = @ \cup {Line(n, m)}]},
           \/ queue' = Read(n, m)
           \/ \E targets : \E l \in Lines : queue' = Send(Read(n, m), n, targets, <<l>>),
           UNCHANGED <<conn, changes>>, edges' \in [Nodes -> View]
    PROVE  TypeOK'
<1>1. Read(n, m) \in Streams /\ Line(n, m) \in Lines
  BY ReadType
<1>2. seen' \in [Nodes -> SUBSET Lines]
  BY <1>1 DEF TypeOK
<1>3. queue' \in Streams
  <2>1. CASE queue' = Read(n, m)
    BY <1>1, <2>1
  <2>2. ASSUME NEW targets, NEW l \in Lines, queue' = Send(Read(n, m), n, targets, <<l>>)
        PROVE  queue' \in Streams
    BY <1>1, <2>2, SendType, OneLineType
  <2>3. QED BY <2>1, <2>2
<1>4. QED BY <1>2, <1>3 DEF TypeOK, Streams, View

LEMMA TypeHandle ==
    ASSUME TypeOK, NEW n \in Nodes, NEW m \in Nodes, Handle(n, m)
    PROVE  TypeOK'
<1> DEFINE l == Line(n, m)
           own == edges[n][<<n, l.to>>]
<1>1. Readable(n, m)
  BY DEF Handle, Duplicate, AddEdgeKnown, AddEdgeCorrect, AddEdgeRefute, AddEdgeApply,
         DelEdgeUnknown, DelEdgeRefute, DelEdgeApply, Fresh
<1>2. l \in Lines /\ l.from \in Nodes /\ l.to \in Nodes /\ edges \in [Nodes -> View]
      /\ (l.req = "ADD_EDGE" => l.attr \in Attrs)
  <2>1. l \in Lines
    BY <1>1, ReadType
  <2> HIDE DEF l
  <2>2. QED BY <2>1 DEF Lines, TypeOK, View
<1>3. own \in Attrs \cup {0}
  <2>1. <<n, l.to>> \in Pairs
    BY <1>2 DEF Pairs
  <2>2. QED BY <1>2, <2>1 DEF View
<1>4. seen' \in {seen, [seen EXCEPT ![n] = @ \cup {Line(n, m)}]} /\ UNCHANGED <<conn, changes>>
  BY DEF Handle, Duplicate, AddEdgeKnown, AddEdgeCorrect, AddEdgeRefute, AddEdgeApply,
         DelEdgeUnknown, DelEdgeRefute, DelEdgeApply, Fresh
<1>5. CASE queue' = Read(n, m) /\ UNCHANGED edges
  BY <1>1, <1>2, <1>4, <1>5, TypeRead
<1>6. ASSUME NEW x \in Lines, Reply(n, m, x), UNCHANGED edges PROVE TypeOK'
  BY <1>1, <1>2, <1>4, <1>6, TypeRead DEF Reply
<1>7. ASSUME NEW x \in Lines, Forward(n, m, x), edges' \in [Nodes -> View] PROVE TypeOK'
  BY <1>1, <1>4, <1>7, TypeRead DEF Forward
<1>8. CASE AddEdgeCorrect(n, m) \/ DelEdgeRefute(n, m)
  <2>1. Reply(n, m, AddEdge(n, l.to, own)) /\ own # 0 /\ UNCHANGED edges
    BY <1>8 DEF AddEdgeCorrect, DelEdgeRefute
  <2>2. AddEdge(n, l.to, own) \in Lines
    BY <1>2, <1>3, <2>1, AddEdgeType
  <2>3. QED BY <1>6, <2>1, <2>2
<1>9. CASE AddEdgeRefute(n, m)
  <2>1. Reply(n, m, DelEdge(n, l.to)) /\ UNCHANGED edges
    BY <1>9 DEF AddEdgeRefute
  <2>2. DelEdge(n, l.to) \in Lines
    BY <1>2, AddEdgeType
  <2>3. QED BY <1>6, <2>1, <2>2
<1>10. CASE AddEdgeApply(n, m)
  <2> DEFINE E == [edges[n] EXCEPT ![<<l.from, l.to>>] = l.attr]
  <2>1. edges' = [edges EXCEPT ![n] = E] /\ Forward(n, m, l) /\ l.req = "ADD_EDGE"
    BY <1>10 DEF AddEdgeApply
  <2>2. E \in View
    BY <1>2, <2>1, ViewPut
  <2> HIDE DEF E
  <2>3. edges' \in [Nodes -> View]
    BY <1>2, <2>1, <2>2
  <2>4. QED BY <1>2, <1>7, <2>1, <2>3
<1>11. CASE DelEdgeApply(n, m)
  <2> DEFINE E == Deleted(n, l.from, l.to)
  <2>1. edges' = [edges EXCEPT ![n] = E] /\ Forward(n, m, l)
    BY <1>11 DEF DelEdgeApply
  <2>2. E \in View
    BY DeletedType
  <2> HIDE DEF E
  <2>3. edges' \in [Nodes -> View]
    BY <1>2, <2>1, <2>2
  <2>4. QED BY <1>2, <1>7, <2>1, <2>3
<1>12. QED BY <1>5, <1>8, <1>9, <1>10, <1>11 DEF Handle, Duplicate, AddEdgeKnown, DelEdgeUnknown

LEMMA TypeStep == TypeOK /\ NoSelf /\ [Next]_vars => TypeOK'
<1> SUFFICES ASSUME TypeOK, NoSelf, [Next]_vars PROVE TypeOK'
  OBVIOUS
<1>1. ASSUME NEW x \in Nodes, NEW y \in Nodes, Connect(x, y) PROVE TypeOK'
  <2>1. conn' \in [Nodes -> [Nodes -> ConnState]]
    BY <1>1 DEF Connect, TypeOK, ConnState
  <2>2. changes' \in 0 .. MaxChanges
    BY <1>1, GossipAssumption DEF Connect, TypeOK
  <2>3. QED BY <1>1, <2>1, <2>2 DEF Connect, TypeOK
<1>2. ASSUME NEW x \in Nodes, NEW y \in Nodes, NEW attr \in Attrs, OnAck(x, y, attr) PROVE TypeOK'
  BY <1>2, TypeOnAck
<1>3. ASSUME NEW x \in Nodes, NEW y \in Nodes, NEW attr \in Attrs, OnPongRtt(x, y, attr) PROVE TypeOK'
  BY <1>3, TypeOnPongRtt
<1>4. ASSUME NEW x \in Nodes, NEW y \in Nodes, Terminate(x, y) \/ TerminatePending(x, y) PROVE TypeOK'
  BY <1>4, TypeTerminate
<1>5. ASSUME NEW x \in Nodes, NEW y \in Nodes, Handle(x, y) PROVE TypeOK'
  BY <1>5, TypeHandle
<1>6. ASSUME NEW n \in Nodes, AgePastRequests(n) PROVE TypeOK'
  BY <1>6 DEF AgePastRequests, TypeOK
<1>7. CASE UNCHANGED vars
  BY <1>7 DEF vars, TypeOK
<1>8. QED BY <1>1, <1>2, <1>3, <1>4, <1>5, <1>6, <1>7 DEF Next

(***************************************************************************)
(* Every stream carries well-formed lines and every view holds attributes  *)
(* that somebody announced or none, with the whole view send_everything    *)
(* puts on a new connection among them: no line of ADD_EDGE without an     *)
(* edge behind it leaves a daemon.                                         *)
(***************************************************************************)
THEOREM TypeCorrect == Spec => []TypeOK
<1>1. Init => TypeOK /\ NoSelf
  BY TypeInit, NoSelfInit
<1>2. TypeOK /\ NoSelf /\ [Next]_vars => (TypeOK /\ NoSelf)'
  BY TypeStep, NoSelfStep
<1>3. QED BY <1>1, <1>2, PTL DEF Spec
=============================================================================
