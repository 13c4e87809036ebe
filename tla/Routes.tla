------------------------------- MODULE Routes -------------------------------
(* The routing every daemon computes for itself from the same mesh: the    *)
(* breadth-first search with its indirect-to-direct upgrade, the sticky    *)
(* next hops kept across recomputations, and the spanning tree broadcasts  *)
(* follow (graph/mod.rs, broadcast.rs). Gossip is taken as converged: each *)
(* change of the mesh is followed by run_graph on every daemon.            *)
EXTENDS Integers, Sequences, FiniteSets, FiniteSetsExt, SequencesExt

CONSTANTS
    Routers,      \* daemons, 1 .. n as their names are ordered
    Links,        \* pairs that may be connected
    Indirect,     \* those of them whose edges carry OPTION_INDIRECT
    Weights,      \* edge weights
    StickyPct,    \* STICKY_THRESHOLD_PCT
    MaxChanges    \* bound: changes of the mesh

Down == -1    \* not connected
Half == -2    \* only one of the two edges is known

ASSUME RoutesAssumption ==
    /\ Routers = 1 .. Cardinality(Routers) /\ Links \subseteq SUBSET Routers
    /\ \A l \in Links : Cardinality(l) = 2
    /\ Indirect \subseteq Links /\ Weights \subseteq Nat /\ {StickyPct, MaxChanges} \subseteq Nat

VARIABLES mesh, routes, changes

routesVars == <<mesh, routes, changes>>

(* Links with both edges; edges without their reverse are skipped. *)
Up(m) == {l \in Links : m[l] \in Weights}

Neighbours(m, n) == SelectSeq([i \in Routers |-> i], LAMBDA t : {n, t} \in Up(m))

NoRoute == [dist |-> -1]

-----------------------------------------------------------------------------
(* sssp_sticky: what visiting the edge n -> to makes of the search.        *)

(* Skip if (already direct or new path indirect) and not lighter. *)
Skips(p, indirect, hops, wdist) ==
    /\ p # NoRoute
    /\ ~p.indirect \/ indirect
    /\ p.dist # hops \/ p.wdist <= wdist

Relax(m, me, prev, n, acc, to) ==
    LET r == acc.route[n]
        p == acc.route[to]
        indirect == r.indirect \/ {n, to} \in Indirect
        hops == r.dist + 1
        wdist == r.wdist + m[{n, to}]
        nh == IF r.nexthop = me THEN to ELSE r.nexthop
        kept == IF prev[to] # NoRoute /\ prev[to].nexthop = nh /\ (p = NoRoute \/ p.dist = hops)
                THEN [acc EXCEPT !.sticky[to] = IF @ = -1 THEN wdist ELSE Min({@, wdist})]
                ELSE acc
        fresh == p = NoRoute \/ (p.dist = hops /\ p.wdist > wdist)
        new == [indirect |-> indirect, dist |-> hops,
                wdist |-> IF fresh THEN wdist ELSE p.wdist,
                nexthop |-> IF fresh THEN nh ELSE p.nexthop,
                via |-> IF indirect THEN r.via ELSE to]
    IN IF to = me THEN acc
       ELSE IF Skips(p, indirect, hops, wdist) THEN kept
       ELSE [kept EXCEPT !.route[to] = new, !.todo = Append(@, to)]

RECURSIVE Search(_, _, _, _)
Search(m, me, prev, acc) ==
    IF acc.todo = <<>> THEN acc
    ELSE LET n == Head(acc.todo) IN
         Search(m, me, prev,
                FoldLeft(LAMBDA a, to : Relax(m, me, prev, n, a, to),
                         [acc EXCEPT !.todo = Tail(@)], Neighbours(m, n)))

(* Mutant: the old next hop is kept without asking whether it still leads  *)
(* to the node.                                                            *)
StickBlind(new, old, sticky) ==
    IF new # NoRoute /\ old # NoRoute THEN [new EXCEPT !.nexthop = old.nexthop] ELSE new

(* sticky_post_pass *)
Stick(new, old, sticky) ==
    IF /\ new # NoRoute /\ old # NoRoute
       /\ old.nexthop # new.nexthop /\ sticky # -1
       /\ sticky * 100 <= new.wdist * StickyPct
    THEN [new EXCEPT !.nexthop = old.nexthop, !.wdist = sticky]
    ELSE new

Sssp(m, me, prev) ==
    LET self == [indirect |-> FALSE, dist |-> 0, wdist |-> 0, nexthop |-> me, via |-> me]
        end == Search(m, me, prev,
                      [route |-> [n \in Routers |-> IF n = me THEN self ELSE NoRoute],
                       sticky |-> [n \in Routers |-> -1], todo |-> <<me>>])
    IN [n \in Routers |-> Stick(end.route[n], prev[n], end.sticky[n])]

-----------------------------------------------------------------------------
(* mst: all edges by weight and names, from the first whose origin is      *)
(* reachable, starting over after progress that followed a skip.           *)
EdgeAt(m, l, from, to) == IF m[l] = Half THEN from < to ELSE m[l] # Down

EdgeWeight(m, l) == IF m[l] = Half THEN Min(Weights) ELSE m[l]

WeightOrder(m) ==
    LET n == Cardinality(Routers)
        at(k) == <<k \div (n * n), 1 + ((k \div n) % n), 1 + (k % n)>>
        all == [k \in 1 .. (Max(Weights) + 1) * n * n |-> at(k - 1)]
    IN SelectSeq(all, LAMBDA e : /\ {e[2], e[3]} \in Links
                                 /\ EdgeAt(m, {e[2], e[3]}, e[2], e[3])
                                 /\ EdgeWeight(m, {e[2], e[3]}) = e[1])

(* Mutant: no rewind, one pass over the edges. *)
RewindsNever(skipped) == FALSE

Rewinds(skipped) == skipped

RECURSIVE Kruskal(_, _, _, _, _, _)
Kruskal(m, order, i, skipped, seen, tree) ==
    IF i > Len(order) THEN tree
    ELSE LET l == {order[i][2], order[i][3]} IN
         IF m[l] = Half \/ (order[i][2] \in seen) = (order[i][3] \in seen)
         THEN Kruskal(m, order, i + 1, TRUE, seen, tree)
         ELSE Kruskal(m, order, IF Rewinds(skipped) THEN 1 ELSE i + 1, FALSE,
                      seen \cup l, tree \cup {l})

Mst(m, reachable) ==
    LET order == WeightOrder(m)
        starts == {i \in DOMAIN order : order[i][2] \in reachable}
    IN IF starts = {} THEN {}
       ELSE Kruskal(m, order, 1, FALSE, {order[Min(starts)][2]}, {})

Reachable(r) == {n \in Routers : r[n] # NoRoute}

-----------------------------------------------------------------------------
RoutesInit ==
    /\ mesh \in [Links -> Weights \cup {Down}]
    /\ routes = [s \in Routers |-> Sssp(mesh, s, [n \in Routers |-> NoRoute])]
    /\ changes = 0

(* ADD_EDGE or DEL_EDGE of one or both edges, or a new weight; then        *)
(* run_graph_and_log everywhere.                                           *)
MeshChanges(l, state) ==
    /\ changes < MaxChanges /\ changes' = changes + 1
    /\ mesh' = [mesh EXCEPT ![l] = state]
    /\ routes' = [s \in Routers |-> Sssp(mesh', s, routes[s])]

RoutesNext == \E l \in Links, state \in Weights \cup {Down, Half} : MeshChanges(l, state)

RoutesSpec == RoutesInit /\ [][RoutesNext]_routesVars

-----------------------------------------------------------------------------
(* The reference: who is connected to whom. *)
RECURSIVE Component(_, _)
Component(links, set) ==
    LET more == set \cup UNION {l \in links : l \cap set # {}}
    IN IF more = set THEN set ELSE Component(links, more)

RECURSIVE Arrives(_, _, _)
Arrives(s, t, hops) ==
    \/ s = t
    \/ /\ hops > 0 /\ routes[s][t] # NoRoute
       /\ {s, routes[s][t].nexthop} \in Up(mesh)
       /\ Arrives(routes[s][t].nexthop, t, hops - 1)

(* Exactly the connected daemons have a route, and a message handed from   *)
(* next hop to next hop, each daemon going by its own table with its own   *)
(* sticky past, arrives: "the old nexthop provably still reaches n".       *)
NextHopsArrive ==
    \A s, t \in Routers :
        /\ (routes[s][t] # NoRoute) <=> t \in Component(Up(mesh), {s})
        /\ routes[s][t] # NoRoute => Arrives(s, t, Cardinality(Routers))

(* "Loop-free, every node sees the packet once": the tree spans the        *)
(* component it starts in with one link less than it has daemons, whatever *)
(* half-known edges sort first.                                            *)
TreeSpans ==
    \A s \in Routers :
        LET reach == Reachable(routes[s])
            tree == Mst(mesh, reach)
        IN /\ Component(tree, {s}) = reach
           /\ Cardinality(tree) = Cardinality(reach) - 1
=============================================================================
