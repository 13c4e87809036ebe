------------------------------- MODULE Gossip -------------------------------
(***************************************************************************)
(* The flooded topology gossip of tincd: every daemon keeps its own view   *)
(* of the directed meta-connection edges of the mesh (`Daemon::graph`) and *)
(* keeps it in step with ADD_EDGE and DEL_EDGE lines that it relays to its *)
(* other meta connections, deduplicated by the past-request cache          *)
(* (`SeenRequests`).                                                       *)
(*                                                                         *)
(* A line is <<request, from, to, attr>>: the nonce is left out because    *)
(* `normalize_key` drops it before the cache is consulted, and `attr`      *)
(* stands for the weight, options and addresses of an ADD_EDGE, which      *)
(* on_add_edge compares together (0 in a DEL_EDGE, and for an edge a view  *)
(* does not hold).                                                         *)
(*                                                                         *)
(* A meta connection is a TCP stream: in order, lossless while both ends   *)
(* keep it, and cut by `terminate` at either end.  A link is redialled     *)
(* only once both ends have dropped it; the duplicate-connection branch of *)
(* on_ack belongs to the connection life cycle.  `tunnelserver` is off.    *)
(***************************************************************************)
EXTENDS Integers, Sequences, FiniteSets, FiniteSetsExt

CONSTANTS
    Nodes,          \* the daemons of the mesh
    Links,          \* the pairs (two-element sets) that may hold a connection
    Attrs,          \* what an ADD_EDGE says of an edge; 0 means "no edge"
    Up,             \* the links that are up, with everyone told, at the start
    MaxChanges,     \* bound: how often a link comes up, breaks or is reweighed
    SeenCap,        \* SEEN_CAP: entries the past-request cache may hold
    FloodLimited,   \* whether FloodLimiter may refuse to relay
    Spacing         \* how far apart the changes of the mesh are, see Apart

ASSUME GossipAssumption ==
    /\ IsFiniteSet(Nodes)
    /\ Links \subseteq SUBSET Nodes
    /\ \A l \in Links : Cardinality(l) = 2
    /\ Attrs \subseteq Nat \ {0}
    /\ Attrs # {}
    /\ Up \subseteq Links
    /\ MaxChanges \in Nat
    /\ SeenCap \in Nat
    /\ FloodLimited \in BOOLEAN
    /\ Spacing \in {"none", "burst", "link", "mesh"}

VARIABLES
    edges,      \* edges[n][<<a, b>>]: n's view of the edge a -> b, 0 when absent
    conn,       \* conn[n][m]: n's end of its connection with m
    queue,      \* queue[n][m]: lines n has sent and m has not read
    seen,       \* seen[n]: n's past-request cache
    changes     \* how often a link came up, broke or was reweighed

vars == <<edges, conn, queue, seen, changes>>

Pairs == Nodes \X Nodes
ConnState == {"none", "pending", "active"}
Lines == [req : {"ADD_EDGE"}, from : Nodes, to : Nodes, attr : Attrs]
           \cup [req : {"DEL_EDGE"}, from : Nodes, to : Nodes, attr : {0}]

AddEdge(a, b, attr) == [req |-> "ADD_EDGE", from |-> a, to |-> b, attr |-> attr]
DelEdge(a, b) == [req |-> "DEL_EDGE", from |-> a, to |-> b, attr |-> 0]

-----------------------------------------------------------------------------
(* Helpers of the handlers.                                                *)

(***************************************************************************)
(* The nodes the graph search reaches from n in the view E: it follows an  *)
(* edge only when the reverse edge is known too.                           *)
(***************************************************************************)
Reachable(E, n) ==
    {m \in Nodes : \A S \in SUBSET Nodes :
        (/\ n \in S
         /\ \A a \in S, b \in Nodes : (E[<<a, b>>] # 0 /\ E[<<b, a>>] # 0) => b \in S)
        => m \in S}

(***************************************************************************)
(* Broadcast targets of n: the active connections except `from`.           *)
(***************************************************************************)
Targets(c, n, except) == {m \in Nodes : c[n][m] = "active" /\ m \notin except}

(***************************************************************************)
(* n appends `lines` to its streams to `targets`.  What is written to a    *)
(* stream the other end has closed is never read.                          *)
(***************************************************************************)
Send(q, n, targets, lines) ==
    [q EXCEPT ![n] = [m \in Nodes |->
        IF m \in targets /\ conn[m][n] # "none" THEN q[n][m] \o lines ELSE q[n][m]]]

(* Mutant of Everything: edges without an address entry are not skipped. *)
EverythingUnfiltered(E) ==
    FoldSet(LAMBDA e, acc : Append(acc, AddEdge(e[1], e[2], E[e])), <<>>, Pairs)

(***************************************************************************)
(* send_everything: one ADD_EDGE for every edge of the view E.             *)
(***************************************************************************)
Everything(E) ==
    FoldSet(LAMBDA e, acc : Append(acc, AddEdge(e[1], e[2], E[e])),
            <<>>, {e \in Pairs : E[e] # 0})

Mentions(l, n) == n \in {l.from, l.to}
Purged(cache, n) == {l \in cache : ~ Mentions(l, n)}

(***************************************************************************)
(* SeenRequests::check reports a line as seen when it is cached, and when  *)
(* the cache is full.                                                      *)
(***************************************************************************)
Seen(n, l) == l \in seen[n] \/ Cardinality(seen[n]) >= SeenCap

(***************************************************************************)
(* When the link {x, y} may change.  A change starts a flood that is over  *)
(* in moments, while the cache remembers its lines for a ping interval:    *)
(* "mesh" lets everything settle and age between two changes, "link" only  *)
(* the lines about the link itself, "burst" lets changes come anyhow and   *)
(* caches age between floods, and "none" lets caches age anyhow as well.   *)
(***************************************************************************)
Drained == \A n, m \in Nodes : queue[n][m] = <<>>

Settled(x, y) ==
    \A n \in Nodes :
        /\ \A l \in seen[n] : {l.from, l.to} # {x, y}
        /\ \A m \in Nodes : \A i \in 1 .. Len(queue[n][m]) :
              {queue[n][m][i].from, queue[n][m][i].to} # {x, y}

Quiet ==
    /\ Drained
    /\ \A n, m \in Nodes : conn[n][m] # "pending" /\ conn[n][m] = conn[m][n]

Apart(x, y) ==
    /\ Spacing = "link" => Settled(x, y)
    /\ Spacing = "mesh" => Quiet /\ \A n \in Nodes : seen[n] = {}

-----------------------------------------------------------------------------
(* The mesh of the links that are up at the start. *)
UpView == [e \in Pairs |-> IF {e[1], e[2]} \in Up THEN CHOOSE attr \in Attrs : TRUE ELSE 0]

Init ==
    /\ edges = [n \in Nodes |-> [e \in Pairs |->
                  IF e[1] \in Reachable(UpView, n) THEN UpView[e] ELSE 0]]
    /\ conn = [n \in Nodes |-> [m \in Nodes |->
                  IF {n, m} \in Up THEN "active" ELSE "none"]]
    /\ queue = [n \in Nodes |-> [m \in Nodes |-> <<>>]]
    /\ seen = [n \in Nodes |-> {}]
    /\ changes = 0

(***************************************************************************)
(* Two daemons connect and authenticate, and each has sent its ACK.        *)
(***************************************************************************)
Connect(x, y) ==
    /\ {x, y} \in Links
    /\ conn[x][y] = "none" /\ conn[y][x] = "none"
    /\ Apart(x, y)
    /\ changes < MaxChanges
    /\ changes' = changes + 1
    /\ conn' = [conn EXCEPT ![x][y] = "pending", ![y][x] = "pending"]
    /\ UNCHANGED <<edges, queue, seen>>

(***************************************************************************)
(* on_ack: x reads y's ACK.  It adds its own edge, forgets the cached      *)
(* lines about y, and sends y its whole view and everyone the new edge.    *)
(***************************************************************************)
OnAck(x, y, attr) ==
    LET E == [edges[x] EXCEPT ![<<x, y>>] = attr]
        c == [conn EXCEPT ![x][y] = "active"]
        greeted == Send(queue, x, {y}, Everything(E))
    IN  /\ conn[x][y] = "pending"
        /\ conn' = c
        /\ edges' = [edges EXCEPT ![x] = E]
        /\ seen' = [seen EXCEPT ![x] = Purged(seen[x], y)]
        /\ queue' = Send(greeted, x, Targets(c, x, {}), <<AddEdge(x, y, attr)>>)
        /\ UNCHANGED changes

(***************************************************************************)
(* on_pong_rtt: the smoothed round trip time has left the band around the  *)
(* weight x advertises of its edge to y, which it corrects.                *)
(***************************************************************************)
OnPongRtt(x, y, attr) ==
    /\ conn[x][y] = "active" /\ attr # edges[x][<<x, y>>]
    /\ Apart(x, y)
    /\ changes < MaxChanges
    /\ changes' = changes + 1
    /\ edges' = [edges EXCEPT ![x][<<x, y>>] = attr]
    /\ queue' = Send(queue, x, Targets(conn, x, {}), <<AddEdge(x, y, attr)>>)
    /\ UNCHANGED <<conn, seen>>

(***************************************************************************)
(* An end closes because the other end did, or breaks the link itself (an  *)
(* error, a ping timeout, a disconnect request).                           *)
(***************************************************************************)
Breaks(x, y) ==
    \/ conn[y][x] = "none" /\ UNCHANGED changes
    \/ /\ conn[y][x] # "none"
       /\ Apart(x, y)
       /\ changes < MaxChanges
       /\ changes' = changes + 1

(***************************************************************************)
(* The streams after x closes its end of the connection with y: what y     *)
(* sent is never read, and of what x sent y may still read a prefix.       *)
(***************************************************************************)
Cut(x, y, kept) ==
    [queue EXCEPT ![y][x] = <<>>,
                  ![x][y] = IF conn[y][x] = "none" THEN <<>> ELSE SubSeq(@, 1, kept)]

(***************************************************************************)
(* terminate on a connection past ACK: withdraw our edge and, when that    *)
(* made the peer unreachable, the peer's edge to us.                       *)
(***************************************************************************)
Withdrawn(x, y) ==
    LET E == [edges[x] EXCEPT ![<<x, y>>] = 0]
        lost == y \notin Reachable(E, x) /\ E[<<y, x>>] # 0
    IN  [view |-> IF lost THEN [E EXCEPT ![<<y, x>>] = 0] ELSE E,
         lines |-> IF lost THEN <<DelEdge(x, y), DelEdge(y, x)>> ELSE <<DelEdge(x, y)>>]

Terminate(x, y) ==
    /\ conn[x][y] = "active"
    /\ Breaks(x, y)
    /\ conn' = [conn EXCEPT ![x][y] = "none"]
    /\ edges' = [edges EXCEPT ![x] = Withdrawn(x, y).view]
    /\ \E kept \in 0 .. Len(queue[x][y]) :
          queue' = Send(Cut(x, y, kept), x, Targets(conn, x, {y}), Withdrawn(x, y).lines)
    /\ UNCHANGED seen

(***************************************************************************)
(* terminate on a connection whose ACK never arrived: there is no edge.    *)
(***************************************************************************)
TerminatePending(x, y) ==
    /\ conn[x][y] = "pending"
    /\ Breaks(x, y)
    /\ conn' = [conn EXCEPT ![x][y] = "none"]
    /\ queue' = Cut(x, y, 0)
    /\ UNCHANGED <<edges, seen>>

-----------------------------------------------------------------------------
(* The handlers of a line that n reads from m.                             *)

Readable(n, m) == conn[n][m] = "active" /\ queue[m][n] # <<>>
Line(n, m) == Head(queue[m][n])

(***************************************************************************)
(* flooded_prologue lets n go on with the line: it is new, and is cached   *)
(* now.                                                                    *)
(***************************************************************************)
Fresh(n, m) ==
    /\ Readable(n, m)
    /\ ~ Seen(n, Line(n, m))
    /\ seen' = [seen EXCEPT ![n] = @ \cup {Line(n, m)}]

Read(n, m) == [queue EXCEPT ![m][n] = Tail(@)]

(***************************************************************************)
(* forward_request: relay l to every active connection but the one it came *)
(* from, unless that connection is over its relay budget.                  *)
(***************************************************************************)
ForwardChoices(n, m) ==
    {Targets(conn, n, {m})} \cup IF FloodLimited THEN {{}} ELSE {}

Forward(n, m, l) ==
    \E targets \in ForwardChoices(n, m) : queue' = Send(Read(n, m), n, targets, <<l>>)

Reply(n, m, l) == queue' = Send(Read(n, m), n, {m}, <<l>>)

(* Mutant of Duplicate: a full cache holds lines back until it is swept. *)
DuplicateWaits(n, m) ==
    /\ Readable(n, m)
    /\ Line(n, m) \in seen[n]
    /\ queue' = Read(n, m)
    /\ UNCHANGED <<edges, conn, seen, changes>>

(* flooded_prologue drops the line. *)
Duplicate(n, m) ==
    /\ Readable(n, m)
    /\ Seen(n, Line(n, m))
    /\ queue' = Read(n, m)
    /\ UNCHANGED <<edges, conn, seen, changes>>

(* on_add_edge: the view already holds exactly this edge. *)
AddEdgeKnown(n, m) ==
    LET l == Line(n, m)
    IN  /\ Fresh(n, m)
        /\ l.req = "ADD_EDGE"
        /\ edges[n][<<l.from, l.to>>] = l.attr
        /\ queue' = Read(n, m)
        /\ UNCHANGED <<edges, conn, changes>>

(* Mutant of AddEdgeCorrect: the sender is not told. *)
AddEdgeCorrectSilent(n, m) ==
    LET l == Line(n, m)
    IN  /\ Fresh(n, m)
        /\ l.req = "ADD_EDGE"
        /\ l.from = n
        /\ edges[n][<<n, l.to>>] \notin {0, l.attr}
        /\ queue' = Read(n, m)
        /\ UNCHANGED <<edges, conn, changes>>

(* on_add_edge: a peer's idea of an edge of ours is out of date. *)
AddEdgeCorrect(n, m) ==
    LET l == Line(n, m)
    IN  /\ Fresh(n, m)
        /\ l.req = "ADD_EDGE"
        /\ l.from = n
        /\ edges[n][<<n, l.to>>] \notin {0, l.attr}
        /\ Reply(n, m, AddEdge(n, l.to, edges[n][<<n, l.to>>]))
        /\ UNCHANGED <<edges, conn, changes>>

(* on_add_edge: a peer thinks we have an edge that we do not have. *)
AddEdgeRefute(n, m) ==
    LET l == Line(n, m)
    IN  /\ Fresh(n, m)
        /\ l.req = "ADD_EDGE"
        /\ l.from = n
        /\ edges[n][<<n, l.to>>] = 0
        /\ Reply(n, m, DelEdge(n, l.to))
        /\ UNCHANGED <<edges, conn, changes>>

(* Mutant of AddEdgeApply: the test for `myself` is missing. *)
AddEdgeApplyOwn(n, m) ==
    LET l == Line(n, m)
    IN  /\ Fresh(n, m)
        /\ l.req = "ADD_EDGE"
        /\ edges[n][<<l.from, l.to>>] # l.attr
        /\ edges' = [edges EXCEPT ![n][<<l.from, l.to>>] = l.attr]
        /\ Forward(n, m, l)
        /\ UNCHANGED <<conn, changes>>

(* on_add_edge: an edge of another node appears or changes. *)
AddEdgeApply(n, m) ==
    LET l == Line(n, m)
    IN  /\ Fresh(n, m)
        /\ l.req = "ADD_EDGE"
        /\ l.from # n
        /\ edges[n][<<l.from, l.to>>] # l.attr
        /\ edges' = [edges EXCEPT ![n][<<l.from, l.to>>] = l.attr]
        /\ Forward(n, m, l)
        /\ UNCHANGED <<conn, changes>>

(* on_del_edge: the view does not hold the edge. *)
DelEdgeUnknown(n, m) ==
    LET l == Line(n, m)
    IN  /\ Fresh(n, m)
        /\ l.req = "DEL_EDGE"
        /\ edges[n][<<l.from, l.to>>] = 0
        /\ queue' = Read(n, m)
        /\ UNCHANGED <<edges, conn, changes>>

(* on_del_edge: a peer thinks that an edge of ours is gone. *)
DelEdgeRefute(n, m) ==
    LET l == Line(n, m)
    IN  /\ Fresh(n, m)
        /\ l.req = "DEL_EDGE"
        /\ l.from = n
        /\ edges[n][<<n, l.to>>] # 0
        /\ Reply(n, m, AddEdge(n, l.to, edges[n][<<n, l.to>>]))
        /\ UNCHANGED <<edges, conn, changes>>

(***************************************************************************)
(* on_del_edge: an edge of another node goes.  When its target became      *)
(* unreachable, the target's edge to us goes too, but only from this view. *)
(***************************************************************************)
Deleted(n, a, b) ==
    LET E == [edges[n] EXCEPT ![<<a, b>>] = 0]
    IN  IF b \notin Reachable(E, n) THEN [E EXCEPT ![<<b, n>>] = 0] ELSE E

DelEdgeApply(n, m) ==
    LET l == Line(n, m)
    IN  /\ Fresh(n, m)
        /\ l.req = "DEL_EDGE"
        /\ l.from # n
        /\ edges[n][<<l.from, l.to>>] # 0
        /\ Forward(n, m, l)
        /\ edges' = [edges EXCEPT ![n] = Deleted(n, l.from, l.to)]
        /\ UNCHANGED <<conn, changes>>

(***************************************************************************)
(* on_age_past_requests: the sweep of n's cache, when n has cached nothing *)
(* for a ping interval.  A spaced flood is over sooner than that.          *)
(***************************************************************************)
AgePastRequests(n) ==
    /\ seen[n] # {}
    /\ Spacing # "none" => Drained
    /\ seen' = [seen EXCEPT ![n] = {}]
    /\ UNCHANGED <<edges, conn, queue, changes>>

Handle(n, m) ==
    \/ Duplicate(n, m)
    \/ AddEdgeKnown(n, m)
    \/ AddEdgeCorrect(n, m)
    \/ AddEdgeRefute(n, m)
    \/ AddEdgeApply(n, m)
    \/ DelEdgeUnknown(n, m)
    \/ DelEdgeRefute(n, m)
    \/ DelEdgeApply(n, m)

Next ==
    \/ \E x, y \in Nodes :
          \/ Connect(x, y)
          \/ \E attr \in Attrs : OnAck(x, y, attr) \/ OnPongRtt(x, y, attr)
          \/ Terminate(x, y)
          \/ TerminatePending(x, y)
          \/ Handle(x, y)
    \/ \E n \in Nodes : AgePastRequests(n)

Spec == Init /\ [][Next]_vars

(***************************************************************************)
(* The event loop reads every readable meta connection.  Nothing obliges   *)
(* a link to come up or to break, or the sweep to find an entry of age.    *)
(***************************************************************************)
Fairness == \A n, m \in Nodes : WF_vars(Handle(n, m))

FairSpec == Spec /\ Fairness

-----------------------------------------------------------------------------
TypeOK ==
    /\ edges \in [Nodes -> [Pairs -> Attrs \cup {0}]]
    /\ conn \in [Nodes -> [Nodes -> ConnState]]
    /\ queue \in [Nodes -> [Nodes -> Seq(Lines)]]
    /\ seen \in [Nodes -> SUBSET Lines]
    /\ changes \in 0 .. MaxChanges

(***************************************************************************)
(* Whatever its peers gossip, a daemon's own edges are its active          *)
(* connections: ADD_EDGE and DEL_EDGE lines about `myself` are refuted and *)
(* never applied (edges.rs), and terminate withdraws the edge of exactly   *)
(* the connection it closes.                                               *)
(***************************************************************************)
OwnEdges ==
    \A n, m \in Nodes : edges[n][<<n, m>>] # 0 <=> conn[n][m] = "active"

(* The nodes that a chain of live connections joins with n. *)
Component(n) ==
    Reachable([e \in Pairs |-> IF conn[e[1]][e[2]] = "active" THEN 1 ELSE 0], n)

(* The graph search of n may use the edge a -> b: it knows both directions. *)
Usable(n, a, b) == edges[n][<<a, b>>] # 0 /\ edges[n][<<b, a>>] # 0

(***************************************************************************)
(* Once the floods have drained, every daemon's graph search runs on the   *)
(* mesh as it is: around the daemons that live connections join with it, a *)
(* daemon uses an edge exactly when the connection exists, with what the   *)
(* edge's owner says of it.                                                *)
(***************************************************************************)
Converged ==
    Quiet => \A n \in Nodes : \A a \in Component(n), b \in Nodes :
                /\ Usable(n, a, b) <=> conn[a][b] = "active"
                /\ Usable(n, a, b) => edges[n][<<a, b>>] = edges[a][<<a, b>>]

(***************************************************************************)
(* A flood ends: once the links stop changing every line has been read,    *)
(* whatever refutations cross it and whatever a full cache or the relay    *)
(* limiter swallows (flooded_prologue, forward_request).                   *)
(***************************************************************************)
FloodEnds ==
    <>[] (\A n, m \in Nodes : conn[n][m] = "active" => queue[m][n] = <<>>)
=============================================================================
