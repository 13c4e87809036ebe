------------------------------ MODULE Subnets -------------------------------
(* Who owns which MAC address in a switched mesh: learning from frames,    *)
(* leases and their expiry, ADD_SUBNET and DEL_SUBNET with their answers   *)
(* from a wronged owner, the flat table frames are routed by, purge and    *)
(* reload (gossip/subnets.rs, mac_lease.rs, route_mac.rs, purge.rs, the    *)
(* switch half of net/route.rs).                                           *)
(*                                                                         *)
(* Edges are taken as known: a daemon is reachable when links lead to it.  *)
(* strictsubnets and tunnelserver are off and autoconnect, the default,    *)
(* keeps purge from deleting nodes.                                        *)
EXTENDS Naturals, Sequences, FiniteSets, SequencesExt

CONSTANTS
    Switches,      \* the daemons
    Cables,        \* pairs with a meta connection, unless cut
    Macs,          \* addresses of stations behind the daemons
    MaxLeases,     \* MAX_MAC_LEASES
    Crowded,       \* daemons whose other stations fill the lease table but for one
    MaxMoves,      \* bound: how often a station changes its daemon
    MaxBreaks,     \* bound: connections lost and SIGHUPs, together
    MaxPurges      \* bound: REQ_PURGE

ASSUME SubnetsAssumption ==
    /\ Cables \subseteq SUBSET Switches /\ \A l \in Cables : Cardinality(l) = 2
    /\ Crowded \subseteq Switches
    /\ {MaxLeases, MaxMoves, MaxBreaks, MaxPurges} \subseteq Nat

VARIABLES
    claims,    \* claims[d]: the <<owner, address>> pairs of d's SubnetTree
    macTable,  \* mac_table[d], Nobody where it has no entry
    leases,    \* mac_leases[d]
    seen,      \* the past-request cache of d
    wire,      \* wire[d][e]: lines from d that e has not read
    home,      \* the daemon a station is behind
    cut,       \* connections that are down
    spent      \* what is used up of each bound

subnetVars == <<claims, macTable, leases, seen, wire, home, cut, spent>>

Nobody == 0

AddSubnet(o, m) == <<"ADD_SUBNET", o, m>>
DelSubnet(o, m) == <<"DEL_SUBNET", o, m>>

SubnetInit ==
    /\ claims = [d \in Switches |-> {}]
    /\ macTable = [d \in Switches |-> [m \in Macs |-> Nobody]]
    /\ leases = [d \in Switches |-> {}]
    /\ seen = [d \in Switches |-> {}]
    /\ wire = [d \in Switches |-> [e \in Switches |-> <<>>]]
    /\ home \in [Macs -> Switches]
    /\ cut = {}
    /\ spent = [moves |-> 0, cuts |-> 0, reloads |-> 0, purges |-> 0]

Connected(d) == {e \in Switches : {d, e} \in Cables \ cut}

(* broadcast_targets: w with these lines sent by d to all of `to`. *)
Sends(w, d, to, lines) == [w EXCEPT ![d] = [e \in Switches |->
                              IF e \in to THEN w[d][e] \o lines ELSE w[d][e]]]

Owned(d, o) == {c \in claims[d] : c[1] = o}

Spend(what, most) == spent[what] < most /\ spent' = [spent EXCEPT ![what] = @ + 1]

Break(what) == spent.cuts + spent.reloads < MaxBreaks /\ Spend(what, MaxBreaks)

(* Daemons that d reaches over its link to e: those in every set that has  *)
(* e in it and that no link leaves but to d.                               *)
Beyond(d, e) ==
    {x \in Switches : \A S \in SUBSET Switches :
        e \in S /\ (\A y \in S : Connected(y) \ {d} \subseteq S) => x \in S}

(* Daemons links still lead to from d. *)
Within(d) == {d} \cup UNION {Beyond(d, e) : e \in Connected(d)}

TableFull(d) == Cardinality(leases[d]) >= IF d \in Crowded THEN 1 ELSE MaxLeases

-----------------------------------------------------------------------------
(* A frame of the station arrives on d's TAP: route_mac says New or        *)
(* Refresh; an address that is not in the table as our own is learned      *)
(* (again, if a reload withdrew it) unless the lease table is full.        *)
LearnMac(d, m) ==
    /\ home[m] = d
    /\ macTable[d][m] # d /\ ~TableFull(d)
    /\ claims' = [claims EXCEPT ![d] = @ \cup {<<d, m>>}]
    /\ macTable' = [macTable EXCEPT ![d][m] = d]
    /\ leases' = [leases EXCEPT ![d] = @ \cup {m}]
    /\ wire' = Sends(wire, d, Connected(d), <<AddSubnet(d, m)>>)
    /\ UNCHANGED <<seen, home, cut, spent>>

(* Mutant: an expired address is not withdrawn. *)
WithdrawnNot(d, m) == wire

Withdrawn(d, m) == Sends(wire, d, Connected(d), <<DelSubnet(d, m)>>)

(* Frames of a station at d keep its lease fresh while the table has it as *)
(* d's own, or else learn it again, which a full table refuses even where  *)
(* the address has a lease.                                                *)
Refreshed(d, m) == home[m] = d /\ (macTable[d][m] = d \/ ~TableFull(d))

(* on_age_subnets: the lease was not refreshed for macexpire. With the     *)
(* default, 600 s, that is far longer than lines travel and the            *)
(* past-request cache remembers them.                                      *)
OnAgeSubnets(d, m) ==
    /\ m \in leases[d] /\ ~Refreshed(d, m)
    /\ \A e, f \in Switches : seen[e] = {} /\ wire[e][f] = <<>>
    /\ claims' = [claims EXCEPT ![d] = @ \ {<<d, m>>}]
    /\ macTable' = [macTable EXCEPT ![d][m] = Nobody]
    /\ leases' = [leases EXCEPT ![d] = @ \ {m}]
    /\ wire' = Withdrawn(d, m)
    /\ UNCHANGED <<seen, home, cut, spent>>

(* flooded_prologue: d reads line l from e, and it is new. *)
Reads(d, e, l) == wire[e][d] # <<>> /\ Head(wire[e][d]) = l
Rest(d, e) == [wire EXCEPT ![e][d] = Tail(@)]
Fresh(d, l) == l \notin seen[d] /\ seen' = [seen EXCEPT ![d] = @ \cup {l}]

SeenRequest(d, e) ==
    /\ wire[e][d] # <<>> /\ Head(wire[e][d]) \in seen[d]
    /\ wire' = Rest(d, e)
    /\ UNCHANGED <<claims, macTable, leases, seen, home, cut, spent>>

Leased(d, m) == m \in leases[d]

OnAddSubnet(d, e, o, m) ==
    LET l == AddSubnet(o, m)
        known == <<o, m>> \in claims[d]
        added == ~known /\ o # d /\ ~Leased(d, m)
    IN
    /\ Reads(d, e, l) /\ Fresh(d, l)
    /\ claims' = IF added THEN [claims EXCEPT ![d] = @ \cup {<<o, m>>}] ELSE claims
    /\ macTable' = IF added THEN [macTable EXCEPT ![d][m] = o] ELSE macTable
    /\ wire' = IF added THEN Sends(Rest(d, e), d, Connected(d) \ {e}, <<l>>)
               ELSE IF ~known /\ o = d THEN Sends(Rest(d, e), d, {e}, <<DelSubnet(d, m)>>)
               ELSE Rest(d, e)
    /\ UNCHANGED <<leases, home, cut, spent>>

(* Mutant: the table keeps what the tree no longer has. *)
UnmappedNot(t, o, m) == t

(* "mac_table sync; only remove if owner matches." *)
Unmapped(t, o, m) == IF t[m] = o THEN [t EXCEPT ![m] = Nobody] ELSE t

OnDelSubnet(d, e, o, m) ==
    LET l == DelSubnet(o, m) IN
    /\ Reads(d, e, l) /\ Fresh(d, l)
    /\ \/ /\ o = d
          /\ wire' = IF <<d, m>> \in claims[d]
                     THEN Sends(Rest(d, e), d, {e}, <<AddSubnet(d, m)>>) ELSE Rest(d, e)
          /\ UNCHANGED <<claims, macTable>>
       \/ /\ o # d
          /\ wire' = Sends(Rest(d, e), d, Connected(d) \ {e}, <<l>>)
          /\ claims' = [claims EXCEPT ![d] = @ \ {<<o, m>>}]
          /\ macTable' = [macTable EXCEPT ![d] = Unmapped(@, o, m)]
    /\ UNCHANGED <<leases, home, cut, spent>>

(* on_age_past_requests: a ping interval without gossip. *)
AgePastRequests ==
    /\ \A d, e \in Switches : wire[d][e] = <<>>
    /\ \E d \in Switches : seen[d] # {}
    /\ seen' = [d \in Switches |-> {}]
    /\ UNCHANGED <<claims, macTable, leases, wire, home, cut, spent>>

(* purge, pass 1: the subnets of daemons that are out of reach. The edges  *)
(* it deletes as well are not part of this module's state.                 *)
Purge(d) ==
    LET gone == {c \in claims[d] : c[1] \notin Within(d)} IN
    /\ Spend("purges", MaxPurges)
    /\ gone # {}
    /\ claims' = [claims EXCEPT ![d] = @ \ gone]
    /\ macTable' = [macTable EXCEPT ![d] = [m \in Macs |->
                       IF <<@[m], m>> \in gone THEN Nobody ELSE @[m]]]
    /\ wire' = Sends(wire, d, Connected(d),
                     SetToSeq({DelSubnet(c[1], c[2]) : c \in gone}))
    /\ UNCHANGED <<leases, seen, home, cut>>

(* reload_configuration: hosts/NAME has no Subnet lines here, and every    *)
(* subnet of our own that is not in it goes.                               *)
ReloadSubnets(d) ==
    /\ Break("reloads")
    /\ claims' = [claims EXCEPT ![d] = @ \ Owned(d, d)]
    /\ macTable' = [macTable EXCEPT ![d] = [m \in Macs |->
                       IF <<d, m>> \in claims[d] THEN Nobody ELSE @[m]]]
    /\ wire' = Sends(wire, d, Connected(d),
                     SetToSeq({DelSubnet(d, c[2]) : c \in Owned(d, d)}))
    /\ UNCHANGED <<leases, seen, home, cut>>

Moves(m, d) ==
    /\ Spend("moves", MaxMoves)
    /\ home[m] # d /\ home' = [home EXCEPT ![m] = d]
    /\ UNCHANGED <<claims, macTable, leases, seen, wire, cut>>

CutCable(l) ==
    /\ Break("cuts")
    /\ l \notin cut /\ cut' = cut \cup {l}
    /\ wire' = [d \in Switches |-> [e \in Switches |->
                  IF {d, e} = l THEN <<>> ELSE wire[d][e]]]
    /\ UNCHANGED <<claims, macTable, leases, seen, home>>

(* on_ack at both ends: purge_mentions of the peer, send_everything. *)
Reconnect(d, e) ==
    /\ {d, e} \in cut /\ cut' = cut \ {{d, e}}
    /\ LET everything(x) == SetToSeq({AddSubnet(c[1], c[2]) : c \in claims[x]})
       IN wire' = [wire EXCEPT ![d][e] = everything(d), ![e][d] = everything(e)]
    /\ seen' = [seen EXCEPT ![d] = {l \in @ : l[2] # e}, ![e] = {l \in @ : l[2] # d}]
    /\ UNCHANGED <<claims, macTable, leases, home, spent>>

(* What the daemons do by themselves, and what is done to them. *)
SubnetStep ==
    \/ AgePastRequests
    \/ \E d \in Switches, m \in Macs : LearnMac(d, m) \/ OnAgeSubnets(d, m)
    \/ \E d, e \in Switches :
          \/ SeenRequest(d, e) \/ Reconnect(d, e)
          \/ \E o \in Switches, m \in Macs : OnAddSubnet(d, e, o, m) \/ OnDelSubnet(d, e, o, m)

SubnetUpset ==
    \/ \E l \in Cables : CutCable(l)
    \/ \E d \in Switches :
          \/ Purge(d) \/ ReloadSubnets(d)
          \/ \E m \in Macs : Moves(m, d)

SubnetNext == SubnetStep \/ SubnetUpset

(* Stations keep talking, connections come back and are served, and time   *)
(* passes.                                                                 *)
SubnetFairness == WF_subnetVars(SubnetStep)

SubnetSpec == SubnetInit /\ [][SubnetNext]_subnetVars /\ SubnetFairness

-----------------------------------------------------------------------------
(* "Maintained alongside subnets: every Subnet::Mac add/del also updates   *)
(* this": no frame is forwarded on a claim the tree has dropped, whichever *)
(* of the sync sites dropped it.                                           *)
MacTableBacked ==
    \A d \in Switches, m \in Macs : macTable[d][m] # Nobody => <<macTable[d][m], m>> \in claims[d]

(* "Side table; daemon mirrors learn/age into SubnetTree::add/del": an     *)
(* address is leased only while we claim it, else others' claims to it are *)
(* refused for nothing.                                                    *)
LeaseClaimed == \A d \in Switches : \A m \in leases[d] : <<d, m>> \in claims[d]

(* While no connection is lost, claims that outlive their owner's lease    *)
(* are withdrawn in the end, however moves, a reload and the withdrawals   *)
(* crossed each other.                                                     *)
NoStaleClaim == \A d \in Switches : \A c \in claims[d] : c[2] \in leases[c[1]]
StaleClaimsGo == [](spent.cuts = 0) => <>[]NoStaleClaim

(* Mutant: only the daemon a frame starts from floods it. *)
FloodTargetsOnce(y, p) == IF p = Nobody THEN Connected(y) ELSE {}

(* broadcast_packet: the neighbours y sends a frame to that it got from p, *)
(* all but the one p is reached through. Where the cables form a tree, as  *)
(* StationsFound takes them to, the minimum spanning tree has them all.    *)
FloodTargets(y, p) == {z \in Connected(y) : p \notin Beyond(y, z)}

(* Does a frame to m that daemon d takes off its TAP reach the station? p  *)
(* handed it to y, Nobody where it is from y's own segment: y broadcasts   *)
(* what it does not know, never returns a frame to whom it came from, and  *)
(* otherwise hands it to the owner, who routes it by its own table.        *)
Delivers(d, m, hops) ==
    LET arrives[y \in Switches, p \in Switches \cup {Nobody}, n \in 0 .. hops] ==
            LET owner == macTable[y][m]
                targets == IF owner = Nobody THEN FloodTargets(y, p)
                           ELSE {owner} \cap (Within(y) \ {y, p})
            IN  \/ home[m] = y /\ (p = Nobody \/ owner \in {Nobody, y})
                \/ n > 0 /\ \E z \in targets : arrives[z, y, n - 1]
    IN  arrives[d, Nobody, hops]

Found == \A d \in Switches, m \in Macs : Delivers(d, m, Cardinality(Switches))

(* While no connection is lost, every daemon's frames reach the station    *)
(* again after the last move: no black hole or circle is left of where it  *)
(* used to be.                                                             *)
StationsFound == [](spent.cuts = 0) => <>[]Found
=============================================================================
