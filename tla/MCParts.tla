------------------------------ MODULE MCParts -------------------------------
(* Parts of the system that share no state with one another, side by side: *)
(* a behaviour exercises one part, chosen at the start, while the others   *)
(* stay as they began. Fairness is that of the chosen part.                *)
EXTENDS ReplayWindow, Connections, Pmtu, Routes, Subnets, Invitations

VARIABLE part

partsVars == <<vars, connVars, pmtuVars, routesVars, subnetVars, invitationVars, part>>

Parts == {"replay", "connections", "pmtu", "routes", "subnets", "invitations"}

(* Where a part has several initial states, one of them stands for it      *)
(* while another part runs.                                                *)
PartsInit ==
    /\ part \in Parts
    /\ Init /\ ConnInit /\ InvitationInit
    /\ PmtuInit /\ (part # "pmtu" => path = MTU /\ link = MTU /\ filtered = FALSE)
    /\ SubnetInit /\ (part # "subnets" => \A m \in Macs : home[m] = CHOOSE d \in Switches : TRUE)
    /\ changes = 0
    /\ mesh \in IF part = "routes" THEN [Links -> Weights \cup {Down}] ELSE {[l \in Links |-> Down]}
    /\ routes = [s \in Routers |-> Sssp(mesh, s, [n \in Routers |-> NoRoute])]

PartsNext ==
    \/ /\ part = "replay" /\ Next
       /\ UNCHANGED <<part, connVars, pmtuVars, routesVars, subnetVars, invitationVars>>
    \/ /\ part = "connections" /\ ConnNext
       /\ UNCHANGED <<part, vars, pmtuVars, routesVars, subnetVars, invitationVars>>
    \/ /\ part = "pmtu" /\ PmtuNext
       /\ UNCHANGED <<part, vars, connVars, routesVars, subnetVars, invitationVars>>
    \/ /\ part = "routes" /\ RoutesNext
       /\ UNCHANGED <<part, vars, connVars, pmtuVars, subnetVars, invitationVars>>
    \/ /\ part = "subnets" /\ SubnetNext
       /\ UNCHANGED <<part, vars, connVars, pmtuVars, routesVars, invitationVars>>
    \/ /\ part = "invitations" /\ InvitationNext
       /\ UNCHANGED <<part, vars, connVars, pmtuVars, routesVars, subnetVars>>

(* ConnFairness, PmtuFairness and SubnetFairness of the part that runs.    *)
PartsFairness ==
    /\ \A d \in Daemon :
          /\ WF_connVars(part = "connections" /\ RetryTimer(d))
          /\ \A c \in Streams : WF_connVars(part = "connections" /\ Serve(d, c))
    /\ WF_pmtuVars(part = "pmtu" /\ CalmTx(FALSE))
    /\ SF_pmtuVars(part = "pmtu" /\ CalmTx(TRUE))
    /\ WF_pmtuVars(part = "pmtu" /\ PeerAcks)
    /\ \A len \in Size :
          /\ WF_pmtuVars(part = "pmtu" /\ PeerProbed(len))
          /\ WF_pmtuVars(part = "pmtu" /\ TooLarge(len))
          /\ WF_pmtuVars(part = "pmtu" /\ ProbeReply(len))
          /\ WF_pmtuVars(part = "pmtu" /\ MetaAck(len))
    /\ WF_subnetVars(part = "subnets" /\ SubnetStep)

PartsSpec == PartsInit /\ [][PartsNext]_partsVars /\ PartsFairness

-----------------------------------------------------------------------------
(* The properties of the parts that are about whole behaviours.            *)

(* NextHopsArrive and TreeSpans, of Routes, while that part runs: what     *)
(* sssp_sticky and mst compute.                                            *)
PartNextHopsArrive == part = "routes" => NextHopsArrive
PartTreeSpans == part = "routes" => TreeSpans

(* Settles, of Connections: both ends come to hold one and the same        *)
(* connection (on_ack's choice between duplicates, terminate's redial).    *)
PartSettles == (part = "connections") => Settles

(* Converges, of Pmtu: discovery ends with the path used to the full       *)
(* (PmtuState::tick and its reactions).                                    *)
PartConverges == (part = "pmtu") => Converges

(* StaleClaimsGo, of Subnets: what expired is withdrawn everywhere         *)
(* (on_age_subnets, on_del_subnet).                                        *)
PartStaleClaimsGo == [](spent.cuts = 0) => <>[](part = "subnets" => NoStaleClaim)

(* StationsFound, of Subnets: frames reach a station that moved            *)
(* (on_add_subnet, learn_mac).                                             *)
PartStationsFound == [](spent.cuts = 0) => <>[](part = "subnets" => Found)
=============================================================================
