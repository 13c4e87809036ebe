--------------------------- MODULE SubnetsProofs ----------------------------
(* The flat MAC table follows the subnet tree, for any mesh and any number *)
(* of stations, moves, cuts, reloads and purges.                           *)
EXTENDS Subnets, TLAPS

Claim == Switches \X Macs

Table == [Macs -> Switches \cup {Nobody}]

TablesOK == claims \in [Switches -> SUBSET Claim] /\ macTable \in [Switches -> Table]

Backed(t, c) == \A m \in Macs : t[m] # Nobody => <<t[m], m>> \in c

(* The inductive invariant: MacTableBacked of tables that have their type. *)
TableInv == TablesOK /\ \A d \in Switches : Backed(macTable[d], claims[d])

(* The steps touch the tables of one daemon: it is enough to look there. *)
LEMMA TablePut ==
    ASSUME TableInv, NEW d \in Switches, NEW c, NEW t, c \in SUBSET Claim, t \in Table,
           Backed(t, c), claims' = [claims EXCEPT ![d] = c], macTable' = [macTable EXCEPT ![d] = t]
    PROVE  TableInv'
<1>1. TablesOK'
  BY DEF TableInv, TablesOK
<1>2. \A e \in Switches : /\ claims'[e] = IF e = d THEN c ELSE claims[e]
                          /\ macTable'[e] = IF e = d THEN t ELSE macTable[e]
  BY DEF TableInv, TablesOK
<1>3. \A e \in Switches : Backed(macTable'[e], claims'[e])
  BY <1>2 DEF TableInv
<1>4. QED BY <1>1, <1>3 DEF TableInv

LEMMA TableSame == TableInv /\ UNCHANGED <<claims, macTable>> => TableInv'
BY DEF TableInv, TablesOK

(* A claim is added and the table points to it: learn_mac, on_add_subnet. *)
LEMMA TableAdd ==
    ASSUME TableInv, NEW d \in Switches, NEW o \in Switches, NEW m \in Macs,
           claims' = [claims EXCEPT ![d] = @ \cup {<<o, m>>}],
           macTable' = [macTable EXCEPT ![d][m] = o]
    PROVE  TableInv'
<1> DEFINE c == claims[d] \cup {<<o, m>>}
           t == [macTable[d] EXCEPT ![m] = o]
<1>1. claims[d] \in SUBSET Claim /\ macTable[d] \in Table /\ Backed(macTable[d], claims[d])
  BY DEF TableInv, TablesOK
<1>2. c \in SUBSET Claim /\ t \in Table
  BY <1>1 DEF Claim, Table
<1>3. \A x \in Macs : t[x] = IF x = m THEN o ELSE macTable[d][x]
  BY <1>1 DEF Table
<1>4. Backed(t, c)
  <2> HIDE DEF t
  <2>1. QED BY <1>1, <1>3 DEF Backed
<1>5. claims' = [claims EXCEPT ![d] = c] /\ macTable' = [macTable EXCEPT ![d] = t]
  BY DEF TableInv, TablesOK
<1> HIDE DEF c, t
<1>6. QED BY <1>2, <1>4, <1>5, TablePut

(* Claims are dropped, and the entries that pointed to one are cleared. *)
LEMMA TableDrop ==
    ASSUME TableInv, NEW d \in Switches, NEW gone, NEW t \in Table,
           \A m \in Macs : t[m] # Nobody => t[m] = macTable[d][m] /\ <<t[m], m>> \notin gone,
           claims' = [claims EXCEPT ![d] = @ \ gone], macTable' = [macTable EXCEPT ![d] = t]
    PROVE  TableInv'
<1> DEFINE c == claims[d] \ gone
<1>1. claims[d] \in SUBSET Claim /\ Backed(macTable[d], claims[d])
  BY DEF TableInv, TablesOK
<1>2. c \in SUBSET Claim /\ Backed(t, c)
  BY <1>1 DEF Backed
<1>3. claims' = [claims EXCEPT ![d] = c]
  BY DEF TableInv, TablesOK
<1> HIDE DEF c
<1>4. QED BY <1>2, <1>3, TablePut

-----------------------------------------------------------------------------
LEMMA StepOnAgeSubnets ==
    ASSUME TableInv, NEW d \in Switches, NEW m \in Macs, OnAgeSubnets(d, m)
    PROVE  TableInv'
<1> DEFINE t == [macTable[d] EXCEPT ![m] = Nobody]
           gone == {<<d, m>>}
<1>1. macTable[d] \in Table /\ macTable \in [Switches -> Table]
  BY DEF TableInv, TablesOK
<1>2. t \in Table /\ \A x \in Macs : t[x] = IF x = m THEN Nobody ELSE macTable[d][x]
  BY <1>1 DEF Table
<1>3. claims' = [claims EXCEPT ![d] = @ \ gone] /\ macTable' = [macTable EXCEPT ![d] = t]
  BY <1>1 DEF OnAgeSubnets
<1> HIDE DEF t
<1>4. \A x \in Macs : t[x] # Nobody => t[x] = macTable[d][x] /\ <<t[x], x>> \notin gone
  BY <1>2
<1> HIDE DEF gone
<1>5. QED BY <1>2, <1>3, <1>4, TableDrop

LEMMA StepOnAddSubnet ==
    ASSUME TableInv, NEW d \in Switches, NEW e \in Switches, NEW o \in Switches, NEW m \in Macs,
           OnAddSubnet(d, e, o, m)
    PROVE  TableInv'
<1> DEFINE added == ~(<<o, m>> \in claims[d]) /\ o # d /\ ~Leased(d, m)
<1>1. /\ claims' = IF added THEN [claims EXCEPT ![d] = @ \cup {<<o, m>>}] ELSE claims
      /\ macTable' = IF added THEN [macTable EXCEPT ![d][m] = o] ELSE macTable
  BY DEF OnAddSubnet
<1> HIDE DEF added
<1>2. QED BY <1>1, TableAdd, TableSame

LEMMA StepOnDelSubnet ==
    ASSUME TableInv, NEW d \in Switches, NEW e \in Switches, NEW o \in Switches, NEW m \in Macs,
           OnDelSubnet(d, e, o, m)
    PROVE  TableInv'
<1> DEFINE t == Unmapped(macTable[d], o, m)
           gone == {<<o, m>>}
<1>1. macTable[d] \in Table /\ macTable \in [Switches -> Table]
  BY DEF TableInv, TablesOK
<1>2. \/ UNCHANGED <<claims, macTable>>
      \/ claims' = [claims EXCEPT ![d] = @ \ gone] /\ macTable' = [macTable EXCEPT ![d] = t]
  BY <1>1 DEF OnDelSubnet
<1>3. t \in Table /\ \A x \in Macs : t[x] # Nobody => t[x] = macTable[d][x] /\ ~(x = m /\ t[x] = o)
  BY <1>1 DEF Table, Unmapped
<1> HIDE DEF t
<1>4. \A x \in Macs : t[x] # Nobody => t[x] = macTable[d][x] /\ <<t[x], x>> \notin gone
  BY <1>3
<1> HIDE DEF gone
<1>5. QED BY <1>2, <1>3, <1>4, TableDrop, TableSame

LEMMA StepPurge ==
    ASSUME TableInv, NEW d \in Switches, Purge(d)
    PROVE  TableInv'
<1> DEFINE gone == {c \in claims[d] : c[1] \notin Within(d)}
           t == [m \in Macs |-> IF <<macTable[d][m], m>> \in gone THEN Nobody ELSE macTable[d][m]]
<1>1. macTable[d] \in Table /\ macTable \in [Switches -> Table]
  BY DEF TableInv, TablesOK
<1>2. claims' = [claims EXCEPT ![d] = @ \ gone] /\ macTable' = [macTable EXCEPT ![d] = t]
  BY <1>1 DEF Purge
<1> HIDE DEF gone
<1>3. t \in Table /\ \A x \in Macs : t[x] # Nobody => t[x] = macTable[d][x] /\ <<t[x], x>> \notin gone
  BY <1>1 DEF Table
<1> HIDE DEF t
<1>4. QED BY <1>2, <1>3, TableDrop

LEMMA StepReloadSubnets ==
    ASSUME TableInv, NEW d \in Switches, ReloadSubnets(d)
    PROVE  TableInv'
<1> DEFINE gone == Owned(d, d)
           t == [m \in Macs |-> IF <<d, m>> \in claims[d] THEN Nobody ELSE macTable[d][m]]
<1>1. macTable[d] \in Table /\ macTable \in [Switches -> Table]
  BY DEF TableInv, TablesOK
<1>2. claims' = [claims EXCEPT ![d] = @ \ gone] /\ macTable' = [macTable EXCEPT ![d] = t]
  BY <1>1 DEF ReloadSubnets
<1>3. \A x, y : <<x, y>> \in gone => x = d /\ <<d, y>> \in claims[d]
  BY DEF Owned
<1> HIDE DEF gone
<1>4. t \in Table /\ \A x \in Macs : t[x] # Nobody => t[x] = macTable[d][x] /\ <<t[x], x>> \notin gone
  BY <1>1, <1>3 DEF Table
<1> HIDE DEF t
<1>5. QED BY <1>2, <1>4, TableDrop

LEMMA TableInit == SubnetInit => TableInv
BY DEF SubnetInit, TableInv, TablesOK, Table, Backed

LEMMA TableStep == TableInv /\ [SubnetNext]_subnetVars => TableInv'
<1> SUFFICES ASSUME TableInv, [SubnetNext]_subnetVars PROVE TableInv'
  OBVIOUS
<1>1. CASE AgePastRequests
  BY <1>1, TableSame DEF AgePastRequests
<1>2. ASSUME NEW d \in Switches, NEW m \in Macs, LearnMac(d, m) PROVE TableInv'
  BY <1>2, TableAdd DEF LearnMac
<1>3. ASSUME NEW d \in Switches, NEW m \in Macs, OnAgeSubnets(d, m) PROVE TableInv'
  BY <1>3, StepOnAgeSubnets
<1>4. ASSUME NEW d \in Switches, NEW e \in Switches, SeenRequest(d, e) \/ Reconnect(d, e)
      PROVE  TableInv'
  BY <1>4, TableSame DEF SeenRequest, Reconnect
<1>5. ASSUME NEW d \in Switches, NEW e \in Switches, NEW o \in Switches, NEW m \in Macs,
             OnAddSubnet(d, e, o, m) \/ OnDelSubnet(d, e, o, m)
      PROVE  TableInv'
  BY <1>5, StepOnAddSubnet, StepOnDelSubnet
<1>6. ASSUME NEW l \in Cables, CutCable(l) PROVE TableInv'
  BY <1>6, TableSame DEF CutCable
<1>7. ASSUME NEW d \in Switches, Purge(d) \/ ReloadSubnets(d) PROVE TableInv'
  BY <1>7, StepPurge, StepReloadSubnets
<1>8. ASSUME NEW d \in Switches, NEW m \in Macs, Moves(m, d) PROVE TableInv'
  BY <1>8, TableSame DEF Moves
<1>9. CASE UNCHANGED subnetVars
  BY <1>9, TableSame DEF subnetVars
<1>10. QED BY <1>1, <1>2, <1>3, <1>4, <1>5, <1>6, <1>7, <1>8, <1>9
           DEF SubnetNext, SubnetStep, SubnetUpset

(* No frame is forwarded on a claim the subnet tree has dropped, whichever *)
(* of learn_mac, on_age_subnets, on_add_subnet, on_del_subnet, purge and   *)
(* reload_configuration changed it last.                                   *)
THEOREM MacTableBackedCorrect == SubnetSpec => []MacTableBacked
<1>1. TableInv => MacTableBacked
  BY DEF TableInv, Backed, MacTableBacked
<1>2. QED BY <1>1, TableInit, TableStep, PTL DEF SubnetSpec
=============================================================================
