------------------------- MODULE InvitationsProofs --------------------------
(* Invitations are served once, accepted joiners stay known, and the key   *)
(* on disk fits every invitation that can still be redeemed: for any       *)
(* number of invitations, names and joiners, with crashes at any point.    *)
EXTENDS Invitations, TLAPS

-----------------------------------------------------------------------------
(* The shape of the variables. *)

LetterType == [state : {"none", "live", "used", "gone"}, name : Names \cup {0},
               key : Nat, old : BOOLEAN, expired : BOOLEAN]

Shape ==
    /\ letter \in [Cookies -> LetterType]
    /\ diskKey \in Nat /\ daemonKey \in Nat /\ keys \in Nat
    /\ hosts \in [Names -> Joiners \cup {0, Blank}]
    /\ server \in [Joiners -> [phase : {"off", "cookie", "pubkey", "done"}, name : Names \cup {0}]]
    /\ client \in [Joiners -> [at : {"new", "configured", "joined"}, name : Names \cup {0}]]
    /\ DOMAIN record = Joiners
    /\ servings \in [Cookies -> Nat]

(* Where a conversation is: what the record on its way says of the two     *)
(* ends, and that only a live invitation has a name to give away.          *)
Named == \A c \in Cookies : letter[c].state # "none" => letter[c].name \in Names

Talk(j) ==
    \/ record[j] = NoRecord
    \/ /\ record[j][1] = "cookie" /\ client[j].at = "new" /\ server[j].phase = "cookie"
       /\ record[j] = <<"cookie", record[j][2]>> /\ record[j][2] \in Cookies
    \/ /\ record[j][1] = "file" /\ record[j][2] \in Names /\ client[j].at = "new"
       /\ server[j] = Off \/ (server[j].phase = "pubkey" /\ server[j].name = record[j][2])
    \/ /\ record[j] = <<"pubkey", j>>
       /\ client[j].at = "configured" /\ server[j].phase = "pubkey" /\ server[j].name \in Names
       /\ client[j].name = server[j].name
    \/ /\ record[j][1] = "ack" /\ server[j].phase \in {"off", "done"}
       /\ client[j].at = "configured" /\ client[j].name \in Names /\ hosts[client[j].name] = j

(* What was sent once is gone, and a name is vouched for as stated. *)
ServedGone == \A c \in Cookies : servings[c] > 0 => letter[c].state = "gone" /\ servings[c] = 1

VouchedNames == \A j \in Joiners :
    client[j].at = "joined" => client[j].name \in Names /\ hosts[client[j].name] = j

(* The inductive invariant. *)
IInv ==
    /\ Shape /\ Named /\ ServedGone /\ VouchedNames /\ OutstandingUsable
    /\ \A j \in Joiners : Talk(j)

USE DEF NoRecord

-----------------------------------------------------------------------------
(* One lemma per action: what it can disturb is proved, the rest is        *)
(* unchanged.                                                              *)

LEMMA InviteStep ==
    ASSUME IInv, NEW c \in Cookies, NEW n \in Names, Invite(c, n)
    PROVE  IInv'
<1> DEFINE swept == [x \in Cookies |->
                       IF letter[x].state = "live" /\ letter[x].old
                       THEN [letter[x] EXCEPT !.state = "gone"] ELSE letter[x]]
           new == Rotates(LiveLetters(swept))
<1>1. /\ letter[c] = Unissued
      /\ keys' = (IF new THEN keys + 1 ELSE keys)
      /\ diskKey' = (IF new THEN keys' ELSE diskKey)
      /\ letter' = [swept EXCEPT ![c] = Written(n, diskKey')]
      /\ daemonKey' \in {daemonKey, diskKey'}
      /\ UNCHANGED <<hosts, server, client, record, servings>>
  BY DEF Invite
<1>2. /\ letter \in [Cookies -> LetterType] /\ diskKey \in Nat /\ keys \in Nat /\ daemonKey \in Nat
  BY DEF IInv, Shape
<1>3. keys' \in Nat /\ diskKey' \in Nat /\ daemonKey' \in Nat
  BY <1>1, <1>2
<1>4. \A x \in Cookies : /\ swept[x] \in LetterType
                         /\ swept[x].name = letter[x].name /\ swept[x].key = letter[x].key
                         /\ swept[x].state # letter[x].state =>
                               swept[x].state = "gone" /\ letter[x].state = "live"
  BY <1>2 DEF LetterType
<1>5. /\ letter'[c] = Written(n, diskKey')
      /\ \A x \in Cookies \ {c} : letter'[x] = swept[x]
      /\ letter' \in [Cookies -> LetterType]
  <2>1. letter' \in [Cookies -> LetterType]
    BY <1>1, <1>3, <1>4 DEF LetterType, Written
  <2>2. QED BY <1>1, <2>1
<1>6. Shape'
  BY <1>1, <1>3, <1>5 DEF IInv, Shape
<1> HIDE DEF swept, new
<1>7. Named'
  BY <1>4, <1>5 DEF IInv, Named, Written
<1>8. ServedGone'
  <2>1. letter[c].state = "none"
    BY <1>1 DEF Unissued, Written
  <2>2. QED BY <1>1, <1>4, <1>5, <2>1 DEF IInv, ServedGone
<1>9. OutstandingUsable'
  <2> SUFFICES ASSUME NEW x \in Cookies \ {c}, letter'[x].state = "live"
               PROVE  letter'[x].key = diskKey'
    BY <1>5 DEF OutstandingUsable, LiveLetters, Written
  <2>1. swept[x].state = "live" /\ letter[x].state = "live"
    BY <1>4, <1>5
  <2>2. letter[x].key = diskKey
    BY <2>1 DEF IInv, OutstandingUsable, LiveLetters
  <2>3. x \in LiveLetters(swept)
    BY <2>1 DEF LiveLetters
  <2>4. ~new
    BY <2>3 DEF Rotates, new
  <2>5. QED BY <1>1, <1>4, <1>5, <2>2, <2>4
<1>10. VouchedNames' /\ \A j \in Joiners : Talk(j)'
  BY <1>1 DEF IInv, VouchedNames, Talk
<1>11. QED BY <1>6, <1>7, <1>8, <1>9, <1>10 DEF IInv

LEMMA GrowsOldStep ==
    ASSUME IInv, NEW c \in Cookies, GrowsOld(c)
    PROVE  IInv'
<1>1. UNCHANGED <<diskKey, daemonKey, keys, hosts, server, client, record, servings>>
  BY DEF GrowsOld
<1>2. letter \in [Cookies -> LetterType]
  BY DEF IInv, Shape
<1>3. /\ letter' \in [Cookies -> LetterType]
      /\ \A x \in Cookies : /\ letter'[x].state = letter[x].state /\ letter'[x].name = letter[x].name
                            /\ letter'[x].key = letter[x].key
  <2>1. CASE letter' = [letter EXCEPT ![c].old = TRUE]
    BY <1>2, <2>1 DEF LetterType
  <2>2. CASE letter' = [letter EXCEPT ![c].expired = TRUE]
    BY <1>2, <2>2 DEF LetterType
  <2>3. QED BY <2>1, <2>2 DEF GrowsOld
<1>4. Shape' /\ Named' /\ ServedGone' /\ OutstandingUsable'
  BY <1>1, <1>2, <1>3 DEF IInv, Shape, Named, ServedGone, OutstandingUsable, LiveLetters
<1>5. VouchedNames' /\ \A j \in Joiners : Talk(j)'
  BY <1>1 DEF IInv, VouchedNames, Talk
<1>6. QED BY <1>4, <1>5 DEF IInv

LEMMA ReloadKeyStep ==
    ASSUME IInv, ReloadKey
    PROVE  IInv'
<1>1. /\ daemonKey' = diskKey
      /\ UNCHANGED <<letter, diskKey, keys, hosts, server, client, record, servings>>
  BY DEF ReloadKey
<1>2. Shape'
  BY <1>1 DEF IInv, Shape
<1>3. Named' /\ ServedGone' /\ VouchedNames' /\ OutstandingUsable' /\ \A j \in Joiners : Talk(j)'
  BY <1>1 DEF IInv, Named, ServedGone, VouchedNames, OutstandingUsable, LiveLetters, Talk
<1>4. QED BY <1>2, <1>3 DEF IInv

(* No host file that has a key in it changes. *)
HostsKept == \A x \in Names : hosts[x] \in Joiners => hosts'[x] = hosts[x]

(* A connection that closes leaves the other conversations alone. *)
LEMMA CloseTalk ==
    ASSUME IInv, NEW j \in Joiners, Close(j), UNCHANGED client, HostsKept
    PROVE  /\ server' \in [Joiners -> [phase : {"off", "cookie", "pubkey", "done"}, name : Names \cup {0}]]
           /\ DOMAIN record' = Joiners
           /\ \A k \in Joiners : Talk(k)'
<1>1. /\ server' = [server EXCEPT ![j] = Off] /\ record' = [record EXCEPT ![j] = NoRecord]
  BY DEF Close
<1>2. /\ \A k \in Joiners \ {j} : server'[k] = server[k] /\ record'[k] = record[k]
      /\ record'[j] = NoRecord
  BY <1>1 DEF IInv, Shape
<1>3. \A k \in Joiners : Talk(k)'
  BY <1>2 DEF IInv, Talk, HostsKept
<1>4. QED BY <1>1, <1>3 DEF IInv, Shape, Off

LEMMA JoinStep ==
    ASSUME IInv, NEW j \in Joiners, NEW c \in Cookies, Join(j, c)
    PROVE  IInv'
<1>1. /\ client[j].at = "new"
      /\ server' = [server EXCEPT ![j].phase = "cookie"]
      /\ record' = [record EXCEPT ![j] = <<"cookie", c>>]
      /\ UNCHANGED <<letter, diskKey, daemonKey, keys, hosts, client, servings>>
  BY DEF Join
<1>2. /\ server' \in [Joiners -> [phase : {"off", "cookie", "pubkey", "done"}, name : Names \cup {0}]]
      /\ server'[j].phase = "cookie"
      /\ DOMAIN record' = Joiners /\ record'[j] = <<"cookie", c>>
      /\ \A k \in Joiners \ {j} : server'[k] = server[k] /\ record'[k] = record[k]
  BY <1>1 DEF IInv, Shape
<1>3. \A k \in Joiners : Talk(k)'
  <2> SUFFICES ASSUME NEW k \in Joiners PROVE Talk(k)'
    OBVIOUS
  <2>1. CASE k = j
    BY <2>1, <1>1, <1>2 DEF Talk
  <2>2. CASE k # j
    BY <2>2, <1>1, <1>2 DEF Talk, IInv
  <2>3. QED BY <2>1, <2>2
<1>4. Shape'
  BY <1>1, <1>2 DEF IInv, Shape
<1>5. Named' /\ ServedGone' /\ VouchedNames' /\ OutstandingUsable'
  BY <1>1 DEF IInv, Named, ServedGone, VouchedNames, OutstandingUsable, LiveLetters
<1>6. QED BY <1>3, <1>4, <1>5 DEF IInv

(* An invitation that is served or found expired is not live any more; the *)
(* others stay as they are.                                                *)
LEMMA Retired ==
    ASSUME IInv, NEW c \in Cookies, letter[c].state = "live",
           NEW state \in {"used", "gone"},
           letter' = [letter EXCEPT ![c] = [letter[c] EXCEPT !.state = state]],
           UNCHANGED <<diskKey>>
    PROVE  /\ letter' \in [Cookies -> LetterType]
           /\ Named' /\ OutstandingUsable'
           /\ letter'[c].state = state
           /\ \A x \in Cookies \ {c} : letter'[x] = letter[x]
<1> DEFINE l == [letter[c] EXCEPT !.state = state]
<1>1. l \in LetterType /\ l.state = state /\ l.name = letter[c].name
  BY DEF IInv, Shape, LetterType
<1>2. /\ letter' \in [Cookies -> LetterType] /\ letter'[c] = l
      /\ \A x \in Cookies \ {c} : letter'[x] = letter[x]
  BY <1>1 DEF IInv, Shape
<1> HIDE DEF l
<1>3. Named'
  BY <1>1, <1>2 DEF IInv, Named
<1>4. OutstandingUsable'
  BY <1>1, <1>2 DEF IInv, OutstandingUsable, LiveLetters
<1>5. QED BY <1>1, <1>2, <1>3, <1>4

LEMMA ServeCookieStep ==
    ASSUME IInv, NEW j \in Joiners, NEW c \in Cookies, ServeCookie(j, c)
    PROVE  IInv'
<1>1. /\ server[j].phase = "cookie" /\ record[j] = <<"cookie", c>>
      /\ UNCHANGED <<diskKey, daemonKey, keys, hosts, client>>
  BY DEF ServeCookie
<1>2. CASE Close(j) /\ UNCHANGED <<letter, servings>>
  <2>1. Named' /\ ServedGone' /\ VouchedNames' /\ OutstandingUsable'
    BY <1>1, <1>2 DEF IInv, Named, ServedGone, VouchedNames, OutstandingUsable, LiveLetters
  <2>2. Shape'
    BY <1>1, <1>2, CloseTalk DEF IInv, Shape, HostsKept
  <2>3. QED BY <1>1, <1>2, <2>1, <2>2, CloseTalk DEF IInv, HostsKept
<1>3. CASE /\ letter[c].state = "live" /\ Close(j) /\ UNCHANGED servings
           /\ letter' = [letter EXCEPT ![c] = Renamed(letter[c])]
  <2>1. letter' = [letter EXCEPT ![c] = [letter[c] EXCEPT !.state = "used"]]
    BY <1>3 DEF Renamed
  <2>2. /\ letter' \in [Cookies -> LetterType] /\ Named' /\ OutstandingUsable'
        /\ \A x \in Cookies \ {c} : letter'[x] = letter[x]
    BY <1>1, <1>3, <2>1, Retired
  <2>3. ServedGone' /\ VouchedNames'
    BY <1>1, <1>3, <2>2 DEF IInv, ServedGone, VouchedNames
  <2>4. Shape'
    BY <1>1, <1>3, <2>2, CloseTalk DEF IInv, Shape, HostsKept
  <2>5. QED BY <1>1, <1>3, <2>2, <2>3, <2>4, CloseTalk DEF IInv, HostsKept
<1>4. CASE /\ letter[c].state = "live"
           /\ letter' = [letter EXCEPT ![c] = [letter[c] EXCEPT !.state = "gone"]]
           /\ servings' = [servings EXCEPT ![c] = @ + 1]
           /\ server' = [server EXCEPT ![j] = [phase |-> "pubkey", name |-> letter[c].name]]
           /\ record' = [record EXCEPT ![j] = <<"file", letter[c].name>>]
  <2>1. /\ letter' \in [Cookies -> LetterType] /\ Named' /\ OutstandingUsable'
        /\ letter'[c].state = "gone"
        /\ \A x \in Cookies \ {c} : letter'[x] = letter[x]
    BY <1>1, <1>4, Retired
  <2>2. letter[c].name \in Names
    BY <1>4 DEF IInv, Named
  <2>3. servings' \in [Cookies -> Nat] /\ ServedGone'
    BY <1>4, <2>1 DEF IInv, Shape, ServedGone
  <2>4. /\ server' \in [Joiners -> [phase : {"off", "cookie", "pubkey", "done"}, name : Names \cup {0}]]
        /\ server'[j] = [phase |-> "pubkey", name |-> letter[c].name]
        /\ DOMAIN record' = Joiners /\ record'[j] = <<"file", letter[c].name>>
        /\ \A k \in Joiners \ {j} : server'[k] = server[k] /\ record'[k] = record[k]
    BY <1>4, <2>2 DEF IInv, Shape
  <2>5. client[j].at = "new"
    BY <1>1 DEF IInv, Talk
  <2>6. \A k \in Joiners : Talk(k)'
    <3> SUFFICES ASSUME NEW k \in Joiners PROVE Talk(k)'
      OBVIOUS
    <3>1. CASE k = j
      BY <3>1, <1>1, <2>2, <2>4, <2>5 DEF Talk
    <3>2. CASE k # j
      BY <3>2, <1>1, <2>4 DEF Talk, IInv
    <3>3. QED BY <3>1, <3>2
  <2>7. Shape' /\ VouchedNames'
    BY <1>1, <2>1, <2>3, <2>4 DEF IInv, Shape, VouchedNames
  <2>8. QED BY <2>1, <2>3, <2>6, <2>7 DEF IInv
<1>5. (Renamed(letter[c])).state = "used" /\ [Renamed(letter[c]) EXCEPT !.state = "gone"]
                                            = [letter[c] EXCEPT !.state = "gone"]
  BY DEF Renamed, IInv, Shape, LetterType
<1>6. QED BY <1>2, <1>3, <1>4, <1>5 DEF ServeCookie, Exists

LEMMA FinalizeJoinStep ==
    ASSUME IInv, NEW j \in Joiners, FinalizeJoin(j)
    PROVE  IInv'
<1>1. /\ record[j] # NoRecord /\ record[j][1] = "file"
      /\ client' = [client EXCEPT ![j] = [at |-> "configured", name |-> record[j][2]]]
      /\ record' = [record EXCEPT ![j] = IF server[j] = Off THEN NoRecord ELSE <<"pubkey", j>>]
      /\ UNCHANGED <<letter, diskKey, daemonKey, keys, hosts, server, servings>>
  BY DEF FinalizeJoin
<1>2. /\ record[j][2] \in Names
      /\ server[j] = Off \/ (server[j].phase = "pubkey" /\ server[j].name = record[j][2])
  BY <1>1 DEF IInv, Talk
<1>3. /\ client' \in [Joiners -> [at : {"new", "configured", "joined"}, name : Names \cup {0}]]
      /\ client'[j] = [at |-> "configured", name |-> record[j][2]]
      /\ DOMAIN record' = Joiners
      /\ record'[j] = IF server[j] = Off THEN NoRecord ELSE <<"pubkey", j>>
      /\ \A k \in Joiners \ {j} : client'[k] = client[k] /\ record'[k] = record[k]
  BY <1>1, <1>2 DEF IInv, Shape
<1>4. \A k \in Joiners : Talk(k)'
  <2> SUFFICES ASSUME NEW k \in Joiners PROVE Talk(k)'
    OBVIOUS
  <2>1. CASE k = j
    BY <2>1, <1>1, <1>2, <1>3 DEF Talk
  <2>2. CASE k # j
    BY <2>2, <1>1, <1>3 DEF Talk, IInv
  <2>3. QED BY <2>1, <2>2
<1>5. Shape' /\ VouchedNames'
  BY <1>1, <1>3 DEF IInv, Shape, VouchedNames
<1>6. Named' /\ ServedGone' /\ OutstandingUsable'
  BY <1>1 DEF IInv, Named, ServedGone, OutstandingUsable, LiveLetters
<1>7. QED BY <1>4, <1>5, <1>6 DEF IInv

(* O_EXCL: the host file that vouches for another joiner is not touched.   *)
LEMMA ReceiveKeyStep ==
    ASSUME IInv, NEW j \in Joiners, ReceiveKey(j)
    PROVE  IInv'
<1> DEFINE n == server[j].name
<1>1. /\ server[j].phase = "pubkey" /\ record[j] = <<"pubkey", j>>
      /\ UNCHANGED <<letter, diskKey, daemonKey, keys, client, servings>>
  BY DEF ReceiveKey
<1>2. /\ n \in Names /\ client[j].at = "configured" /\ client[j].name = n
  <2>1. record[j] # NoRecord /\ record[j][1] = "pubkey"
    BY <1>1
  <2>2. QED BY <2>1 DEF IInv, Talk
<1>3. Named' /\ ServedGone' /\ OutstandingUsable'
  BY <1>1 DEF IInv, Named, ServedGone, OutstandingUsable, LiveLetters
<1>4. CASE Close(j) /\ UNCHANGED hosts
  <2>1. Shape' /\ VouchedNames'
    BY <1>1, <1>4, CloseTalk DEF IInv, Shape, HostsKept, VouchedNames
  <2>2. QED BY <1>1, <1>3, <1>4, <2>1, CloseTalk DEF IInv, HostsKept
<1>5. CASE hosts[n] = 0 /\ Close(j) /\ hosts' = [hosts EXCEPT ![n] = Blank]
  <2>1. hosts' \in [Names -> Joiners \cup {0, Blank}] /\ HostsKept
    BY <1>2, <1>5, InvitationsAssumption DEF IInv, Shape, HostsKept
  <2>2. Shape' /\ VouchedNames'
    BY <1>1, <1>5, <2>1, CloseTalk DEF IInv, Shape, VouchedNames, HostsKept
  <2>3. QED BY <1>1, <1>3, <1>5, <2>1, <2>2, CloseTalk DEF IInv
<1>6. CASE /\ hosts[n] = 0
           /\ hosts' = [hosts EXCEPT ![n] = j]
           /\ server' = [server EXCEPT ![j].phase = "done"]
           /\ record' = [record EXCEPT ![j] = <<"ack", n>>]
  <2>1. /\ hosts' \in [Names -> Joiners \cup {0, Blank}] /\ hosts'[n] = j
        /\ \A x \in Names : hosts[x] \in Joiners => hosts'[x] = hosts[x]
    BY <1>2, <1>6, InvitationsAssumption DEF IInv, Shape
  <2>2. /\ server' \in [Joiners -> [phase : {"off", "cookie", "pubkey", "done"}, name : Names \cup {0}]]
        /\ server'[j].phase = "done" /\ server'[j].name = n
        /\ DOMAIN record' = Joiners /\ record'[j] = <<"ack", n>>
        /\ \A k \in Joiners \ {j} : server'[k] = server[k] /\ record'[k] = record[k]
    BY <1>6 DEF IInv, Shape
  <2>3. VouchedNames'
    BY <1>1, <2>1 DEF IInv, VouchedNames
  <2>4. \A k \in Joiners : Talk(k)'
    <3> SUFFICES ASSUME NEW k \in Joiners PROVE Talk(k)'
      OBVIOUS
    <3>1. CASE k = j
      BY <3>1, <1>1, <1>2, <2>1, <2>2 DEF Talk
    <3>2. CASE k # j
      BY <3>2, <1>1, <2>1, <2>2 DEF Talk, IInv
    <3>3. QED BY <3>1, <3>2
  <2>5. Shape'
    BY <1>1, <2>1, <2>2 DEF IInv, Shape
  <2>6. QED BY <1>3, <2>3, <2>4, <2>5 DEF IInv
<1>7. QED BY <1>4, <1>5, <1>6 DEF ReceiveKey, Creates

LEMMA AcceptedStep ==
    ASSUME IInv, NEW j \in Joiners, Accepted(j)
    PROVE  IInv'
<1>1. /\ record[j] # NoRecord /\ record[j][1] = "ack"
      /\ client' = [client EXCEPT ![j].at = "joined"]
      /\ server' = [server EXCEPT ![j] = Off] /\ record' = [record EXCEPT ![j] = NoRecord]
      /\ UNCHANGED <<letter, diskKey, daemonKey, keys, hosts, servings>>
  BY DEF Accepted, Close
<1>2. client[j].name \in Names /\ hosts[client[j].name] = j
  BY <1>1 DEF IInv, Talk
<1>3. /\ client' \in [Joiners -> [at : {"new", "configured", "joined"}, name : Names \cup {0}]]
      /\ server' \in [Joiners -> [phase : {"off", "cookie", "pubkey", "done"}, name : Names \cup {0}]]
      /\ client'[j].name = client[j].name
      /\ DOMAIN record' = Joiners /\ record'[j] = NoRecord
      /\ \A k \in Joiners \ {j} :
            client'[k] = client[k] /\ record'[k] = record[k] /\ server'[k] = server[k]
  BY <1>1 DEF IInv, Shape, Off
<1>4. VouchedNames'
  BY <1>1, <1>2, <1>3 DEF IInv, VouchedNames
<1>5. \A k \in Joiners : Talk(k)'
  BY <1>1, <1>3 DEF IInv, Talk
<1>6. Shape'
  BY <1>1, <1>3 DEF IInv, Shape
<1>7. Named' /\ ServedGone' /\ OutstandingUsable'
  BY <1>1 DEF IInv, Named, ServedGone, OutstandingUsable, LiveLetters
<1>8. QED BY <1>4, <1>5, <1>6, <1>7 DEF IInv

LEMMA BreakConnectionStep ==
    ASSUME IInv, NEW j \in Joiners, BreakConnection(j)
    PROVE  IInv'
<1>1. /\ Close(j) /\ UNCHANGED <<letter, diskKey, daemonKey, keys, hosts, client, servings>>
  BY DEF BreakConnection
<1>2. Named' /\ ServedGone' /\ VouchedNames' /\ OutstandingUsable'
  BY <1>1 DEF IInv, Named, ServedGone, VouchedNames, OutstandingUsable, LiveLetters
<1>3. Shape'
  BY <1>1, CloseTalk DEF IInv, Shape, HostsKept
<1>4. QED BY <1>1, <1>2, <1>3, CloseTalk DEF IInv, HostsKept

(* A crash between the rename and what follows it leaves the invitation    *)
(* used and not served.                                                    *)
LEMMA CrashRestartStep ==
    ASSUME IInv, NEW j \in Joiners, CrashRestart(j)
    PROVE  IInv'
<1>1. /\ server' = [k \in Joiners |-> Off] /\ daemonKey' = diskKey
      /\ UNCHANGED <<diskKey, keys, client, servings>>
  BY DEF CrashRestart
<1>2. PICK kept \in SUBSET ToJoiner :
         record' = [k \in Joiners |-> IF k \in kept THEN record[k] ELSE NoRecord]
  BY DEF CrashRestart
<1>3. letter' \in [Cookies -> LetterType] /\ Named' /\ OutstandingUsable' /\ ServedGone'
  <2>1. CASE UNCHANGED letter
    BY <1>1, <2>1 DEF IInv, Shape, Named, OutstandingUsable, LiveLetters, ServedGone
  <2>2. CASE /\ server[j].phase = "cookie" /\ record[j] # NoRecord
             /\ letter[record[j][2]].state = "live"
             /\ letter' = [letter EXCEPT ![record[j][2]] = Renamed(@)]
    <3>1. record[j][2] \in Cookies
      BY <2>2 DEF IInv, Talk, Off
    <3>2. letter' = [letter EXCEPT ![record[j][2]] = [letter[record[j][2]] EXCEPT !.state = "used"]]
      BY <2>2 DEF Renamed
    <3>3. /\ letter' \in [Cookies -> LetterType] /\ Named' /\ OutstandingUsable'
          /\ \A x \in Cookies \ {record[j][2]} : letter'[x] = letter[x]
      BY <1>1, <2>2, <3>1, <3>2, Retired
    <3>4. ServedGone'
      BY <1>1, <2>2, <3>1, <3>3 DEF IInv, ServedGone
    <3>5. QED BY <3>3, <3>4
  <2>3. QED BY <2>1, <2>2 DEF CrashRestart, Exists
<1>4. hosts' \in [Names -> Joiners \cup {0, Blank}] /\ HostsKept
  <2>1. CASE UNCHANGED hosts
    BY <2>1 DEF IInv, Shape, HostsKept
  <2>2. CASE hosts[server[j].name] = 0
             /\ \E h \in {Blank, j} : hosts' = [hosts EXCEPT ![server[j].name] = h]
    BY <2>2, InvitationsAssumption DEF IInv, Shape, HostsKept
  <2>3. QED BY <2>1, <2>2 DEF CrashRestart, Creates
<1>5. Shape'
  BY <1>1, <1>2, <1>3, <1>4 DEF IInv, Shape, Off
<1>6. VouchedNames'
  BY <1>1, <1>4 DEF IInv, VouchedNames, HostsKept
<1>7. ASSUME NEW k \in Joiners PROVE Talk(k)'
  <2>1. server'[k] = Off /\ client'[k] = client[k]
    BY <1>1
  <2>2. CASE k \notin kept
    BY <1>2, <2>2 DEF Talk
  <2>3. CASE k \in kept
    <3>1. record'[k] = record[k] /\ record[k] # NoRecord /\ record[k][1] \in {"file", "ack"}
      BY <1>2, <2>3 DEF ToJoiner
    <3>2. CASE record[k][1] = "file"
      BY <2>1, <3>1, <3>2 DEF IInv, Talk
    <3>3. CASE record[k][1] = "ack"
      <4>1. client[k].at = "configured" /\ client[k].name \in Names /\ hosts[client[k].name] = k
        BY <3>1, <3>3 DEF IInv, Talk
      <4>2. hosts'[client[k].name] = k /\ server'[k].phase = "off"
        BY <1>4, <2>1, <4>1 DEF HostsKept, Off
      <4>3. QED BY <2>1, <3>1, <3>3, <4>1, <4>2 DEF Talk
    <3>4. QED BY <3>1, <3>2, <3>3
  <2>4. QED BY <2>2, <2>3
<1>8. QED BY <1>3, <1>5, <1>6, <1>7 DEF IInv

-----------------------------------------------------------------------------
LEMMA IInvInit == InvitationInit => IInv
<1> SUFFICES ASSUME InvitationInit PROVE IInv
  OBVIOUS
<1>1. Unissued \in LetterType /\ Unissued.state = "none"
  BY DEF Unissued, Written, LetterType
<1>2. letter = [c \in Cookies |-> Unissued]
  BY DEF InvitationInit
<1>3. Named /\ OutstandingUsable
  BY <1>1, <1>2 DEF Named, OutstandingUsable, LiveLetters
<1>4. Shape
  BY <1>1 DEF InvitationInit, Shape, Off
<1>5. ServedGone /\ VouchedNames /\ \A j \in Joiners : Talk(j)
  BY DEF InvitationInit, ServedGone, VouchedNames, Talk
<1>6. QED BY <1>3, <1>4, <1>5 DEF IInv

LEMMA IInvStep == IInv /\ [InvitationNext]_invitationVars => IInv'
<1> SUFFICES ASSUME IInv, [InvitationNext]_invitationVars PROVE IInv'
  OBVIOUS
<1>1. CASE UNCHANGED invitationVars
  BY <1>1 DEF invitationVars, IInv, Shape, Named, ServedGone, VouchedNames,
              OutstandingUsable, LiveLetters, Talk
<1>2. QED
  BY <1>1, InviteStep, GrowsOldStep, ReloadKeyStep, JoinStep, ServeCookieStep, FinalizeJoinStep,
     ReceiveKeyStep, AcceptedStep, BreakConnectionStep, CrashRestartStep DEF InvitationNext

LEMMA IInvAlways == InvitationSpec => []IInv
BY IInvInit, IInvStep, PTL DEF InvitationSpec

(* However many joiners know a URL and wherever the daemon dies, an        *)
(* invitation is sent at most once (serve_cookie's rename).                *)
THEOREM SingleUseCorrect == InvitationSpec => []SingleUse
<1>1. IInv => SingleUse
  BY DEF IInv, Shape, ServedGone, SingleUse
<1>2. QED BY <1>1, IInvAlways, PTL

(* Whoever was told that he is accepted is known under his name with his   *)
(* key, for good (finalize's O_EXCL).                                      *)
THEOREM VouchedCorrect == InvitationSpec => []Vouched
<1>1. IInv => Vouched
  BY DEF IInv, VouchedNames, Vouched
<1>2. QED BY <1>1, IInvAlways, PTL

(* No rotation of the key spoils an invitation that is still to be         *)
(* redeemed (invite's sweep before it asks whether any is left).           *)
THEOREM OutstandingUsableCorrect == InvitationSpec => []OutstandingUsable
<1>1. IInv => OutstandingUsable
  BY DEF IInv
<1>2. QED BY <1>1, IInvAlways, PTL
=============================================================================
