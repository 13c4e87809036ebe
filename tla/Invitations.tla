---------------------------- MODULE Invitations -----------------------------
(* Invitations: `tinc invite` writes them, the daemon serves each once,    *)
(* `tinc join` redeems them and its public key becomes a host file         *)
(* (tinc-tools cmd/invite.rs and cmd/join.rs, tincd invitation_serve.rs    *)
(* and dispatch_invitation_outputs). Files survive a crash of the daemon,  *)
(* connections do not. The SPTPS session of a connection is taken as       *)
(* secure; a cookie is known to whoever was given the URL.                 *)
EXTENDS Integers, FiniteSets

CONSTANTS
    Cookies,    \* invitations that may be written
    Names,      \* names of nodes to invite
    Joiners     \* machines that run `tinc join`; each makes one key, of its name

Blank == -1   \* a host file that was created and has no key in it

ASSUME InvitationsAssumption == IsFiniteSet(Cookies) /\ {0, Blank} \cap Joiners = {}

VARIABLES
    letter,     \* the invitation files: state, name and key they were made under
    diskKey,    \* invitations/ed25519_key.priv, 0 when there is none
    daemonKey,  \* invitation_key of the running daemon
    keys,       \* invitation keys made so far
    hosts,      \* hosts/NAME of the inviter: whose key it holds, Blank, or 0 for no file
    server,     \* the daemon's InvitePhase of each connection
    client,     \* how far each joiner is
    record,     \* the record on its way on each connection
    servings    \* history: how often an invitation was sent to someone

invitationVars == <<letter, diskKey, daemonKey, keys, hosts, server, client, record, servings>>

(* The file of an invitation that was written for n under key k. *)
Written(n, k) == [state |-> "live", name |-> n, key |-> k, old |-> FALSE, expired |-> FALSE]

Unissued == [Written(0, 0) EXCEPT !.state = "none"]
Off == [phase |-> "off", name |-> 0]
NoRecord == <<>>

InvitationInit ==
    /\ letter = [c \in Cookies |-> Unissued]
    /\ diskKey = 0 /\ daemonKey = 0 /\ keys = 0
    /\ hosts = [n \in Names |-> 0]
    /\ server = [j \in Joiners |-> Off]
    /\ client = [j \in Joiners |-> [at |-> "new", name |-> 0]]
    /\ record = [j \in Joiners |-> NoRecord]
    /\ servings = [c \in Cookies |-> 0]

LiveLetters(l) == {c \in Cookies : l[c].state = "live"}

-----------------------------------------------------------------------------
(* Mutant: the key is made anew with every invitation. *)
RotatesAlways(live) == TRUE

(* "No live invitations: drop the old key." *)
Rotates(live) == live = {}

(* invite, and the reload that is tried when the key is new. *)
Invite(c, n) ==
    LET swept == [x \in Cookies |->
                    IF letter[x].state = "live" /\ letter[x].old
                    THEN [letter[x] EXCEPT !.state = "gone"] ELSE letter[x]]
        new == Rotates(LiveLetters(swept))
    IN
    /\ letter[c] = Unissued /\ hosts[n] = 0
    /\ keys' = IF new THEN keys + 1 ELSE keys
    /\ diskKey' = IF new THEN keys' ELSE diskKey
    /\ letter' = [swept EXCEPT ![c] = Written(n, diskKey')]
    /\ daemonKey' \in IF new THEN {daemonKey, diskKey'} ELSE {daemonKey}
    /\ UNCHANGED <<hosts, server, client, record, servings>>

(* Two lifetimes that are configured apart pass in either order: the week  *)
(* that `tinc invite` sweeps by, and InvitationExpire of the daemon.       *)
GrowsOld(c) ==
    /\ letter[c].state = "live"
    /\ \/ ~letter[c].old /\ letter' = [letter EXCEPT ![c].old = TRUE]
       \/ ~letter[c].expired /\ letter' = [letter EXCEPT ![c].expired = TRUE]
    /\ UNCHANGED <<diskKey, daemonKey, keys, hosts, server, client, record, servings>>

(* SIGHUP or REQ_RELOAD: read_invitation_key. *)
ReloadKey ==
    /\ daemonKey # diskKey /\ daemonKey' = diskKey
    /\ UNCHANGED <<letter, diskKey, keys, hosts, server, client, record, servings>>

(* join, up to the cookie: refused where there is a tinc.conf, and when    *)
(* the daemon's key is not the one the URL was made under.                 *)
Join(j, c) ==
    /\ client[j].at = "new" /\ server[j] = Off /\ record[j] = NoRecord
    /\ letter[c] # Unissued /\ daemonKey # 0 /\ daemonKey = letter[c].key
    /\ server' = [server EXCEPT ![j].phase = "cookie"]
    /\ record' = [record EXCEPT ![j] = <<"cookie", c>>]
    /\ UNCHANGED <<letter, diskKey, daemonKey, keys, hosts, client, servings>>

(* The connection is closed; a joiner that had its configuration written   *)
(* keeps it.                                                               *)
Close(j) ==
    /\ server' = [server EXCEPT ![j] = Off]
    /\ record' = [record EXCEPT ![j] = NoRecord]

(* Mutant: the file is copied instead of renamed. *)
RenamedNot(l) == l

Renamed(l) == [l EXCEPT !.state = "used"]

(* serve_cookie finds the file under the key the daemon has now. *)
Exists(c) == letter[c].state = "live" /\ letter[c].key = daemonKey /\ daemonKey # 0

(* Type 0: there is no such file; or it was renamed and has expired, is    *)
(* unreadable or malformed, and stays as it is; or it is sent, unlinked,   *)
(* and the key awaited.                                                    *)
ServeCookie(j, c) ==
    LET used == Renamed(letter[c]) IN
    /\ server[j].phase = "cookie" /\ record[j] = <<"cookie", c>>
    /\ \/ ~Exists(c) /\ Close(j) /\ UNCHANGED <<letter, servings>>
       \/ /\ Exists(c)
          /\ letter' = [letter EXCEPT ![c] = used]
          /\ Close(j) /\ UNCHANGED servings
       \/ /\ Exists(c) /\ ~letter[c].expired
          /\ letter' = [letter EXCEPT ![c] = IF used.state = "used"
                                             THEN [used EXCEPT !.state = "gone"] ELSE used]
          /\ servings' = [servings EXCEPT ![c] = @ + 1]
          /\ server' = [server EXCEPT ![j] = [phase |-> "pubkey", name |-> letter[c].name]]
          /\ record' = [record EXCEPT ![j] = <<"file", letter[c].name>>]
    /\ UNCHANGED <<diskKey, daemonKey, keys, hosts, client>>

(* finalize_join: the joiner writes its configuration and a new key, which *)
(* is lost when the daemon is gone.                                        *)
FinalizeJoin(j) ==
    /\ record[j] # NoRecord /\ record[j][1] = "file"
    /\ client' = [client EXCEPT ![j] = [at |-> "configured", name |-> record[j][2]]]
    /\ record' = [record EXCEPT ![j] = IF server[j] = Off THEN NoRecord ELSE <<"pubkey", j>>]
    /\ UNCHANGED <<letter, diskKey, daemonKey, keys, hosts, server, servings>>

(* Mutant: an existing host file is written over. *)
CreatesOver(n) == TRUE

(* O_CREAT | O_EXCL *)
Creates(n) == hosts[n] = 0

(* Type 1: finalize, and the acknowledgement. The write may fail after the *)
(* file was created.                                                       *)
ReceiveKey(j) ==
    LET n == server[j].name IN
    /\ server[j].phase = "pubkey" /\ record[j] = <<"pubkey", j>>
    /\ \/ ~Creates(n) /\ Close(j) /\ UNCHANGED hosts
       \/ Creates(n) /\ Close(j) /\ hosts' = [hosts EXCEPT ![n] = Blank]
       \/ /\ Creates(n)
          /\ hosts' = [hosts EXCEPT ![n] = j]
          /\ server' = [server EXCEPT ![j].phase = "done"]
          /\ record' = [record EXCEPT ![j] = <<"ack", n>>]
    /\ UNCHANGED <<letter, diskKey, daemonKey, keys, client, servings>>

(* Type 2, and the joiner closes. *)
Accepted(j) ==
    /\ record[j] # NoRecord /\ record[j][1] = "ack"
    /\ client' = [client EXCEPT ![j].at = "joined"]
    /\ Close(j)
    /\ UNCHANGED <<letter, diskKey, daemonKey, keys, hosts, servings>>

BreakConnection(j) ==
    /\ server[j] # Off /\ Close(j)
    /\ UNCHANGED <<letter, diskKey, daemonKey, keys, hosts, client, servings>>

(* The records that are on their way to a joiner. *)
ToJoiner == {j \in Joiners : record[j] # NoRecord /\ record[j][1] \in {"file", "ack"}}

(* The daemon dies and is started again, maybe between the rename and what *)
(* follows it, or around the write of a host file. What it had sent may    *)
(* still arrive.                                                           *)
CrashRestart(j) ==
    /\ \/ UNCHANGED <<letter, hosts>>
       \/ /\ server[j].phase = "cookie" /\ record[j] # NoRecord /\ Exists(record[j][2])
          /\ letter' = [letter EXCEPT ![record[j][2]] = Renamed(@)]
          /\ UNCHANGED hosts
       \/ /\ server[j].phase = "pubkey" /\ record[j] = <<"pubkey", j>> /\ Creates(server[j].name)
          /\ \E h \in {Blank, j} : hosts' = [hosts EXCEPT ![server[j].name] = h]
          /\ UNCHANGED letter
    /\ server' = [k \in Joiners |-> Off]
    /\ \E kept \in SUBSET ToJoiner :
          record' = [k \in Joiners |-> IF k \in kept THEN record[k] ELSE NoRecord]
    /\ daemonKey' = diskKey
    /\ UNCHANGED <<diskKey, keys, client, servings>>

InvitationNext ==
    \/ ReloadKey
    \/ \E c \in Cookies, n \in Names : Invite(c, n)
    \/ \E c \in Cookies : GrowsOld(c)
    \/ \E j \in Joiners :
          \/ \E c \in Cookies : Join(j, c) \/ ServeCookie(j, c)
          \/ FinalizeJoin(j) \/ ReceiveKey(j) \/ Accepted(j)
          \/ BreakConnection(j) \/ CrashRestart(j)

InvitationSpec == InvitationInit /\ [][InvitationNext]_invitationVars

-----------------------------------------------------------------------------
(* "Single-use is enforced BY the atomic rename": no invitation is sent to *)
(* two joiners, nor twice to one, whoever else knows the URL and whenever  *)
(* the daemon dies.                                                        *)
SingleUse == \A c \in Cookies : servings[c] <= 1

(* A joiner that was told it is accepted is known to the inviter under its *)
(* name and with its key, for good, even if the name was invited twice.    *)
Vouched == \A j \in Joiners : client[j].at = "joined" => hosts[client[j].name] = j

(* Every invitation that is still to be redeemed, expired for one side or  *)
(* the other as it may be, was made under the key on disk: "rotating would *)
(* invalidate every outstanding URL".                                      *)
OutstandingUsable == \A c \in LiveLetters(letter) : letter[c].key = diskKey
=============================================================================
