-------------------------------- MODULE WiFi --------------------------------
(***************************************************************************)
(* WiFiManager and its conversation with wpa_supplicant over a datagram    *)
(* socket.  wpa() sends one command and takes the first reply it finds; it *)
(* gives up after some seconds, and the reply to that command then waits   *)
(* in the socket for the next caller.  Nothing ties a reply to a command,  *)
(* and the threads that call the manager share the socket without a lock.  *)
(*                                                                         *)
(* wpa_supplicant is external: it answers commands in order, keeps the     *)
(* networks and the selected one, and may be restarted, from its           *)
(* configuration file, at any time.                                        *)
(***************************************************************************)
EXTENDS Integers, Sequences, FiniteSets

CONSTANTS
    WifiCallers,   \* threads that call the manager
    Ssids,         \* names of networks, numbers from 1
    MaxNetId,      \* bound on the ids of networks in the daemon
    MaxWifiCalls,  \* bound on the calls made
    MaxUpsets      \* bound on late replies and restarts of wpa_supplicant

ASSUME WiFiAssumption ==
    /\ IsFiniteSet(WifiCallers)
    /\ Ssids \subseteq Nat \ {0} /\ MaxNetId \in Nat /\ MaxWifiCalls \in Nat
    /\ MaxUpsets \in Nat

VARIABLES
    wfCall,      \* what each caller is doing
    wfSocket,    \* 1 when ctrl_fd_ leads to the running daemon
    wfRequests, wfReplies,   \* datagrams under way
    wfNets,      \* the networks in the daemon: ssid, 0 before it is set, and key
    wfConf,      \* the same in wpa_supplicant.conf
    wfCurrent,   \* id of the selected network, Absent for none
    wfLinked,    \* 1 when wpa_state is COMPLETED
    wfSpoiled,   \* ssids saved with an old password, or with a network that an undisturbed
                 \* connect did not clean up (history)
    wfCalls, wfLate, wfDaemons

wfVars == <<wfCall, wfSocket, wfRequests, wfReplies, wfNets, wfConf, wfCurrent, wfLinked,
            wfSpoiled, wfCalls, wfLate, wfDaemons>>
wfDaemon == <<wfNets, wfConf, wfCurrent, wfLinked>>

Absent == -1
NetIds == 0..MaxNetId
Keys == {"none", "right", "wrong"}
Net(ssid, key) == [ssid |-> ssid, key |-> key]
NoNet == Net(Absent, "none")
Commands == {"list", "add", "ssid", "key", "bssid", "select", "status", "remove", "save",
             "disconnect"}
Ops == {"connect", "forget", "disconnect", "list", "status"}

\* at: the command to send; waiting: 1 once it is sent; new: 1 when connect adds a network;
\* seen: whether the link to ssid was up at some moment of the call; calm: 0 once another
\* call has overlapped this one or the daemon was restarted; told: what it returned.
Rest == [op |-> "none", at |-> "none", waiting |-> 0, ssid |-> 0, psk |-> "none", id |-> 0,
         new |-> 0, seen |-> 0, calm |-> 1, told |-> "nothing"]
Reply(kind, id, nets) == [kind |-> kind, id |-> id, nets |-> nets]
NoNets == [n \in NetIds |-> NoNet]
Ok == Reply("ok", 0, NoNets)
Fail == Reply("fail", 0, NoNets)
Silence == Reply("none", 0, NoNets)

Upset == wfLate + wfDaemons < MaxUpsets
InCall(c) == wfCall[c].op # "none" /\ wfCall[c].told = "nothing"

-----------------------------------------------------------------------------
(* The manager. *)

FirstCommand(op) ==
    CASE op \in {"connect", "forget", "list"} -> "list"
      [] op = "disconnect" -> "disconnect"
      [] op = "status" -> "status"

\* A "short" password is one that wpa_supplicant does not accept.
CallStart(c, op, ssid, psk) ==
    LET others == {d \in WifiCallers \ {c} : InCall(d)} IN
    /\ ~InCall(c) /\ wfCalls < MaxWifiCalls
    /\ wfCalls' = wfCalls + 1
    /\ wfCall' = [d \in WifiCallers |->
          IF d = c
          THEN [Rest EXCEPT !.op = op, !.at = FirstCommand(op), !.ssid = ssid, !.psk = psk,
                            !.calm = IF others = {} THEN 1 ELSE 0,
                            !.seen = IF wfLinked = 1 /\ wfNets[wfCurrent].ssid = ssid THEN 1 ELSE 0]
          ELSE IF d \in others THEN [wfCall[d] EXCEPT !.calm = 0] ELSE wfCall[d]]
    /\ wfSpoiled' = IF others # {} THEN Ssids
                    ELSE IF psk = "short" THEN wfSpoiled \union {ssid} ELSE wfSpoiled
    /\ UNCHANGED <<wfSocket, wfRequests, wfReplies, wfDaemon, wfLate, wfDaemons>>

\* What follows a reply: the possible records of the call afterwards.
Returns(call, told) == [call EXCEPT !.waiting = 0, !.at = "none", !.told = told]
Sends(call, command) == [call EXCEPT !.waiting = 0, !.at = command]

\* The id that parse_list_networks and the search for the ssid find in a reply; any reply
\* that is not a list holds no networks.
FoundIn(r, ssid) == {n \in NetIds : r.kind = "list" /\ r.nets[n].ssid = ssid}
FirstOf(ids) == CHOOSE n \in ids : \A m \in ids : n <= m

AfterList(call, r) ==
    LET found == FoundIn(r, call.ssid) IN
    CASE call.op = "connect" /\ found # {} ->
            {[Sends(call, "bssid") EXCEPT !.id = FirstOf(found), !.new = 0]}
      [] call.op = "connect" /\ found = {} -> {[Sends(call, "add") EXCEPT !.new = 1]}
      [] call.op = "forget" /\ found # {} ->
            {[Sends(call, "remove") EXCEPT !.id = FirstOf(found)]}
      [] OTHER -> {Returns(call, IF call.op = "list" THEN "success" ELSE "error")}

\* Mutant of AfterStatus: a network that was added is not removed after a failure.
AfterStatus_NoRemoval(call, r) ==
    IF call.op = "status" THEN {Returns(call, "success")}
    ELSE IF r.kind = "status" /\ r.id = 1 THEN {Sends(call, "save")}
    ELSE {Sends(call, "status"), Returns(call, "error")}

\* Mutant of AfterStatus: any answer to STATUS is taken for COMPLETED.
AfterStatus_AnyReply(call, r) ==
    IF call.op = "status" THEN {Returns(call, "success")}
    ELSE IF r.kind # "none" THEN {Sends(call, "save")}
    ELSE {Sends(call, "status"),
          IF call.new = 1 THEN Sends(call, "remove") ELSE Returns(call, "error")}

\* connect() polls until the state is COMPLETED or 20 s are over, and then removes a network
\* that it has added.
AfterStatus(call, r) ==
    IF call.op = "status" THEN {Returns(call, "success")}
    ELSE IF r.kind = "status" /\ r.id = 1 THEN {Sends(call, "save")}
    ELSE {Sends(call, "status"),
          IF call.new = 1 THEN Sends(call, "remove") ELSE Returns(call, "error")}

OnOk(call, r, next) == {IF r.kind = "ok" THEN next ELSE Returns(call, "error")}

AfterReply(call, r) ==
    CASE call.at = "list" -> AfterList(call, r)
      [] call.at = "add" -> {IF r.kind = "id" THEN [Sends(call, "ssid") EXCEPT !.id = r.id]
                             ELSE Returns(call, "error")}
      [] call.at = "ssid" -> OnOk(call, r, Sends(call, "key"))
      [] call.at = "key" -> OnOk(call, r, Sends(call, "bssid"))
      [] call.at = "bssid" -> {Sends(call, "select")}
      [] call.at = "select" -> OnOk(call, r, Sends(call, "status"))
      [] call.at = "status" -> AfterStatus(call, r)
      [] call.at = "remove" /\ call.op = "connect" -> {Returns(call, "error")}
      [] call.at = "remove" /\ call.op = "forget" -> OnOk(call, r, Sends(call, "save"))
      [] call.at = "disconnect" -> OnOk(call, r, Returns(call, "success"))
      [] call.at = "save" -> {Returns(call, "success")}

\* wpa(): send one command ...
SendCommand(c) ==
    LET call == wfCall[c] IN
    /\ InCall(c) /\ call.waiting = 0 /\ wfSocket = 1
    /\ wfRequests' = Append(wfRequests, [c |-> call.at, id |-> call.id, ssid |-> call.ssid,
                                         psk |-> call.psk])
    /\ wfCall' = [wfCall EXCEPT ![c].waiting = 1]
    /\ UNCHANGED <<wfSocket, wfReplies, wfDaemon, wfSpoiled, wfCalls, wfLate, wfDaemons>>

\* ... which fails when the daemon behind the socket is gone: the socket is closed with all
\* it still held, and the next command opens a new one ...
SendFails(c) ==
    /\ InCall(c) /\ wfCall[c].waiting = 0 /\ wfSocket = 0
    /\ wfSocket' = 1 /\ wfReplies' = <<>>
    /\ \E next \in AfterReply(wfCall[c], Silence) :
          wfCall' = [wfCall EXCEPT ![c] = [next EXCEPT !.calm = 0]]
    /\ UNCHANGED <<wfRequests, wfDaemon, wfSpoiled, wfCalls, wfLate, wfDaemons>>

\* ... and take a reply ...
TakeReply(c) ==
    /\ InCall(c) /\ wfCall[c].waiting = 1 /\ wfReplies # <<>>
    /\ wfReplies' = Tail(wfReplies)
    /\ \E next \in AfterReply(wfCall[c], Head(wfReplies)) : wfCall' = [wfCall EXCEPT ![c] = next]
    /\ UNCHANGED <<wfSocket, wfRequests, wfDaemon, wfSpoiled, wfCalls, wfLate, wfDaemons>>

\* ... or find nothing in time: the reply is late, or was lost with the daemon.
ReplyTimeout(c) ==
    /\ InCall(c) /\ wfCall[c].waiting = 1 /\ wfReplies = <<>>
    /\ \/ wfRequests = <<>> /\ UNCHANGED <<wfLate, wfSpoiled>>
       \/ wfRequests # <<>> /\ Upset /\ wfLate' = wfLate + 1 /\ wfSpoiled' = Ssids
    /\ \E next \in AfterReply(wfCall[c], Silence) : wfCall' = [wfCall EXCEPT ![c] = next]
    /\ UNCHANGED <<wfSocket, wfRequests, wfReplies, wfDaemon, wfCalls, wfDaemons>>

-----------------------------------------------------------------------------
(* wpa_supplicant. *)

Known(n) == wfNets[n] # NoNet
Above == {n \in NetIds : \A m \in NetIds : Known(m) => m < n}
NewId == IF Above = {} THEN Absent ELSE FirstOf(Above)

DaemonAnswers ==
    LET q == Head(wfRequests)
        Say(r) == wfReplies' = Append(wfReplies, r)
        Judge(good) == Say(IF good THEN Ok ELSE Fail) IN
    /\ wfRequests # <<>>
    /\ wfRequests' = Tail(wfRequests)
    /\ \/ q.c = "list" /\ Say(Reply("list", 0, wfNets)) /\ UNCHANGED wfDaemon
       \/ q.c = "status" /\ Say(Reply("status", wfLinked, NoNets)) /\ UNCHANGED wfDaemon
       \/ q.c = "bssid" /\ Judge(Known(q.id)) /\ UNCHANGED wfDaemon
       \/ /\ q.c = "add"
          /\ Say(IF NewId = Absent THEN Fail ELSE Reply("id", NewId, NoNets))
          /\ wfNets' = IF NewId = Absent THEN wfNets ELSE [wfNets EXCEPT ![NewId] = Net(0, "none")]
          /\ UNCHANGED <<wfConf, wfCurrent, wfLinked>>
       \/ /\ q.c = "ssid" /\ Judge(Known(q.id))
          /\ wfNets' = IF Known(q.id) THEN [wfNets EXCEPT ![q.id].ssid = q.ssid] ELSE wfNets
          /\ UNCHANGED <<wfConf, wfCurrent, wfLinked>>
       \/ /\ q.c = "key" /\ Judge(Known(q.id) /\ q.psk \in Keys)
          /\ wfNets' = IF Known(q.id) /\ q.psk \in Keys
                       THEN [wfNets EXCEPT ![q.id].key = q.psk] ELSE wfNets
          /\ UNCHANGED <<wfConf, wfCurrent, wfLinked>>
       \/ /\ q.c = "select" /\ Judge(Known(q.id))
          /\ wfCurrent' = IF Known(q.id) THEN q.id ELSE wfCurrent
          /\ wfLinked' = IF Known(q.id) THEN 0 ELSE wfLinked
          /\ UNCHANGED <<wfNets, wfConf>>
       \/ /\ q.c = "remove" /\ Judge(Known(q.id))
          /\ wfNets' = [wfNets EXCEPT ![q.id] = NoNet]
          /\ wfCurrent' = IF wfCurrent = q.id THEN Absent ELSE wfCurrent
          /\ wfLinked' = IF wfCurrent = q.id THEN 0 ELSE wfLinked
          /\ UNCHANGED wfConf
       \/ /\ q.c = "save" /\ Say(Ok) /\ wfConf' = wfNets
          /\ UNCHANGED <<wfNets, wfCurrent, wfLinked>>
       \/ /\ q.c = "disconnect" /\ Say(Ok) /\ wfCurrent' = Absent /\ wfLinked' = 0
          /\ UNCHANGED <<wfNets, wfConf>>
    /\ UNCHANGED <<wfCall, wfSocket, wfSpoiled, wfCalls, wfLate, wfDaemons>>

\* The handshake with the selected network succeeds.
LinkUp ==
    /\ wfCurrent # Absent /\ wfNets[wfCurrent].key = "right" /\ wfLinked = 0
    /\ wfLinked' = 1
    /\ wfCall' = [c \in WifiCallers |->
          IF InCall(c) /\ wfNets[wfCurrent].ssid = wfCall[c].ssid
          THEN [wfCall[c] EXCEPT !.seen = 1] ELSE wfCall[c]]
    /\ UNCHANGED <<wfSocket, wfRequests, wfReplies, wfNets, wfConf, wfCurrent, wfSpoiled, wfCalls,
                   wfLate, wfDaemons>>

\* The daemon is restarted; it selects one of the saved networks by itself.
DaemonRestarts ==
    /\ Upset
    /\ wfDaemons' = wfDaemons + 1
    /\ wfNets' = wfConf /\ wfLinked' = 0
    /\ wfCurrent' \in {n \in NetIds : wfConf[n].ssid > 0} \union {Absent}
    /\ wfRequests' = <<>> /\ wfSocket' = 0
    /\ wfCall' = [c \in WifiCallers |-> IF InCall(c) THEN [wfCall[c] EXCEPT !.calm = 0]
                                        ELSE wfCall[c]]
    /\ UNCHANGED <<wfReplies, wfConf, wfSpoiled, wfCalls, wfLate>>

-----------------------------------------------------------------------------
\* A network may be saved with a password that has been changed since.
WiFiInit ==
    /\ wfCall = [c \in WifiCallers |-> Rest]
    /\ wfSocket = 1 /\ wfRequests = <<>> /\ wfReplies = <<>>
    /\ wfConf \in {NoNets} \union {[NoNets EXCEPT ![0] = Net(s, k)] :
                                 s \in Ssids, k \in {"right", "wrong"}}
    /\ wfNets = wfConf
    /\ wfCurrent = Absent /\ wfLinked = 0
    /\ wfSpoiled = {s \in Ssids : wfConf[0] = Net(s, "wrong")}
    /\ wfCalls = 0 /\ wfLate = 0 /\ wfDaemons = 0

WiFiNext ==
    \/ \E c \in WifiCallers :
          \/ \E s \in Ssids, k \in {"right", "wrong", "short"} : CallStart(c, "connect", s, k)
          \/ \E s \in Ssids : CallStart(c, "forget", s, "none")
          \/ \E op \in {"disconnect", "list", "status"} : CallStart(c, op, 0, "none")
          \/ SendCommand(c) \/ SendFails(c) \/ TakeReply(c) \/ ReplyTimeout(c)
    \/ DaemonAnswers \/ LinkUp \/ DaemonRestarts

WiFiSpec == WiFiInit /\ [][WiFiNext]_wfVars

\* The type of the state; an id that was not found is never used in a command (connect, forget).
WiFiTypeOK ==
    /\ wfCall \in [WifiCallers ->
          [op: Ops \union {"none"}, at: Commands \union {"none"}, waiting: {0, 1},
           ssid: Ssids \union {0}, psk: Keys \union {"short"}, id: NetIds, new: {0, 1},
           seen: {0, 1}, calm: {0, 1}, told: {"nothing", "success", "error"}]]
    /\ wfSocket \in {0, 1}
    /\ \A k \in DOMAIN wfRequests : wfRequests[k].c \in Commands
    /\ {wfNets, wfConf} \subseteq [NetIds -> [ssid: Ssids \union {Absent, 0}, key: Keys]]
    /\ wfCurrent \in NetIds \union {Absent} /\ wfLinked \in {0, 1} /\ wfSpoiled \subseteq Ssids
    /\ wfCalls \in 0..MaxWifiCalls /\ wfLate + wfDaemons \in 0..MaxUpsets

\* connect() reports success only when the link to the network it was asked for has been up
\* during the call, although replies may be those to earlier commands: it takes more than
\* two late replies, a restart of the daemon during the call or another call at the same
\* time to deceive it (wpa, connect).
ConnectTruthful ==
    \A c \in WifiCallers :
        wfCall[c].op = "connect" /\ wfCall[c].told = "success" /\ wfCall[c].calm = 1
            /\ wfLate <= 2 => wfCall[c].seen = 1

\* A wrong password does no lasting harm: whatever attempts came before, a connect with the
\* right one selects a network that has it.  connect() reuses a network with the name and
\* ignores the new password, so this rests on the removal of every network whose handshake
\* failed; it is lost for a network that was saved with a password since changed, after a
\* password that the daemon does not accept, after a late reply and after calls that
\* overlapped, which leave networks behind.
RightPasswordUsed ==
    \A c \in WifiCallers :
        LET call == wfCall[c] IN
        InCall(c) /\ call.op = "connect" /\ call.psk = "right" /\ call.at = "status"
            /\ call.calm = 1 /\ call.ssid \notin wfSpoiled
            => wfNets[call.id] = Net(call.ssid, "right")

\* connect() tries what it was asked to try and reports what came of it (WiFiManager::connect).
ConnectHonest == ConnectTruthful /\ RightPasswordUsed
=============================================================================
