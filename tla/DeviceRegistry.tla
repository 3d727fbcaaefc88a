---------------------------- MODULE DeviceRegistry ----------------------------
(***************************************************************************)
(* The device side of the control plane Hub (application/service/control): *)
(* devices connect over a WebSocket, are bound to the first user that      *)
(* claims them, receive Actions and disconnect, while the table            *)
(* agent_control_device keeps their owner and an online flag.              *)
(*                                                                         *)
(* A connection is one run of serveDevice: its HELLO, the registration,    *)
(* the read loop with its 45 second deadline, the deferred Unregister.  A  *)
(* request is one HTTP call: a bind, or an Action up to the point where    *)
(* Dispatch has chosen a connection for it (ControlHub goes on there).     *)
(* A step is one section under Hub.mu or one statement of the store.       *)
(*                                                                         *)
(* The service restarts in two ways.  A crash ends every goroutine.  A     *)
(* restart for a new configuration happens inside the process (main.go):   *)
(* it builds a new Hub, but http.Server.Shutdown leaves hijacked           *)
(* connections alone, so the read loops of the old Hub go on with it.      *)
(* Hubs are therefore numbered, and "hub" is the one requests are given.   *)
(***************************************************************************)
EXTENDS Naturals

CONSTANTS
  Devices, Users,
  Conns,        \* connections, each opened once
  DeviceOf,     \* the device id in a connection's HELLO
  Capable,      \* connections whose HELLO advertises the requests' capability
  Requests,     \* HTTP requests, each made once
  None,         \* a nil pointer, an empty user id
  MaxHubs, MaxFaults   \* bounds of the checked instance

ASSUME RegistryAssumption ==
  /\ DeviceOf \in [Conns -> Devices]
  /\ Capable \subseteq Conns
  /\ MaxHubs \in Nat \ {0} /\ MaxFaults \in Nat
  /\ None \notin Devices \cup Users \cup Conns

Hubs == 1 .. MaxHubs

VARIABLES
  hub,        \* the Hub of the running service
  devices,    \* Hub.devices, for each Hub
  row,        \* table agent_control_device
  cpc, sock,  \* where the goroutine of a connection is; its socket
  at,         \* the Hub a connection registers with
  owner,      \* UserID of the connection's Device
  found,      \* the owner Register has read
  old,        \* the connection Register closes
  rpc, req,   \* where the goroutine of a request is; its locals
  faults      \* what the bound counts

connVars == <<cpc, sock, at, owner, found, old>>
reqVars  == <<rpc, req>>
vars == <<hub, devices, row, connVars, reqVars, faults>>

-------------------------------------------------------------------------------
Row == [known : BOOLEAN, user : Users \cup {None}, online : BOOLEAN]

ConnLabels == {"new", "find", "upsert", "install", "close",
               "reading", "touch", "offline", "gone"}
RequestLabels == {"idle", "check", "store", "install", "lookup", "owner",
                  "bound", "routed", "failed"}
Request == [hub : Hubs \cup {None}, user : Users \cup {None}, device : Devices \cup {None},
            kind : {"bind", "action", None}, via : Conns \cup {None}]

Asked(u, d, kind) == [hub |-> hub, user |-> u, device |-> d, kind |-> kind, via |-> None]
NoRequest == [hub |-> None, user |-> None, device |-> None, kind |-> None, via |-> None]

TypeOK ==
  /\ hub \in Hubs
  /\ devices \in [Hubs -> [Devices -> Conns \cup {None}]]
  /\ row \in [Devices -> Row]
  /\ cpc \in [Conns -> ConnLabels]
  /\ sock \in [Conns -> {"open", "silent", "closed"}]
  /\ at \in [Conns -> Hubs]
  /\ owner \in [Conns -> Users \cup {None}]
  /\ found \in [Conns -> Users \cup {None}]
  /\ old \in [Conns -> Conns \cup {None}]
  /\ rpc \in [Requests -> RequestLabels]
  /\ req \in [Requests -> Request]
  /\ faults \in Nat

Init ==
  /\ hub = 1
  /\ devices = [h \in Hubs |-> [d \in Devices |-> None]]
  /\ row = [d \in Devices |-> [known |-> FALSE, user |-> None, online |-> FALSE]]
  /\ cpc = [c \in Conns |-> "new"]
  /\ sock = [c \in Conns |-> "closed"]
  /\ at = [c \in Conns |-> 1]
  /\ owner = [c \in Conns |-> None]
  /\ found = [c \in Conns |-> None]
  /\ old = [c \in Conns |-> None]
  /\ rpc = [q \in Requests |-> "idle"]
  /\ req = [q \in Requests |-> NoRequest]
  /\ faults = 0

-------------------------------------------------------------------------------
(* Helpers.                                                                *)
Step(c, from, to) == cpc[c] = from /\ cpc' = [cpc EXCEPT ![c] = to]

(* The entry of c's device in c's Hub.                                     *)
Entry(c) == devices[at[c]][DeviceOf[c]]
SetEntry(c, e) == devices' = [devices EXCEPT ![at[c]][DeviceOf[c]] = e]

(* The entry request q finds, and whether its user may use it.             *)
Target(q) == devices[req[q].hub][req[q].device]
Free(c, u) == owner[c] \in {None, u}

(* Requests go on, or are answered with an error.                          *)
Answer(q, label) == rpc' = [rpc EXCEPT ![q] = label]

-------------------------------------------------------------------------------
(* serveDevice: a HELLO arrives,                                           *)
Hello(c) ==
  /\ Step(c, "new", "find")
  /\ sock' = [sock EXCEPT ![c] = "open"]
  /\ at' = [at EXCEPT ![c] = hub]
  /\ UNCHANGED <<hub, devices, row, owner, found, old, reqVars, faults>>

(* and Register reads the owner the store knows,                           *)
RegisterFind(c) ==
  /\ Step(c, "find", "upsert")
  /\ found' = [found EXCEPT ![c] = row[DeviceOf[c]].user]
  /\ UNCHANGED <<hub, devices, row, sock, at, owner, old, reqVars, faults>>

(* Faulty variant: the upsert writes user_id too.                          *)
RegisterUpsertOwner(c) ==
  /\ Step(c, "upsert", "install")
  /\ row' = [row EXCEPT ![DeviceOf[c]] = [known |-> TRUE, user |-> found[c], online |-> TRUE]]
  /\ UNCHANGED <<hub, devices, sock, at, owner, found, old, reqVars, faults>>

(* inserts or updates the row (the owner of an existing row is not among   *)
(* the columns updated),                                                   *)
RegisterUpsert(c) ==
  LET d == DeviceOf[c] IN
  /\ Step(c, "upsert", "install")
  /\ row' = [row EXCEPT ![d] = [known |-> TRUE, online |-> TRUE,
                                user |-> IF @.known THEN @.user ELSE found[c]]]
  /\ UNCHANGED <<hub, devices, sock, at, owner, found, old, reqVars, faults>>

(* Faulty variant: the connection that is replaced is left open.           *)
RegisterInstallQuietly(c) ==
  /\ Step(c, "install", "reading")
  /\ SetEntry(c, c)
  /\ owner' = [owner EXCEPT ![c] = found[c]]
  /\ UNCHANGED <<hub, row, sock, at, found, old, reqVars, faults>>

(* installs the Device with the owner it has read, whoever has bound the   *)
(* row meanwhile,                                                          *)
RegisterInstall(c) ==
  /\ Step(c, "install", IF Entry(c) = None THEN "reading" ELSE "close")
  /\ SetEntry(c, c)
  /\ owner' = [owner EXCEPT ![c] = found[c]]
  /\ old' = [old EXCEPT ![c] = Entry(c)]
  /\ UNCHANGED <<hub, row, sock, at, found, reqVars, faults>>

(* and closes the connection it has replaced.                              *)
RegisterClose(c) ==
  /\ Step(c, "close", "reading")
  /\ sock' = [sock EXCEPT ![old[c]] = "closed"]
  /\ old' = [old EXCEPT ![c] = None]
  /\ UNCHANGED <<hub, devices, row, at, owner, found, reqVars, faults>>

(* A message is read from the socket.  Touch sets a time in memory, then   *)
Message(c) ==
  /\ Step(c, "reading", "touch")
  /\ sock[c] = "open"
  /\ UNCHANGED <<hub, devices, row, sock, at, owner, found, old, reqVars, faults>>

(* Faulty variant: only the time is stored.                                *)
TouchStoreTime(c) ==
  /\ Step(c, "touch", "reading")
  /\ UNCHANGED <<hub, devices, row, sock, at, owner, found, old, reqVars, faults>>

(* shows the device online in the store, whichever connection is current.  *)
TouchStore(c) ==
  /\ Step(c, "touch", "reading")
  /\ row' = [row EXCEPT ![DeviceOf[c]].online = TRUE]
  /\ UNCHANGED <<hub, devices, sock, at, owner, found, old, reqVars, faults>>

(* Faulty variant: Unregister removes whatever connection is current.      *)
UnregisterAny(c) ==
  /\ sock[c] = "closed"
  /\ SetEntry(c, None)
  /\ Step(c, "reading", "offline")
  /\ UNCHANGED <<hub, row, sock, at, owner, found, old, reqVars, faults>>

(* The read fails: the loop ends, and Unregister removes the entry, if it  *)
(* is still this connection's,                                             *)
Unregister(c) ==
  /\ sock[c] = "closed"
  /\ \/ /\ Entry(c) = c
        /\ SetEntry(c, None)
        /\ Step(c, "reading", "offline")
     \/ /\ Entry(c) # c
        /\ Step(c, "reading", "gone")
        /\ UNCHANGED devices
  /\ UNCHANGED <<hub, row, sock, at, owner, found, old, reqVars, faults>>

(* and then, after the unlock, shows the device offline.                   *)
SetOffline(c) ==
  /\ Step(c, "offline", "gone")
  /\ row' = [row EXCEPT ![DeviceOf[c]].online = FALSE]
  /\ UNCHANGED <<hub, devices, sock, at, owner, found, old, reqVars, faults>>

-------------------------------------------------------------------------------
(* Requests.  BindDevice starts at the checks of bindDevice.               *)
AskBind(q, u, d) ==
  /\ rpc[q] = "idle"
  /\ Answer(q, "check")
  /\ req' = [req EXCEPT ![q] = Asked(u, d, "bind")]
  /\ UNCHANGED <<hub, devices, row, connVars, faults>>

(* ResolveDevice, of the device the request names; that it must be the     *)
(* only usable one when the request names none only rules out some steps.  *)
Usable(d, u) ==
  devices[hub][d] # None /\ Free(devices[hub][d], u) /\ devices[hub][d] \in Capable

Resolve(q, u, d) ==
  /\ rpc[q] = "idle"
  /\ Answer(q, IF Usable(d, u) THEN "check" ELSE "failed")
  /\ req' = [req EXCEPT ![q] = Asked(u, d, "action")]
  /\ UNCHANGED <<hub, devices, row, connVars, faults>>

(* bindDevice: the checks in memory, the conditional update of the row,    *)
(* and the owner in memory, if the device is still, or again, connected.   *)
BindCheck(q) ==
  /\ rpc[q] = "check"
  /\ Answer(q, IF Target(q) # None /\ Free(Target(q), req[q].user) THEN "store" ELSE "failed")
  /\ UNCHANGED <<hub, devices, row, connVars, req, faults>>

(* Faulty variant: the update is not conditional.                          *)
BindStoreAlways(q) ==
  /\ rpc[q] = "store"
  /\ row' = [row EXCEPT ![req[q].device].user = req[q].user]
  /\ Answer(q, "install")
  /\ UNCHANGED <<hub, devices, connVars, req, faults>>

(* Faulty variant: the arguments of the store's BindDevice are swapped.    *)
BindStoreSwapped(q) ==
  /\ rpc[q] = "store"
  /\ row' = [row EXCEPT ![req[q].device].user = req[q].device]
  /\ Answer(q, "install")
  /\ UNCHANGED <<hub, devices, connVars, req, faults>>

BindStore(q) ==
  LET d == req[q].device
      u == req[q].user
  IN
  /\ rpc[q] = "store"
  /\ IF row[d].known /\ row[d].user \in {None, u}
     THEN row' = [row EXCEPT ![d].user = u] /\ Answer(q, "install")
     ELSE Answer(q, "failed") /\ UNCHANGED row
  /\ UNCHANGED <<hub, devices, connVars, req, faults>>

BindInstall(q) ==
  LET c == Target(q) IN
  /\ rpc[q] = "install"
  /\ IF c # None /\ Free(c, req[q].user)
     THEN /\ owner' = [owner EXCEPT ![c] = req[q].user]
          /\ Answer(q, IF req[q].kind = "bind" THEN "bound" ELSE "lookup")
     ELSE Answer(q, "failed") /\ UNCHANGED owner
  /\ UNCHANGED <<hub, devices, row, cpc, sock, at, found, old, req, faults>>

(* Dispatch looks the device up again and keeps its Device,                *)
RouteLookup(q) ==
  LET c == Target(q) IN
  /\ rpc[q] = "lookup"
  /\ IF c # None /\ c \in Capable
     THEN Answer(q, "owner") /\ req' = [req EXCEPT ![q].via = c]
     ELSE Answer(q, "failed") /\ UNCHANGED req
  /\ UNCHANGED <<hub, devices, row, connVars, faults>>

(* and compares its owner, without the lock, before it sends the Action.   *)
RouteOwner(q) ==
  /\ rpc[q] = "owner"
  /\ Answer(q, IF Free(req[q].via, req[q].user) THEN "routed" ELSE "failed")
  /\ UNCHANGED <<hub, devices, row, connVars, req, faults>>

-------------------------------------------------------------------------------
(* The environment.                                                        *)

(* The device closes its end, or stops sending (it sleeps, the network is  *)
(* gone), which the socket's deadline turns into a failed read.            *)
HangUp(c) ==
  /\ sock[c] = "open"
  /\ sock' = [sock EXCEPT ![c] = "closed"]
  /\ UNCHANGED <<hub, devices, row, cpc, at, owner, found, old, reqVars, faults>>

FallSilent(c) ==
  /\ sock[c] = "open"
  /\ sock' = [sock EXCEPT ![c] = "silent"]
  /\ UNCHANGED <<hub, devices, row, cpc, at, owner, found, old, reqVars, faults>>

(* Faulty variant: the deadline set for the HELLO is lifted afterwards.    *)
DeadlineOfHello(c) ==
  /\ cpc[c] = "find"
  /\ sock[c] = "silent"
  /\ sock' = [sock EXCEPT ![c] = "closed"]
  /\ UNCHANGED <<hub, devices, row, cpc, at, owner, found, old, reqVars, faults>>

Deadline(c) ==
  /\ sock[c] = "silent"
  /\ sock' = [sock EXCEPT ![c] = "closed"]
  /\ UNCHANGED <<hub, devices, row, cpc, at, owner, found, old, reqVars, faults>>

(* A statement of the store fails: Register and bindDevice return its      *)
(* error, Touch and Unregister do not look at it.                          *)
ConnStoreFails(c) ==
  /\ faults < MaxFaults
  /\ faults' = faults + 1
  /\ \/ Step(c, "find", "gone") \/ Step(c, "upsert", "gone")
     \/ Step(c, "touch", "reading") \/ Step(c, "offline", "gone")
  /\ UNCHANGED <<hub, devices, row, sock, at, owner, found, old, reqVars>>

RequestStoreFails(q) ==
  /\ faults < MaxFaults
  /\ faults' = faults + 1
  /\ rpc[q] = "store"
  /\ Answer(q, "failed")
  /\ UNCHANGED <<hub, devices, row, connVars, req>>

(* The next Hub starts: boot.Init marks every device offline first.        *)
NextHub ==
  /\ hub < MaxHubs
  /\ hub' = hub + 1
  /\ row' = [d \in Devices |-> [row[d] EXCEPT !.online = FALSE]]

Restart ==
  /\ NextHub
  /\ UNCHANGED <<devices, connVars, reqVars, faults>>

Crash ==
  /\ NextHub
  /\ devices' = [h \in Hubs |-> [d \in Devices |-> None]]
  /\ cpc' = [c \in Conns |-> IF cpc[c] = "new" THEN "new" ELSE "gone"]
  /\ sock' = [c \in Conns |-> "closed"]
  /\ rpc' = [q \in Requests |-> IF rpc[q] = "idle" THEN "idle" ELSE "failed"]
  /\ UNCHANGED <<at, owner, found, old, req, faults>>

-------------------------------------------------------------------------------
Serve(c) ==
  \/ RegisterFind(c) \/ RegisterUpsert(c) \/ RegisterInstall(c) \/ RegisterClose(c)
  \/ TouchStore(c) \/ Unregister(c) \/ SetOffline(c)

Ask(q) ==
  \E u \in Users, d \in Devices : AskBind(q, u, d) \/ Resolve(q, u, d)

Handle(q) ==
  \/ BindCheck(q) \/ BindStore(q) \/ BindInstall(q) \/ RouteLookup(q) \/ RouteOwner(q)

Next ==
  \/ \E c \in Conns : \/ Hello(c) \/ Serve(c) \/ Message(c) \/ ConnStoreFails(c)
                      \/ HangUp(c) \/ FallSilent(c) \/ Deadline(c)
  \/ \E q \in Requests : Ask(q) \/ Handle(q) \/ RequestStoreFails(q)
  \/ Restart \/ Crash

Spec == Init /\ [][Next]_vars

(* Goroutines that have something to do do it, the read deadline fires,    *)
(* and a device whose socket is open sends heartbeats (every loop of the   *)
(* read would fail by the deadline if it did not).  Nobody must connect,   *)
(* hang up or make a request.                                              *)
Fairness ==
  /\ \A c \in Conns : WF_vars(Serve(c)) /\ WF_vars(Message(c)) /\ WF_vars(Deadline(c))
  /\ \A q \in Requests : WF_vars(Handle(q))

FairSpec == Spec /\ Fairness
-------------------------------------------------------------------------------
(* Properties.                                                             *)

(* A claimed device stays its owner's: no registration, bind or restart    *)
(* takes the stored owner away or changes it (UpsertDevice, BindDevice).   *)
OwnerStays ==
  [][\A d \in Devices : row[d].user # None => row'[d].user = row[d].user]_vars

(* Cross-user routing is rejected: the requests that bind a device or are  *)
(* given a connection to it, by whichever Hub and however a registration   *)
(* and another request come in between, all have the same user.            *)
Served(q) == rpc[q] \in {"bound", "routed"}

ExclusiveUse ==
  \A q1, q2 \in Requests :
    (Served(q1) /\ Served(q2) /\ req[q1].device = req[q2].device) => req[q1].user = req[q2].user

(* The owner in memory is the store's: a Device installed with an owner    *)
(* read before a bind knows no owner, never another one.                   *)
MemoryOwnerStored ==
  \A c \in Conns : owner[c] # None => owner[c] = row[DeviceOf[c]].user

(* The registration of a connection being read is lost only to a newer     *)
(* one, which closes it: the late Unregister of an old connection does not *)
(* remove its successor.                                                   *)
Superseded(c) == \E e \in Conns : cpc[e] = "close" /\ old[e] = c

ReadMeansRegistered ==
  \A c \in Conns :
    (cpc[c] \in {"reading", "touch"} /\ sock[c] # "closed") => Entry(c) = c \/ Superseded(c)

(* The read loop of a connection that has been replaced ends.              *)
SupersededEnds ==
  \A c \in Conns : (cpc[c] = "reading" /\ Entry(c) # c) ~> cpc[c] = "gone"

(* A device that stops sending is forgotten: the 45 second deadline.       *)
SilentForgotten ==
  \A c \in Conns : (cpc[c] = "reading" /\ sock[c] = "silent") ~> Entry(c) # c

(* A device that stays connected is shown online in the end, although the  *)
(* Unregister of its former connection may have marked it offline last:    *)
(* its heartbeats repair the row.                                          *)
ConnectedShownOnline ==
  \A d \in Devices : <>[](devices[hub][d] # None) => <>[]row[d].online

(* A device that is shown online can be reached, or will be shown offline  *)
(* ("Runtime Client records device online/offline state",                  *)
(* docs/phase-2-control-plane.md).                                         *)
OnlineIsReachable ==
  \A d \in Devices :
    (row[d].online /\ devices[hub][d] = None) ~> (~row[d].online \/ devices[hub][d] # None)
===============================================================================
