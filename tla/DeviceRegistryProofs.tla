------------------------- MODULE DeviceRegistryProofs -------------------------
(***************************************************************************)
(* Theorems about DeviceRegistry, for any number of devices, users,        *)
(* connections, requests and restarts.                                     *)
(***************************************************************************)
EXTENDS DeviceRegistry, TLAPS

(* What the handlers assign has the type of what it replaces.              *)
LEMMA RowUpdates ==
  ASSUME NEW r \in Row, NEW o \in BOOLEAN, NEW u \in Users \cup {None}
  PROVE  /\ [r EXCEPT !.online = o] \in Row
         /\ [r EXCEPT !.user = u] \in Row
         /\ [known |-> TRUE, online |-> o, user |-> IF r.known THEN r.user ELSE u] \in Row
  BY DEF Row

(* A new request has the type of a request.                                *)
LEMMA RequestAsked ==
  ASSUME TypeOK, NEW u \in Users, NEW d \in Devices, NEW k \in {"bind", "action"}
  PROVE  Asked(u, d, k) \in Request
  BY DEF Request, Asked, TypeOK

(* So has one that has been given a connection.                            *)
LEMMA RequestRouted ==
  ASSUME NEW r \in Request, NEW c \in Conns
  PROVE  [r EXCEPT !.via = c] \in Request
  BY DEF Request

(* Being given a connection changes neither the user nor the device a      *)
(* request is about.                                                       *)
LEMMA RouteKeeps ==
  ASSUME TypeOK, NEW q \in Requests, RouteLookup(q), NEW p \in Requests
  PROVE  req'[p].hub = req[p].hub /\ req'[p].user = req[p].user /\ req'[p].device = req[p].device
<1>. DEFINE r == [req[q] EXCEPT !.via = Target(q)]
<1>1. req[q] \in Request
  BY DEF TypeOK
<1>2. r.hub = req[q].hub /\ r.user = req[q].user /\ r.device = req[q].device
  BY <1>1 DEF Request
<1>3. req' = req \/ req' = [req EXCEPT ![q] = r]
  BY DEF RouteLookup
<1>4. req'[p] = req[p] \/ (p = q /\ req'[p] = r)
  <2>. HIDE DEF r
  <2>. QED
    BY <1>3 DEF TypeOK
<1>. QED
  BY <1>2, <1>4

(* A change of one entry of Hub.devices leaves the other entries as they   *)
(* are.                                                                    *)
LEMMA EntryUpdates ==
  ASSUME TypeOK, RegistryAssumption, NEW c \in Conns, NEW e \in Conns \cup {None}, SetEntry(c, e)
  PROVE  /\ devices' \in [Hubs -> [Devices -> Conns \cup {None}]]
         /\ \A h \in Hubs, d \in Devices :
              devices'[h][d] = IF h = at[c] /\ d = DeviceOf[c] THEN e ELSE devices[h][d]
<1>. DEFINE h == at[c]
            entries == [devices[h] EXCEPT ![DeviceOf[c]] = e]
<1>1. h \in Hubs /\ DeviceOf[c] \in Devices
  BY DEF TypeOK, RegistryAssumption
<1>2. devices \in [Hubs -> [Devices -> Conns \cup {None}]]
  BY DEF TypeOK
<1>3. entries \in [Devices -> Conns \cup {None}]
  BY <1>1, <1>2
<1>4. devices' = [devices EXCEPT ![h] = entries]
  BY DEF SetEntry
<1>5. devices' \in [Hubs -> [Devices -> Conns \cup {None}]]
  BY <1>2, <1>3, <1>4
<1>6. ASSUME NEW g \in Hubs, NEW d \in Devices
      PROVE  devices'[g][d] = IF g = h /\ d = DeviceOf[c] THEN e ELSE devices[g][d]
  BY <1>1, <1>2, <1>3, <1>4
<1>. QED
  BY <1>5, <1>6

(* Every step of every goroutine keeps the types, action by action.        *)
LEMMA TypeStep == TypeOK /\ [Next]_vars => TypeOK'
<1>. USE RegistryAssumption DEF Hubs
<1>. SUFFICES ASSUME TypeOK, [Next]_vars PROVE TypeOK'
  OBVIOUS
<1>. USE DEF TypeOK, ConnLabels, RequestLabels, connVars, reqVars, Step, Answer
<1>1. ASSUME NEW c \in Conns, Hello(c) PROVE TypeOK'
  BY <1>1 DEF Hello
<1>2. ASSUME NEW c \in Conns, RegisterFind(c) PROVE TypeOK'
  BY <1>2 DEF RegisterFind, Row
<1>3. ASSUME NEW c \in Conns, RegisterUpsert(c) PROVE TypeOK'
  <2>1. row' \in [Devices -> Row]
    BY <1>3, RowUpdates DEF RegisterUpsert
  <2>. QED
    BY <1>3, <2>1 DEF RegisterUpsert
<1>4. ASSUME NEW c \in Conns, RegisterInstall(c) PROVE TypeOK'
  <2>1. devices' \in [Hubs -> [Devices -> Conns \cup {None}]]
    BY <1>4, EntryUpdates DEF RegisterInstall
  <2>2. Entry(c) \in Conns \cup {None}
    BY DEF Entry
  <2>. QED
    BY <1>4, <2>1, <2>2 DEF RegisterInstall
<1>5. ASSUME NEW c \in Conns, RegisterClose(c) PROVE TypeOK'
  BY <1>5 DEF RegisterClose
<1>6. ASSUME NEW c \in Conns, Message(c) PROVE TypeOK'
  BY <1>6 DEF Message
<1>7. ASSUME NEW c \in Conns, TouchStore(c) PROVE TypeOK'
  <2>1. row' \in [Devices -> Row]
    BY <1>7, RowUpdates DEF TouchStore
  <2>. QED
    BY <1>7, <2>1 DEF TouchStore
<1>8. ASSUME NEW c \in Conns, Unregister(c) PROVE TypeOK'
  <2>1. devices' \in [Hubs -> [Devices -> Conns \cup {None}]]
    BY <1>8, EntryUpdates DEF Unregister
  <2>2. cpc' \in [Conns -> ConnLabels]
    BY <1>8 DEF Unregister
  <2>. QED
    BY <1>8, <2>1, <2>2 DEF Unregister
<1>9. ASSUME NEW c \in Conns, SetOffline(c) PROVE TypeOK'
  <2>1. row' \in [Devices -> Row]
    BY <1>9, RowUpdates DEF SetOffline
  <2>. QED
    BY <1>9, <2>1 DEF SetOffline
<1>10. ASSUME NEW q \in Requests, NEW u \in Users, NEW d \in Devices, AskBind(q, u, d)
       PROVE  TypeOK'
  BY <1>10, RequestAsked DEF AskBind
<1>11. ASSUME NEW q \in Requests, NEW u \in Users, NEW d \in Devices, Resolve(q, u, d)
       PROVE  TypeOK'
  BY <1>11, RequestAsked DEF Resolve
<1>12. ASSUME NEW q \in Requests, BindCheck(q) PROVE TypeOK'
  BY <1>12 DEF BindCheck
<1>13. ASSUME NEW q \in Requests, BindStore(q) PROVE TypeOK'
  <2>1. req[q].user \in Users \cup {None}
    BY DEF Request
  <2>2. [row[req[q].device] EXCEPT !.user = req[q].user] \in Row \/ req[q].device \notin Devices
    BY <2>1, RowUpdates
  <2>3. row' \in [Devices -> Row]
    BY <1>13, <2>2 DEF BindStore
  <2>. QED
    BY <1>13, <2>3 DEF BindStore
<1>14. ASSUME NEW q \in Requests, BindInstall(q) PROVE TypeOK'
  <2>1. req[q].user \in Users \cup {None}
    BY DEF Request
  <2>. QED
    BY <1>14, <2>1 DEF BindInstall
<1>15. ASSUME NEW q \in Requests, RouteLookup(q) PROVE TypeOK'
  <2>1. CASE Target(q) \in Conns
    <3>1. [req[q] EXCEPT !.via = Target(q)] \in Request
      BY <2>1, RequestRouted
    <3>2. req' \in [Requests -> Request]
      BY <1>15, <3>1 DEF RouteLookup
    <3>. QED
      BY <1>15, <3>2 DEF RouteLookup
  <2>2. CASE Target(q) \notin Conns
    BY <1>15, <2>2 DEF RouteLookup
  <2>. QED
    BY <2>1, <2>2
<1>16. ASSUME NEW q \in Requests, RouteOwner(q) PROVE TypeOK'
  BY <1>16 DEF RouteOwner
<1>17. ASSUME NEW c \in Conns, HangUp(c) PROVE TypeOK'
  BY <1>17 DEF HangUp
<1>18. ASSUME NEW c \in Conns, FallSilent(c) PROVE TypeOK'
  BY <1>18 DEF FallSilent
<1>19. ASSUME NEW c \in Conns, Deadline(c) PROVE TypeOK'
  BY <1>19 DEF Deadline
<1>20. ASSUME NEW c \in Conns, ConnStoreFails(c) PROVE TypeOK'
  <2>1. cpc' \in [Conns -> ConnLabels]
    BY <1>20 DEF ConnStoreFails
  <2>2. faults' \in Nat
    BY <1>20 DEF ConnStoreFails
  <2>. QED
    BY <1>20, <2>1, <2>2 DEF ConnStoreFails
<1>21. ASSUME NEW q \in Requests, RequestStoreFails(q) PROVE TypeOK'
  BY <1>21 DEF RequestStoreFails
<1>22. CASE Restart
  <2>1. row' \in [Devices -> Row]
    BY <1>22, RowUpdates DEF Restart, NextHub
  <2>2. hub' \in Hubs
    BY <1>22 DEF Restart, NextHub
  <2>. QED
    BY <1>22, <2>1, <2>2 DEF Restart, NextHub
<1>23. CASE Crash
  <2>1. row' \in [Devices -> Row]
    BY <1>23, RowUpdates DEF Crash, NextHub
  <2>2. hub' \in Hubs
    BY <1>23 DEF Crash, NextHub
  <2>. QED
    BY <1>23, <2>1, <2>2 DEF Crash, NextHub
<1>24. CASE UNCHANGED vars
  BY <1>24 DEF vars
<1>. QED
  BY <1>1, <1>2, <1>3, <1>4, <1>5, <1>6, <1>7, <1>8, <1>9, <1>10, <1>11, <1>12, <1>13, <1>14,
     <1>15, <1>16, <1>17, <1>18, <1>19, <1>20, <1>21, <1>22, <1>23, <1>24 DEF Next, Serve, Ask,
     Handle

(* The variables have their types (the maps and structs of Hub and Handler *)
(* and the rows of agent_control_device).                                  *)
THEOREM TypeCorrect == Spec => []TypeOK
<1>1. Init => TypeOK
  BY RegistryAssumption
  DEF Init, TypeOK, Hubs, Row, ConnLabels, RequestLabels, Request, NoRequest
<1>. QED
  BY <1>1, TypeStep, PTL DEF Spec

-------------------------------------------------------------------------------
(* Which steps change what.                                                *)
LEMMA RowSteps ==
  ASSUME [Next]_vars
  PROVE  \/ UNCHANGED row
         \/ \E c \in Conns : RegisterUpsert(c) \/ TouchStore(c) \/ SetOffline(c)
         \/ \E q \in Requests : BindStore(q)
         \/ NextHub
  BY DEF Next, Serve, Ask, Handle, vars, connVars, reqVars, Hello, RegisterFind, RegisterInstall,
         RegisterClose, Message, Unregister, AskBind, Resolve, BindCheck, BindInstall, RouteLookup,
         RouteOwner, HangUp, FallSilent, Deadline, ConnStoreFails, RequestStoreFails, Restart, Crash

(* The steps that change the owner in memory, the owner Register has       *)
(* read, or the entries.                                                   *)
LEMMA OwnerSteps ==
  ASSUME [Next]_vars
  PROVE  /\ \/ UNCHANGED owner
            \/ \E c \in Conns : RegisterInstall(c)
            \/ \E q \in Requests : BindInstall(q)
         /\ \/ UNCHANGED found
            \/ \E c \in Conns : RegisterFind(c)
         /\ \/ UNCHANGED devices
            \/ \E c \in Conns : RegisterInstall(c) \/ Unregister(c)
            \/ Crash
  BY DEF Next, Serve, Ask, Handle, vars, connVars, reqVars, Hello, RegisterFind, RegisterUpsert,
         RegisterInstall, RegisterClose, Message, TouchStore, Unregister, SetOffline, AskBind, Resolve,
         BindCheck, BindStore, BindInstall, RouteLookup, RouteOwner, HangUp, FallSilent, Deadline,
         ConnStoreFails, RequestStoreFails, Restart, Crash, NextHub

(* The steps that change a request or where its goroutine is.              *)
LEMMA RequestSteps ==
  ASSUME [Next]_vars
  PROVE  \/ UNCHANGED <<rpc, req>>
         \/ \E q \in Requests, u \in Users, d \in Devices : AskBind(q, u, d) \/ Resolve(q, u, d)
         \/ \E q \in Requests : BindCheck(q) \/ BindStore(q) \/ BindInstall(q) \/ RouteLookup(q)
                                  \/ RouteOwner(q) \/ RequestStoreFails(q)
         \/ Crash
  BY DEF Next, Serve, Ask, Handle, vars, connVars, reqVars, Hello, RegisterFind, RegisterUpsert,
         RegisterInstall, RegisterClose, Message, TouchStore, Unregister, SetOffline,
         HangUp, FallSilent, Deadline, ConnStoreFails, Restart

-------------------------------------------------------------------------------
(* Ownership.  MemoryOwnerStored is not inductive: Register installs an    *)
(* owner it read two steps before, and bindDevice one it stored a step     *)
(* before.  What a goroutine carries from one step to the next must agree  *)
(* with the store all the way, which it does because a stored owner is     *)
(* never changed; and that in turn because UpsertDevice inserts the owner  *)
(* it carries only where there is no row.                                  *)
Bound(q) == rpc[q] \in {"install", "lookup", "owner", "bound", "routed"}

EntryIsDevices ==
  \A h \in Hubs, d \in Devices : devices[h][d] # None => DeviceOf[devices[h][d]] = d

RequestFilled ==
  \A q \in Requests : rpc[q] # "idle" =>
    req[q].hub \in Hubs /\ req[q].user \in Users /\ req[q].device \in Devices

UnknownUnowned == \A d \in Devices : ~row[d].known => row[d].user = None

FoundStored == \A c \in Conns : found[c] # None => found[c] = row[DeviceOf[c]].user

BoundStored == \A q \in Requests : Bound(q) => row[req[q].device].user = req[q].user

OwnerInv ==
  /\ TypeOK /\ EntryIsDevices /\ RequestFilled
  /\ UnknownUnowned /\ FoundStored /\ MemoryOwnerStored /\ BoundStored

(* Nothing is known, bound or carried at the start.                        *)
LEMMA OwnerInvInit == Init => OwnerInv
  BY RegistryAssumption
  DEF Init, OwnerInv, TypeOK, EntryIsDevices, RequestFilled, UnknownUnowned, FoundStored,
      MemoryOwnerStored, BoundStored, Bound, Row, ConnLabels, RequestLabels, Request, NoRequest, Hubs

(* A row with an owner keeps it, and a row is never deleted.               *)
LEMMA OwnerKept ==
  ASSUME OwnerInv, [Next]_vars, NEW d \in Devices
  PROVE  /\ row[d].user # None => row'[d].user = row[d].user
         /\ ~row'[d].known => ~row[d].known /\ row'[d].user = row[d].user
<1>. USE RegistryAssumption DEF OwnerInv
<1>0. row[d] \in Row
  BY DEF TypeOK
<1>1. ASSUME NEW c \in Conns, RegisterUpsert(c)
      PROVE  row'[d] = row[d] \/ (row'[d].known /\ row'[d].user = row[d].user)
  <2>1. DeviceOf[c] \in Devices
    OBVIOUS
  <2>2. CASE DeviceOf[c] = d
    <3>1. row'[d].known /\ row'[d].user = IF row[d].known THEN row[d].user ELSE found[c]
      BY <1>1, <2>2 DEF RegisterUpsert, TypeOK
    <3>2. ~row[d].known => found[c] = row[d].user
      BY <2>2 DEF UnknownUnowned, FoundStored
    <3>. QED
      BY <3>1, <3>2
  <2>3. CASE DeviceOf[c] # d
    BY <1>1, <2>3 DEF RegisterUpsert, TypeOK
  <2>. QED
    BY <2>2, <2>3
<1>2. ASSUME NEW c \in Conns, TouchStore(c) \/ SetOffline(c)
      PROVE  row'[d].user = row[d].user /\ row'[d].known = row[d].known
  <2>1. \E o \in BOOLEAN : row' = [row EXCEPT ![DeviceOf[c]] = [row[DeviceOf[c]] EXCEPT !.online = o]]
    BY <1>2 DEF TouchStore, SetOffline
  <2>2. row'[d] = row[d] \/ \E o \in BOOLEAN : row'[d] = [row[d] EXCEPT !.online = o]
    BY <2>1 DEF TypeOK
  <2>. QED
    BY <1>0, <2>2 DEF Row
<1>3. ASSUME NEW q \in Requests, BindStore(q)
      PROVE  /\ row[d].user # None => row'[d].user = row[d].user
             /\ ~row'[d].known => ~row[d].known /\ row'[d].user = row[d].user
  <2>1. CASE req[q].device = d /\ row[d].known /\ row[d].user \in {None, req[q].user}
    <3>1. row'[d] = [row[d] EXCEPT !.user = req[q].user]
      BY <1>3, <2>1 DEF BindStore, TypeOK
    <3>2. row'[d].user = req[q].user /\ row'[d].known = row[d].known
      BY <1>0, <3>1 DEF Row
    <3>. QED
      BY <2>1, <3>2
  <2>2. CASE ~(req[q].device = d /\ row[d].known /\ row[d].user \in {None, req[q].user})
    BY <1>0, <1>3, <2>2 DEF BindStore, TypeOK
  <2>. QED
    BY <2>1, <2>2
<1>4. ASSUME NextHub
      PROVE  row'[d].user = row[d].user /\ row'[d].known = row[d].known
  BY <1>0, <1>4 DEF NextHub, TypeOK, Row
<1>. QED
  BY <1>1, <1>2, <1>3, <1>4, RowSteps

(* The ownership invariant is inductive, conjunct by conjunct.             *)
LEMMA OwnerInvStep == OwnerInv /\ [Next]_vars => OwnerInv'
<1>. SUFFICES ASSUME OwnerInv, [Next]_vars PROVE OwnerInv'
  OBVIOUS
<1>. USE RegistryAssumption DEF OwnerInv
<1>1. TypeOK'
  BY TypeStep
<1>2. EntryIsDevices'
  <2>1. ASSUME NEW c \in Conns, NEW e \in {c, None}, SetEntry(c, e) PROVE EntryIsDevices'
    BY <2>1, EntryUpdates DEF EntryIsDevices
  <2>2. CASE \E c \in Conns : RegisterInstall(c)
    BY <2>1, <2>2 DEF RegisterInstall
  <2>3. CASE \E c \in Conns : Unregister(c)
    BY <2>1, <2>3 DEF Unregister, EntryIsDevices
  <2>4. CASE Crash
    BY <2>4 DEF Crash, EntryIsDevices
  <2>. QED
    BY <2>2, <2>3, <2>4, OwnerSteps DEF EntryIsDevices
<1>3. RequestFilled'
  <2>1. ASSUME NEW q \in Requests, NEW u \in Users, NEW d \in Devices,
               AskBind(q, u, d) \/ Resolve(q, u, d)
        PROVE  RequestFilled'
    BY <2>1 DEF AskBind, Resolve, Asked, Answer, TypeOK, RequestFilled
  <2>2. ASSUME NEW q \in Requests,
               BindCheck(q) \/ BindStore(q) \/ BindInstall(q) \/ RouteOwner(q) \/ RequestStoreFails(q)
        PROVE  RequestFilled'
    BY <2>2 DEF BindCheck, BindStore, BindInstall, RouteOwner, RequestStoreFails, Answer, TypeOK,
                RequestFilled
  <2>3. ASSUME NEW q \in Requests, RouteLookup(q) PROVE RequestFilled'
    <3>1. ASSUME NEW p \in Requests
          PROVE  req'[p].hub = req[p].hub /\ req'[p].device = req[p].device /\ req'[p].user = req[p].user
      BY <2>3, RouteKeeps
    <3>2. ASSUME NEW p \in Requests PROVE rpc[p] = "idle" => rpc'[p] = "idle"
      BY <2>3 DEF RouteLookup, Answer, TypeOK
    <3>. QED
      BY <3>1, <3>2 DEF RequestFilled
  <2>4. CASE Crash
    BY <2>4 DEF Crash, TypeOK, RequestFilled
  <2>. QED
    BY <2>1, <2>2, <2>3, <2>4, RequestSteps DEF RequestFilled
<1>4. UnknownUnowned'
  BY OwnerKept DEF UnknownUnowned
<1>5. FoundStored'
  <2>1. ASSUME NEW c \in Conns, RegisterFind(c) PROVE FoundStored'
    BY <2>1 DEF RegisterFind, FoundStored, TypeOK
  <2>2. CASE UNCHANGED found
    BY <2>2, OwnerKept DEF FoundStored
  <2>. QED
    BY <2>1, <2>2, OwnerSteps
<1>6. MemoryOwnerStored'
  <2>1. ASSUME NEW c \in Conns, RegisterInstall(c) PROVE MemoryOwnerStored'
    BY <2>1 DEF RegisterInstall, MemoryOwnerStored, FoundStored, TypeOK
  <2>2. ASSUME NEW q \in Requests, BindInstall(q) PROVE MemoryOwnerStored'
    <3>1. UNCHANGED owner \/ (/\ Target(q) # None
                              /\ owner' = [owner EXCEPT ![Target(q)] = req[q].user])
      BY <2>2 DEF BindInstall
    <3>2. row[req[q].device].user = req[q].user /\ rpc[q] # "idle" /\ UNCHANGED row
      BY <2>2 DEF BindInstall, BoundStored, Bound
    <3>3. Target(q) # None => DeviceOf[Target(q)] = req[q].device
      BY <3>2 DEF EntryIsDevices, RequestFilled, Target
    <3>. QED
      BY <3>1, <3>2, <3>3 DEF MemoryOwnerStored, TypeOK
  <2>3. CASE UNCHANGED owner
    BY <2>3, OwnerKept DEF MemoryOwnerStored
  <2>. QED
    BY <2>1, <2>2, <2>3, OwnerSteps
<1>7. BoundStored'
  <2>1. ASSUME NEW p \in Requests, Bound(p), req'[p].device = req[p].device, req'[p].user = req[p].user
        PROVE  row'[req'[p].device].user = req'[p].user
    BY <2>1, OwnerKept DEF BoundStored, Bound, RequestFilled
  <2>2. ASSUME NEW q \in Requests, NEW u \in Users, NEW d \in Devices,
               AskBind(q, u, d) \/ Resolve(q, u, d)
        PROVE  BoundStored'
    BY <2>1, <2>2 DEF AskBind, Resolve, Answer, TypeOK, BoundStored, Bound
  <2>3. ASSUME NEW q \in Requests, BindStore(q) PROVE BoundStored'
    <3>1. req' = req
      BY <2>3 DEF BindStore
    <3>2. Bound(q)' => row'[req[q].device].user = req[q].user
      BY <2>3 DEF BindStore, Answer, Bound, TypeOK, Row, RequestFilled
    <3>3. ASSUME NEW p \in Requests, p # q PROVE Bound(p)' => Bound(p)
      BY <2>3, <3>3 DEF BindStore, Answer, Bound, TypeOK
    <3>. QED
      BY <2>1, <3>1, <3>2, <3>3 DEF BoundStored
  <2>4. ASSUME NEW q \in Requests,
               BindCheck(q) \/ BindInstall(q) \/ RouteOwner(q) \/ RequestStoreFails(q)
        PROVE  BoundStored'
    <3>1. req' = req
      BY <2>4 DEF BindCheck, BindInstall, RouteOwner, RequestStoreFails
    <3>2. ASSUME NEW p \in Requests PROVE Bound(p)' => Bound(p)
      BY <2>4 DEF BindCheck, BindInstall, RouteOwner, RequestStoreFails, Answer, Bound, TypeOK
    <3>. QED
      BY <2>1, <3>1, <3>2 DEF BoundStored
  <2>5. ASSUME NEW q \in Requests, RouteLookup(q) PROVE BoundStored'
    <3>1. ASSUME NEW p \in Requests PROVE req'[p].device = req[p].device /\ req'[p].user = req[p].user
      BY <2>5, RouteKeeps
    <3>2. ASSUME NEW p \in Requests PROVE Bound(p)' => Bound(p)
      BY <2>5 DEF RouteLookup, Answer, Bound, TypeOK
    <3>. QED
      BY <2>1, <3>1, <3>2 DEF BoundStored
  <2>6. CASE Crash
    BY <2>6 DEF Crash, BoundStored, Bound
  <2>7. CASE UNCHANGED <<rpc, req>>
    BY <2>1, <2>7 DEF BoundStored, Bound
  <2>. QED
    BY <2>2, <2>3, <2>4, <2>5, <2>6, <2>7, RequestSteps
<1>. QED
  BY <1>1, <1>2, <1>3, <1>4, <1>5, <1>6, <1>7

(* What a goroutine carries about an owner agrees with the store.          *)
THEOREM OwnerInvariant == Spec => []OwnerInv
  BY OwnerInvInit, OwnerInvStep, PTL DEF Spec

(* Hub.bindDevice, Register: an owner in memory is the stored owner.       *)
THEOREM MemoryFollowsStore == Spec => []MemoryOwnerStored
<1>1. OwnerInv => MemoryOwnerStored
  BY DEF OwnerInv
<1>. QED
  BY <1>1, OwnerInvariant, PTL

(* Store.BindDevice, UpsertDevice: the owner of a device never changes.    *)
THEOREM OwnerNeverChanges == Spec => OwnerStays
<1>1. OwnerInv /\ [Next]_vars
        => [\A d \in Devices : row[d].user # None => row'[d].user = row[d].user]_vars
  BY OwnerKept
<1>. QED
  BY <1>1, OwnerInvariant, PTL DEF Spec, OwnerStays

(* "Cross-user listing and routing are rejected"                           *)
(* (docs/phase-2-control-plane.md), for any interleaving of registrations, *)
(* binds and Actions, over restarts of both kinds.                         *)
THEOREM UseIsExclusive == Spec => []ExclusiveUse
<1>1. OwnerInv => ExclusiveUse
  BY DEF OwnerInv, BoundStored, Bound, ExclusiveUse, Served
<1>. QED
  BY <1>1, OwnerInvariant, PTL

-------------------------------------------------------------------------------
(* Registration.  A connection serves from the moment it is installed,     *)
(* which is before it closes the one it replaced: the invariant has to     *)
(* cover that moment too, or another registration could come in between.   *)
Serving(c) == cpc[c] \in {"close", "reading", "touch"} /\ sock[c] # "closed"

ServingInv == TypeOK /\ \A c \in Conns : Serving(c) => Entry(c) = c \/ Superseded(c)

(* Steps that touch neither the entries nor the connections' bookkeeping.  *)
LEMMA ServingElsewhere ==
  ASSUME ServingInv, UNCHANGED <<devices, cpc, sock, at, old>>, NEW x \in Conns
  PROVE  (Serving(x) => Entry(x) = x \/ Superseded(x))'
  BY DEF ServingInv, Serving, Entry, Superseded

(* The invariant of serving connections is inductive, action by action.    *)
LEMMA ServingStep == ServingInv /\ [Next]_vars => ServingInv'
<1>. SUFFICES ASSUME ServingInv, [Next]_vars PROVE ServingInv'
  OBVIOUS
<1>. USE RegistryAssumption DEF ServingInv
<1>1. TypeOK'
  BY TypeStep
<1>. SUFFICES ASSUME NEW x \in Conns, Serving(x)' PROVE (Entry(x) = x \/ Superseded(x))'
  BY <1>1
<1>2. ASSUME NEW c \in Conns, Hello(c) \/ RegisterFind(c) \/ RegisterUpsert(c) \/ SetOffline(c)
      PROVE  (Entry(x) = x \/ Superseded(x))'
  BY <1>2 DEF Hello, RegisterFind, RegisterUpsert, SetOffline, Step, Serving, Entry, Superseded, TypeOK
<1>3. ASSUME NEW c \in Conns, RegisterInstall(c) PROVE (Entry(x) = x \/ Superseded(x))'
  <2>1. \A h \in Hubs, d \in Devices :
          devices'[h][d] = IF h = at[c] /\ d = DeviceOf[c] THEN c ELSE devices[h][d]
    BY <1>3, EntryUpdates DEF RegisterInstall
  <2>2. at' = at /\ at[x] \in Hubs /\ DeviceOf[x] \in Devices
    BY <1>3 DEF RegisterInstall, TypeOK
  <2>3. CASE x = c
    BY <2>1, <2>2, <2>3 DEF Entry
  <2>4. CASE x # c
    <3>1. Serving(x)
      BY <1>3, <2>4 DEF RegisterInstall, Step, Serving, TypeOK
    <3>2. CASE Superseded(x)
      BY <1>3, <3>2 DEF RegisterInstall, Step, Superseded, TypeOK
    <3>3. CASE Entry(x) = x /\ at[x] = at[c] /\ DeviceOf[x] = DeviceOf[c]
      <4>1. Entry(c) = x /\ x # None
        BY <3>3 DEF Entry
      <4>2. cpc'[c] = "close" /\ old'[c] = x
        BY <1>3, <4>1 DEF RegisterInstall, Step, TypeOK
      <4>. QED
        BY <4>2 DEF Superseded
    <3>4. CASE Entry(x) = x /\ ~(at[x] = at[c] /\ DeviceOf[x] = DeviceOf[c])
      BY <2>1, <2>2, <3>4 DEF Entry
    <3>. QED
      BY <3>1, <3>2, <3>3, <3>4
  <2>. QED
    BY <2>3, <2>4
<1>4. ASSUME NEW c \in Conns, RegisterClose(c) PROVE (Entry(x) = x \/ Superseded(x))'
  <2>1. x # old[c] /\ Serving(x)
    BY <1>4 DEF RegisterClose, Step, Serving, TypeOK
  <2>2. Entry(x)' = Entry(x)
    BY <1>4 DEF RegisterClose, Entry
  <2>3. Superseded(x) => Superseded(x)'
    BY <1>4, <2>1 DEF RegisterClose, Step, Superseded, TypeOK
  <2>. QED
    BY <2>1, <2>2, <2>3
<1>5. ASSUME NEW c \in Conns, Message(c) \/ TouchStore(c) PROVE (Entry(x) = x \/ Superseded(x))'
  BY <1>5 DEF Message, TouchStore, Step, Serving, Entry, Superseded, TypeOK
<1>6. ASSUME NEW c \in Conns, Unregister(c) PROVE (Entry(x) = x \/ Superseded(x))'
  <2>1. x # c /\ Serving(x)
    BY <1>6 DEF Unregister, Step, Serving, TypeOK
  <2>2. Superseded(x) => Superseded(x)'
    BY <1>6, <2>1 DEF Unregister, Step, Superseded, TypeOK
  <2>3. Entry(x) = x => Entry(x)' = x
    <3>1. CASE Entry(c) = c /\ SetEntry(c, None)
      <4>1. \A h \in Hubs, d \in Devices :
              devices'[h][d] = IF h = at[c] /\ d = DeviceOf[c] THEN None ELSE devices[h][d]
        BY <3>1, EntryUpdates
      <4>2. at' = at /\ at[x] \in Hubs /\ DeviceOf[x] \in Devices
        BY <1>6 DEF Unregister, TypeOK
      <4>. QED
        BY <2>1, <3>1, <4>1, <4>2 DEF Entry
    <3>2. CASE UNCHANGED devices
      BY <1>6, <3>2 DEF Unregister, Entry
    <3>. QED
      BY <1>6, <3>1, <3>2 DEF Unregister
  <2>. QED
    BY <2>1, <2>2, <2>3
<1>7. ASSUME NEW c \in Conns, HangUp(c) PROVE (Entry(x) = x \/ Superseded(x))'
  BY <1>7 DEF HangUp, Serving, Entry, Superseded, TypeOK
<1>8. ASSUME NEW c \in Conns, FallSilent(c) PROVE (Entry(x) = x \/ Superseded(x))'
  BY <1>8 DEF FallSilent, Serving, Entry, Superseded, TypeOK
<1>9. ASSUME NEW c \in Conns, Deadline(c) PROVE (Entry(x) = x \/ Superseded(x))'
  BY <1>9 DEF Deadline, Serving, Entry, Superseded, TypeOK
<1>10. ASSUME NEW c \in Conns, ConnStoreFails(c) PROVE (Entry(x) = x \/ Superseded(x))'
  BY <1>10 DEF ConnStoreFails, Step, Serving, Entry, Superseded, TypeOK
<1>11. ASSUME NEW q \in Requests, Ask(q) \/ Handle(q) \/ RequestStoreFails(q)
       PROVE  (Entry(x) = x \/ Superseded(x))'
  <2>1. UNCHANGED <<devices, cpc, sock, at, old>>
    BY <1>11 DEF Ask, Handle, AskBind, Resolve, BindCheck, BindStore, BindInstall, RouteLookup,
                 RouteOwner, RequestStoreFails, connVars
  <2>. QED
    BY <2>1, ServingElsewhere
<1>12. CASE Restart
  BY <1>12, ServingElsewhere DEF Restart, connVars
<1>13. CASE Crash
  BY <1>13 DEF Crash, Serving, TypeOK
<1>14. CASE UNCHANGED vars
  BY <1>14, ServingElsewhere DEF vars, connVars
<1>. QED
  BY <1>2, <1>3, <1>4, <1>5, <1>6, <1>7, <1>8, <1>9, <1>10, <1>11, <1>12, <1>13, <1>14
  DEF Next, Serve

(* Hub.Register, Unregister: a connection that is read from can be reached *)
(* through its Hub, or is about to be closed by the one that replaced it;  *)
(* an old connection's Unregister never removes a newer one.               *)
THEOREM RegistrationHolds == Spec => []ReadMeansRegistered
<1>1. Init => ServingInv
  BY RegistryAssumption
  DEF Init, ServingInv, Serving, TypeOK, Hubs, Row, ConnLabels, RequestLabels, Request, NoRequest
<1>2. ServingInv => ReadMeansRegistered
  BY DEF ServingInv, Serving, ReadMeansRegistered
<1>. QED
  BY <1>1, <1>2, ServingStep, PTL DEF Spec
===============================================================================
