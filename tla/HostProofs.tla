------------------------------- MODULE HostProofs -------------------------------
(***************************************************************************)
(* Proofs about what is kept on the host: the secret of a website          *)
(* credential follows its row, for any set of credentials, any number of   *)
(* calls, and any number of failures (Credentials); a promised restart is  *)
(* made and no program is terminated unasked, for any requests, programs   *)
(* and ports, and any number of restarts (ServiceRestart); a patch asked   *)
(* for by lines replaces the lines it names, for any files, texts and      *)
(* changes (Workspaces).                                                   *)
(***************************************************************************)
EXTENDS Credentials, ServiceRestart, Workspaces, FiniteSetTheorems, SequenceTheorems, TLAPS

-------------------------------------------------------------------------------
(* Credentials.                                                            *)

Call(v) == visit[v] # Absent

(* What a run of agent-browser does to vault and call.                     *)
LEMMA VaultType ==
  ASSUME CredentialTypeOK, NEW v \in Visit, Call(v), NEW secret \in Secret \cup {Absent},
         NEW next \in Labels, RunsVault(v, secret, next), UNCHANGED site
  PROVE  CredentialTypeOK'
<1>1. visit[v] \in Underway /\ [visit[v] EXCEPT !.pc = next] \in Underway
  BY DEF CredentialTypeOK, Call, Underway
<1>2. visit[v].of \in Credential
  BY <1>1 DEF Underway
<1>3. CASE /\ vault' = [vault EXCEPT ![visit[v].of] = secret]
           /\ Proceeds(v, next) /\ UNCHANGED <<vaultFaults, failed>>
  BY <1>1, <1>2, <1>3 DEF CredentialTypeOK, Proceeds, Underway
<1>4. CASE /\ Fault /\ Leaves(v)
           /\ vault' = [vault EXCEPT ![visit[v].of] = secret] \/ UNCHANGED vault
           /\ failed' = failed \cup {visit[v].of}
  BY <1>2, <1>4 DEF CredentialTypeOK, Leaves, Fault
<1> QED  BY <1>3, <1>4 DEF RunsVault

(* A call that begins keeps the types.                                     *)
LEMMA EntersType ==
  ASSUME CredentialTypeOK, NEW v \in Visit, NEW c \in Credential, NEW pc \in Labels,
         NEW item \in Filled, Enters(v, c, pc, item)
  PROVE  CredentialTypeOK'
<1>1. [pc |-> pc, of |-> c, item |-> item] \in Underway
  BY DEF Underway
<1> QED  BY <1>1 DEF CredentialTypeOK, Enters, Underway

(* Every step of a call keeps the types.                                   *)
LEMMA CredentialTypeStep ==
  ASSUME CredentialTypeOK, [CredentialNext]_credentialVars
  PROVE  CredentialTypeOK'
<1>1. ASSUME NEW v \in Visit, NEW c \in Credential, DeleteCredential(v, c)
      PROVE  CredentialTypeOK'
  <2>1. site[c] \in Filled
    BY <1>1 DEF DeleteCredential, CredentialTypeOK, NoSite
  <2> QED  BY <1>1, <2>1, EntersType DEF DeleteCredential, Labels
<1>2. ASSUME NEW v \in Visit, NEW c \in Credential, NEW address \in Address,
             NEW account \in Account, NEW enabled \in BOOLEAN,
             CreateCredential(v, c, address, account, enabled)
      PROVE  CredentialTypeOK'
  <2>1. [state |-> "live", address |-> address, account |-> account, enabled |-> enabled] \in Filled
    BY DEF Filled
  <2> QED  BY <1>2, <2>1, EntersType DEF CreateCredential, Labels
<1>3. ASSUME NEW v \in Visit, NEW c \in Credential, NEW address \in Address,
             NEW account \in Account \cup {Absent}, NEW enabled \in BOOLEAN,
             UpdateCredential(v, c, address, account, enabled)
      PROVE  CredentialTypeOK'
  <2>1. site[c] \in Filled
    BY <1>3 DEF UpdateCredential, CredentialTypeOK, NoSite
  <2>2. /\ [site[c] EXCEPT !.enabled = enabled] \in Filled
        /\ account # Absent => [site[c] EXCEPT !.address = address, !.account = account,
                                               !.enabled = enabled] \in Filled
    BY <2>1 DEF Filled
  <2>3. CASE account = Absent
    BY <1>3, <2>2, <2>3, EntersType DEF UpdateCredential, Labels
  <2>4. CASE account # Absent
    BY <1>3, <2>2, <2>4, EntersType DEF UpdateCredential, Labels
  <2> QED  BY <2>3, <2>4
<1>4. ASSUME NEW v \in Visit,
             \/ InsertVault(v) \/ InsertSite(v) \/ UndoVault(v) \/ UpdateVault(v)
             \/ SaveSite(v) \/ DeleteVault(v) \/ DeleteSite(v)
      PROVE  CredentialTypeOK'
  <2>1. Call(v) /\ visit[v] \in Underway
    BY <1>4 DEF InsertVault, InsertSite, UndoVault, UpdateVault, SaveSite, DeleteVault, DeleteSite,
                At, Call, CredentialTypeOK, Underway
  <2>2. visit[v].of \in Credential /\ visit[v].item \in Filled
    BY <2>1 DEF Underway
  <2>3. \A pc \in Labels : [visit[v] EXCEPT !.pc = pc] \in Underway
    BY <2>1 DEF Underway
  <2>4. SecretOf(visit[v].item) \in Secret
    BY <2>2 DEF SecretOf, Secret, Filled
  <2>5. CASE InsertVault(v)
    BY <2>1, <2>4, <2>5, VaultType DEF InsertVault, Labels
  <2>6. CASE UpdateVault(v)
    BY <2>1, <2>4, <2>6, VaultType DEF UpdateVault, Labels
  <2>7. CASE DeleteVault(v)
    BY <2>1, <2>7, VaultType DEF DeleteVault, Labels
  <2>8. CASE InsertSite(v)
    <3>1. [visit[v] EXCEPT !.pc = "undoVault"] \in Underway
      BY <2>3 DEF Labels
    <3>2. CASE /\ site' = [site EXCEPT ![visit[v].of] = visit[v].item]
               /\ failed' = failed \ {visit[v].of}
               /\ Leaves(v) /\ UNCHANGED <<vaultFaults, vault>>
      BY <2>2, <3>2 DEF CredentialTypeOK, Leaves
    <3>3. CASE Fault /\ Proceeds(v, "undoVault") /\ UNCHANGED <<site, failed, vault>>
      BY <3>1, <3>3 DEF CredentialTypeOK, Proceeds, Fault, Underway
    <3> QED  BY <2>8, <3>2, <3>3 DEF InsertSite
  <2>9. CASE UndoVault(v)
    BY <2>2, <2>9 DEF UndoVault, CredentialTypeOK, Leaves, Fault
  <2>10. CASE SaveSite(v)
    BY <2>2, <2>10 DEF SaveSite, CredentialTypeOK, Leaves, Fault
  <2>11. CASE DeleteSite(v)
    <3> DEFINE c == visit[v].of
    <3>1. site[c].state = "live" => [site[c] EXCEPT !.state = "deleted", !.enabled = FALSE] \in Filled
      <4>1. site[c] \in Filled \/ site[c].state = "none"
        BY <2>2 DEF CredentialTypeOK, NoSite
      <4> QED  BY <4>1 DEF Filled
    <3>2. site' \in [Credential -> Filled \cup {NoSite}]
      BY <2>2, <2>11, <3>1 DEF DeleteSite, CredentialTypeOK
    <3> QED  BY <2>2, <2>11, <3>2 DEF DeleteSite, CredentialTypeOK, Leaves, Fault
  <2> QED  BY <1>4, <2>5, <2>6, <2>7, <2>8, <2>9, <2>10, <2>11
<1>5. CASE CrashVisits
  <2>1. \A v \in Visit : Call(v) => visit[v].of \in Credential
    BY DEF Call, CredentialTypeOK, Underway
  <2> QED  BY <1>5, <2>1 DEF CrashVisits, CredentialTypeOK, Fault, Call
<1>6. CASE UNCHANGED credentialVars
  BY <1>6 DEF credentialVars, CredentialTypeOK
<1> QED  BY <1>1, <1>2, <1>3, <1>4, <1>5, <1>6 DEF CredentialNext

(* The state of the credentials has its type.                              *)
THEOREM CredentialTypeCorrect == CredentialSpec => []CredentialTypeOK
<1>1. CredentialInit => CredentialTypeOK
  BY DEF CredentialInit, CredentialTypeOK
<1>2. CredentialTypeOK /\ [CredentialNext]_credentialVars => CredentialTypeOK'
  BY CredentialTypeStep
<1> QED  BY <1>1, <1>2, PTL DEF CredentialSpec

-------------------------------------------------------------------------------
(* What a call has done so far, on a credential it has to itself: its row  *)
(* is as the call found it, and its secret as the call has left it.        *)
CallInv(v) ==
  LET c == visit[v].of IN
  /\ visit[v].pc \in {"insertVault", "insertSite", "undoVault"} => site[c].state = "none"
  /\ visit[v].pc \in {"updateVault", "saveSite", "deleteVault", "deleteSite"} => site[c].state = "live"
  /\ visit[v].item.state = "live"
  /\ visit[v].pc = "insertSite" => vault[c] = SecretOf(visit[v].item)
  /\ visit[v].pc = "saveSite" => vault[c] = SecretOf(visit[v].item) \/ c \in failed
  /\ visit[v].pc = "deleteSite" => vault[c] = Absent

(* A credential that was never worked on by two calls at once is worked on *)
(* by one at most.                                                         *)
AloneInv ==
  \A v, w \in Visit : (v # w /\ Call(v) /\ Call(w) /\ visit[v].of = visit[w].of)
                        => visit[v].of \in overlapped

CallsInv == \A v \in Visit : (Call(v) /\ visit[v].of \notin overlapped) => CallInv(v)

SecretInv == CredentialTypeOK /\ AloneInv /\ CallsInv /\ SecretFollowsRow

(* Of the rest: a step that touches one credential only, and one call on   *)
(* it only, leaves what is said of the others as it was.                   *)
Elsewhere(v, c) ==
  /\ overlapped \subseteq overlapped'
  /\ \A w \in Visit \ {v} : visit'[w] = visit[w]
  /\ Call(v) => visit[v].of = c
  /\ Call(v)' => visit'[v].of = c
  /\ \A d \in Credential \ {c} : site'[d] = site[d] /\ vault'[d] = vault[d] /\ (d \in failed => d \in failed')
                                /\ (d \in overlapped <=> d \in overlapped')

(* A step of one call leaves what is said of other credentials as it was.  *)
LEMMA OthersStay ==
  ASSUME SecretInv, NEW v \in Visit, NEW c \in Credential, Elsewhere(v, c)
  PROVE  /\ \A w \in Visit : (Call(w)' /\ visit'[w].of # c /\ visit'[w].of \notin overlapped')
                             => CallInv(w)'
         /\ \A d \in Credential \ overlapped' : d # c =>
              /\ site'[d].state = "deleted" => vault'[d] = Absent
              /\ (site'[d].state = "live" /\ Quiet(d)' /\ d \notin failed') => vault'[d] = SecretOf(site'[d])
<1>1. ASSUME NEW w \in Visit, Call(w)', visit'[w].of # c, visit'[w].of \notin overlapped'
      PROVE  CallInv(w)'
  <2>1. w # v /\ visit'[w] = visit[w] /\ Call(w) /\ visit[w].of \in Credential \ {c}
    BY <1>1 DEF Elsewhere, Call, SecretInv, CredentialTypeOK, Underway
  <2>2. visit[w].of \notin overlapped
    BY <1>1, <2>1 DEF Elsewhere
  <2> QED  BY <1>1, <2>1, <2>2 DEF Elsewhere, SecretInv, CallsInv, CallInv, SecretOf
<1>2. ASSUME NEW d \in Credential \ overlapped', d # c
      PROVE  /\ site'[d].state = "deleted" => vault'[d] = Absent
             /\ (site'[d].state = "live" /\ Quiet(d)' /\ d \notin failed') => vault'[d] = SecretOf(site'[d])
  <2>1. Quiet(d)' => Quiet(d)
    BY <1>2 DEF Quiet, Elsewhere, Call
  <2> QED  BY <1>2, <2>1 DEF Elsewhere, SecretInv, SecretFollowsRow, SecretOf
<1> QED  BY <1>1, <1>2

(* So a step is right if it is right of the one credential, when that has  *)
(* been worked on by one call at a time.                                   *)
LEMMA StepHere ==
  ASSUME SecretInv, CredentialTypeOK', NEW v \in Visit, NEW c \in Credential, Elsewhere(v, c),
         AloneInv',
         ASSUME c \notin overlapped'
         PROVE  /\ Call(v)' => CallInv(v)'
                /\ site'[c].state = "deleted" => vault'[c] = Absent
                /\ (site'[c].state = "live" /\ ~Call(v)' /\ c \notin failed') => vault'[c] = SecretOf(site'[c]),
         ASSUME c \notin overlapped'
         PROVE  \A w \in Visit \ {v} : Call(w) => visit[w].of # c
  PROVE  SecretInv'
<1>1. CallsInv'
  <2> SUFFICES ASSUME NEW w \in Visit, Call(w)', visit'[w].of \notin overlapped'
               PROVE  CallInv(w)'
    BY DEF CallsInv
  <2>1. CASE visit'[w].of # c
    BY <2>1, OthersStay
  <2>2. CASE visit'[w].of = c /\ w = v
    BY <2>2
  <2>3. CASE visit'[w].of = c /\ w # v
    BY <2>3 DEF Elsewhere, Call
  <2> QED  BY <2>1, <2>2, <2>3
<1>2. SecretFollowsRow'
  <2> SUFFICES ASSUME NEW d \in Credential \ overlapped'
               PROVE  /\ site'[d].state = "deleted" => vault'[d] = Absent
                      /\ (site'[d].state = "live" /\ Quiet(d)' /\ d \notin failed')
                           => vault'[d] = SecretOf(site'[d])
    BY DEF SecretFollowsRow, SecretOf
  <2>1. CASE d # c
    BY <2>1, OthersStay
  <2>2. CASE d = c
    <3>1. Quiet(c)' => ~Call(v)'
      BY DEF Quiet, Call, Elsewhere
    <3> QED  BY <2>2, <3>1
  <2> QED  BY <2>1, <2>2
<1> QED  BY <1>1, <1>2 DEF SecretInv

-------------------------------------------------------------------------------
(* A call begins.  If another one works on the credential it is one of     *)
(* those the property leaves out.                                          *)
LEMMA EntersStep ==
  ASSUME SecretInv, CredentialTypeOK', NEW v \in Visit, NEW c \in Credential, NEW pc, NEW item,
         Enters(v, c, pc, item), item.state = "live",
         pc = "insertVault" => site[c].state = "none",
         pc \in {"updateVault", "saveSite", "deleteVault"} => site[c].state = "live",
         pc = "saveSite" => SecretOf(item) = SecretOf(site[c]),
         pc \in {"insertVault", "updateVault", "saveSite", "deleteVault"}
  PROVE  SecretInv'
<1> DEFINE call == [pc |-> pc, of |-> c, item |-> item]
<1>1. /\ ~Call(v) /\ visit'[v] = call /\ \A w \in Visit \ {v} : visit'[w] = visit[w]
      /\ UNCHANGED <<site, vault, failed>>
  BY DEF Enters, SecretInv, CredentialTypeOK, Call
<1>2. IF \E w \in Visit : Call(w) /\ visit[w].of = c THEN overlapped' = overlapped \cup {c}
                                                       ELSE overlapped' = overlapped
  BY DEF Enters, Call
<1>3. Elsewhere(v, c)
  BY <1>1, <1>2 DEF Elsewhere, Call
<1>4. AloneInv'
  <2> SUFFICES ASSUME NEW w \in Visit, NEW x \in Visit, w # x, Call(w)', Call(x)',
                      visit'[w].of = visit'[x].of
               PROVE  visit'[w].of \in overlapped'
    BY DEF AloneInv
  <2> QED  BY <1>1, <1>2 DEF SecretInv, AloneInv, Call
<1>5. ASSUME c \notin overlapped'
      PROVE  \A w \in Visit \ {v} : Call(w) => visit[w].of # c
  BY <1>2, <1>5
<1>6. ASSUME c \notin overlapped'
      PROVE  /\ Call(v)' => CallInv(v)'
             /\ site'[c].state = "deleted" => vault'[c] = Absent
             /\ (site'[c].state = "live" /\ ~Call(v)' /\ c \notin failed') => vault'[c] = SecretOf(site'[c])
  <2>1. c \notin overlapped /\ Quiet(c)
    BY <1>1, <1>2, <1>6 DEF Quiet, Call
  <2>2. (site[c].state = "live" /\ c \notin failed) => vault[c] = SecretOf(site[c])
    BY <2>1 DEF SecretInv, SecretFollowsRow
  <2>3. site[c].state = "deleted" => vault[c] = Absent
    BY <2>1 DEF SecretInv, SecretFollowsRow
  <2>4. CallInv(v)'
    BY <1>1, <2>2 DEF CallInv, SecretOf
  <2> QED  BY <1>1, <2>2, <2>3, <2>4 DEF SecretOf
<1> QED  BY <1>3, <1>4, <1>5, <1>6, StepHere

(* A call goes on or ends.                                                 *)
Moves(v) ==
  /\ Call(v) /\ UNCHANGED overlapped
  /\ \A w \in Visit \ {v} : visit'[w] = visit[w]
  /\ Call(v)' => visit'[v].of = visit[v].of /\ visit'[v].item = visit[v].item
  /\ \A d \in Credential \ {visit[v].of} :
       site'[d] = site[d] /\ vault'[d] = vault[d] /\ (d \in failed => d \in failed')

(* A step of a call about its own credential keeps what is said of it.     *)
LEMMA MovesStep ==
  ASSUME SecretInv, CredentialTypeOK', NEW v \in Visit, NEW c, c = visit[v].of, Moves(v),
         ASSUME c \notin overlapped, CallInv(v)
         PROVE  /\ Call(v)' => CallInv(v)'
                /\ site'[c].state = "deleted" => vault'[c] = Absent
                /\ (site'[c].state = "live" /\ ~Call(v)' /\ c \notin failed') => vault'[c] = SecretOf(site'[c])
  PROVE  SecretInv'
<1>1. c \in Credential
  BY DEF SecretInv, CredentialTypeOK, Moves, Call, Underway
<1>2. Elsewhere(v, c)
  BY <1>1 DEF Elsewhere, Moves
<1>3. AloneInv'
  <2> SUFFICES ASSUME NEW w \in Visit, NEW x \in Visit, w # x, Call(w)', Call(x)',
                      visit'[w].of = visit'[x].of
               PROVE  visit'[w].of \in overlapped'
    BY DEF AloneInv
  <2>1. Call(w) /\ visit'[w].of = visit[w].of /\ Call(x) /\ visit'[x].of = visit[x].of
    BY DEF Moves, Call
  <2> QED  BY <2>1 DEF SecretInv, AloneInv, Moves
<1>4. ASSUME c \notin overlapped'
      PROVE  \A w \in Visit \ {v} : Call(w) => visit[w].of # c
  BY <1>4 DEF SecretInv, AloneInv, Moves
<1>5. ASSUME c \notin overlapped'
      PROVE  /\ Call(v)' => CallInv(v)'
             /\ site'[c].state = "deleted" => vault'[c] = Absent
             /\ (site'[c].state = "live" /\ ~Call(v)' /\ c \notin failed') => vault'[c] = SecretOf(site'[c])
  BY <1>5 DEF SecretInv, CallsInv, Moves
<1> QED  BY <1>1, <1>2, <1>3, <1>4, <1>5, StepHere

(* The two ways a call moves.                                              *)
LEMMA ProceedsOrLeaves ==
  ASSUME CredentialTypeOK, NEW v \in Visit, Call(v), NEW pc,
         Proceeds(v, pc) \/ Leaves(v)
  PROVE  /\ UNCHANGED overlapped
         /\ \A w \in Visit \ {v} : visit'[w] = visit[w]
         /\ Proceeds(v, pc) /\ Call(v)' => /\ visit'[v].of = visit[v].of
                                        /\ visit'[v].item = visit[v].item
                                        /\ visit'[v].pc = pc
         /\ Leaves(v) => ~Call(v)'
<1>1. visit[v] \in Underway
  BY DEF CredentialTypeOK, Call, Underway
<1>2. CASE Leaves(v) /\ ~Proceeds(v, pc)
  BY <1>2 DEF Leaves, CredentialTypeOK, Call
<1>3. CASE Proceeds(v, pc)
  <2>1. visit' = [visit EXCEPT ![v] = [visit[v] EXCEPT !.pc = pc]]
    BY <1>3 DEF Proceeds
  <2>2. visit'[v] = [visit[v] EXCEPT !.pc = pc] /\ \A w \in Visit \ {v} : visit'[w] = visit[w]
    BY <2>1 DEF CredentialTypeOK
  <2>3. /\ [visit[v] EXCEPT !.pc = pc].of = visit[v].of
        /\ [visit[v] EXCEPT !.pc = pc].item = visit[v].item
        /\ [visit[v] EXCEPT !.pc = pc].pc = pc
    BY <1>1 DEF Underway
  <2>4. Leaves(v) => ~Call(v)'
    BY DEF Leaves, CredentialTypeOK, Call
  <2> QED  BY <1>3, <2>2, <2>3, <2>4 DEF Proceeds
<1> QED  BY <1>2, <1>3

(* A run of agent-browser, in a call that has its credential to itself.    *)
LEMMA VaultStep ==
  ASSUME SecretInv, CredentialTypeOK', NEW v \in Visit, Call(v), NEW secret, NEW next,
         RunsVault(v, secret, next), UNCHANGED site,
         ASSUME CallInv(v) PROVE site[visit[v].of].state # "deleted",
         \/ visit[v].pc = "insertVault" /\ next = "insertSite" /\ secret = SecretOf(visit[v].item)
         \/ visit[v].pc = "updateVault" /\ next = "saveSite" /\ secret = SecretOf(visit[v].item)
         \/ visit[v].pc = "deleteVault" /\ next = "deleteSite" /\ secret = Absent
  PROVE  SecretInv'
<1> DEFINE c == visit[v].of
<1>0. c \in Credential /\ vault \in [Credential -> Secret \cup {Absent}]
  BY DEF SecretInv, CredentialTypeOK, Call, Underway
<1>1. CASE /\ vault' = [vault EXCEPT ![c] = secret]
           /\ Proceeds(v, next) /\ UNCHANGED <<vaultFaults, failed>>
  <2>1. Moves(v)
    BY <1>0, <1>1, ProceedsOrLeaves DEF Moves, SecretInv
  <2>2. ASSUME CallInv(v)
        PROVE  /\ Call(v)' => CallInv(v)'
               /\ site'[c].state = "deleted" => vault'[c] = Absent
               /\ (site'[c].state = "live" /\ ~Call(v)' /\ c \notin failed') => vault'[c] = SecretOf(site'[c])
    <3>1. vault'[c] = secret
      BY <1>0, <1>1
    <3>2. Call(v)' => CallInv(v)'
      BY <1>1, <2>2, <3>1, ProceedsOrLeaves DEF CallInv, SecretInv, SecretOf
    <3>3. Call(v)'
      <4>1. [visit[v] EXCEPT !.pc = next] \in Underway
        BY DEF SecretInv, CredentialTypeOK, Call, Underway, Labels
      <4>2. visit'[v] = [visit[v] EXCEPT !.pc = next]
        BY <1>1 DEF Proceeds, SecretInv, CredentialTypeOK
      <4> QED  BY <4>1, <4>2, CredentialAssumption DEF Call
    <3> QED  BY <2>2, <3>2, <3>3
  <2> QED  BY <2>1, <2>2, MovesStep
<1>2. CASE /\ Leaves(v) /\ failed' = failed \cup {c}
           /\ vault' = [vault EXCEPT ![c] = secret] \/ UNCHANGED vault
  <2>1. Moves(v) /\ ~Call(v)'
    BY <1>0, <1>2, ProceedsOrLeaves DEF Moves, SecretInv
  <2>2. ASSUME CallInv(v)
        PROVE  site'[c].state # "deleted" /\ c \in failed'
    BY <1>2, <2>2
  <2> QED  BY <2>1, <2>2, MovesStep
<1> QED  BY <1>1, <1>2 DEF RunsVault

-------------------------------------------------------------------------------
(* The inductive invariant on secrets is kept by every step.               *)
LEMMA SecretStep ==
  ASSUME SecretInv, [CredentialNext]_credentialVars
  PROVE  SecretInv'
<1>0. CredentialTypeOK'
  BY CredentialTypeStep DEF SecretInv
<1>1. ASSUME NEW v \in Visit, NEW c \in Credential, DeleteCredential(v, c)
      PROVE  SecretInv'
  BY <1>0, <1>1, EntersStep DEF DeleteCredential
<1>2. ASSUME NEW v \in Visit, NEW c \in Credential, NEW address \in Address,
             NEW account \in Account, NEW enabled \in BOOLEAN,
             CreateCredential(v, c, address, account, enabled)
      PROVE  SecretInv'
  BY <1>0, <1>2, EntersStep DEF CreateCredential
<1>3. ASSUME NEW v \in Visit, NEW c \in Credential, NEW address \in Address,
             NEW account \in Account \cup {Absent}, NEW enabled \in BOOLEAN,
             UpdateCredential(v, c, address, account, enabled)
      PROVE  SecretInv'
  <2>1. site[c] \in Filled
    BY <1>3 DEF UpdateCredential, SecretInv, CredentialTypeOK, NoSite
  <2> DEFINE same == [site[c] EXCEPT !.enabled = enabled]
             new  == [site[c] EXCEPT !.address = address, !.account = account, !.enabled = enabled]
  <2>2. /\ same.state = site[c].state /\ new.state = site[c].state
        /\ SecretOf(same) = SecretOf(site[c])
    BY <2>1 DEF Filled, SecretOf
  <2>3. CASE Enters(v, c, "saveSite", same)
    <3> HIDE DEF same
    <3> QED  BY <1>0, <1>3, <2>2, <2>3, EntersStep DEF UpdateCredential
  <2>4. CASE Enters(v, c, "updateVault", new)
    <3> HIDE DEF new
    <3> QED  BY <1>0, <1>3, <2>2, <2>4, EntersStep DEF UpdateCredential
  <2> QED  BY <1>3, <2>3, <2>4 DEF UpdateCredential
<1>4. ASSUME NEW v \in Visit, InsertVault(v) \/ UpdateVault(v) \/ DeleteVault(v)
      PROVE  SecretInv'
  <2>1. ASSUME CallInv(v) PROVE site[visit[v].of].state # "deleted"
    BY <1>4, <2>1 DEF CallInv, InsertVault, UpdateVault, DeleteVault, At
  <2>2. CASE InsertVault(v)
    BY <1>0, <2>1, <2>2, VaultStep DEF InsertVault, At, Call
  <2>3. CASE UpdateVault(v)
    BY <1>0, <2>1, <2>3, VaultStep DEF UpdateVault, At, Call
  <2>4. CASE DeleteVault(v)
    BY <1>0, <2>1, <2>4, VaultStep DEF DeleteVault, At, Call
  <2> QED  BY <1>4, <2>2, <2>3, <2>4
<1>5. ASSUME NEW v \in Visit, InsertSite(v) \/ UndoVault(v) \/ SaveSite(v) \/ DeleteSite(v)
      PROVE  SecretInv'
  <2> DEFINE c == visit[v].of
  <2>0. /\ Call(v) /\ c \in Credential /\ CredentialTypeOK
    BY <1>5 DEF InsertSite, UndoVault, SaveSite, DeleteSite, At, Call, SecretInv, CredentialTypeOK, Underway
  <2>1. CASE InsertSite(v) /\ Leaves(v) /\ site' = [site EXCEPT ![c] = visit[v].item] /\ failed' = failed \ {c}
    <3>1. Moves(v) /\ ~Call(v)' /\ site'[c] = visit[v].item /\ UNCHANGED vault
      BY <2>0, <2>1, ProceedsOrLeaves DEF InsertSite, Moves, CredentialTypeOK
    <3> QED  BY <1>0, <2>1, <3>1, MovesStep DEF CallInv, InsertSite, At, SecretOf
  <2>2. CASE InsertSite(v) /\ Proceeds(v, "undoVault") /\ UNCHANGED <<site, failed>>
    <3>1. Moves(v) /\ UNCHANGED <<site, vault>>
      BY <2>0, <2>2, ProceedsOrLeaves DEF InsertSite, Moves
    <3>2. Call(v)' => visit'[v].pc = "undoVault"
      BY <2>0, <2>2, ProceedsOrLeaves
    <3>3. ASSUME CallInv(v)
          PROVE  (Call(v)' => CallInv(v)') /\ site'[c].state = "none"
      BY <2>2, <3>1, <3>2, <3>3 DEF CallInv, InsertSite, At, Moves
    <3> QED  BY <1>0, <3>1, <3>3, MovesStep
  <2>3. CASE UndoVault(v)
    <3>1. Moves(v) /\ ~Call(v)' /\ UNCHANGED site
      BY <2>0, <2>3, ProceedsOrLeaves DEF UndoVault, Moves, CredentialTypeOK
    <3>2. ASSUME CallInv(v) PROVE site'[c].state = "none"
      BY <2>3, <3>1, <3>2 DEF CallInv, UndoVault, At
    <3> QED  BY <1>0, <3>1, <3>2, MovesStep
  <2>4. CASE SaveSite(v)
    <3>1. Moves(v) /\ ~Call(v)' /\ UNCHANGED vault
      BY <2>0, <2>4, ProceedsOrLeaves DEF SaveSite, Moves, CredentialTypeOK
    <3>2. ASSUME CallInv(v)
          PROVE  site'[c].state = "live" /\ (c \notin failed' => vault'[c] = SecretOf(site'[c]))
      <4>1. CASE /\ site' = [site EXCEPT ![c] = visit[v].item]
                 /\ failed' = IF vault[c] = SecretOf(visit[v].item) THEN failed \ {c} ELSE failed
        <5>1. site'[c] = visit[v].item
          BY <2>0, <4>1 DEF CredentialTypeOK
        <5> QED  BY <2>4, <3>1, <3>2, <4>1, <5>1 DEF CallInv, SaveSite, At
      <4>2. CASE failed' = failed \cup {c} /\ UNCHANGED site
        BY <2>4, <3>2, <4>2 DEF CallInv, SaveSite, At
      <4> QED  BY <2>4, <4>1, <4>2 DEF SaveSite
    <3> QED  BY <1>0, <3>1, <3>2, MovesStep
  <2>5. CASE DeleteSite(v)
    <3>1. Moves(v) /\ ~Call(v)' /\ UNCHANGED vault
      BY <2>0, <2>5, ProceedsOrLeaves DEF DeleteSite, Moves, CredentialTypeOK
    <3>2. ASSUME CallInv(v)
          PROVE  /\ site'[c].state = "deleted" => vault'[c] = Absent
                 /\ site'[c].state = "live" => c \in failed'
      <4>1. vault[c] = Absent /\ site[c].state = "live"
        BY <2>5, <3>2 DEF CallInv, DeleteSite, At
      <4>2. CASE site' = [site EXCEPT ![c].state = "deleted", ![c].enabled = FALSE]
        <5>1. site[c] \in Filled
          BY <2>0, <4>1 DEF CredentialTypeOK, NoSite
        <5>2. site'[c].state = "deleted"
          BY <2>0, <4>2, <5>1 DEF CredentialTypeOK, Filled
        <5> QED  BY <3>1, <4>1, <5>2
      <4>3. CASE failed' = failed \cup {c} /\ UNCHANGED site
        BY <3>1, <4>1, <4>3
      <4> QED  BY <2>5, <4>1, <4>2, <4>3 DEF DeleteSite
    <3> QED  BY <1>0, <3>1, <3>2, MovesStep
  <2> QED  BY <1>5, <2>1, <2>2, <2>3, <2>4, <2>5 DEF InsertSite
<1>6. CASE CrashVisits
  <2>1. /\ UNCHANGED <<site, vault, overlapped>> /\ \A v \in Visit : ~Call(v)'
        /\ failed' = failed \cup {visit[v].of : v \in {w \in Visit : Call(w)}}
    BY <1>6 DEF CrashVisits, Call
  <2>2. AloneInv' /\ CallsInv'
    BY <2>1 DEF AloneInv, CallsInv
  <2>3. SecretFollowsRow'
    <3> SUFFICES ASSUME NEW c \in Credential \ overlapped
                 PROVE  /\ site[c].state = "deleted" => vault[c] = Absent
                        /\ (site[c].state = "live" /\ c \notin failed') => vault[c] = SecretOf(site[c])
      BY <2>1 DEF SecretFollowsRow, SecretOf
    <3>1. c \notin failed' => c \notin failed /\ Quiet(c)
      BY <2>1 DEF Quiet, Call
    <3> QED  BY <3>1 DEF SecretInv, SecretFollowsRow
  <2> QED  BY <1>0, <2>2, <2>3 DEF SecretInv
<1>7. CASE UNCHANGED credentialVars
  <2>1. AloneInv' /\ CallsInv'
    BY <1>7 DEF credentialVars, SecretInv, AloneInv, CallsInv, CallInv, Call, SecretOf
  <2>2. SecretFollowsRow'
    BY <1>7 DEF credentialVars, SecretInv, SecretFollowsRow, Quiet, SecretOf
  <2> QED  BY <1>0, <2>1, <2>2 DEF SecretInv
<1> QED  BY <1>1, <1>2, <1>3, <1>4, <1>5, <1>6, <1>7 DEF CredentialNext

(* A deleted row has left no secret, and one that is not being changed     *)
(* logs in as it says, whatever fails or crashes at whichever step.        *)
THEOREM SecretFollows == CredentialSpec => []SecretFollowsRow
<1>1. CredentialInit => SecretInv
  <2>1. CredentialInit => CredentialTypeOK /\ AloneInv /\ CallsInv
    BY DEF CredentialInit, CredentialTypeOK, AloneInv, CallsInv, Call
  <2>2. CredentialInit => SecretFollowsRow
    <3>1. NoSite.state = "none"
      BY DEF NoSite
    <3> QED  BY <3>1 DEF CredentialInit, SecretFollowsRow
  <2> QED  BY <2>1, <2>2 DEF SecretInv
<1>2. SecretInv /\ [CredentialNext]_credentialVars => SecretInv'
  BY SecretStep
<1>3. SecretInv => SecretFollowsRow
  BY DEF SecretInv
<1> QED  BY <1>1, <1>2, <1>3, PTL DEF CredentialSpec

-------------------------------------------------------------------------------
(* Restarts.                                                               *)

Active(r) == request[r] # NoRequest

(* What a look at the ports finds: programs that run, each with an answer  *)
(* of a program on its own port.                                           *)
LEMMA Inspected ==
  ASSUME RestartTypeOK, NEW r \in Request, InspectPorts(r)
  PROVE  \E todo \in SUBSET Conflict :
           /\ request' = [request EXCEPT ![r].pc = "terminate", ![r].todo = todo]
           /\ \A conflict \in todo :
                /\ conflict.proc # Managed(request[r].target)
                /\ conflict.same => \E q \in Proc : /\ PortOf(q) = PortOf(conflict.proc)
                                                  /\ ServiceOf(q) = request[r].target
<1> DEFINE target == request[r].target
           found == UNION {Listening(port) : port \in Ports(target)}
<1>1. PICK answers \in [{PortOf(p) : p \in found} -> found] :
        /\ \A port \in DOMAIN answers : PortOf(answers[port]) = port
        /\ request' = [request EXCEPT
             ![r].pc = "terminate",
             ![r].todo = {[proc |-> p, same |-> ServiceOf(answers[PortOf(p)]) = target] :
                            p \in found \ {Managed(target)}}]
  BY DEF InspectPorts
<1> DEFINE todo == {[proc |-> p, same |-> ServiceOf(answers[PortOf(p)]) = target] :
                      p \in found \ {Managed(target)}}
<1>2. found \subseteq Proc
  BY DEF Listening, RestartTypeOK
<1>3. todo \in SUBSET Conflict
  <2> SUFFICES ASSUME NEW p \in Proc
               PROVE  [proc |-> p, same |-> ServiceOf(answers[PortOf(p)]) = target] \in Conflict
    BY <1>2
  <2>1. (ServiceOf(answers[PortOf(p)]) = target) \in BOOLEAN
    OBVIOUS
  <2> QED  BY <2>1 DEF Conflict
<1>4. ASSUME NEW conflict \in todo
      PROVE  /\ conflict.proc # Managed(target)
             /\ conflict.same => \E q \in Proc : /\ PortOf(q) = PortOf(conflict.proc)
                                               /\ ServiceOf(q) = target
  <2>1. PICK p \in found \ {Managed(target)} :
          conflict = [proc |-> p, same |-> ServiceOf(answers[PortOf(p)]) = target]
    OBVIOUS
  <2>2. answers[PortOf(p)] \in Proc /\ PortOf(answers[PortOf(p)]) = PortOf(p)
    BY <1>1, <1>2, <2>1
  <2> QED  BY <2>1, <2>2
<1>5. request' = [request EXCEPT ![r].pc = "terminate", ![r].todo = todo]
  BY <1>1
<1> HIDE DEF todo, found
<1> QED  BY <1>3, <1>4, <1>5

(* The type of a request that goes on, and of one that is answered.        *)
LEMMA RestartTypeStep ==
  ASSUME RestartTypeOK, [RestartNext]_restartVars
  PROVE  RestartTypeOK'
<1> USE DEF RestartTypeOK
<1>1. ASSUME NEW r \in Request, NEW pc \in {"save", "inspect"}, NEW target \in Target,
             NEW confirmed \in SUBSET Proc, Arrives(r, pc, target, confirmed)
      PROVE  RestartTypeOK'
  <2>1. [pc |-> pc, at |-> serving, target |-> target, confirmed |-> confirmed, todo |-> {}]
          \in RestartRequest
    BY DEF RestartRequest
  <2> QED  BY <1>1, <2>1 DEF Arrives
<1>2. ASSUME NEW r \in Request, SaveAppConfig(r) PROVE RestartTypeOK'
  BY <1>2 DEF SaveAppConfig, Answered
<1>3. ASSUME NEW r \in Request, InspectPorts(r) PROVE RestartTypeOK'
  <2>1. request[r] \in RestartRequest
    BY <1>3 DEF InspectPorts, AtStep
  <2>2. PICK todo \in SUBSET Conflict :
          request' = [request EXCEPT ![r].pc = "terminate", ![r].todo = todo]
    BY <1>3, Inspected
  <2>3. [request[r] EXCEPT !.pc = "terminate", !.todo = todo] \in RestartRequest
    BY <2>1 DEF RestartRequest
  <2>4. request' = [request EXCEPT ![r] = [request[r] EXCEPT !.pc = "terminate", !.todo = todo]]
    BY <2>2
  <2> QED  BY <1>3, <2>3, <2>4 DEF InspectPorts
<1>4. ASSUME NEW r \in Request, NEW conflict \in Conflict, TerminateProcess(r, conflict)
      PROVE  RestartTypeOK'
  <2>1. request[r] \in RestartRequest
    BY <1>4 DEF TerminateProcess, AtStep
  <2>2. CASE Answered(r) /\ UNCHANGED <<running, killed>>
    BY <1>4, <2>2 DEF TerminateProcess, Answered
  <2>3. CASE /\ request' = [request EXCEPT ![r].todo = @ \ {conflict}]
             /\ running' = running \ {conflict.proc}
             /\ killed' = killed \cup
                  {[proc |-> conflict.proc, target |-> request[r].target,
                    confirmed |-> conflict.proc \in request[r].confirmed,
                    company |-> {ServiceOf(p) : p \in {q \in Proc : PortOf(q) = PortOf(conflict.proc)}}]}
    <3>1. [request[r] EXCEPT !.todo = @ \ {conflict}] \in RestartRequest
      BY <2>1 DEF RestartRequest
    <3>2. [proc |-> conflict.proc, target |-> request[r].target,
           confirmed |-> conflict.proc \in request[r].confirmed,
           company |-> {ServiceOf(p) : p \in {q \in Proc : PortOf(q) = PortOf(conflict.proc)}}] \in Killing
      BY <2>1, RestartAssumption DEF Killing, RestartRequest, Conflict
    <3> QED  BY <1>4, <2>3, <3>1, <3>2 DEF TerminateProcess
  <2> QED  BY <1>4, <2>2, <2>3 DEF TerminateProcess
<1>5. ASSUME NEW r \in Request, AnswerRestart(r) PROVE RestartTypeOK'
  BY <1>5 DEF AnswerRestart, AtStep, Answered, RestartRequest
<1>6. ASSUME NEW i \in Instance, FireTimer(i) PROVE RestartTypeOK'
  BY <1>6 DEF FireTimer
<1>7. CASE TakeSignal \/ Shutdown \/ Start
  <2>1. CASE TakeSignal
    BY <2>1 DEF TakeSignal
  <2>2. CASE Shutdown
    <3>1. late' \in BOOLEAN
      BY <2>2 DEF Shutdown
    <3> QED  BY <2>2, <3>1 DEF Shutdown
  <2>3. CASE Start
    BY <2>3, RestartAssumption DEF Start, Instance
  <2> QED  BY <1>7, <2>1, <2>2, <2>3
<1>8. CASE UNCHANGED restartVars
  BY <1>8 DEF restartVars
<1>9. ASSUME NEW r \in Request, NEW p \in Proc, NEW same \in BOOLEAN,
             TerminateProcess(r, [proc |-> p, same |-> same])
      PROVE  RestartTypeOK'
  <2>1. [proc |-> p, same |-> same] \in Conflict
    BY DEF Conflict
  <2> QED  BY <1>4, <1>9, <2>1
<1>10. ASSUME NEW r \in Request, Arrives(r, "save", "client", {}) PROVE RestartTypeOK'
  BY <1>1, <1>10 DEF Target
<1>11. ASSUME NEW r \in Request, NEW target \in Target, NEW confirmed \in Confirmations,
              Arrives(r, "inspect", target, confirmed)
       PROVE  RestartTypeOK'
  BY <1>1, <1>11, RestartAssumption
<1> HIDE DEF RestartTypeOK
<1> QED  BY <1>2, <1>3, <1>5, <1>6, <1>7, <1>8, <1>9, <1>10, <1>11 DEF RestartNext

(* The types of ServiceRestart hold at the start.                          *)
LEMMA RestartTypeInit == RestartInit => RestartTypeOK
<1>1. 1 \in Instance
  BY RestartAssumption DEF Instance
<1> SUFFICES ASSUME RestartInit PROVE RestartTypeOK
  OBVIOUS
<1>2. /\ phase \in {"serving", "stopping", "starting", "down"} /\ serving \in Instance
      /\ file \in Nat /\ loaded \in Nat /\ owed \in Nat /\ requests \in Nat
      /\ running \subseteq Proc /\ late \in BOOLEAN /\ killed \subseteq Killing
  BY <1>1 DEF RestartInit
<1>3. /\ signal \in [Instance -> BOOLEAN] /\ timer \in [Instance -> Nat]
      /\ request \in [Request -> RestartRequest \cup {NoRequest}]
  BY DEF RestartInit
<1> QED  BY <1>2, <1>3 DEF RestartTypeOK

(* The state of the restart has its type.                                  *)
THEOREM RestartTypeCorrect == RestartSpec => []RestartTypeOK
<1>1. RestartInit => RestartTypeOK
  BY RestartTypeInit
<1>2. RestartTypeOK /\ [RestartNext]_restartVars => RestartTypeOK'
  BY RestartTypeStep
<1> QED  BY <1>1, <1>2, PTL DEF RestartSpec

-------------------------------------------------------------------------------
(* Until an instance has been ended before its requests, every request is  *)
(* of the instance that serves; and what was promised is in the file, and  *)
(* in use, or a timer or a signal of that instance is there for it.        *)
OnTheWay ==
  (phase = "serving" /\ loaded < owed) => signal[serving] \/ timer[serving] > 0

PromiseInv ==
  /\ owed <= file /\ loaded <= file
  /\ ~late => /\ \A r \in Request : Active(r) => request[r].at = serving
              /\ phase = "starting" => \A r \in Request : ~Active(r)
              /\ OnTheWay

(* What a request means to terminate is not what is restarted, and what it *)
(* takes for one of the target's kind is answered for by such a one.       *)
TodoInv ==
  \A r \in Request : Active(r) => \A conflict \in request[r].todo :
    /\ conflict.proc # Managed(request[r].target)
    /\ conflict.same => \E q \in Proc : /\ PortOf(q) = PortOf(conflict.proc)
                                      /\ ServiceOf(q) = request[r].target

RestartInv == RestartTypeOK /\ PromiseInv /\ TodoInv /\ KillsConfirmed

(* The actions on one request leave the others as they were.               *)
LEMMA PromiseStep ==
  ASSUME RestartInv, RestartTypeOK', [RestartNext]_restartVars
  PROVE  PromiseInv'
<1> USE DEF RestartInv, RestartTypeOK
<1>1. ASSUME NEW r \in Request, NEW pc, NEW target, NEW confirmed, Arrives(r, pc, target, confirmed)
      PROVE  PromiseInv'
  BY <1>1 DEF Arrives, PromiseInv, OnTheWay, Active
<1>2. ASSUME NEW r \in Request, SaveAppConfig(r) PROVE PromiseInv'
  BY <1>2 DEF SaveAppConfig, Answered, PromiseInv, OnTheWay, Active
<1>3. ASSUME NEW r \in Request,
             InspectPorts(r) \/ (\E conflict \in Conflict : TerminateProcess(r, conflict))
      PROVE  PromiseInv'
  <2>1. UNCHANGED <<phase, serving, signal, timer, file, loaded, owed, late>> /\ Active(r)
    BY <1>3 DEF InspectPorts, TerminateProcess, AtStep, Active
  <2>2. \A q \in Request : Active(q)' => Active(q) /\ request'[q].at = request[q].at
    <3>1. request[r] \in RestartRequest
      BY <2>1 DEF Active
    <3>2. CASE InspectPorts(r)
      <4>1. PICK todo \in SUBSET Conflict :
              request' = [request EXCEPT ![r].pc = "terminate", ![r].todo = todo]
        BY <3>2, Inspected
      <4>2. request' = [request EXCEPT ![r] = [request[r] EXCEPT !.pc = "terminate", !.todo = todo]]
        BY <4>1
      <4>3. [request[r] EXCEPT !.pc = "terminate", !.todo = todo].at = request[r].at
        BY <3>1 DEF RestartRequest
      <4> QED  BY <2>1, <4>2, <4>3 DEF Active
    <3>3. CASE \E conflict \in Conflict : TerminateProcess(r, conflict)
      BY <2>1, <3>1, <3>3 DEF TerminateProcess, Answered, Active, RestartRequest
    <3> QED  BY <1>3, <3>2, <3>3
  <2>3. (~late) => \A q \in Request : Active(q)' => request'[q].at = serving
    BY <2>2 DEF PromiseInv
  <2>4. (~late /\ phase = "starting") => \A q \in Request : ~Active(q)'
    BY <2>2 DEF PromiseInv
  <2> QED  BY <2>1, <2>3, <2>4 DEF PromiseInv, OnTheWay, Active
<1>4. ASSUME NEW r \in Request, AnswerRestart(r) PROVE PromiseInv'
  <2>1. Active(r) /\ request[r].at \in Instance
    BY <1>4 DEF AnswerRestart, AtStep, Active, RestartRequest
  <2>2. \A q \in Request : Active(q)' => Active(q) /\ request'[q] = request[q]
    BY <1>4 DEF AnswerRestart, Answered, Active
  <2>3. CASE timer' = [timer EXCEPT ![request[r].at] = @ + 1] /\ owed' = file
    <3>1. ~late => OnTheWay'
      BY <1>4, <2>1, <2>3 DEF AnswerRestart, PromiseInv, OnTheWay
    <3> QED  BY <1>4, <2>2, <2>3, <3>1 DEF AnswerRestart, PromiseInv, Active
  <2>4. CASE UNCHANGED <<timer, owed>>
    BY <1>4, <2>2, <2>4 DEF AnswerRestart, PromiseInv, OnTheWay, Active
  <2> QED  BY <1>4, <2>3, <2>4 DEF AnswerRestart
<1>5. ASSUME NEW i \in Instance, FireTimer(i) PROVE PromiseInv'
  BY <1>5 DEF FireTimer, PromiseInv, OnTheWay, Active
<1>6. CASE TakeSignal
  BY <1>6 DEF TakeSignal, PromiseInv, OnTheWay, Active
<1>7. CASE Shutdown
  <2>1. (~late') => \A r \in Request : ~Active(r)
    BY <1>7 DEF Shutdown, RequestsUnderWay, PromiseInv, Active
  <2> QED  BY <1>7, <2>1 DEF Shutdown, PromiseInv, OnTheWay, Active
<1>8. CASE Start
  BY <1>8 DEF Start, PromiseInv, OnTheWay, Active
<1>9. CASE UNCHANGED restartVars
  BY <1>9 DEF restartVars, PromiseInv, OnTheWay, Active
<1>10. ASSUME NEW r \in Request, NEW p \in Proc, NEW same \in BOOLEAN,
              TerminateProcess(r, [proc |-> p, same |-> same])
       PROVE  \E conflict \in Conflict : TerminateProcess(r, conflict)
  <2>1. [proc |-> p, same |-> same] \in Conflict
    BY DEF Conflict
  <2> QED  BY <1>10, <2>1
<1> HIDE DEF RestartInv, RestartTypeOK
<1> QED  BY <1>1, <1>2, <1>3, <1>4, <1>5, <1>6, <1>7, <1>8, <1>9, <1>10 DEF RestartNext

(* What a request means to terminate stays apart from its target.          *)
LEMMA TodoStep ==
  ASSUME RestartInv, [RestartNext]_restartVars
  PROVE  TodoInv' /\ KillsConfirmed'
<1> USE DEF RestartInv, RestartTypeOK
<1> DEFINE Founded(r, conflict) ==
             /\ conflict.proc # Managed(request[r].target)
             /\ conflict.same => \E q \in Proc : /\ PortOf(q) = PortOf(conflict.proc)
                                               /\ ServiceOf(q) = request[r].target
(* A request keeps its target and what it means to do, or is over.         *)
<1>1. ASSUME UNCHANGED killed,
             \A q \in Request : Active(q)' => /\ Active(q) /\ request'[q].target = request[q].target
                                            /\ request'[q].todo \subseteq request[q].todo
      PROVE  TodoInv' /\ KillsConfirmed'
  BY <1>1 DEF TodoInv, KillsConfirmed
<1>2. ASSUME NEW r \in Request, NEW pc, NEW target, NEW confirmed, Arrives(r, pc, target, confirmed)
      PROVE  TodoInv' /\ KillsConfirmed'
  BY <1>2 DEF Arrives, TodoInv, KillsConfirmed, Active
<1>3. ASSUME NEW r \in Request, SaveAppConfig(r) \/ AnswerRestart(r)
      PROVE  TodoInv' /\ KillsConfirmed'
  BY <1>1, <1>3 DEF SaveAppConfig, AnswerRestart, Answered, Active
<1>4. ASSUME NEW r \in Request, InspectPorts(r) PROVE TodoInv' /\ KillsConfirmed'
  <2>1. PICK todo \in SUBSET Conflict :
          /\ request' = [request EXCEPT ![r].pc = "terminate", ![r].todo = todo]
          /\ \A conflict \in todo : Founded(r, conflict)
    BY <1>4, Inspected
  <2>2. request[r] \in RestartRequest
    BY <1>4 DEF InspectPorts, AtStep
  <2>3. request' = [request EXCEPT ![r] = [request[r] EXCEPT !.pc = "terminate", !.todo = todo]]
    BY <2>1
  <2>4. /\ [request[r] EXCEPT !.pc = "terminate", !.todo = todo].target = request[r].target
        /\ [request[r] EXCEPT !.pc = "terminate", !.todo = todo].todo = todo
    BY <2>2 DEF RestartRequest
  <2>5. /\ request'[r].target = request[r].target /\ request'[r].todo = todo
        /\ \A q \in Request \ {r} : request'[q] = request[q]
    BY <2>3, <2>4
  <2>6. TodoInv'
    BY <2>1, <2>5 DEF TodoInv, Active
  <2> QED  BY <1>4, <2>6 DEF InspectPorts, KillsConfirmed
<1>5. ASSUME NEW r \in Request, NEW conflict \in Conflict, TerminateProcess(r, conflict)
      PROVE  TodoInv' /\ KillsConfirmed'
  <2>1. request[r] \in RestartRequest /\ Active(r)
    BY <1>5 DEF TerminateProcess, AtStep, Active
  <2>2. CASE Answered(r) /\ UNCHANGED <<running, killed>>
    BY <1>1, <2>1, <2>2 DEF Answered, Active
  <2> DEFINE end == [proc |-> conflict.proc, target |-> request[r].target,
                     confirmed |-> conflict.proc \in request[r].confirmed,
                     company |-> {ServiceOf(p) : p \in {q \in Proc : PortOf(q) = PortOf(conflict.proc)}}]
  <2>3. CASE /\ conflict.proc # Self
             /\ request' = [request EXCEPT ![r].todo = @ \ {conflict}]
             /\ killed' = killed \cup {end}
    <3>1. /\ [request[r] EXCEPT !.todo = @ \ {conflict}].target = request[r].target
          /\ [request[r] EXCEPT !.todo = @ \ {conflict}].todo = request[r].todo \ {conflict}
      BY <2>1 DEF RestartRequest
    <3>2. /\ request'[r].target = request[r].target /\ request'[r].todo \subseteq request[r].todo
          /\ \A q \in Request \ {r} : request'[q] = request[q]
      BY <2>3, <3>1
    <3>3. TodoInv'
      BY <2>1, <3>2 DEF TodoInv, Active
    <3>4. Founded(r, conflict) /\ (conflict.same \/ conflict.proc \in request[r].confirmed)
      BY <1>5, <2>1 DEF TodoInv, TerminateProcess, MayEnd
    <3>5. end.confirmed \/ end.target \in end.company
      <4>1. CASE conflict.same
        BY <3>4, <4>1
      <4>2. CASE conflict.proc \in request[r].confirmed
        BY <4>2
      <4> QED  BY <3>4, <4>1, <4>2
    <3>6. end.proc \notin {Self, Managed(end.target)}
      BY <2>3, <3>4
    <3> HIDE DEF end
    <3> QED  BY <2>3, <3>3, <3>5, <3>6 DEF KillsConfirmed
  <2> QED  BY <1>5, <2>2, <2>3 DEF TerminateProcess
<1>6. CASE (\E i \in Instance : FireTimer(i)) \/ TakeSignal \/ Shutdown \/ Start \/ UNCHANGED restartVars
  BY <1>1, <1>6 DEF FireTimer, TakeSignal, Shutdown, Start, restartVars, Active
<1>7. ASSUME NEW r \in Request, NEW p \in Proc, NEW same \in BOOLEAN,
              TerminateProcess(r, [proc |-> p, same |-> same])
      PROVE  TodoInv' /\ KillsConfirmed'
  <2>1. [proc |-> p, same |-> same] \in Conflict
    BY DEF Conflict
  <2> QED  BY <1>5, <1>7, <2>1
<1> HIDE DEF RestartInv, RestartTypeOK
<1> QED  BY <1>2, <1>3, <1>4, <1>6, <1>7 DEF RestartNext

(* A restart that was promised is made, unless an instance was ended over  *)
(* its requests; and what is terminated was confirmed or shares its port   *)
(* with one of the target's kind, and is neither this program nor that.    *)
THEOREM RestartHonoured == RestartSpec => []RestartAsAsked
<1>1. RestartInit => RestartInv
  <2>1. RestartInit => RestartTypeOK
    BY RestartTypeInit
  <2>2. RestartInit => PromiseInv /\ TodoInv /\ KillsConfirmed
    BY DEF RestartInit, PromiseInv, OnTheWay, TodoInv, KillsConfirmed, Active
  <2> QED  BY <2>1, <2>2 DEF RestartInv
<1>2. RestartInv /\ [RestartNext]_restartVars => RestartInv'
  <2> SUFFICES ASSUME RestartInv, [RestartNext]_restartVars PROVE RestartInv'
    OBVIOUS
  <2>1. RestartTypeOK'
    BY RestartTypeStep DEF RestartInv
  <2> QED  BY <2>1, PromiseStep, TodoStep DEF RestartInv
<1>3. RestartInv => RestartAsAsked
  BY DEF RestartInv, RestartTypeOK, PromiseInv, OnTheWay, RestartAsAsked, AckedIsLoaded
<1> QED  BY <1>1, <1>2, <1>3, PTL DEF RestartSpec

-------------------------------------------------------------------------------
(* Workspaces: numbers first, and functions that fold and loop.            *)

(* Induction: what holds of 0 and of each next number is all of Nat.       *)
LEMMA NatInd ==
  ASSUME NEW S, 0 \in S, \A n \in Nat : n \in S => n + 1 \in S
  PROVE  Nat \subseteq S
<1> SUFFICES ASSUME NEW n \in Nat, n \notin S PROVE FALSE
  OBVIOUS
<1> DEFINE A == (0 .. n) \cap S
           up == [m \in A |-> m + 1]
<1>1. IsFiniteSet(0 .. n)  BY FS_Interval
<1>2. IsFiniteSet(A)  BY <1>1, FS_Subset
<1>3. up \in Injection(A, A)
  <2>1. \A m \in A : m + 1 \in A
    <3>1. SUFFICES ASSUME NEW m \in A PROVE m + 1 \in A  OBVIOUS
    <3>2. m \in Nat /\ m <= n /\ m \in S /\ m # n  OBVIOUS
    <3>3. m + 1 \in S  BY <3>2
    <3> QED  BY <3>2, <3>3
  <2>2. \A a, b \in A : up[a] = up[b] => a = b  OBVIOUS
  <2>3. up \in [A -> A]  BY <2>1
  <2> HIDE DEF up, A
  <2> QED  BY <2>2, <2>3 DEF Injection, IsInjective
<1>4. up \in Surjection(A, A)
  <2> HIDE DEF up, A
  <2> QED  BY <1>2, <1>3, FS_Injection
<1>5. 0 \in A  OBVIOUS
<1>6. PICK m \in A : up[m] = 0
  <2> HIDE DEF up, A
  <2> QED  BY <1>4, <1>5 DEF Surjection
<1> QED  BY <1>6

(* The largest of the first numbers.                                       *)
LEMMA MaxOfInterval ==
  ASSUME NEW i \in Nat, NEW s \in SUBSET (1 .. i), i \in s
  PROVE  Max(s) = i
<1>1. i \in s /\ \A y \in s : i >= y  OBVIOUS
<1>2. \E x \in s : \A y \in s : x >= y  BY <1>1
<1>3. Max(s) \in s /\ \A y \in s : Max(s) >= y  BY <1>2, Zenon DEF Max
<1>4. Max(s) >= i /\ i >= Max(s) /\ Max(s) \in Int
  <2>1. Max(s) \in 1 .. i  BY <1>3
  <2>2. Max(s) >= i /\ i >= Max(s)  BY <1>1, <1>3
  <2> QED  BY <2>1, <2>2
<1> QED  BY <1>4

(* There is a function as a fold defines it.                               *)
Folds(h, n, V, base, step) ==
  /\ h \in [SUBSET (1 .. n) -> V]
  /\ \A s \in SUBSET (1 .. n) :
       h[s] = IF s = {} THEN base ELSE step[<<Max(s), h[s \ {Max(s)}]>>]

(* Such a function exists, which CHOOSE needs.                             *)
LEMMA FoldExists ==
  ASSUME NEW V, NEW base \in V, NEW n \in Nat, NEW step \in [(1 .. n) \X V -> V]
  PROVE  \E h : Folds(h, n, V, base, step)
<1> DEFINE S == {k \in Nat : k <= n => \E h : Folds(h, k, V, base, step)}
<1>1. 0 \in S
  <2> DEFINE h == [s \in SUBSET (1 .. 0) |-> base]
  <2>1. 1 .. 0 = {}  OBVIOUS
  <2>2. h \in [SUBSET (1 .. 0) -> V]  OBVIOUS
  <2>3. \A s \in SUBSET (1 .. 0) : s = {} /\ h[s] = base  BY <2>1
  <2>4. Folds(h, 0, V, base, step)  BY <2>2, <2>3 DEF Folds
  <2> QED  BY <2>4
<1>2. ASSUME NEW k \in Nat, k \in S  PROVE k + 1 \in S
  <2> SUFFICES ASSUME k + 1 <= n PROVE \E h : Folds(h, k + 1, V, base, step)
    OBVIOUS
  <2>1. PICK h : Folds(h, k, V, base, step)  BY <1>2
  <2> DEFINE g == [s \in SUBSET (1 .. k + 1) |-> IF k + 1 \in s THEN step[<<k + 1, h[s \ {k + 1}]>>] ELSE h[s]]
  <2>2. \A s \in SUBSET (1 .. k + 1) : s \ {k + 1} \in SUBSET (1 .. k)  OBVIOUS
  <2>3. g \in [SUBSET (1 .. k + 1) -> V]
    <3>1. ASSUME NEW s \in SUBSET (1 .. k + 1)  PROVE (IF k + 1 \in s THEN step[<<k + 1, h[s \ {k + 1}]>>] ELSE h[s]) \in V
      <4>1. h[s \ {k + 1}] \in V  BY <2>1, <2>2 DEF Folds
      <4>2. k + 1 \in 1 .. n  OBVIOUS
      <4>3. step[<<k + 1, h[s \ {k + 1}]>>] \in V  BY <4>1, <4>2
      <4>4. k + 1 \notin s => s = s \ {k + 1}  OBVIOUS
      <4> QED  BY <4>1, <4>3, <4>4
    <3> QED  BY <3>1
  <2>4. ASSUME NEW s \in SUBSET (1 .. k + 1)
        PROVE  g[s] = IF s = {} THEN base ELSE step[<<Max(s), g[s \ {Max(s)}]>>]
    <3>1. CASE k + 1 \in s
      <4>1. Max(s) = k + 1  BY <3>1, MaxOfInterval
      <4>2. g[s] = step[<<k + 1, h[s \ {k + 1}]>>]  BY <3>1
      <4>3. g[s \ {k + 1}] = h[s \ {k + 1}]  OBVIOUS
      <4> QED  BY <3>1, <4>1, <4>2, <4>3
    <3>2. CASE k + 1 \notin s
      <4>1. s \in SUBSET (1 .. k)  BY <3>2, <2>2
      <4>2. g[s] = h[s]  BY <3>2
      <4>3. k + 1 \notin s \ {Max(s)} /\ s \ {Max(s)} \in SUBSET (1 .. k + 1)  BY <3>2
      <4>4. g[s \ {Max(s)}] = h[s \ {Max(s)}]  BY <4>3
      <4> HIDE DEF g
      <4> QED  BY <2>1, <4>1, <4>2, <4>4 DEF Folds
    <3> QED  BY <3>1, <3>2
  <2>5. Folds(g, k + 1, V, base, step)  BY <2>3, <2>4 DEF Folds
  <2> QED  BY <2>5
<1>3. n \in S
  <2> HIDE DEF S
  <2> QED  BY <1>1, <1>2, NatInd
<1> QED  BY <1>3

(* And as a loop defines it.                                               *)
Loops(g, n, V, base, step) ==
  g \in [0 .. n -> V] /\ g[0] = base /\ \A i \in 1 .. n : g[i] = step[<<i, g[i - 1]>>]

(* As it does for a loop.                                                  *)
LEMMA LoopExists ==
  ASSUME NEW V, NEW base \in V, NEW n \in Nat, NEW step \in [(1 .. n) \X V -> V]
  PROVE  \E g : Loops(g, n, V, base, step)
<1>0. PICK h : Folds(h, n, V, base, step)  BY FoldExists
<1>1. /\ h \in [SUBSET (1 .. n) -> V]
      /\ \A s \in SUBSET (1 .. n) :
           h[s] = IF s = {} THEN base ELSE step[<<Max(s), h[s \ {Max(s)}]>>]
  BY <1>0 DEF Folds
<1> DEFINE g == [i \in 0 .. n |-> h[1 .. i]]
<1>2. g \in [0 .. n -> V]
  <2>1. \A i \in 0 .. n : 1 .. i \in SUBSET (1 .. n)  OBVIOUS
  <2> QED  BY <1>1, <2>1
<1>3. g[0] = base
  <2>1. 1 .. 0 = {} /\ 0 \in 0 .. n  OBVIOUS
  <2>2. h[{}] = base  BY <1>1
  <2> QED  BY <2>1, <2>2
<1>4. ASSUME NEW i \in 1 .. n  PROVE g[i] = step[<<i, g[i - 1]>>]
  <2>1. i \in Nat /\ i \in 0 .. n /\ i - 1 \in 0 .. n /\ 1 .. i \in SUBSET (1 .. n) /\ i \in 1 .. i  OBVIOUS
  <2>2. Max(1 .. i) = i  BY <2>1, MaxOfInterval
  <2>3. (1 .. i) \ {i} = 1 .. (i - 1) /\ 1 .. i # {}  BY <2>1
  <2>4. h[1 .. i] = step[<<i, h[1 .. (i - 1)]>>]  BY <1>1, <2>1, <2>2, <2>3
  <2> QED  BY <2>1, <2>4
<1> HIDE DEF g
<1> QED  BY <1>2, <1>3, <1>4 DEF Loops

-------------------------------------------------------------------------------
(* Where lines start, and that LineStarts finds it in order.               *)
StartsAt(text, p) == p = 1 \/ (p \in 2 .. Len(text) /\ text[p - 1] = NL)

Increasing(s) == \A i, j \in 1 .. Len(s) : i < j => s[i] < s[j]

Lists(s, text) ==
  /\ s \in Seq(Nat) /\ Increasing(s)
  /\ \A p \in Nat : (\E i \in 1 .. Len(s) : s[i] = p) <=> StartsAt(text, p)

(* The loop of replaceLineRange.                                           *)
LoopOf(starts, text) ==
  starts = [i \in 0 .. Len(text) |->
              IF i = 0 THEN <<1>>
              ELSE IF text[i] = NL /\ i < Len(text) THEN Append(starts[i - 1], i + 1) ELSE starts[i - 1]]

(* LineStarts is what its loop ends with (replaceLineRange).               *)
LEMMA LoopHasRun ==
  ASSUME NEW text \in Seq(Symbol)
  PROVE  \E starts : LoopOf(starts, text) /\ LineStarts(text) = starts[Len(text)]
<1>1. Len(text) \in Nat  OBVIOUS
<1> DEFINE step == [z \in (1 .. Len(text)) \X Seq(Nat) |->
                      IF text[z[1]] = NL /\ z[1] < Len(text) THEN Append(z[2], z[1] + 1) ELSE z[2]]
<1>2. step \in [(1 .. Len(text)) \X Seq(Nat) -> Seq(Nat)]
  <2>1. ASSUME NEW z \in (1 .. Len(text)) \X Seq(Nat)
        PROVE  (IF text[z[1]] = NL /\ z[1] < Len(text) THEN Append(z[2], z[1] + 1) ELSE z[2]) \in Seq(Nat)
    <3>1. z[1] + 1 \in Nat /\ z[2] \in Seq(Nat)  OBVIOUS
    <3> QED  BY <3>1
  <2> QED  BY <2>1
<1>3. <<1>> \in Seq(Nat)  OBVIOUS
<1> HIDE DEF step
<1>0. PICK g : Loops(g, Len(text), Seq(Nat), <<1>>, step)
  BY <1>1, <1>2, <1>3, LoopExists
<1>4. /\ g \in [0 .. Len(text) -> Seq(Nat)] /\ g[0] = <<1>>
      /\ \A i \in 1 .. Len(text) : g[i] = step[<<i, g[i - 1]>>]
  BY <1>0 DEF Loops
<1>5. \A i \in 1 .. Len(text) :
        g[i] = IF text[i] = NL /\ i < Len(text) THEN Append(g[i - 1], i + 1) ELSE g[i - 1]
  <2> SUFFICES ASSUME NEW i \in 1 .. Len(text)
               PROVE  g[i] = IF text[i] = NL /\ i < Len(text) THEN Append(g[i - 1], i + 1) ELSE g[i - 1]
    OBVIOUS
  <2>1. i - 1 \in 0 .. Len(text)  BY <1>1
  <2>2. <<i, g[i - 1]>> \in (1 .. Len(text)) \X Seq(Nat)  BY <1>4, <2>1
  <2> QED  BY <1>4, <2>2 DEF step
<1>6. LoopOf(g, text)
  <2>1. ASSUME NEW i \in 0 .. Len(text)
        PROVE  g[i] = IF i = 0 THEN <<1>>
                      ELSE IF text[i] = NL /\ i < Len(text) THEN Append(g[i - 1], i + 1) ELSE g[i - 1]
    <3>1. CASE i = 0  BY <1>4, <3>1
    <3>2. CASE i # 0
      <4>1. i \in 1 .. Len(text)  BY <1>1, <3>2
      <4> QED  BY <1>5, <3>2, <4>1
    <3> QED  BY <3>1, <3>2
  <2> QED  BY <1>4, <2>1 DEF LoopOf
<1> DEFINE starts == CHOOSE h : LoopOf(h, text)
<1>7. LoopOf(starts, text)  BY <1>6
<1>8. LineStarts(text) = starts[Len(text)]  BY DEF LineStarts, LoopOf
<1> QED  BY <1>7, <1>8

(* After i rounds it has found the starts of lines up to i + 1.            *)
LEMMA StartsFound ==
  ASSUME NEW text \in Seq(Symbol), text # <<>>
  PROVE  Lists(LineStarts(text), text)
<1>1. PICK g : LoopOf(g, text) /\ LineStarts(text) = g[Len(text)]  BY LoopHasRun
<1>2. Len(text) \in Nat /\ Len(text) > 0  OBVIOUS
<1> DEFINE Found(i) ==
      /\ g[i] \in Seq(Nat) /\ Increasing(g[i])
      /\ \A p \in Nat : (\E k \in 1 .. Len(g[i]) : g[i][k] = p) <=> (p <= i + 1 /\ StartsAt(text, p))
    S == {i \in Nat : i <= Len(text) => Found(i)}
<1>3. g[0] = <<1>>  BY <1>1, <1>2 DEF LoopOf
<1>4. \A i \in 1 .. Len(text) : g[i] = IF text[i] = NL /\ i < Len(text) THEN Append(g[i - 1], i + 1) ELSE g[i - 1]
  <2> SUFFICES ASSUME NEW i \in 1 .. Len(text)
               PROVE  g[i] = IF text[i] = NL /\ i < Len(text) THEN Append(g[i - 1], i + 1) ELSE g[i - 1]
    OBVIOUS
  <2>1. i \in 0 .. Len(text) /\ i # 0  BY <1>2
  <2> QED  BY <1>1, <2>1 DEF LoopOf
<1>5. Found(0)
  <2>1. g[0] \in Seq(Nat) /\ Len(g[0]) = 1 /\ g[0][1] = 1  BY <1>3
  <2>2. Increasing(g[0])  BY <2>1 DEF Increasing
  <2>3. \A p \in Nat : (p <= 0 + 1 /\ StartsAt(text, p)) <=> p = 1  BY <1>2 DEF StartsAt
  <2> QED  BY <2>1, <2>2, <2>3
<1>6. ASSUME NEW i \in Nat, i \in S  PROVE i + 1 \in S
  <2> SUFFICES ASSUME i + 1 <= Len(text)  PROVE Found(i + 1)
    OBVIOUS
  <2>1. Found(i)
    <3>1. i <= Len(text)  BY <1>2
    <3> HIDE DEF Found
    <3> QED  BY <1>6, <3>1
  <2> DEFINE s == g[i]
             t == g[i + 1]
  <2>2. t = IF text[i + 1] = NL /\ i + 1 < Len(text) THEN Append(s, i + 2) ELSE s
    <3>1. i + 1 \in 1 .. Len(text) /\ (i + 1) - 1 = i /\ (i + 1) + 1 = i + 2  BY <1>2
    <3> QED  BY <1>4, <3>1
  <2> HIDE DEF s, t
  <2>3. /\ s \in Seq(Nat) /\ Increasing(s)
        /\ \A p \in Nat : (\E k \in 1 .. Len(s) : s[k] = p) <=> (p <= i + 1 /\ StartsAt(text, p))
    BY <2>1 DEF s
  <2>4. CASE text[i + 1] = NL /\ i + 1 < Len(text)
    <3>1. t = Append(s, i + 2) /\ i + 2 \in Nat /\ Len(s) \in Nat  BY <2>2, <2>3, <2>4
    <3>2. t \in Seq(Nat) /\ Len(t) = Len(s) + 1 /\ t[Len(s) + 1] = i + 2 /\ \A k \in 1 .. Len(s) : t[k] = s[k]
      BY <2>3, <3>1, AppendProperties
    <3>3. \A k \in 1 .. Len(s) : s[k] \in Nat /\ s[k] <= i + 1  BY <2>3
    <3>4. Increasing(t)
      <4> SUFFICES ASSUME NEW j \in 1 .. Len(t), NEW k \in 1 .. Len(t), j < k  PROVE t[j] < t[k]
        BY DEF Increasing
      <4>1. j \in 1 .. Len(s)  BY <3>1, <3>2
      <4>2. CASE k \in 1 .. Len(s)  BY <2>3, <3>2, <4>1, <4>2 DEF Increasing
      <4>3. CASE k = Len(s) + 1
        <5>1. t[j] <= i + 1 /\ t[j] \in Nat /\ t[k] = i + 2  BY <3>2, <3>3, <4>1, <4>3
        <5> QED  BY <5>1
      <4>4. k \in 1 .. Len(s) \/ k = Len(s) + 1
        <5>1. \A n \in Nat : \A m \in 1 .. n + 1 : m \in 1 .. n \/ m = n + 1  OBVIOUS
        <5> QED  BY <3>1, <3>2, <5>1
      <4> QED  BY <4>2, <4>3, <4>4
    <3>5. StartsAt(text, i + 2)  BY <1>2, <2>4 DEF StartsAt
    <3>6. ASSUME NEW p \in Nat
          PROVE  (\E k \in 1 .. Len(t) : t[k] = p) <=> (p <= i + 2 /\ StartsAt(text, p))
      <4>1. (\E k \in 1 .. Len(t) : t[k] = p) <=> (\E k \in 1 .. Len(s) : s[k] = p) \/ p = i + 2
        BY <3>1, <3>2
      <4>2. p <= i + 2 <=> p <= i + 1 \/ p = i + 2  OBVIOUS
      <4> QED  BY <2>3, <3>5, <4>1, <4>2
    <3>7. (i + 1) + 1 = i + 2  OBVIOUS
    <3> QED  BY <3>2, <3>4, <3>6, <3>7 DEF t
  <2>5. CASE ~(text[i + 1] = NL /\ i + 1 < Len(text))
    <3>1. t = s  BY <2>2, <2>5
    <3>2. ~StartsAt(text, i + 2)  BY <1>2, <2>5 DEF StartsAt
    <3>3. \A p \in Nat : (p <= (i + 1) + 1 /\ StartsAt(text, p)) <=> (p <= i + 1 /\ StartsAt(text, p))
      <4>1. \A p \in Nat : p <= (i + 1) + 1 <=> p <= i + 1 \/ p = i + 2  OBVIOUS
      <4> QED  BY <3>2, <4>1
    <3> QED  BY <2>3, <3>1, <3>3 DEF t
  <2> QED  BY <2>4, <2>5
<1>7. Found(Len(text))
  <2>1. 0 \in S  BY <1>5
  <2>2. Nat \subseteq S
    <3> HIDE DEF S
    <3> QED  BY <1>6, <2>1, NatInd
  <2> HIDE DEF Found
  <2> QED  BY <1>2, <2>2
<1>8. \A p \in Nat : StartsAt(text, p) => p <= Len(text) + 1  BY <1>2 DEF StartsAt
<1> QED  BY <1>1, <1>7, <1>8 DEF Lists

(* There is one such list.                                                 *)
LEMMA ListedOnce ==
  ASSUME NEW text, NEW s, NEW t, Lists(s, text), Lists(t, text)
  PROVE  s = t
<1> USE DEF Lists
<1> DEFINE Same(k) == \A j \in 1 .. k : /\ j <= Len(s) => j <= Len(t) /\ s[j] = t[j]
                                        /\ j <= Len(t) => j <= Len(s) /\ s[j] = t[j]
           S == {k \in Nat : Same(k)}
<1>0. Len(s) \in Nat /\ Len(t) \in Nat  OBVIOUS
<1>1. 0 \in S  OBVIOUS
<1>a. ASSUME NEW a, NEW b, Lists(a, text), Lists(b, text), NEW k \in Nat, k + 1 <= Len(a),
             \A j \in 1 .. k : j <= Len(a) => j <= Len(b) /\ a[j] = b[j]
      PROVE  k + 1 <= Len(b) /\ b[k + 1] <= a[k + 1]
  <2>0. Len(a) \in Nat /\ Len(b) \in Nat /\ k + 1 \in 1 .. Len(a)  BY <1>a
  <2>1. a[k + 1] \in Nat  BY <1>a, <2>0
  <2>2. PICK m \in 1 .. Len(b) : b[m] = a[k + 1]
    <3>1. StartsAt(text, a[k + 1])  BY <1>a, <2>0, <2>1
    <3> QED  BY <1>a, <2>1, <3>1
  <2>3. m > k
    <3> SUFFICES ASSUME m <= k  PROVE FALSE  BY <2>0, <2>2
    <3>1. m \in 1 .. k /\ m <= Len(a) /\ m \in 1 .. Len(a)  BY <2>0, <2>2
    <3>2. a[m] = b[m]  BY <1>a, <3>1
    <3>3. a[m] < a[k + 1]  BY <1>a, <2>0, <3>1 DEF Increasing
    <3> QED  BY <2>1, <2>2, <3>2, <3>3
  <2>4. k + 1 <= Len(b) /\ k + 1 \in 1 .. Len(b)  BY <2>0, <2>3
  <2>5. CASE m = k + 1  BY <2>1, <2>2, <2>4, <2>5
  <2>6. CASE m > k + 1
    <3>1. b[k + 1] < b[m]  BY <1>a, <2>0, <2>4, <2>6 DEF Increasing
    <3>2. b[k + 1] \in Nat  BY <1>a, <2>4
    <3> QED  BY <2>1, <2>2, <2>4, <3>1, <3>2
  <2> QED  BY <2>3, <2>5, <2>6
<1>2. ASSUME NEW k \in Nat, k \in S  PROVE k + 1 \in S
  <2>0. Same(k)  BY <1>2
  <2>1. k + 1 <= Len(s) => k + 1 <= Len(t) /\ t[k + 1] <= s[k + 1]  BY <1>a, <2>0
  <2>2. k + 1 <= Len(t) => k + 1 <= Len(s) /\ s[k + 1] <= t[k + 1]
    <3>1. \A j \in 1 .. k : j <= Len(t) => j <= Len(s) /\ t[j] = s[j]  BY <2>0
    <3> QED  BY <1>a, <3>1
  <2>3. k + 1 <= Len(s) => s[k + 1] = t[k + 1]
    <3> SUFFICES ASSUME k + 1 <= Len(s)  PROVE s[k + 1] = t[k + 1]  OBVIOUS
    <3>1. k + 1 \in 1 .. Len(s) /\ k + 1 \in 1 .. Len(t)  BY <1>0, <2>1
    <3>2. s[k + 1] \in Nat /\ t[k + 1] \in Nat  BY <3>1
    <3> QED  BY <2>1, <2>2, <3>1, <3>2
  <2> QED  BY <1>0, <2>0, <2>1, <2>2, <2>3
<1>3. Nat \subseteq S
  <2> HIDE DEF S
  <2> QED  BY <1>1, <1>2, NatInd
<1>4. Same(Len(s)) /\ Same(Len(t))  BY <1>0, <1>3
<1>5. Len(s) = Len(t)
  <2>1. Len(s) > 0 => Len(s) \in 1 .. Len(s)  BY <1>0
  <2>2. Len(t) > 0 => Len(t) \in 1 .. Len(t)  BY <1>0
  <2>3. Len(s) > 0 => Len(s) <= Len(t)  BY <1>0, <1>4, <2>1
  <2>4. Len(t) > 0 => Len(t) <= Len(s)  BY <1>0, <1>4, <2>2
  <2> QED  BY <1>0, <2>3, <2>4
<1>6. \A i \in 1 .. Len(s) : s[i] = t[i]  BY <1>0, <1>4
<1> QED  BY <1>5, <1>6, SeqEqual

-------------------------------------------------------------------------------
(* The lines of a text.                                                    *)
EndOf(text, starts, i) ==
  IF i < Len(starts) THEN starts[i + 1] - 2 ELSE IF Ends(text) THEN Len(text) - 1 ELSE Len(text)

(* A text has a line from each of its starts.                              *)
LEMMA LinesOf ==
  ASSUME NEW text \in Seq(Symbol), text # <<>>
  PROVE  LET s == LineStarts(text) IN
         /\ s \in Seq(Nat) /\ Increasing(s) /\ Len(s) \in Nat \ {0} /\ s[1] = 1
         /\ \A i \in 1 .. Len(s) : s[i] \in 1 .. Len(text) /\ StartsAt(text, s[i])
         /\ LineSeq(text) = [i \in 1 .. Len(s) |-> SubSeq(text, s[i], EndOf(text, s, i))]
         /\ \A i \in 1 .. Len(s) : EndOf(text, s, i) \in 0 .. Len(text)
         /\ LineSeq(text) \in Seq(Seq(Symbol)) /\ Len(LineSeq(text)) = Len(s)
<1> DEFINE s == LineStarts(text)
<1>1. Lists(s, text)  BY StartsFound
<1> HIDE DEF s
<1>2. Len(text) \in Nat /\ Len(text) > 0  OBVIOUS
<1>3. s \in Seq(Nat) /\ Increasing(s) /\ Len(s) \in Nat  BY <1>1 DEF Lists
<1>4. ASSUME NEW i \in 1 .. Len(s)  PROVE s[i] \in 1 .. Len(text) /\ StartsAt(text, s[i])
  <2>1. s[i] \in Nat  BY <1>3
  <2>2. StartsAt(text, s[i])  BY <1>1, <2>1 DEF Lists
  <2> QED  BY <1>2, <2>1, <2>2 DEF StartsAt
<1>5. PICK k \in 1 .. Len(s) : s[k] = 1  BY <1>1 DEF Lists, StartsAt
<1>6. Len(s) \in Nat \ {0}  BY <1>3, <1>5
<1>7. s[1] = 1
  <2>1. CASE k = 1  BY <1>5, <2>1
  <2>2. CASE k > 1
    <3>1. s[1] < s[k] /\ s[1] \in 1 .. Len(text)  BY <1>3, <1>4, <1>6, <2>2 DEF Increasing
    <3> QED  BY <1>2, <1>5, <3>1
  <2> QED  BY <1>3, <1>5, <2>1, <2>2
<1>8. LineSeq(text) = [i \in 1 .. Len(s) |-> SubSeq(text, s[i], EndOf(text, s, i))]
  <2>1. DOMAIN s = 1 .. Len(s)  BY <1>3
  <2> QED  BY <2>1 DEF LineSeq, EndOf, s
<1>9. ASSUME NEW i \in 1 .. Len(s)  PROVE EndOf(text, s, i) \in 0 .. Len(text)
  <2>1. CASE i < Len(s)
    <3>1. i + 1 \in 1 .. Len(s) /\ i \in 1 .. Len(s)  BY <1>3, <2>1
    <3>2. s[i] < s[i + 1]  BY <1>3, <3>1 DEF Increasing
    <3>3. s[i] \in 1 .. Len(text) /\ s[i + 1] \in 1 .. Len(text)  BY <1>4, <3>1
    <3>4. s[i + 1] - 2 \in 0 .. Len(text)  BY <1>2, <3>2, <3>3
    <3> QED  BY <2>1, <3>4 DEF EndOf
  <2>2. CASE ~(i < Len(s))  BY <1>2, <2>2 DEF EndOf
  <2> QED  BY <2>1, <2>2
<1>10. ASSUME NEW i \in 1 .. Len(s)  PROVE SubSeq(text, s[i], EndOf(text, s, i)) \in Seq(Symbol)
  <2>1. s[i] \in 1 .. Len(text) /\ EndOf(text, s, i) \in 0 .. Len(text)  BY <1>4, <1>9
  <2>2. \A j \in s[i] .. EndOf(text, s, i) : text[j] \in Symbol  BY <1>2, <2>1
  <2> QED  BY <1>2, <2>1, <2>2, SubSeqProperties
<1>11. LineSeq(text) \in Seq(Seq(Symbol)) /\ Len(LineSeq(text)) = Len(s)
  <2>1. LineSeq(text) \in [1 .. Len(s) -> Seq(Symbol)]  BY <1>8, <1>10
  <2> QED  BY <1>3, <2>1
<1> QED  BY <1>3, <1>4, <1>6, <1>7, <1>8, <1>9, <1>11 DEF s

(* The empty text has no line.                                             *)
LEMMA NoLines == LineSeq(<<>>) = <<>>
  BY DEF LineSeq

(* Lines are texts.                                                        *)
LEMMA LinesTyped ==
  ASSUME NEW text \in Seq(Symbol)
  PROVE  LineSeq(text) \in Seq(Seq(Symbol))
  BY LinesOf, NoLines

(* The starts of two texts of which the first ends with a line.            *)
LEMMA StartsJoin ==
  ASSUME NEW a \in Seq(Symbol), NEW b \in Seq(Symbol), Ends(a), b # <<>>
  PROVE  LET s == LineStarts(a)
             t == LineStarts(b)
             u == LineStarts(a \o b)
         IN  /\ Len(u) = Len(s) + Len(t)
             /\ \A i \in 1 .. Len(s) : u[i] = s[i]
             /\ \A i \in 1 .. Len(t) : u[Len(s) + i] = Len(a) + t[i]
<1> DEFINE s == LineStarts(a)
           t == LineStarts(b)
           v == [i \in 1 .. Len(s) + Len(t) |-> IF i <= Len(s) THEN s[i] ELSE Len(a) + t[i - Len(s)]]
           text == a \o b
<1>1. a # <<>> /\ a[Len(a)] = NL  BY DEF Ends, Last
<1>2. Len(a) \in Nat /\ Len(a) > 0 /\ Len(b) \in Nat /\ Len(b) > 0  BY <1>1
<1>3. Lists(s, a) /\ Lists(t, b)  BY <1>1, StartsFound
<1>4. /\ Len(s) \in Nat \ {0} /\ \A i \in 1 .. Len(s) : s[i] \in 1 .. Len(a)
      /\ Len(t) \in Nat \ {0} /\ \A i \in 1 .. Len(t) : t[i] \in 1 .. Len(b)
  BY <1>1, LinesOf
<1>5. /\ text \in Seq(Symbol) /\ Len(text) = Len(a) + Len(b) /\ text # <<>>
      /\ \A i \in 1 .. Len(a) : text[i] = a[i]
      /\ \A i \in 1 .. Len(b) : text[Len(a) + i] = b[i]
  BY <1>2
<1> HIDE DEF s, t, text
<1>6. /\ v \in Seq(Nat) /\ Len(v) = Len(s) + Len(t)
      /\ \A i \in 1 .. Len(s) : v[i] = s[i]
      /\ \A i \in 1 .. Len(t) : v[Len(s) + i] = Len(a) + t[i]
  <2>0. Len(s) + Len(t) \in Nat  BY <1>4
  <2>1. ASSUME NEW i \in 1 .. Len(s) + Len(t)
        PROVE  (IF i <= Len(s) THEN s[i] ELSE Len(a) + t[i - Len(s)]) \in Nat
    <3>1. i <= Len(s) => i \in 1 .. Len(s)  BY <1>4
    <3>2. ~(i <= Len(s)) => i - Len(s) \in 1 .. Len(t)  BY <1>4
    <3> QED  BY <1>2, <1>4, <3>1, <3>2
  <2>2. v \in [1 .. Len(s) + Len(t) -> Nat]  BY <2>1
  <2>3. v \in Seq(Nat) /\ Len(v) = Len(s) + Len(t)
    <3> HIDE DEF v
    <3> QED  BY <2>0, <2>2
  <2>4. ASSUME NEW i \in 1 .. Len(s)  PROVE v[i] = s[i]
    <3>1. i \in 1 .. Len(s) + Len(t) /\ i <= Len(s)  BY <1>4
    <3> QED  BY <3>1
  <2>5. ASSUME NEW i \in 1 .. Len(t)  PROVE v[Len(s) + i] = Len(a) + t[i]
    <3>1. Len(s) + i \in 1 .. Len(s) + Len(t) /\ ~(Len(s) + i <= Len(s)) /\ (Len(s) + i) - Len(s) = i  BY <1>4
    <3> QED  BY <3>1
  <2> QED  BY <2>3, <2>4, <2>5
<1> HIDE DEF v
<1>7. \A i \in 1 .. Len(v) : i \in 1 .. Len(s) \/ \E j \in 1 .. Len(t) : i = Len(s) + j
  <2> SUFFICES ASSUME NEW i \in 1 .. Len(v), i \notin 1 .. Len(s)
               PROVE  \E j \in 1 .. Len(t) : i = Len(s) + j
    OBVIOUS
  <2>1. i - Len(s) \in 1 .. Len(t) /\ i = Len(s) + (i - Len(s))  BY <1>4, <1>6
  <2> QED  BY <2>1
<1>8. Increasing(v)
  <2> SUFFICES ASSUME NEW i \in 1 .. Len(v), NEW j \in 1 .. Len(v), i < j  PROVE v[i] < v[j]
    BY DEF Increasing
  <2>1. CASE j \in 1 .. Len(s)
    <3>1. i \in 1 .. Len(s)  BY <1>4, <1>6, <2>1
    <3> QED  BY <1>3, <1>6, <2>1, <3>1 DEF Lists, Increasing
  <2>2. ASSUME NEW l \in 1 .. Len(t), j = Len(s) + l  PROVE v[i] < v[j]
    <3>1. v[j] = Len(a) + t[l] /\ t[l] \in 1 .. Len(b)  BY <1>4, <1>6, <2>2
    <3>2. CASE i \in 1 .. Len(s)
      <4>1. v[i] \in 1 .. Len(a)  BY <1>4, <1>6, <3>2
      <4> QED  BY <1>2, <3>1, <4>1
    <3>3. ASSUME NEW k \in 1 .. Len(t), i = Len(s) + k  PROVE v[i] < v[j]
      <4>1. k < l  BY <1>4, <2>2, <3>3
      <4>2. t[k] < t[l] /\ t[k] \in 1 .. Len(b)  BY <1>3, <1>4, <4>1 DEF Lists, Increasing
      <4>3. v[i] = Len(a) + t[k]  BY <1>6, <3>3
      <4> QED  BY <1>2, <3>1, <4>2, <4>3
    <3> QED  BY <1>7, <3>2, <3>3
  <2> QED  BY <1>7, <2>1, <2>2
<1>9. ASSUME NEW p \in Nat  PROVE (\E i \in 1 .. Len(v) : v[i] = p) <=> StartsAt(text, p)
  <2>1. (\E i \in 1 .. Len(v) : v[i] = p) <=>
          (\E i \in 1 .. Len(s) : s[i] = p) \/ (\E j \in 1 .. Len(t) : Len(a) + t[j] = p)
    <3>1. \A i \in 1 .. Len(s) : i \in 1 .. Len(v)  BY <1>4, <1>6
    <3>2. \A j \in 1 .. Len(t) : Len(s) + j \in 1 .. Len(v)  BY <1>4, <1>6
    <3>3. ASSUME NEW i \in 1 .. Len(v), v[i] = p
          PROVE  (\E k \in 1 .. Len(s) : s[k] = p) \/ (\E j \in 1 .. Len(t) : Len(a) + t[j] = p)
      BY <1>6, <1>7, <3>3
    <3>4. ASSUME NEW i \in 1 .. Len(s), s[i] = p  PROVE \E k \in 1 .. Len(v) : v[k] = p
      BY <1>6, <3>1, <3>4
    <3>5. ASSUME NEW j \in 1 .. Len(t), Len(a) + t[j] = p  PROVE \E k \in 1 .. Len(v) : v[k] = p
      BY <1>6, <3>2, <3>5
    <3> QED  BY <3>3, <3>4, <3>5
  <2>2. (\E i \in 1 .. Len(s) : s[i] = p) <=> StartsAt(a, p)  BY <1>3 DEF Lists
  <2>3. CASE p <= Len(a)
    <3>1. \A j \in 1 .. Len(t) : Len(a) + t[j] # p
      <4> SUFFICES ASSUME NEW j \in 1 .. Len(t)  PROVE Len(a) + t[j] # p  OBVIOUS
      <4>1. t[j] \in 1 .. Len(b)  BY <1>4
      <4> QED  BY <1>2, <2>3, <4>1
    <3>2. StartsAt(text, p) <=> StartsAt(a, p)
      <4>1. p \in 2 .. Len(text) <=> p \in 2 .. Len(a)  BY <1>2, <1>5, <2>3
      <4>2. p \in 2 .. Len(a) => text[p - 1] = a[p - 1]
        <5> SUFFICES ASSUME p \in 2 .. Len(a)  PROVE text[p - 1] = a[p - 1]  OBVIOUS
        <5>1. p - 1 \in 1 .. Len(a)  BY <1>2
        <5> QED  BY <1>5, <5>1
      <4> QED  BY <4>1, <4>2 DEF StartsAt
    <3> QED  BY <2>1, <2>2, <3>1, <3>2
  <2>4. CASE p > Len(a)
    <3>1. ~StartsAt(a, p)  BY <1>2, <2>4 DEF StartsAt
    <3>2. p - Len(a) \in Nat  BY <1>2, <2>4
    <3>3. (\E j \in 1 .. Len(t) : t[j] = p - Len(a)) <=> StartsAt(b, p - Len(a))  BY <1>3, <3>2 DEF Lists
    <3>4. (\E j \in 1 .. Len(t) : Len(a) + t[j] = p) <=> (\E j \in 1 .. Len(t) : t[j] = p - Len(a))
      <4>1. \A j \in 1 .. Len(t) : Len(a) + t[j] = p <=> t[j] = p - Len(a)
        <5> SUFFICES ASSUME NEW j \in 1 .. Len(t)  PROVE Len(a) + t[j] = p <=> t[j] = p - Len(a)
          OBVIOUS
        <5>1. t[j] \in 1 .. Len(b)  BY <1>4
        <5> QED  BY <1>2, <5>1
      <4> QED  BY <4>1
    <3>5. StartsAt(text, p) <=> StartsAt(b, p - Len(a))
      <4>1. CASE p = Len(a) + 1
        <5>1. p \in 2 .. Len(text) /\ text[p - 1] = NL  BY <1>1, <1>2, <1>5, <4>1
        <5> QED  BY <1>2, <4>1, <5>1 DEF StartsAt
      <4>2. CASE p # Len(a) + 1
        <5>1. p \in 2 .. Len(text) <=> p - Len(a) \in 2 .. Len(b)  BY <1>2, <1>5, <2>4, <4>2
        <5>2. p - Len(a) \in 2 .. Len(b) => text[p - 1] = b[(p - Len(a)) - 1]
          <6> SUFFICES ASSUME p - Len(a) \in 2 .. Len(b)  PROVE text[p - 1] = b[(p - Len(a)) - 1]
            OBVIOUS
          <6>1. (p - Len(a)) - 1 \in 1 .. Len(b) /\ Len(a) + ((p - Len(a)) - 1) = p - 1  BY <1>2
          <6> QED  BY <1>5, <6>1
        <5> QED  BY <1>2, <2>4, <4>2, <5>1, <5>2 DEF StartsAt
      <4> QED  BY <4>1, <4>2
    <3> QED  BY <2>1, <2>2, <3>1, <3>3, <3>4, <3>5
  <2> QED  BY <1>2, <2>3, <2>4
<1>10. LineStarts(text) = v
  <2>1. Lists(v, text)  BY <1>6, <1>8, <1>9 DEF Lists
  <2>2. Lists(LineStarts(text), text)  BY <1>5, StartsFound
  <2> QED  BY <2>1, <2>2, ListedOnce
<1> QED  BY <1>6, <1>10 DEF s, t, text

(* Two sequences that agree on a part of them.                             *)
LEMMA SameSlice ==
  ASSUME NEW S, NEW x, NEW y, NEW m \in Int, NEW n \in Int, NEW k \in Int, NEW l \in Int,
         n - m = l - k, \A i \in m .. n : x[i] \in S /\ x[i] = y[i + (k - m)]
  PROVE  SubSeq(x, m, n) = SubSeq(y, k, l)
<1>1. /\ SubSeq(x, m, n) \in Seq(S) /\ Len(SubSeq(x, m, n)) = IF m <= n THEN n - m + 1 ELSE 0
      /\ \A i \in 1 .. n - m + 1 : SubSeq(x, m, n)[i] = x[m + i - 1]
  BY SubSeqProperties
<1>2. ASSUME NEW i \in k .. l  PROVE y[i] \in S
  <2>1. i + (m - k) \in m .. n /\ (i + (m - k)) + (k - m) = i  OBVIOUS
  <2> QED  BY <2>1
<1>3. /\ SubSeq(y, k, l) \in Seq(S) /\ Len(SubSeq(y, k, l)) = IF k <= l THEN l - k + 1 ELSE 0
      /\ \A i \in 1 .. l - k + 1 : SubSeq(y, k, l)[i] = y[k + i - 1]
  BY <1>2, SubSeqProperties
<1> DEFINE p == SubSeq(x, m, n)
           q == SubSeq(y, k, l)
<1>4. /\ Len(p) = Len(q) /\ n - m + 1 = l - k + 1
      /\ Len(p) = (IF m <= n THEN n - m + 1 ELSE 0)
  <2>1. m <= n <=> k <= l  OBVIOUS
  <2>2. n - m + 1 = l - k + 1  OBVIOUS
  <2> QED  BY <1>1, <1>3, <2>1, <2>2
<1>5. ASSUME NEW i \in 1 .. Len(p)  PROVE p[i] = q[i]
  <2>0. m <= n /\ Len(p) = n - m + 1
    <3> HIDE DEF p, q
    <3> QED  BY <1>4
  <2>1. i \in 1 .. n - m + 1 /\ i \in 1 .. l - k + 1  BY <1>4, <2>0
  <2>2. m + i - 1 \in m .. n /\ (m + i - 1) + (k - m) = k + i - 1  BY <2>1
  <2>3. p[i] = x[m + i - 1] /\ q[i] = y[k + i - 1]  BY <1>1, <1>3, <2>1
  <2> QED  BY <2>2, <2>3
<1>6. Len(p) = Len(q)  BY <1>4
<1>7. p \in Seq(S) /\ q \in Seq(S)  BY <1>1, <1>3
<1> HIDE DEF p, q
<1>8. p = q  BY <1>5, <1>6, <1>7, SeqEqual
<1> QED  BY <1>8 DEF p, q

(* The lines of two texts of which the first ends with a line.             *)
LEMMA LinesJoin ==
  ASSUME NEW a \in Seq(Symbol), NEW b \in Seq(Symbol), Ends(a), b # <<>>
  PROVE  LineSeq(a \o b) = LineSeq(a) \o LineSeq(b)
<1> DEFINE s == LineStarts(a)
           t == LineStarts(b)
           text == a \o b
           u == LineStarts(text)
<1>1. a # <<>> /\ Ends(a)  BY DEF Ends
<1>2. Len(a) \in Nat /\ Len(a) > 0 /\ Len(b) \in Nat /\ Len(b) > 0  BY <1>1
<1>3. /\ text \in Seq(Symbol) /\ Len(text) = Len(a) + Len(b) /\ text # <<>>
      /\ \A i \in 1 .. Len(a) : text[i] = a[i] /\ text[i] \in Symbol
      /\ \A i \in 1 .. Len(b) : text[Len(a) + i] = b[i] /\ text[Len(a) + i] \in Symbol
  BY <1>2
<1>4. /\ Len(u) = Len(s) + Len(t)
      /\ \A i \in 1 .. Len(s) : u[i] = s[i]
      /\ \A i \in 1 .. Len(t) : u[Len(s) + i] = Len(a) + t[i]
  BY StartsJoin
<1>5. /\ Len(s) \in Nat \ {0} /\ \A i \in 1 .. Len(s) : s[i] \in 1 .. Len(a) /\ EndOf(a, s, i) \in 0 .. Len(a)
      /\ LineSeq(a) = [i \in 1 .. Len(s) |-> SubSeq(a, s[i], EndOf(a, s, i))]
      /\ LineSeq(a) \in Seq(Seq(Symbol)) /\ Len(LineSeq(a)) = Len(s)
  BY <1>1, LinesOf
<1>6. /\ Len(t) \in Nat \ {0} /\ t[1] = 1 /\ \A i \in 1 .. Len(t) : t[i] \in 1 .. Len(b) /\ EndOf(b, t, i) \in 0 .. Len(b)
      /\ LineSeq(b) = [i \in 1 .. Len(t) |-> SubSeq(b, t[i], EndOf(b, t, i))]
      /\ LineSeq(b) \in Seq(Seq(Symbol)) /\ Len(LineSeq(b)) = Len(t)
  BY LinesOf
<1>7. /\ LineSeq(text) = [i \in 1 .. Len(u) |-> SubSeq(text, u[i], EndOf(text, u, i))]
      /\ LineSeq(text) \in Seq(Seq(Symbol)) /\ Len(LineSeq(text)) = Len(u)
  BY <1>3, LinesOf
<1>8. Ends(text) <=> Ends(b)
  <2>1. text[Len(text)] = b[Len(b)]  BY <1>2, <1>3
  <2> QED  BY <1>2, <1>3, <2>1 DEF Ends, Last
<1> HIDE DEF s, t, u, text
<1>b. Len(s) \in Nat /\ Len(t) \in Nat /\ Len(t) > 0 /\ Len(u) = Len(s) + Len(t)  BY <1>4, <1>5, <1>6
<1>9. ASSUME NEW i \in 1 .. Len(s)  PROVE LineSeq(text)[i] = LineSeq(a)[i]
  <2>1. i \in 1 .. Len(u) /\ i < Len(u)  BY <1>4, <1>5, <1>6
  <2>2. EndOf(text, u, i) = EndOf(a, s, i)
    <3>1. CASE i < Len(s)
      <4>1. i + 1 \in 1 .. Len(s)  BY <1>5, <3>1
      <4> QED  BY <1>4, <2>1, <3>1, <4>1 DEF EndOf
    <3>2. CASE ~(i < Len(s))
      <4>1. i = Len(s)  BY <1>b, <3>2
      <4>2. u[i + 1] = Len(a) + 1  BY <1>4, <1>6, <4>1
      <4>3. (Len(a) + 1) - 2 = Len(a) - 1  BY <1>2
      <4> QED  BY <1>1, <2>1, <3>2, <4>2, <4>3 DEF EndOf
    <3> QED  BY <3>1, <3>2
  <2>3. s[i] \in 1 .. Len(a) /\ EndOf(a, s, i) \in 0 .. Len(a)  BY <1>5
  <2> DEFINE from == s[i]
             to == EndOf(a, s, i)
  <2>4. from \in Int /\ to \in Int /\ \A j \in from .. to : j \in 1 .. Len(a) /\ j + (from - from) = j
    BY <1>2, <2>3
  <2>5. SubSeq(text, from, to) = SubSeq(a, from, to)
    <3> HIDE DEF from, to
    <3>1. \A j \in from .. to : text[j] \in Symbol /\ text[j] = a[j + (from - from)]  BY <1>3, <2>4
    <3>2. to - from = to - from  OBVIOUS
    <3> QED  BY <2>4, <3>1, <3>2, SameSlice
  <2> QED  BY <1>4, <1>5, <1>7, <2>1, <2>2, <2>5
<1>10. ASSUME NEW i \in 1 .. Len(t)  PROVE LineSeq(text)[Len(s) + i] = LineSeq(b)[i]
  <2>1. Len(s) + i \in 1 .. Len(u) /\ (Len(s) + i < Len(u) <=> i < Len(t))  BY <1>b
  <2>2. EndOf(text, u, Len(s) + i) = Len(a) + EndOf(b, t, i)
    <3>1. CASE i < Len(t)
      <4>1. i + 1 \in 1 .. Len(t) /\ (Len(s) + i) + 1 = Len(s) + (i + 1)  BY <1>5, <1>6, <3>1
      <4>2. u[(Len(s) + i) + 1] = Len(a) + t[i + 1] /\ t[i + 1] \in 1 .. Len(b)  BY <1>4, <1>6, <4>1
      <4>3. (Len(a) + t[i + 1]) - 2 = Len(a) + (t[i + 1] - 2)  BY <1>2, <4>2
      <4> QED  BY <2>1, <3>1, <4>2, <4>3 DEF EndOf
    <3>2. CASE ~(i < Len(t))
      <4>1. (Len(a) + Len(b)) - 1 = Len(a) + (Len(b) - 1)  BY <1>2
      <4> QED  BY <1>3, <1>8, <2>1, <3>2, <4>1 DEF EndOf
    <3> QED  BY <3>1, <3>2
  <2>3. t[i] \in 1 .. Len(b) /\ EndOf(b, t, i) \in 0 .. Len(b)  BY <1>6
  <2> DEFINE from == t[i]
             to == EndOf(b, t, i)
             n == Len(a)
  <2>4. from \in Int /\ to \in Int /\ n \in Int /\ n + from \in Int /\ n + to \in Int
    BY <1>2, <2>3
  <2>5. SubSeq(text, n + from, n + to) = SubSeq(b, from, to)
    <3>1. ASSUME NEW j \in n + from .. n + to
          PROVE  text[j] \in Symbol /\ text[j] = b[j + (from - (n + from))]
      <4>1. j - n \in 1 .. Len(b) /\ n + (j - n) = j /\ j + (from - (n + from)) = j - n  BY <1>2, <2>3
      <4> QED  BY <1>3, <4>1
    <3> HIDE DEF from, to, n
    <3>2. (n + to) - (n + from) = to - from  BY <2>4
    <3> QED  BY <2>4, <3>1, <3>2, SameSlice
  <2>6. LineSeq(text)[Len(s) + i] = SubSeq(text, u[Len(s) + i], EndOf(text, u, Len(s) + i))
    BY <1>7, <2>1
  <2>7. u[Len(s) + i] = Len(a) + t[i]  BY <1>4
  <2>8. LineSeq(b)[i] = SubSeq(b, t[i], EndOf(b, t, i))  BY <1>6
  <2> QED  BY <2>2, <2>5, <2>6, <2>7, <2>8
<1> DEFINE la == LineSeq(a)
           lb == LineSeq(b)
           lt == LineSeq(text)
<1>11. /\ la \in Seq(Seq(Symbol)) /\ lb \in Seq(Seq(Symbol)) /\ lt \in Seq(Seq(Symbol))
       /\ Len(lt) = Len(la) + Len(lb)
  BY <1>4, <1>5, <1>6, <1>7
<1>12. /\ \A i \in 1 .. Len(la) : lt[i] = la[i]
       /\ \A i \in 1 .. Len(lb) : lt[Len(la) + i] = lb[i]
  BY <1>5, <1>6, <1>9, <1>10
<1> HIDE DEF la, lb, lt
<1>13. la \o lb \in Seq(Seq(Symbol)) /\ Len(la \o lb) = Len(lt)  BY <1>11, ConcatProperties
<1>14. ASSUME NEW i \in 1 .. Len(lt)  PROVE lt[i] = (la \o lb)[i]
  <2>0. Len(la) \in Nat /\ Len(lb) \in Nat  BY <1>11
  <2>1. CASE i <= Len(la)
    <3>1. i \in 1 .. Len(la)  BY <2>0, <2>1
    <3> QED  BY <1>11, <1>12, <2>0, <2>1, <3>1, ConcatProperties
  <2>2. CASE ~(i <= Len(la))
    <3>1. i - Len(la) \in 1 .. Len(lb) /\ Len(la) + (i - Len(la)) = i  BY <1>11, <2>0, <2>2
    <3>2. lt[i] = lb[i - Len(la)]  BY <1>12, <3>1
    <3> QED  BY <1>11, <2>0, <2>2, <3>2, ConcatProperties
  <2> QED  BY <2>1, <2>2
<1>15. lt = la \o lb  BY <1>11, <1>13, <1>14, SeqEqual
<1> QED  BY <1>15 DEF la, lb, lt, text

(* Texts joined where a line ends, or one of them empty.                   *)
LEMMA LinesOfJoined ==
  ASSUME NEW a \in Seq(Symbol), NEW b \in Seq(Symbol), a = <<>> \/ Ends(a) \/ b = <<>>
  PROVE  LineSeq(a \o b) = LineSeq(a) \o LineSeq(b)
<1>0. LineSeq(a) \in Seq(Seq(Symbol)) /\ LineSeq(b) \in Seq(Seq(Symbol))  BY LinesTyped
<1>1. CASE a = <<>>
  <2>1. a \o b = b /\ LineSeq(a) = <<>>  BY <1>1, NoLines, ConcatEmptySeq
  <2>2. <<>> \o LineSeq(b) = LineSeq(b)  BY <1>0, ConcatEmptySeq
  <2> QED  BY <2>1, <2>2
<1>2. CASE b = <<>>
  <2>1. a \o b = a /\ LineSeq(b) = <<>>  BY <1>2, NoLines, ConcatEmptySeq
  <2>2. LineSeq(a) \o <<>> = LineSeq(a)  BY <1>0, ConcatEmptySeq
  <2> QED  BY <2>1, <2>2
<1>3. CASE Ends(a) /\ b # <<>>  BY <1>3, LinesJoin
<1> QED  BY <1>1, <1>2, <1>3

(* The parts that two sequences are joined from.                           *)
LEMMA ConcatParts ==
  ASSUME NEW S, NEW x \in Seq(S), NEW y \in Seq(S)
  PROVE  /\ SubSeq(x \o y, 1, Len(x)) = x
         /\ SubSeq(x \o y, Len(x) + 1, Len(x \o y)) = y
<1> DEFINE z == x \o y
<1>1. /\ z \in Seq(S) /\ Len(z) = Len(x) + Len(y)
      /\ \A i \in 1 .. Len(x) + Len(y) : z[i] = IF i <= Len(x) THEN x[i] ELSE y[i - Len(x)]
  BY ConcatProperties
<1>2. Len(x) \in Nat /\ Len(y) \in Nat  OBVIOUS
<1> HIDE DEF z
<1>3. SubSeq(z, 1, Len(x)) = SubSeq(x, 1, Len(x))
  <2>1. ASSUME NEW i \in 1 .. Len(x)  PROVE z[i] \in S /\ z[i] = x[i + (1 - 1)]
    <3>1. i \in 1 .. Len(x) + Len(y) /\ i <= Len(x) /\ i + (1 - 1) = i /\ x[i] \in S  BY <1>2
    <3> QED  BY <1>1, <3>1
  <2>2. 1 \in Int /\ Len(x) \in Int /\ Len(x) - 1 = Len(x) - 1  BY <1>2
  <2> QED  BY <2>1, <2>2, SameSlice
<1>4. SubSeq(z, Len(x) + 1, Len(z)) = SubSeq(y, 1, Len(y))
  <2>1. ASSUME NEW i \in Len(x) + 1 .. Len(z)  PROVE z[i] \in S /\ z[i] = y[i + (1 - (Len(x) + 1))]
    <3>1. i \in 1 .. Len(x) + Len(y) /\ ~(i <= Len(x)) /\ i + (1 - (Len(x) + 1)) = i - Len(x)
      BY <1>1, <1>2
    <3>2. i - Len(x) \in 1 .. Len(y)  BY <1>1, <1>2
    <3>3. y[i - Len(x)] \in S  BY <3>2
    <3> QED  BY <1>1, <3>1, <3>3
  <2>2. 1 \in Int /\ Len(y) \in Int /\ Len(x) + 1 \in Int /\ Len(z) \in Int /\ Len(z) - (Len(x) + 1) = Len(y) - 1
    BY <1>1, <1>2
  <2> QED  BY <2>1, <2>2, SameSlice
<1>5. SubSeq(x, 1, Len(x)) = x /\ SubSeq(y, 1, Len(y)) = y  BY SubSeqFull
<1> QED  BY <1>3, <1>4, <1>5 DEF z

(* A text has the lines it has with the end of the last one.               *)
LEMMA LinesClosed ==
  ASSUME NEW text \in Seq(Symbol), text # <<>>
  PROVE  Closed(text) \in Seq(Symbol) /\ Ends(Closed(text)) /\ LineSeq(Closed(text)) = LineSeq(text)
<1>1. CASE Ends(text)  BY <1>1 DEF Closed
<1>2. CASE ~Ends(text)
  <2> DEFINE new == Append(text, NL)
             s == LineStarts(text)
  <2>0. Len(text) \in Nat /\ Len(text) > 0  OBVIOUS
  <2>1. Closed(text) = new  BY <1>2 DEF Closed
  <2>2. /\ new \in Seq(Symbol) /\ Len(new) = Len(text) + 1 /\ new # <<>>
        /\ \A i \in 1 .. Len(text) : new[i] = text[i]
        /\ new[Len(text) + 1] = NL
    BY WorkAssumption, AppendProperties
  <2> HIDE DEF new, s
  <2>3. Ends(new)  BY <2>2 DEF Ends, Last
  <2>4. text[Len(text)] # NL  BY <1>2 DEF Ends, Last
  <2>5. ASSUME NEW p \in Nat  PROVE StartsAt(new, p) <=> StartsAt(text, p)
    <3>1. CASE p \in 2 .. Len(text)
      <4>1. p - 1 \in 1 .. Len(text) /\ p \in 2 .. Len(new)  BY <2>0, <2>2, <3>1
      <4> QED  BY <2>2, <3>1, <4>1 DEF StartsAt
    <3>2. CASE p = Len(text) + 1
      <4>1. p - 1 = Len(text) /\ p - 1 \in 1 .. Len(text) /\ p # 1 /\ p \notin 2 .. Len(text)  BY <2>0, <3>2
      <4> QED  BY <2>2, <2>4, <4>1 DEF StartsAt
    <3>3. CASE p \notin 2 .. Len(text) /\ p # Len(text) + 1
      <4>1. p \notin 2 .. Len(new)  BY <2>0, <2>2, <3>3
      <4> QED  BY <3>3, <4>1 DEF StartsAt
    <3> QED  BY <3>1, <3>2, <3>3
  <2>6. LineStarts(new) = s
    <3>1. Lists(s, text)  BY StartsFound DEF s
    <3>2. Lists(s, new)  BY <2>5, <3>1 DEF Lists
    <3>3. Lists(LineStarts(new), new)  BY <2>2, StartsFound
    <3> QED  BY <3>2, <3>3, ListedOnce
  <2>7. /\ Len(s) \in Nat \ {0}
        /\ \A i \in 1 .. Len(s) : s[i] \in 1 .. Len(text) /\ EndOf(text, s, i) \in 0 .. Len(text)
        /\ LineSeq(text) = [i \in 1 .. Len(s) |-> SubSeq(text, s[i], EndOf(text, s, i))]
    BY LinesOf DEF s
  <2>8. LineSeq(new) = [i \in 1 .. Len(s) |-> SubSeq(new, s[i], EndOf(new, s, i))]
    BY <2>2, <2>6, LinesOf
  <2>9. ASSUME NEW i \in 1 .. Len(s)
        PROVE  SubSeq(new, s[i], EndOf(new, s, i)) = SubSeq(text, s[i], EndOf(text, s, i))
    <3>1. EndOf(new, s, i) = EndOf(text, s, i)
      <4>1. Len(new) - 1 = Len(text)  BY <2>0, <2>2
      <4> QED  BY <1>2, <2>3, <4>1 DEF EndOf
    <3> DEFINE from == s[i]
               to == EndOf(text, s, i)
    <3>2. from \in 1 .. Len(text) /\ to \in 0 .. Len(text)  BY <2>7
    <3> HIDE DEF from, to
    <3>3. ASSUME NEW j \in from .. to  PROVE new[j] \in Symbol /\ new[j] = text[j + (from - from)]
      <4>1. j \in 1 .. Len(text) /\ j + (from - from) = j  BY <2>0, <3>2
      <4>2. text[j] \in Symbol  BY <4>1
      <4> QED  BY <2>2, <4>1, <4>2
    <3>4. from \in Int /\ to \in Int /\ to - from = to - from  BY <3>2
    <3>5. SubSeq(new, from, to) = SubSeq(text, from, to)  BY <3>3, <3>4, SameSlice
    <3> QED  BY <3>1, <3>5 DEF from, to
  <2> QED  BY <2>1, <2>2, <2>3, <2>7, <2>8, <2>9
<1> QED  BY <1>1, <1>2

(* A text cut where a line starts.                                         *)
LEMMA LinesCut ==
  ASSUME NEW text \in Seq(Symbol), text # <<>>, NEW k \in 1 .. Len(LineStarts(text))
  PROVE  LET at == LineStarts(text)[k]
             a == SubSeq(text, 1, at - 1)
             b == SubSeq(text, at, Len(text))
             lines == LineSeq(text)
         IN  /\ a \in Seq(Symbol) /\ b \in Seq(Symbol) /\ b # <<>>
             /\ a = <<>> \/ Ends(a)
             /\ LineSeq(a) = SubSeq(lines, 1, k - 1) /\ LineSeq(b) = SubSeq(lines, k, Len(lines))
<1> DEFINE s == LineStarts(text)
           at == s[k]
           a == SubSeq(text, 1, at - 1)
           b == SubSeq(text, at, Len(text))
           lines == LineSeq(text)
<1>0. Len(text) \in Nat /\ Len(text) > 0  OBVIOUS
<1>1. /\ s \in Seq(Nat) /\ Increasing(s) /\ Len(s) \in Nat \ {0} /\ s[1] = 1
      /\ \A i \in 1 .. Len(s) : s[i] \in 1 .. Len(text) /\ StartsAt(text, s[i])
      /\ lines \in Seq(Seq(Symbol)) /\ Len(lines) = Len(s)
  BY LinesOf
<1>k. k \in 1 .. Len(s)  OBVIOUS
<1> HIDE DEF s
<1>2. at \in 1 .. Len(text)  BY <1>1, <1>k
<1>3. a \o b = text
  <2>1. 1 \in 1 .. Len(text) + 1 /\ at - 1 \in 0 .. Len(text) /\ Len(text) \in at - 1 .. Len(text) /\ (at - 1) + 1 = at
        /\ 1 - 1 = 0
    BY <1>0, <1>2
  <2>2. SubSeq(text, 1, at - 1) \o SubSeq(text, (at - 1) + 1, Len(text)) = SubSeq(text, 1, Len(text))
    <3> HIDE DEF at, a, b
    <3> QED  BY <2>1, ConcatAdjacentSubSeq
  <2>3. SubSeq(text, 1, Len(text)) = text  BY SubSeqFull
  <2> QED  BY <2>1, <2>2, <2>3
<1>4. /\ a \in Seq(Symbol) /\ Len(a) = at - 1
      /\ \A i \in 1 .. at - 1 : a[i] = text[i]
  <2>1. \A i \in 1 .. at - 1 : text[i] \in Symbol  BY <1>0, <1>2
  <2>2. at - 1 \in Int /\ (at - 1) - 1 + 1 = at - 1  BY <1>2
  <2>3. /\ a \in Seq(Symbol) /\ Len(a) = IF 1 <= at - 1 THEN (at - 1) - 1 + 1 ELSE 0
        /\ \A i \in 1 .. (at - 1) - 1 + 1 : a[i] = text[1 + i - 1]
    BY <2>1, <2>2, SubSeqProperties
  <2>4. \A i \in 1 .. at - 1 : 1 + i - 1 = i  BY <1>2
  <2> HIDE DEF a
  <2> QED  BY <1>2, <2>2, <2>3, <2>4
<1>5. b \in Seq(Symbol) /\ b # <<>>
  <2>1. \A i \in at .. Len(text) : text[i] \in Symbol  BY <1>0, <1>2
  <2>2. b \in Seq(Symbol) /\ Len(b) = IF at <= Len(text) THEN Len(text) - at + 1 ELSE 0
    BY <1>0, <1>2, <2>1, SubSeqProperties
  <2> HIDE DEF b
  <2> QED  BY <1>0, <1>2, <2>2
<1> HIDE DEF a, b, at, lines
<1>6. (a = <<>> \/ Ends(a)) /\ Len(LineSeq(a)) = k - 1
  <2>1. CASE k = 1
    <3>1. at = 1 /\ Len(a) = 0  BY <1>1, <1>4, <2>1 DEF at
    <3>2. a = <<>>  BY <1>4, <3>1
    <3> QED  BY <2>1, <3>2, NoLines
  <2>2. CASE k # 1
    <3>1. at > 1
      <4>1. 1 \in 1 .. Len(s) /\ 1 < k  BY <1>1, <1>k, <2>2
      <4>2. s[1] < s[k]  BY <1>1, <1>k, <4>1 DEF Increasing
      <4> QED  BY <1>1, <4>2 DEF at
    <3>2. a # <<>> /\ Len(a) > 0  BY <1>2, <1>4, <3>1
    <3>3. StartsAt(text, at)  BY <1>1, <1>k DEF at
    <3>4. text[at - 1] = NL /\ at - 1 \in 1 .. at - 1  BY <1>2, <3>1, <3>3 DEF StartsAt
    <3>5. Ends(a)  BY <1>4, <3>2, <3>4 DEF Ends, Last
    <3> DEFINE sa == LineStarts(a)
               sb == LineStarts(b)
    <3>6. /\ Len(s) = Len(sa) + Len(sb)
          /\ \A i \in 1 .. Len(sb) : s[Len(sa) + i] = Len(a) + sb[i]
      BY <1>3, <1>4, <1>5, <3>5, StartsJoin DEF s
    <3>7. Len(sb) \in Nat \ {0} /\ sb[1] = 1  BY <1>5, LinesOf
    <3>8. Len(sa) \in Nat \ {0} /\ Len(LineSeq(a)) = Len(sa)  BY <1>4, <3>2, LinesOf
    <3> HIDE DEF sa, sb
    <3>9. 1 \in 1 .. Len(sb) /\ Len(sa) + 1 \in 1 .. Len(s)  BY <3>6, <3>7, <3>8
    <3>10. s[Len(sa) + 1] = s[k]
      <4>1. s[Len(sa) + 1] = Len(a) + 1  BY <3>6, <3>7, <3>9
      <4> QED  BY <1>2, <1>4, <4>1 DEF at
    <3>11. Len(sa) + 1 = k
      <4>1. \A i, j \in 1 .. Len(s) : i < j => s[i] < s[j]  BY <1>1 DEF Increasing
      <4>2. \A i \in 1 .. Len(s) : s[i] \in Nat  BY <1>1
      <4>3. ~(Len(sa) + 1 < k) /\ ~(k < Len(sa) + 1)  BY <1>k, <3>9, <3>10, <4>1, <4>2
      <4> QED  BY <1>k, <3>8, <4>3
    <3> QED  BY <3>5, <3>8, <3>11
  <2> QED  BY <2>1, <2>2
<1>7. lines = LineSeq(a) \o LineSeq(b)  BY <1>3, <1>4, <1>5, <1>6, LinesOfJoined DEF lines
<1>8. LineSeq(a) \in Seq(Seq(Symbol)) /\ LineSeq(b) \in Seq(Seq(Symbol))  BY <1>4, <1>5, LinesTyped
<1>9. (k - 1) + 1 = k  BY <1>k, <1>1
<1>10. LineSeq(a) = SubSeq(lines, 1, k - 1) /\ LineSeq(b) = SubSeq(lines, k, Len(lines))
  BY <1>6, <1>7, <1>8, <1>9, ConcatParts
<1> QED  BY <1>4, <1>5, <1>6, <1>10 DEF s, at, a, b, lines

(* replaceLineRange replaces the lines it is given, and no other.          *)
LEMMA LinesReplaced ==
  ASSUME NEW text \in Seq(Symbol), NEW replacement \in Seq(Symbol), NEW first \in Nat, NEW last \in Nat,
         ~ReplaceLineRange(text, first, last, replacement).refused
  PROVE  LET new == ReplaceLineRange(text, first, last, replacement).text
             lines == LineSeq(text)
             n == Len(lines)
         IN  /\ new \in Seq(Symbol) /\ 1 <= first /\ first <= last
             /\ \/ first = n + 1 /\ LineSeq(new) = lines \o LineSeq(replacement)
                \/ /\ last <= n
                   /\ LineSeq(new) = (SubSeq(lines, 1, first - 1) \o LineSeq(replacement))
                                       \o SubSeq(lines, last + 1, n)
<1> DEFINE result == ReplaceLineRange(text, first, last, replacement)
           new == result.text
           lines == LineSeq(text)
           n == Len(lines)
           s == LineStarts(text)
           from == s[first]
           to == IF last < Len(s) THEN s[last + 1] ELSE Len(text) + 1
           put == IF replacement # <<>> /\ (to <= Len(text) \/ Ends(text)) THEN Closed(replacement) ELSE replacement
           head == SubSeq(text, 1, from - 1)
           tail == SubSeq(text, to, Len(text))
           more == IF replacement = <<>> THEN text
                   ELSE IF Ends(text) THEN text \o Closed(replacement)
                   ELSE text \o <<NL>> \o replacement
<1>1. result = IF first = 0 \/ last < first \/ text = <<>> THEN Refused
               ELSE IF first = Len(s) + 1 THEN Text(more)
               ELSE IF last > Len(s) THEN Refused
               ELSE Text(head \o put \o tail)
  BY DEF ReplaceLineRange
<1>2. ~result.refused  OBVIOUS
<1> HIDE DEF result
<1>3. first >= 1 /\ last >= first /\ text # <<>>
  <2>1. ~(first = 0 \/ last < first \/ text = <<>>)  BY <1>1, <1>2 DEF Refused
  <2> QED  BY <2>1
<1>4. /\ n = Len(s) /\ n \in Nat \ {0} /\ lines \in Seq(Seq(Symbol))
      /\ \A i \in 1 .. n : s[i] \in 1 .. Len(text)
  BY <1>3, LinesOf
<1>5. Len(text) \in Nat /\ Len(text) > 0  BY <1>3
<1>6. LineSeq(replacement) \in Seq(Seq(Symbol))  BY LinesTyped
<1>7. CASE first = Len(s) + 1
  <2>1. new = more  BY <1>1, <1>3, <1>7 DEF Text
  <2>2. new \in Seq(Symbol) /\ LineSeq(new) = lines \o LineSeq(replacement)
    <3>1. CASE replacement = <<>>
      <4>1. LineSeq(replacement) = <<>> /\ new = text  BY <2>1, <3>1, NoLines
      <4>2. lines \o <<>> = lines  BY <1>4, ConcatEmptySeq
      <4> QED  BY <4>1, <4>2
    <3>2. CASE replacement # <<>> /\ Ends(text)
      <4>1. new = text \o Closed(replacement)  BY <2>1, <3>2
      <4>2. Closed(replacement) \in Seq(Symbol) /\ LineSeq(Closed(replacement)) = LineSeq(replacement)
        BY <3>2, LinesClosed
      <4>3. LineSeq(text \o Closed(replacement)) = lines \o LineSeq(Closed(replacement))
        BY <3>2, <4>2, LinesOfJoined
      <4>4. text \o Closed(replacement) \in Seq(Symbol)  BY <4>2, ConcatProperties
      <4> QED  BY <4>1, <4>2, <4>3, <4>4
    <3>3. CASE replacement # <<>> /\ ~Ends(text)
      <4> DEFINE closed == text \o <<NL>>
      <4>1. new = closed \o replacement  BY <2>1, <3>3
      <4>2. closed = Closed(text)
        <5>1. Append(text, NL) = text \o <<NL>>  BY WorkAssumption, AppendIsConcat
        <5> QED  BY <3>3, <5>1 DEF Closed
      <4>3. closed \in Seq(Symbol) /\ Ends(closed) /\ LineSeq(closed) = lines  BY <1>3, <4>2, LinesClosed
      <4> HIDE DEF closed
      <4>4. LineSeq(closed \o replacement) = LineSeq(closed) \o LineSeq(replacement)
        BY <4>3, LinesOfJoined
      <4>5. closed \o replacement \in Seq(Symbol)  BY <4>3, ConcatProperties
      <4> QED  BY <4>1, <4>3, <4>4, <4>5
    <3> QED  BY <3>1, <3>2, <3>3
  <2> QED  BY <1>3, <1>4, <1>7, <2>2 DEF result
<1>8. CASE first # Len(s) + 1
  <2>1. last <= Len(s) /\ new = head \o put \o tail
    <3>1. ~(last > Len(s))  BY <1>1, <1>2, <1>3, <1>8 DEF Refused
    <3>2. result = Text(head \o put \o tail)  BY <1>1, <1>3, <1>8, <3>1
    <3>3. last <= Len(s)  BY <1>4, <3>1
    <3> QED  BY <3>2, <3>3 DEF Text
  <2>2. first \in 1 .. n /\ last \in 1 .. n /\ first \in 1 .. Len(s)  BY <1>3, <1>4, <2>1
  <2>3. head \in Seq(Symbol) /\ (head = <<>> \/ Ends(head)) /\ LineSeq(head) = SubSeq(lines, 1, first - 1)
    BY <1>3, <2>2, LinesCut
  <2>4. tail \in Seq(Symbol) /\ LineSeq(tail) = SubSeq(lines, last + 1, n) /\ (tail # <<>> => to <= Len(text))
    <3>1. CASE last < Len(s)
      <4>1. last + 1 \in 1 .. Len(s) /\ last + 1 \in 1 .. n  BY <1>4, <2>2, <3>1
      <4>2. to = s[last + 1]  BY <3>1
      <4>3. /\ SubSeq(text, s[last + 1], Len(text)) \in Seq(Symbol)
            /\ LineSeq(SubSeq(text, s[last + 1], Len(text))) = SubSeq(lines, last + 1, n)
        BY <1>3, <4>1, LinesCut
      <4>4. s[last + 1] <= Len(text)
        <5>1. s[last + 1] \in 1 .. Len(text)  BY <1>4, <4>1
        <5> QED  BY <1>5, <5>1
      <4> QED  BY <4>2, <4>3, <4>4
    <3>2. CASE ~(last < Len(s))
      <4>1. to = Len(text) + 1  BY <3>2
      <4>2. tail = <<>>
        <5>1. to \in Int /\ Len(text) \in Int /\ Len(text) < to  BY <1>5, <4>1
        <5> HIDE DEF to
        <5> QED  BY <5>1, SubSeqEmpty
      <4>3. SubSeq(lines, last + 1, n) = <<>>
        <5>1. last + 1 \in Int /\ n \in Int /\ n < last + 1  BY <1>4, <2>2, <3>2
        <5> HIDE DEF n, lines
        <5> QED  BY <5>1, SubSeqEmpty
      <4>4. <<>> \in Seq(Symbol)  OBVIOUS
      <4> QED  BY <4>2, <4>3, <4>4, NoLines
    <3> QED  BY <3>1, <3>2
  <2> HIDE DEF to, head, tail
  <2>5. put \in Seq(Symbol) /\ LineSeq(put) = LineSeq(replacement) /\ (put = <<>> \/ Ends(put) \/ tail = <<>>)
    <3>1. CASE replacement # <<>> /\ (to <= Len(text) \/ Ends(text))
      <4>1. put = Closed(replacement)  BY <3>1
      <4> QED  BY <3>1, <4>1, LinesClosed
    <3>2. CASE ~(replacement # <<>> /\ (to <= Len(text) \/ Ends(text)))
      <4>1. put = replacement  BY <3>2
      <4>2. put = <<>> \/ tail = <<>>  BY <2>4, <3>2, <4>1
      <4> QED  BY <4>1, <4>2
    <3> QED  BY <3>1, <3>2
  <2> HIDE DEF put
  <2>6. /\ put \o tail \in Seq(Symbol) /\ LineSeq(put \o tail) = LineSeq(put) \o LineSeq(tail)
    <3>1. put \o tail \in Seq(Symbol)  BY <2>4, <2>5, ConcatProperties
    <3>2. LineSeq(put \o tail) = LineSeq(put) \o LineSeq(tail)  BY <2>4, <2>5, LinesOfJoined
    <3> QED  BY <3>1, <3>2
  <2>7. (head \o put) \o tail = head \o (put \o tail)
    <3> DEFINE S == Symbol
    <3>1. head \in Seq(S) /\ put \in Seq(S) /\ tail \in Seq(S)  BY <2>3, <2>4, <2>5
    <3> HIDE DEF S
    <3> QED  BY <3>1, ConcatAssociative
  <2>8. head \o (put \o tail) \in Seq(Symbol)  BY <2>3, <2>6, ConcatProperties
  <2>9. LineSeq(head \o (put \o tail)) = LineSeq(head) \o (LineSeq(put) \o LineSeq(tail))
    <3>1. LineSeq(head \o (put \o tail)) = LineSeq(head) \o LineSeq(put \o tail)
      BY <2>3, <2>6, LinesOfJoined
    <3> QED  BY <2>6, <3>1
  <2>10. LineSeq(head) \o (LineSeq(put) \o LineSeq(tail)) = (LineSeq(head) \o LineSeq(put)) \o LineSeq(tail)
    <3>1. LineSeq(head) \in Seq(Seq(Symbol)) /\ LineSeq(put) \in Seq(Seq(Symbol)) /\ LineSeq(tail) \in Seq(Seq(Symbol))
      BY <2>3, <2>4, <2>5, LinesTyped
    <3> DEFINE lh == LineSeq(head)
               lp == LineSeq(put)
               lt == LineSeq(tail)
               line == Seq(Symbol)
    <3>2. lh \in Seq(line) /\ lp \in Seq(line) /\ lt \in Seq(line)  BY <3>1
    <3> HIDE DEF lh, lp, lt, line
    <3>3. (lh \o lp) \o lt = lh \o (lp \o lt)  BY <3>2, ConcatAssociative
    <3> QED  BY <3>3 DEF lh, lp, lt
  <2>11. new \in Seq(Symbol)  BY <2>1, <2>7, <2>8
  <2>12. LineSeq(new) = (SubSeq(lines, 1, first - 1) \o LineSeq(replacement)) \o SubSeq(lines, last + 1, n)
    BY <2>1, <2>3, <2>4, <2>5, <2>7, <2>9, <2>10
  <2> QED  BY <1>3, <1>4, <2>1, <2>11, <2>12 DEF result
<1> QED  BY <1>7, <1>8

-------------------------------------------------------------------------------
(* The loop of replaceOccurrence, and that what it finds is in the text.   *)
FoundAt(text, find, p) ==
  p + Len(find) <= Len(text) + 1 /\ SubSeq(text, p, p + Len(find) - 1) = find

Offset(before, find) == IF before = <<>> THEN 1 ELSE Last(before) + Len(find)

SearchOf(found, text, find) ==
  found = [p \in 0 .. Len(text) |->
             IF p = 0 THEN <<>>
             ELSE IF Offset(found[p - 1], find) <= p /\ FoundAt(text, find, p)
                  THEN Append(found[p - 1], p) ELSE found[p - 1]]

(* Matches is what its loop ends with.                                     *)
LEMMA SearchHasRun ==
  ASSUME NEW text \in Seq(Symbol), NEW find \in Seq(Symbol)
  PROVE  \E found : SearchOf(found, text, find) /\ Matches(text, find) = found[Len(text)]
<1>1. Len(text) \in Nat  OBVIOUS
<1> DEFINE step == [z \in (1 .. Len(text)) \X Seq(Nat) |->
                      IF Offset(z[2], find) <= z[1] /\ FoundAt(text, find, z[1]) THEN Append(z[2], z[1]) ELSE z[2]]
<1>2. step \in [(1 .. Len(text)) \X Seq(Nat) -> Seq(Nat)]
  <2>1. ASSUME NEW z \in (1 .. Len(text)) \X Seq(Nat)
        PROVE  (IF Offset(z[2], find) <= z[1] /\ FoundAt(text, find, z[1]) THEN Append(z[2], z[1]) ELSE z[2]) \in Seq(Nat)
    <3>1. z[1] \in Nat /\ z[2] \in Seq(Nat)  OBVIOUS
    <3>2. Append(z[2], z[1]) \in Seq(Nat)  BY <3>1, AppendProperties
    <3> QED  BY <3>1, <3>2
  <2> QED  BY <2>1
<1>3. <<>> \in Seq(Nat)  OBVIOUS
<1> HIDE DEF step
<1>0. PICK g : Loops(g, Len(text), Seq(Nat), <<>>, step)
  BY <1>1, <1>2, <1>3, LoopExists
<1>4. /\ g \in [0 .. Len(text) -> Seq(Nat)] /\ g[0] = <<>>
      /\ \A p \in 1 .. Len(text) : g[p] = step[<<p, g[p - 1]>>]
  BY <1>0 DEF Loops
<1>5. SearchOf(g, text, find)
  <2>1. ASSUME NEW p \in 0 .. Len(text)
        PROVE  g[p] = IF p = 0 THEN <<>>
                      ELSE IF Offset(g[p - 1], find) <= p /\ FoundAt(text, find, p)
                           THEN Append(g[p - 1], p) ELSE g[p - 1]
    <3>1. CASE p = 0  BY <1>4, <3>1
    <3>2. CASE p # 0
      <4>1. p \in 1 .. Len(text) /\ p - 1 \in 0 .. Len(text)  BY <1>1, <3>2
      <4>2. <<p, g[p - 1]>> \in (1 .. Len(text)) \X Seq(Nat)  BY <1>4, <4>1
      <4> QED  BY <1>4, <3>2, <4>1, <4>2 DEF step
    <3> QED  BY <3>1, <3>2
  <2> QED  BY <1>4, <2>1 DEF SearchOf
<1> DEFINE found == CHOOSE h : SearchOf(h, text, find)
<1>6. SearchOf(found, text, find)  BY <1>5
<1>7. Matches(text, find) = found[Len(text)]  BY DEF Matches, SearchOf, Offset, FoundAt
<1> QED  BY <1>6, <1>7

(* What is found is in the text (strings.Index).                           *)
LEMMA FoundWithin ==
  ASSUME NEW text \in Seq(Symbol), NEW find \in Seq(Symbol)
  PROVE  /\ Matches(text, find) \in Seq(Nat)
         /\ \A i \in 1 .. Len(Matches(text, find)) :
              /\ Matches(text, find)[i] \in 1 .. Len(text)
              /\ Matches(text, find)[i] + Len(find) <= Len(text) + 1
<1>1. PICK g : SearchOf(g, text, find) /\ Matches(text, find) = g[Len(text)]  BY SearchHasRun
<1>2. Len(text) \in Nat /\ Len(find) \in Nat  OBVIOUS
<1> DEFINE Inside(s) == /\ s \in Seq(Nat)
                        /\ \A i \in 1 .. Len(s) : s[i] \in 1 .. Len(text) /\ s[i] + Len(find) <= Len(text) + 1
           S == {p \in Nat : p <= Len(text) => Inside(g[p])}
<1>3. 0 \in S
  <2>1. g[0] = <<>>  BY <1>1, <1>2 DEF SearchOf
  <2>2. <<>> \in Seq(Nat) /\ Len(<<>>) = 0  OBVIOUS
  <2>3. Inside(<<>>)  BY <2>2
  <2> HIDE DEF Inside
  <2> QED  BY <2>1, <2>3
<1>4. ASSUME NEW p \in Nat, p \in S  PROVE p + 1 \in S
  <2> SUFFICES ASSUME p + 1 <= Len(text)  PROVE Inside(g[p + 1])
    OBVIOUS
  <2>1. Inside(g[p])
    <3>1. p <= Len(text)  BY <1>2
    <3> HIDE DEF Inside
    <3> QED  BY <1>4, <3>1
  <2>2. g[p + 1] = IF Offset(g[p], find) <= p + 1 /\ FoundAt(text, find, p + 1) THEN Append(g[p], p + 1) ELSE g[p]
    <3>1. p + 1 \in 0 .. Len(text) /\ p + 1 # 0 /\ (p + 1) - 1 = p  BY <1>2
    <3> QED  BY <1>1, <3>1 DEF SearchOf
  <2>3. CASE g[p + 1] = g[p]
    <3> HIDE DEF Inside
    <3> QED  BY <2>1, <2>3
  <2>4. CASE FoundAt(text, find, p + 1) /\ g[p + 1] = Append(g[p], p + 1)
    <3> DEFINE old == g[p]
               new == g[p + 1]
    <3>1. old \in Seq(Nat) /\ Len(old) \in Nat
          /\ \A i \in 1 .. Len(old) : old[i] \in 1 .. Len(text) /\ old[i] + Len(find) <= Len(text) + 1
      BY <2>1
    <3>2. new = Append(old, p + 1)  BY <2>4
    <3> HIDE DEF old, new
    <3>3. /\ new \in Seq(Nat) /\ Len(new) = Len(old) + 1
          /\ new[Len(old) + 1] = p + 1 /\ \A i \in 1 .. Len(old) : new[i] = old[i]
      BY <3>1, <3>2, AppendProperties
    <3>4. p + 1 \in 1 .. Len(text) /\ (p + 1) + Len(find) <= Len(text) + 1  BY <1>2, <2>4 DEF FoundAt
    <3>5. ASSUME NEW i \in 1 .. Len(new)
          PROVE  new[i] \in 1 .. Len(text) /\ new[i] + Len(find) <= Len(text) + 1
      <4>1. i \in 1 .. Len(old) \/ i = Len(old) + 1  BY <3>1, <3>3
      <4>2. CASE i \in 1 .. Len(old)  BY <3>1, <3>3, <4>2
      <4>3. CASE i = Len(old) + 1  BY <3>3, <3>4, <4>3
      <4> QED  BY <4>1, <4>2, <4>3
    <3> QED  BY <3>3, <3>5 DEF new
  <2> HIDE DEF Inside
  <2> QED  BY <2>2, <2>3, <2>4
<1>5. Nat \subseteq S
  <2> HIDE DEF S
  <2> QED  BY <1>3, <1>4, NatInd
<1>6. Inside(g[Len(text)])
  <2> HIDE DEF Inside
  <2> QED  BY <1>2, <1>5
<1> QED  BY <1>1, <1>6

(* replaceOccurrence makes a text of a text.                               *)
LEMMA OccurrenceTyped ==
  ASSUME NEW text \in Seq(Symbol), NEW find \in Seq(Symbol), NEW replacement \in Seq(Symbol), NEW occurrence \in Nat
  PROVE  /\ ReplaceOccurrence(text, find, replacement, occurrence).refused \in BOOLEAN
         /\ ReplaceOccurrence(text, find, replacement, occurrence).text \in Seq(Symbol)
<1> DEFINE places == Matches(text, find)
           at == places[IF occurrence = 0 THEN 1 ELSE occurrence]
           after == at + Len(find)
           head == SubSeq(text, 1, at - 1)
           tail == SubSeq(text, after, Len(text))
<1>1. /\ places \in Seq(Nat)
      /\ \A i \in 1 .. Len(places) : places[i] \in 1 .. Len(text) /\ places[i] + Len(find) <= Len(text) + 1
  BY FoundWithin
<1>2. ReplaceOccurrence(text, find, replacement, occurrence)
        = IF places = <<>> \/ (occurrence = 0 /\ Len(places) > 1) \/ occurrence > Len(places)
          THEN Refused ELSE Text(head \o replacement \o tail)
  BY DEF ReplaceOccurrence
<1>0. Len(text) \in Nat /\ Len(find) \in Nat  OBVIOUS
<1> HIDE DEF places
<1>3. CASE places = <<>> \/ (occurrence = 0 /\ Len(places) > 1) \/ occurrence > Len(places)
  <2>1. <<>> \in Seq(Symbol)  OBVIOUS
  <2>2. ReplaceOccurrence(text, find, replacement, occurrence) = Refused  BY <1>2, <1>3
  <2> QED  BY <2>1, <2>2 DEF Refused
<1>4. CASE ~(places = <<>> \/ (occurrence = 0 /\ Len(places) > 1) \/ occurrence > Len(places))
  <2>1. at \in 1 .. Len(text) /\ after <= Len(text) + 1
    <3>1. Len(places) \in Nat /\ Len(places) > 0  BY <1>1, <1>4
    <3>2. (IF occurrence = 0 THEN 1 ELSE occurrence) \in 1 .. Len(places)  BY <1>4, <3>1
    <3> QED  BY <1>1, <3>2
  <2> HIDE DEF at
  <2>2. head \in Seq(Symbol)
    <3>1. \A i \in 1 .. at - 1 : text[i] \in Symbol  BY <1>0, <2>1
    <3>2. at - 1 \in Int  BY <2>1
    <3> QED  BY <3>1, <3>2, SubSeqProperties
  <2>3. tail \in Seq(Symbol)
    <3>1. \A i \in after .. Len(text) : text[i] \in Symbol  BY <1>0, <2>1
    <3>2. after \in Int  BY <1>0, <2>1
    <3> QED  BY <1>0, <3>1, <3>2, SubSeqProperties
  <2> HIDE DEF head, tail
  <2>4. head \o replacement \in Seq(Symbol)  BY <2>2, ConcatProperties
  <2>5. head \o replacement \o tail \in Seq(Symbol)  BY <2>3, <2>4, ConcatProperties
  <2> QED  BY <1>2, <1>4, <2>5 DEF Text
<1> QED  BY <1>3, <1>4

(* As does replaceLineRange.                                               *)
LEMMA RangeTyped ==
  ASSUME NEW text \in Seq(Symbol), NEW replacement \in Seq(Symbol), NEW first \in Nat, NEW last \in Nat
  PROVE  /\ ReplaceLineRange(text, first, last, replacement).refused \in BOOLEAN
         /\ ReplaceLineRange(text, first, last, replacement).text \in Seq(Symbol)
<1> DEFINE r == ReplaceLineRange(text, first, last, replacement)
<1>1. r = Refused \/ \E t : r = Text(t)  BY DEF ReplaceLineRange
<1>2. CASE r.refused /\ r = Refused
  <2>1. <<>> \in Seq(Symbol)  OBVIOUS
  <2> QED  BY <1>2, <2>1 DEF Refused
<1>3. CASE ~r.refused /\ r # Refused
  <2>1. r.text \in Seq(Symbol)  BY <1>3, LinesReplaced
  <2>2. r.refused = FALSE  BY <1>1, <1>3 DEF Text
  <2> QED  BY <2>1, <2>2
<1> HIDE DEF r
<1>4. (r.refused /\ r = Refused) \/ (~r.refused /\ r # Refused)  BY <1>1 DEF Refused, Text
<1> QED  BY <1>2, <1>3, <1>4 DEF r

-------------------------------------------------------------------------------
(* The order of the changes.                                               *)
LEMMA HasMax ==
  ASSUME NEW n \in Nat, NEW T \in SUBSET (0 .. n), T # {}
  PROVE  Max(T) \in T /\ \A y \in T : Max(T) >= y
<1> DEFINE Largest(R) == \E x \in R : \A y \in R : x >= y
           S == {k \in Nat : \A R \in SUBSET (0 .. k) : R # {} => Largest(R)}
<1>1. 0 \in S
  <2>1. ASSUME NEW R \in SUBSET (0 .. 0), R # {}  PROVE Largest(R)
    <3>1. PICK x \in R : TRUE  BY <2>1
    <3>2. \A y \in R : x >= y  OBVIOUS
    <3> QED  BY <3>2
  <2> HIDE DEF Largest
  <2> QED  BY <2>1
<1>2. ASSUME NEW k \in Nat, k \in S  PROVE k + 1 \in S
  <2>1. ASSUME NEW R \in SUBSET (0 .. k + 1), R # {}  PROVE Largest(R)
    <3>1. CASE k + 1 \in R
      <4>1. \A y \in R : k + 1 >= y  OBVIOUS
      <4> QED  BY <3>1, <4>1
    <3>2. CASE k + 1 \notin R
      <4>1. R \in SUBSET (0 .. k)
        <5>1. \A y \in 0 .. k + 1 : y # k + 1 => y \in 0 .. k  OBVIOUS
        <5> QED  BY <3>2, <5>1
      <4> HIDE DEF Largest
      <4> QED  BY <1>2, <2>1, <4>1
    <3> QED  BY <3>1, <3>2
  <2> HIDE DEF Largest
  <2> QED  BY <2>1
<1>3. Nat \subseteq S
  <2> HIDE DEF S
  <2> QED  BY <1>1, <1>2, NatInd
<1>4. \E x \in T : \A y \in T : x >= y  BY <1>3
<1> QED  BY <1>4, Zenon DEF Max

(* What Insert does: the changes behind the new one are those of its file  *)
(* with smaller lines.                                                     *)
InsertedAt(new, old, c, place) ==
  /\ place \in 0 .. Len(old)
  /\ new \in Seq(Change) /\ Len(new) = Len(old) + 1
  /\ \A i \in 1 .. place : new[i] = old[i]
  /\ new[place + 1] = c
  /\ \A i \in place + 1 .. Len(old) : new[i + 1] = old[i] /\ LineLess(c, old[i])
  /\ place > 0 => ~LineLess(c, old[place])

(* Insert puts the change in such a place (buildWorkspacePatch).           *)
LEMMA Inserted ==
  ASSUME NEW old \in Seq(Change), NEW c \in Change
  PROVE  \E place : InsertedAt(Insert(old, c), old, c, place)
<1> DEFINE T == {0} \cup {p \in DOMAIN old : ~LineLess(c, old[p])}
           place == Max(T)
           new == Insert(old, c)
           head == SubSeq(old, 1, place)
           tail == SubSeq(old, place + 1, Len(old))
<1>0. Len(old) \in Nat /\ DOMAIN old = 1 .. Len(old)  OBVIOUS
<1>1. place \in T /\ \A y \in T : place >= y
  <2>1. T \in SUBSET (0 .. Len(old)) /\ T # {}  BY <1>0
  <2> HIDE DEF T
  <2> QED  BY <1>0, <2>1, HasMax
<1>2. new = head \o <<c>> \o tail  BY DEF Insert
<1>3. place \in 0 .. Len(old) /\ (place > 0 => ~LineLess(c, old[place]))  BY <1>0, <1>1
<1>4. ASSUME NEW i \in place + 1 .. Len(old)  PROVE LineLess(c, old[i])
  <2>1. i \in 1 .. Len(old) /\ ~(place >= i)  BY <1>0, <1>3
  <2> QED  BY <1>0, <1>1, <2>1
<1> HIDE DEF place
<1>5. head \in Seq(Change) /\ Len(head) = place /\ \A i \in 1 .. place : head[i] = old[i]
  <2>1. \A i \in 1 .. place : old[i] \in Change  BY <1>0, <1>3
  <2>2. /\ head \in Seq(Change) /\ Len(head) = IF 1 <= place THEN place - 1 + 1 ELSE 0
        /\ \A i \in 1 .. place - 1 + 1 : head[i] = old[1 + i - 1]
    BY <1>3, <2>1, SubSeqProperties
  <2>3. place - 1 + 1 = place /\ \A i \in 1 .. place : 1 + i - 1 = i  BY <1>3
  <2> HIDE DEF head
  <2> QED  BY <1>3, <2>2, <2>3
<1>6. /\ tail \in Seq(Change) /\ Len(tail) = Len(old) - place
      /\ \A i \in 1 .. Len(old) - place : tail[i] = old[place + i]
  <2>1. \A i \in place + 1 .. Len(old) : old[i] \in Change  BY <1>0, <1>3
  <2>2. /\ tail \in Seq(Change)
        /\ Len(tail) = IF place + 1 <= Len(old) THEN Len(old) - (place + 1) + 1 ELSE 0
        /\ \A i \in 1 .. Len(old) - (place + 1) + 1 : tail[i] = old[(place + 1) + i - 1]
    BY <1>0, <1>3, <2>1, SubSeqProperties
  <2>3. Len(old) - (place + 1) + 1 = Len(old) - place /\ \A i \in Int : (place + 1) + i - 1 = place + i
    BY <1>0, <1>3
  <2> HIDE DEF tail
  <2>4. \A a \in Nat : \A b \in 0 .. a : (IF b + 1 <= a THEN a - (b + 1) + 1 ELSE 0) = a - b  OBVIOUS
  <2>5. Len(tail) = Len(old) - place
    <3>1. Len(tail) = IF place + 1 <= Len(old) THEN Len(old) - (place + 1) + 1 ELSE 0  BY <2>2
    <3>2. place \in 0 .. Len(old)  BY <1>3
    <3> QED  BY <1>0, <2>4, <3>1, <3>2
  <2>6. place \in Int /\ \A i \in 1 .. Len(old) - place : i \in Int  BY <1>3
  <2>7. \A i \in 1 .. Len(old) - place : tail[i] = old[(place + 1) + i - 1]  BY <2>2, <2>3
  <2>8. \A i \in 1 .. Len(old) - place : tail[i] = old[place + i]  BY <2>3, <2>6, <2>7
  <2> QED  BY <2>2, <2>5, <2>8
<1> DEFINE front == head \o <<c>>
<1> HIDE DEF head, tail
<1>7. /\ front \in Seq(Change) /\ Len(front) = place + 1 /\ front[place + 1] = c
      /\ \A i \in 1 .. place : front[i] = old[i]
  <2>1. front = Append(head, c)  BY <1>5, AppendIsConcat
  <2> HIDE DEF front
  <2> QED  BY <1>5, <2>1, AppendProperties
<1>8. new = front \o tail  BY <1>2
<1> HIDE DEF new, front
<1>9. /\ new \in Seq(Change) /\ Len(new) = Len(front) + Len(tail)
      /\ \A i \in 1 .. Len(front) + Len(tail) : new[i] = IF i <= Len(front) THEN front[i] ELSE tail[i - Len(front)]
  BY <1>6, <1>7, <1>8, ConcatProperties
<1>10. Len(new) = Len(old) + 1 /\ Len(front) + Len(tail) = Len(old) + 1  BY <1>0, <1>3, <1>6, <1>7, <1>9
<1>11. ASSUME NEW i \in 1 .. place  PROVE new[i] = old[i]
  <2>1. i \in 1 .. Len(front) + Len(tail) /\ i <= Len(front)  BY <1>0, <1>3, <1>7, <1>10
  <2> QED  BY <1>7, <1>9, <2>1
<1>12. new[place + 1] = c
  <2>1. place + 1 \in 1 .. Len(front) + Len(tail) /\ place + 1 <= Len(front)  BY <1>0, <1>3, <1>7, <1>10
  <2> QED  BY <1>7, <1>9, <2>1
<1>13. ASSUME NEW i \in place + 1 .. Len(old)  PROVE new[i + 1] = old[i]
  <2>1. i + 1 \in 1 .. Len(front) + Len(tail) /\ ~(i + 1 <= Len(front))  BY <1>0, <1>3, <1>7, <1>10
  <2>2. (i + 1) - Len(front) = i - place /\ i - place \in 1 .. Len(old) - place /\ place + (i - place) = i
    BY <1>0, <1>3, <1>7
  <2> QED  BY <1>6, <1>9, <2>1, <2>2
<1>14. InsertedAt(new, old, c, place)
  BY <1>3, <1>4, <1>9, <1>10, <1>11, <1>12, <1>13 DEF InsertedAt
<1> QED  BY <1>14 DEF new

(* The fold is a loop over the changes.                                    *)
Sorts(g, changes) ==
  /\ g[0] = <<>>
  /\ \A i \in 1 .. Len(changes) : g[i - 1] \in Seq(Change) /\ g[i] = Insert(g[i - 1], changes[i])
  /\ g[Len(changes)] \in Seq(Change) /\ Ordered(changes) = g[Len(changes)]

InsertFold(iter, changes) ==
  iter = [s \in SUBSET DOMAIN changes |->
            IF s = {} THEN <<>> ELSE Insert(iter[s \ {Max(s)}], changes[Max(s)])]

(* Ordered is what its loop ends with.                                     *)
LEMMA OrderedHasRun ==
  ASSUME NEW changes \in Seq(Change)
  PROVE  \E g : Sorts(g, changes)
<1> DEFINE n == Len(changes)
           step == [z \in (1 .. n) \X Seq(Change) |-> Insert(z[2], changes[z[1]])]
<1>0. n \in Nat /\ DOMAIN changes = 1 .. n /\ \A i \in 1 .. n : changes[i] \in Change  OBVIOUS
<1>a. \A old \in Seq(Change), c \in Change : Insert(old, c) \in Seq(Change)
  BY Inserted DEF InsertedAt
<1>1. step \in [(1 .. n) \X Seq(Change) -> Seq(Change)]  BY <1>0, <1>a
<1>2. <<>> \in Seq(Change)  OBVIOUS
<1> HIDE DEF n, step
<1>3. PICK h : Folds(h, n, Seq(Change), <<>>, step)  BY <1>0, <1>1, <1>2, FoldExists
<1>4. InsertFold(h, changes)
  <2>0. h \in [SUBSET (1 .. n) -> Seq(Change)]  BY <1>3 DEF Folds
  <2>1. ASSUME NEW s \in SUBSET (1 .. n)
        PROVE  h[s] = IF s = {} THEN <<>> ELSE Insert(h[s \ {Max(s)}], changes[Max(s)])
    <3>1. CASE s = {}  BY <1>3, <3>1 DEF Folds
    <3>2. CASE s # {}
      <4>1. s \in SUBSET (0 .. n)  BY <1>0
      <4>2. Max(s) \in s  BY <1>0, <3>2, <4>1, HasMax
      <4>3. Max(s) \in 1 .. n /\ h[s \ {Max(s)}] \in Seq(Change)  BY <2>0, <4>2
      <4>4. h[s] = step[<<Max(s), h[s \ {Max(s)}]>>]  BY <1>3, <3>2 DEF Folds
      <4>5. <<Max(s), h[s \ {Max(s)}]>> \in (1 .. n) \X Seq(Change)  BY <4>3
      <4> QED  BY <3>2, <4>4, <4>5 DEF step
    <3> QED  BY <3>1, <3>2
  <2> QED  BY <1>0, <2>0, <2>1 DEF InsertFold
<1> DEFINE iter == CHOOSE k : InsertFold(k, changes)
<1>5. InsertFold(iter, changes)  BY <1>4
<1>6. Ordered(changes) = iter[DOMAIN changes]  BY DEF Ordered, FoldLeft, MapThenFoldSet, InsertFold
<1> HIDE DEF iter
<1> DEFINE g == [i \in 0 .. n |-> iter[1 .. i]]
<1>7. g[0] = <<>>
  <2>1. 0 \in 0 .. n /\ 1 .. 0 = {}  BY <1>0
  <2>2. iter[{}] = <<>>  BY <1>5 DEF InsertFold
  <2> QED  BY <2>1, <2>2
<1>8. ASSUME NEW i \in 1 .. n  PROVE g[i] = Insert(g[i - 1], changes[i])
  <2>1. /\ i \in Nat /\ i \in 0 .. n /\ i - 1 \in 0 .. n /\ 1 .. i \in SUBSET (1 .. n) /\ i \in 1 .. i
    BY <1>0
  <2>2. Max(1 .. i) = i  BY <2>1, MaxOfInterval
  <2>3. (1 .. i) \ {i} = 1 .. (i - 1) /\ 1 .. i # {}
    <3>1. \A j \in 1 .. i : j # i => j \in 1 .. (i - 1)  BY <2>1
    <3>2. \A j \in 1 .. (i - 1) : j \in 1 .. i /\ j # i  BY <2>1
    <3>3. i \in 1 .. i  BY <2>1
    <3> QED  BY <3>1, <3>2, <3>3
  <2>4. iter[1 .. i] = Insert(iter[(1 .. i) \ {i}], changes[i])  BY <1>0, <1>5, <2>1, <2>2, <2>3 DEF InsertFold
  <2> QED  BY <2>1, <2>3, <2>4
<1>9. Ordered(changes) = g[n]  BY <1>0, <1>6
<1> HIDE DEF g
<1> DEFINE S == {i \in Nat : i <= n => g[i] \in Seq(Change)}
<1>10. Nat \subseteq S
  <2>1. 0 \in S  BY <1>2, <1>7
  <2>2. ASSUME NEW i \in Nat, i \in S  PROVE i + 1 \in S
    <3> SUFFICES ASSUME i + 1 <= n  PROVE g[i + 1] \in Seq(Change)  OBVIOUS
    <3>1. i + 1 \in 1 .. n /\ (i + 1) - 1 = i /\ i <= n  BY <1>0
    <3>2. g[i] \in Seq(Change)  BY <2>2, <3>1
    <3>3. g[i + 1] = Insert(g[i], changes[i + 1])  BY <1>8, <3>1
    <3> QED  BY <1>0, <1>a, <3>1, <3>2, <3>3
  <2> HIDE DEF S
  <2> QED  BY <2>1, <2>2, NatInd
<1>11. \A i \in 0 .. n : g[i] \in Seq(Change)  BY <1>0, <1>10
<1>12. \A i \in 1 .. n : i - 1 \in 0 .. n  BY <1>0
<1>13. n \in 0 .. n  BY <1>0
<1>14. Sorts(g, changes)  BY <1>7, <1>8, <1>9, <1>11, <1>12, <1>13 DEF Sorts, n
<1> QED  BY <1>14

Kept(s, changes, i) ==
  /\ s \in Seq(Change) /\ Len(s) = i
  /\ \A q \in 1 .. i : \E k \in 1 .. i : s[q] = changes[k]
  /\ \A k \in 1 .. i : \E q \in 1 .. i : s[q] = changes[k]

(* The order keeps every change, and adds none.                            *)
LEMMA SortKeeps ==
  ASSUME NEW changes \in Seq(Change), NEW g, Sorts(g, changes), NEW i \in 0 .. Len(changes)
  PROVE  Kept(g[i], changes, i)
<1> DEFINE n == Len(changes)
           S == {m \in Nat : m <= n => Kept(g[m], changes, m)}
<1>0. n \in Nat /\ \A k \in 1 .. n : changes[k] \in Change  OBVIOUS
<1>1. 0 \in S
  <2>1. g[0] = <<>>  BY DEF Sorts
  <2>2. <<>> \in Seq(Change) /\ Len(<<>>) = 0 /\ 1 .. 0 = {}  OBVIOUS
  <2>3. Kept(g[0], changes, 0)  BY <2>1, <2>2 DEF Kept
  <2> QED  BY <2>3
<1>2. ASSUME NEW m \in Nat, m \in S  PROVE m + 1 \in S
  <2> SUFFICES ASSUME m + 1 <= n  PROVE Kept(g[m + 1], changes, m + 1)
    OBVIOUS
  <2>1. Kept(g[m], changes, m)
    <3>1. m <= n  BY <1>0
    <3> QED  BY <1>2, <3>1
  <2> DEFINE old == g[m]
             new == g[m + 1]
             c == changes[m + 1]
  <2>2. m + 1 \in 1 .. n /\ (m + 1) - 1 = m  BY <1>0
  <2>3. new = Insert(old, c) /\ c \in Change  BY <1>0, <2>2 DEF Sorts
  <2>4. old \in Seq(Change) /\ Len(old) = m  BY <2>1 DEF Kept
  <2>5. PICK place : InsertedAt(new, old, c, place)
    <3> HIDE DEF old, new, c
    <3> QED  BY <2>3, <2>4, Inserted
  <2>6. /\ place \in 0 .. m /\ new \in Seq(Change) /\ Len(new) = m + 1
        /\ \A q \in 1 .. place : new[q] = old[q]
        /\ new[place + 1] = c
        /\ \A q \in place + 1 .. m : new[q + 1] = old[q]
    BY <2>4, <2>5 DEF InsertedAt
  <2>7. /\ \A q \in 1 .. m : \E k \in 1 .. m : old[q] = changes[k]
        /\ \A k \in 1 .. m : \E q \in 1 .. m : old[q] = changes[k]
    BY <2>1 DEF Kept
  <2>a. \A k \in 1 .. m + 1 : k \in 1 .. m \/ k = m + 1  OBVIOUS
  <2>b. \A k \in 1 .. m : k \in 1 .. m + 1  OBVIOUS
  <2>c. m + 1 \in 1 .. m + 1 /\ c = changes[m + 1]  OBVIOUS
  <2> HIDE DEF old, new, c
  <2>8. ASSUME NEW q \in 1 .. m + 1  PROVE \E k \in 1 .. m + 1 : new[q] = changes[k]
    <3>1. CASE q <= place
      <4>1. q \in 1 .. place /\ q \in 1 .. m  BY <2>6, <3>1
      <4>2. PICK k \in 1 .. m : old[q] = changes[k]  BY <2>7, <4>1
      <4> QED  BY <2>6, <2>b, <4>1, <4>2
    <3>2. CASE q = place + 1  BY <2>6, <2>c, <3>2
    <3>3. CASE q > place + 1
      <4>1. q - 1 \in place + 1 .. m /\ (q - 1) + 1 = q /\ q - 1 \in 1 .. m  BY <2>6, <3>3
      <4>2. PICK k \in 1 .. m : old[q - 1] = changes[k]  BY <2>7, <4>1
      <4>3. new[q] = old[q - 1]  BY <2>6, <4>1
      <4> QED  BY <2>b, <4>2, <4>3
    <3>4. q <= place \/ q = place + 1 \/ q > place + 1  BY <2>6
    <3> QED  BY <3>1, <3>2, <3>3, <3>4
  <2>9. ASSUME NEW k \in 1 .. m + 1  PROVE \E q \in 1 .. m + 1 : new[q] = changes[k]
    <3>1. CASE k = m + 1
      <4>1. place + 1 \in 1 .. m + 1  BY <2>6
      <4> QED  BY <2>6, <2>c, <3>1, <4>1
    <3>2. CASE k \in 1 .. m
      <4>1. PICK q \in 1 .. m : old[q] = changes[k]  BY <2>7, <3>2
      <4>2. CASE q <= place
        <5>1. q \in 1 .. place  BY <4>2
        <5> QED  BY <2>6, <2>b, <4>1, <5>1
      <4>3. CASE q > place
        <5>1. q \in place + 1 .. m /\ q + 1 \in 1 .. m + 1  BY <2>6, <4>3
        <5> QED  BY <2>6, <4>1, <5>1
      <4> QED  BY <2>6, <4>2, <4>3
    <3> QED  BY <2>a, <3>1, <3>2
  <2> QED  BY <2>6, <2>8, <2>9 DEF new, Kept
<1>3. Nat \subseteq S
  <2> HIDE DEF S
  <2> QED  BY <1>1, <1>2, NatInd
<1>4. i \in Nat /\ i <= n  BY <1>0
<1>5. Kept(g[i], changes, i)
  <2> QED  BY <1>3, <1>4
<1> QED  BY <1>5

(* The changes of a file, in the order they are applied in, go up.         *)
Upwards(s) ==
  \A p, q \in 1 .. Len(s) :
    p < q /\ FileOf(s[p].path) = FileOf(s[q].path) => LastLine(s[q]) < s[p].start

(* Those of the file of a change stand at the end.                         *)
AtEnd(s, c) ==
  \A p \in 1 .. Len(s) :
    FileOf(s[p].path) = FileOf(c.path) => \A q \in p .. Len(s) : s[q].path = c.path

(* The types of a change.                                                  *)
LEMMA ChangeNumbers ==
  ASSUME NEW c \in Change
  PROVE  /\ c.path \in Path /\ c.start \in Nat /\ c.end \in Nat /\ LastLine(c) \in Nat
         /\ c.find \in Seq(Symbol) /\ c.occurrence \in Nat /\ c.replace \in Seq(Symbol)
  BY DEF Change, LastLine

(* A change inserted behind the others of its file that are further down.  *)
LEMMA InsertUpwards ==
  ASSUME NEW old \in Seq(Change), NEW c \in Change, NEW new, NEW place, InsertedAt(new, old, c, place),
         Upwards(old), AtEnd(old, c), c.start > 0, c.start <= LastLine(c),
         \A p \in 1 .. Len(old) :
           FileOf(old[p].path) = FileOf(c.path) =>
             /\ old[p].start > 0 /\ old[p].start <= LastLine(old[p])
             /\ LastLine(c) < old[p].start \/ LastLine(old[p]) < c.start
  PROVE  Upwards(new)
<1> DEFINE m == Len(old)
<1>0. m \in Nat  OBVIOUS
<1>1. /\ place \in 0 .. m /\ new \in Seq(Change) /\ Len(new) = m + 1
      /\ \A q \in 1 .. place : new[q] = old[q]
      /\ new[place + 1] = c
      /\ \A q \in place + 1 .. m : new[q + 1] = old[q] /\ LineLess(c, old[q])
      /\ place > 0 => ~LineLess(c, old[place])
  BY DEF InsertedAt
<1>2. c.start \in Nat /\ LastLine(c) \in Nat  BY ChangeNumbers
<1>3. \A p \in 1 .. m : old[p].start \in Nat /\ LastLine(old[p]) \in Nat
  <2>1. \A p \in 1 .. m : old[p] \in Change  OBVIOUS
  <2> QED  BY <2>1, ChangeNumbers
<1>4. \A p, q \in 1 .. m : p < q /\ FileOf(old[p].path) = FileOf(old[q].path) => LastLine(old[q]) < old[p].start
  BY DEF Upwards
<1>5. \A p \in 1 .. m : FileOf(old[p].path) = FileOf(c.path) => \A q \in p .. m : old[q].path = c.path
  BY DEF AtEnd
<1> HIDE DEF m
<1>6. ASSUME NEW p \in 1 .. place, FileOf(old[p].path) = FileOf(c.path)
      PROVE  LastLine(c) < old[p].start
  <2>1. p \in 1 .. m /\ place \in 1 .. m /\ place \in p .. m /\ place > 0  BY <1>0, <1>1
  <2>2. old[place].path = c.path  BY <1>5, <1>6, <2>1
  <2>3. old[place].start > 0 /\ old[place].start <= LastLine(old[place])
        /\ (LastLine(c) < old[place].start \/ LastLine(old[place]) < c.start)
    BY <2>1, <2>2 DEF m
  <2>4. ~(c.start > old[place].start)  BY <1>1, <2>1, <2>2, <2>3 DEF LineLess
  <2>5. old[place].start \in Nat /\ LastLine(old[place]) \in Nat /\ old[p].start \in Nat  BY <1>3, <2>1
  <2>6. LastLine(c) < old[place].start  BY <1>2, <2>3, <2>4, <2>5
  <2>7. CASE p = place  BY <2>6, <2>7
  <2>8. CASE p # place
    <3>1. p < place  BY <1>1, <2>8
    <3>2. LastLine(old[place]) < old[p].start  BY <1>4, <1>6, <2>1, <2>2, <3>1
    <3> QED  BY <1>2, <2>3, <2>5, <2>6, <3>2
  <2> QED  BY <2>7, <2>8
<1>7. ASSUME NEW q \in place + 1 .. m  PROVE LastLine(old[q]) < c.start
  <2>1. q \in 1 .. m  BY <1>0, <1>1
  <2>2. old[q].path = c.path /\ c.start > old[q].start  BY <1>1 DEF LineLess
  <2>3. old[q].start <= LastLine(old[q]) /\ (LastLine(c) < old[q].start \/ LastLine(old[q]) < c.start)
    BY <2>1, <2>2 DEF m
  <2>4. old[q].start \in Nat /\ LastLine(old[q]) \in Nat  BY <1>3, <2>1
  <2> QED  BY <1>2, <2>2, <2>3, <2>4
<1>8. SUFFICES ASSUME NEW p \in 1 .. m + 1, NEW q \in 1 .. m + 1, p < q,
                      FileOf(new[p].path) = FileOf(new[q].path)
               PROVE  LastLine(new[q]) < new[p].start
  BY <1>1 DEF Upwards
<1>9. CASE q <= place
  <2>1. p \in 1 .. place /\ q \in 1 .. place /\ p \in 1 .. m /\ q \in 1 .. m  BY <1>0, <1>1, <1>8, <1>9
  <2> QED  BY <1>1, <1>4, <1>8, <2>1
<1>10. CASE q = place + 1
  <2>1. p \in 1 .. place  BY <1>0, <1>1, <1>8, <1>10
  <2> QED  BY <1>1, <1>6, <1>8, <1>10, <2>1
<1>11. CASE q > place + 1
  <2>1. q - 1 \in place + 1 .. m /\ (q - 1) + 1 = q /\ q - 1 \in 1 .. m  BY <1>0, <1>1, <1>11
  <2>2. new[q] = old[q - 1]  BY <1>1, <2>1
  <2>3. CASE p <= place
    <3>1. p \in 1 .. place /\ p \in 1 .. m /\ p < q - 1  BY <1>0, <1>1, <1>11, <2>3
    <3> QED  BY <1>1, <1>4, <1>8, <2>1, <2>2, <3>1
  <2>4. CASE p = place + 1  BY <1>1, <1>7, <2>1, <2>2, <2>4
  <2>5. CASE p > place + 1
    <3>1. p - 1 \in place + 1 .. m /\ (p - 1) + 1 = p /\ p - 1 \in 1 .. m /\ p - 1 < q - 1
      BY <1>0, <1>1, <1>8, <2>5
    <3>2. new[p] = old[p - 1]  BY <1>1, <3>1
    <3> QED  BY <1>4, <1>8, <2>1, <2>2, <3>1, <3>2
  <2>6. p <= place \/ p = place + 1 \/ p > place + 1  BY <1>1
  <2> QED  BY <2>3, <2>4, <2>5, <2>6
<1>12. q <= place \/ q = place + 1 \/ q > place + 1  BY <1>1
<1> QED  BY <1>9, <1>10, <1>11, <1>12

(* The changes of a file are applied from its end to its start.            *)
LEMMA SortOrders ==
  ASSUME NEW changes \in Seq(Change), NEW g, Sorts(g, changes), ByLines(changes),
         \A k \in 1 .. Len(changes) : changes[k].start <= LastLine(changes[k])
  PROVE  Upwards(g[Len(changes)])
<1> DEFINE n == Len(changes)
           Good(m) == Upwards(g[m]) /\ (m < n => AtEnd(g[m], changes[m + 1]))
           S == {m \in Nat : m <= n => Good(m)}
<1>0. n \in Nat /\ DOMAIN changes = 1 .. n /\ \A k \in 1 .. n : changes[k] \in Change  OBVIOUS
<1>a. /\ \A k \in 1 .. n : changes[k].start > 0
      /\ \A k, l \in 1 .. n :
           (k < l /\ FileOf(changes[k].path) = FileOf(changes[l].path)) =>
             /\ \A j \in k .. l : changes[j].path = changes[k].path
             /\ LastLine(changes[k]) < changes[l].start \/ LastLine(changes[l]) < changes[k].start
  BY <1>0 DEF ByLines
<1>b. \A m \in 0 .. n : Kept(g[m], changes, m)  BY SortKeeps
<1>1. 0 \in S
  <2>1. g[0] = <<>>  BY DEF Sorts
  <2>2. Len(<<>>) = 0 /\ 1 .. 0 = {}  OBVIOUS
  <2>3. Good(0)  BY <2>1, <2>2 DEF Upwards, AtEnd
  <2> HIDE DEF Good
  <2> QED  BY <2>3
<1>2. ASSUME NEW m \in Nat, m \in S  PROVE m + 1 \in S
  <2> SUFFICES ASSUME m + 1 <= n  PROVE Good(m + 1)
    OBVIOUS
  <2> DEFINE old == g[m]
             new == g[m + 1]
             c == changes[m + 1]
  <2>1. /\ m + 1 \in 1 .. n /\ (m + 1) - 1 = m /\ m \in 0 .. n /\ m + 1 \in 0 .. n /\ m <= n /\ m < n
        /\ (m + 1) + 1 = m + 2
    BY <1>0
  <2>2. Good(m)
    <3> HIDE DEF Good
    <3> QED  BY <1>2, <2>1
  <2>3. /\ new = Insert(old, c) /\ c \in Change /\ old \in Seq(Change) /\ Len(old) = m
        /\ \A q \in 1 .. m : \E k \in 1 .. m : old[q] = changes[k]
    <3>1. new = Insert(old, c)
      <4>1. g[m + 1] = Insert(g[(m + 1) - 1], changes[m + 1])  BY <2>1 DEF Sorts
      <4> QED  BY <2>1, <4>1
    <3> QED  BY <1>0, <1>b, <2>1, <3>1 DEF Kept
  <2>4. Upwards(old) /\ AtEnd(old, c)  BY <2>1, <2>2
  <2>c. \A k \in 1 .. m : k \in 1 .. n /\ k < m + 1  BY <2>1, <1>0
  <2> HIDE DEF old, new
  <2>5. PICK place : InsertedAt(new, old, c, place)  BY <2>3, Inserted
  <2>6. ASSUME NEW p \in 1 .. m, FileOf(old[p].path) = FileOf(c.path)
        PROVE  /\ old[p].start > 0 /\ old[p].start <= LastLine(old[p])
               /\ LastLine(c) < old[p].start \/ LastLine(old[p]) < c.start
    <3>1. PICK k \in 1 .. m : old[p] = changes[k]  BY <2>3
    <3>2. k \in 1 .. n /\ k < m + 1  BY <2>c
    <3> QED  BY <1>a, <2>1, <2>6, <3>1, <3>2
  <2>7. c.start > 0 /\ c.start <= LastLine(c)  BY <1>a, <2>1
  <2>8. Upwards(new)
    <3> HIDE DEF c
    <3> QED  BY <2>3, <2>4, <2>5, <2>6, <2>7, InsertUpwards
  <2>9. ASSUME m + 1 < n  PROVE AtEnd(new, changes[m + 2])
    <3> DEFINE d == changes[m + 2]
    <3>1. Len(new) = m + 1 /\ \A q \in 1 .. m + 1 : \E k \in 1 .. m + 1 : new[q] = changes[k]
      BY <1>b, <2>1 DEF new, Kept
    <3>2. SUFFICES ASSUME NEW r \in 1 .. m + 1, FileOf(new[r].path) = FileOf(d.path), NEW q \in r .. m + 1
                   PROVE  new[q].path = d.path
      BY <3>1 DEF AtEnd
    <3>3. PICK k \in 1 .. m + 1 : new[r] = changes[k]  BY <3>1
    <3>4. k \in 1 .. n /\ m + 2 \in 1 .. n /\ k < m + 2 /\ m + 1 \in k .. m + 2 /\ m + 2 \in k .. m + 2
      BY <1>0, <2>9
    <3>5. d.path = changes[k].path /\ c.path = changes[k].path  BY <1>a, <3>2, <3>3, <3>4
    <3>6. new[r].path = c.path /\ d.path = c.path  BY <3>3, <3>5
    <3>7. /\ place \in 0 .. m
          /\ \A j \in 1 .. place : new[j] = old[j]
          /\ new[place + 1] = c
          /\ \A j \in place + 1 .. m : new[j + 1] = old[j] /\ LineLess(c, old[j])
      BY <2>3, <2>5 DEF InsertedAt
    <3> HIDE DEF c, d
    <3>8. CASE q <= place
      <4>1. q \in 1 .. place /\ r \in 1 .. place /\ r \in 1 .. m /\ q \in r .. m  BY <3>7, <3>8
      <4>2. FileOf(old[r].path) = FileOf(c.path)  BY <3>6, <3>7, <4>1
      <4>3. old[q].path = c.path  BY <2>3, <2>4, <4>1, <4>2 DEF AtEnd
      <4> QED  BY <3>6, <3>7, <4>1, <4>3
    <3>9. CASE q = place + 1  BY <3>6, <3>7, <3>9
    <3>10. CASE q > place + 1
      <4>1. q - 1 \in place + 1 .. m /\ (q - 1) + 1 = q  BY <3>7, <3>10
      <4>2. new[q] = old[q - 1] /\ old[q - 1].path = c.path  BY <3>7, <4>1 DEF LineLess
      <4> QED  BY <3>6, <4>2
    <3>11. q <= place \/ q = place + 1 \/ q > place + 1  BY <3>7
    <3> QED  BY <3>8, <3>9, <3>10, <3>11
  <2> QED  BY <2>1, <2>8, <2>9 DEF new
<1>3. Nat \subseteq S
  <2> HIDE DEF S
  <2> QED  BY <1>1, <1>2, NatInd
<1>4. Good(n)
  <2> HIDE DEF Good
  <2> QED  BY <1>0, <1>3
<1> QED  BY <1>4

-------------------------------------------------------------------------------
(* The lines as the changes number them, piece by piece.                   *)
Flattens(F, P, V) ==
  /\ F \in [0 .. Len(P) -> Seq(V)] /\ F[0] = <<>>
  /\ \A i \in 1 .. Len(P) : F[i] = F[i - 1] \o P[i]
  /\ FlattenSeq(P) = F[Len(P)]

FlattenLoop(flatten, P) ==
  flatten = [i \in 1 .. Len(P) |-> IF i = 1 THEN P[i] ELSE flatten[i - 1] \o P[i]]

(* FlattenSeq is what its loop ends with.                                  *)
LEMMA FlattenHasRun ==
  ASSUME NEW V, NEW P \in Seq(Seq(V)), Len(P) # 0
  PROVE  \E F : Flattens(F, P, V)
<1> DEFINE n == Len(P)
           step == [z \in (1 .. n) \X Seq(V) |-> z[2] \o P[z[1]]]
<1>0. n \in Nat \ {0} /\ \A i \in 1 .. n : P[i] \in Seq(V)  OBVIOUS
<1>1. step \in [(1 .. n) \X Seq(V) -> Seq(V)]
  <2>1. ASSUME NEW z \in (1 .. n) \X Seq(V)  PROVE z[2] \o P[z[1]] \in Seq(V)
    <3>1. z[2] \in Seq(V) /\ P[z[1]] \in Seq(V)  BY <1>0
    <3> QED  BY <3>1, ConcatProperties
  <2> QED  BY <2>1
<1>2. <<>> \in Seq(V)  OBVIOUS
<1> HIDE DEF n, step
<1>3. PICK g : Loops(g, n, Seq(V), <<>>, step)  BY <1>0, <1>1, <1>2, LoopExists
<1>4. g \in [0 .. n -> Seq(V)] /\ g[0] = <<>>  BY <1>3 DEF Loops
<1>5. ASSUME NEW i \in 1 .. n  PROVE g[i] = g[i - 1] \o P[i]
  <2>1. i - 1 \in 0 .. n  BY <1>0
  <2>2. <<i, g[i - 1]>> \in (1 .. n) \X Seq(V)  BY <1>4, <2>1
  <2> QED  BY <1>3, <2>2 DEF Loops, step
<1>6. 1 \in 1 .. n /\ 1 - 1 = 0 /\ g[1] = P[1]
  <2>1. 1 \in 1 .. n /\ 1 - 1 = 0  BY <1>0
  <2>2. P[1] \in Seq(V)  BY <1>0, <2>1
  <2>3. <<>> \o P[1] = P[1]  BY <2>2, ConcatEmptySeq
  <2>4. g[1] = g[0] \o P[1]  BY <1>5, <2>1
  <2> QED  BY <1>4, <2>1, <2>3, <2>4
<1> DEFINE h == [i \in 1 .. n |-> g[i]]
<1>7. FlattenLoop(h, P)
  <2>1. ASSUME NEW i \in 1 .. n  PROVE h[i] = IF i = 1 THEN P[i] ELSE h[i - 1] \o P[i]
    <3>1. CASE i = 1  BY <1>6, <3>1
    <3>2. CASE i # 1
      <4>1. i - 1 \in 1 .. n  BY <1>0, <3>2
      <4> QED  BY <1>5, <3>2, <4>1
    <3> QED  BY <3>1, <3>2
  <2>2. h = [i \in 1 .. n |-> IF i = 1 THEN P[i] ELSE h[i - 1] \o P[i]]
    <3>1. h = [i \in 1 .. n |-> h[i]]  OBVIOUS
    <3> HIDE DEF h
    <3> QED  BY <2>1, <3>1
  <2> HIDE DEF h
  <2> QED  BY <2>2 DEF FlattenLoop, n
<1> DEFINE flatten == CHOOSE k : FlattenLoop(k, P)
<1>8. FlattenLoop(flatten, P)
  <2> HIDE DEF h
  <2> QED  BY <1>7
<1>9. FlattenSeq(P) = flatten[n]
  <2> HIDE DEF h
  <2> QED  BY <1>0 DEF FlattenSeq, FlattenLoop, n
<1> HIDE DEF flatten, h
<1> DEFINE S == {i \in Nat : i + 1 <= n => flatten[i + 1] = g[i + 1]}
<1>10. 0 \in S
  <2>1. flatten[1] = P[1]  BY <1>6, <1>8 DEF FlattenLoop, n
  <2>2. 0 + 1 = 1  OBVIOUS
  <2> QED  BY <1>6, <2>1, <2>2
<1>11. ASSUME NEW i \in Nat, i \in S  PROVE i + 1 \in S
  <2> SUFFICES ASSUME (i + 1) + 1 <= n  PROVE flatten[(i + 1) + 1] = g[(i + 1) + 1]
    OBVIOUS
  <2>1. (i + 1) + 1 \in 1 .. n /\ (i + 1) + 1 # 1 /\ ((i + 1) + 1) - 1 = i + 1 /\ i + 1 <= n  BY <1>0
  <2>2. flatten[i + 1] = g[i + 1]  BY <1>11, <2>1
  <2>3. flatten[(i + 1) + 1] = flatten[i + 1] \o P[(i + 1) + 1]  BY <1>8, <2>1 DEF FlattenLoop, n
  <2>4. g[(i + 1) + 1] = g[i + 1] \o P[(i + 1) + 1]  BY <1>5, <2>1
  <2> QED  BY <2>2, <2>3, <2>4
<1>12. Nat \subseteq S
  <2> HIDE DEF S
  <2> QED  BY <1>10, <1>11, NatInd
<1>13. flatten[n] = g[n]
  <2>1. n - 1 \in Nat /\ (n - 1) + 1 = n  BY <1>0
  <2>2. n - 1 \in S  BY <1>12, <2>1
  <2> QED  BY <1>0, <2>1, <2>2
<1>14. Flattens(g, P, V)  BY <1>4, <1>5, <1>9, <1>13 DEF Flattens, n
<1> QED  BY <1>14

Plain(P, lines, m) == \A i \in 1 .. m : P[i] = <<lines[i]>>

(* As long as a piece is a line, what they make is a part of the text.     *)
LEMMA FlattensLines ==
  ASSUME NEW V, NEW lines \in Seq(V), NEW P \in Seq(Seq(V)), NEW F, Flattens(F, P, V),
         NEW m \in Nat, m <= Len(P), m <= Len(lines), Plain(P, lines, m)
  PROVE  \A i \in 0 .. m : F[i] = SubSeq(lines, 1, i)
<1> DEFINE S == {i \in Nat : i <= m => F[i] = SubSeq(lines, 1, i)}
<1>0. Len(P) \in Nat /\ Len(lines) \in Nat  OBVIOUS
<1>1. 0 \in S
  <2>1. SubSeq(lines, 1, 0) = <<>>  BY SubSeqEmpty
  <2> QED  BY <2>1 DEF Flattens
<1>2. ASSUME NEW i \in Nat, i \in S  PROVE i + 1 \in S
  <2> SUFFICES ASSUME i + 1 <= m  PROVE F[i + 1] = SubSeq(lines, 1, i + 1)
    OBVIOUS
  <2>1. /\ i + 1 \in 1 .. m /\ i + 1 \in 1 .. Len(P) /\ i + 1 \in 1 .. Len(lines) /\ (i + 1) - 1 = i /\ i <= m
        /\ 1 \in 1 .. Len(lines)
    BY <1>0
  <2>2. F[i] = SubSeq(lines, 1, i)  BY <1>2, <2>1
  <2>3. F[i + 1] = F[i] \o P[i + 1]  BY <2>1 DEF Flattens
  <2>4. SubSeq(lines, 1, i + 1) = SubSeq(lines, 1, (i + 1) - 1) \o <<lines[i + 1]>>
    BY <2>1, SubSeqRecursiveSecond
  <2>5. P[i + 1] = <<lines[i + 1]>>  BY <2>1 DEF Plain
  <2> QED  BY <2>1, <2>2, <2>3, <2>4, <2>5
<1>3. Nat \subseteq S
  <2> HIDE DEF S
  <2> QED  BY <1>1, <1>2, NatInd
<1> QED  BY <1>3

Starting(A, i) == {c \in A : c.start = i}

Covered(A, i) == \E c \in A : c.start < i /\ i <= LastLine(c)

PieceOf(A, lines, i) ==
  IF Starting(A, i) # {} THEN LineSeq((CHOOSE c \in Starting(A, i) : TRUE).replace)
  ELSE IF Covered(A, i) \/ i > Len(lines) THEN <<>> ELSE <<lines[i]>>

Pieces(A, lines) == [i \in 1 .. Len(lines) + 1 |-> PieceOf(A, lines, i)]

(* A piece is a sequence of lines.                                         *)
LEMMA PiecesTyped ==
  ASSUME NEW A \in SUBSET Change, NEW lines \in Seq(Seq(Symbol))
  PROVE  /\ Pieces(A, lines) \in Seq(Seq(Seq(Symbol))) /\ Len(Pieces(A, lines)) = Len(lines) + 1
         /\ \A i \in 1 .. Len(lines) + 1 : Pieces(A, lines)[i] = PieceOf(A, lines, i)
<1> DEFINE n == Len(lines)
           P == Pieces(A, lines)
<1>0. n \in Nat /\ \A i \in 1 .. n : lines[i] \in Seq(Symbol)  OBVIOUS
<1>1. ASSUME NEW i \in 1 .. n + 1  PROVE PieceOf(A, lines, i) \in Seq(Seq(Symbol))
  <2>1. CASE Starting(A, i) # {}
    <3> DEFINE c == CHOOSE d \in Starting(A, i) : TRUE
    <3>1. c \in Starting(A, i)  BY <2>1
    <3>2. c \in Change  BY <3>1 DEF Starting
    <3>3. c.replace \in Seq(Symbol)
      <4> HIDE DEF c
      <4> QED  BY <3>2, ChangeNumbers
    <3> HIDE DEF c
    <3>4. LineSeq(c.replace) \in Seq(Seq(Symbol))  BY <3>3, LinesTyped
    <3> QED  BY <2>1, <3>4 DEF PieceOf, c
  <2>2. CASE Starting(A, i) = {} /\ (Covered(A, i) \/ i > n)
    <3>1. PieceOf(A, lines, i) = <<>>  BY <2>2 DEF PieceOf
    <3> QED  BY <3>1
  <2>3. CASE Starting(A, i) = {} /\ ~(Covered(A, i) \/ i > n)
    <3>1. PieceOf(A, lines, i) = <<lines[i]>>  BY <2>3 DEF PieceOf
    <3>2. i \in 1 .. n  BY <1>0, <2>3
    <3>3. lines[i] \in Seq(Symbol)  BY <1>0, <3>2
    <3> QED  BY <3>1, <3>3
  <2> QED  BY <2>1, <2>2, <2>3
<1>2. P \in [1 .. n + 1 -> Seq(Seq(Symbol))]  BY <1>1 DEF Pieces
<1>3. n + 1 \in Nat  BY <1>0
<1>4. P \in Seq(Seq(Seq(Symbol))) /\ Len(P) = n + 1
  <2> DEFINE k == n + 1
  <2>1. k \in Nat /\ P \in [1 .. k -> Seq(Seq(Symbol))]  BY <1>2, <1>3
  <2> HIDE DEF P, k
  <2>2. P \in Seq(Seq(Seq(Symbol))) /\ Len(P) = k  BY <2>1
  <2> QED  BY <2>2 DEF k
<1>5. \A i \in 1 .. n + 1 : P[i] = PieceOf(A, lines, i)  BY DEF Pieces
<1> QED  BY <1>4, <1>5

(* Without a change the pieces are the lines.                              *)
LEMMA NoPieces ==
  ASSUME NEW lines \in Seq(Seq(Symbol))
  PROVE  FlattenSeq(Pieces({}, lines)) = lines
<1> DEFINE n == Len(lines)
           P == Pieces({}, lines)
<1>0. n \in Nat  OBVIOUS
<1>1. /\ P \in Seq(Seq(Seq(Symbol))) /\ Len(P) = n + 1
      /\ \A i \in 1 .. n + 1 : P[i] = PieceOf({}, lines, i)
  BY PiecesTyped
<1>2. Plain(P, lines, n)
  <2> SUFFICES ASSUME NEW i \in 1 .. n  PROVE P[i] = <<lines[i]>>  BY DEF Plain
  <2>1. i \in 1 .. n + 1 /\ ~(i > n)  BY <1>0
  <2> QED  BY <1>1, <2>1 DEF PieceOf, Starting, Covered
<1>3. P[n + 1] = <<>>
  <2>1. n + 1 \in 1 .. n + 1 /\ n + 1 > n  BY <1>0
  <2> QED  BY <1>1, <2>1 DEF PieceOf, Starting, Covered
<1> DEFINE V == Seq(Symbol)
<1> HIDE DEF P, n, V
<1>a. P \in Seq(Seq(V)) /\ lines \in Seq(V)  BY <1>1 DEF V
<1>4. PICK F : Flattens(F, P, V)
  <2>1. Len(P) # 0  BY <1>0, <1>1
  <2> QED  BY <1>a, <2>1, FlattenHasRun
<1>5. F[n] = SubSeq(lines, 1, n)
  <2>1. n <= Len(P) /\ n <= Len(lines) /\ n \in 0 .. n  BY <1>0, <1>1 DEF n
  <2>2. \A i \in 0 .. n : F[i] = SubSeq(lines, 1, i)  BY <1>0, <1>2, <1>a, <1>4, <2>1, FlattensLines
  <2> QED  BY <2>1, <2>2
<1>6. F[n + 1] = F[n] \o <<>>
  <2>1. n + 1 \in 1 .. Len(P) /\ (n + 1) - 1 = n  BY <1>0, <1>1
  <2> QED  BY <1>3, <1>4, <2>1 DEF Flattens
<1>7. SubSeq(lines, 1, n) = lines /\ lines \o <<>> = lines  BY <1>a, SubSeqFull, ConcatEmptySeq DEF n
<1>8. FlattenSeq(P) = F[n + 1]  BY <1>1, <1>4 DEF Flattens
<1> QED  BY <1>5, <1>6, <1>7, <1>8 DEF P

(* One more change, whose lines come before those of the others: what it   *)
(* replaces is a part of the text, and what follows stays.                 *)
Replaces(A, c, lines) ==
  \E g \in Seq(Seq(Symbol)) :
    /\ FlattenSeq(Pieces(A, lines)) = SubSeq(lines, 1, LastLine(c)) \o g
    /\ FlattenSeq(Pieces(A \cup {c}, lines))
         = (SubSeq(lines, 1, c.start - 1) \o LineSeq(c.replace)) \o g

(* Where its lines are there, such a change replaces them.                 *)
LEMMA PiecesReplace ==
  ASSUME NEW A \in SUBSET Change, NEW c \in Change, NEW lines \in Seq(Seq(Symbol)),
         c.start > 0, c.start <= LastLine(c), LastLine(c) <= Len(lines),
         \A d \in A : LastLine(c) < d.start
  PROVE  Replaces(A, c, lines)
<1> DEFINE n == Len(lines)
           B == A \cup {c}
           P == Pieces(A, lines)
           Q == Pieces(B, lines)
           s == c.start
           l == LastLine(c)
           R == LineSeq(c.replace)
           V == Seq(Symbol)
<1>0. n \in Nat /\ s \in Nat /\ l \in Nat /\ s > 0 /\ s <= l /\ l <= n  BY ChangeNumbers
<1>1. /\ P \in Seq(Seq(V)) /\ Len(P) = n + 1
      /\ \A i \in 1 .. n + 1 : P[i] = PieceOf(A, lines, i)
  BY PiecesTyped
<1>2. /\ Q \in Seq(Seq(V)) /\ Len(Q) = n + 1
      /\ \A i \in 1 .. n + 1 : Q[i] = PieceOf(B, lines, i)
  <2>1. B \in SUBSET Change  OBVIOUS
  <2> HIDE DEF B
  <2> QED  BY <2>1, PiecesTyped
<1>3. \A d \in A : d.start \in Nat /\ l < d.start
  <2>1. \A d \in A : d.start \in Nat  BY ChangeNumbers
  <2> QED  BY <2>1
<1>4. R \in Seq(V) /\ lines \in Seq(V)
  <2>1. c.replace \in Seq(Symbol)  BY ChangeNumbers
  <2> QED  BY <2>1, LinesTyped
<1>5. ASSUME NEW i \in 1 .. l  PROVE P[i] = <<lines[i]>>
  <2>1. i \in 1 .. n + 1 /\ ~(i > n)  BY <1>0
  <2>2. \A d \in A : d.start # i /\ ~(d.start < i)  BY <1>0, <1>3
  <2>3. Starting(A, i) = {} /\ ~Covered(A, i)  BY <2>2 DEF Starting, Covered
  <2> QED  BY <1>1, <2>1, <2>3 DEF PieceOf
<1>6. ASSUME NEW i \in 1 .. s - 1  PROVE Q[i] = <<lines[i]>>
  <2>1. i \in 1 .. n + 1 /\ ~(i > n)  BY <1>0
  <2>2. \A d \in B : d.start # i /\ ~(d.start < i)  BY <1>0, <1>3
  <2>3. Starting(B, i) = {} /\ ~Covered(B, i)
    <3> HIDE DEF B
    <3> QED  BY <2>2 DEF Starting, Covered
  <2> QED  BY <1>2, <2>1, <2>3 DEF PieceOf
<1>7. Q[s] = R
  <2>1. s \in 1 .. n + 1  BY <1>0
  <2>2. \A d \in A : d.start # s  BY <1>0, <1>3
  <2>3. Starting(B, s) = {c}  BY <2>2 DEF Starting
  <2>4. (CHOOSE d \in {c} : TRUE) = c  OBVIOUS
  <2> HIDE DEF B, s
  <2> QED  BY <1>2, <2>1, <2>3, <2>4 DEF PieceOf
<1>8. ASSUME NEW i \in s + 1 .. l  PROVE Q[i] = <<>>
  <2>1. i \in 1 .. n + 1 /\ s < i /\ i <= l  BY <1>0
  <2>2. \A d \in B : d.start # i
    <3>1. \A d \in A : d.start # i  BY <1>0, <1>3
    <3> QED  BY <1>0, <2>1, <3>1
  <2>3. Starting(B, i) = {}
    <3> HIDE DEF B
    <3> QED  BY <2>2 DEF Starting
  <2>4. Covered(B, i)  BY <2>1 DEF Covered
  <2> QED  BY <1>2, <2>1, <2>3, <2>4 DEF PieceOf
<1>9. ASSUME NEW i \in l + 1 .. n + 1  PROVE Q[i] = P[i]
  <2>1. i \in 1 .. n + 1 /\ s # i /\ ~(i <= l)  BY <1>0
  <2>2. Starting(B, i) = Starting(A, i)  BY <2>1 DEF Starting
  <2>3. Covered(B, i) <=> Covered(A, i)  BY <2>1 DEF Covered
  <2> HIDE DEF B
  <2> QED  BY <1>1, <1>2, <2>1, <2>2, <2>3 DEF PieceOf
<1> HIDE DEF P, Q, B, n, s, l, R, V
<1>10. PICK F : Flattens(F, P, V)
  <2>1. Len(P) # 0  BY <1>0, <1>1
  <2> QED  BY <1>1, <2>1, FlattenHasRun
<1>11. PICK G : Flattens(G, Q, V)
  <2>1. Len(Q) # 0  BY <1>0, <1>2
  <2> QED  BY <1>2, <2>1, FlattenHasRun
<1>12. F[l] = SubSeq(lines, 1, l)
  <2>1. l \in Nat /\ l <= Len(P) /\ l <= Len(lines) /\ l \in 0 .. l  BY <1>0, <1>1 DEF n
  <2>2. Plain(P, lines, l)  BY <1>5 DEF Plain
  <2>3. \A i \in 0 .. l : F[i] = SubSeq(lines, 1, i)  BY <1>1, <1>4, <1>10, <2>1, <2>2, FlattensLines
  <2> QED  BY <2>1, <2>3
<1> DEFINE front == SubSeq(lines, 1, s - 1)
<1>13. G[s - 1] = front
  <2> DEFINE k == s - 1
  <2>1. k \in Nat /\ k <= Len(Q) /\ k <= Len(lines) /\ k \in 0 .. k  BY <1>0, <1>2 DEF n
  <2>2. Plain(Q, lines, k)  BY <1>6 DEF Plain
  <2> HIDE DEF k
  <2>3. \A i \in 0 .. k : G[i] = SubSeq(lines, 1, i)  BY <1>2, <1>4, <1>11, <2>1, <2>2, FlattensLines
  <2>4. G[k] = SubSeq(lines, 1, k)  BY <2>1, <2>3
  <2> QED  BY <2>4 DEF k
<1>14. front \in Seq(V)
  <2>1. \A i \in 1 .. s - 1 : lines[i] \in V
    <3>1. \A i \in 1 .. s - 1 : i \in 1 .. n  BY <1>0
    <3> QED  BY <1>4, <3>1 DEF n
  <2>2. s - 1 \in Int  BY <1>0
  <2> QED  BY <2>1, <2>2, SubSeqProperties
<1> HIDE DEF front
<1> DEFINE new == front \o R
<1>15. new \in Seq(V)  BY <1>4, <1>14, ConcatProperties
<1>16. G[s] = new
  <2>1. s \in 1 .. Len(Q)  BY <1>0, <1>2
  <2>2. G[s] = G[s - 1] \o Q[s]  BY <1>11, <2>1 DEF Flattens
  <2> QED  BY <1>7, <1>13, <2>2
<1> HIDE DEF new
<1>17. G[l] = new
  <2> DEFINE S == {i \in Nat : s + i <= l => G[s + i] = new}
  <2>1. 0 \in S  BY <1>0, <1>16
  <2>2. ASSUME NEW i \in Nat, i \in S  PROVE i + 1 \in S
    <3> SUFFICES ASSUME s + (i + 1) <= l  PROVE G[s + (i + 1)] = new  OBVIOUS
    <3>1. /\ s + (i + 1) \in 1 .. Len(Q) /\ s + (i + 1) \in s + 1 .. l
          /\ (s + (i + 1)) - 1 = s + i /\ s + i <= l
      BY <1>0, <1>2
    <3>2. G[s + (i + 1)] = G[(s + (i + 1)) - 1] \o Q[s + (i + 1)]  BY <1>11, <3>1 DEF Flattens
    <3>3. Q[s + (i + 1)] = <<>>  BY <1>8, <3>1
    <3>4. G[s + i] = new  BY <2>2, <3>1
    <3>5. new \o <<>> = new  BY <1>15, ConcatEmptySeq
    <3> QED  BY <3>1, <3>2, <3>3, <3>4, <3>5
  <2>3. Nat \subseteq S
    <3> HIDE DEF S
    <3> QED  BY <2>1, <2>2, NatInd
  <2>4. l - s \in Nat /\ s + (l - s) = l  BY <1>0
  <2>5. l - s \in S  BY <2>3, <2>4
  <2> QED  BY <1>0, <2>4, <2>5
<1> DEFINE kept == SubSeq(lines, 1, l)
<1>18. kept \in Seq(V)
  <2>1. \A i \in 1 .. l : lines[i] \in V
    <3>1. \A i \in 1 .. l : i \in 1 .. n  BY <1>0
    <3> QED  BY <1>4, <3>1 DEF n
  <2>2. l \in Int  BY <1>0
  <2> QED  BY <2>1, <2>2, SubSeqProperties
<1>19. F[l] = kept  BY <1>12
<1> HIDE DEF kept
<1> DEFINE Follows(i) == \E g \in Seq(V) : F[i] = kept \o g /\ G[i] = new \o g
           S == {i \in Nat : l + i <= n + 1 => Follows(l + i)}
<1>20. 0 \in S
  <2>1. kept \o <<>> = kept /\ new \o <<>> = new  BY <1>15, <1>18, ConcatEmptySeq
  <2>2. <<>> \in Seq(V) /\ l + 0 = l  BY <1>0
  <2>3. Follows(l)  BY <1>17, <1>19, <2>1, <2>2
  <2> HIDE DEF Follows
  <2> QED  BY <2>2, <2>3
<1>21. ASSUME NEW i \in Nat, i \in S  PROVE i + 1 \in S
  <2> SUFFICES ASSUME l + (i + 1) <= n + 1  PROVE Follows(l + (i + 1))
    OBVIOUS
  <2> DEFINE j == l + (i + 1)
  <2>1. /\ j \in 1 .. Len(P) /\ j \in 1 .. Len(Q) /\ j \in l + 1 .. n + 1
        /\ j - 1 = l + i /\ l + i <= n + 1
    BY <1>0, <1>1, <1>2
  <2>2. Follows(l + i)
    <3> HIDE DEF Follows
    <3> QED  BY <1>21, <2>1
  <2>3. PICK g \in Seq(V) : F[l + i] = kept \o g /\ G[l + i] = new \o g  BY <2>2
  <2> HIDE DEF j
  <2>4. F[j] = F[j - 1] \o P[j] /\ G[j] = G[j - 1] \o Q[j]  BY <1>10, <1>11, <2>1 DEF Flattens
  <2>5. Q[j] = P[j] /\ P[j] \in Seq(V)  BY <1>1, <1>9, <2>1
  <2> DEFINE p == P[j]
  <2>6. p \in Seq(V)  BY <2>5
  <2> HIDE DEF p
  <2>7. (kept \o g) \o p = kept \o (g \o p)  BY <1>18, <2>6, ConcatAssociative
  <2>8. (new \o g) \o p = new \o (g \o p)  BY <1>15, <2>6, ConcatAssociative
  <2>9. g \o p \in Seq(V)  BY <2>6, ConcatProperties
  <2>10. F[j] = kept \o (g \o p) /\ G[j] = new \o (g \o p)  BY <2>1, <2>3, <2>4, <2>5, <2>7, <2>8 DEF p
  <2> QED  BY <2>9, <2>10 DEF j
<1>22. Nat \subseteq S
  <2> HIDE DEF S
  <2> QED  BY <1>20, <1>21, NatInd
<1>23. Follows(n + 1)
  <2>1. (n + 1) - l \in Nat /\ l + ((n + 1) - l) = n + 1 /\ n + 1 <= n + 1  BY <1>0
  <2>2. (n + 1) - l \in S  BY <1>22, <2>1
  <2> HIDE DEF Follows
  <2> QED  BY <2>1, <2>2
<1>24. PICK g \in Seq(V) : F[n + 1] = kept \o g /\ G[n + 1] = new \o g  BY <1>23
<1>25. FlattenSeq(P) = F[n + 1] /\ FlattenSeq(Q) = G[n + 1]  BY <1>1, <1>2, <1>10, <1>11 DEF Flattens
<1> QED  BY <1>24, <1>25 DEF Replaces, P, Q, B, V, kept, new, front, s, l, R

(* A change that adds behind the last line.                                *)
LEMMA PiecesAdd ==
  ASSUME NEW c \in Change, NEW lines \in Seq(Seq(Symbol)), c.start = Len(lines) + 1
  PROVE  FlattenSeq(Pieces({c}, lines)) = lines \o LineSeq(c.replace)
<1> DEFINE n == Len(lines)
           P == Pieces({c}, lines)
           V == Seq(Symbol)
<1>0. n \in Nat /\ c.start = n + 1  OBVIOUS
<1>1. /\ P \in Seq(Seq(V)) /\ Len(P) = n + 1
      /\ \A i \in 1 .. n + 1 : P[i] = PieceOf({c}, lines, i)
  BY PiecesTyped
<1>2. Plain(P, lines, n)
  <2> SUFFICES ASSUME NEW i \in 1 .. n  PROVE P[i] = <<lines[i]>>  BY DEF Plain
  <2>1. i \in 1 .. n + 1 /\ ~(i > n) /\ c.start # i /\ ~(c.start < i)  BY <1>0
  <2>2. Starting({c}, i) = {} /\ ~Covered({c}, i)  BY <2>1 DEF Starting, Covered
  <2> QED  BY <1>1, <2>1, <2>2 DEF PieceOf
<1>3. P[n + 1] = LineSeq(c.replace)
  <2>1. n + 1 \in 1 .. n + 1  BY <1>0
  <2>2. Starting({c}, n + 1) = {c}  BY <1>0 DEF Starting
  <2>3. (CHOOSE d \in {c} : TRUE) = c  OBVIOUS
  <2> QED  BY <1>1, <2>1, <2>2, <2>3 DEF PieceOf
<1> HIDE DEF P, n, V
<1>a. lines \in Seq(V)  BY DEF V
<1>4. PICK F : Flattens(F, P, V)
  <2>1. Len(P) # 0  BY <1>0, <1>1
  <2> QED  BY <1>1, <2>1, FlattenHasRun
<1>5. F[n] = SubSeq(lines, 1, n)
  <2>1. n <= Len(P) /\ n <= Len(lines) /\ n \in 0 .. n  BY <1>0, <1>1 DEF n
  <2>2. \A i \in 0 .. n : F[i] = SubSeq(lines, 1, i)  BY <1>0, <1>1, <1>2, <1>a, <1>4, <2>1, FlattensLines
  <2> QED  BY <2>1, <2>2
<1>6. F[n + 1] = F[n] \o P[n + 1]
  <2>1. n + 1 \in 1 .. Len(P) /\ (n + 1) - 1 = n  BY <1>0, <1>1
  <2> QED  BY <1>4, <2>1 DEF Flattens
<1>7. SubSeq(lines, 1, n) = lines  BY <1>a, SubSeqFull DEF n
<1>8. FlattenSeq(P) = F[n + 1]  BY <1>1, <1>4 DEF Flattens
<1> QED  BY <1>3, <1>5, <1>6, <1>7, <1>8 DEF P

(* The changes of a file; what AsNumbered makes of them are the pieces.    *)
ChangesOf(f, changes, m) == {changes[k] : k \in {j \in 1 .. m : FileOf(changes[j].path) = f}}

(* AsNumbered and the pieces are the same.                                 *)
LEMMA NumberedByPieces ==
  ASSUME NEW changes \in Seq(Change), NEW f, NEW text \in Seq(Symbol), ByLines(changes),
         \A k \in 1 .. Len(changes) : changes[k].start <= LastLine(changes[k])
  PROVE  AsNumbered(f, changes, text) = FlattenSeq(Pieces(ChangesOf(f, changes, Len(changes)), LineSeq(text)))
<1> DEFINE n == Len(changes)
           A == ChangesOf(f, changes, n)
           lines == LineSeq(text)
           Here(i) == {k \in DOMAIN changes : FileOf(changes[k].path) = f /\ changes[k].start = i}
           Inside(i) == \E k \in DOMAIN changes :
                          FileOf(changes[k].path) = f /\ changes[k].start < i /\ i <= LastLine(changes[k])
           numbered == [i \in 1 .. Len(lines) + 1 |->
                          IF Here(i) # {} THEN LineSeq(changes[CHOOSE k \in Here(i) : TRUE].replace)
                          ELSE IF Inside(i) \/ i > Len(lines) THEN <<>> ELSE <<lines[i]>>]
<1>0. n \in Nat /\ DOMAIN changes = 1 .. n /\ \A k \in 1 .. n : changes[k] \in Change  OBVIOUS
<1>1. AsNumbered(f, changes, text) = FlattenSeq(numbered)  BY DEF AsNumbered
<1>2. \A d : d \in A <=> \E k \in 1 .. n : FileOf(changes[k].path) = f /\ d = changes[k]
  BY DEF ChangesOf
<1>3. \A k, l \in 1 .. n :
        FileOf(changes[k].path) = f /\ FileOf(changes[l].path) = f /\ changes[k].start = changes[l].start => k = l
  <2> SUFFICES ASSUME NEW k \in 1 .. n, NEW l \in 1 .. n, FileOf(changes[k].path) = f,
                      FileOf(changes[l].path) = f, changes[k].start = changes[l].start, k # l
               PROVE  FALSE
    OBVIOUS
  <2>1. k < l \/ l < k  BY <1>0
  <2>2. LastLine(changes[k]) < changes[l].start \/ LastLine(changes[l]) < changes[k].start
    BY <1>0, <2>1 DEF ByLines
  <2>3. /\ changes[k].start <= LastLine(changes[k]) /\ changes[l].start <= LastLine(changes[l])
        /\ changes[k].start \in Nat /\ LastLine(changes[k]) \in Nat
        /\ changes[l].start \in Nat /\ LastLine(changes[l]) \in Nat
    BY <1>0, ChangeNumbers
  <2> QED  BY <2>2, <2>3
<1>4. ASSUME NEW i \in 1 .. Len(lines) + 1
      PROVE  (IF Here(i) # {} THEN LineSeq(changes[CHOOSE k \in Here(i) : TRUE].replace)
              ELSE IF Inside(i) \/ i > Len(lines) THEN <<>> ELSE <<lines[i]>>) = PieceOf(A, lines, i)
  <2>1. Inside(i) <=> Covered(A, i)  BY <1>0, <1>2 DEF Covered
  <2>2. CASE Here(i) # {}
    <3> DEFINE k == CHOOSE j \in Here(i) : TRUE
    <3>1. k \in Here(i)  BY <2>2
    <3>2. k \in 1 .. n /\ FileOf(changes[k].path) = f /\ changes[k].start = i  BY <1>0, <3>1
    <3> HIDE DEF k
    <3>3. Starting(A, i) = {changes[k]}
      <4>1. changes[k] \in Starting(A, i)  BY <1>2, <3>2 DEF Starting
      <4>2. ASSUME NEW d \in Starting(A, i)  PROVE d = changes[k]
        <5>1. PICK l \in 1 .. n : FileOf(changes[l].path) = f /\ d = changes[l]  BY <1>2, <4>2 DEF Starting
        <5>2. changes[l].start = i  BY <4>2, <5>1 DEF Starting
        <5>3. k = l  BY <1>3, <3>2, <5>1, <5>2
        <5> QED  BY <5>1, <5>3
      <4> QED  BY <4>1, <4>2
    <3>4. (CHOOSE d \in {changes[k]} : TRUE) = changes[k]  OBVIOUS
    <3>5. PieceOf(A, lines, i) = LineSeq(changes[k].replace)  BY <3>3, <3>4 DEF PieceOf
    <3> QED  BY <2>2, <3>5 DEF k
  <2>3. CASE Here(i) = {}
    <3>1. Starting(A, i) = {}
      <4> SUFFICES ASSUME NEW d \in Starting(A, i)  PROVE FALSE  OBVIOUS
      <4>1. PICK l \in 1 .. n : FileOf(changes[l].path) = f /\ d = changes[l] /\ d.start = i
        BY <1>2 DEF Starting
      <4>2. l \in Here(i)  BY <1>0, <4>1
      <4> QED  BY <2>3, <4>2
    <3> HIDE DEF Here, Inside
    <3> QED  BY <2>1, <2>3, <3>1 DEF PieceOf
  <2> QED  BY <2>2, <2>3
<1>5. numbered = Pieces(A, lines)
  <2> HIDE DEF A, lines, Here, Inside
  <2> QED  BY <1>4 DEF Pieces
<1> QED  BY <1>1, <1>5

-------------------------------------------------------------------------------
(* The changes applied, one after the other.                               *)
Files == [refused : BOOLEAN, texts : [File -> Seq(Symbol)]]

(* A change makes a text of a text, or is refused.                         *)
LEMMA ChangedTyped ==
  ASSUME NEW text \in Seq(Symbol), NEW c \in Change
  PROVE  Changed(text, c).refused \in BOOLEAN /\ Changed(text, c).text \in Seq(Symbol)
<1>1. /\ c.start \in Nat /\ c.end \in Nat /\ c.find \in Seq(Symbol) /\ c.occurrence \in Nat
      /\ c.replace \in Seq(Symbol)
  BY ChangeNumbers
<1>2. CASE c.start > 0
  <2> DEFINE last == IF c.end = 0 THEN c.start ELSE c.end
  <2>1. last \in Nat  BY <1>1
  <2>2. Changed(text, c) = ReplaceLineRange(text, c.start, last, c.replace)  BY <1>2 DEF Changed
  <2> HIDE DEF last
  <2> QED  BY <1>1, <2>1, <2>2, RangeTyped
<1>3. CASE ~(c.start > 0) /\ c.find = <<>>
  <2>1. Changed(text, c) = Refused  BY <1>3 DEF Changed
  <2>2. <<>> \in Seq(Symbol)  OBVIOUS
  <2> QED  BY <2>1, <2>2 DEF Refused
<1>4. CASE ~(c.start > 0) /\ c.find # <<>>
  <2>1. Changed(text, c) = ReplaceOccurrence(text, c.find, c.replace, c.occurrence)  BY <1>4 DEF Changed
  <2> QED  BY <1>1, <2>1, OccurrenceTyped
<1> QED  BY <1>2, <1>3, <1>4

(* Applied to the files, it leaves files.                                  *)
LEMMA ApplyTyped ==
  ASSUME NEW files \in Files, NEW c \in Change
  PROVE  Apply(files, c) \in Files
<1>0. files.refused \in BOOLEAN /\ files.texts \in [File -> Seq(Symbol)]  BY DEF Files
<1>1. CASE files.refused \/ FileOf(c.path) = NoFile
  <2>1. Apply(files, c) = [files EXCEPT !.refused = TRUE]  BY <1>1 DEF Apply
  <2>2. [files EXCEPT !.refused = TRUE] \in Files  BY DEF Files
  <2> QED  BY <2>1, <2>2
<1>2. CASE ~(files.refused \/ FileOf(c.path) = NoFile)
  <2> DEFINE f == FileOf(c.path)
             next == Changed(files.texts[f], c)
  <2>1. f \in File
    <3>1. c.path \in Path  BY ChangeNumbers
    <3> QED  BY <1>2, <3>1, WorkAssumption
  <2>2. files.texts[f] \in Seq(Symbol)  BY <1>0, <2>1
  <2>3. next.refused \in BOOLEAN /\ next.text \in Seq(Symbol)  BY <2>2, ChangedTyped
  <2>4. Apply(files, c) = [refused |-> next.refused, texts |-> [files.texts EXCEPT ![f] = next.text]]
    BY <1>2 DEF Apply
  <2> HIDE DEF f, next
  <2>5. [files.texts EXCEPT ![f] = next.text] \in [File -> Seq(Symbol)]  BY <1>0, <2>3
  <2> QED  BY <2>3, <2>4, <2>5 DEF Files
<1> QED  BY <1>1, <1>2

Unpatched(texts) == [refused |-> FALSE, texts |-> texts]

Runs(st, changes, texts) ==
  /\ st \in [0 .. Len(changes) -> Files] /\ st[0] = Unpatched(texts)
  /\ \A i \in 1 .. Len(changes) : st[i] = Apply(st[i - 1], changes[i])
  /\ FoldLeft(Apply, Unpatched(texts), changes) = st[Len(changes)]

ApplyFold(iter, changes, texts) ==
  iter = [s \in SUBSET DOMAIN changes |->
            IF s = {} THEN Unpatched(texts) ELSE Apply(iter[s \ {Max(s)}], changes[Max(s)])]

(* A patch is what the loop over its changes ends with.                    *)
LEMMA PatchHasRun ==
  ASSUME NEW texts \in [File -> Seq(Symbol)], NEW changes \in Seq(Change)
  PROVE  \E st : Runs(st, changes, texts)
<1> DEFINE n == Len(changes)
           base == Unpatched(texts)
           step == [z \in (1 .. n) \X Files |-> Apply(z[2], changes[z[1]])]
<1>0. n \in Nat /\ DOMAIN changes = 1 .. n /\ \A i \in 1 .. n : changes[i] \in Change  OBVIOUS
<1>1. step \in [(1 .. n) \X Files -> Files]  BY <1>0, ApplyTyped
<1>2. base \in Files  BY DEF Files, Unpatched
<1> HIDE DEF n, step, base
<1>3. PICK h : Folds(h, n, Files, base, step)  BY <1>0, <1>1, <1>2, FoldExists
<1>4. ApplyFold(h, changes, texts)
  <2>0. h \in [SUBSET (1 .. n) -> Files]  BY <1>3 DEF Folds
  <2>1. ASSUME NEW s \in SUBSET (1 .. n)
        PROVE  h[s] = IF s = {} THEN base ELSE Apply(h[s \ {Max(s)}], changes[Max(s)])
    <3>1. CASE s = {}  BY <1>3, <3>1 DEF Folds
    <3>2. CASE s # {}
      <4>1. s \in SUBSET (0 .. n)  BY <1>0
      <4>2. Max(s) \in s  BY <1>0, <3>2, <4>1, HasMax
      <4>3. Max(s) \in 1 .. n /\ h[s \ {Max(s)}] \in Files  BY <2>0, <4>2
      <4>4. h[s] = step[<<Max(s), h[s \ {Max(s)}]>>]  BY <1>3, <3>2 DEF Folds
      <4>5. <<Max(s), h[s \ {Max(s)}]>> \in (1 .. n) \X Files  BY <4>3
      <4> QED  BY <3>2, <4>4, <4>5 DEF step
    <3> QED  BY <3>1, <3>2
  <2> QED  BY <1>0, <2>0, <2>1 DEF ApplyFold, base
<1> DEFINE iter == CHOOSE k : ApplyFold(k, changes, texts)
<1>5. ApplyFold(iter, changes, texts)  BY <1>4
<1>6. FoldLeft(Apply, base, changes) = iter[DOMAIN changes]
  BY DEF FoldLeft, MapThenFoldSet, ApplyFold, base
<1> HIDE DEF iter
<1> DEFINE g == [i \in 0 .. n |-> iter[1 .. i]]
<1>7. g[0] = base
  <2>1. 0 \in 0 .. n /\ 1 .. 0 = {}  BY <1>0
  <2>2. iter[{}] = base  BY <1>5 DEF ApplyFold, base
  <2> QED  BY <2>1, <2>2
<1>8. ASSUME NEW i \in 1 .. n  PROVE g[i] = Apply(g[i - 1], changes[i])
  <2>1. /\ i \in Nat /\ i \in 0 .. n /\ i - 1 \in 0 .. n /\ 1 .. i \in SUBSET (1 .. n) /\ i \in 1 .. i
    BY <1>0
  <2>2. Max(1 .. i) = i  BY <2>1, MaxOfInterval
  <2>3. (1 .. i) \ {i} = 1 .. (i - 1) /\ 1 .. i # {}
    <3>1. \A j \in 1 .. i : j # i => j \in 1 .. (i - 1)  BY <2>1
    <3>2. \A j \in 1 .. (i - 1) : j \in 1 .. i /\ j # i  BY <2>1
    <3>3. i \in 1 .. i  BY <2>1
    <3> QED  BY <3>1, <3>2, <3>3
  <2>4. iter[1 .. i] = Apply(iter[(1 .. i) \ {i}], changes[i])  BY <1>0, <1>5, <2>1, <2>2, <2>3 DEF ApplyFold
  <2> QED  BY <2>1, <2>3, <2>4
<1>9. FoldLeft(Apply, base, changes) = g[n]  BY <1>0, <1>6
<1> DEFINE S == {i \in Nat : i <= n => g[i] \in Files}
<1>d. DOMAIN g = 0 .. n /\ g = [i \in 0 .. n |-> g[i]]  OBVIOUS
<1> HIDE DEF g
<1>10. Nat \subseteq S
  <2>1. 0 \in S  BY <1>2, <1>7
  <2>2. ASSUME NEW i \in Nat, i \in S  PROVE i + 1 \in S
    <3> SUFFICES ASSUME i + 1 <= n  PROVE g[i + 1] \in Files  OBVIOUS
    <3>1. i + 1 \in 1 .. n /\ (i + 1) - 1 = i /\ i <= n  BY <1>0
    <3>2. g[i] \in Files  BY <2>2, <3>1
    <3>3. g[i + 1] = Apply(g[i], changes[i + 1])  BY <1>8, <3>1
    <3> QED  BY <1>0, <3>1, <3>2, <3>3, ApplyTyped
  <2> HIDE DEF S
  <2> QED  BY <2>1, <2>2, NatInd
<1>11. \A i \in 0 .. n : g[i] \in Files  BY <1>0, <1>10
<1>12. g \in [0 .. n -> Files]  BY <1>d, <1>11
<1>13. Runs(g, changes, texts)  BY <1>7, <1>8, <1>9, <1>12 DEF Runs, n, base
<1> QED  BY <1>13

(* Where nothing is refused, every change is made to the file it means.    *)
Step(st, changes, i) ==
  LET c == changes[i]
      f == FileOf(c.path)
  IN  /\ f \in File /\ ~Changed(st[i - 1].texts[f], c).refused
      /\ st[i].texts = [st[i - 1].texts EXCEPT ![f] = Changed(st[i - 1].texts[f], c).text]

(* This is so for each change, if the last one was not refused.            *)
LEMMA NotRefused ==
  ASSUME NEW texts \in [File -> Seq(Symbol)], NEW changes \in Seq(Change), NEW st, Runs(st, changes, texts),
         ~st[Len(changes)].refused
  PROVE  \A i \in 1 .. Len(changes) : Step(st, changes, i)
<1> DEFINE n == Len(changes)
           S == {k \in Nat : k <= n => ~st[n - k].refused}
<1>0. n \in Nat /\ \A i \in 1 .. n : changes[i] \in Change  OBVIOUS
<1>1. ASSUME NEW i \in 1 .. n  PROVE st[i] = Apply(st[i - 1], changes[i])
  BY DEF Runs
<1>2. ASSUME NEW i \in 1 .. n, ~st[i].refused  PROVE ~st[i - 1].refused /\ Step(st, changes, i)
  <2> DEFINE c == changes[i]
             f == FileOf(c.path)
             old == st[i - 1]
  <2>1. old \in Files
    <3>1. i - 1 \in 0 .. n  BY <1>0
    <3> QED  BY <3>1 DEF Runs
  <2>2. ~old.refused /\ f # NoFile
    <3> SUFFICES ASSUME old.refused \/ f = NoFile  PROVE FALSE  OBVIOUS
    <3>1. st[i] = [old EXCEPT !.refused = TRUE]  BY <1>1 DEF Apply
    <3>2. st[i].refused = TRUE
      <4> HIDE DEF old
      <4> QED  BY <2>1, <3>1 DEF Files
    <3> QED  BY <1>2, <3>2
  <2>3. f \in File
    <3>1. c \in Change  BY <1>0
    <3>2. c.path \in Path  BY <3>1, ChangeNumbers
    <3> QED  BY <2>2, <3>2, WorkAssumption
  <2> DEFINE next == Changed(old.texts[f], c)
  <2>4. st[i] = [refused |-> next.refused, texts |-> [old.texts EXCEPT ![f] = next.text]]
    BY <1>1, <2>2 DEF Apply
  <2>5. ~next.refused /\ st[i].texts = [old.texts EXCEPT ![f] = next.text]
    <3> HIDE DEF next, old, f
    <3> QED  BY <1>2, <2>4
  <2> QED  BY <2>2, <2>3, <2>5 DEF Step
<1>3. Nat \subseteq S
  <2>1. 0 \in S
    <3>1. n - 0 = n  BY <1>0
    <3> QED  BY <3>1
  <2>2. ASSUME NEW k \in Nat, k \in S  PROVE k + 1 \in S
    <3> SUFFICES ASSUME k + 1 <= n  PROVE ~st[n - (k + 1)].refused  OBVIOUS
    <3>1. n - k \in 1 .. n /\ (n - k) - 1 = n - (k + 1) /\ k <= n  BY <1>0
    <3>2. ~st[n - k].refused  BY <2>2, <3>1
    <3>3. ~st[(n - k) - 1].refused  BY <1>2, <3>1, <3>2
    <3> QED  BY <3>1, <3>3
  <2> HIDE DEF S
  <2> QED  BY <2>1, <2>2, NatInd
<1>4. ASSUME NEW i \in 1 .. n  PROVE Step(st, changes, i)
  <2>1. n - i \in Nat /\ n - i <= n /\ n - (n - i) = i  BY <1>0
  <2>2. n - i \in S  BY <1>3, <2>1
  <2>3. ~st[i].refused  BY <2>1, <2>2
  <2> QED  BY <1>2, <2>3
<1> QED  BY <1>4

(* A change with a first line goes by lines.                               *)
LEMMA ChangedByLines ==
  ASSUME NEW text, NEW c, c.start > 0
  PROVE  Changed(text, c) = ReplaceLineRange(text, c.start, LastLine(c), c.replace)
  BY DEF Changed, LastLine

(* No change of a patch goes backwards.                                    *)
LEMMA RangesRight ==
  ASSUME NEW texts \in [File -> Seq(Symbol)], NEW changes \in Seq(Change), NEW st, Runs(st, changes, texts),
         ~st[Len(changes)].refused, NEW i \in 1 .. Len(changes), changes[i].start > 0
  PROVE  changes[i].start <= LastLine(changes[i])
<1> DEFINE c == changes[i]
           f == FileOf(c.path)
           text == st[i - 1].texts[f]
<1>1. Step(st, changes, i)  BY NotRefused
<1>2. f \in File /\ ~Changed(text, c).refused  BY <1>1 DEF Step
<1>3. text \in Seq(Symbol)
  <2>1. i - 1 \in 0 .. Len(changes)  OBVIOUS
  <2>2. st[i - 1] \in Files  BY <2>1 DEF Runs
  <2> QED  BY <1>2, <2>2 DEF Files
<1>4. c \in Change  OBVIOUS
<1>5. c.start \in Nat /\ LastLine(c) \in Nat /\ c.replace \in Seq(Symbol)  BY <1>4, ChangeNumbers
<1>6. ~ReplaceLineRange(text, c.start, LastLine(c), c.replace).refused  BY <1>2, ChangedByLines
<1> HIDE DEF text, f
<1> QED  BY <1>3, <1>5, <1>6, LinesReplaced

(* After each change, the lines of a file are the pieces of the changes    *)
(* made so far: the next one is about lines before all of theirs, where    *)
(* the text is still the one the patch was asked for.                      *)
LEMMA LinesAsApplied ==
  ASSUME NEW texts \in [File -> Seq(Symbol)], NEW changes \in Seq(Change), NEW st, Runs(st, changes, texts),
         ~st[Len(changes)].refused, Upwards(changes), \A i \in 1 .. Len(changes) : changes[i].start > 0,
         NEW f \in File
  PROVE  LineSeq(st[Len(changes)].texts[f])
           = FlattenSeq(Pieces(ChangesOf(f, changes, Len(changes)), LineSeq(texts[f])))
<1> DEFINE n == Len(changes)
           lines == LineSeq(texts[f])
           A(m) == ChangesOf(f, changes, m)
           Made(m) == /\ LineSeq(st[m].texts[f]) = FlattenSeq(Pieces(A(m), lines))
                      /\ \A d \in A(m) : d.start <= Len(lines) + 1
           S == {m \in Nat : m <= n => Made(m)}
<1>0. n \in Nat /\ \A i \in 1 .. n : changes[i] \in Change  OBVIOUS
<1>1. lines \in Seq(Seq(Symbol)) /\ Len(lines) \in Nat
  <2>1. texts[f] \in Seq(Symbol)  OBVIOUS
  <2>2. lines \in Seq(Seq(Symbol))  BY <2>1, LinesTyped
  <2> HIDE DEF lines
  <2> QED  BY <2>2
<1>2. 0 \in S
  <2>1. A(0) = {}
    <3>1. 1 .. 0 = {}  OBVIOUS
    <3> QED  BY <3>1 DEF ChangesOf
  <2>2. st[0].texts[f] = texts[f]  BY DEF Runs, Unpatched
  <2>3. Made(0)
    <3> HIDE DEF A, lines
    <3>1. FlattenSeq(Pieces({}, lines)) = lines  BY <1>1, NoPieces
    <3> QED  BY <2>1, <2>2, <3>1 DEF lines
  <2> HIDE DEF Made
  <2> QED  BY <2>3
<1>3. ASSUME NEW m \in Nat, m \in S  PROVE m + 1 \in S
  <2> SUFFICES ASSUME m + 1 <= n  PROVE Made(m + 1)
    OBVIOUS
  <2> DEFINE c == changes[m + 1]
             text == st[m].texts[f]
             old == A(m)
             new == A(m + 1)
             X == LineSeq(text)
             R == LineSeq(c.replace)
             l == LastLine(c)
  <2>1. m + 1 \in 1 .. n /\ (m + 1) - 1 = m /\ m <= n /\ m \in 0 .. n  BY <1>0
  <2>2. Made(m)
    <3> HIDE DEF Made
    <3> QED  BY <1>3, <2>1
  <2>3. c \in Change  BY <1>0, <2>1
  <2>4. /\ FileOf(c.path) \in File /\ ~Changed(st[m].texts[FileOf(c.path)], c).refused
        /\ st[m + 1].texts = [st[m].texts EXCEPT ![FileOf(c.path)] = Changed(st[m].texts[FileOf(c.path)], c).text]
    <3>1. Step(st, changes, m + 1)  BY <2>1, NotRefused
    <3> QED  BY <2>1, <3>1 DEF Step
  <2>5. st[m].texts \in [File -> Seq(Symbol)]  BY <2>1 DEF Runs, Files
  <2>6. \A k \in 1 .. m + 1 : k \in 1 .. m \/ k = m + 1  OBVIOUS
  <2>7. \A k \in 1 .. m : k \in 1 .. m + 1  OBVIOUS
  <2>8. CASE FileOf(c.path) # f
    <3>1. st[m + 1].texts[f] = st[m].texts[f]  BY <2>4, <2>5, <2>8
    <3>2. new = old
      <4>1. {j \in 1 .. m + 1 : FileOf(changes[j].path) = f} = {j \in 1 .. m : FileOf(changes[j].path) = f}
        BY <2>6, <2>7, <2>8
      <4> QED  BY <4>1 DEF ChangesOf
    <3> HIDE DEF A, lines
    <3> QED  BY <2>2, <3>1, <3>2
  <2>9. CASE FileOf(c.path) = f
    <3>1. new = old \cup {c}
      <4>1. {j \in 1 .. m + 1 : FileOf(changes[j].path) = f}
              = {j \in 1 .. m : FileOf(changes[j].path) = f} \cup {m + 1}
        BY <2>6, <2>7, <2>9
      <4> QED  BY <4>1 DEF ChangesOf
    <3>2. old \in SUBSET Change /\ \A d \in old : l < d.start
      <4> SUFFICES ASSUME NEW d \in old  PROVE d \in Change /\ l < d.start
        OBVIOUS
      <4>1. PICK k \in 1 .. m : FileOf(changes[k].path) = f /\ d = changes[k]  BY DEF ChangesOf
      <4>2. k \in 1 .. n /\ k < m + 1  BY <1>0, <2>1
      <4>3. d \in Change  BY <1>0, <4>1, <4>2
      <4>4. l < d.start  BY <2>1, <2>9, <4>1, <4>2 DEF Upwards
      <4> QED  BY <4>3, <4>4
    <3>3. text \in Seq(Symbol)  BY <2>5
    <3>4. c.start \in Nat /\ c.start > 0 /\ l \in Nat /\ c.replace \in Seq(Symbol)
      BY <2>1, <2>3, ChangeNumbers
    <3>5. st[m + 1].texts[f] = Changed(text, c).text /\ ~Changed(text, c).refused  BY <2>4, <2>5, <2>9
    <3>6. /\ X = FlattenSeq(Pieces(old, lines)) /\ \A d \in old : d.start <= Len(lines) + 1
      BY <2>2
    <3>7. Changed(text, c) = ReplaceLineRange(text, c.start, l, c.replace)  BY <3>4, ChangedByLines
    <3> DEFINE after == LineSeq(st[m + 1].texts[f])
    <3> HIDE DEF text
    <3>8. /\ 1 <= c.start /\ c.start <= l
          /\ \/ c.start = Len(X) + 1 /\ after = X \o R
             \/ /\ l <= Len(X)
                /\ after = (SubSeq(X, 1, c.start - 1) \o R) \o SubSeq(X, l + 1, Len(X))
      <4>1. ~ReplaceLineRange(text, c.start, l, c.replace).refused  BY <3>5, <3>7
      <4>2. after = LineSeq(ReplaceLineRange(text, c.start, l, c.replace).text)  BY <3>5, <3>7
      <4> HIDE DEF l, after
      <4> QED  BY <3>3, <3>4, <4>1, <4>2, LinesReplaced
    <3>9. old = {} => X = lines
      <4> HIDE DEF old, lines, X
      <4> QED  BY <1>1, <3>6, NoPieces
    <3>10. X \in Seq(Seq(Symbol)) /\ R \in Seq(Seq(Symbol))  BY <3>3, <3>4, LinesTyped
    <3> HIDE DEF A, lines, X, R, after, l
    <3>11. Len(X) \in Nat  BY <3>10
    <3>a. c.start <= Len(lines) => Replaces(old, c, lines) \/ l > Len(lines)
      <4> SUFFICES ASSUME l <= Len(lines)  PROVE Replaces(old, c, lines)
        BY <1>1, <3>4
      <4>1. c.start <= LastLine(c) /\ LastLine(c) <= Len(lines) /\ \A d \in old : LastLine(c) < d.start
        BY <3>2, <3>8 DEF l
      <4> HIDE DEF c
      <4> QED  BY <1>1, <2>3, <3>2, <3>4, <4>1, PiecesReplace
    <3>b. l <= Len(lines) => Replaces(old, c, lines)  BY <1>1, <3>4, <3>8, <3>a
    <3>12. old # {} => l <= Len(lines)
      <4> SUFFICES ASSUME NEW d \in old  PROVE l <= Len(lines)
        OBVIOUS
      <4>1. d \in Change /\ l < d.start /\ d.start <= Len(lines) + 1  BY <3>2, <3>6
      <4>2. d.start \in Nat  BY <4>1, ChangeNumbers
      <4> QED  BY <1>1, <3>4, <4>1, <4>2
    <3>13. ASSUME NEW g \in Seq(Seq(Symbol)), l <= Len(lines), X = SubSeq(lines, 1, l) \o g
           PROVE  /\ Len(X) >= l /\ SubSeq(X, 1, c.start - 1) = SubSeq(lines, 1, c.start - 1)
                  /\ SubSeq(X, l + 1, Len(X)) = g
      <4> DEFINE V == Seq(Symbol)
                 kept == SubSeq(lines, 1, l)
      <4>1. \A i \in 1 .. l : lines[i] \in V
        <5>1. \A i \in 1 .. l : i \in 1 .. Len(lines)  BY <1>1, <3>4, <3>13
        <5> QED  BY <1>1, <5>1
      <4>2. kept \in Seq(V) /\ Len(kept) = l /\ \A i \in 1 .. l : kept[i] = lines[i]
        <5>1. /\ kept \in Seq(V) /\ Len(kept) = IF 1 <= l THEN l - 1 + 1 ELSE 0
              /\ \A i \in 1 .. l - 1 + 1 : kept[i] = lines[1 + i - 1]
          BY <3>4, <4>1, SubSeqProperties
        <5>2. l - 1 + 1 = l /\ 1 <= l /\ \A i \in 1 .. l : 1 + i - 1 = i  BY <3>4, <3>8
        <5> HIDE DEF kept
        <5> QED  BY <5>1, <5>2
      <4>3. X = kept \o g  BY <3>13
      <4> HIDE DEF kept
      <4>4. /\ Len(X) = l + Len(g) /\ Len(g) \in Nat
            /\ \A i \in 1 .. l + Len(g) : X[i] = IF i <= l THEN kept[i] ELSE g[i - l]
        <5>1. /\ Len(X) = Len(kept) + Len(g)
              /\ \A i \in 1 .. Len(kept) + Len(g) : X[i] = IF i <= Len(kept) THEN kept[i] ELSE g[i - Len(kept)]
          BY <4>2, <4>3, ConcatProperties
        <5>2. Len(g) \in Nat  OBVIOUS
        <5>3. Len(kept) = l  BY <4>2
        <5> QED  BY <5>1, <5>2, <5>3
      <4>5. SubSeq(X, Len(kept) + 1, Len(X)) = g  BY <4>2, <4>3, ConcatParts
      <4>6. ASSUME NEW i \in 1 .. c.start - 1
            PROVE  X[i] \in V /\ X[i] = lines[i + (1 - 1)]
        <5>0. Len(g) \in Nat /\ l \in Nat /\ c.start \in Nat /\ c.start <= l  BY <3>4, <3>8, <4>4
        <5>1. i \in 1 .. l /\ i <= l /\ i \in 1 .. l + Len(g) /\ i + (1 - 1) = i
          <6> HIDE DEF c
          <6> QED  BY <5>0
        <5> QED  BY <4>1, <4>2, <4>4, <5>1
      <4>7. c.start - 1 \in Int  BY <3>4
      <4> DEFINE k == c.start - 1
      <4>8. SubSeq(X, 1, k) = SubSeq(lines, 1, k)
        <5>1. k \in Int /\ k - 1 = k - 1 /\ \A i \in 1 .. k : X[i] \in V /\ X[i] = lines[i + (1 - 1)]
          BY <4>6, <4>7
        <5> HIDE DEF k, V
        <5> QED  BY <5>1, SameSlice
      <4>9. Len(X) >= l  BY <3>4, <4>4
      <4> QED  BY <4>2, <4>5, <4>8, <4>9
    <3>14. CASE c.start = Len(X) + 1 /\ after = X \o R
      <4>1. old = {}
        <5> SUFFICES ASSUME old # {}  PROVE FALSE  OBVIOUS
        <5>1. l <= Len(lines)  BY <3>12
        <5>2. PICK g \in Seq(Seq(Symbol)) : X = SubSeq(lines, 1, l) \o g
          BY <3>6, <3>b, <5>1 DEF Replaces, l
        <5>3. Len(X) >= l  BY <3>13, <5>1, <5>2
        <5> QED  BY <3>4, <3>8, <3>11, <3>14, <5>3
      <4>2. X = lines /\ c.start = Len(lines) + 1 /\ new = {c}  BY <3>1, <3>9, <3>14, <4>1
      <4>3. FlattenSeq(Pieces({c}, lines)) = lines \o R
        <5> HIDE DEF c
        <5> QED  BY <1>1, <2>3, <4>2, PiecesAdd DEF R
      <4>4. \A d \in new : d.start <= Len(lines) + 1  BY <1>1, <4>2
      <4> QED  BY <3>14, <4>2, <4>3, <4>4 DEF after
    <3>15. CASE l <= Len(X) /\ after = (SubSeq(X, 1, c.start - 1) \o R) \o SubSeq(X, l + 1, Len(X))
      <4>1. l <= Len(lines)  BY <3>9, <3>12, <3>15
      <4>2. PICK g \in Seq(Seq(Symbol)) :
              /\ X = SubSeq(lines, 1, l) \o g
              /\ FlattenSeq(Pieces(new, lines)) = (SubSeq(lines, 1, c.start - 1) \o R) \o g
        BY <3>1, <3>6, <3>b, <4>1 DEF Replaces, l, R
      <4>3. /\ SubSeq(X, 1, c.start - 1) = SubSeq(lines, 1, c.start - 1)
            /\ SubSeq(X, l + 1, Len(X)) = g
        BY <3>13, <4>1, <4>2
      <4>4. \A d \in new : d.start <= Len(lines) + 1
        <5>1. c.start <= Len(lines) + 1  BY <1>1, <3>4, <3>8, <4>1
        <5> QED  BY <3>1, <3>6, <5>1
      <4> QED  BY <3>15, <4>2, <4>3, <4>4 DEF after
    <3> QED  BY <3>8, <3>14, <3>15
  <2> QED  BY <2>8, <2>9
<1>4. Nat \subseteq S
  <2> HIDE DEF S
  <2> QED  BY <1>2, <1>3, NatInd
<1>5. Made(n)
  <2> HIDE DEF Made
  <2> QED  BY <1>0, <1>4
<1> QED  BY <1>5

(* What BuildPatch makes.                                                  *)
LEMMA PatchTyped ==
  ASSUME NEW texts \in [File -> Seq(Symbol)], NEW changes \in Seq(Change)
  PROVE  Patched(texts, changes) \in Files
<1>1. PICK g : Sorts(g, changes)  BY OrderedHasRun
<1>2. Ordered(changes) \in Seq(Change)  BY <1>1 DEF Sorts
<1>3. PICK st : Runs(st, Ordered(changes), texts)  BY <1>2, PatchHasRun
<1>4. Len(Ordered(changes)) \in 0 .. Len(Ordered(changes))  BY <1>2
<1>5. st[Len(Ordered(changes))] \in Files  BY <1>3, <1>4 DEF Runs
<1>6. Patched(texts, changes) = st[Len(Ordered(changes))]  BY <1>3 DEF Runs, Patched, Unpatched
<1> QED  BY <1>5, <1>6

(* A patch replaces the lines it was asked to (buildWorkspacePatch).       *)
LEMMA PatchedAsNumbered ==
  ASSUME NEW texts \in [File -> Seq(Symbol)], NEW changes \in Seq(Change), ByLines(changes),
         ~Patched(texts, changes).refused, NEW f \in File
  PROVE  LineSeq(Patched(texts, changes).texts[f]) = AsNumbered(f, changes, texts[f])
<1> DEFINE n == Len(changes)
           sorted == Ordered(changes)
<1>0. n \in Nat /\ n \in 0 .. n /\ DOMAIN changes = 1 .. n  OBVIOUS
<1>1. PICK g : Sorts(g, changes)  BY OrderedHasRun
<1>2. sorted = g[n] /\ Kept(g[n], changes, n)  BY <1>0, <1>1, SortKeeps DEF Sorts
<1>3. /\ sorted \in Seq(Change) /\ Len(sorted) = n
      /\ \A q \in 1 .. n : \E k \in 1 .. n : sorted[q] = changes[k]
      /\ \A k \in 1 .. n : \E q \in 1 .. n : sorted[q] = changes[k]
  BY <1>2 DEF Kept
<1> HIDE DEF sorted
<1>4. PICK st : Runs(st, sorted, texts)  BY <1>3, PatchHasRun
<1>5. Patched(texts, changes) = st[Len(sorted)]  BY <1>4 DEF Runs, Patched, Unpatched, sorted
<1>6. ~st[Len(sorted)].refused  BY <1>5
<1>7. \A k \in 1 .. n : changes[k].start > 0  BY <1>0 DEF ByLines
<1>8. \A q \in 1 .. Len(sorted) : sorted[q].start > 0  BY <1>3, <1>7
<1>9. \A q \in 1 .. Len(sorted) : sorted[q].start <= LastLine(sorted[q])
  <2> SUFFICES ASSUME NEW q \in 1 .. Len(sorted)  PROVE sorted[q].start <= LastLine(sorted[q])
    OBVIOUS
  <2>1. sorted[q].start > 0  BY <1>8
  <2> QED  BY <1>3, <1>4, <1>6, <2>1, RangesRight
<1>10. \A k \in 1 .. n : changes[k].start <= LastLine(changes[k])
  <2> SUFFICES ASSUME NEW k \in 1 .. n  PROVE changes[k].start <= LastLine(changes[k])
    OBVIOUS
  <2>1. PICK q \in 1 .. n : sorted[q] = changes[k]  BY <1>3
  <2> QED  BY <1>3, <1>9, <2>1
<1>11. Upwards(sorted)  BY <1>1, <1>2, <1>10, SortOrders
<1>12. LineSeq(st[Len(sorted)].texts[f])
         = FlattenSeq(Pieces(ChangesOf(f, sorted, Len(sorted)), LineSeq(texts[f])))
  <2>1. sorted \in Seq(Change)  BY <1>3
  <2>2. \A i \in 1 .. Len(sorted) : sorted[i].start > 0  BY <1>8
  <2> HIDE DEF n
  <2> QED  BY <1>4, <1>6, <1>11, <2>1, <2>2, LinesAsApplied
<1>13. ChangesOf(f, sorted, Len(sorted)) = ChangesOf(f, changes, n)
  <2>1. ASSUME NEW d \in ChangesOf(f, sorted, n)  PROVE d \in ChangesOf(f, changes, n)
    <3>1. PICK q \in 1 .. n : FileOf(sorted[q].path) = f /\ d = sorted[q]  BY <2>1 DEF ChangesOf
    <3>2. PICK k \in 1 .. n : sorted[q] = changes[k]  BY <1>3
    <3> QED  BY <3>1, <3>2 DEF ChangesOf
  <2>2. ASSUME NEW d \in ChangesOf(f, changes, n)  PROVE d \in ChangesOf(f, sorted, n)
    <3>1. PICK k \in 1 .. n : FileOf(changes[k].path) = f /\ d = changes[k]  BY <2>2 DEF ChangesOf
    <3>2. PICK q \in 1 .. n : sorted[q] = changes[k]  BY <1>3
    <3> QED  BY <3>1, <3>2 DEF ChangesOf
  <2> QED  BY <1>3, <2>1, <2>2
<1>14. AsNumbered(f, changes, texts[f]) = FlattenSeq(Pieces(ChangesOf(f, changes, n), LineSeq(texts[f])))
  <2>1. texts[f] \in Seq(Symbol)  OBVIOUS
  <2> QED  BY <1>10, <2>1, NumberedByPieces
<1> QED  BY <1>5, <1>12, <1>13, <1>14

-------------------------------------------------------------------------------
(* The patch last built is the answer to what was asked, on the files as   *)
(* they were (buildWorkspacePatch).                                        *)
PatchAnswers ==
  built # Nothing =>
    /\ built.patch = Patched(built.from, built.asked).texts
    /\ ~Patched(built.from, built.asked).refused

(* At the start.                                                           *)
LEMMA WorkInitTyped ==
  WorkInit => WorkTypeOK /\ PatchAnswers
<1> SUFFICES ASSUME WorkInit  PROVE WorkTypeOK /\ PatchAnswers
  OBVIOUS
<1>1. disk \in [File -> Seq(Symbol)]  BY WorkAssumption DEF WorkInit
<1> QED  BY <1>1 DEF WorkInit, WorkTypeOK, PatchAnswers

(* And at every step: only BuildPatch answers.                             *)
LEMMA WorkStepTyped ==
  WorkTypeOK /\ PatchAnswers /\ [WorkNext]_workVars => WorkTypeOK' /\ PatchAnswers'
<1> SUFFICES ASSUME WorkTypeOK, PatchAnswers, [WorkNext]_workVars  PROVE WorkTypeOK' /\ PatchAnswers'
  OBVIOUS
<1> USE DEF WorkTypeOK
<1>1. CASE Import  BY <1>1 DEF Import, PatchAnswers
<1>2. CASE ApplyPatch
  <2> DEFINE new == [f \in File |-> IF applying.from[f] # applying.patch[f] THEN applying.patch[f] ELSE disk[f]]
  <2>1. {applying.from, applying.patch} \subseteq [File -> Seq(Symbol)]  BY <1>2 DEF ApplyPatch
  <2>2. new \in [File -> Seq(Symbol)]  BY <2>1
  <2>3. disk' \in [File -> Seq(Symbol)]
    <3> HIDE DEF new
    <3>1. disk' = new \/ disk' = disk  BY <1>2 DEF ApplyPatch, new
    <3> QED  BY <2>2, <3>1
  <2> QED  BY <1>2, <2>3 DEF ApplyPatch, PatchAnswers
<1>3. CASE RestartWorkspaces  BY <1>3 DEF RestartWorkspaces, PatchAnswers
<1>4. ASSUME NEW changes \in ChangeLists, BuildPatch(changes)  PROVE WorkTypeOK' /\ PatchAnswers'
  <2> DEFINE after == Patched(disk, changes)
             answer == [asked |-> changes, from |-> disk, patch |-> after.texts]
  <2>1. changes \in Seq(Change)  BY WorkAssumption
  <2>2. after \in Files  BY <2>1, PatchTyped
  <2>3. after.texts \in [File -> Seq(Symbol)]  BY <2>2 DEF Files
  <2>4. ~after.refused /\ built' = answer /\ edits' = edits + 1 /\ UNCHANGED <<imported, disk, applying>>
    BY <1>4 DEF BuildPatch
  <2> HIDE DEF after
  <2>5. built'.asked = changes /\ built'.from = disk /\ built'.patch = after.texts  BY <2>4
  <2>6. WorkTypeOK'  BY <2>3, <2>4, <2>5
  <2>7. PatchAnswers'  BY <2>4, <2>5 DEF PatchAnswers, after
  <2> QED  BY <2>6, <2>7
<1>5. ASSUME NEW dryRun \in BOOLEAN, CheckPatch(dryRun)  PROVE WorkTypeOK' /\ PatchAnswers'
  <2>1. applying' = Nothing \/ applying' = built  BY <1>5 DEF CheckPatch
  <2>2. built # Nothing /\ UNCHANGED <<imported, disk, built, edits>>  BY <1>5 DEF CheckPatch
  <2> QED  BY <2>1, <2>2 DEF PatchAnswers
<1>6. ASSUME NEW f \in File, NEW text \in Texts, EditFile(f, text)  PROVE WorkTypeOK' /\ PatchAnswers'
  <2>1. text \in Seq(Symbol)  BY WorkAssumption
  <2>2. disk' \in [File -> Seq(Symbol)]  BY <1>6, <2>1 DEF EditFile
  <2> QED  BY <1>6, <2>2 DEF EditFile, PatchAnswers
<1>7. CASE UNCHANGED workVars  BY <1>7 DEF workVars, PatchAnswers
<1> QED  BY <1>1, <1>2, <1>3, <1>4, <1>5, <1>6, <1>7 DEF WorkNext

(* Every answer has the lines asked for.                                   *)
LEMMA AnsweredAsNumbered ==
  WorkTypeOK /\ PatchAnswers => LinesAsNumbered
<1> SUFFICES ASSUME WorkTypeOK, PatchAnswers, built # Nothing, ByLines(built.asked), NEW f \in File
             PROVE  LineSeq(built.patch[f]) = AsNumbered(f, built.asked, built.from[f])
  BY DEF LinesAsNumbered
<1>1. built.asked \in Seq(Change) /\ built.from \in [File -> Seq(Symbol)]
  BY WorkAssumption DEF WorkTypeOK
<1>2. built.patch = Patched(built.from, built.asked).texts /\ ~Patched(built.from, built.asked).refused
  BY DEF PatchAnswers
<1> QED  BY <1>1, <1>2, PatchedAsNumbered

(* The workspaces' state has its types: every text a patch makes, and so   *)
(* every file, is one of symbols (workspace.Handler).                      *)
THEOREM WorkspaceTypes == WorkSpec => []WorkTypeOK
<1>1. WorkInit => WorkTypeOK /\ PatchAnswers  BY WorkInitTyped
<1>2. WorkTypeOK /\ PatchAnswers /\ [WorkNext]_workVars => WorkTypeOK' /\ PatchAnswers'  BY WorkStepTyped
<1> QED  BY <1>1, <1>2, PTL DEF WorkSpec

(* Where the changes of a request go by lines, every one of them replaces  *)
(* the lines it names, as they were when the patch was asked for, however  *)
(* many lines the others add and remove (buildWorkspacePatch,              *)
(* replaceLineRange).                                                      *)
THEOREM PatchesByLine == WorkSpec => []LinesAsNumbered
<1>1. WorkInit => WorkTypeOK /\ PatchAnswers  BY WorkInitTyped
<1>2. WorkTypeOK /\ PatchAnswers /\ [WorkNext]_workVars => WorkTypeOK' /\ PatchAnswers'  BY WorkStepTyped
<1>3. WorkTypeOK /\ PatchAnswers => LinesAsNumbered  BY AnsweredAsNumbered
<1> QED  BY <1>1, <1>2, <1>3, PTL DEF WorkSpec
===============================================================================
