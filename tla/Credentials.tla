------------------------------ MODULE Credentials ------------------------------
(***************************************************************************)
(* Website credentials (browsercredential.Service): a row of the database  *)
(* that says where and as whom to log in, and the secret of it, which is   *)
(* kept in the vault of the external program agent-browser under a name    *)
(* the row holds.  Nothing makes the two writes one.                       *)
(*                                                                         *)
(* A secret is the address and the account it was saved with; a password   *)
(* is not told apart from another.  A step is one statement of the         *)
(* database or one run of agent-browser, which may fail before or after it *)
(* has done its work (its time limit ends it at any point).                *)
(***************************************************************************)
EXTENDS Naturals

CONSTANTS
  Credential,
  Address, Account,                  \* what may be asked for
  Absent,                            \* no secret, no call
  Visit, MaxVisits, MaxVaultFaults   \* the calls under way; bounds

VARIABLES
  site,        \* table site_credential
  vault,       \* the secrets, by the row that names them
  visit,       \* the calls under way
  visits, vaultFaults,  \* what the bounds count
  overlapped,  \* ghost: credentials that two calls have worked on at a time
  failed       \* ghost: credentials a call has left half done since the last update

credentialVars == <<site, vault, visit, visits, vaultFaults, overlapped, failed>>

Secret == [address : Address, account : Account]
NoSite == [state |-> "none", address |-> Absent, account |-> Absent, enabled |-> FALSE]
Filled == [state : {"live", "deleted"}, address : Address, account : Account, enabled : BOOLEAN]
Labels == {"insertVault", "insertSite", "undoVault", "updateVault", "saveSite",
           "deleteVault", "deleteSite"}

Underway == [pc : Labels, of : Credential, item : Filled]

ASSUME CredentialAssumption == Absent \notin Underway

CredentialTypeOK ==
  /\ site \in [Credential -> Filled \cup {NoSite}]
  /\ vault \in [Credential -> Secret \cup {Absent}]
  /\ visit \in [Visit -> Underway \cup {Absent}]
  /\ visits \in Nat /\ vaultFaults \in Nat
  /\ overlapped \subseteq Credential /\ failed \subseteq Credential

CredentialInit ==
  /\ site = [c \in Credential |-> NoSite]
  /\ vault = [c \in Credential |-> Absent]
  /\ visit = [v \in Visit |-> Absent]
  /\ visits = 0 /\ vaultFaults = 0
  /\ overlapped = {} /\ failed = {}

-------------------------------------------------------------------------------
(* A call starts with what it has read and been asked; goes on; ends.      *)
Enters(v, c, pc, item) ==
  /\ visit[v] = Absent
  /\ visits < MaxVisits /\ visits' = visits + 1
  /\ visit' = [visit EXCEPT ![v] = [pc |-> pc, of |-> c, item |-> item]]
  /\ overlapped' = IF \E w \in Visit : visit[w] # Absent /\ visit[w].of = c
                   THEN overlapped \cup {c} ELSE overlapped
  /\ UNCHANGED <<site, vault, vaultFaults, failed>>

At(v, pc) == visit[v] # Absent /\ visit[v].pc = pc

Proceeds(v, pc) == visit' = [visit EXCEPT ![v].pc = pc] /\ UNCHANGED <<visits, overlapped>>

Leaves(v) == visit' = [visit EXCEPT ![v] = Absent] /\ UNCHANGED <<visits, overlapped>>

Fault == vaultFaults < MaxVaultFaults /\ vaultFaults' = vaultFaults + 1

SecretOf(item) == [address |-> item.address, account |-> item.account]

(* A run of agent-browser that leaves the given secret and goes on at the  *)
(* given label, or fails, having done its work or not, and ends the call.  *)
RunsVault(v, secret, next) ==
  LET c == visit[v].of
      put == vault' = [vault EXCEPT ![c] = secret]
  IN  \/ put /\ Proceeds(v, next) /\ UNCHANGED <<vaultFaults, failed>>
      \/ /\ Fault /\ Leaves(v)
         /\ put \/ UNCHANGED vault
         /\ failed' = failed \cup {c}

-------------------------------------------------------------------------------
(* Create: the secret, then the row; the secret is taken back without it.  *)
CreateCredential(v, c, address, account, enabled) ==
  /\ site[c].state = "none"
  /\ \A w \in Visit : visit[w] # Absent => visit[w].of # c
  /\ Enters(v, c, "insertVault",
            [state |-> "live", address |-> address, account |-> account, enabled |-> enabled])

InsertVault(v) ==
  /\ At(v, "insertVault")
  /\ RunsVault(v, SecretOf(visit[v].item), "insertSite")
  /\ UNCHANGED site

InsertSite(v) ==
  /\ At(v, "insertSite")
  /\ \/ /\ site' = [site EXCEPT ![visit[v].of] = visit[v].item]
        /\ failed' = failed \ {visit[v].of}
        /\ Leaves(v) /\ UNCHANGED vaultFaults
     \/ Fault /\ Proceeds(v, "undoVault") /\ UNCHANGED <<site, failed>>
  /\ UNCHANGED vault

UndoVault(v) ==
  LET c == visit[v].of IN
  /\ At(v, "undoVault")
  /\ Leaves(v)
  /\ \/ vault' = [vault EXCEPT ![c] = Absent] /\ UNCHANGED <<vaultFaults, failed>>
     \/ Fault /\ failed' = failed \cup {c} /\ UNCHANGED vault
  /\ UNCHANGED site

-------------------------------------------------------------------------------
(* Update: a new address needs a new secret.                               *)

(* Faulty variant: the address may change by itself.                       *)
UpdateCredentialFreely(v, c, address, account, enabled) ==
  /\ site[c].state = "live"
  /\ IF account = Absent
     THEN Enters(v, c, "saveSite", [site[c] EXCEPT !.address = address, !.enabled = enabled])
     ELSE Enters(v, c, "updateVault", [site[c] EXCEPT !.address = address, !.account = account,
                                                     !.enabled = enabled])

UpdateCredential(v, c, address, account, enabled) ==
  /\ site[c].state = "live"
  /\ IF account = Absent
     THEN /\ address = site[c].address
          /\ Enters(v, c, "saveSite", [site[c] EXCEPT !.enabled = enabled])
     ELSE Enters(v, c, "updateVault", [site[c] EXCEPT !.address = address, !.account = account,
                                                     !.enabled = enabled])

UpdateVault(v) ==
  /\ At(v, "updateVault")
  /\ RunsVault(v, SecretOf(visit[v].item), "saveSite")
  /\ UNCHANGED site

(* Save puts the row that was read, with its changes, over the whole row.  *)
SaveSite(v) ==
  LET c == visit[v].of IN
  /\ At(v, "saveSite")
  /\ Leaves(v)
  /\ \/ /\ site' = [site EXCEPT ![c] = visit[v].item]
        /\ failed' = IF vault[c] = SecretOf(visit[v].item) THEN failed \ {c} ELSE failed
        /\ UNCHANGED vaultFaults
     \/ Fault /\ failed' = failed \cup {c} /\ UNCHANGED site
  /\ UNCHANGED vault

-------------------------------------------------------------------------------
(* Delete: the secret, then the row.                                       *)
DeleteCredential(v, c) ==
  /\ site[c].state = "live"
  /\ Enters(v, c, "deleteVault", site[c])

DeleteVault(v) ==
  /\ At(v, "deleteVault")
  /\ RunsVault(v, Absent, "deleteSite")
  /\ UNCHANGED site

DeleteSite(v) ==
  LET c == visit[v].of IN
  /\ At(v, "deleteSite")
  /\ Leaves(v)
  /\ \/ /\ site' = IF site[c].state = "live"
                   THEN [site EXCEPT ![c].state = "deleted", ![c].enabled = FALSE] ELSE site
        /\ UNCHANGED <<vaultFaults, failed>>
     \/ Fault /\ failed' = failed \cup {c} /\ UNCHANGED site
  /\ UNCHANGED vault

(* The service ends, with every call under way.                            *)
CrashVisits ==
  LET under == {v \in Visit : visit[v] # Absent} IN
  /\ under # {}
  /\ Fault
  /\ visit' = [v \in Visit |-> Absent]
  /\ failed' = failed \cup {visit[v].of : v \in under}
  /\ UNCHANGED <<site, vault, visits, overlapped>>

CredentialNext ==
  \/ \E v \in Visit, c \in Credential :
       \/ DeleteCredential(v, c)
       \/ \E address \in Address, account \in Account \cup {Absent}, enabled \in BOOLEAN :
            \/ account # Absent /\ CreateCredential(v, c, address, account, enabled)
            \/ UpdateCredential(v, c, address, account, enabled)
  \/ \E v \in Visit :
       \/ InsertVault(v) \/ InsertSite(v) \/ UndoVault(v) \/ UpdateVault(v)
       \/ SaveSite(v) \/ DeleteVault(v) \/ DeleteSite(v)
  \/ CrashVisits

CredentialSpec == CredentialInit /\ [][CredentialNext]_credentialVars

-------------------------------------------------------------------------------
(* Properties.                                                             *)

(* The secret follows the row.  A deleted row has left no secret behind,   *)
(* whatever has failed (Delete, the order of its two steps); and a row     *)
(* that is not being changed logs in where it says and as whom it says,    *)
(* unless a call on it was left half done (Create, Update).  Neither holds *)
(* of a credential two calls have worked on at once: Save, for one, brings *)
(* back a row that was deleted since it was read.                          *)
Quiet(c) == \A v \in Visit : visit[v] # Absent => visit[v].of # c

SecretFollowsRow ==
  \A c \in Credential \ overlapped :
    /\ site[c].state = "deleted" => vault[c] = Absent
    /\ (site[c].state = "live" /\ Quiet(c) /\ c \notin failed) => vault[c] = SecretOf(site[c])
===============================================================================
