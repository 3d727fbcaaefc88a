------------------------------- MODULE Accounts --------------------------------
(***************************************************************************)
(* Users, their sessions and their avatars (SysUserService, Auth, the      *)
(* handler of avatars).                                                    *)
(*                                                                         *)
(* No constraint of the database makes the name of a user unique; every    *)
(* call reads, checks, and then writes, and a request is admitted by two   *)
(* reads, of the session and of its user.  A step is one statement or one  *)
(* write of a file.  A password is left out: a call that gives a wrong one *)
(* changes nothing, and so does one that ends at a read or at an only      *)
(* write that fails; nick names, levels and the audit log are left out.    *)
(***************************************************************************)
EXTENDS Naturals, FiniteSets

CONSTANTS
  Member, MemberName,              \* rows and names of users
  Token,                           \* sessions
  Visitor, MaxVisitorCalls,        \* the calls under way at a time; bound: their number
  MaxMemberFaults,                 \* bound: statements that fail
  Without                          \* no row, no session, no call, no avatar

VARIABLES
  member,       \* table sys_user
  session,      \* table sys_user_session
  avatars,      \* the files in the directory of avatars, by the call that wrote them
  visitor,      \* the calls under way
  visitorCalls, memberFaults,  \* what the bounds count
  doubtful,     \* ghost: names that may have been given twice
  unread,       \* ghost: users whose avatar's answer could not be read
  lent          \* ghost: avatars that an update gave to a user who did not have them

ghosts == <<doubtful, unread, lent>>
accountVars == <<member, session, avatars, visitor, visitorCalls, memberFaults, ghosts>>

MemberRow == [state : {"live", "deleted"}, name : MemberName, on : BOOLEAN, avatar : Nat]
MemberSession == [of : Member, revoked : BOOLEAN, expired : BOOLEAN]
VisitorCall ==
  [pc : {"create", "issue", "user", "admitted", "avatarFile", "avatarRow", "avatarRead", "avatarOld",
         "avatarUndo"},
   of : Member \cup {Without}, name : MemberName \cup {Without}, token : Token \cup {Without},
   call : Nat, old : Nat, wellBegun : BOOLEAN]

ASSUME AccountAssumption ==
  /\ Without \notin Member \cup Token
  /\ Without \notin MemberRow /\ Without \notin MemberSession /\ Without \notin VisitorCall
  /\ MaxVisitorCalls \in Nat /\ MaxMemberFaults \in Nat

AccountTypeOK ==
  /\ member \in [Member -> MemberRow \cup {Without}]
  /\ session \in [Token -> MemberSession \cup {Without}]
  /\ avatars \subseteq 1..MaxVisitorCalls
  /\ visitor \in [Visitor -> VisitorCall \cup {Without}]
  /\ visitorCalls \in 0..MaxVisitorCalls /\ memberFaults \in 0..MaxMemberFaults
  /\ doubtful \subseteq MemberName /\ unread \subseteq Member /\ lent \subseteq 1..MaxVisitorCalls

AccountInit ==
  /\ member = [m \in Member |-> Without]
  /\ session = [t \in Token |-> Without]
  /\ avatars = {}
  /\ visitor = [v \in Visitor |-> Without]
  /\ visitorCalls = 0 /\ memberFaults = 0
  /\ doubtful = {} /\ unread = {} /\ lent = {}

-------------------------------------------------------------------------------
Live(m) == member[m] # Without /\ member[m].state = "live"
Named(name) == {m \in Member : member[m] # Without /\ member[m].name = name}

NewCall == [pc |-> "create", of |-> Without, name |-> Without, token |-> Without,
            call |-> visitorCalls + 1, old |-> 0, wellBegun |-> TRUE]

Calls(v, fields) ==
  /\ visitor[v] = Without
  /\ visitorCalls < MaxVisitorCalls /\ visitorCalls' = visitorCalls + 1
  /\ visitor' = [visitor EXCEPT ![v] = fields]

Standing(v, pc) == visitor[v] # Without /\ visitor[v].pc = pc
Steps(v, pc) == visitor' = [visitor EXCEPT ![v].pc = pc]
Done(v) == visitor' = [visitor EXCEPT ![v] = Without]
FaultOf == memberFaults < MaxMemberFaults /\ memberFaults' = memberFaults + 1

(* A query by name answers with one row, whichever, deleted ones included. *)
FoundByName(name, found) == IF Named(name) = {} THEN found = Without ELSE found \in Named(name)

(* Register: the name is free if the row that is found is not live.  The   *)
(* ghost takes note of what a look at one row cannot see.                  *)
Registering(name) ==
  \E w \in Visitor : visitor[w] # Without /\ visitor[w].pc = "create" /\ visitor[w].name = name

Register(v, name, found) ==
  /\ FoundByName(name, found)
  /\ found # Without => ~Live(found)
  /\ Calls(v, [NewCall EXCEPT !.name = name])
  /\ doubtful' = IF Registering(name) \/ found # Without THEN doubtful \cup {name} ELSE doubtful
  /\ UNCHANGED <<member, session, avatars, memberFaults, unread, lent>>

FreshMember == [state |-> "live", name |-> Without, on |-> TRUE, avatar |-> 0]

InsertMember(v) ==
  /\ Standing(v, "create")
  /\ \/ \E m \in Member :
          /\ member[m] = Without
          /\ member' = [member EXCEPT ![m] = [FreshMember EXCEPT !.name = visitor[v].name]]
          /\ visitor' = [visitor EXCEPT ![v].pc = "issue", ![v].of = m]
          /\ UNCHANGED memberFaults
     \/ FaultOf /\ Done(v) /\ UNCHANGED member
  /\ UNCHANGED <<session, avatars, visitorCalls, ghosts>>

(* CreateSysUser, by another user, and UpdateSysUser do not look at the    *)
(* name, nor at the avatar: an update takes any URL, be it elsewhere (0),  *)
(* of a file that was removed or of another user's.                        *)
CreateSysUser(v, m, name) ==
  /\ Standing(v, "admitted") /\ member[m] = Without
  /\ member' = [member EXCEPT ![m] = [FreshMember EXCEPT !.name = name]]
  /\ doubtful' = doubtful \cup {name}
  /\ Done(v)
  /\ UNCHANGED <<session, avatars, visitorCalls, memberFaults, unread, lent>>

UpdateSysUser(v, m, name, avatar) ==
  /\ Standing(v, "admitted") /\ member[m] # Without
  /\ member' = [member EXCEPT ![m].name = name, ![m].avatar = avatar]
  /\ doubtful' = doubtful \cup ({name} \ {member[m].name})
  /\ lent' = lent \cup ({avatar} \ {member[m].avatar, 0})
  /\ Done(v)
  /\ UNCHANGED <<session, avatars, visitorCalls, memberFaults, unread>>

-------------------------------------------------------------------------------
(* Login: one of the live users of the name, if it is not disabled.        *)
Login(v, m) ==
  /\ Live(m) /\ member[m].on
  /\ Calls(v, [NewCall EXCEPT !.pc = "issue", !.of = m])
  /\ UNCHANGED <<member, session, avatars, memberFaults, ghosts>>

IssueSession(v) ==
  /\ Standing(v, "issue")
  /\ \/ \E t \in Token :
          /\ session[t] = Without
          /\ session' = [session EXCEPT ![t] = [of |-> visitor[v].of, revoked |-> FALSE, expired |-> FALSE]]
          /\ UNCHANGED memberFaults
     \/ FaultOf /\ UNCHANGED session
  /\ Done(v)
  /\ UNCHANGED <<member, avatars, visitorCalls, ghosts>>

Stands(t) == session[t] # Without /\ ~session[t].revoked /\ ~session[t].expired
MayAct(m) == Live(m) /\ member[m].on

(* Auth: the session, then its user.                                       *)
AuthSession(v, t) ==
  /\ Stands(t)
  /\ Calls(v, [NewCall EXCEPT !.pc = "user", !.of = session[t].of, !.token = t,
                              !.wellBegun = MayAct(session[t].of)])
  /\ UNCHANGED <<member, session, avatars, memberFaults, ghosts>>

(* Faulty variant: a session is enough.                                    *)
AuthUserUnread(v) ==
  /\ Standing(v, "user")
  /\ Steps(v, "admitted")
  /\ UNCHANGED <<member, session, avatars, visitorCalls, memberFaults, ghosts>>

AuthUser(v) ==
  /\ Standing(v, "user")
  /\ IF MayAct(visitor[v].of) THEN Steps(v, "admitted") ELSE Done(v)
  /\ UNCHANGED <<member, session, avatars, visitorCalls, memberFaults, ghosts>>

Logout(v) ==
  /\ Standing(v, "admitted")
  /\ session' = [session EXCEPT ![visitor[v].token].revoked = TRUE]
  /\ Done(v)
  /\ UNCHANGED <<member, avatars, visitorCalls, memberFaults, ghosts>>

(* Delete leaves the sessions of a user, and may be asked of any user.     *)
DeleteSysUser(v, m) ==
  /\ Standing(v, "admitted") /\ member[m] # Without
  /\ member' = [member EXCEPT ![m].state = "deleted"]
  /\ Done(v)
  /\ UNCHANGED <<session, avatars, visitorCalls, memberFaults, ghosts>>

(* Time passes; an administrator of the database disables a user.          *)
Expire(t) ==
  /\ Stands(t)
  /\ session' = [session EXCEPT ![t].expired = TRUE]
  /\ UNCHANGED <<member, avatars, visitor, visitorCalls, memberFaults, ghosts>>

Disable(m) ==
  /\ Live(m) /\ member[m].on
  /\ member' = [member EXCEPT ![m].on = FALSE]
  /\ UNCHANGED <<session, avatars, visitor, visitorCalls, memberFaults, ghosts>>

-------------------------------------------------------------------------------
(* An avatar: the row is read, the file written, the row updated and read  *)
(* again, and the file of the first reading removed, unless it is the new  *)
(* one.  A write that fails may leave a file, which nobody is told of.     *)
ReadOldAvatar(v) ==
  /\ Standing(v, "admitted")
  /\ \/ /\ visitor' = [visitor EXCEPT ![v].pc = "avatarFile",
                          ![v].old = IF Live(visitor[v].of) THEN member[visitor[v].of].avatar ELSE 0]
        /\ UNCHANGED memberFaults
     \/ FaultOf /\ Steps(v, "avatarFile")
  /\ UNCHANGED <<member, session, avatars, visitorCalls, ghosts>>

WriteAvatar(v) ==
  /\ Standing(v, "avatarFile")
  /\ \/ /\ avatars' = avatars \cup {visitor[v].call}
        /\ Steps(v, "avatarRow") /\ UNCHANGED memberFaults
     \/ FaultOf /\ Done(v) /\ avatars' \in {avatars, avatars \cup {visitor[v].call}}
  /\ UNCHANGED <<member, session, visitorCalls, ghosts>>

UpdateAvatar(v) ==
  /\ Standing(v, "avatarRow")
  /\ \/ /\ member' = [member EXCEPT ![visitor[v].of].avatar = visitor[v].call]
        /\ Steps(v, "avatarRead") /\ UNCHANGED memberFaults
     \/ FaultOf /\ Steps(v, "avatarUndo") /\ UNCHANGED member
  /\ UNCHANGED <<session, avatars, visitorCalls, ghosts>>

(* The row is read for the answer; a user deleted meanwhile is not found.  *)
ReadAvatar(v) ==
  /\ Standing(v, "avatarRead")
  /\ IF Live(visitor[v].of)
     THEN \/ Steps(v, "avatarOld") /\ UNCHANGED <<memberFaults, unread>>
          \/ FaultOf /\ Steps(v, "avatarUndo") /\ unread' = unread \cup {visitor[v].of}
     ELSE Steps(v, "avatarUndo") /\ UNCHANGED <<memberFaults, unread>>
  /\ UNCHANGED <<member, session, avatars, visitorCalls, doubtful, lent>>

RemoveOldAvatar(v) ==
  /\ Standing(v, "avatarOld")
  /\ avatars' = avatars \ ({visitor[v].old} \ {visitor[v].call})
  /\ Done(v)
  /\ UNCHANGED <<member, session, visitorCalls, memberFaults, ghosts>>

UndoAvatar(v) ==
  /\ Standing(v, "avatarUndo")
  /\ avatars' = avatars \ {visitor[v].call}
  /\ Done(v)
  /\ UNCHANGED <<member, session, visitorCalls, memberFaults, ghosts>>

AccountNext ==
  \/ \E v \in Visitor, name \in MemberName, found \in Member \cup {Without} : Register(v, name, found)
  \/ \E v \in Visitor, m \in Member :
       \/ Login(v, m) \/ DeleteSysUser(v, m)
       \/ \E name \in MemberName :
            \/ CreateSysUser(v, m, name)
            \/ \E avatar \in 0..visitorCalls : UpdateSysUser(v, m, name, avatar)
  \/ \E v \in Visitor, t \in Token : AuthSession(v, t)
  \/ \E v \in Visitor :
       \/ InsertMember(v) \/ IssueSession(v) \/ AuthUser(v) \/ Logout(v)
       \/ ReadOldAvatar(v) \/ WriteAvatar(v) \/ UpdateAvatar(v) \/ ReadAvatar(v)
       \/ RemoveOldAvatar(v) \/ UndoAvatar(v)
  \/ \E t \in Token : Expire(t)
  \/ \E m \in Member : Disable(m)

AccountSpec == AccountInit /\ [][AccountNext]_accountVars

-------------------------------------------------------------------------------
(* Properties.                                                             *)

(* A request is admitted for the user of its session, and none that came   *)
(* when the user was already deleted or disabled, whatever sessions that   *)
(* user has left (Auth, the two reads; DeleteSysUser).                     *)
AdmittedAsLoggedIn ==
  \A v \in Visitor : (visitor[v] # Without /\ visitor[v].token # Without /\ visitor[v].pc # "user") =>
    visitor[v].of = session[visitor[v].token].of /\ visitor[v].wellBegun

(* A name is of one live user, unless two have asked for it at once, a row *)
(* of that name has been deleted (a look at one row then hides another),   *)
(* or the name was given by a call that does not look (Register).          *)
NameOnce ==
  \A name \in MemberName \ doubtful : Cardinality({m \in Named(name) : Live(m)}) <= 1

(* A live user's avatar is there, however many uploads overlap, unless the *)
(* answer to one could not be read: its file is then removed while the row *)
(* names it (UpdateAvatar of the handler and of the service); or unless an *)
(* update gave the row a URL that it did not have, whose file may be gone  *)
(* by then or be removed by an upload of another user (UpdateSysUser).     *)
AvatarStands ==
  \A m \in Member :
    (Live(m) /\ m \notin unread /\ member[m].avatar \notin lent \cup {0}) => member[m].avatar \in avatars

AccountsKept == AdmittedAsLoggedIn /\ NameOnce /\ AvatarStands
===============================================================================
