------------------------------- MODULE UserProofs -------------------------------
(***************************************************************************)
(* Users (Accounts): the types, who is admitted, whose a name is, and that *)
(* a live user's avatar is there; then their voice avatars (VoiceAvatars): *)
(* the types, and that what is listed is there and what was promised is    *)
(* listed; then the history of their chats (ChatRecorder): the types, and  *)
(* that it is what they were told.  For any numbers of users, names,       *)
(* sessions, avatars, turns, calls under way and failures.                 *)
(*                                                                         *)
(* Of Accounts, what a step may do is said once, in terms of one call that *)
(* is begun, goes on or is done (OneMoves), of the rows (RowsGoOn), of the *)
(* sessions (SessionsGoOn) and of the files (FilesGoOn); the parts of the  *)
(* invariant follow from these facts and no action is opened twice.  In    *)
(* VoiceAvatars the mutex leaves one call at a time, and each action has a *)
(* lemma that says the whole invariant is kept.                            *)
(***************************************************************************)
EXTENDS Accounts, VoiceAvatars, ChatRecorder, FiniteSetTheorems, SequenceTheorems, TLAPS

Early == {"create", "issue", "user", "admitted", "avatarFile", "avatarRow"}
Called(v) == visitor[v] # Without

(* What a call knows of its session and of its user.                       *)
AdmissionOf(it) ==
  /\ it.pc = "create" => it.token = Without /\ it.name \in MemberName
  /\ it.pc # "create" => it.of \in Member /\ member[it.of] # Without
  /\ it.token # Without => session[it.token] # Without /\ session[it.token].of = it.of
  /\ it.pc \notin {"create", "issue"} => it.token # Without
  /\ (it.pc = "user" /\ ~it.wellBegun) => ~MayAct(it.of)
  /\ it.pc # "user" => it.wellBegun

AdmissionInv ==
  /\ \A v \in Visitor : Called(v) => AdmissionOf(visitor[v])
  /\ \A t \in Token : session[t] # Without => member[session[t].of] # Without

(* Where no name is given twice, a call that will give one gives it first. *)
NameInv ==
  \A name \in MemberName \ doubtful :
    /\ \A m, n \in Named(name) : m = n
    /\ \A v \in Visitor : (Called(v) /\ visitor[v].pc = "create" /\ visitor[v].name = name) =>
         /\ Named(name) = {}
         /\ \A w \in Visitor : (Called(w) /\ visitor[w].pc = "create" /\ visitor[w].name = name) => w = v

(* A call's file is its own.                                               *)
CallsApart ==
  \A v \in Visitor : Called(v) =>
    /\ visitor[v].call \in 1..visitorCalls
    /\ \A w \in Visitor : (Called(w) /\ visitor[w].call = visitor[v].call) => w = v

(* A row names the file of a call that has written the row of its user,    *)
(* unless an update gave it away,                                          *)
RowNames(c, m) == member[m] # Without /\ member[m].avatar = c /\ c # 0
Written(c) == \A v \in Visitor : (Called(v) /\ visitor[v].call = c) => visitor[v].pc \notin Early

RowsInv ==
  \A m \in Member, c \in Nat : RowNames(c, m) =>
    /\ c \in 1..visitorCalls
    /\ c \notin lent =>
         /\ Written(c)
         /\ \A v \in Visitor : (Called(v) /\ visitor[v].call = c) => visitor[v].of = m
         /\ \A n \in Member : RowNames(c, n) => n = m

(* and so does what a call will remove as old: no row names it any more    *)
(* when the call has written its own.                                      *)
OldInv ==
  \A v \in Visitor : (Called(v) /\ visitor[v].old # 0) =>
    /\ visitor[v].pc \in {"avatarFile", "avatarRow", "avatarRead", "avatarOld", "avatarUndo"}
    /\ visitor[v].old \in 1..visitorCalls
    /\ visitor[v].old \notin lent =>
         /\ Written(visitor[v].old)
         /\ \A m \in Member : RowNames(visitor[v].old, m) =>
              m = visitor[v].of /\ visitor[v].pc \notin {"avatarRead", "avatarOld"}

(* A file that is about to be taken back is no live user's avatar, unless  *)
(* the answer could not be read; one that is about to be named is there.   *)
OwnFileInv ==
  \A v \in Visitor : (Called(v) /\ visitor[v].call \notin lent) =>
    /\ visitor[v].pc = "avatarUndo" =>
         \A m \in Member : RowNames(visitor[v].call, m) => ~Live(m) \/ m \in unread
    /\ visitor[v].pc = "avatarRow" => visitor[v].call \in avatars

AccountInv ==
  /\ AccountTypeOK /\ AdmissionInv /\ NameInv
  /\ CallsApart /\ RowsInv /\ OldInv /\ OwnFileInv /\ AvatarStands

Pc == {"create", "issue", "user", "admitted", "avatarFile", "avatarRow", "avatarRead", "avatarOld",
       "avatarUndo"}

(* A set in which any two are the same has one element at most.            *)
LEMMA AtMostOne ==
  ASSUME NEW S, \A a, b \in S : a = b
  PROVE  Cardinality(S) <= 1
<1>1. CASE S = {}
  BY <1>1, FS_EmptySet
<1>2. ASSUME NEW a \in S PROVE Cardinality(S) <= 1
  <2>1. S = {a}
    OBVIOUS
  <2> QED  BY <2>1, FS_Singleton
<1> QED  BY <1>1, <1>2

(* How a call is begun, goes on and is done.                               *)
LEMMA CallBegins ==
  ASSUME AccountTypeOK, NEW v \in Visitor, NEW fields \in VisitorCall, Calls(v, fields)
  PROVE  /\ visitor' \in [Visitor -> VisitorCall \cup {Without}]
         /\ visitor[v] = Without /\ visitor'[v] = fields /\ visitor'[v] # Without
         /\ \A w \in Visitor \ {v} : visitor'[w] = visitor[w]
         /\ visitorCalls \in Nat /\ visitorCalls' = visitorCalls + 1 /\ visitorCalls' \in 0..MaxVisitorCalls
BY AccountAssumption DEF AccountTypeOK, Calls

(* A call that goes on changes nothing but its place, and no other call.   *)
LEMMA CallGoesOn ==
  ASSUME AccountTypeOK, NEW v \in Visitor, visitor[v] # Without, NEW p \in Pc, Steps(v, p)
  PROVE  /\ visitor' \in [Visitor -> VisitorCall \cup {Without}]
         /\ visitor'[v] = [visitor[v] EXCEPT !.pc = p]
         /\ visitor'[v] \in VisitorCall /\ visitor'[v] # Without
         /\ visitor'[v].pc = p /\ visitor'[v].of = visitor[v].of /\ visitor'[v].name = visitor[v].name
         /\ visitor'[v].token = visitor[v].token /\ visitor'[v].call = visitor[v].call
         /\ visitor'[v].old = visitor[v].old /\ visitor'[v].wellBegun = visitor[v].wellBegun
         /\ \A w \in Visitor \ {v} : visitor'[w] = visitor[w]
<1>1. visitor[v] \in VisitorCall
  BY DEF AccountTypeOK
<1>2. [visitor[v] EXCEPT !.pc = p] \in VisitorCall
  BY <1>1 DEF VisitorCall, Pc
<1>3. /\ visitor' \in [Visitor -> VisitorCall \cup {Without}]
      /\ visitor'[v] = [visitor[v] EXCEPT !.pc = p]
      /\ \A w \in Visitor \ {v} : visitor'[w] = visitor[w]
  BY <1>2 DEF AccountTypeOK, Steps
<1> QED  BY <1>1, <1>2, <1>3, AccountAssumption DEF VisitorCall

(* A call that is over changes no other.                                   *)
LEMMA CallDone ==
  ASSUME AccountTypeOK, NEW v \in Visitor, Done(v)
  PROVE  /\ visitor' \in [Visitor -> VisitorCall \cup {Without}]
         /\ visitor'[v] = Without
         /\ \A w \in Visitor \ {v} : visitor'[w] = visitor[w]
BY DEF AccountTypeOK, Done

(* A fault is counted.                                                     *)
LEMMA FaultCounted ==
  ASSUME AccountTypeOK, FaultOf
  PROVE  memberFaults' \in 0..MaxMemberFaults
BY AccountAssumption DEF AccountTypeOK, FaultOf

(* What an action may do to the row of a user.                             *)
RowGoesOn(m) ==
  /\ member[m] # Without => member'[m] # Without
  /\ (member[m] # Without /\ ~Live(m)) => ~Live(m)'
  /\ (member[m] # Without /\ ~MayAct(m)) => ~MayAct(m)'

RowType == member' \in [Member -> MemberRow \cup {Without}]

(* The only writers of an avatar, and the only ones who give a name.       *)
NamesAvatar(m, c) ==
  \E v \in Visitor :
    /\ Called(v) /\ visitor[v].pc = "avatarRow" /\ visitor[v].of = m /\ visitor[v].call = c
    /\ Steps(v, "avatarRead")
    /\ \A n \in Member \ {m} : member'[n] = member[n]
LendsAvatar(c) == c \in lent' /\ c \in 1..visitorCalls
GivesName(m, name) ==
  \/ name \in doubtful'
  \/ \E v \in Visitor :
       /\ Called(v) /\ visitor[v].pc = "create" /\ visitor[v].name = name
       /\ visitor'[v] = Without \/ visitor'[v].pc # "create"
       /\ \A n \in Member \ {m} : member'[n] = member[n]

(* A row whose state, name, switch or avatar is changed is a row.          *)
LEMMA RowChanged ==
  ASSUME AccountTypeOK, NEW m \in Member, member[m] # Without,
         NEW row \in MemberRow, member' = [member EXCEPT ![m] = row],
         row.state = "live" => member[m].state = "live",
         row.on => member[m].on
  PROVE  /\ RowType /\ \A n \in Member : RowGoesOn(n)
         /\ member'[m] = row /\ \A n \in Member \ {m} : member'[n] = member[n]
<1>1. member'[m] = row /\ (\A n \in Member \ {m} : member'[n] = member[n]) /\ RowType
  BY DEF AccountTypeOK, RowType
<1>2. member[m].on \in BOOLEAN /\ row.on \in BOOLEAN
  BY DEF AccountTypeOK, MemberRow
<1>3. RowGoesOn(m)
  BY <1>1, <1>2, AccountAssumption DEF RowGoesOn, Live, MayAct
<1>4. \A n \in Member \ {m} : RowGoesOn(n)
  BY <1>1 DEF RowGoesOn, Live, MayAct
<1> QED  BY <1>1, <1>3, <1>4

(* A new row is a row, has the name it is given and no avatar.             *)
LEMMA RowMade ==
  ASSUME AccountTypeOK, NEW m \in Member, member[m] = Without, NEW name \in MemberName,
         member' = [member EXCEPT ![m] = [FreshMember EXCEPT !.name = name]]
  PROVE  /\ RowType /\ \A n \in Member : RowGoesOn(n)
         /\ member'[m] # Without /\ member'[m].name = name /\ member'[m].avatar = 0
         /\ \A n \in Member \ {m} : member'[n] = member[n]
<1> DEFINE row == [FreshMember EXCEPT !.name = name]
<1>1. row \in MemberRow /\ row.name = name /\ row.avatar = 0
  BY DEF FreshMember, MemberRow
<1>2. member'[m] = row /\ (\A n \in Member \ {m} : member'[n] = member[n]) /\ RowType
  BY <1>1 DEF AccountTypeOK, RowType
<1> QED  BY <1>1, <1>2, AccountAssumption DEF RowGoesOn, Live, MayAct

(* What an action may do to the calls: one of them is begun, goes on or is *)
(* done.                                                                   *)
Edges ==
  {<<"create", "issue">>, <<"user", "admitted">>, <<"admitted", "avatarFile">>, <<"avatarFile", "avatarRow">>,
   <<"avatarRow", "avatarRead">>, <<"avatarRow", "avatarUndo">>, <<"avatarRead", "avatarOld">>,
   <<"avatarRead", "avatarUndo">>}

FreeFor(name) == name \in doubtful' \/ (Named(name) = {} /\ ~Registering(name))

Begun(v) ==
  /\ ~Called(v) /\ Called(v)'
  /\ visitorCalls' = visitorCalls + 1 /\ visitor'[v].call = visitorCalls'
  /\ visitor'[v].old = 0 /\ visitor'[v].pc \in {"create", "issue", "user"}
  /\ AdmissionOf(visitor'[v]) /\ UNCHANGED <<member, session>>
  /\ visitor'[v].pc = "create" => FreeFor(visitor'[v].name)

Ended(v) == Called(v) /\ ~Called(v)' /\ visitorCalls' = visitorCalls

GoneOn(v) ==
  /\ Called(v) /\ Called(v)' /\ visitorCalls' = visitorCalls
  /\ <<visitor[v].pc, visitor'[v].pc>> \in Edges
  /\ visitor'[v].call = visitor[v].call /\ visitor'[v].token = visitor[v].token
  /\ visitor'[v].wellBegun = visitor[v].wellBegun
  /\ visitor[v].pc # "create" => visitor'[v].of = visitor[v].of
  /\ visitor[v].pc = "create" => visitor'[v].of \in Member /\ member'[visitor'[v].of] # Without
  /\ visitor[v].pc = "user" => MayAct(visitor[v].of)
  /\ visitor'[v].old \notin {visitor[v].old, 0} =>
       /\ visitor[v].pc = "admitted"
       /\ Live(visitor[v].of) /\ visitor'[v].old = member[visitor[v].of].avatar
  /\ visitor[v].pc = "avatarFile" => visitor[v].call \in avatars'
  /\ (visitor[v].pc = "avatarRow" /\ visitor'[v].pc = "avatarRead") =>
       member'[visitor[v].of].avatar = visitor[v].call
  /\ (visitor[v].pc = "avatarRead" /\ visitor'[v].pc = "avatarUndo") =>
       ~Live(visitor[v].of) \/ visitor[v].of \in unread'

OthersStay(v) == \A w \in Visitor \ {v} : visitor'[w] = visitor[w]
CallType == visitor' \in [Visitor -> VisitorCall \cup {Without}] /\ visitorCalls' \in 0..MaxVisitorCalls

(* Every step leaves the calls alone, or one of them is begun, is done, or *)
(* goes on along an edge with what it knows of itself unchanged.           *)
LEMMA OneMoves ==
  ASSUME AccountTypeOK, AdmissionInv, AccountNext
  PROVE  /\ CallType
         /\ \/ visitor' = visitor /\ visitorCalls' = visitorCalls
            \/ \E v \in Visitor : OthersStay(v) /\ (Begun(v) \/ Ended(v) \/ GoneOn(v))
<1> DEFINE Good(v) == CallType /\ OthersStay(v) /\ (Begun(v) \/ Ended(v) \/ GoneOn(v))
<1>0. visitorCalls \in 0..MaxVisitorCalls /\ visitorCalls \in Nat
  BY AccountAssumption DEF AccountTypeOK
<1> DEFINE fresh == [pc |-> "create", of |-> Without, name |-> Without, token |-> Without,
                     call |-> visitorCalls + 1, old |-> 0, wellBegun |-> TRUE]
<1>f. fresh \in VisitorCall
  BY <1>0 DEF VisitorCall
<1>b. ASSUME NEW v \in Visitor, NEW fields \in VisitorCall, Calls(v, fields), fields.old = 0,
             fields.call = visitorCalls + 1, fields.pc \in {"create", "issue", "user"},
             fields.pc = "create" => FreeFor(fields.name),
             AdmissionOf(fields), member' = member, session' = session
      PROVE  Good(v)
  BY <1>b, CallBegins DEF Begun, Called, OthersStay, CallType
<1>d. ASSUME NEW v \in Visitor, Done(v), visitor[v] # Without, visitorCalls' = visitorCalls PROVE Good(v)
  BY <1>0, <1>d, CallDone DEF Ended, Called, OthersStay, CallType
<1>s. ASSUME NEW v \in Visitor, NEW p \in Pc, Steps(v, p), visitor[v] # Without, <<visitor[v].pc, p>> \in Edges,
             visitorCalls' = visitorCalls, visitor[v].pc # "create",
             visitor[v].pc = "user" => MayAct(visitor[v].of),
             visitor[v].pc = "avatarFile" => visitor[v].call \in avatars',
             (visitor[v].pc = "avatarRow" /\ p = "avatarRead") => member'[visitor[v].of].avatar = visitor[v].call,
             (visitor[v].pc = "avatarRead" /\ p = "avatarUndo") =>
               ~Live(visitor[v].of) \/ visitor[v].of \in unread'
      PROVE  Good(v)
  BY <1>0, <1>s, CallGoesOn DEF GoneOn, Called, OthersStay, CallType
<1>1. ASSUME NEW v \in Visitor, NEW name \in MemberName, NEW found, Register(v, name, found) PROVE Good(v)
  <2> DEFINE it == [fresh EXCEPT !.name = name]
  <2>1. it \in VisitorCall /\ it.old = 0 /\ it.call = visitorCalls + 1 /\ it.pc = "create"
    BY <1>f, <1>0 DEF VisitorCall
  <2>2. Calls(v, it) /\ member' = member /\ session' = session
    BY <1>1 DEF Register, NewCall
  <2>3. AdmissionOf(it)
    BY <1>f DEF AdmissionOf
  <2>4. FreeFor(name)
    BY <1>1, AccountAssumption DEF Register, FoundByName, FreeFor, Named
  <2>5. it.name = name
    OBVIOUS
  <2> QED  BY <1>b, <2>1, <2>2, <2>3, <2>4, <2>5
<1>2. ASSUME NEW v \in Visitor, NEW m \in Member, Login(v, m) PROVE Good(v)
  <2> DEFINE it == [fresh EXCEPT !.pc = "issue", !.of = m]
  <2>1. it \in VisitorCall /\ it.old = 0 /\ it.call = visitorCalls + 1 /\ it.pc = "issue"
    BY <1>f, <1>0 DEF VisitorCall
  <2>2. Calls(v, it) /\ member' = member /\ session' = session
    BY <1>2 DEF Login, NewCall
  <2>3. AdmissionOf(it)
    BY <1>2, <1>f DEF AdmissionOf, Login, Live
  <2> QED  BY <1>b, <2>1, <2>2, <2>3
<1>3. ASSUME NEW v \in Visitor, NEW t \in Token, AuthSession(v, t) PROVE Good(v)
  <2> DEFINE it == [fresh EXCEPT !.pc = "user", !.of = session[t].of, !.token = t,
                                 !.wellBegun = MayAct(session[t].of)]
  <2>1. session[t].of \in Member /\ MayAct(session[t].of) \in BOOLEAN
    BY <1>3 DEF AuthSession, Stands, AccountTypeOK, MemberSession, MemberRow, MayAct, Live
  <2>2. it \in VisitorCall /\ it.old = 0 /\ it.call = visitorCalls + 1 /\ it.pc = "user"
    BY <1>f, <1>0, <2>1 DEF VisitorCall
  <2>3. Calls(v, it) /\ member' = member /\ session' = session
    BY <1>3 DEF AuthSession, NewCall
  <2>4. t # Without /\ session[t] # Without /\ member[session[t].of] # Without
    BY <1>3, AccountAssumption DEF AuthSession, Stands, AdmissionInv
  <2>5. AdmissionOf(it)
    BY <1>f, <2>1, <2>4 DEF AdmissionOf
  <2> QED  BY <1>b, <2>2, <2>3, <2>5
<1>4. ASSUME NEW v \in Visitor, InsertMember(v) PROVE Good(v)
  <2>1. visitor[v] # Without /\ visitor[v].pc = "create" /\ visitorCalls' = visitorCalls
    BY <1>4 DEF InsertMember, Standing
  <2>2. CASE Done(v)
    BY <2>1, <2>2, <1>d
  <2>3. ASSUME NEW m \in Member, visitor' = [visitor EXCEPT ![v].pc = "issue", ![v].of = m],
               member' = [member EXCEPT ![m] = [FreshMember EXCEPT !.name = visitor[v].name]], member[m] = Without
        PROVE  Good(v)
    <3> DEFINE it == [visitor[v] EXCEPT !.pc = "issue", !.of = m]
    <3>1. visitor[v] \in VisitorCall
      BY <2>1 DEF AccountTypeOK
    <3>2. it \in VisitorCall /\ it.pc = "issue" /\ it.call = visitor[v].call /\ it.old = visitor[v].old
          /\ it.token = visitor[v].token /\ it.wellBegun = visitor[v].wellBegun /\ it.of = m
      BY <3>1 DEF VisitorCall
    <3>3. visitor'[v] = it /\ OthersStay(v) /\ CallType
      BY <1>0, <2>1, <2>3, <3>2 DEF AccountTypeOK, OthersStay, CallType
    <3>4. member'[m] # Without
      BY <2>1, <2>3, RowMade DEF AdmissionInv, AdmissionOf, Called
    <3> QED  BY <2>1, <3>2, <3>3, <3>4, AccountAssumption DEF GoneOn, Called, Edges
  <2> QED  BY <1>4, <2>2, <2>3 DEF InsertMember
<1>5. ASSUME NEW v \in Visitor, ReadOldAvatar(v) PROVE Good(v)
  <2>1. visitor[v] # Without /\ visitor[v].pc = "admitted" /\ visitorCalls' = visitorCalls
    BY <1>5 DEF ReadOldAvatar, Standing
  <2>2. CASE Steps(v, "avatarFile")
    BY <2>1, <2>2, <1>s DEF Pc, Edges
  <2>3. CASE visitor' = [visitor EXCEPT ![v].pc = "avatarFile",
                           ![v].old = IF Live(visitor[v].of) THEN member[visitor[v].of].avatar ELSE 0]
    <3> DEFINE old == IF Live(visitor[v].of) THEN member[visitor[v].of].avatar ELSE 0
               it == [visitor[v] EXCEPT !.pc = "avatarFile", !.old = old]
    <3>1. visitor[v] \in VisitorCall
      BY <2>1 DEF AccountTypeOK
    <3>2. old \in Nat
      <4>1. visitor[v].of \in Member
        BY <2>1 DEF AdmissionInv, AdmissionOf, Called
      <4> QED  BY <4>1 DEF AccountTypeOK, Live, MemberRow
    <3> HIDE DEF old
    <3>3. it \in VisitorCall /\ it.pc = "avatarFile" /\ it.call = visitor[v].call /\ it.old = old
          /\ it.token = visitor[v].token /\ it.wellBegun = visitor[v].wellBegun /\ it.of = visitor[v].of
      BY <3>1, <3>2 DEF VisitorCall
    <3>4. visitor'[v] = it /\ OthersStay(v) /\ CallType
      BY <1>0, <2>1, <2>3, <3>3 DEF AccountTypeOK, OthersStay, CallType, old
    <3>5. it.old # 0 => Live(visitor[v].of) /\ it.old = member[visitor[v].of].avatar
      BY <3>3 DEF old
    <3> QED  BY <2>1, <3>3, <3>4, <3>5, AccountAssumption DEF GoneOn, Called, Edges
  <2> QED  BY <1>5, <2>2, <2>3 DEF ReadOldAvatar
<1>6. ASSUME NEW v \in Visitor, AuthUser(v) \/ WriteAvatar(v) \/ UpdateAvatar(v) \/ ReadAvatar(v) PROVE Good(v)
  <2>1. visitor[v] # Without /\ visitorCalls' = visitorCalls
    BY <1>6 DEF AuthUser, WriteAvatar, UpdateAvatar, ReadAvatar, Standing
  <2>2. \/ Done(v)
        \/ \E p \in Pc :
             /\ Steps(v, p) /\ <<visitor[v].pc, p>> \in Edges /\ visitor[v].pc # "create"
             /\ visitor[v].pc = "user" => MayAct(visitor[v].of)
             /\ visitor[v].pc = "avatarFile" => visitor[v].call \in avatars'
             /\ (visitor[v].pc = "avatarRow" /\ p = "avatarRead") =>
                  member'[visitor[v].of].avatar = visitor[v].call
             /\ (visitor[v].pc = "avatarRead" /\ p = "avatarUndo") =>
                  ~Live(visitor[v].of) \/ visitor[v].of \in unread'
    <3>1. CASE UpdateAvatar(v)
      <4>1. visitor[v].of \in Member /\ member[visitor[v].of] # Without
        BY <3>1 DEF UpdateAvatar, Standing, AdmissionInv, AdmissionOf, Called
      <4>2. member' = [member EXCEPT ![visitor[v].of].avatar = visitor[v].call] =>
              member'[visitor[v].of].avatar = visitor[v].call
        BY <4>1 DEF AccountTypeOK, MemberRow
      <4> QED  BY <3>1, <4>2 DEF UpdateAvatar, Standing, Pc, Edges
    <3> QED  BY <1>6, <3>1 DEF AuthUser, WriteAvatar, ReadAvatar, Standing, Pc, Edges
  <2> QED  BY <2>1, <2>2, <1>d, <1>s
<1>7. ASSUME NEW v \in Visitor, NEW m \in Member,
             \/ DeleteSysUser(v, m)
             \/ \E name \in MemberName : CreateSysUser(v, m, name)
                                           \/ \E avatar \in 0..visitorCalls : UpdateSysUser(v, m, name, avatar)
      PROVE  Good(v)
  <2>1. visitor[v] # Without /\ visitorCalls' = visitorCalls /\ Done(v)
    BY <1>7 DEF DeleteSysUser, CreateSysUser, UpdateSysUser, Standing
  <2> QED  BY <2>1, <1>d
<1>8. ASSUME NEW v \in Visitor, IssueSession(v) \/ Logout(v) \/ RemoveOldAvatar(v) \/ UndoAvatar(v)
      PROVE  Good(v)
  <2>1. visitor[v] # Without /\ visitorCalls' = visitorCalls /\ Done(v)
    BY <1>8 DEF IssueSession, Logout, RemoveOldAvatar, UndoAvatar, Standing
  <2> QED  BY <2>1, <1>d
<1>9. CASE (\E t \in Token : Expire(t)) \/ (\E m \in Member : Disable(m))
  <2>1. visitor' = visitor /\ visitorCalls' = visitorCalls
    BY <1>9 DEF Expire, Disable
  <2> QED  BY <1>0, <2>1 DEF CallType, AccountTypeOK
<1> HIDE DEF Good
<1>10. (\E v \in Visitor : Good(v)) \/ (\E t \in Token : Expire(t)) \/ (\E m \in Member : Disable(m))
  BY <1>1, <1>2, <1>3, <1>4, <1>5, <1>6, <1>7, <1>8 DEF AccountNext
<1> QED  BY <1>9, <1>10 DEF Good

(* Every step leaves a row a row; a row that is deleted or disabled stays  *)
(* so; an avatar is named by a call at avatarRow or is lent, a name is     *)
(* given by a call at create or becomes doubtful.                          *)
LEMMA RowsGoOn ==
  ASSUME AccountTypeOK, AdmissionInv, AccountNext
  PROVE  /\ RowType
         /\ \A m \in Member :
              /\ RowGoesOn(m)
              /\ \A c \in Nat : RowNames(c, m)' => RowNames(c, m) \/ NamesAvatar(m, c) \/ LendsAvatar(c)
              /\ \A name \in MemberName : m \in Named(name)' => m \in Named(name) \/ GivesName(m, name)
<1> DEFINE NamesWell(m) ==
             /\ \A c \in Nat : RowNames(c, m)' => RowNames(c, m) \/ NamesAvatar(m, c) \/ LendsAvatar(c)
             /\ \A name \in MemberName : m \in Named(name)' => m \in Named(name) \/ GivesName(m, name)
           Good == RowType /\ \A m \in Member : RowGoesOn(m) /\ NamesWell(m)
<1>0. ASSUME member' = member PROVE Good
  BY <1>0 DEF AccountTypeOK, RowType, RowGoesOn, Live, MayAct, RowNames, Named
<1>1. ASSUME NEW v \in Visitor, InsertMember(v) PROVE Good
  <2>1. CASE member' = member
    BY <2>1, <1>0
  <2>2. ASSUME NEW m \in Member, member[m] = Without,
               member' = [member EXCEPT ![m] = [FreshMember EXCEPT !.name = visitor[v].name]],
               visitor' = [visitor EXCEPT ![v].pc = "issue", ![v].of = m]
        PROVE  Good
    <3>1. /\ Called(v) /\ visitor[v].pc = "create" /\ visitor[v].name \in MemberName
          /\ visitor[v] \in VisitorCall
      BY <1>1 DEF InsertMember, Standing, AdmissionInv, AdmissionOf, Called, AccountTypeOK
    <3>2. visitor'[v].pc = "issue"
      BY <2>2, <3>1 DEF AccountTypeOK, VisitorCall
    <3>3. /\ RowType /\ \A n \in Member : RowGoesOn(n)
          /\ member'[m] # Without /\ member'[m].name = visitor[v].name /\ member'[m].avatar = 0
          /\ \A n \in Member \ {m} : member'[n] = member[n]
      BY <2>2, <3>1, RowMade
    <3>4. ASSUME NEW n \in Member PROVE NamesWell(n)
      BY <3>1, <3>2, <3>3 DEF RowNames, Named, GivesName
    <3> QED  BY <3>3, <3>4
  <2> QED  BY <1>1, <2>1, <2>2 DEF InsertMember
<1>2. ASSUME NEW v \in Visitor, NEW m \in Member, NEW name \in MemberName, CreateSysUser(v, m, name) PROVE Good
  <2>1. /\ RowType /\ \A n \in Member : RowGoesOn(n)
        /\ member'[m] # Without /\ member'[m].name = name /\ member'[m].avatar = 0
        /\ \A n \in Member \ {m} : member'[n] = member[n]
    BY <1>2, RowMade DEF CreateSysUser
  <2>2. name \in doubtful'
    BY <1>2 DEF CreateSysUser
  <2>3. ASSUME NEW n \in Member PROVE NamesWell(n)
    BY <2>1, <2>2 DEF RowNames, Named, GivesName
  <2> QED  BY <2>1, <2>3
<1>3. ASSUME NEW v \in Visitor, NEW m \in Member, NEW name \in MemberName, NEW avatar \in 0..visitorCalls,
             UpdateSysUser(v, m, name, avatar)
      PROVE  Good
  <2> DEFINE row == [member[m] EXCEPT !.name = name, !.avatar = avatar]
  <2>0. visitorCalls \in Nat /\ avatar \in Nat
    BY AccountAssumption DEF AccountTypeOK
  <2>1. member[m] \in MemberRow /\ member[m] # Without
    BY <1>3 DEF UpdateSysUser, AccountTypeOK
  <2>2. /\ row \in MemberRow /\ row.state = member[m].state /\ row.on = member[m].on /\ row.name = name
        /\ row.avatar = avatar
    BY <2>0, <2>1 DEF MemberRow
  <2>3. member' = [member EXCEPT ![m] = row]
    BY <1>3, <2>1 DEF UpdateSysUser, AccountTypeOK, MemberRow
  <2>4. name = member[m].name \/ name \in doubtful'
    BY <1>3 DEF UpdateSysUser
  <2>5. avatar \in {0, member[m].avatar} \/ LendsAvatar(avatar)
    BY <1>3, <2>0 DEF UpdateSysUser, LendsAvatar
  <2> HIDE DEF row
  <2>6. /\ RowType /\ \A n \in Member : RowGoesOn(n)
        /\ member'[m] = row /\ \A n \in Member \ {m} : member'[n] = member[n]
    BY <2>1, <2>2, <2>3, RowChanged
  <2>7. ASSUME NEW n \in Member PROVE NamesWell(n)
    BY <2>1, <2>2, <2>4, <2>5, <2>6 DEF RowNames, Named, GivesName
  <2> QED  BY <2>6, <2>7
<1>4. ASSUME NEW m \in Member, member[m] # Without, member' = [member EXCEPT ![m].state = "deleted"] PROVE Good
  <2> DEFINE row == [member[m] EXCEPT !.state = "deleted"]
  <2>1. member[m] \in MemberRow /\ member[m] # Without
    BY <1>4 DEF AccountTypeOK
  <2>2. /\ row \in MemberRow /\ row.state # "live" /\ row.on = member[m].on /\ row.name = member[m].name
        /\ row.avatar = member[m].avatar /\ member' = [member EXCEPT ![m] = row]
    BY <1>4, <2>1 DEF AccountTypeOK, MemberRow
  <2> HIDE DEF row
  <2>3. /\ RowType /\ \A n \in Member : RowGoesOn(n)
        /\ member'[m] = row /\ \A n \in Member \ {m} : member'[n] = member[n]
    BY <2>1, <2>2, RowChanged
  <2>4. ASSUME NEW n \in Member PROVE NamesWell(n)
    BY <1>4, <2>2, <2>3 DEF RowNames, Named
  <2> QED  BY <2>3, <2>4
<1>5. ASSUME NEW m \in Member, Disable(m) PROVE Good
  <2> DEFINE row == [member[m] EXCEPT !.on = FALSE]
  <2>1. member[m] \in MemberRow /\ member[m] # Without
    BY <1>5 DEF Disable, Live, AccountTypeOK
  <2>2. /\ row \in MemberRow /\ row.state = member[m].state /\ ~row.on /\ row.name = member[m].name
        /\ row.avatar = member[m].avatar /\ member' = [member EXCEPT ![m] = row]
    BY <1>5, <2>1 DEF Disable, AccountTypeOK, MemberRow
  <2> HIDE DEF row
  <2>3. /\ RowType /\ \A n \in Member : RowGoesOn(n)
        /\ member'[m] = row /\ \A n \in Member \ {m} : member'[n] = member[n]
    BY <2>1, <2>2, RowChanged
  <2>4. ASSUME NEW n \in Member PROVE NamesWell(n)
    BY <2>1, <2>2, <2>3 DEF RowNames, Named
  <2> QED  BY <2>3, <2>4
<1>6. ASSUME NEW v \in Visitor, UpdateAvatar(v) PROVE Good
  <2> DEFINE m == visitor[v].of
             c == visitor[v].call
             row == [member[m] EXCEPT !.avatar = c]
  <2>1. CASE member' = member
    BY <2>1, <1>0
  <2>2. CASE member' = [member EXCEPT ![m].avatar = c] /\ Steps(v, "avatarRead")
    <3>1. m \in Member /\ member[m] # Without /\ c \in Nat
      BY <1>6 DEF UpdateAvatar, Standing, AdmissionInv, AdmissionOf, Called, AccountTypeOK, VisitorCall
    <3>2. member[m] \in MemberRow
      BY <3>1 DEF AccountTypeOK
    <3>3. /\ row \in MemberRow /\ row.state = member[m].state /\ row.on = member[m].on
          /\ row.name = member[m].name /\ row.avatar = c /\ member' = [member EXCEPT ![m] = row]
      BY <2>2, <3>1, <3>2 DEF AccountTypeOK, MemberRow
    <3>4. Called(v) /\ visitor[v].pc = "avatarRow" /\ visitor[v].of = m /\ visitor[v].call = c
      BY <1>6 DEF UpdateAvatar, Standing, Called
    <3> HIDE DEF row, m, c
    <3>5. /\ RowType /\ \A n \in Member : RowGoesOn(n)
          /\ member'[m] = row /\ \A n \in Member \ {m} : member'[n] = member[n]
      BY <3>1, <3>3, RowChanged
    <3>6. ASSUME NEW n \in Member PROVE NamesWell(n)
      BY <2>2, <3>1, <3>3, <3>4, <3>5 DEF RowNames, Named, NamesAvatar
    <3> QED  BY <3>5, <3>6
  <2> QED  BY <1>6, <2>1, <2>2 DEF UpdateAvatar
<1>7. ASSUME NEW v \in Visitor,
             \/ IssueSession(v) \/ AuthUser(v) \/ Logout(v)
             \/ ReadOldAvatar(v) \/ WriteAvatar(v) \/ ReadAvatar(v) \/ RemoveOldAvatar(v) \/ UndoAvatar(v)
             \/ \E t \in Token : AuthSession(v, t)
             \/ \E m \in Member : Login(v, m)
             \/ \E name \in MemberName, found \in Member \cup {Without} : Register(v, name, found)
      PROVE  Good
  <2>1. member' = member
    BY <1>7 DEF IssueSession, AuthUser, Logout, ReadOldAvatar, WriteAvatar, ReadAvatar, RemoveOldAvatar, UndoAvatar,
             AuthSession, Login, Register
  <2> QED  BY <2>1, <1>0
<1>8. ASSUME NEW v \in Visitor, NEW m \in Member, DeleteSysUser(v, m) PROVE Good
  BY <1>8, <1>4 DEF DeleteSysUser
<1>9. ASSUME NEW t \in Token, Expire(t) PROVE Good
  BY <1>9, <1>0 DEF Expire
<1> HIDE DEF Good
<1>10. Good
  BY <1>1, <1>2, <1>3, <1>5, <1>6, <1>7, <1>8, <1>9 DEF AccountNext
<1> QED  BY <1>10 DEF Good

(* What an action may do to the sessions, the files and the ghosts.        *)
LEMMA SessionsGoOn ==
  ASSUME AccountTypeOK, AdmissionInv, AccountNext
  PROVE  /\ session' \in [Token -> MemberSession \cup {Without}]
         /\ \A t \in Token :
              /\ session[t] # Without => session'[t] # Without /\ session'[t].of = session[t].of
              /\ (session[t] = Without /\ session'[t] # Without) =>
                   \E v \in Visitor : Called(v) /\ visitor[v].pc = "issue" /\ session'[t].of = visitor[v].of
<1> DEFINE Good == /\ session' \in [Token -> MemberSession \cup {Without}]
                   /\ \A t \in Token :
                        /\ session[t] # Without => session'[t] # Without /\ session'[t].of = session[t].of
                        /\ (session[t] = Without /\ session'[t] # Without) =>
                             \E v \in Visitor : Called(v) /\ visitor[v].pc = "issue" /\ session'[t].of = visitor[v].of
<1>0. ASSUME session' = session PROVE Good
  BY <1>0 DEF AccountTypeOK
<1>1. ASSUME NEW v \in Visitor, IssueSession(v) PROVE Good
  <2>1. CASE session' = session
    BY <2>1, <1>0
  <2>2. ASSUME NEW t \in Token, session[t] = Without,
               session' = [session EXCEPT ![t] = [of |-> visitor[v].of, revoked |-> FALSE, expired |-> FALSE]]
        PROVE  Good
    <3>1. Called(v) /\ visitor[v].pc = "issue" /\ visitor[v].of \in Member
      BY <1>1 DEF IssueSession, Standing, AdmissionInv, AdmissionOf, Called
    <3> DEFINE row == [of |-> visitor[v].of, revoked |-> FALSE, expired |-> FALSE]
    <3>2. row \in MemberSession /\ row.of = visitor[v].of /\ session' = [session EXCEPT ![t] = row]
      BY <2>2, <3>1 DEF MemberSession
    <3> HIDE DEF row
    <3> QED  BY <2>2, <3>1, <3>2 DEF AccountTypeOK
  <2> QED  BY <1>1, <2>1, <2>2 DEF IssueSession
<1>2. ASSUME NEW t \in Token, session[t] # Without, NEW row \in MemberSession, row.of = session[t].of,
             session' = [session EXCEPT ![t] = row]
      PROVE  Good
  BY <1>2, AccountAssumption DEF AccountTypeOK
<1>3. ASSUME NEW v \in Visitor, Logout(v) PROVE Good
  <2> DEFINE t == visitor[v].token
             row == [session[t] EXCEPT !.revoked = TRUE]
  <2>1. t \in Token /\ session[t] # Without
    BY <1>3 DEF Logout, Standing, AdmissionInv, AdmissionOf, Called, AccountTypeOK, VisitorCall
  <2>2. row \in MemberSession /\ row.of = session[t].of
    BY <2>1 DEF AccountTypeOK, MemberSession
  <2>3. session' = [session EXCEPT ![t] = row]
    BY <1>3, <2>1 DEF Logout, AccountTypeOK, MemberSession
  <2> HIDE DEF t, row
  <2> QED  BY <1>2, <2>1, <2>2, <2>3
<1>4. ASSUME NEW t \in Token, Expire(t) PROVE Good
  <2> DEFINE row == [session[t] EXCEPT !.expired = TRUE]
  <2>1. session[t] # Without
    BY <1>4 DEF Expire, Stands
  <2>2. row \in MemberSession /\ row.of = session[t].of
    BY <2>1 DEF AccountTypeOK, MemberSession
  <2>3. session' = [session EXCEPT ![t] = row]
    BY <1>4, <2>1 DEF Expire, AccountTypeOK, MemberSession
  <2> HIDE DEF row
  <2> QED  BY <1>2, <2>1, <2>2, <2>3
<1>5. ASSUME NEW v \in Visitor,
             \/ InsertMember(v) \/ AuthUser(v)
             \/ ReadOldAvatar(v) \/ WriteAvatar(v) \/ UpdateAvatar(v) \/ ReadAvatar(v) \/ RemoveOldAvatar(v)
             \/ UndoAvatar(v)
             \/ \E t \in Token : AuthSession(v, t)
             \/ \E m \in Member :
                  \/ Login(v, m) \/ DeleteSysUser(v, m)
                  \/ \E name \in MemberName :
                       \/ CreateSysUser(v, m, name)
                       \/ \E avatar \in 0..visitorCalls : UpdateSysUser(v, m, name, avatar)
             \/ \E name \in MemberName, found \in Member \cup {Without} : Register(v, name, found)
      PROVE  Good
  <2>1. session' = session
    BY <1>5 DEF InsertMember, AuthUser, ReadOldAvatar, WriteAvatar, UpdateAvatar, ReadAvatar, RemoveOldAvatar,
             UndoAvatar, AuthSession, Login, DeleteSysUser, CreateSysUser, UpdateSysUser, Register
  <2> QED  BY <2>1, <1>0
<1>6. ASSUME NEW m \in Member, Disable(m) PROVE Good
  BY <1>6, <1>0 DEF Disable
<1> HIDE DEF Good
<1>7. Good
  BY <1>1, <1>3, <1>4, <1>5, <1>6 DEF AccountNext
<1> QED  BY <1>7 DEF Good

(* A file is removed by the call that replaced it, or by the one that      *)
(* wrote it and takes it back; no other is.                                *)
LEMMA FilesGoOn ==
  ASSUME AccountTypeOK, AdmissionInv, CallsApart, AccountNext
  PROVE  /\ avatars' \subseteq 1..MaxVisitorCalls
         /\ \A c \in avatars \ avatars' :
              \E v \in Visitor :
                /\ Called(v) /\ visitor'[v] = Without
                /\ \/ visitor[v].pc = "avatarOld" /\ visitor[v].old = c
                   \/ visitor[v].pc = "avatarUndo" /\ visitor[v].call = c
<1> DEFINE Good == /\ avatars' \subseteq 1..MaxVisitorCalls
                   /\ \A c \in avatars \ avatars' :
                        \E v \in Visitor :
                          /\ Called(v) /\ visitor'[v] = Without
                          /\ \/ visitor[v].pc = "avatarOld" /\ visitor[v].old = c
                             \/ visitor[v].pc = "avatarUndo" /\ visitor[v].call = c
<1>0. ASSUME avatars' = avatars PROVE Good
  BY <1>0 DEF AccountTypeOK
<1>1. ASSUME NEW v \in Visitor, WriteAvatar(v) PROVE Good
  <2>1. visitor[v].call \in 1..MaxVisitorCalls
    BY <1>1, AccountAssumption DEF WriteAvatar, Standing, CallsApart, Called, AccountTypeOK
  <2> QED  BY <1>1, <2>1 DEF WriteAvatar, AccountTypeOK
<1>2. ASSUME NEW v \in Visitor, RemoveOldAvatar(v) PROVE Good
  <2>1. Called(v) /\ visitor[v].pc = "avatarOld" /\ visitor'[v] = Without
    BY <1>2, CallDone DEF RemoveOldAvatar, Standing, Called
  <2> QED  BY <1>2, <2>1 DEF RemoveOldAvatar, AccountTypeOK
<1>3. ASSUME NEW v \in Visitor, UndoAvatar(v) PROVE Good
  <2>1. Called(v) /\ visitor[v].pc = "avatarUndo" /\ visitor'[v] = Without
    BY <1>3, CallDone DEF UndoAvatar, Standing, Called
  <2> QED  BY <1>3, <2>1 DEF UndoAvatar, AccountTypeOK
<1>4. ASSUME NEW v \in Visitor,
             \/ InsertMember(v) \/ IssueSession(v) \/ AuthUser(v) \/ Logout(v)
             \/ ReadOldAvatar(v) \/ UpdateAvatar(v) \/ ReadAvatar(v)
             \/ \E t \in Token : AuthSession(v, t)
             \/ \E m \in Member :
                  \/ Login(v, m) \/ DeleteSysUser(v, m)
                  \/ \E name \in MemberName :
                       \/ CreateSysUser(v, m, name)
                       \/ \E avatar \in 0..visitorCalls : UpdateSysUser(v, m, name, avatar)
             \/ \E name \in MemberName, found \in Member \cup {Without} : Register(v, name, found)
      PROVE  Good
  <2>1. avatars' = avatars
    BY <1>4 DEF InsertMember, IssueSession, AuthUser, Logout, ReadOldAvatar, UpdateAvatar, ReadAvatar, AuthSession,
             Login, DeleteSysUser, CreateSysUser, UpdateSysUser, Register
  <2> QED  BY <2>1, <1>0
<1>5. ASSUME NEW t \in Token, Expire(t) PROVE Good
  BY <1>5, <1>0 DEF Expire
<1>6. ASSUME NEW m \in Member, Disable(m) PROVE Good
  BY <1>6, <1>0 DEF Disable
<1> HIDE DEF Good
<1>7. Good
  BY <1>1, <1>2, <1>3, <1>4, <1>5, <1>6 DEF AccountNext
<1> QED  BY <1>7 DEF Good

(* The ghosts only grow, and the faults stay within their bound.           *)
LEMMA GhostsGoOn ==
  ASSUME AccountTypeOK, AdmissionInv, AccountNext
  PROVE  /\ doubtful' \subseteq MemberName /\ doubtful \subseteq doubtful'
         /\ unread' \subseteq Member /\ unread \subseteq unread'
         /\ lent' \subseteq 1..MaxVisitorCalls /\ lent \subseteq lent'
         /\ memberFaults' \in 0..MaxMemberFaults
<1> DEFINE Good == /\ doubtful' \subseteq MemberName /\ doubtful \subseteq doubtful'
                   /\ unread' \subseteq Member /\ unread \subseteq unread'
                   /\ lent' \subseteq 1..MaxVisitorCalls /\ lent \subseteq lent'
                   /\ memberFaults' \in 0..MaxMemberFaults
<1>0. /\ doubtful \subseteq MemberName /\ unread \subseteq Member /\ lent \subseteq 1..MaxVisitorCalls
      /\ memberFaults' = memberFaults \/ FaultOf => memberFaults' \in 0..MaxMemberFaults
  BY FaultCounted DEF AccountTypeOK
<1>1. ASSUME NEW v \in Visitor, NEW name \in MemberName, NEW found, Register(v, name, found) PROVE Good
  BY <1>0, <1>1 DEF Register
<1>2. ASSUME NEW v \in Visitor, NEW m \in Member, NEW name \in MemberName,
             \/ CreateSysUser(v, m, name)
             \/ \E avatar \in 0..visitorCalls : UpdateSysUser(v, m, name, avatar)
      PROVE  Good
  <2>1. \A avatar \in 0..visitorCalls : {avatar} \ {member[m].avatar, 0} \subseteq 1..MaxVisitorCalls
    BY AccountAssumption DEF AccountTypeOK
  <2> QED  BY <1>0, <1>2, <2>1 DEF CreateSysUser, UpdateSysUser
<1>3. ASSUME NEW v \in Visitor, ReadAvatar(v) PROVE Good
  <2>1. visitor[v].of \in Member
    BY <1>3 DEF ReadAvatar, Standing, AdmissionInv, AdmissionOf, Called
  <2> QED  BY <1>0, <1>3, <2>1 DEF ReadAvatar
<1>4. ASSUME NEW v \in Visitor,
             \/ InsertMember(v) \/ IssueSession(v) \/ AuthUser(v) \/ Logout(v)
             \/ ReadOldAvatar(v) \/ WriteAvatar(v) \/ UpdateAvatar(v) \/ RemoveOldAvatar(v) \/ UndoAvatar(v)
             \/ \E t \in Token : AuthSession(v, t)
             \/ \E m \in Member : Login(v, m) \/ DeleteSysUser(v, m)
      PROVE  Good
  <2>1. doubtful' = doubtful /\ unread' = unread /\ lent' = lent /\ (memberFaults' = memberFaults \/ FaultOf)
    BY <1>4 DEF ghosts, InsertMember, IssueSession, AuthUser, Logout, ReadOldAvatar, WriteAvatar, UpdateAvatar,
             RemoveOldAvatar, UndoAvatar, AuthSession, Login, DeleteSysUser
  <2> QED  BY <1>0, <2>1
<1>5. ASSUME NEW t \in Token, Expire(t) PROVE Good
  BY <1>5, <1>0 DEF Expire, ghosts
<1>6. ASSUME NEW m \in Member, Disable(m) PROVE Good
  BY <1>6, <1>0 DEF Disable, ghosts
<1> HIDE DEF Good
<1>7. Good
  BY <1>1, <1>2, <1>3, <1>4, <1>5, <1>6 DEF AccountNext
<1> QED  BY <1>7 DEF Good

-------------------------------------------------------------------------------
(* Every step preserves the type invariant.                                *)
LEMMA AccountTypeStep ==
  ASSUME AccountTypeOK, AdmissionInv, CallsApart, AccountNext
  PROVE  AccountTypeOK'
BY OneMoves, RowsGoOn, SessionsGoOn, FilesGoOn, GhostsGoOn DEF AccountTypeOK, CallType, RowType

(* What a call knows goes on being so, whatever is done to the rows and    *)
(* the sessions.                                                           *)
LEMMA KnowledgeStays ==
  ASSUME AccountTypeOK, AdmissionInv, AccountNext, NEW it \in VisitorCall, AdmissionOf(it)
  PROVE  /\ it.pc # "create" => it.of \in Member /\ member'[it.of] # Without
         /\ it.token # Without => session'[it.token] # Without /\ session'[it.token].of = it.of
         /\ (it.pc = "user" /\ ~it.wellBegun) => ~MayAct(it.of)'
<1>1. it.of \in Member => RowGoesOn(it.of)
  BY RowsGoOn
<1>2. it.token \in Token /\ session[it.token] # Without =>
        session'[it.token] # Without /\ session'[it.token].of = session[it.token].of
  BY SessionsGoOn
<1>3. it.token \in Token \cup {Without}
  BY DEF VisitorCall
<1> QED  BY <1>1, <1>2, <1>3 DEF AdmissionOf, RowGoesOn

(* Every step preserves what the calls and the sessions know (the two      *)
(* reads of Auth).                                                         *)
LEMMA AdmissionStep ==
  ASSUME AccountTypeOK, AdmissionInv, AccountNext
  PROVE  AdmissionInv'
<1>1. ASSUME NEW t \in Token, session'[t] # Without PROVE member'[session'[t].of] # Without
  <2>1. CASE session[t] # Without
    <3>1. session'[t].of = session[t].of /\ session[t].of \in Member /\ member[session[t].of] # Without
      BY <2>1, SessionsGoOn DEF AdmissionInv, AccountTypeOK, MemberSession
    <3> QED  BY <3>1, RowsGoOn DEF RowGoesOn
  <2>2. CASE session[t] = Without
    <3>1. PICK v \in Visitor : Called(v) /\ visitor[v].pc = "issue" /\ session'[t].of = visitor[v].of
      BY <1>1, <2>2, SessionsGoOn
    <3>2. visitor[v].of \in Member /\ member[visitor[v].of] # Without
      BY <3>1 DEF AdmissionInv, AdmissionOf
    <3> QED  BY <3>1, <3>2, RowsGoOn DEF RowGoesOn
  <2> QED  BY <2>1, <2>2
<1>2. ASSUME NEW v \in Visitor, Called(v)' PROVE AdmissionOf(visitor[v])'
  <2>1. CASE Called(v)
    <3>0. PICK it \in VisitorCall : it = visitor[v]
      BY <2>1 DEF Called, AccountTypeOK
    <3>1. AdmissionOf(it)
      BY <2>1, <3>0 DEF AdmissionInv
    <3>2. /\ it.pc # "create" => it.of \in Member /\ member'[it.of] # Without
          /\ it.token # Without => session'[it.token] # Without /\ session'[it.token].of = it.of
          /\ (it.pc = "user" /\ ~it.wellBegun) => ~MayAct(it.of)'
      BY <3>1, KnowledgeStays
    <3>3. CASE visitor'[v] = visitor[v]
      BY <3>0, <3>1, <3>2, <3>3 DEF AdmissionOf, MayAct, Live
    <3>4. CASE GoneOn(v)
      <4>1. /\ <<it.pc, visitor'[v].pc>> \in Edges
            /\ visitor'[v].token = it.token /\ visitor'[v].wellBegun = it.wellBegun
            /\ it.pc # "create" => visitor'[v].of = it.of
            /\ it.pc = "create" => visitor'[v].of \in Member /\ member'[visitor'[v].of] # Without
            /\ it.pc = "user" => MayAct(it.of)
        BY <3>0, <3>4 DEF GoneOn
      <4>2. CASE it.pc = "create"
        BY <3>0, <3>1, <4>1, <4>2 DEF AdmissionOf, Edges
      <4>3. CASE it.pc = "user"
        BY <3>0, <3>1, <3>2, <4>1, <4>3 DEF AdmissionOf, Edges, VisitorCall
      <4>4. CASE it.pc \notin {"create", "user"}
        BY <3>0, <3>1, <3>2, <4>1, <4>4 DEF AdmissionOf, Edges
      <4> QED  BY <4>2, <4>3, <4>4
    <3> QED  BY <1>2, <2>1, <3>3, <3>4, OneMoves DEF OthersStay, Begun, Ended
  <2>2. CASE ~Called(v)
    <3>1. Begun(v)
      BY <1>2, <2>2, OneMoves DEF OthersStay, Ended, GoneOn, Called
    <3> QED  BY <3>1 DEF Begun, AdmissionOf, MayAct, Live
  <2> QED  BY <2>1, <2>2
<1> QED  BY <1>1, <1>2 DEF AdmissionInv

(* Which call may be where after an action.                                *)
LEMMA CallCases ==
  ASSUME AccountTypeOK, AdmissionInv, AccountNext, NEW v \in Visitor, Called(v)'
  PROVE  (Called(v) /\ visitor'[v] = visitor[v]) \/ Begun(v) \/ GoneOn(v)
<1>1. CASE visitor' = visitor
  BY <1>1 DEF Called
<1>2. ASSUME NEW w \in Visitor, OthersStay(w), Begun(w) \/ Ended(w) \/ GoneOn(w)
      PROVE  (Called(v) /\ visitor'[v] = visitor[v]) \/ Begun(v) \/ GoneOn(v)
  <2>1. CASE w = v
    BY <1>2, <2>1 DEF Ended
  <2>2. CASE w # v
    BY <1>2, <2>2 DEF OthersStay, Called
  <2> QED  BY <2>1, <2>2
<1> QED  BY <1>1, <1>2, OneMoves

(* Every step preserves that a name that is not doubtful is of one row,    *)
(* and of none while a call is about to give it (Register, InsertMember).  *)
LEMMA NameStep ==
  ASSUME AccountTypeOK, AdmissionInv, NameInv, AccountNext
  PROVE  NameInv'
<1> SUFFICES ASSUME NEW name \in MemberName, name \notin doubtful'
             PROVE  /\ \A m, n \in Named(name)' : m = n
                    /\ \A v \in Visitor : (Called(v)' /\ visitor'[v].pc = "create" /\ visitor'[v].name = name) =>
                         /\ Named(name)' = {}
                         /\ \A w \in Visitor :
                              (Called(w)' /\ visitor'[w].pc = "create" /\ visitor'[w].name = name) => w = v
  BY DEF NameInv
<1> DEFINE At(v) == Called(v) /\ visitor[v].pc = "create" /\ visitor[v].name = name
<1>1. /\ \A m, n \in Named(name) : m = n
      /\ \A v \in Visitor : At(v) => Named(name) = {} /\ \A w \in Visitor : At(w) => w = v
  BY GhostsGoOn DEF NameInv
<1>2. \A m \in Named(name)' \ Named(name) : GivesName(m, name)
  BY RowsGoOn DEF Named
<1>3. ASSUME NEW v \in Visitor, Called(v)', visitor'[v].pc = "create", visitor'[v].name = name
      PROVE  (At(v) /\ visitor'[v] = visitor[v])
               \/ (Begun(v) /\ Named(name) = {} /\ ~Registering(name) /\ member' = member)
  BY <1>3, CallCases DEF Begun, GoneOn, Edges, FreeFor
<1>4. ASSUME NEW m \in Named(name)', NEW n \in Named(name)' PROVE m = n
  <2>1. CASE m \notin Named(name) \/ n \notin Named(name)
    BY <1>1, <1>2, <1>4, <2>1 DEF GivesName, Named
  <2> QED  BY <1>1, <2>1
<1>5. ASSUME NEW v \in Visitor, Called(v)', visitor'[v].pc = "create", visitor'[v].name = name
      PROVE  Named(name)' = {}
  <2>1. Named(name) = {}
    BY <1>1, <1>3, <1>5
  <2>2. ASSUME NEW m \in Named(name)' PROVE FALSE
    <3>1. PICK w \in Visitor : /\ At(w) /\ (visitor'[w] = Without \/ visitor'[w].pc # "create")
      BY <1>2, <2>1, <2>2 DEF GivesName
    <3>2. ~At(v) \/ v = w
      BY <1>1, <3>1
    <3> QED  BY <1>3, <1>5, <2>1, <2>2, <3>1, <3>2 DEF Named, Called, Registering
  <2> QED  BY <2>2
<1>6. ASSUME NEW v \in Visitor, Called(v)', visitor'[v].pc = "create", visitor'[v].name = name,
             NEW w \in Visitor, Called(w)', visitor'[w].pc = "create", visitor'[w].name = name
      PROVE  w = v
  <2>1. CASE At(v) /\ At(w)
    BY <1>1, <2>1
  <2>2. CASE ~At(v) /\ ~At(w)
    BY <1>3, <1>6, <2>2, OneMoves DEF OthersStay, Begun, Called
  <2> QED  BY <1>3, <1>6, <2>1, <2>2 DEF Registering, Called
<1> QED  BY <1>4, <1>5, <1>6

(* Every step leaves the numbers of the calls, the names of their files,   *)
(* distinct.                                                               *)
LEMMA CallsApartStep ==
  ASSUME AccountTypeOK, AdmissionInv, CallsApart, AccountNext
  PROVE  CallsApart'
<1> SUFFICES ASSUME NEW v \in Visitor, Called(v)'
             PROVE  /\ visitor'[v].call \in 1..visitorCalls'
                    /\ \A w \in Visitor : (Called(w)' /\ visitor'[w].call = visitor'[v].call) => w = v
  BY DEF CallsApart
<1>0. visitorCalls \in Nat
  BY AccountAssumption DEF AccountTypeOK
<1>1. \A w \in Visitor : Called(w)' =>
        \/ Called(w) /\ visitor'[w].call = visitor[w].call /\ visitor'[w].call \in 1..visitorCalls
        \/ Begun(w) /\ visitorCalls' = visitorCalls + 1 /\ visitor'[w].call = visitorCalls + 1
  BY CallCases DEF Begun, GoneOn, CallsApart
<1>2. visitorCalls' \in {visitorCalls, visitorCalls + 1}
  BY OneMoves DEF Begun, Ended, GoneOn
<1>3. visitor'[v].call \in 1..visitorCalls'
  BY <1>0, <1>1, <1>2
<1>4. ASSUME NEW w \in Visitor, Called(w)', visitor'[w].call = visitor'[v].call PROVE w = v
  <2>1. CASE Begun(v) /\ Begun(w)
    BY <2>1, OneMoves DEF OthersStay, Begun, Called
  <2>2. CASE Called(v) /\ Called(w)
    BY <1>1, <1>4, <2>2 DEF CallsApart, Begun
  <2> QED  BY <1>0, <1>1, <1>4, <2>1, <2>2
<1> QED  BY <1>3, <1>4

(* What has been written stays so.                                         *)
LEMMA WrittenStays ==
  ASSUME AccountTypeOK, AdmissionInv, AccountNext, NEW c \in 1..visitorCalls, Written(c)
  PROVE  c \in 1..visitorCalls' /\ Written(c)'
<1>0. visitorCalls \in Nat /\ visitorCalls' \in {visitorCalls, visitorCalls + 1}
  <2>1. visitorCalls \in Nat
    BY AccountAssumption DEF AccountTypeOK
  <2>2. visitorCalls' \in {visitorCalls, visitorCalls + 1}
    BY OneMoves DEF Begun, Ended, GoneOn
  <2> QED  BY <2>1, <2>2
<1>1. ASSUME NEW v \in Visitor, Called(v)', visitor'[v].call = c PROVE visitor'[v].pc \notin Early
  <2>1. CASE Begun(v)
    BY <1>0, <1>1, <2>1 DEF Begun
  <2>2. CASE GoneOn(v)
    BY <1>1, <2>2 DEF GoneOn, Written, Early, Edges
  <2> QED  BY <1>1, <2>1, <2>2, CallCases DEF Written
<1> QED  BY <1>0, <1>1 DEF Written

(* Every step preserves that a file is named by one row, of the user of    *)
(* the call that wrote it, and after that call has written the row.        *)
LEMMA RowsStep ==
  ASSUME AccountTypeOK, AdmissionInv, CallsApart, RowsInv, AccountNext
  PROVE  RowsInv'
<1> SUFFICES ASSUME NEW m \in Member, NEW c \in Nat, RowNames(c, m)'
             PROVE  /\ c \in 1..visitorCalls'
                    /\ c \notin lent' =>
                         /\ Written(c)'
                         /\ \A v \in Visitor : (Called(v)' /\ visitor'[v].call = c) => visitor'[v].of = m
                         /\ \A n \in Member : RowNames(c, n)' => n = m
  BY DEF RowsInv
<1>0. lent \subseteq lent' /\ 1..visitorCalls \subseteq 1..visitorCalls'
  <2>1. visitorCalls \in Nat
    BY AccountAssumption DEF AccountTypeOK
  <2>2. visitorCalls' \in {visitorCalls, visitorCalls + 1}
    BY OneMoves DEF Begun, Ended, GoneOn
  <2> QED  BY <2>1, <2>2, GhostsGoOn
<1>1. CASE LendsAvatar(c)
  BY <1>0, <1>1 DEF LendsAvatar
<1>2. CASE RowNames(c, m) /\ c \in lent'
  BY <1>0, <1>2 DEF RowsInv
<1>3. CASE RowNames(c, m) /\ c \notin lent'
  <2>0. c \notin lent /\ ~LendsAvatar(c)
    BY <1>0, <1>3 DEF LendsAvatar
  <2>1. /\ c \in 1..visitorCalls /\ Written(c)
        /\ \A v \in Visitor : (Called(v) /\ visitor[v].call = c) => visitor[v].of = m
        /\ \A n \in Member : RowNames(c, n) => n = m
    BY <1>3, <2>0 DEF RowsInv
  <2>2. c \in 1..visitorCalls' /\ Written(c)'
    BY <2>1, WrittenStays
  <2>3. ASSUME NEW v \in Visitor, Called(v)', visitor'[v].call = c PROVE visitor'[v].of = m
    <3>1. CASE Begun(v)
      BY <2>2, <2>3, <3>1 DEF Begun, Written, Early
    <3>2. CASE GoneOn(v)
      BY <2>1, <2>3, <3>2 DEF GoneOn, Written, Early
    <3> QED  BY <2>1, <2>3, <3>1, <3>2, CallCases
  <2>4. ASSUME NEW n \in Member, RowNames(c, n)' PROVE n = m
    <3>1. ~NamesAvatar(n, c)
      BY <2>1 DEF NamesAvatar, Written, Early
    <3> QED  BY <2>0, <2>1, <2>4, <3>1, RowsGoOn
  <2> QED  BY <2>2, <2>3, <2>4
<1>4. CASE NamesAvatar(m, c)
  <2>1. PICK v \in Visitor : /\ Called(v) /\ visitor[v].pc = "avatarRow" /\ visitor[v].of = m /\ visitor[v].call = c
                             /\ Steps(v, "avatarRead") /\ \A n \in Member \ {m} : member'[n] = member[n]
    BY <1>4 DEF NamesAvatar
  <2>2. /\ Called(v)' /\ visitor'[v].pc = "avatarRead" /\ visitor'[v].of = m /\ visitor'[v].call = c
    BY <2>1, CallGoesOn DEF Pc, Called
  <2>3. c \in 1..visitorCalls' /\ \A w \in Visitor : (Called(w)' /\ visitor'[w].call = c) => w = v
    BY <2>2, CallsApartStep DEF CallsApart
  <2>4. ASSUME NEW n \in Member, RowNames(c, n)', c \notin lent' PROVE n = m
    BY <1>0, <2>1, <2>4 DEF RowNames, RowsInv, Written, Early
  <2> QED  BY <2>2, <2>3, <2>4 DEF Written, Early
<1> QED  BY <1>3, <1>4, <1>1, <1>2, RowsGoOn

(* Every step preserves that a call removes as old only what its own       *)
(* user's row may still name, and nothing any row names once it has        *)
(* written the row.                                                        *)
LEMMA OldStep ==
  ASSUME AccountTypeOK, AdmissionInv, CallsApart, RowsInv, OldInv, AccountNext
  PROVE  OldInv'
<1> DEFINE Removing == {"avatarFile", "avatarRow", "avatarRead", "avatarOld", "avatarUndo"}
<1> SUFFICES ASSUME NEW v \in Visitor, Called(v)', visitor'[v].old # 0,
                    NEW c \in Nat, c = visitor'[v].old
             PROVE  /\ visitor'[v].pc \in Removing
                    /\ c \in 1..visitorCalls'
                    /\ c \notin lent' =>
                         /\ Written(c)'
                         /\ \A m \in Member : RowNames(c, m)' =>
                              m = visitor'[v].of /\ visitor'[v].pc \notin {"avatarRead", "avatarOld"}
  <2>1. \A v \in Visitor : Called(v)' => visitor'[v].old \in Nat
    BY OneMoves DEF CallType, Called, VisitorCall
  <2> QED  BY <2>1 DEF OldInv, Written, RowNames
<1>0. lent \subseteq lent' /\ 1..visitorCalls \subseteq 1..visitorCalls'
  <2>1. visitorCalls \in Nat
    BY AccountAssumption DEF AccountTypeOK
  <2>2. visitorCalls' \in {visitorCalls, visitorCalls + 1}
    BY OneMoves DEF Begun, Ended, GoneOn
  <2> QED  BY <2>1, <2>2, GhostsGoOn
<1>1. ASSUME c \in 1..visitorCalls, Written(c), c \notin lent'
      PROVE  /\ Written(c)'
             /\ \A m \in Member : RowNames(c, m)' => RowNames(c, m)
  <2>1. \A m \in Member : ~NamesAvatar(m, c) /\ ~LendsAvatar(c)
    BY <1>1 DEF NamesAvatar, LendsAvatar, Written, Early
  <2> QED  BY <1>1, <2>1, WrittenStays, RowsGoOn
<1>2. CASE Called(v) /\ visitor'[v] = visitor[v]
  <2>1. /\ visitor[v].pc \in Removing /\ c \in 1..visitorCalls
        /\ c \notin lent =>
             /\ Written(c)
             /\ \A m \in Member : RowNames(c, m) =>
                  m = visitor[v].of /\ visitor[v].pc \notin {"avatarRead", "avatarOld"}
    BY <1>2 DEF OldInv
  <2> QED  BY <1>0, <1>1, <1>2, <2>1
<1>3. CASE GoneOn(v) /\ c = visitor[v].old
  <2>1. /\ Called(v) /\ visitor[v].pc \in Removing /\ c \in 1..visitorCalls
        /\ c \notin lent =>
             /\ Written(c)
             /\ \A m \in Member : RowNames(c, m) =>
                  m = visitor[v].of /\ visitor[v].pc \notin {"avatarRead", "avatarOld"}
    BY <1>3 DEF OldInv, GoneOn
  <2>2. visitor'[v].pc \in Removing /\ visitor'[v].of = visitor[v].of
    BY <1>3, <2>1 DEF GoneOn, Edges
  <2>3. (c \notin lent' /\ visitor'[v].pc = "avatarRead") => \A m \in Member : ~RowNames(c, m)'
    <3>1. visitor'[v].pc = "avatarRead" =>
            visitor[v].pc = "avatarRow" /\ member'[visitor[v].of].avatar = visitor[v].call
      BY <1>3 DEF GoneOn, Edges
    <3>2. (c \notin lent' /\ visitor[v].pc = "avatarRow") => visitor[v].call # c
      BY <1>0, <2>1 DEF Written, Early
    <3> QED  BY <1>0, <1>1, <2>1, <3>1, <3>2 DEF RowNames
  <2>4. visitor'[v].pc = "avatarOld" => visitor[v].pc = "avatarRead"
    BY <1>3 DEF GoneOn, Edges
  <2> QED  BY <1>0, <1>1, <2>1, <2>2, <2>3, <2>4
<1>4. CASE GoneOn(v) /\ c # visitor[v].old
  <2>1. /\ Called(v) /\ visitor[v].pc = "admitted" /\ Live(visitor[v].of) /\ c = member[visitor[v].of].avatar
        /\ visitor'[v].pc = "avatarFile" /\ visitor'[v].of = visitor[v].of
    BY <1>4 DEF GoneOn, Edges
  <2>2. visitor[v].of \in Member /\ RowNames(c, visitor[v].of)
    BY <2>1 DEF AdmissionInv, AdmissionOf, RowNames
  <2>3. c \in 1..visitorCalls
        /\ (c \notin lent => Written(c) /\ \A m \in Member : RowNames(c, m) => m = visitor[v].of)
    BY <2>2 DEF RowsInv
  <2> QED  BY <1>0, <1>1, <2>1, <2>3
<1>5. ~Begun(v)
  BY DEF Begun
<1> QED  BY <1>2, <1>3, <1>4, <1>5, CallCases

(* A file that is about to be named, or is named by the row of a live user *)
(* whose answer could be read, is not removed, unless it was given away.   *)
LEMMA NotRemoved ==
  ASSUME AccountInv, AccountNext, NEW c \in avatars, c # 0, c \notin lent,
         \/ \E v \in Visitor : Called(v) /\ visitor[v].pc = "avatarRow" /\ visitor[v].call = c
         \/ \E m \in Member : RowNames(c, m) /\ Live(m) /\ m \notin unread
  PROVE  c \in avatars'
<1> USE DEF AccountInv
<1> SUFFICES ASSUME c \notin avatars' PROVE FALSE
  OBVIOUS
<1>1. PICK w \in Visitor : /\ Called(w)
                           /\ \/ visitor[w].pc = "avatarOld" /\ visitor[w].old = c
                              \/ visitor[w].pc = "avatarUndo" /\ visitor[w].call = c
  BY FilesGoOn
<1>2. ASSUME NEW v \in Visitor, Called(v), visitor[v].pc = "avatarRow", visitor[v].call = c PROVE FALSE
  <2>1. CASE visitor[w].old = c
    BY <1>1, <1>2, <2>1 DEF OldInv, Written, Early
  <2>2. CASE visitor[w].pc = "avatarUndo" /\ visitor[w].call = c
    BY <1>1, <1>2, <2>2 DEF CallsApart
  <2> QED  BY <1>1, <2>1, <2>2
<1>3. ASSUME NEW m \in Member, RowNames(c, m), Live(m), m \notin unread PROVE FALSE
  BY <1>1, <1>3 DEF OldInv, OwnFileInv
<1> QED  BY <1>2, <1>3

(* Every step preserves that a call takes back only a file no live user's  *)
(* row names, unless the answer was unread, and that a file is there       *)
(* before a row names it.                                                  *)
LEMMA OwnFileStep ==
  ASSUME AccountInv, AccountNext
  PROVE  OwnFileInv'
<1> USE DEF AccountInv
<1> SUFFICES ASSUME NEW v \in Visitor, Called(v)', visitor'[v].call \notin lent'
             PROVE  /\ visitor'[v].pc = "avatarUndo" =>
                         \A c \in Nat, m \in Member :
                           (c = visitor'[v].call /\ RowNames(c, m)') => ~Live(m)' \/ m \in unread'
                    /\ visitor'[v].pc = "avatarRow" => visitor'[v].call \in avatars'
  <2>1. \A v \in Visitor : Called(v)' => visitor'[v].call \in Nat
    BY OneMoves DEF CallType, Called, VisitorCall
  <2> QED  BY <2>1 DEF OwnFileInv, RowNames
<1>l. visitor'[v].call \notin lent
  BY GhostsGoOn
<1>0. ~Begun(v) \/ visitor'[v].pc \notin {"avatarUndo", "avatarRow"}
  BY DEF Begun
<1>1. ASSUME (Called(v) /\ visitor'[v] = visitor[v]) \/ GoneOn(v), visitor'[v].pc = "avatarUndo",
             NEW c \in Nat, NEW m \in Member, c = visitor'[v].call, RowNames(c, m)'
      PROVE  ~Live(m)' \/ m \in unread'
  <2>1. Called(v) /\ visitor'[v].call = visitor[v].call
    BY <1>1 DEF GoneOn
  <2>2. c = visitor[v].call /\ c \notin lent /\ ~LendsAvatar(c)
    BY <1>1, <1>l, <2>1 DEF LendsAvatar
  <2>3. ~NamesAvatar(m, c)
    <3> SUFFICES ASSUME NamesAvatar(m, c) PROVE FALSE
      OBVIOUS
    <3>1. Steps(v, "avatarRead") /\ visitor[v].pc = "avatarRow"
      BY <2>1, <2>2 DEF NamesAvatar, CallsApart
    <3> QED  BY <1>1, <2>1, <3>1, CallGoesOn DEF Pc, Called
  <2>4. RowNames(c, m)
    BY <1>1, <2>1, <2>2, <2>3, RowsGoOn
  <2>5. (~Live(m) \/ m \in unread) => (~Live(m)' \/ m \in unread')
    BY <2>4, RowsGoOn, GhostsGoOn DEF RowGoesOn, RowNames
  <2>6. CASE visitor'[v] = visitor[v]
    BY <1>1, <2>1, <2>2, <2>4, <2>5, <2>6 DEF OwnFileInv
  <2>7. CASE GoneOn(v)
    <3>1. visitor[v].pc = "avatarRead" /\ (~Live(visitor[v].of) \/ visitor[v].of \in unread')
      BY <1>1, <2>1, <2>2, <2>4, <2>7 DEF GoneOn, Edges, RowsInv, Written, Early
    <3>2. visitor[v].of = m
      BY <2>1, <2>2, <2>4 DEF RowsInv
    <3> QED  BY <2>5, <3>1, <3>2
  <2> QED  BY <1>1, <2>6, <2>7
<1>2. ASSUME (Called(v) /\ visitor'[v] = visitor[v]) \/ GoneOn(v), visitor'[v].pc = "avatarRow"
      PROVE  visitor'[v].call \in avatars'
  <2>1. CASE visitor'[v] = visitor[v] /\ Called(v)
    <3>1. visitor[v].call \in avatars /\ visitor[v].call # 0 /\ visitor[v].pc = "avatarRow"
      BY <1>2, <1>l, <2>1, AccountAssumption DEF OwnFileInv, CallsApart, AccountTypeOK
    <3> QED  BY <1>l, <2>1, <3>1, NotRemoved
  <2>2. CASE GoneOn(v)
    BY <1>2, <2>2 DEF GoneOn, Edges
  <2> QED  BY <1>2, <2>1, <2>2
<1> QED  BY <1>0, <1>1, <1>2, CallCases

(* Every step preserves that the avatar of a live user is there.           *)
LEMMA AvatarStep ==
  ASSUME AccountInv, AccountNext
  PROVE  AvatarStands'
<1> USE DEF AccountInv
<1> SUFFICES ASSUME NEW m \in Member, Live(m)', m \notin unread', member'[m].avatar \notin lent' \cup {0}
             PROVE  member'[m].avatar \in avatars'
  BY DEF AvatarStands
<1>1. PICK c \in Nat : c = member'[m].avatar /\ RowNames(c, m)'
  BY RowsGoOn DEF RowType, Live, RowNames, MemberRow
<1>0. c \notin lent /\ ~LendsAvatar(c)
  BY <1>1, GhostsGoOn DEF LendsAvatar
<1>2. CASE RowNames(c, m)
  <2>1. Live(m) /\ m \notin unread
    BY <1>2, RowsGoOn, GhostsGoOn DEF RowGoesOn, RowNames
  <2>2. c \in avatars /\ c # 0
    BY <1>0, <1>2, <2>1 DEF AvatarStands, RowNames
  <2> QED  BY <1>0, <1>1, <1>2, <2>1, <2>2, NotRemoved
<1>3. CASE NamesAvatar(m, c)
  <2>1. PICK v \in Visitor : Called(v) /\ visitor[v].pc = "avatarRow" /\ visitor[v].call = c
    BY <1>3 DEF NamesAvatar
  <2>2. c \in avatars
    BY <1>0, <2>1 DEF OwnFileInv
  <2> QED  BY <1>0, <1>1, <2>1, <2>2, NotRemoved
<1> QED  BY <1>0, <1>1, <1>2, <1>3, RowsGoOn

(* The invariant holds at first, is preserved by every step, and gives the *)
(* properties.                                                             *)
LEMMA AccountInvInit == AccountInit => AccountInv
<1> SUFFICES ASSUME AccountInit PROVE AccountInv
  OBVIOUS
<1>1. AccountTypeOK
  BY AccountAssumption DEF AccountInit, AccountTypeOK
<1> QED  BY <1>1 DEF AccountInit, AccountInv, AdmissionInv, NameInv, CallsApart, RowsInv, OldInv, OwnFileInv,
               AvatarStands, Called, RowNames, Named, Live

(* Every step keeps the invariant.                                         *)
LEMMA AccountInvStep == AccountInv /\ [AccountNext]_accountVars => AccountInv'
<1> SUFFICES ASSUME AccountInv, [AccountNext]_accountVars PROVE AccountInv'
  OBVIOUS
<1>1. CASE AccountNext
  <2>1. AccountTypeOK' /\ AdmissionInv' /\ NameInv' /\ CallsApart'
    BY <1>1, AccountTypeStep, AdmissionStep, NameStep, CallsApartStep DEF AccountInv
  <2>2. RowsInv' /\ OldInv'
    BY <1>1, RowsStep, OldStep DEF AccountInv
  <2>3. OwnFileInv' /\ AvatarStands'
    BY <1>1, OwnFileStep, AvatarStep
  <2> QED  BY <2>1, <2>2, <2>3 DEF AccountInv
<1>2. CASE UNCHANGED accountVars
  BY <1>2 DEF accountVars, ghosts, AccountInv, AccountTypeOK, AdmissionInv, AdmissionOf, NameInv, CallsApart, RowsInv, OldInv,
           OwnFileInv, AvatarStands, Called, RowNames, Written, Named, Live, MayAct
<1> QED  BY <1>1, <1>2

(* And it says what is promised of users and their calls.                  *)
LEMMA AccountInvGives == AccountInv => AccountTypeOK /\ AccountsKept
<1> SUFFICES ASSUME AccountInv PROVE AccountTypeOK /\ AccountsKept
  OBVIOUS
<1>1. AdmittedAsLoggedIn
  BY DEF AccountInv, AdmissionInv, AdmissionOf, AdmittedAsLoggedIn, Called
<1>2. NameOnce
  <2> SUFFICES ASSUME NEW name \in MemberName \ doubtful
               PROVE  Cardinality({m \in Named(name) : Live(m)}) <= 1
    BY DEF NameOnce
  <2>1. \A m, n \in {m \in Named(name) : Live(m)} : m = n
    BY DEF AccountInv, NameInv
  <2> QED  BY <2>1, AtMostOne
<1> QED  BY <1>1, <1>2 DEF AccountInv, AccountsKept

(* The variables of users, sessions and avatars keep their types.          *)
THEOREM AccountTypeCorrect == AccountSpec => []AccountTypeOK
BY AccountInvInit, AccountInvStep, AccountInvGives, PTL DEF AccountSpec

(* A request is admitted for the user of its session and not for one       *)
(* deleted or disabled before it came; a name that was not given at once,  *)
(* blindly or over a deleted row is of one live user; a live user's avatar *)
(* is there unless an answer to its upload could not be read or an update  *)
(* gave its URL to a row that did not have it (Auth, Register,             *)
(* UpdateSysUser, UpdateAvatar of the handler and of the service).         *)
THEOREM AccountsAreKept == AccountSpec => []AccountsKept
BY AccountInvInit, AccountInvStep, AccountInvGives, PTL DEF AccountSpec

-------------------------------------------------------------------------------
(* Voice avatars.                                                          *)
Busy(c) == voiceCall[c] # AtRest
ListedBy(u) == Range(Records(u))

(* One call at a time, of the handler that takes new ones.                 *)
LockInv ==
  /\ \A c \in Caller : Busy(c) => voiceCall[c].handler = voiceHandler
  /\ \A c, d \in Caller : Busy(c) /\ Busy(d) => c = d

(* What an index lists is there, once, and in no other index.              *)
IndexInv ==
  \A u \in Speaker :
    /\ ListedBy(u) \subseteq voiceMedia /\ ListedBy(u) \cap unsent = {}
    /\ IsInjective(Records(u)) /\ Len(Records(u)) <= MaxAvatars
    /\ \A w \in Speaker \ {u} : ListedBy(u) \cap ListedBy(w) = {}

(* The list a call is about to write,                                      *)
ListKept(c) ==
  LET list == Range(voiceCall[c].list)
      p == voiceCall[c].portrait
  IN  /\ IsInjective(voiceCall[c].list) /\ Len(voiceCall[c].list) <= MaxAvatars
      /\ list \cap unsent = {} /\ list \ {p} \subseteq voiceMedia
      /\ \A w \in Speaker \ {voiceCall[c].of} : ListedBy(w) \cap list = {}
      /\ p \in list <=> voiceCall[c].kind = "upload"

(* and what else a call has made of its avatar.                            *)
CallKept(c) ==
  LET u == voiceCall[c].of
      p == voiceCall[c].portrait
      pc == voiceCall[c].pc
      upload == voiceCall[c].kind = "upload"
  IN  /\ p \notin unsent
      /\ pc = "media" => upload
      /\ pc = "remove" => ~upload
      /\ pc # "remove" => ListKept(c)
      /\ (upload /\ pc # "media") => p \in voiceMedia
      /\ \A w \in Speaker : p \in ListedBy(w) => w = u /\ ~upload /\ pc = "index"
      /\ pc = "emptied" => ListedBy(u) = {}
      /\ (u \notin hurt /\ pc # "remove") =>
           IF upload THEN p \notin promised[u] /\ Range(voiceCall[c].list) = promised[u] \cup {p}
           ELSE p \in promised[u] /\ Range(voiceCall[c].list) = promised[u] \ {p}

(* What was promised to a user nothing was done to is listed, but while    *)
(* the index is written;                                                   *)
PromiseInv ==
  \A u \in Speaker \ hurt :
    (\A c \in Caller : Busy(c) => voiceCall[c].of # u \/ voiceCall[c].pc # "emptied") => ListedBy(u) = promised[u]

(* and where nothing has failed the files are those promised, and that of  *)
(* the call which has written it, or has still to remove it.               *)
OwnsFile(c) == voiceCall[c].pc = "remove" \/ (voiceCall[c].kind = "upload" /\ voiceCall[c].pc # "media")
FilesInv ==
  hurt = {} => \A p \in Portrait :
    p \in voiceMedia <=>
      \/ \E u \in Speaker : p \in promised[u]
      \/ \E c \in Caller : Busy(c) /\ OwnsFile(c) /\ voiceCall[c].portrait = p

OneHandlerInv ==
  LockInv /\ IndexInv /\ (\A c \in Caller : Busy(c) => CallKept(c)) /\ PromiseInv /\ FilesInv

VoiceInv == VoiceTypeOK /\ (~doubled => OneHandlerInv)

-------------------------------------------------------------------------------
(* Lists of distinct elements, one added or removed.                       *)
LEMMA EmptyList == Range(<<>>) = {} /\ IsInjective(<<>>) /\ Len(<<>>) = 0
BY DEF Range, IsInjective

(* A list with one more element at its end.                                *)
LEMMA ElementAdded ==
  ASSUME NEW S, NEW s \in Seq(S), NEW p \in S
  PROVE  /\ Append(s, p) \in Seq(S) /\ Len(Append(s, p)) = Len(s) + 1
         /\ Range(Append(s, p)) = Range(s) \cup {p}
         /\ (IsInjective(s) /\ p \notin Range(s)) => IsInjective(Append(s, p))
<1>1. /\ Append(s, p) \in Seq(S) /\ Len(Append(s, p)) = Len(s) + 1
      /\ \A i \in 1 .. Len(s) : Append(s, p)[i] = s[i]
      /\ Append(s, p)[Len(s) + 1] = p
  OBVIOUS
<1> DEFINE t == Append(s, p)
<1> HIDE DEF t
<1>2. DOMAIN t = 1 .. (Len(s) + 1) /\ DOMAIN s = 1 .. Len(s) /\ Len(s) \in Nat
  BY <1>1 DEF t
<1>3. Range(t) = Range(s) \cup {p}
  BY <1>1, <1>2 DEF Range, t
<1>4. (IsInjective(s) /\ p \notin Range(s)) => IsInjective(t)
  BY <1>1, <1>2 DEF Range, IsInjective, t
<1> QED  BY <1>1, <1>3, <1>4 DEF t

(* A list without one of its elements.                                     *)
LEMMA ElementRemoved ==
  ASSUME NEW S, NEW s \in Seq(S), NEW i \in DOMAIN s
  PROVE  /\ RemoveAt(s, i) \in Seq(S) /\ Len(RemoveAt(s, i)) = Len(s) - 1
         /\ IsInjective(s) => IsInjective(RemoveAt(s, i)) /\ Range(RemoveAt(s, i)) = Range(s) \ {s[i]}
<1> DEFINE t == RemoveAt(s, i)
<1>1. /\ t \in Seq(S) /\ Len(t) = Len(s) - 1
      /\ \A j \in 1 .. Len(t) : t[j] = IF j < i THEN s[j] ELSE s[j + 1]
  <2> DEFINE front == SubSeq(s, 1, i - 1)
             back == SubSeq(s, i + 1, Len(s))
  <2>1. i \in 1 .. Len(s) /\ Len(s) \in Nat
    OBVIOUS
  <2>2. front \in Seq(S) /\ Len(front) = i - 1 /\ \A j \in 1 .. (i - 1) : front[j] = s[j]
    BY <2>1, SubSeqProperties
  <2>3. back \in Seq(S) /\ Len(back) = Len(s) - i /\ \A j \in 1 .. (Len(s) - i) : back[j] = s[j + i]
    BY <2>1, SubSeqProperties
  <2> HIDE DEF front, back
  <2>4. /\ front \o back \in Seq(S) /\ Len(front \o back) = Len(front) + Len(back)
        /\ \A j \in 1 .. Len(front) + Len(back) :
             (front \o back)[j] = IF j <= Len(front) THEN front[j] ELSE back[j - Len(front)]
    BY <2>2, <2>3, ConcatProperties
  <2>5. t = front \o back
    BY DEF RemoveAt, front, back
  <2>6. ASSUME NEW j \in 1 .. (Len(s) - 1) PROVE (front \o back)[j] = IF j < i THEN s[j] ELSE s[j + 1]
    <3>1. CASE j < i
      <4>1. j \in 1 .. (i - 1) /\ j \in 1 .. Len(front) + Len(back) /\ j <= Len(front)
        BY <2>1, <2>2, <2>3, <3>1
      <4>2. (front \o back)[j] = front[j]
        BY <2>4, <4>1
      <4> QED  BY <2>2, <3>1, <4>1, <4>2
    <3>2. CASE ~(j < i)
      <4>1. j - (i - 1) \in 1 .. (Len(s) - i) /\ (j - (i - 1)) + i = j + 1
        BY <2>1, <3>2
      <4>2. (front \o back)[j] = back[j - (i - 1)]
        <5>1. j \in 1 .. Len(front) + Len(back) /\ ~(j <= Len(front)) /\ Len(front) = i - 1
          BY <2>1, <2>2, <2>3, <3>2
        <5> QED  BY <2>4, <5>1
      <4>3. back[j - (i - 1)] = s[j + 1]
        BY <2>3, <4>1
      <4> QED  BY <3>2, <4>2, <4>3
    <3> QED  BY <3>1, <3>2
  <2>7. Len(front \o back) = Len(s) - 1
    BY <2>1, <2>2, <2>3, <2>4
  <2> HIDE DEF t
  <2> QED  BY <2>4, <2>5, <2>6, <2>7
<1> HIDE DEF t
<1>2. Len(s) \in Nat /\ i \in 1 .. Len(s) /\ DOMAIN t = 1 .. Len(t) /\ DOMAIN s = 1 .. Len(s)
  BY <1>1
<1>3. ASSUME IsInjective(s) PROVE IsInjective(t)
  BY <1>1, <1>2, <1>3 DEF IsInjective
<1>4. ASSUME IsInjective(s) PROVE Range(t) = Range(s) \ {s[i]}
  <2>1. ASSUME NEW x \in Range(t) PROVE x \in Range(s) \ {s[i]}
    <3>1. PICK j \in DOMAIN t : x = t[j]
      BY <2>1 DEF Range
    <3>2. PICK k \in DOMAIN s : k # i /\ x = s[k]
      <4>1. CASE j < i
        BY <1>1, <1>2, <3>1, <4>1
      <4>2. CASE ~(j < i)
        <5>1. j + 1 \in DOMAIN s /\ j + 1 # i
          BY <1>1, <1>2, <3>1, <4>2
        <5> QED  BY <1>1, <1>2, <3>1, <4>2, <5>1
      <4> QED  BY <4>1, <4>2
    <3> QED  BY <1>2, <1>4, <3>2 DEF Range, IsInjective
  <2>2. ASSUME NEW x \in Range(s) \ {s[i]} PROVE x \in Range(t)
    <3>1. PICK k \in DOMAIN s : k # i /\ x = s[k]
      BY <2>2 DEF Range
    <3>2. PICK j \in DOMAIN t : t[j] = s[k]
      <4>1. CASE k < i
        BY <1>1, <1>2, <4>1
      <4>2. CASE k > i
        <5>1. k - 1 \in DOMAIN t /\ ~(k - 1 < i) /\ (k - 1) + 1 = k
          BY <1>1, <1>2, <4>2
        <5> QED  BY <1>1, <1>2, <5>1
      <4> QED  BY <1>2, <3>1, <4>1, <4>2
    <3> QED  BY <3>1, <3>2 DEF Range
  <2> QED  BY <2>1, <2>2
<1> QED  BY <1>1, <1>3, <1>4 DEF t

(* What a half written index holds is no list of records.                  *)
LEMMA SpoiltIsNoList == Spoilt \notin Seq(Portrait)
<1>1. Len(Spoilt) = 1 /\ Spoilt[1] = "spoilt"
  BY DEF Spoilt
<1>2. \A s \in Seq(Portrait) : Len(s) = 1 => s[1] \in Portrait
  OBVIOUS
<1> QED  BY <1>1, <1>2, VoiceAssumption

(* An index reads as a list, a spoilt one as the empty list.               *)
LEMMA RecordsAreLists ==
  ASSUME VoiceTypeOK, NEW u \in Speaker
  PROVE  Records(u) \in Seq(Portrait) /\ Len(Records(u)) \in Nat
<1>1. Records(u) \in Seq(Portrait)
  BY DEF VoiceTypeOK, Records
<1> QED  BY <1>1

(* Writing or emptying one index changes what that user's reads as, and no *)
(* other.                                                                  *)
LEMMA IndexWritten ==
  ASSUME VoiceTypeOK, NEW u \in Speaker, NEW list \in Seq(Portrait),
         voiceIndex' = [voiceIndex EXCEPT ![u] = list]
  PROVE  /\ Records(u)' = list /\ \A w \in Speaker \ {u} : Records(w)' = Records(w)
         /\ voiceIndex' \in [Speaker -> Seq(Portrait) \cup {Spoilt}]
BY SpoiltIsNoList DEF VoiceTypeOK, Records

(* An index that has been emptied reads as no records; those of other      *)
(* users stay.                                                             *)
LEMMA IndexEmptied ==
  ASSUME VoiceTypeOK, NEW u \in Speaker, voiceIndex' = [voiceIndex EXCEPT ![u] = Spoilt]
  PROVE  /\ Records(u)' = <<>> /\ \A w \in Speaker \ {u} : Records(w)' = Records(w)
         /\ voiceIndex' \in [Speaker -> Seq(Portrait) \cup {Spoilt}]
BY DEF VoiceTypeOK, Records

(* A call begins, goes on, or ends.                                        *)
LEMMA CallIsOne ==
  ASSUME VoiceTypeOK, NEW c \in Caller, voiceCall[c].pc # "rest"
  PROVE  Busy(c) /\ voiceCall[c] \in VoiceCall
BY DEF VoiceTypeOK, Busy, AtRest

(* A call that begins changes no other.                                    *)
LEMMA CallMade ==
  ASSUME VoiceTypeOK, NEW c \in Caller, NEW it \in VoiceCall,
         voiceCall' = [voiceCall EXCEPT ![c] = it]
  PROVE  /\ voiceCall' \in [Caller -> VoiceCall \cup {AtRest}]
         /\ voiceCall'[c] = it /\ Busy(c)'
         /\ \A d \in Caller \ {c} : voiceCall'[d] = voiceCall[d]
<1>1. it # AtRest
  BY DEF VoiceCall, AtRest
<1> QED  BY <1>1 DEF VoiceTypeOK, Busy

(* A call that goes on changes nothing but its place, and no other call.   *)
LEMMA CallGoes ==
  ASSUME VoiceTypeOK, NEW c \in Caller, voiceCall[c] \in VoiceCall,
         NEW pc \in {"media", "index", "emptied", "remove"}, Goes(c, pc)
  PROVE  /\ voiceCall' \in [Caller -> VoiceCall \cup {AtRest}] /\ Busy(c)'
         /\ voiceCall'[c].pc = pc /\ voiceCall'[c].kind = voiceCall[c].kind /\ voiceCall'[c].of = voiceCall[c].of
         /\ voiceCall'[c].portrait = voiceCall[c].portrait /\ voiceCall'[c].handler = voiceCall[c].handler
         /\ voiceCall'[c].list = voiceCall[c].list
         /\ \A d \in Caller \ {c} : voiceCall'[d] = voiceCall[d]
<1> DEFINE it == [voiceCall[c] EXCEPT !.pc = pc]
<1>1. /\ it \in VoiceCall /\ it.pc = pc /\ it.kind = voiceCall[c].kind /\ it.of = voiceCall[c].of
      /\ it.portrait = voiceCall[c].portrait /\ it.handler = voiceCall[c].handler /\ it.list = voiceCall[c].list
  BY DEF VoiceCall
<1>2. voiceCall' = [voiceCall EXCEPT ![c] = it]
  BY DEF Goes, VoiceTypeOK
<1> HIDE DEF it
<1> QED  BY <1>1, <1>2, CallMade

(* A call that is over changes no other.                                   *)
LEMMA CallRests ==
  ASSUME VoiceTypeOK, NEW c \in Caller, Rest(c)
  PROVE  /\ voiceCall' \in [Caller -> VoiceCall \cup {AtRest}] /\ ~Busy(c)'
         /\ \A d \in Caller \ {c} : voiceCall'[d] = voiceCall[d]
BY DEF VoiceTypeOK, Busy, Rest

(* A failure is within its bound and hurts a user.                         *)
LEMMA FailureCounted ==
  ASSUME VoiceTypeOK, NEW c \in Caller, voiceCall[c] \in VoiceCall, FileWorks \/ FileFails(c)
  PROVE  fileFaults' \in 0 .. MaxFileFaults /\ hurt' \subseteq Speaker
BY VoiceAssumption DEF VoiceTypeOK, FileWorks, FileFails, VoiceCall

(* Every step preserves the type invariant.                                *)
LEMMA VoiceTypeStep == VoiceTypeOK /\ VoiceNext => VoiceTypeOK'
<1> SUFFICES ASSUME VoiceTypeOK, VoiceNext PROVE VoiceTypeOK'
  OBVIOUS
<1>1. ASSUME NEW c \in Caller, NEW u \in Speaker, NEW p \in Portrait, BeginUpload(c, u, p) PROVE VoiceTypeOK'
  <2> DEFINE it == [pc |-> "media", kind |-> "upload", of |-> u, portrait |-> p, handler |-> voiceHandler,
                    list |-> Append(Records(u), p)]
  <2>1. Append(Records(u), p) \in Seq(Portrait) /\ voiceHandler \in 1 .. MaxHandlers
    BY RecordsAreLists, ElementAdded DEF VoiceTypeOK
  <2>2. it \in VoiceCall
    BY <2>1 DEF VoiceCall
  <2>3. voiceCall' = [voiceCall EXCEPT ![c] = it]
    BY <1>1 DEF BeginUpload
  <2> HIDE DEF it
  <2>4. voiceCall' \in [Caller -> VoiceCall \cup {AtRest}]
    BY <2>2, <2>3, CallMade
  <2> QED  BY <1>1, <2>4 DEF BeginUpload, VoiceTypeOK
<1>2. ASSUME NEW c \in Caller, NEW u \in Speaker, NEW i \in DOMAIN Records(u), BeginDelete(c, u, i) PROVE VoiceTypeOK'
  <2> DEFINE it == [pc |-> "index", kind |-> "delete", of |-> u, portrait |-> Records(u)[i], handler |-> voiceHandler,
                    list |-> RemoveAt(Records(u), i)]
  <2>1. /\ RemoveAt(Records(u), i) \in Seq(Portrait) /\ Records(u)[i] \in Portrait
        /\ voiceHandler \in 1 .. MaxHandlers
    BY RecordsAreLists, ElementRemoved DEF VoiceTypeOK
  <2>2. it \in VoiceCall
    BY <2>1 DEF VoiceCall
  <2>3. voiceCall' = [voiceCall EXCEPT ![c] = it]
    BY <1>2 DEF BeginDelete
  <2> HIDE DEF it
  <2>4. voiceCall' \in [Caller -> VoiceCall \cup {AtRest}]
    BY <2>2, <2>3, CallMade
  <2> QED  BY <1>2, <2>4 DEF BeginDelete, VoiceTypeOK
<1>3. ASSUME NEW c \in Caller, WriteMedia(c) \/ EmptyIndex(c) \/ WriteIndex(c) \/ RemoveMedia(c) PROVE VoiceTypeOK'
  <2>1. voiceCall[c] \in VoiceCall
    BY <1>3, CallIsOne DEF WriteMedia, EmptyIndex, WriteIndex, RemoveMedia
  <2>2. fileFaults' \in 0 .. MaxFileFaults /\ hurt' \subseteq Speaker
    BY <1>3, <2>1, FailureCounted DEF WriteMedia, EmptyIndex, WriteIndex, RemoveMedia, GivesUp
  <2>3. voiceCall' \in [Caller -> VoiceCall \cup {AtRest}]
    BY <1>3, <2>1, CallGoes, CallRests DEF WriteMedia, EmptyIndex, WriteIndex, RemoveMedia, GivesUp
  <2>4. /\ voiceCall[c].of \in Speaker /\ voiceCall[c].portrait \in Portrait /\ voiceCall[c].list \in Seq(Portrait)
    BY <2>1 DEF VoiceCall
  <2>5. voiceIndex' \in [Speaker -> Seq(Portrait) \cup {Spoilt}]
    <3>1. \/ voiceIndex' = voiceIndex \/ voiceIndex' = [voiceIndex EXCEPT ![voiceCall[c].of] = Spoilt]
          \/ voiceIndex' = [voiceIndex EXCEPT ![voiceCall[c].of] = voiceCall[c].list]
      BY <1>3 DEF WriteMedia, EmptyIndex, WriteIndex, RemoveMedia
    <3> QED  BY <2>4, <3>1, IndexWritten, IndexEmptied DEF VoiceTypeOK
  <2>6. voiceMedia' \subseteq Portrait
    BY <1>3, <2>4 DEF WriteMedia, EmptyIndex, WriteIndex, RemoveMedia, GivesUp, VoiceTypeOK
  <2>7. promised' \in [Speaker -> SUBSET Portrait]
    BY <1>3, <2>4 DEF WriteMedia, EmptyIndex, WriteIndex, RemoveMedia, VoiceTypeOK
  <2>8. unsent' = unsent /\ voiceHandler' = voiceHandler /\ doubled' = doubled
    BY <1>3 DEF WriteMedia, EmptyIndex, WriteIndex, RemoveMedia
  <2> QED  BY <2>2, <2>3, <2>5, <2>6, <2>7, <2>8 DEF VoiceTypeOK
<1>4. CASE CrashVoice
  <2>1. \A c \in Caller : voiceCall[c] # AtRest => voiceCall[c].of \in Speaker
    BY DEF VoiceTypeOK, VoiceCall
  <2>2. fileFaults' \in 0 .. MaxFileFaults
    BY <1>4, VoiceAssumption DEF CrashVoice, VoiceTypeOK
  <2> QED  BY <1>4, <2>1, <2>2 DEF CrashVoice, VoiceTypeOK
<1>5. CASE NewHandler
  <2>1. voiceHandler' \in 1 .. MaxHandlers
    BY <1>5, VoiceAssumption DEF NewHandler, VoiceTypeOK
  <2> QED  BY <1>5, <2>1 DEF NewHandler, VoiceTypeOK
<1> QED  BY <1>1, <1>2, <1>3, <1>4, <1>5 DEF VoiceNext

(* Under the lock a call that begins is alone, and so nobody is in the     *)
(* middle of anything.                                                     *)
LEMMA Quiet ==
  ASSUME VoiceTypeOK, OneHandlerInv, Unlocked(voiceHandler)
  PROVE  /\ \A c \in Caller : ~Busy(c)
         /\ \A u \in Speaker \ hurt : ListedBy(u) = promised[u]
         /\ hurt = {} => \A p \in Portrait : p \in voiceMedia <=> \E u \in Speaker : p \in promised[u]
<1>1. \A c \in Caller : ~Busy(c)
  BY DEF OneHandlerInv, LockInv, Unlocked, Busy
<1> QED  BY <1>1 DEF OneHandlerInv, PromiseInv, FilesInv

(* An upload begins: its list is the index and a new avatar.               *)
LEMMA UploadBegun ==
  ASSUME VoiceTypeOK, OneHandlerInv,
         NEW c \in Caller, NEW u \in Speaker, NEW p \in Portrait, BeginUpload(c, u, p)
  PROVE  OneHandlerInv'
<1> DEFINE it == [pc |-> "media", kind |-> "upload", of |-> u, portrait |-> p, handler |-> voiceHandler,
                  list |-> Append(Records(u), p)]
<1>0. /\ Append(Records(u), p) \in Seq(Portrait) /\ Range(Append(Records(u), p)) = ListedBy(u) \cup {p}
      /\ Len(Append(Records(u), p)) = Len(Records(u)) + 1 /\ Len(Records(u)) \in Nat
      /\ (IsInjective(Records(u)) /\ p \notin ListedBy(u)) => IsInjective(Append(Records(u), p))
  BY RecordsAreLists, ElementAdded DEF ListedBy
<1>1. voiceCall' = [voiceCall EXCEPT ![c] = it] /\ voiceHandler \in 1 .. MaxHandlers
  BY DEF BeginUpload, VoiceTypeOK
<1>2. it \in VoiceCall
  BY <1>0, <1>1 DEF VoiceCall
<1>3. /\ it.pc = "media" /\ it.kind = "upload" /\ it.of = u /\ it.portrait = p /\ it.handler = voiceHandler
      /\ Range(it.list) = ListedBy(u) \cup {p} /\ Len(it.list) = Len(Records(u)) + 1
      /\ (IsInjective(Records(u)) /\ p \notin ListedBy(u)) => IsInjective(it.list)
  BY <1>0
<1> HIDE DEF it
<1>4. /\ voiceCall'[c] = it /\ Busy(c)' /\ \A d \in Caller \ {c} : ~Busy(d)'
  BY <1>1, <1>2, CallMade, Quiet DEF BeginUpload, Busy
<1>5. /\ \A w \in Speaker : Records(w)' = Records(w) /\ ListedBy(w)' = ListedBy(w)
      /\ voiceMedia' = voiceMedia /\ promised' = promised /\ hurt' = hurt /\ voiceHandler' = voiceHandler
      /\ p \in unsent /\ unsent' = unsent \ {p} /\ Len(Records(u)) < MaxAvatars
  BY DEF BeginUpload, Records, ListedBy
<1>6. LockInv'
  BY <1>3, <1>4, <1>5 DEF LockInv
<1>7. IndexInv'
  BY <1>5 DEF OneHandlerInv, IndexInv
<1>8. ListKept(c)'
  <2>1. \A w \in Speaker : p \notin ListedBy(w)
    BY <1>5 DEF OneHandlerInv, IndexInv
  <2>2. Len(it.list) <= MaxAvatars
    BY <1>0, <1>3, <1>5, VoiceAssumption
  <2> QED  BY <1>3, <1>4, <1>5, <2>1, <2>2 DEF ListKept, OneHandlerInv, IndexInv
<1>9. CallKept(c)'
  <2>1. \A w \in Speaker : p \notin ListedBy(w)
    BY <1>5 DEF OneHandlerInv, IndexInv
  <2>2. u \notin hurt => ListedBy(u) = promised[u]
    BY Quiet DEF BeginUpload
  <2> QED  BY <1>3, <1>4, <1>5, <1>8, <2>1, <2>2 DEF CallKept
<1>10. PromiseInv'
  BY <1>5, Quiet DEF BeginUpload, PromiseInv
<1>11. FilesInv'
  BY <1>3, <1>4, <1>5, Quiet DEF BeginUpload, FilesInv, OwnsFile
<1> QED  BY <1>4, <1>6, <1>7, <1>9, <1>10, <1>11 DEF OneHandlerInv

(* A delete begins: its list is the index without the avatar.              *)
LEMMA DeleteBegun ==
  ASSUME VoiceTypeOK, OneHandlerInv,
         NEW c \in Caller, NEW u \in Speaker, NEW i \in DOMAIN Records(u), BeginDelete(c, u, i)
  PROVE  OneHandlerInv'
<1> DEFINE p == Records(u)[i]
           it == [pc |-> "index", kind |-> "delete", of |-> u, portrait |-> p, handler |-> voiceHandler,
                  list |-> RemoveAt(Records(u), i)]
<1>0. /\ RemoveAt(Records(u), i) \in Seq(Portrait) /\ Range(RemoveAt(Records(u), i)) = ListedBy(u) \ {p}
      /\ Len(RemoveAt(Records(u), i)) <= MaxAvatars /\ IsInjective(RemoveAt(Records(u), i))
      /\ p \in Portrait /\ p \in ListedBy(u)
  <2>1. IsInjective(Records(u)) /\ Len(Records(u)) <= MaxAvatars
    BY DEF OneHandlerInv, IndexInv
  <2>2. /\ RemoveAt(Records(u), i) \in Seq(Portrait) /\ Range(RemoveAt(Records(u), i)) = ListedBy(u) \ {p}
        /\ Len(RemoveAt(Records(u), i)) = Len(Records(u)) - 1 /\ IsInjective(RemoveAt(Records(u), i))
    BY <2>1, RecordsAreLists, ElementRemoved DEF ListedBy
  <2>3. Len(Records(u)) - 1 <= MaxAvatars
    BY <2>1, RecordsAreLists, VoiceAssumption
  <2>4. p \in Portrait /\ p \in ListedBy(u)
    BY RecordsAreLists DEF ListedBy, Range
  <2> QED  BY <2>2, <2>3, <2>4
<1> HIDE DEF p
<1>1. voiceCall' = [voiceCall EXCEPT ![c] = it] /\ voiceHandler \in 1 .. MaxHandlers
  BY DEF BeginDelete, VoiceTypeOK, p
<1>2. it \in VoiceCall
  BY <1>0, <1>1 DEF VoiceCall
<1>3. /\ it.pc = "index" /\ it.kind = "delete" /\ it.of = u /\ it.portrait = p /\ it.handler = voiceHandler
      /\ Range(it.list) = ListedBy(u) \ {p} /\ Len(it.list) <= MaxAvatars /\ IsInjective(it.list)
  BY <1>0
<1> HIDE DEF it
<1>4. /\ voiceCall'[c] = it /\ Busy(c)' /\ \A d \in Caller \ {c} : ~Busy(d)'
  BY <1>1, <1>2, CallMade, Quiet DEF BeginDelete, Busy
<1>5. /\ \A w \in Speaker : Records(w)' = Records(w) /\ ListedBy(w)' = ListedBy(w)
      /\ voiceMedia' = voiceMedia /\ promised' = promised /\ hurt' = hurt /\ voiceHandler' = voiceHandler
      /\ unsent' = unsent
  BY DEF BeginDelete, Records, ListedBy
<1>6. LockInv'
  BY <1>3, <1>4, <1>5 DEF LockInv
<1>7. IndexInv'
  BY <1>5 DEF OneHandlerInv, IndexInv
<1>8. ListKept(c)'
  BY <1>3, <1>4, <1>5 DEF ListKept, OneHandlerInv, IndexInv
<1>9. CallKept(c)'
  <2>1. p \notin unsent /\ \A w \in Speaker : p \in ListedBy(w) => w = u
    BY <1>0 DEF OneHandlerInv, IndexInv
  <2>2. u \notin hurt => ListedBy(u) = promised[u]
    BY Quiet DEF BeginDelete
  <2> QED  BY <1>0, <1>3, <1>4, <1>5, <1>8, <2>1, <2>2 DEF CallKept
<1>10. PromiseInv'
  BY <1>5, Quiet DEF BeginDelete, PromiseInv
<1>11. FilesInv'
  BY <1>3, <1>4, <1>5, Quiet DEF BeginDelete, FilesInv, OwnsFile
<1> QED  BY <1>4, <1>6, <1>7, <1>9, <1>10, <1>11 DEF OneHandlerInv

(* A call that is under way is alone, and knows what it was asked.         *)
LEMMA Alone ==
  ASSUME VoiceTypeOK, OneHandlerInv, NEW c \in Caller, voiceCall[c].pc # "rest"
  PROVE  /\ Busy(c) /\ voiceCall[c] \in VoiceCall /\ CallKept(c) /\ \A d \in Caller \ {c} : ~Busy(d)
         /\ voiceCall[c].of \in Speaker /\ voiceCall[c].portrait \in Portrait
         /\ voiceCall[c].list \in Seq(Portrait) /\ voiceCall[c].handler = voiceHandler
         /\ \A u \in Speaker \ hurt : (u # voiceCall[c].of \/ voiceCall[c].pc # "emptied") => ListedBy(u) = promised[u]
<1>1. Busy(c) /\ voiceCall[c] \in VoiceCall
  BY CallIsOne
<1>2. CallKept(c) /\ (\A d \in Caller \ {c} : ~Busy(d)) /\ voiceCall[c].handler = voiceHandler
  BY <1>1 DEF OneHandlerInv, LockInv
<1>3. voiceCall[c].of \in Speaker /\ voiceCall[c].portrait \in Portrait /\ voiceCall[c].list \in Seq(Portrait)
  BY <1>1 DEF VoiceCall
<1> QED  BY <1>1, <1>2, <1>3 DEF OneHandlerInv, PromiseInv

(* A call that ends in a failure leaves its owner's promises void, and     *)
(* what is listed as it was.                                               *)
LEMMA FailsWell ==
  ASSUME VoiceTypeOK, OneHandlerInv, NEW c \in Caller, voiceCall[c].pc # "rest",
         Rest(c), FileFails(c), voiceIndex' = voiceIndex, unsent' = unsent, promised' = promised,
         voiceHandler' = voiceHandler,
         voiceMedia \ {voiceCall[c].portrait} \subseteq voiceMedia',
         \A u \in Speaker : voiceCall[c].portrait \in ListedBy(u) => voiceMedia \subseteq voiceMedia'
  PROVE  OneHandlerInv'
<1>1. \A d \in Caller : ~Busy(d)'
  BY Alone, CallRests DEF Busy
<1>2. \A w \in Speaker : Records(w)' = Records(w) /\ ListedBy(w)' = ListedBy(w)
  BY DEF Records, ListedBy
<1>3. hurt' = hurt \cup {voiceCall[c].of}
  BY DEF FileFails
<1>4. LockInv'
  BY <1>1 DEF LockInv
<1>5. IndexInv'
  BY <1>2 DEF OneHandlerInv, IndexInv
<1>6. PromiseInv'
  BY <1>2, <1>3, Alone DEF PromiseInv
<1>7. FilesInv'
  BY <1>3 DEF FilesInv
<1> QED  BY <1>1, <1>4, <1>5, <1>6, <1>7 DEF OneHandlerInv

(* The file of an upload is written, or not, or in part.                   *)
LEMMA MediaWritten ==
  ASSUME VoiceTypeOK, OneHandlerInv, NEW c \in Caller, WriteMedia(c)
  PROVE  OneHandlerInv'
<1> DEFINE p == voiceCall[c].portrait
<1>1. voiceCall[c].pc = "media" /\ voiceCall[c].pc # "rest"
  BY DEF WriteMedia
<1>2. CASE FileFails(c) /\ Rest(c) /\ voiceMedia' \in {voiceMedia, voiceMedia \cup {p}}
  BY <1>1, <1>2, FailsWell DEF WriteMedia
<1>3. CASE FileWorks /\ Goes(c, "index") /\ voiceMedia' = voiceMedia \cup {p}
  <2>0. CallKept(c) /\ (\A d \in Caller \ {c} : ~Busy(d)) /\ p \in Portrait /\ voiceCall[c].kind = "upload" /\ Busy(c)
    BY <1>1, Alone DEF CallKept
  <2>1. /\ voiceCall'[c].pc = "index" /\ voiceCall'[c].kind = voiceCall[c].kind /\ voiceCall'[c].of = voiceCall[c].of
        /\ voiceCall'[c].portrait = p /\ voiceCall'[c].handler = voiceCall[c].handler
        /\ voiceCall'[c].list = voiceCall[c].list /\ Busy(c)' /\ \A d \in Caller \ {c} : ~Busy(d)'
    BY <1>1, <1>3, <2>0, Alone, CallGoes DEF Busy
  <2>2. /\ \A w \in Speaker : Records(w)' = Records(w) /\ ListedBy(w)' = ListedBy(w)
        /\ unsent' = unsent /\ promised' = promised /\ hurt' = hurt /\ voiceHandler' = voiceHandler
    BY <1>3 DEF WriteMedia, FileWorks, Records, ListedBy
  <2> HIDE DEF p
  <2>3. LockInv'
    BY <1>1, <2>1, <2>2, Alone DEF LockInv
  <2>4. IndexInv'
    BY <1>3, <2>2 DEF OneHandlerInv, IndexInv
  <2>5. CallKept(c)'
    BY <1>1, <1>3, <2>0, <2>1, <2>2 DEF CallKept, ListKept, p
  <2>6. PromiseInv'
    BY <1>1, <2>2, Alone DEF PromiseInv
  <2>7. FilesInv'
    <3> SUFFICES ASSUME hurt = {}, NEW q \in Portrait
                 PROVE  q \in voiceMedia \cup {p} <=> (\E u \in Speaker : q \in promised[u]) \/ q = p
      BY <1>3, <2>0, <2>1, <2>2 DEF FilesInv, OwnsFile
    <3> QED  BY <1>1, <2>0 DEF OneHandlerInv, FilesInv, OwnsFile
  <2> QED  BY <2>1, <2>3, <2>4, <2>5, <2>6, <2>7 DEF OneHandlerInv
<1> QED  BY <1>2, <1>3 DEF WriteMedia

(* The index is emptied; a failure takes the file of an upload back.       *)
LEMMA IndexOpened ==
  ASSUME VoiceTypeOK, OneHandlerInv, NEW c \in Caller, EmptyIndex(c)
  PROVE  OneHandlerInv'
<1>1. voiceCall[c].pc = "index" /\ voiceCall[c].pc # "rest"
  BY DEF EmptyIndex
<1>p. PICK u \in Speaker, p \in Portrait : u = voiceCall[c].of /\ p = voiceCall[c].portrait
  BY <1>1, Alone
<1>0. /\ CallKept(c) /\ ListKept(c) /\ (\A d \in Caller \ {c} : ~Busy(d)) /\ Busy(c)
      /\ voiceCall[c].kind \in {"upload", "delete"} /\ voiceCall[c].list \in Seq(Portrait)
      /\ voiceCall[c].handler = voiceHandler
  BY <1>1, Alone DEF CallKept, VoiceCall
<1>2. CASE GivesUp(c) /\ voiceIndex' = voiceIndex
  BY <1>p, <1>0, <1>1, <1>2, FailsWell DEF EmptyIndex, GivesUp, CallKept
<1>3. CASE FileWorks /\ Goes(c, "emptied") /\ voiceMedia' = voiceMedia /\ voiceIndex' = [voiceIndex EXCEPT ![u] = Spoilt]
  <2>1. /\ voiceCall'[c].pc = "emptied" /\ voiceCall'[c].kind = voiceCall[c].kind /\ voiceCall'[c].of = u
        /\ voiceCall'[c].portrait = p /\ voiceCall'[c].handler = voiceCall[c].handler
        /\ voiceCall'[c].list = voiceCall[c].list /\ Busy(c)' /\ \A d \in Caller \ {c} : ~Busy(d)'
    BY <1>p, <1>0, <1>1, <1>3, Alone, CallGoes DEF Busy
  <2>2. /\ Records(u)' = <<>> /\ ListedBy(u)' = {}
        /\ \A w \in Speaker \ {u} : Records(w)' = Records(w) /\ ListedBy(w)' = ListedBy(w)
        /\ unsent' = unsent /\ promised' = promised /\ hurt' = hurt /\ voiceHandler' = voiceHandler
    BY <1>p, <1>0, <1>3, IndexEmptied, EmptyList DEF EmptyIndex, FileWorks, ListedBy
  <2>3. LockInv'
    BY <1>p, <1>0, <2>1, <2>2 DEF LockInv
  <2>4. IndexInv'
    <3>1. IsInjective(<<>>) /\ Len(<<>>) <= MaxAvatars
      BY <1>p, EmptyList, VoiceAssumption
    <3> QED  BY <1>p, <1>0, <1>3, <2>2, <3>1 DEF OneHandlerInv, IndexInv
  <2>5. CallKept(c)'
    <3>1. ListKept(c)'
      BY <1>p, <1>0, <1>3, <2>1, <2>2 DEF ListKept
    <3> QED  BY <1>p, <1>0, <1>1, <1>3, <2>1, <2>2, <3>1 DEF CallKept
  <2>6. PromiseInv'
    BY <1>p, <1>0, <1>1, <2>1, <2>2, Alone DEF PromiseInv
  <2>7. FilesInv'
    <3>1. OwnsFile(c)' <=> OwnsFile(c)
      BY <1>p, <1>1, <2>1 DEF OwnsFile
    <3> QED  BY <1>p, <1>0, <1>3, <2>1, <2>2, <3>1 DEF OneHandlerInv, FilesInv
  <2> QED  BY <1>p, <2>1, <2>3, <2>4, <2>5, <2>6, <2>7 DEF OneHandlerInv
<1> QED  BY <1>p, <1>2, <1>3 DEF EmptyIndex

(* The index is written; then an upload is promised, and a delete is not.  *)
LEMMA IndexClosed ==
  ASSUME VoiceTypeOK, OneHandlerInv, NEW c \in Caller, WriteIndex(c)
  PROVE  OneHandlerInv'
<1>1. voiceCall[c].pc = "emptied" /\ voiceCall[c].pc # "rest"
  BY DEF WriteIndex
<1>p. PICK u \in Speaker, p \in Portrait, list \in Seq(Portrait) :
        u = voiceCall[c].of /\ p = voiceCall[c].portrait /\ list = voiceCall[c].list
  BY <1>1, Alone
<1>0. /\ CallKept(c) /\ ListKept(c) /\ (\A d \in Caller \ {c} : ~Busy(d)) /\ Busy(c)
      /\ voiceCall[c].kind \in {"upload", "delete"} /\ voiceCall[c].handler = voiceHandler
  BY <1>1, Alone DEF CallKept, VoiceCall
<1>2. CASE GivesUp(c) /\ voiceIndex' = voiceIndex /\ promised' = promised
  BY <1>p, <1>0, <1>1, <1>2, FailsWell DEF WriteIndex, GivesUp, CallKept
<1>3. CASE FileWorks /\ voiceMedia' = voiceMedia /\ voiceIndex' = [voiceIndex EXCEPT ![u] = list]
  <2>2. /\ Records(u)' = list /\ ListedBy(u)' = Range(list)
        /\ \A w \in Speaker \ {u} : Records(w)' = Records(w) /\ ListedBy(w)' = ListedBy(w)
        /\ unsent' = unsent /\ hurt' = hurt /\ voiceHandler' = voiceHandler
    BY <1>p, <1>0, <1>3, IndexWritten DEF WriteIndex, FileWorks, ListedBy
  <2>3. /\ IsInjective(list) /\ Len(list) <= MaxAvatars
        /\ Range(list) \cap unsent = {} /\ Range(list) \subseteq voiceMedia
        /\ \A w \in Speaker \ {u} : ListedBy(w) \cap Range(list) = {}
        /\ p \in Range(list) <=> voiceCall[c].kind = "upload"
        /\ \A w \in Speaker : p \notin ListedBy(w)
    BY <1>p, <1>0, <1>1 DEF CallKept, ListKept
  <2>4. IndexInv'
    BY <1>p, <1>0, <1>3, <2>2, <2>3 DEF OneHandlerInv, IndexInv
  <2>5. CASE voiceCall[c].kind = "upload"
    <3>1. Rest(c) /\ promised' = [promised EXCEPT ![u] = @ \cup {p}]
      BY <1>p, <1>3, <2>5, <1>0, <1>1, <2>2, <2>3, Alone DEF WriteIndex, GivesUp, FileWorks, FileFails, VoiceTypeOK
    <3>2. \A d \in Caller : ~Busy(d)'
      BY <1>p, <1>0, <3>1, CallRests DEF Busy
    <3>3. /\ promised'[u] = promised[u] \cup {p} /\ \A w \in Speaker \ {u} : promised'[w] = promised[w]
      BY <1>p, <1>0, <3>1 DEF VoiceTypeOK
    <3>4. u \notin hurt => Range(list) = promised[u] \cup {p}
      BY <1>p, <1>0, <1>1, <2>5 DEF CallKept
    <3>5. PromiseInv'
      BY <1>p, <1>1, <2>2, <3>3, <3>4, Alone DEF PromiseInv
    <3>6. FilesInv'
      <4> SUFFICES ASSUME hurt = {}, NEW q \in Portrait
                   PROVE  q \in voiceMedia <=> (\E w \in Speaker : q \in promised'[w])
        BY <1>p, <1>3, <2>2, <3>2 DEF FilesInv
      <4>1. q \in voiceMedia <=> (\E w \in Speaker : q \in promised[w]) \/ q = p
        BY <1>p, <1>0, <1>1, <2>5 DEF OneHandlerInv, FilesInv, OwnsFile
      <4> QED  BY <1>p, <1>0, <3>3, <4>1
    <3>7. LockInv'
      BY <1>p, <3>2 DEF LockInv
    <3> QED  BY <1>p, <2>4, <3>2, <3>5, <3>6, <3>7 DEF OneHandlerInv
  <2>6. CASE voiceCall[c].kind = "delete"
    <3>1. Goes(c, "remove") /\ promised' = [promised EXCEPT ![u] = @ \ {p}]
      BY <1>p, <1>0, <1>3, <2>2, <2>3, <2>6, Alone DEF WriteIndex, GivesUp, FileWorks, FileFails, VoiceTypeOK
    <3>2. /\ voiceCall'[c].pc = "remove" /\ voiceCall'[c].kind = "delete" /\ voiceCall'[c].of = u
          /\ voiceCall'[c].portrait = p /\ voiceCall'[c].handler = voiceCall[c].handler
          /\ Busy(c)' /\ \A d \in Caller \ {c} : ~Busy(d)'
      BY <1>p, <1>0, <1>1, <2>6, <3>1, Alone, CallGoes DEF Busy
    <3>3. /\ promised'[u] = promised[u] \ {p} /\ \A w \in Speaker \ {u} : promised'[w] = promised[w]
      BY <1>p, <1>0, <3>1 DEF VoiceTypeOK
    <3>4. u \notin hurt => p \in promised[u] /\ Range(list) = promised[u] \ {p}
      BY <1>p, <1>0, <1>1, <2>6 DEF CallKept
    <3>5. p \notin unsent /\ p \notin Range(list)
      BY <1>p, <1>0, <2>3, <2>6 DEF CallKept
    <3>6. LockInv'
      BY <1>p, <1>0, <2>2, <3>2 DEF LockInv
    <3>7. CallKept(c)'
      BY <1>p, <2>2, <2>3, <3>2, <3>5 DEF CallKept
    <3>8. PromiseInv'
      BY <1>p, <1>1, <2>2, <3>3, <3>4, Alone DEF PromiseInv
    <3>9. FilesInv'
      <4> SUFFICES ASSUME hurt = {}, NEW q \in Portrait
                   PROVE  q \in voiceMedia <=> (\E w \in Speaker : q \in promised'[w]) \/ q = p
        BY <1>p, <1>0, <1>3, <2>2, <3>2 DEF FilesInv, OwnsFile
      <4>1. q \in voiceMedia <=> (\E w \in Speaker : q \in promised[w])
        BY <1>p, <1>0, <1>1, <2>6 DEF OneHandlerInv, FilesInv, OwnsFile
      <4> QED  BY <1>p, <1>0, <3>3, <3>4, <4>1
    <3> QED  BY <1>p, <2>4, <3>2, <3>6, <3>7, <3>8, <3>9 DEF OneHandlerInv
  <2> QED  BY <1>p, <1>0, <2>5, <2>6
<1> QED  BY <1>p, <1>2, <1>3 DEF WriteIndex

(* The file of a delete is removed, after no index lists it.               *)
LEMMA MediaRemoved ==
  ASSUME VoiceTypeOK, OneHandlerInv, NEW c \in Caller, RemoveMedia(c)
  PROVE  OneHandlerInv'
<1> DEFINE p == voiceCall[c].portrait
<1>1. voiceCall[c].pc = "remove" /\ voiceCall[c].pc # "rest" /\ Rest(c)
  BY DEF RemoveMedia
<1>2. CASE FileFails(c) /\ voiceMedia' = voiceMedia
  BY <1>1, <1>2, FailsWell DEF RemoveMedia
<1>3. CASE FileWorks /\ voiceMedia' = voiceMedia \ {p}
  <2>0. CallKept(c) /\ Busy(c) /\ (\A d \in Caller \ {c} : ~Busy(d)) /\ \A w \in Speaker : p \notin ListedBy(w)
    BY <1>1, Alone DEF CallKept
  <2>1. \A d \in Caller : ~Busy(d)'
    BY <1>1, <2>0, CallRests DEF Busy
  <2>2. /\ \A w \in Speaker : Records(w)' = Records(w) /\ ListedBy(w)' = ListedBy(w)
        /\ unsent' = unsent /\ promised' = promised /\ hurt' = hurt /\ voiceHandler' = voiceHandler
    BY <1>3 DEF RemoveMedia, FileWorks, Records, ListedBy
  <2> HIDE DEF p
  <2>3. IndexInv'
    BY <1>3, <2>0, <2>2 DEF OneHandlerInv, IndexInv
  <2>4. PromiseInv'
    BY <1>1, <2>2, Alone DEF PromiseInv
  <2>5. FilesInv'
    <3> SUFFICES ASSUME hurt = {}, NEW q \in Portrait
                 PROVE  q \in voiceMedia \ {p} <=> \E w \in Speaker : q \in promised[w]
      BY <1>3, <2>1, <2>2 DEF FilesInv
    <3>1. q \in voiceMedia <=> (\E w \in Speaker : q \in promised[w]) \/ q = p
      BY <1>1, <2>0 DEF OneHandlerInv, FilesInv, OwnsFile, p
    <3>2. \A w \in Speaker : p \notin promised[w]
      BY <1>1, <2>0, Alone
    <3> QED  BY <3>1, <3>2
  <2>6. LockInv'
    BY <2>1 DEF LockInv
  <2> QED  BY <2>1, <2>3, <2>4, <2>5, <2>6 DEF OneHandlerInv
<1> QED  BY <1>2, <1>3 DEF RemoveMedia

(* The process ends in the middle of a call.                               *)
LEMMA Crashed ==
  ASSUME VoiceTypeOK, OneHandlerInv, CrashVoice
  PROVE  OneHandlerInv'
<1>1. /\ \A c \in Caller : ~Busy(c)'
      /\ hurt' = hurt \cup {voiceCall[c].of : c \in {d \in Caller : Busy(d)}}
  BY DEF CrashVoice, Busy
<1>2. /\ \A w \in Speaker : Records(w)' = Records(w) /\ ListedBy(w)' = ListedBy(w)
      /\ unsent' = unsent /\ promised' = promised /\ voiceMedia' = voiceMedia
  BY DEF CrashVoice, Records, ListedBy
<1>3. LockInv' /\ IndexInv'
  BY <1>1, <1>2 DEF OneHandlerInv, LockInv, IndexInv
<1>4. PromiseInv'
  BY <1>1, <1>2 DEF OneHandlerInv, PromiseInv
<1>5. FilesInv'
  <2>1. hurt' = {} => hurt = {} /\ \A c \in Caller : ~Busy(c)
    BY <1>1
  <2> QED  BY <1>1, <1>2, <2>1 DEF OneHandlerInv, FilesInv
<1> QED  BY <1>1, <1>3, <1>4, <1>5 DEF OneHandlerInv

(* A new handler while nobody is at work is as good as the old one.        *)
LEMMA HandlerRenewed ==
  ASSUME VoiceTypeOK, OneHandlerInv, NewHandler, ~doubled'
  PROVE  OneHandlerInv'
<1>1. /\ \A c \in Caller : ~Busy(c) /\ ~Busy(c)'
      /\ \A w \in Speaker : Records(w)' = Records(w) /\ ListedBy(w)' = ListedBy(w)
      /\ unsent' = unsent /\ promised' = promised /\ voiceMedia' = voiceMedia /\ hurt' = hurt
  BY DEF NewHandler, Busy, Records, ListedBy
<1>2. LockInv' /\ IndexInv' /\ PromiseInv' /\ FilesInv'
  BY <1>1 DEF OneHandlerInv, LockInv, IndexInv, PromiseInv, FilesInv
<1> QED  BY <1>1, <1>2 DEF OneHandlerInv

(* The invariant holds at first, is preserved by every step, and gives the *)
(* properties.                                                             *)
LEMMA VoiceInvKept ==
  /\ VoiceInit => VoiceInv
  /\ VoiceInv /\ [VoiceNext]_voiceVars => VoiceInv'
  /\ VoiceInv => VoiceTypeOK /\ AvatarsListed
<1>1. VoiceInit => VoiceInv
  <2> SUFFICES ASSUME VoiceInit PROVE VoiceInv
    OBVIOUS
  <2>1. VoiceTypeOK
    <3>1. voiceHandler \in 1 .. MaxHandlers /\ fileFaults \in 0 .. MaxFileFaults
      BY VoiceAssumption DEF VoiceInit
    <3>2. <<>> \in Seq(Portrait) \cup {Spoilt}
      OBVIOUS
    <3>3. voiceIndex \in [Speaker -> Seq(Portrait) \cup {Spoilt}]
      BY <3>2 DEF VoiceInit
    <3>4. /\ voiceCall \in [Caller -> VoiceCall \cup {AtRest}] /\ promised \in [Speaker -> SUBSET Portrait]
          /\ voiceMedia \subseteq Portrait /\ unsent \subseteq Portrait /\ hurt \subseteq Speaker /\ doubled \in BOOLEAN
      BY DEF VoiceInit
    <3> QED  BY <3>1, <3>3, <3>4 DEF VoiceTypeOK
  <2>2. (\A c \in Caller : ~Busy(c)) /\ \A u \in Speaker : Records(u) = <<>>
    BY SpoiltIsNoList DEF VoiceInit, Busy, Records
  <2>3. \A u \in Speaker : ListedBy(u) = {} /\ IsInjective(Records(u)) /\ Len(Records(u)) <= MaxAvatars
    BY <2>2, EmptyList, VoiceAssumption DEF ListedBy
  <2> QED  BY <2>1, <2>2, <2>3 DEF VoiceInit, VoiceInv, OneHandlerInv, LockInv, IndexInv, PromiseInv, FilesInv
<1>2. ASSUME VoiceInv, VoiceNext PROVE VoiceInv'
  <2>1. VoiceTypeOK'
    BY <1>2, VoiceTypeStep DEF VoiceInv
  <2>2. ASSUME ~doubled' PROVE OneHandlerInv'
    <3>1. ~doubled
      BY <1>2, <2>2 DEF VoiceNext, CrashVoice, NewHandler, WriteMedia, EmptyIndex, WriteIndex, RemoveMedia, BeginUpload,
                       BeginDelete, VoiceInv, VoiceTypeOK
    <3> QED  BY <1>2, <2>2, <3>1, UploadBegun, DeleteBegun, MediaWritten, IndexOpened, IndexClosed, MediaRemoved,
                Crashed, HandlerRenewed DEF VoiceNext, VoiceInv
  <2> QED  BY <2>1, <2>2 DEF VoiceInv
<1>3. ASSUME VoiceInv, UNCHANGED voiceVars PROVE VoiceInv'
  <2>1. /\ voiceIndex' = voiceIndex /\ voiceMedia' = voiceMedia /\ unsent' = unsent /\ voiceCall' = voiceCall
        /\ voiceHandler' = voiceHandler /\ fileFaults' = fileFaults /\ promised' = promised /\ hurt' = hurt
        /\ doubled' = doubled
    BY <1>3 DEF voiceVars
  <2>2. VoiceTypeOK'
    BY <1>3, <2>1 DEF VoiceInv, VoiceTypeOK
  <2>3. \A u \in Speaker : Records(u)' = Records(u) /\ ListedBy(u)' = ListedBy(u)
    BY <2>1 DEF Records, ListedBy
  <2>4. \A c \in Caller : /\ Busy(c)' <=> Busy(c)
                          /\ OwnsFile(c)' <=> OwnsFile(c)
                          /\ Busy(c) /\ CallKept(c) => CallKept(c)'
    <3>1. \A c \in Caller : Busy(c) => voiceCall[c].of \in Speaker
      BY <1>3 DEF VoiceInv, VoiceTypeOK, VoiceCall, Busy
    <3> QED  BY <2>1, <2>3, <3>1 DEF Busy, OwnsFile, CallKept, ListKept
  <2>5. ASSUME OneHandlerInv PROVE OneHandlerInv'
    BY <2>1, <2>3, <2>4, <2>5 DEF OneHandlerInv, LockInv, IndexInv, PromiseInv, FilesInv
  <2> QED  BY <1>3, <2>1, <2>2, <2>5 DEF VoiceInv
<1>4. ASSUME VoiceInv PROVE VoiceTypeOK /\ AvatarsListed
  <2> SUFFICES ASSUME ~doubled PROVE AvatarsListed
    BY <1>4 DEF VoiceInv, AvatarsListed
  <2>1. OneHandlerInv
    BY <1>4 DEF VoiceInv
  <2>2. \A u \in Speaker :
          /\ Range(Records(u)) \subseteq voiceMedia
          /\ IsInjective(Records(u)) /\ Len(Records(u)) <= MaxAvatars
          /\ (u \notin hurt /\ \A c \in Caller : voiceCall[c] # AtRest => voiceCall[c].of # u) =>
               Range(Records(u)) = promised[u]
    BY <2>1 DEF OneHandlerInv, IndexInv, PromiseInv, ListedBy, Busy
  <2>3. (hurt = {} /\ \A c \in Caller : voiceCall[c] = AtRest) => voiceMedia = UNION {promised[u] : u \in Speaker}
    <3> SUFFICES ASSUME hurt = {}, \A c \in Caller : voiceCall[c] = AtRest
                 PROVE  voiceMedia = UNION {promised[u] : u \in Speaker}
      OBVIOUS
    <3>1. voiceMedia \subseteq Portrait /\ \A u \in Speaker : promised[u] \subseteq Portrait
      BY <1>4 DEF VoiceInv, VoiceTypeOK
    <3>2. \A p \in Portrait : p \in voiceMedia <=> \E u \in Speaker : p \in promised[u]
      BY <2>1 DEF OneHandlerInv, FilesInv, Busy
    <3> QED  BY <3>1, <3>2
  <2> QED  BY <2>2, <2>3 DEF AvatarsListed
<1> QED  BY <1>1, <1>2, <1>3, <1>4

(* The index of each user, the files and the calls keep their types.       *)
THEOREM VoiceTypeCorrect == VoiceSpec => []VoiceTypeOK
BY VoiceInvKept, PTL DEF VoiceSpec

(* Where no old handler has gone on beside a new one, an avatar that is    *)
(* listed has its file whatever has failed or been cut off, what was       *)
(* promised to a user whom no failure has met is listed, and where nothing *)
(* has failed no file is left behind (Upload, Delete, writeIndex, the      *)
(* mutex of the handler).                                                  *)
THEOREM AvatarsAreListed == VoiceSpec => []AvatarsListed
BY VoiceInvKept, PTL DEF VoiceSpec

-------------------------------------------------------------------------------
(* The history of a chat (ChatRecorder).  Until the record of a turn is    *)
(* made, its capture is what its client was told; from then on the record  *)
(* is, and the rows stored so far are a beginning of it.  A step of one    *)
(* turn leaves what is said of the others (StillTurns), so each action has *)
(* one lemma about its own turn.                                           *)
Unrecorded == {"idle", "run", "ended"}
Recording == {"question", "answer", "approvals", "usage"}

(* Until the record is made of it, the capture is what was told.           *)
CaptureTold(t) ==
  turnPc[t] \in Unrecorded =>
    /\ capture[t].content = IF "answer" \in told[t] THEN "answer"
                            ELSE IF "delta" \in told[t] THEN "deltas" ELSE ""
    /\ capture[t].error <=> "error" \in told[t]
    /\ capture[t].approvals > 0 <=> "interrupted" \in told[t]
    /\ capture[t].research <=> "evidence" \in told[t]

(* The record is, from then on.                                            *)
EntryTold(t) ==
  (turnPc[t] \notin Unrecorded /\ turnRequest[t].streamed) =>
    LET bad == turnFailed[t] \/ "error" \in told[t]
    IN  /\ entry[t].status = "failed" <=> bad
        /\ entry[t].status = "pending_approval" <=> (~bad /\ "interrupted" \in told[t])
        /\ entry[t].research <=> "evidence" \in told[t]
        /\ entry[t].content = IF "answer" \in told[t] THEN "answer"
                              ELSE IF "delta" \in told[t] THEN "deltas" ELSE ""

WellCounted(usage) == usage.requests > 0 /\ (usage.total = 0 => usage.prompt + usage.completion = 0)
EntryCounted(t) == \A k \in DOMAIN entry[t].usage : WellCounted(entry[t].usage[k])

(* A message is of a turn that has come so far, and says what its record   *)
(* says.                                                                   *)
MessageKept(i) ==
  LET m == messages[i]
  IN  /\ chatSession.stored
      /\ m.role = "user" => turnPc[m.turn] \in {"answer", "approvals", "usage", "over", "lost"}
      /\ m.role = "assistant" =>
           /\ turnPc[m.turn] \in {"approvals", "usage", "over", "lost"}
           /\ m.status = entry[m.turn].status /\ m.content = entry[m.turn].content
           /\ m.research = entry[m.turn].research

StatsOf(t) == {i \in DOMAIN tokenStats : tokenStats[i].turn = t}
UsageStored(t) == {tokenStats[i].usage : i \in StatsOf(t)}

MessagesInTurn(t) ==
  /\ \A q \in RowsOf(t, "user"), a \in RowsOf(t, "assistant") : q < a
  /\ \A a, b \in RowsOf(t, "assistant") : a = b
  /\ RowsOf(t, "assistant") # {} /\ turnRequest[t].prompt => RowsOf(t, "user") # {}
  /\ turnPc[t] = "answer" /\ turnRequest[t].prompt => RowsOf(t, "user") # {}
  /\ turnPc[t] \in {"approvals", "usage"} => RowsOf(t, "assistant") # {}
  /\ turnPc[t] = "over" /\ turnRequest[t].session => RowsOf(t, "assistant") # {}
  /\ approvals[t] > 0 \/ StatsOf(t) # {} => RowsOf(t, "assistant") # {}
  /\ turnPc[t] \in Recording => chatSession.stored

CountsInTurn(t) ==
  /\ turnPc[t] \notin {"approvals", "usage", "over", "lost"} => approvals[t] = 0 /\ StatsOf(t) = {}
  /\ turnPc[t] = "approvals" =>
       /\ written[t] <= entry[t].approvals /\ approvals[t] = written[t] /\ StatsOf(t) = {}
  /\ turnPc[t] = "usage" =>
       /\ written[t] <= Len(entry[t].usage) /\ approvals[t] = entry[t].approvals
       /\ UsageStored(t) = {entry[t].usage[k] : k \in 1..written[t]}
  /\ turnPc[t] = "over" /\ turnRequest[t].session =>
       /\ approvals[t] = entry[t].approvals
       /\ UsageStored(t) = {entry[t].usage[k] : k \in DOMAIN entry[t].usage}
  /\ \A i \in StatsOf(t) : WellCounted(tokenStats[i].usage)

LostWhole(t) ==
  turnPc[t] = "lost" /\ recordFaults = 0 =>
    RowsOf(t, "user") = {} /\ RowsOf(t, "assistant") = {} /\ chatSession.stored

ToldInv == \A t \in Turn : CaptureTold(t) /\ EntryTold(t) /\ EntryCounted(t)
ChatRowsInv == \A t \in Turn : MessagesInTurn(t) /\ CountsInTurn(t) /\ LostWhole(t)
TurnInv == TurnTypeOK /\ ToldInv /\ (\A i \in DOMAIN messages : MessageKept(i)) /\ ChatRowsInv

-------------------------------------------------------------------------------
(* What the counts of an answer become.                                    *)
LEMMA UsageIsCounted ==
  ASSUME NEW m \in Reported
  PROVE  /\ NormalizedUsage(Metadata(m)) \in Seq(Count)
         /\ \A k \in DOMAIN NormalizedUsage(Metadata(m)) : WellCounted(NormalizedUsage(Metadata(m))[k])
<1> DEFINE d == Metadata(m)
           one == [prompt |-> d.prompt, completion |-> d.completion, total |-> d.total, requests |-> 1]
           records == IF d.models # <<>> THEN d.models
                      ELSE IF d.total > 0 \/ d.prompt > 0 \/ d.completion > 0 THEN <<one>> ELSE <<>>
           made(r) == [prompt |-> r.prompt, completion |-> r.completion,
                       total |-> IF r.total = 0 THEN r.prompt + r.completion ELSE r.total,
                       requests |-> IF r.requests = 0 THEN 1 ELSE r.requests]
<1>1. d \in Reported
  BY DEF Metadata, Reported
<1>2. one \in Count
  BY <1>1 DEF Reported, Count
<1>3. <<one>> \in Seq(Count)
  BY <1>2
<1>4. <<>> \in Seq(Count)
  OBVIOUS
<1>5. records \in Seq(Count)
  BY <1>1, <1>3, <1>4 DEF Reported
<1>6. ASSUME NEW r \in Count PROVE made(r) \in Count /\ WellCounted(made(r))
  <2> DEFINE requests == IF r.requests = 0 THEN 1 ELSE r.requests
             total == IF r.total = 0 THEN r.prompt + r.completion ELSE r.total
  <2>1. r.prompt \in Nat /\ r.completion \in Nat /\ r.total \in Nat /\ r.requests \in Nat
    BY <1>6 DEF Count
  <2>2. made(r) = [prompt |-> r.prompt, completion |-> r.completion, total |-> total, requests |-> requests]
    OBVIOUS
  <2>3. total \in Nat /\ requests \in Nat /\ requests > 0 /\ (total = 0 => r.prompt + r.completion = 0)
    BY <2>1
  <2> HIDE DEF made, total, requests
  <2> QED  BY <2>1, <2>2, <2>3 DEF Count, WellCounted
<1>7. \A k \in DOMAIN records : records[k] \in Count
  <2> HIDE DEF records
  <2> QED  BY <1>5
<1>8. NormalizedUsage(d) = [k \in DOMAIN records |-> made(records[k])]
  BY DEF NormalizedUsage
<1>9. PICK n \in Nat : DOMAIN records = 1..n
  <2> HIDE DEF records
  <2> QED  BY <1>5
<1> HIDE DEF records, made
<1>10. \A k \in 1..n : made(records[k]) \in Count /\ WellCounted(made(records[k]))
  BY <1>6, <1>7, <1>9
<1>11. [k \in 1..n |-> made(records[k])] \in Seq(Count)
  BY <1>10, IsASeq
<1> QED  BY <1>8, <1>9, <1>10, <1>11

(* What an append makes of the rows of a turn.                             *)
LEMMA MessageAppended ==
  ASSUME TurnTypeOK, NEW m \in ChatMessage, messages' = Append(messages, m)
  PROVE  /\ messages' \in Seq(ChatMessage)
         /\ DOMAIN messages' = DOMAIN messages \cup {Len(messages) + 1}
         /\ \A i \in DOMAIN messages : messages'[i] = messages[i] /\ i < Len(messages) + 1
         /\ messages'[Len(messages) + 1] = m /\ Len(messages) + 1 \notin DOMAIN messages
         /\ \A u : \A role : RowsOf(u, role)' =
              IF m.turn = u /\ m.role = role THEN RowsOf(u, role) \cup {Len(messages) + 1}
                                             ELSE RowsOf(u, role)
<1>1. messages \in Seq(ChatMessage) /\ Len(messages) \in Nat /\ DOMAIN messages = 1..Len(messages)
  BY DEF TurnTypeOK
<1>2. messages' \in Seq(ChatMessage) /\ DOMAIN messages' = 1..(Len(messages) + 1)
  BY <1>1
<1>3. \A i \in DOMAIN messages : messages'[i] = messages[i] /\ i < Len(messages) + 1
  BY <1>1
<1>4. messages'[Len(messages) + 1] = m /\ Len(messages) + 1 \notin DOMAIN messages
  BY <1>1
<1>5. DOMAIN messages' = DOMAIN messages \cup {Len(messages) + 1}
  BY <1>1, <1>2
<1> DEFINE last == Len(messages) + 1
<1> HIDE DEF last
<1>6. \A u : \A role : RowsOf(u, role)' =
        IF m.turn = u /\ m.role = role THEN RowsOf(u, role) \cup {Len(messages) + 1} ELSE RowsOf(u, role)
  BY <1>3, <1>4, <1>5, Zenon DEF RowsOf
<1> QED  BY <1>2, <1>3, <1>4, <1>5, <1>6

(* One more row of counts is of its turn, and changes those of no other.   *)
LEMMA StatsAppended ==
  ASSUME TurnTypeOK, NEW s \in ChatTokenStats, tokenStats' = Append(tokenStats, s)
  PROVE  /\ tokenStats' \in Seq(ChatTokenStats)
         /\ \A i \in DOMAIN tokenStats : tokenStats'[i] = tokenStats[i]
         /\ tokenStats'[Len(tokenStats) + 1] = s
         /\ \A u : StatsOf(u)' = IF s.turn = u THEN StatsOf(u) \cup {Len(tokenStats) + 1} ELSE StatsOf(u)
         /\ \A u : UsageStored(u)' = IF s.turn = u THEN UsageStored(u) \cup {s.usage} ELSE UsageStored(u)
<1>1. tokenStats \in Seq(ChatTokenStats) /\ Len(tokenStats) \in Nat /\ DOMAIN tokenStats = 1..Len(tokenStats)
  BY DEF TurnTypeOK
<1>2. tokenStats' \in Seq(ChatTokenStats) /\ DOMAIN tokenStats' = 1..(Len(tokenStats) + 1)
  BY <1>1
<1>3. \A i \in DOMAIN tokenStats : tokenStats'[i] = tokenStats[i]
  BY <1>1
<1>4. tokenStats'[Len(tokenStats) + 1] = s /\ Len(tokenStats) + 1 \notin DOMAIN tokenStats
  BY <1>1
<1>5. DOMAIN tokenStats' = DOMAIN tokenStats \cup {Len(tokenStats) + 1}
  BY <1>1, <1>2
<1>6. \A u : StatsOf(u)' = IF s.turn = u THEN StatsOf(u) \cup {Len(tokenStats) + 1} ELSE StatsOf(u)
  BY <1>3, <1>4, <1>5, Zenon DEF StatsOf
<1>7. ASSUME NEW u
      PROVE  UsageStored(u)' = IF s.turn = u THEN UsageStored(u) \cup {s.usage} ELSE UsageStored(u)
  <2>1. \A i \in StatsOf(u) : tokenStats'[i].usage = tokenStats[i].usage
    BY <1>3 DEF StatsOf
  <2>2. CASE s.turn = u
    <3>1. StatsOf(u)' = StatsOf(u) \cup {Len(tokenStats) + 1}
      BY <1>6, <2>2
    <3>2. tokenStats'[Len(tokenStats) + 1].usage = s.usage
      BY <1>4
    <3>3. UsageStored(u)' = {tokenStats'[i].usage : i \in StatsOf(u)'}
      BY Zenon DEF UsageStored
    <3>4. UsageStored(u)' = {tokenStats'[i].usage : i \in StatsOf(u)} \cup {s.usage}
      BY <3>1, <3>2, <3>3
    <3>5. {tokenStats'[i].usage : i \in StatsOf(u)} = UsageStored(u)
      BY <2>1 DEF UsageStored
    <3> QED  BY <2>2, <3>4, <3>5
  <2>3. CASE s.turn # u
    <3>1. StatsOf(u)' = StatsOf(u)
      BY <1>6, <2>3
    <3> QED  BY <2>1, <2>3, <3>1, Zenon DEF UsageStored
  <2> QED  BY <2>2, <2>3
<1> QED  BY <1>2, <1>3, <1>4, <1>6, <1>7

(* Of turns that stand still everything stays true.                        *)
Local(u) ==
  <<turnPc[u], turnRequest[u], capture[u], told[u], turnFailed[u], entry[u], written[u], approvals[u]>>

(* A turn whose own state and rows stay as they are keeps what is known of *)
(* it.                                                                     *)
LEMMA StillTurns ==
  ASSUME TurnInv, NEW u \in Turn, Local(u)' = Local(u),
         \A role : RowsOf(u, role)' = RowsOf(u, role),
         StatsOf(u)' = StatsOf(u), UsageStored(u)' = UsageStored(u),
         \A i \in StatsOf(u) : tokenStats'[i] = tokenStats[i],
         chatSession.stored => chatSession'.stored, recordFaults' = 0 => recordFaults = 0
  PROVE  /\ CaptureTold(u)' /\ EntryTold(u)' /\ EntryCounted(u)'
         /\ MessagesInTurn(u)' /\ CountsInTurn(u)' /\ LostWhole(u)'
<1>1. /\ turnPc'[u] = turnPc[u] /\ turnRequest'[u] = turnRequest[u] /\ capture'[u] = capture[u]
      /\ told'[u] = told[u] /\ turnFailed'[u] = turnFailed[u] /\ entry'[u] = entry[u]
      /\ written'[u] = written[u] /\ approvals'[u] = approvals[u]
  BY DEF Local
<1>2. /\ CaptureTold(u) /\ EntryTold(u) /\ EntryCounted(u)
      /\ MessagesInTurn(u) /\ CountsInTurn(u) /\ LostWhole(u)
  BY DEF TurnInv, ToldInv, ChatRowsInv
<1>3. CaptureTold(u)' /\ EntryTold(u)' /\ EntryCounted(u)'
  BY <1>1, <1>2 DEF CaptureTold, EntryTold, EntryCounted
<1>4. MessagesInTurn(u)'
  BY <1>1, <1>2 DEF MessagesInTurn
<1>5. CountsInTurn(u)'
  BY <1>1, <1>2 DEF CountsInTurn
<1>6. LostWhole(u)'
  BY <1>1, <1>2 DEF LostWhole
<1> QED  BY <1>3, <1>4, <1>5, <1>6

(* A step of one turn that leaves the messages and the counts.             *)
TurnKept(t) ==
  /\ CaptureTold(t) /\ EntryTold(t) /\ EntryCounted(t)
  /\ MessagesInTurn(t) /\ CountsInTurn(t) /\ LostWhole(t)

(* A step of one turn that adds no row need be looked at for that turn     *)
(* only.                                                                   *)
LEMMA StepWithoutRows ==
  ASSUME TurnInv, TurnTypeOK', NEW t \in Turn, messages' = messages, tokenStats' = tokenStats,
         \A u \in Turn \ {t} : Local(u)' = Local(u),
         chatSession.stored => chatSession'.stored, recordFaults' = 0 => recordFaults = 0,
         TurnKept(t)',
         \A i \in DOMAIN messages : messages[i].turn = t => MessageKept(i)'
  PROVE  TurnInv'
<1>1. \A u : \A role : RowsOf(u, role)' = RowsOf(u, role)
  BY DEF RowsOf
<1>2. \A u : StatsOf(u)' = StatsOf(u)
  BY DEF StatsOf
<1>3. \A u : UsageStored(u)' = UsageStored(u)
  BY <1>2 DEF UsageStored
<1>4. ASSUME NEW u \in Turn \ {t} PROVE TurnKept(u)'
  BY <1>1, <1>2, <1>3, StillTurns DEF TurnKept
<1>5. \A u \in Turn : TurnKept(u)'
  BY <1>4
<1>6. ASSUME NEW i \in DOMAIN messages, messages[i].turn # t PROVE MessageKept(i)'
  <2>1. messages[i].turn \in Turn \ {t} /\ MessageKept(i)
    <3>1. messages \in Seq(ChatMessage) /\ MessageKept(i)
      BY <1>6 DEF TurnInv, TurnTypeOK
    <3>2. messages[i] \in ChatMessage
      BY <3>1
    <3> QED  BY <1>6, <3>1, <3>2 DEF ChatMessage
  <2>2. Local(messages[i].turn)' = Local(messages[i].turn)
    BY <2>1
  <2>3. turnPc'[messages[i].turn] = turnPc[messages[i].turn] /\ entry'[messages[i].turn] = entry[messages[i].turn]
    BY <2>2 DEF Local
  <2> QED  BY <2>1, <2>3 DEF MessageKept
<1> QED  BY <1>5, <1>6 DEF TurnInv, ToldInv, ChatRowsInv, TurnKept

-------------------------------------------------------------------------------
(* What the invariant says of one turn.                                    *)
LEMMA InvParts ==
  ASSUME TurnInv, NEW t \in Turn
  PROVE  /\ TurnKept(t) /\ TurnTypeOK /\ \A i \in DOMAIN messages : MessageKept(i)
         /\ \A i \in DOMAIN messages : messages[i].turn = t => messages[i].role \in {"user", "assistant"}
         /\ turnRequest[t] \in TurnAsked /\ capture[t] \in StreamCapture /\ told[t] \subseteq EventKinds
         /\ turnFailed[t] \in BOOLEAN /\ entry[t] \in ChatRecordInput /\ written[t] \in Nat
         /\ approvals[t] \in Nat
<1>1. \A i \in DOMAIN messages : messages[i] \in ChatMessage
  BY DEF TurnInv, TurnTypeOK
<1> QED  BY <1>1 DEF TurnInv, ToldInv, ChatRowsInv, TurnKept, TurnTypeOK, ChatMessage

(* Only a turn that has come to its rows has messages.                     *)
LEMMA NoMessagesYet ==
  ASSUME TurnInv, NEW t \in Turn
  PROVE  /\ turnPc[t] \notin {"answer", "approvals", "usage", "over", "lost"} =>
              /\ RowsOf(t, "user") = {} /\ RowsOf(t, "assistant") = {}
              /\ \A i \in DOMAIN messages : messages[i].turn # t
         /\ turnPc[t] = "answer" => RowsOf(t, "assistant") = {}
BY InvParts DEF RowsOf, MessageKept

(* The types of what a step of one turn writes.                            *)
LEMMA TurnInitInv == TurnInit => TurnInv
<1> SUFFICES ASSUME TurnInit PROVE TurnInv
  OBVIOUS
<1>1. NoCapture \in StreamCapture /\ NoEntry \in ChatRecordInput /\ NotAsked \in TurnAsked /\ Nowhere \in ChatSession
  BY DEF NoCapture, StreamCapture, AnswerText, NoEntry, ChatRecordInput, AnswerStatus, NotAsked, TurnAsked, Reported,
         Nowhere, ChatSession
<1>2. TurnTypeOK
  BY <1>1, ChatAssumption DEF TurnInit, TurnTypeOK, TurnPlaces
<1>3. messages = <<>> /\ tokenStats = <<>> /\ DOMAIN messages = {} /\ DOMAIN tokenStats = {}
  BY DEF TurnInit
<1>4. ASSUME NEW t \in Turn PROVE TurnKept(t)
  <2>1. RowsOf(t, "user") = {} /\ RowsOf(t, "assistant") = {} /\ StatsOf(t) = {}
    BY <1>3 DEF RowsOf, StatsOf
  <2>2. turnPc[t] = "idle" /\ capture[t] = NoCapture /\ told[t] = {} /\ entry[t].usage = <<>>
    BY DEF TurnInit, NoEntry
  <2>3. CaptureTold(t)
    <3>1. NoCapture.content = "" /\ ~NoCapture.error /\ ~NoCapture.research
      BY DEF NoCapture
    <3>2. NoCapture.approvals = 0
      BY DEF NoCapture
    <3>3. ~(NoCapture.approvals > 0)
      BY <3>2
    <3> QED  BY <2>2, <3>1, <3>3, Zenon DEF CaptureTold
  <2>4. EntryTold(t) /\ EntryCounted(t)
    BY <2>2 DEF EntryTold, EntryCounted, Unrecorded
  <2>5. MessagesInTurn(t) /\ CountsInTurn(t) /\ LostWhole(t)
    BY <2>1 DEF TurnInit, MessagesInTurn, CountsInTurn, LostWhole, Recording
  <2> QED  BY <2>3, <2>4, <2>5 DEF TurnKept
<1> QED  BY <1>2, <1>3, <1>4 DEF TurnInv, ToldInv, ChatRowsInv, TurnKept

(* The capture of an event, and what is told of it.                        *)
LEMMA CapturedType ==
  ASSUME NEW c \in StreamCapture, NEW kind \in EventKinds
  PROVE  /\ Captured(c, kind) \in StreamCapture
         /\ Captured(c, kind).content =
              IF kind = "answer" THEN "answer" ELSE IF kind = "delta" THEN "deltas" ELSE c.content
         /\ Captured(c, kind).error <=> c.error \/ kind = "error"
         /\ Captured(c, kind).approvals = IF kind = "interrupted" THEN 2 ELSE c.approvals
         /\ Captured(c, kind).research <=> c.research \/ kind = "evidence"
<1>1. CASE kind = "delta"
  BY <1>1 DEF Captured, StreamCapture, AnswerText
<1>2. CASE kind = "interrupted"
  BY <1>2 DEF Captured, StreamCapture, AnswerText
<1>3. CASE kind \in {"evidence", "progress"}
  BY <1>3 DEF Captured, StreamCapture, AnswerText, Evidence
<1>4. CASE kind = "error"
  BY <1>4 DEF Captured, StreamCapture, AnswerText
<1>5. CASE kind = "done"
  BY <1>5 DEF Captured, StreamCapture, AnswerText
<1>6. CASE kind = "answer"
  BY <1>6 DEF Captured, StreamCapture, AnswerText
<1>7. CASE kind = "reasoning"
  BY <1>7 DEF Captured, StreamCapture, AnswerText
<1> QED  BY <1>1, <1>2, <1>3, <1>4, <1>5, <1>6, <1>7 DEF EventKinds

(* StartTurn: nothing was told yet, and nothing is captured.               *)
LEMMA StartTurnKeeps ==
  ASSUME TurnInv, NEW t \in Turn, NEW request \in TurnRequests(t), StartTurn(t, request)
  PROVE  TurnInv'
<1> USE DEF StartTurn, tables
<1>1. request \in TurnAsked
  BY ChatAssumption
<1>2. TurnTypeOK'
  BY <1>1 DEF TurnInv, TurnTypeOK, TurnPlaces
<1>3. turnPc'[t] = "run" /\ \A u \in Turn \ {t} : Local(u)' = Local(u)
  BY DEF TurnInv, TurnTypeOK, Local
<1>4. TurnKept(t)
  BY InvParts
<1>5. \A role : RowsOf(t, role)' = RowsOf(t, role)
  BY DEF RowsOf
<1>6. StatsOf(t)' = StatsOf(t)
  BY DEF StatsOf
<1>7. \A i \in DOMAIN messages : messages[i].turn # t
  BY NoMessagesYet
<1>8. RowsOf(t, "user") = {} /\ RowsOf(t, "assistant") = {}
  BY NoMessagesYet
<1>9. TurnKept(t)'
  <2>1. CaptureTold(t)' /\ EntryTold(t)' /\ EntryCounted(t)'
    BY <1>3, <1>4 DEF TurnKept, CaptureTold, EntryTold, EntryCounted, Unrecorded
  <2>2. MessagesInTurn(t)' /\ LostWhole(t)'
    BY <1>3, <1>4, <1>5, <1>6, <1>8 DEF TurnKept, MessagesInTurn, LostWhole, Recording
  <2>3. CountsInTurn(t)'
    BY <1>3, <1>4, <1>6 DEF TurnKept, CountsInTurn
  <2> QED  BY <2>1, <2>2, <2>3 DEF TurnKept
<1> QED  BY <1>2, <1>3, <1>7, <1>9, StepWithoutRows

(* What is sent, by the run or for its device, is captured and told alike. *)
LEMMA SendKeeps ==
  ASSUME TurnInv, NEW t \in Turn, NEW kind \in EventKinds, RunSends(t, kind) \/ DeviceReports(t, kind)
  PROVE  TurnInv'
<1>1. /\ capture' = [capture EXCEPT ![t] = Captured(capture[t], kind)]
      /\ UNCHANGED <<turnPc, turnRequest, turnFailed, entry, sessionSeen, written, chatSession, messages, approvals,
                     tokenStats, recordFaults>>
  BY DEF RunSends, DeviceReports, Send, tables
<1>2. \/ told' = [told EXCEPT ![t] = @ \cup ({kind} \ {"reasoning", "progress"})]
      \/ turnPc[t] \notin Unrecorded /\ told' = told
  BY DEF RunSends, DeviceReports, Tell, Unrecorded
<1>3. /\ told[t] \cap {"error", "done", "answer"} = {} \/ kind \in {"progress", "evidence"}
      /\ turnPc[t] \in Unrecorded \/ told' = told
  BY DEF RunSends, DeviceReports, Unrecorded
<1> DEFINE now == Captured(capture[t], kind)
<1>4. /\ now \in StreamCapture
      /\ now.content = IF kind = "answer" THEN "answer" ELSE IF kind = "delta" THEN "deltas" ELSE capture[t].content
      /\ now.error <=> capture[t].error \/ kind = "error"
      /\ now.approvals = IF kind = "interrupted" THEN 2 ELSE capture[t].approvals
      /\ now.research <=> capture[t].research \/ kind = "evidence"
  BY InvParts, CapturedType
<1> HIDE DEF now
<1>5. capture' = [capture EXCEPT ![t] = now] /\ capture'[t] = now
  BY <1>1 DEF now, TurnInv, TurnTypeOK
<1>6. told' \in [Turn -> SUBSET EventKinds] /\ \A u \in Turn \ {t} : told'[u] = told[u]
  BY <1>2 DEF TurnInv, TurnTypeOK
<1>7. TurnTypeOK'
  BY <1>1, <1>4, <1>5, <1>6 DEF TurnInv, TurnTypeOK
<1>8. \A u \in Turn \ {t} : Local(u)' = Local(u)
  BY <1>1, <1>5, <1>6 DEF TurnInv, TurnTypeOK, Local
<1>9. TurnKept(t) /\ capture[t] \in StreamCapture
  BY InvParts
<1>10. \A role : RowsOf(t, role)' = RowsOf(t, role)
  BY <1>1 DEF RowsOf
<1>11. StatsOf(t)' = StatsOf(t)
  BY <1>1 DEF StatsOf
<1>12. UsageStored(t)' = UsageStored(t)
  BY <1>1, <1>11 DEF UsageStored
<1>13. CaptureTold(t)'
  <2> SUFFICES ASSUME turnPc[t] \in Unrecorded PROVE CaptureTold(t)'
    BY <1>1 DEF CaptureTold
  <2>1. told'[t] = told[t] \cup ({kind} \ {"reasoning", "progress"})
    BY <1>2 DEF TurnInv, TurnTypeOK
  <2>2. /\ capture[t].content = IF "answer" \in told[t] THEN "answer"
                                ELSE IF "delta" \in told[t] THEN "deltas" ELSE ""
        /\ capture[t].error <=> "error" \in told[t]
        /\ capture[t].approvals > 0 <=> "interrupted" \in told[t]
        /\ capture[t].research <=> "evidence" \in told[t]
    BY <1>9 DEF TurnKept, CaptureTold
  <2>3. now.content = IF "answer" \in told'[t] THEN "answer" ELSE IF "delta" \in told'[t] THEN "deltas" ELSE ""
    BY <1>3, <1>4, <2>1, <2>2
  <2>4. (now.error <=> "error" \in told'[t]) /\ (now.research <=> "evidence" \in told'[t])
    BY <1>4, <2>1, <2>2
  <2>5. now.approvals > 0 <=> "interrupted" \in told'[t]
    <3>1. CASE kind = "interrupted"
      BY <1>4, <2>1, <3>1
    <3>2. CASE kind # "interrupted"
      <4>1. now.approvals = capture[t].approvals
        BY <1>4, <3>2
      <4>2. "interrupted" \in told'[t] <=> "interrupted" \in told[t]
        BY <2>1, <3>2
      <4> QED  BY <2>2, <4>1, <4>2
    <3> QED  BY <3>1, <3>2
  <2> QED  BY <1>5, <2>3, <2>4, <2>5 DEF CaptureTold
<1>14. EntryTold(t)' /\ EntryCounted(t)'
  BY <1>1, <1>3, <1>9 DEF TurnKept, EntryTold, EntryCounted
<1>15. MessagesInTurn(t)' /\ LostWhole(t)'
  BY <1>1, <1>9, <1>10, <1>11 DEF TurnKept, MessagesInTurn, LostWhole
<1>16. CountsInTurn(t)'
  BY <1>1, <1>9, <1>11, <1>12 DEF TurnKept, CountsInTurn
<1>17. \A i \in DOMAIN messages : messages[i].turn = t => MessageKept(i)'
  BY <1>1, InvParts DEF MessageKept
<1> QED  BY <1>1, <1>7, <1>8, <1>13, <1>14, <1>15, <1>16, <1>17, StepWithoutRows DEF TurnKept

(* EndTurn: what is captured stays what was told.                          *)
LEMMA EndTurnKeeps ==
  ASSUME TurnInv, NEW t \in Turn, EndTurn(t)
  PROVE  TurnInv'
<1> USE DEF EndTurn, tables
<1>1. TurnTypeOK'
  BY DEF TurnInv, TurnTypeOK, TurnPlaces
<1>2. turnPc'[t] = "ended" /\ \A u \in Turn \ {t} : Local(u)' = Local(u)
  BY DEF TurnInv, TurnTypeOK, Local
<1>3. TurnKept(t)
  BY InvParts
<1>4. \A role : RowsOf(t, role)' = RowsOf(t, role)
  BY DEF RowsOf
<1>5. StatsOf(t)' = StatsOf(t)
  BY DEF StatsOf
<1>6. \A i \in DOMAIN messages : messages[i].turn # t
  BY NoMessagesYet
<1>7. CaptureTold(t)' /\ EntryTold(t)' /\ EntryCounted(t)'
  BY <1>2, <1>3 DEF TurnKept, CaptureTold, EntryTold, EntryCounted, Unrecorded
<1>8. MessagesInTurn(t)' /\ LostWhole(t)'
  BY <1>2, <1>3, <1>4, <1>5 DEF TurnKept, MessagesInTurn, LostWhole, Recording
<1>9. CountsInTurn(t)'
  BY <1>2, <1>3, <1>5 DEF TurnKept, CountsInTurn
<1> QED  BY <1>1, <1>2, <1>6, <1>7, <1>8, <1>9, StepWithoutRows DEF TurnKept

(* RecordTurn: the entry is made of the capture, and so is what was told.  *)
LEMMA RecordKeeps ==
  ASSUME TurnInv, NEW t \in Turn, RecordTurn(t)
  PROVE  TurnInv'
<1>1. /\ turnPc[t] = "ended"
      /\ turnPc' = [turnPc EXCEPT ![t] = IF turnRequest[t].session THEN "lookup" ELSE "over"]
      /\ UNCHANGED <<turnRequest, capture, told, turnFailed, sessionSeen, written, chatSession, messages, approvals,
                     tokenStats, recordFaults>>
  BY DEF RecordTurn, tables
<1>2. turnRequest[t] \in TurnAsked /\ capture[t] \in StreamCapture /\ turnFailed[t] \in BOOLEAN /\ TurnKept(t)
  BY InvParts
<1>4. PICK made : entry' = [entry EXCEPT ![t] = made] /\ 
        \/ turnRequest[t].streamed /\ made = StreamEntry(t)
        \/ ~turnRequest[t].streamed /\ \E n \in {0, 2} : made = CompletionEntry(t, n)
  BY DEF RecordTurn
<1>5. turnRequest[t].metadata \in Reported /\ turnRequest[t].session \in BOOLEAN
  BY <1>2 DEF TurnAsked
<1>6. <<>> \in Seq(Count) /\ \A k \in DOMAIN <<>> : WellCounted(<<>>[k])
  OBVIOUS
<1> DEFINE usage == NormalizedUsage(Metadata(turnRequest[t].metadata))
<1>7. usage \in Seq(Count) /\ \A k \in DOMAIN usage : WellCounted(usage[k])
  BY <1>5, UsageIsCounted
<1> HIDE DEF usage
<1>8. made \in ChatRecordInput /\ \A k \in DOMAIN made.usage : WellCounted(made.usage[k])
  <2>1. CASE made = StreamEntry(t)
    BY <1>2, <1>6, <1>7, <2>1 DEF usage, StreamEntry, RecordStatus, ChatRecordInput, StreamCapture, AnswerText, AnswerStatus
  <2>2. ASSUME NEW n \in {0, 2}, made = CompletionEntry(t, n)
        PROVE  made \in ChatRecordInput /\ \A k \in DOMAIN made.usage : WellCounted(made.usage[k])
    BY <1>2, <1>6, <1>7, <2>2 DEF usage, CompletionEntry, RecordStatus, ChatRecordInput, AnswerText, AnswerStatus
  <2> QED  BY <1>4, <2>1, <2>2
<1>9. turnPc'[t] \in {"lookup", "over"} /\ (turnPc'[t] = "over" => ~turnRequest[t].session) /\ entry'[t] = made
  BY <1>1, <1>4 DEF TurnInv, TurnTypeOK
<1>10. turnPc' \in [Turn -> TurnPlaces] /\ entry' \in [Turn -> ChatRecordInput]
  BY <1>1, <1>4, <1>8 DEF TurnInv, TurnTypeOK, TurnPlaces
<1>11. TurnTypeOK'
  BY <1>1, <1>10 DEF TurnInv, TurnTypeOK
<1>12. \A u \in Turn \ {t} : Local(u)' = Local(u)
  BY <1>1, <1>4 DEF TurnInv, TurnTypeOK, Local
<1>13. \A role : RowsOf(t, role)' = RowsOf(t, role)
  BY <1>1 DEF RowsOf
<1>14. StatsOf(t)' = StatsOf(t)
  BY <1>1 DEF StatsOf
<1>15. \A i \in DOMAIN messages : messages[i].turn # t
  BY <1>1, NoMessagesYet
<1>16. CaptureTold(t)' /\ EntryCounted(t)'
  BY <1>8, <1>9 DEF CaptureTold, Unrecorded, EntryCounted
<1>17. EntryTold(t)'
  <2> SUFFICES ASSUME turnRequest[t].streamed PROVE EntryTold(t)'
    BY <1>1 DEF EntryTold
  <2>1. /\ capture[t].content = IF "answer" \in told[t] THEN "answer"
                                ELSE IF "delta" \in told[t] THEN "deltas" ELSE ""
        /\ capture[t].error <=> "error" \in told[t]
        /\ capture[t].approvals > 0 <=> "interrupted" \in told[t]
        /\ capture[t].research <=> "evidence" \in told[t]
    BY <1>1, <1>2 DEF TurnKept, CaptureTold, Unrecorded
  <2>2. made.content = capture[t].content /\ made.research = capture[t].research
        /\ made.status = RecordStatus(turnFailed[t] \/ capture[t].error, capture[t].approvals)
    BY <1>4 DEF StreamEntry
  <2> QED  BY <1>1, <1>9, <2>1, <2>2 DEF EntryTold, RecordStatus
<1>18. MessagesInTurn(t)' /\ LostWhole(t)'
  BY <1>1, <1>2, <1>9, <1>13, <1>14 DEF TurnKept, MessagesInTurn, LostWhole, Recording
<1>19. CountsInTurn(t)'
  BY <1>1, <1>2, <1>9, <1>14 DEF TurnKept, CountsInTurn
<1> QED  BY <1>1, <1>11, <1>12, <1>15, <1>16, <1>17, <1>18, <1>19, StepWithoutRows DEF TurnKept

-------------------------------------------------------------------------------
(* The statements of the recording.                                        *)
LEMMA StatementFailsKeeps ==
  ASSUME TurnInv, NEW t \in Turn, turnPc[t] \in {"lookup", "session"} \cup Recording, StatementFails(t), UNCHANGED recorded
  PROVE  TurnInv'
<1>1. /\ turnPc' = [turnPc EXCEPT ![t] = "lost"] /\ recordFaults' = recordFaults + 1 /\ recordFaults < MaxRecordFaults
      /\ UNCHANGED <<turnRequest, capture, told, turnFailed, entry, sessionSeen, written, chatSession, messages,
                     approvals, tokenStats>>
  BY DEF StatementFails, recorded, tables
<1>2. recordFaults \in 0..MaxRecordFaults /\ MaxRecordFaults \in Nat
  BY ChatAssumption DEF TurnInv, TurnTypeOK
<1>3. recordFaults' \in 0..MaxRecordFaults /\ recordFaults' # 0
  BY <1>1, <1>2
<1>4. TurnTypeOK'
  BY <1>1, <1>3 DEF TurnInv, TurnTypeOK, TurnPlaces
<1>5. turnPc'[t] = "lost" /\ \A u \in Turn \ {t} : Local(u)' = Local(u)
  BY <1>1 DEF TurnInv, TurnTypeOK, Local
<1>6. TurnKept(t) /\ \A i \in DOMAIN messages : MessageKept(i)
  BY InvParts
<1>7. \A role : RowsOf(t, role)' = RowsOf(t, role)
  BY <1>1 DEF RowsOf
<1>8. StatsOf(t)' = StatsOf(t)
  BY <1>1 DEF StatsOf
<1>9. CaptureTold(t)' /\ EntryTold(t)' /\ EntryCounted(t)' /\ LostWhole(t)'
  BY <1>1, <1>3, <1>5, <1>6 DEF TurnKept, CaptureTold, EntryTold, EntryCounted, LostWhole, Unrecorded, Recording
<1>10. MessagesInTurn(t)'
  BY <1>1, <1>5, <1>6, <1>7, <1>8 DEF TurnKept, MessagesInTurn, Recording
<1>11. CountsInTurn(t)'
  BY <1>1, <1>5, <1>6, <1>8 DEF TurnKept, CountsInTurn
<1>12. \A i \in DOMAIN messages : messages[i].turn = t => MessageKept(i)'
  BY <1>1, <1>5, <1>6 DEF MessageKept
<1> QED  BY <1>1, <1>3, <1>4, <1>5, <1>9, <1>10, <1>11, <1>12, StepWithoutRows DEF TurnKept

(* LookUpSession: the session is found, or is to be stored first.          *)
LEMMA LookUpSessionKeeps ==
  ASSUME TurnInv, NEW t \in Turn, LookUpSession(t)
  PROVE  TurnInv'
<1>1. CASE StatementFails(t)
  BY <1>1, StatementFailsKeeps DEF LookUpSession
<1>2. CASE sessionSeen' = [sessionSeen EXCEPT ![t] = chatSession] /\ Statement(t, "session")
           /\ UNCHANGED <<tables, written>>
  <2>1. /\ turnPc[t] = "lookup" /\ turnPc' = [turnPc EXCEPT ![t] = "session"]
        /\ UNCHANGED <<turnRequest, capture, told, turnFailed, entry, written, chatSession, messages,
                       approvals, tokenStats, recordFaults>>
    BY <1>2 DEF LookUpSession, Statement, recorded, tables
  <2>2. TurnTypeOK'
    BY <1>2, <2>1 DEF TurnInv, TurnTypeOK, TurnPlaces
  <2>3. turnPc'[t] = "session" /\ \A u \in Turn \ {t} : Local(u)' = Local(u)
    BY <2>1 DEF TurnInv, TurnTypeOK, Local
  <2>4. TurnKept(t)
    BY InvParts
  <2>5. \A role : RowsOf(t, role)' = RowsOf(t, role)
    BY <2>1 DEF RowsOf
  <2>6. StatsOf(t)' = StatsOf(t)
    BY <2>1 DEF StatsOf
  <2>7. \A i \in DOMAIN messages : messages[i].turn # t
    BY <2>1, NoMessagesYet
  <2>8. CaptureTold(t)' /\ EntryTold(t)' /\ EntryCounted(t)' /\ LostWhole(t)'
    BY <2>1, <2>3, <2>4 DEF TurnKept, CaptureTold, EntryTold, EntryCounted, LostWhole, Unrecorded
  <2>9. MessagesInTurn(t)'
    BY <2>1, <2>3, <2>4, <2>5, <2>6 DEF TurnKept, MessagesInTurn, Recording
  <2>10. CountsInTurn(t)'
    BY <2>1, <2>3, <2>4, <2>6 DEF TurnKept, CountsInTurn
  <2> QED  BY <2>1, <2>2, <2>3, <2>7, <2>8, <2>9, <2>10, StepWithoutRows DEF TurnKept
<1> QED  BY <1>1, <1>2 DEF LookUpSession

(* SaveSession: without a session nothing of the turn is stored.           *)
LEMMA SaveSessionKeeps ==
  ASSUME TurnInv, NEW t \in Turn, SaveSession(t)
  PROVE  TurnInv'
<1>1. CASE StatementFails(t)
  <2>1. turnPc[t] \in {"lookup"} \cup Recording \cup {"session"}
    BY DEF SaveSession
  <2> QED  BY <1>1, <2>1, StatementFailsKeeps DEF SaveSession
<1>2. CASE ~StatementFails(t)
  <2>1. /\ turnPc[t] = "session"
        /\ UNCHANGED <<turnRequest, capture, told, turnFailed, entry, sessionSeen, written, messages,
                       approvals, tokenStats, recordFaults>>
        /\ \/ chatSession.stored /\ turnPc' = [turnPc EXCEPT ![t] = "lost"] /\ chatSession' = chatSession
           \/ /\ turnPc' = [turnPc EXCEPT ![t] = "question"]
              /\ chatSession' = [stored |-> TRUE,
                                 agent  |-> IF sessionSeen[t].agent THEN chatSession.agent
                                            ELSE chatSession.agent \/ turnRequest[t].agent]
    BY <1>2 DEF SaveSession, Statement, recorded
  <2>2. turnRequest[t].agent \in BOOLEAN /\ chatSession.agent \in BOOLEAN /\ chatSession \in ChatSession
    BY InvParts DEF TurnInv, TurnTypeOK, TurnAsked, ChatSession
  <2>3. chatSession' \in ChatSession /\ chatSession'.stored
    <3>1. CASE chatSession.stored /\ chatSession' = chatSession
      BY <2>2, <3>1
    <3>2. CASE chatSession' = [stored |-> TRUE,
                               agent  |-> IF sessionSeen[t].agent THEN chatSession.agent
                                          ELSE chatSession.agent \/ turnRequest[t].agent]
      <4>1. (IF sessionSeen[t].agent THEN chatSession.agent
                                     ELSE chatSession.agent \/ turnRequest[t].agent) \in BOOLEAN
        BY <2>2
      <4> QED  BY <3>2, <4>1 DEF ChatSession
    <3> QED  BY <2>1, <3>1, <3>2
  <2>4. turnPc'[t] \in {"lost", "question"} /\ turnPc' \in [Turn -> TurnPlaces]
    BY <2>1 DEF TurnInv, TurnTypeOK, TurnPlaces
  <2>5. TurnTypeOK'
    BY <2>1, <2>3, <2>4 DEF TurnInv, TurnTypeOK
  <2>6. \A u \in Turn \ {t} : Local(u)' = Local(u)
    BY <2>1 DEF TurnInv, TurnTypeOK, Local
  <2>7. TurnKept(t)
    BY InvParts
  <2>8. \A role : RowsOf(t, role)' = RowsOf(t, role)
    BY <2>1 DEF RowsOf
  <2>9. StatsOf(t)' = StatsOf(t)
    BY <2>1 DEF StatsOf
  <2>10. \A i \in DOMAIN messages : messages[i].turn # t
    BY <2>1, NoMessagesYet
  <2>11. RowsOf(t, "user") = {} /\ RowsOf(t, "assistant") = {}
    BY <2>1, NoMessagesYet
  <2>12. CaptureTold(t)' /\ EntryTold(t)' /\ EntryCounted(t)'
    BY <2>1, <2>4, <2>7 DEF TurnKept, CaptureTold, EntryTold, EntryCounted, Unrecorded
  <2>13. MessagesInTurn(t)' /\ LostWhole(t)'
    BY <2>1, <2>3, <2>4, <2>7, <2>8, <2>9, <2>11 DEF TurnKept, MessagesInTurn, LostWhole
  <2>14. CountsInTurn(t)'
    BY <2>1, <2>4, <2>7, <2>9 DEF TurnKept, CountsInTurn
  <2> QED  BY <2>1, <2>3, <2>5, <2>6, <2>10, <2>12, <2>13, <2>14, StepWithoutRows DEF TurnKept
<1> QED  BY <1>1, <1>2

(* A message of the turn is stored.                                        *)
LEMMA MessageStep ==
  ASSUME TurnInv, TurnTypeOK', NEW t \in Turn, NEW m \in ChatMessage, m.turn = t, messages' = Append(messages, m),
         tokenStats' = tokenStats, \A u \in Turn \ {t} : Local(u)' = Local(u),
         chatSession' = chatSession, recordFaults' = recordFaults,
         TurnKept(t)', \A n : n = Len(messages) + 1 => MessageKept(n)',
         \A i \in DOMAIN messages : messages[i].turn = t => MessageKept(i)'
  PROVE  TurnInv'
<1>1. /\ DOMAIN messages' = DOMAIN messages \cup {Len(messages) + 1}
      /\ \A i \in DOMAIN messages : messages'[i] = messages[i]
      /\ \A u \in Turn \ {t} : \A role : RowsOf(u, role)' = RowsOf(u, role)
  BY MessageAppended DEF TurnInv
<1>2. \A u : StatsOf(u)' = StatsOf(u)
  BY DEF StatsOf
<1>3. \A u : UsageStored(u)' = UsageStored(u)
  BY <1>2 DEF UsageStored
<1>4. ASSUME NEW u \in Turn \ {t} PROVE TurnKept(u)'
  BY <1>1, <1>2, <1>3, StillTurns DEF TurnKept
<1>5. \A u \in Turn : TurnKept(u)'
  BY <1>4
<1>6. ASSUME NEW i \in DOMAIN messages, messages[i].turn # t PROVE MessageKept(i)'
  <2>1. messages[i].turn \in Turn \ {t} /\ MessageKept(i)
    <3>1. messages \in Seq(ChatMessage) /\ MessageKept(i)
      BY <1>6 DEF TurnInv, TurnTypeOK
    <3>2. messages[i] \in ChatMessage
      BY <3>1
    <3> QED  BY <1>6, <3>1, <3>2 DEF ChatMessage
  <2>2. Local(messages[i].turn)' = Local(messages[i].turn)
    <3> DEFINE u == messages[i].turn
    <3>1. PICK v \in Turn \ {t} : v = messages[i].turn
      BY <2>1
    <3>2. Local(v)' = Local(v)
      BY <3>1
    <3>3. turnPc'[v] = turnPc[v] /\ entry'[v] = entry[v]
      BY <3>2 DEF Local
    <3> QED  BY <3>1, <3>2
  <2> QED  BY <2>1, <2>2, <1>1 DEF MessageKept, Local
<1>7. \A i \in DOMAIN messages' : MessageKept(i)'
  BY <1>1, <1>6
<1> QED  BY <1>5, <1>7 DEF TurnInv, ToldInv, ChatRowsInv, TurnKept

(* SaveQuestion: the question comes first.                                 *)
LEMMA SaveQuestionKeeps ==
  ASSUME TurnInv, NEW t \in Turn, SaveQuestion(t)
  PROVE  TurnInv'
<1>1. CASE StatementFails(t)
  BY <1>1, StatementFailsKeeps DEF SaveQuestion, Recording
<1>2. CASE ~StatementFails(t)
  <2> DEFINE m == [turn |-> t, role |-> "user", status |-> "success", content |-> "prompt", research |-> FALSE]
  <2>1. /\ turnPc[t] = "question" /\ turnPc' = [turnPc EXCEPT ![t] = "answer"]
        /\ messages' = IF turnRequest[t].prompt THEN Append(messages, m) ELSE messages
        /\ UNCHANGED <<turnRequest, capture, told, turnFailed, entry, sessionSeen, written, chatSession,
                       approvals, tokenStats, recordFaults>>
    BY <1>2 DEF SaveQuestion, Statement, recorded
  <2>2. m \in ChatMessage /\ m.turn = t /\ m.role = "user"
    BY DEF ChatMessage, AnswerStatus, AnswerText
  <2> HIDE DEF m
  <2>3. turnPc'[t] = "answer" /\ turnPc' \in [Turn -> TurnPlaces] /\ \A u \in Turn \ {t} : Local(u)' = Local(u)
    BY <2>1 DEF TurnInv, TurnTypeOK, TurnPlaces, Local
  <2>4. messages \in Seq(ChatMessage) /\ TurnTypeOK
    BY DEF TurnInv, TurnTypeOK
  <2>5. messages' \in Seq(ChatMessage)
    BY <2>1, <2>2, <2>4, MessageAppended
  <2>6. TurnTypeOK'
    BY <2>1, <2>3, <2>5 DEF TurnInv, TurnTypeOK
  <2>7. TurnKept(t)
    BY InvParts
  <2>8. StatsOf(t)' = StatsOf(t)
    BY <2>1 DEF StatsOf
  <2>9. \A i \in DOMAIN messages : messages[i].turn # t
    BY <2>1, NoMessagesYet
  <2>10. RowsOf(t, "user") = {} /\ RowsOf(t, "assistant") = {}
    BY <2>1, NoMessagesYet
  <2>11. RowsOf(t, "assistant")' = {} /\ (turnRequest[t].prompt => RowsOf(t, "user")' # {})
    <3>1. CASE turnRequest[t].prompt
      <4>1. \A role : RowsOf(t, role)' = IF m.turn = t /\ m.role = role THEN RowsOf(t, role) \cup {Len(messages) + 1}
                                                                       ELSE RowsOf(t, role)
        BY <2>1, <2>2, <2>4, <3>1, MessageAppended
      <4>2. RowsOf(t, "assistant")' = RowsOf(t, "assistant")
        BY <2>2, <4>1
      <4>3. RowsOf(t, "user")' = RowsOf(t, "user") \cup {Len(messages) + 1}
        BY <2>2, <4>1
      <4> QED  BY <2>10, <4>2, <4>3
    <3>2. CASE ~turnRequest[t].prompt
      BY <2>1, <2>10, <3>2 DEF RowsOf
    <3> QED  BY <3>1, <3>2
  <2>12. CaptureTold(t)' /\ EntryTold(t)' /\ EntryCounted(t)' /\ LostWhole(t)'
    BY <2>1, <2>3, <2>7 DEF TurnKept, CaptureTold, EntryTold, EntryCounted, LostWhole, Unrecorded
  <2>13. MessagesInTurn(t)'
    BY <2>1, <2>3, <2>7, <2>8, <2>10, <2>11 DEF TurnKept, MessagesInTurn, Recording
  <2>14. CountsInTurn(t)'
    BY <2>1, <2>3, <2>7, <2>8 DEF TurnKept, CountsInTurn
  <2>15. TurnKept(t)'
    BY <2>12, <2>13, <2>14 DEF TurnKept
  <2>16. chatSession.stored
    BY <2>1, <2>7 DEF TurnKept, MessagesInTurn, Recording
  <2>17. CASE turnRequest[t].prompt
    <3>1. messages'[Len(messages) + 1] = m /\ messages' = Append(messages, m)
      BY <2>1, <2>2, <2>4, <2>17, MessageAppended
    <3>2. ASSUME NEW n, n = Len(messages) + 1 PROVE MessageKept(n)'
      <4>1. messages'[n] = m
        BY <3>1, <3>2
      <4> QED  BY <2>1, <2>2, <2>3, <2>16, <4>1 DEF MessageKept
    <3> QED  BY <2>1, <2>2, <2>3, <2>6, <2>9, <2>15, <3>1, <3>2, MessageStep
  <2>18. CASE ~turnRequest[t].prompt
    BY <2>1, <2>3, <2>6, <2>9, <2>15, <2>18, StepWithoutRows
  <2> QED  BY <2>17, <2>18
<1> QED  BY <1>1, <1>2

(* SaveAnswer: the answer follows its question, and says what the client   *)
(* was told.                                                               *)
LEMMA SaveAnswerKeeps ==
  ASSUME TurnInv, NEW t \in Turn, SaveAnswer(t)
  PROVE  TurnInv'
<1>1. CASE StatementFails(t)
  BY <1>1, StatementFailsKeeps DEF SaveAnswer, Recording
<1>2. CASE ~StatementFails(t)
  <2> DEFINE m == [turn |-> t, role |-> "assistant", status |-> entry[t].status, content |-> entry[t].content,
                   research |-> entry[t].research]
  <2>1. /\ turnPc[t] = "answer" /\ turnPc' = [turnPc EXCEPT ![t] = "approvals"]
        /\ messages' = Append(messages, m) /\ written' = [written EXCEPT ![t] = 0]
        /\ UNCHANGED <<turnRequest, capture, told, turnFailed, entry, sessionSeen, chatSession,
                       approvals, tokenStats, recordFaults>>
    BY <1>2 DEF SaveAnswer, Statement, recorded
  <2>2. entry[t] \in ChatRecordInput /\ TurnKept(t)
    BY InvParts
  <2>3. /\ m \in ChatMessage /\ m.turn = t /\ m.role = "assistant"
        /\ m.status = entry[t].status /\ m.content = entry[t].content /\ m.research = entry[t].research
    BY <2>2 DEF ChatMessage, ChatRecordInput
  <2> HIDE DEF m
  <2>4. turnPc'[t] = "approvals" /\ turnPc' \in [Turn -> TurnPlaces] /\ \A u \in Turn \ {t} : Local(u)' = Local(u)
    BY <2>1 DEF TurnInv, TurnTypeOK, TurnPlaces, Local
  <2>5. messages \in Seq(ChatMessage) /\ TurnTypeOK
    BY DEF TurnInv, TurnTypeOK
  <2>6. /\ messages' \in Seq(ChatMessage)
        /\ \A i \in DOMAIN messages : messages'[i] = messages[i] /\ i < Len(messages) + 1
        /\ messages'[Len(messages) + 1] = m
        /\ \A role : RowsOf(t, role)' = IF m.turn = t /\ m.role = role THEN RowsOf(t, role) \cup {Len(messages) + 1}
                                                                       ELSE RowsOf(t, role)
    BY <2>1, <2>3, <2>5, MessageAppended
  <2>7. TurnTypeOK' /\ written'[t] = 0
    BY <2>1, <2>4, <2>6 DEF TurnInv, TurnTypeOK
  <2>8. StatsOf(t)' = StatsOf(t)
    BY <2>1 DEF StatsOf
  <2>9. RowsOf(t, "assistant") = {} /\ StatsOf(t) = {} /\ approvals[t] = 0
    BY <2>1, <2>2, NoMessagesYet DEF TurnKept, CountsInTurn
  <2>10. RowsOf(t, "assistant")' = {Len(messages) + 1} /\ RowsOf(t, "user")' = RowsOf(t, "user")
    <3>1. RowsOf(t, "assistant")' = RowsOf(t, "assistant") \cup {Len(messages) + 1}
      BY <2>3, <2>6
    <3>2. RowsOf(t, "user")' = RowsOf(t, "user")
      BY <2>3, <2>6
    <3> QED  BY <2>9, <3>1, <3>2
  <2>11. CaptureTold(t)' /\ EntryTold(t)' /\ EntryCounted(t)' /\ LostWhole(t)'
    BY <2>1, <2>2, <2>4 DEF TurnKept, CaptureTold, EntryTold, EntryCounted, LostWhole, Unrecorded
  <2>12. MessagesInTurn(t)'
    <3>1. \A q \in RowsOf(t, "user") : q < Len(messages) + 1
      BY <2>6 DEF RowsOf
    <3>2. PICK last : last = Len(messages) + 1
      OBVIOUS
    <3>3. RowsOf(t, "assistant")' = {last} /\ \A q \in RowsOf(t, "user")' : q < last
      BY <2>10, <3>1, <3>2
    <3>4. turnRequest[t].prompt => RowsOf(t, "user")' # {}
      BY <2>1, <2>2, <2>10 DEF TurnKept, MessagesInTurn
    <3>5. chatSession.stored
      BY <2>1, <2>2 DEF TurnKept, MessagesInTurn, Recording
    <3> QED  BY <2>1, <2>4, <3>3, <3>4, <3>5 DEF MessagesInTurn
  <2>13. CountsInTurn(t)'
    <3>1. written'[t] <= entry'[t].approvals
      BY <2>1, <2>2, <2>7 DEF ChatRecordInput
    <3>2. StatsOf(t)' = {} /\ approvals'[t] = 0
      BY <2>1, <2>8, <2>9
    <3> QED  BY <2>4, <2>7, <3>1, <3>2 DEF CountsInTurn
  <2>14. TurnKept(t)'
    BY <2>11, <2>12, <2>13 DEF TurnKept
  <2>15. chatSession.stored
    BY <2>1, <2>2 DEF TurnKept, MessagesInTurn, Recording
  <2>16. ASSUME NEW n, n = Len(messages) + 1 PROVE MessageKept(n)'
    <3>1. messages'[n] = m
      BY <2>6, <2>16
    <3> QED  BY <2>1, <2>3, <2>4, <2>15, <3>1 DEF MessageKept
  <2>17. ASSUME NEW i \in DOMAIN messages, messages[i].turn = t PROVE MessageKept(i)'
    <3>1. MessageKept(i) /\ messages'[i] = messages[i]
      BY <2>6, InvParts
    <3> QED  BY <2>1, <2>4, <2>17, <3>1 DEF MessageKept
  <2> QED  BY <2>1, <2>3, <2>4, <2>7, <2>14, <2>16, <2>17, MessageStep
<1> QED  BY <1>1, <1>2

(* SaveApproval: one approval after the other, as many as were asked.      *)
LEMMA SaveApprovalKeeps ==
  ASSUME TurnInv, NEW t \in Turn, SaveApproval(t)
  PROVE  TurnInv'
<1>1. CASE StatementFails(t)
  BY <1>1, StatementFailsKeeps DEF SaveApproval, Recording
<1>2. CASE ~StatementFails(t)
  <2>1. /\ turnPc[t] = "approvals"
        /\ UNCHANGED <<turnRequest, capture, told, turnFailed, entry, sessionSeen, chatSession, messages, tokenStats,
                       recordFaults>>
        /\ \/ /\ ~ApprovalsWritten(t)
              /\ approvals' = [approvals EXCEPT ![t] = @ + 1] /\ written' = [written EXCEPT ![t] = @ + 1]
              /\ turnPc' = [turnPc EXCEPT ![t] = "approvals"]
           \/ /\ ApprovalsWritten(t)
              /\ approvals' = approvals /\ written' = [written EXCEPT ![t] = 0]
              /\ turnPc' = [turnPc EXCEPT ![t] = "usage"]
    BY <1>2 DEF SaveApproval, Statement, recorded
  <2>2. entry[t] \in ChatRecordInput /\ TurnKept(t) /\ written[t] \in Nat /\ approvals[t] \in Nat
    BY InvParts
  <2>3. turnPc'[t] \in {"approvals", "usage"} /\ turnPc' \in [Turn -> TurnPlaces]
    BY <2>1 DEF TurnInv, TurnTypeOK, TurnPlaces
  <2>4. written' \in [Turn -> Nat] /\ approvals' \in [Turn -> Nat]
    <3>1. written \in [Turn -> Nat] /\ approvals \in [Turn -> Nat]
      BY DEF TurnInv, TurnTypeOK
    <3> QED  BY <2>1, <2>2, <3>1
  <2>5. TurnTypeOK'
    BY <2>1, <2>3, <2>4 DEF TurnInv, TurnTypeOK
  <2>6. \A u \in Turn \ {t} : Local(u)' = Local(u)
    BY <2>1 DEF TurnInv, TurnTypeOK, Local
  <2>7. \A role : RowsOf(t, role)' = RowsOf(t, role)
    BY <2>1 DEF RowsOf
  <2>8. StatsOf(t)' = StatsOf(t)
    BY <2>1 DEF StatsOf
  <2>9. UsageStored(t)' = UsageStored(t)
    BY <2>1, <2>8 DEF UsageStored
  <2>10. written[t] <= entry[t].approvals /\ approvals[t] = written[t] /\ StatsOf(t) = {}
    BY <2>1, <2>2 DEF TurnKept, CountsInTurn
  <2>11. CaptureTold(t)' /\ EntryTold(t)' /\ EntryCounted(t)' /\ LostWhole(t)'
    BY <2>1, <2>2, <2>3 DEF TurnKept, CaptureTold, EntryTold, EntryCounted, LostWhole, Unrecorded
  <2>12. MessagesInTurn(t)'
    <3>1. RowsOf(t, "assistant") # {} /\ chatSession.stored
      BY <2>1, <2>2 DEF TurnKept, MessagesInTurn, Recording
    <3> QED  BY <2>1, <2>2, <2>3, <2>7, <3>1 DEF TurnKept, MessagesInTurn
  <2>13. CountsInTurn(t)'
    <3>1. entry[t].approvals \in Nat /\ Len(entry[t].usage) \in Nat
      BY <2>2 DEF ChatRecordInput
    <3>2. CASE ~ApprovalsWritten(t)
      <4>1. /\ turnPc'[t] = "approvals" /\ written'[t] = written[t] + 1 /\ approvals'[t] = written[t] + 1
        BY <2>1, <2>10, <3>2 DEF TurnInv, TurnTypeOK
      <4>2. written[t] + 1 <= entry[t].approvals
        BY <2>2, <3>1, <3>2 DEF ApprovalsWritten
      <4> QED  BY <2>1, <2>8, <2>10, <4>1, <4>2 DEF CountsInTurn
    <3>3. CASE ApprovalsWritten(t)
      <4>1. /\ turnPc'[t] = "usage" /\ written'[t] = 0 /\ approvals'[t] = approvals[t]
        BY <2>1, <3>3 DEF TurnInv, TurnTypeOK
      <4>2. approvals[t] = entry[t].approvals
        BY <2>2, <2>10, <3>1, <3>3 DEF ApprovalsWritten
      <4>3. UsageStored(t) = {} /\ {entry[t].usage[k] : k \in 1..0} = {}
        BY <2>10 DEF UsageStored
      <4>4. 0 <= Len(entry[t].usage)
        BY <3>1
      <4> QED  BY <2>1, <2>8, <2>9, <2>10, <4>1, <4>2, <4>3, <4>4 DEF CountsInTurn
    <3> QED  BY <3>2, <3>3
  <2>14. \A i \in DOMAIN messages : messages[i].turn = t => MessageKept(i)'
    BY <2>1, <2>3, InvParts DEF MessageKept
  <2> QED  BY <2>1, <2>5, <2>6, <2>11, <2>12, <2>13, <2>14, StepWithoutRows DEF TurnKept
<1> QED  BY <1>1, <1>2

(* SaveUsage: the counts of the turn are stored once.                      *)
LEMMA SaveUsageKeeps ==
  ASSUME TurnInv, NEW t \in Turn, SaveUsage(t)
  PROVE  TurnInv'
<1>1. entry[t] \in ChatRecordInput /\ TurnKept(t) /\ written[t] \in Nat /\ turnPc[t] = "usage"
  BY InvParts DEF SaveUsage
<1>2. entry[t].usage \in Seq(Count) /\ Len(entry[t].usage) \in Nat /\ DOMAIN entry[t].usage = 1..Len(entry[t].usage)
  BY <1>1 DEF ChatRecordInput
<1>3. /\ approvals[t] = entry[t].approvals
      /\ UsageStored(t) = {entry[t].usage[k] : k \in 1..written[t]}
      /\ \A i \in StatsOf(t) : WellCounted(tokenStats[i].usage)
  BY <1>1 DEF TurnKept, CountsInTurn
<1>4. RowsOf(t, "assistant") # {} /\ chatSession.stored
  BY <1>1 DEF TurnKept, MessagesInTurn, Recording
<1>5. CASE StatementFails(t)
  BY <1>5, StatementFailsKeeps DEF SaveUsage, Recording
<1>6. CASE /\ written[t] < Len(entry[t].usage)
           /\ tokenStats' = Append(tokenStats, [turn |-> t, usage |-> entry[t].usage[written[t] + 1]])
           /\ written' = [written EXCEPT ![t] = @ + 1]
           /\ Statement(t, "usage")
  <2>1. /\ turnPc' = [turnPc EXCEPT ![t] = "usage"]
        /\ UNCHANGED <<turnRequest, capture, told, turnFailed, entry, sessionSeen, chatSession, messages,
                       approvals, recordFaults>>
    BY <1>6 DEF SaveUsage, Statement, recorded
  <2>2. PICK k : k = written[t] + 1
    OBVIOUS
  <2>3. k \in Nat /\ k \in 1..Len(entry[t].usage) /\ k <= Len(entry[t].usage) /\ 1..k = 1..written[t] \cup {k}
    BY <1>1, <1>2, <1>6, <2>2
  <2>4. entry[t].usage[k] \in Count /\ WellCounted(entry[t].usage[k])
    BY <1>1, <1>2, <2>3 DEF TurnKept, EntryCounted
  <2>5. PICK s \in ChatTokenStats : s.turn = t /\ s.usage = entry[t].usage[k] /\ tokenStats' = Append(tokenStats, s)
    BY <1>6, <2>2, <2>4 DEF ChatTokenStats
  <2>6. /\ tokenStats' \in Seq(ChatTokenStats)
        /\ \A i \in DOMAIN tokenStats : tokenStats'[i] = tokenStats[i]
        /\ tokenStats'[Len(tokenStats) + 1] = s
        /\ \A u : StatsOf(u)' = IF s.turn = u THEN StatsOf(u) \cup {Len(tokenStats) + 1} ELSE StatsOf(u)
        /\ \A u : UsageStored(u)' = IF s.turn = u THEN UsageStored(u) \cup {s.usage} ELSE UsageStored(u)
    BY <2>5, StatsAppended DEF TurnInv
  <2>7. /\ turnPc'[t] = "usage" /\ written'[t] = k /\ turnPc' \in [Turn -> TurnPlaces] /\ written' \in [Turn -> Nat]
        /\ \A u \in Turn \ {t} : Local(u)' = Local(u)
    <3>1. written \in [Turn -> Nat] /\ turnPc \in [Turn -> TurnPlaces]
      BY DEF TurnInv, TurnTypeOK
    <3>2. written' = [written EXCEPT ![t] = k]
      BY <1>6, <2>2, <3>1
    <3> QED  BY <2>1, <2>3, <3>1, <3>2 DEF TurnPlaces, Local
  <2>8. TurnTypeOK'
    BY <2>1, <2>6, <2>7 DEF TurnInv, TurnTypeOK
  <2>9. \A u : \A role : RowsOf(u, role)' = RowsOf(u, role)
    BY <2>1 DEF RowsOf
  <2>10. ASSUME NEW u \in Turn \ {t} PROVE TurnKept(u)'
    <3>1. StatsOf(u)' = StatsOf(u) /\ UsageStored(u)' = UsageStored(u)
      BY <2>5, <2>6, <2>10
    <3>2. \A i \in StatsOf(u) : tokenStats'[i] = tokenStats[i]
      BY <2>6 DEF StatsOf
    <3>3. Local(u)' = Local(u)
      BY <2>7
    <3> QED  BY <2>1, <2>9, <3>1, <3>2, <3>3, StillTurns DEF TurnKept
  <2>11. CaptureTold(t)' /\ EntryTold(t)' /\ EntryCounted(t)' /\ LostWhole(t)'
    BY <1>1, <2>1, <2>7 DEF TurnKept, CaptureTold, EntryTold, EntryCounted, LostWhole, Unrecorded
  <2>12. MessagesInTurn(t)'
    BY <1>1, <1>4, <2>1, <2>7, <2>9 DEF TurnKept, MessagesInTurn
  <2>13. CountsInTurn(t)'
    <3>1. UsageStored(t)' = {entry[t].usage[j] : j \in 1..k}
      <4>1. UsageStored(t)' = UsageStored(t) \cup {entry[t].usage[k]}
        BY <2>5, <2>6
      <4> QED  BY <1>3, <2>3, <4>1
    <3>2. StatsOf(t)' = StatsOf(t) \cup {Len(tokenStats) + 1}
      BY <2>5, <2>6
    <3>3. ASSUME NEW i \in StatsOf(t)' PROVE WellCounted(tokenStats'[i].usage)
      <4>1. CASE i \in StatsOf(t)
        <5>1. tokenStats'[i] = tokenStats[i]
          BY <2>6, <4>1 DEF StatsOf
        <5> QED  BY <1>3, <4>1, <5>1
      <4>2. CASE i = Len(tokenStats) + 1
        BY <2>4, <2>5, <2>6, <4>2
      <4> QED  BY <3>2, <3>3, <4>1, <4>2
    <3> QED  BY <1>3, <2>1, <2>3, <2>7, <3>1, <3>3 DEF CountsInTurn
  <2>14. \A u \in Turn : TurnKept(u)'
    BY <2>10, <2>11, <2>12, <2>13 DEF TurnKept
  <2>15. \A u \in Turn : turnPc'[u] = turnPc[u] /\ entry'[u] = entry[u]
    BY <1>1, <2>1 DEF TurnInv, TurnTypeOK
  <2>16. ASSUME NEW i \in DOMAIN messages PROVE MessageKept(i)'
    <3>1. messages \in Seq(ChatMessage) /\ MessageKept(i)
      BY DEF TurnInv, TurnTypeOK
    <3>2. messages[i] \in ChatMessage
      BY <3>1
    <3>3. messages[i].turn \in Turn
      BY <3>2 DEF ChatMessage
    <3> QED  BY <2>1, <2>15, <3>1, <3>3 DEF MessageKept
  <2> QED  BY <2>1, <2>8, <2>14, <2>16 DEF TurnInv, ToldInv, ChatRowsInv, TurnKept
<1>7. CASE written[t] = Len(entry[t].usage) /\ Statement(t, "over") /\ UNCHANGED <<tokenStats, written>>
  <2>1. /\ turnPc' = [turnPc EXCEPT ![t] = "over"]
        /\ UNCHANGED <<turnRequest, capture, told, turnFailed, entry, sessionSeen, written, chatSession, messages,
                       approvals, tokenStats, recordFaults>>
    BY <1>7 DEF SaveUsage, Statement, recorded
  <2>2. TurnTypeOK'
    BY <2>1 DEF TurnInv, TurnTypeOK, TurnPlaces
  <2>3. turnPc'[t] = "over" /\ \A u \in Turn \ {t} : Local(u)' = Local(u)
    BY <2>1 DEF TurnInv, TurnTypeOK, Local
  <2>4. \A role : RowsOf(t, role)' = RowsOf(t, role)
    BY <2>1 DEF RowsOf
  <2>5. StatsOf(t)' = StatsOf(t)
    BY <2>1 DEF StatsOf
  <2>6. UsageStored(t)' = UsageStored(t)
    BY <2>1, <2>5 DEF UsageStored
  <2>7. CaptureTold(t)' /\ EntryTold(t)' /\ EntryCounted(t)' /\ LostWhole(t)'
    BY <1>1, <2>1, <2>3 DEF TurnKept, CaptureTold, EntryTold, EntryCounted, LostWhole, Unrecorded
  <2>8. MessagesInTurn(t)'
    BY <1>1, <1>4, <2>1, <2>3, <2>4, <2>5 DEF TurnKept, MessagesInTurn, Recording
  <2>9. CountsInTurn(t)'
    <3>1. UsageStored(t) = {entry[t].usage[k] : k \in DOMAIN entry[t].usage}
      BY <1>2, <1>3, <1>7
    <3> QED  BY <1>3, <2>1, <2>3, <2>5, <2>6, <3>1 DEF CountsInTurn
  <2>10. \A i \in DOMAIN messages : messages[i].turn = t => MessageKept(i)'
    BY <2>1, <2>3, InvParts DEF MessageKept
  <2> QED  BY <2>1, <2>2, <2>3, <2>7, <2>8, <2>9, <2>10, StepWithoutRows DEF TurnKept
<1> QED  BY <1>5, <1>6, <1>7 DEF SaveUsage

-------------------------------------------------------------------------------
(* The invariant holds in every reachable state.                           *)
LEMMA TurnInvariant == TurnSpec => []TurnInv
<1>1. TurnInit => TurnInv
  BY TurnInitInv
<1>2. TurnInv /\ [TurnNext]_turnVars => TurnInv'
  <2> SUFFICES ASSUME TurnInv, [TurnNext]_turnVars PROVE TurnInv'
    OBVIOUS
  <2>1. CASE TurnNext
    BY <2>1, StartTurnKeeps, SendKeeps, EndTurnKeeps, RecordKeeps, LookUpSessionKeeps, SaveSessionKeeps,
       SaveQuestionKeeps, SaveAnswerKeeps, SaveApprovalKeeps, SaveUsageKeeps DEF TurnNext
  <2>2. CASE UNCHANGED turnVars
    <3>1. /\ UNCHANGED <<turnPc, turnRequest, capture, told, turnFailed, entry, sessionSeen, written>>
          /\ UNCHANGED <<chatSession, messages, approvals, tokenStats, recordFaults>>
      BY <2>2 DEF turnVars, tables
    <3>2. \A i : MessageKept(i)' <=> MessageKept(i)
      BY <3>1 DEF MessageKept
    <3>3. \A t : TurnKept(t)' <=> TurnKept(t)
      BY <3>1 DEF TurnKept, CaptureTold, EntryTold, EntryCounted, MessagesInTurn, CountsInTurn, LostWhole,
                  RowsOf, StatsOf, UsageStored
    <3>4. TurnTypeOK'
      BY <3>1 DEF TurnInv, TurnTypeOK
    <3> QED  BY <3>1, <3>2, <3>3, <3>4 DEF TurnInv, ToldInv, ChatRowsInv, TurnKept
  <2> QED  BY <2>1, <2>2
<1> QED  BY <1>1, <1>2, PTL DEF TurnSpec

(* The captures, the records and the rows of a chat have their types.      *)
THEOREM TurnTypeCorrect == TurnSpec => []TurnTypeOK
<1>1. TurnInv => TurnTypeOK
  BY DEF TurnInv
<1> QED  BY <1>1, TurnInvariant, PTL

(* The history of a session is what its clients saw, for any number of     *)
(* turns at once, whatever they ask, and any number of failing statements. *)
THEOREM HistoryIsAsTold == TurnSpec => []RecordedAsTold
<1>1. TurnInv => RecordedAsTold
  <2> SUFFICES ASSUME TurnInv, NEW t \in Turn PROVE AnswersAsTold(t) /\ RecordedWhole(t)
    BY DEF RecordedAsTold
  <2>1. TurnKept(t) /\ \A i \in DOMAIN messages : MessageKept(i)
    BY InvParts
  <2>2. AnswersAsTold(t)
    BY <2>1 DEF AnswersAsTold, TurnKept, EntryTold, MessageKept, Unrecorded
  <2>3. RowsOf(t, "user") \cup RowsOf(t, "assistant") # {} => chatSession.stored
    BY <2>1 DEF RowsOf, MessageKept
  <2>4. StatsOf(t) = {i \in DOMAIN tokenStats : tokenStats[i].turn = t}
    BY DEF StatsOf
  <2>5. \A i \in StatsOf(t) : WellCounted(tokenStats[i].usage)
    BY <2>1 DEF TurnKept, CountsInTurn
  <2>6. turnPc[t] = "over" /\ turnRequest[t].session =>
          /\ RowsOf(t, "assistant") # {}
          /\ approvals[t] = entry[t].approvals
          /\ {tokenStats[i].usage : i \in StatsOf(t)} = {entry[t].usage[k] : k \in DOMAIN entry[t].usage}
    BY <2>1 DEF TurnKept, MessagesInTurn, CountsInTurn, UsageStored
  <2>7. turnPc[t] = "lost" /\ recordFaults = 0 =>
          RowsOf(t, "user") \cup RowsOf(t, "assistant") = {} /\ chatSession.stored
    BY <2>1 DEF TurnKept, LostWhole
  <2>8. /\ \A q \in RowsOf(t, "user"), a \in RowsOf(t, "assistant") : q < a
        /\ \A a, b \in RowsOf(t, "assistant") : a = b
        /\ RowsOf(t, "assistant") # {} /\ turnRequest[t].prompt => RowsOf(t, "user") # {}
        /\ approvals[t] > 0 \/ StatsOf(t) # {} => RowsOf(t, "assistant") # {}
    BY <2>1 DEF TurnKept, MessagesInTurn
  <2>9. RecordedWhole(t)
    BY <2>3, <2>4, <2>5, <2>6, <2>7, <2>8, Zenon DEF RecordedWhole, WellCounted
  <2> QED  BY <2>2, <2>9
<1> QED  BY <1>1, TurnInvariant, PTL
===============================================================================
