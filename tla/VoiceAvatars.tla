------------------------------ MODULE VoiceAvatars ------------------------------
(***************************************************************************)
(* The voice avatars of the users: files in one directory, and an index    *)
(* per user, a JSON file that is written anew by every change              *)
(* (voiceavatar.Handler: Upload, List, Delete).                            *)
(*                                                                         *)
(* An upload is its owner's record in the index and its file.  Writing a   *)
(* file empties it first, and what is empty or half written reads as no    *)
(* records.  Any step on a file may fail, and the process may end at any   *)
(* of them.  The handler's mutex is held from the reading of the index to  *)
(* the end of a call; a restart in place makes a new handler with a mutex  *)
(* of its own, and waits for the calls of the old one only so long.        *)
(***************************************************************************)
EXTENDS Naturals, Sequences, SequencesExt, FiniteSets

CONSTANTS
  Speaker,          \* users
  Portrait,         \* what is uploaded; each gets an id and a file name once
  PortraitForm(_),  \* what a file is: [sniffed, declared, size, sound]
  MaxImage, MaxVideo, MaxAvatars,
  Caller,
  MaxHandlers, MaxFileFaults   \* bounds of the checked instance

VARIABLES
  voiceIndex,    \* the index of each user: its records, or Spoilt
  voiceMedia,    \* the files there are
  unsent,        \* what has not been uploaded yet
  voiceCall,     \* the calls under way
  voiceHandler,  \* the handler that takes new calls
  fileFaults,    \* what the bound counts
  promised,      \* ghost: what each user's calls have been told to be kept
  hurt,          \* ghost: the users of whom a call has failed or been ended
  doubled        \* ghost: has an old handler had calls beside a new one

voiceVars == <<voiceIndex, voiceMedia, unsent, voiceCall, voiceHandler, fileFaults,
               promised, hurt, doubled>>

Spoilt == <<"spoilt">>

AtRest == [pc |-> "rest"]

VoiceCall ==
  [pc : {"media", "index", "emptied", "remove"}, kind : {"upload", "delete"}, of : Speaker,
   portrait : Portrait, handler : 1 .. MaxHandlers, list : Seq(Portrait)]

ASSUME VoiceAssumption ==
  /\ "spoilt" \notin Portrait
  /\ MaxAvatars \in Nat /\ MaxHandlers \in Nat \ {0} /\ MaxFileFaults \in Nat

VoiceTypeOK ==
  /\ voiceIndex \in [Speaker -> Seq(Portrait) \cup {Spoilt}]
  /\ voiceMedia \subseteq Portrait /\ unsent \subseteq Portrait
  /\ voiceCall \in [Caller -> VoiceCall \cup {AtRest}]
  /\ voiceHandler \in 1 .. MaxHandlers /\ fileFaults \in 0 .. MaxFileFaults
  /\ promised \in [Speaker -> SUBSET Portrait] /\ hurt \subseteq Speaker /\ doubled \in BOOLEAN

VoiceInit ==
  /\ voiceIndex = [u \in Speaker |-> <<>>] /\ voiceMedia = {} /\ unsent = Portrait
  /\ voiceCall = [c \in Caller |-> AtRest]
  /\ voiceHandler = 1 /\ fileFaults = 0
  /\ promised = [u \in Speaker |-> {}] /\ hurt = {} /\ doubled = FALSE

-------------------------------------------------------------------------------
(* readIndex *)
Records(u) == IF voiceIndex[u] = Spoilt THEN <<>> ELSE voiceIndex[u]

(* resolveType: what a file is by its first bytes; a video may be declared *)
KindOf(form) ==
  IF form.sniffed # "unknown" THEN form.sniffed
  ELSE IF form.declared = "video" THEN "video" ELSE "unknown"

(* What Upload looks at before it takes the lock.                          *)
Accepted(p) ==
  LET form == PortraitForm(p) IN
  /\ form.size > 0
  /\ \/ KindOf(form) = "video" /\ form.size <= MaxVideo
     \/ KindOf(form) = "image" /\ form.size <= MaxImage /\ form.sound

(* Faulty variant: nobody locks.                                           *)
UnlockedAlways(handler) == TRUE

(* The mutex of the handler.                                               *)
Unlocked(handler) == \A c \in Caller : voiceCall[c] # AtRest => voiceCall[c].handler # handler

Rest(c) == voiceCall' = [voiceCall EXCEPT ![c] = AtRest]
Goes(c, pc) == voiceCall' = [voiceCall EXCEPT ![c].pc = pc]

(* A step of a call fails, or not.                                         *)
FileWorks == UNCHANGED <<fileFaults, hurt>>
FileFails(c) ==
  /\ fileFaults < MaxFileFaults /\ fileFaults' = fileFaults + 1
  /\ hurt' = hurt \cup {voiceCall[c].of}

BeginUpload(c, u, p) ==
  /\ voiceCall[c] = AtRest /\ p \in unsent /\ Accepted(p)
  /\ Unlocked(voiceHandler)
  /\ Len(Records(u)) < MaxAvatars
  /\ voiceCall' = [voiceCall EXCEPT ![c] =
       [pc |-> "media", kind |-> "upload", of |-> u, portrait |-> p, handler |-> voiceHandler,
        list |-> Append(Records(u), p)]]
  /\ unsent' = unsent \ {p}
  /\ UNCHANGED <<voiceIndex, voiceMedia, voiceHandler, fileFaults, promised, hurt, doubled>>

(* A part of the file may be there when its writing has failed.            *)
WriteMedia(c) ==
  LET p == voiceCall[c].portrait IN
  /\ voiceCall[c].pc = "media"
  /\ \/ FileWorks /\ Goes(c, "index") /\ voiceMedia' = voiceMedia \cup {p}
     \/ FileFails(c) /\ Rest(c) /\ voiceMedia' \in {voiceMedia, voiceMedia \cup {p}}
  /\ UNCHANGED <<voiceIndex, unsent, voiceHandler, promised, doubled>>

(* An id is of one record, having been made for its upload.                *)
BeginDelete(c, u, i) ==
  /\ voiceCall[c] = AtRest /\ Unlocked(voiceHandler)
  /\ voiceCall' = [voiceCall EXCEPT ![c] =
       [pc |-> "index", kind |-> "delete", of |-> u, portrait |-> Records(u)[i], handler |-> voiceHandler,
        list |-> RemoveAt(Records(u), i)]]
  /\ UNCHANGED <<voiceIndex, voiceMedia, unsent, voiceHandler, fileFaults, promised, hurt, doubled>>

(* An upload whose record is not written takes its file back, and a delete *)
(* keeps its file.                                                         *)
GivesUp(c) ==
  /\ FileFails(c) /\ Rest(c)
  /\ voiceMedia' = IF voiceCall[c].kind = "upload" THEN voiceMedia \ {voiceCall[c].portrait} ELSE voiceMedia

(* writeIndex: the file is opened, which empties it, and then written.     *)
EmptyIndex(c) ==
  /\ voiceCall[c].pc = "index"
  /\ \/ /\ FileWorks /\ Goes(c, "emptied") /\ UNCHANGED voiceMedia
        /\ voiceIndex' = [voiceIndex EXCEPT ![voiceCall[c].of] = Spoilt]
     \/ GivesUp(c) /\ UNCHANGED voiceIndex
  /\ UNCHANGED <<unsent, voiceHandler, promised, doubled>>

WriteIndex(c) ==
  LET call == voiceCall[c] IN
  /\ call.pc = "emptied"
  /\ \/ /\ FileWorks /\ UNCHANGED voiceMedia
        /\ voiceIndex' = [voiceIndex EXCEPT ![call.of] = call.list]
        /\ IF call.kind = "upload"
           THEN Rest(c) /\ promised' = [promised EXCEPT ![call.of] = @ \cup {call.portrait}]
           ELSE Goes(c, "remove") /\ promised' = [promised EXCEPT ![call.of] = @ \ {call.portrait}]
     \/ GivesUp(c) /\ UNCHANGED <<voiceIndex, promised>>
  /\ UNCHANGED <<unsent, voiceHandler, doubled>>

(* Whether a file could be removed is not looked at.                       *)
RemoveMedia(c) ==
  /\ voiceCall[c].pc = "remove"
  /\ Rest(c)
  /\ \/ FileWorks /\ voiceMedia' = voiceMedia \ {voiceCall[c].portrait}
     \/ FileFails(c) /\ UNCHANGED voiceMedia
  /\ UNCHANGED <<voiceIndex, unsent, voiceHandler, promised, doubled>>

-------------------------------------------------------------------------------
(* The process ends, and another is started.                               *)
CrashVoice ==
  /\ fileFaults < MaxFileFaults /\ fileFaults' = fileFaults + 1
  /\ hurt' = hurt \cup {voiceCall[c].of : c \in {d \in Caller : voiceCall[d] # AtRest}}
  /\ voiceCall' = [c \in Caller |-> AtRest]
  /\ UNCHANGED <<voiceIndex, voiceMedia, unsent, voiceHandler, promised, doubled>>

(* NewHandler, on a restart in place.                                      *)
NewHandler ==
  /\ voiceHandler < MaxHandlers /\ voiceHandler' = voiceHandler + 1
  /\ doubled' = (doubled \/ \E c \in Caller : voiceCall[c] # AtRest)
  /\ UNCHANGED <<voiceIndex, voiceMedia, unsent, voiceCall, fileFaults, promised, hurt>>

VoiceNext ==
  \/ CrashVoice \/ NewHandler
  \/ \E c \in Caller :
       \/ WriteMedia(c) \/ EmptyIndex(c) \/ WriteIndex(c) \/ RemoveMedia(c)
       \/ \E u \in Speaker :
            \/ \E p \in Portrait : BeginUpload(c, u, p)
            \/ \E i \in DOMAIN Records(u) : BeginDelete(c, u, i)

VoiceSpec == VoiceInit /\ [][VoiceNext]_voiceVars

-------------------------------------------------------------------------------
(* Where no old handler has gone on beside a new one: an avatar that List  *)
(* shows has its file, whatever has failed or been cut off; one user's     *)
(* failures cost no other user anything, so that what was promised to the  *)
(* others is listed; and where nothing has failed, no file is left behind  *)
(* (the order of the writes of Upload and Delete, and the mutex).          *)
AvatarsListed ==
  ~doubled =>
    /\ \A u \in Speaker :
         /\ Range(Records(u)) \subseteq voiceMedia
         /\ IsInjective(Records(u)) /\ Len(Records(u)) <= MaxAvatars
         /\ (u \notin hurt /\ \A c \in Caller : voiceCall[c] # AtRest => voiceCall[c].of # u) =>
              Range(Records(u)) = promised[u]
    /\ (hurt = {} /\ \A c \in Caller : voiceCall[c] = AtRest) =>
         voiceMedia = UNION {promised[u] : u \in Speaker}
===============================================================================
