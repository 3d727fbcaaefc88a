--------------------------------- MODULE Skills --------------------------------
(***************************************************************************)
(* Skills (SysSkillService): rows of the database, and the directories     *)
(* uploaded packages are unpacked into.                                    *)
(*                                                                         *)
(* A package is unpacked file by file over what its directory holds, then  *)
(* named by the SKILL.md found there, then looked for, then given a row.   *)
(* A file is known by the package it is of, unless it is only part of one  *)
(* or a mixture; a name and type by the package that says them.  A process *)
(* that dies in a call leaves what the call leaves that never goes on.     *)
(* Descriptions, versions, paths' characters and whether a skill is        *)
(* enabled are left out.                                                   *)
(***************************************************************************)
EXTENDS Naturals, Sequences, FiniteSets

CONSTANTS
  Package, Contents(_),          \* packages: directory, entries, what their SKILL.md says
  Uploader, MaxUploads,          \* the calls under way at a time; bound: their number
  MaxSkills, MaxSkillFaults,     \* bounds: rows; writes and statements that fail
  NoSkill,                       \* no row, no file, no call
  Torn                           \* what a file holds that is of no package

VARIABLES
  skill,        \* table sys_skill, in the order of its keys
  unpacked,     \* the directories: file by file, the package it is of
  uploader,     \* the calls under way
  uploads, skillFaults,  \* what the bounds count
  unsure,       \* ghost: names that may have been given twice
  atRisk          \* ghost: files two uploads had open at once, or whose copy failed, the last time

skillVars == <<skill, unpacked, uploader, uploads, skillFaults, unsure, atRisk>>

Directory == {Contents(p).dir : p \in Package}
SkillFile == {"SKILL.md", "script"}

(* What names a row: the SKILL.md of a package; without one, the directory.*)
SkillName == {Contents(p).says : p \in Package} \cup Directory

SkillRow == [state : {"live", "deleted"}, name : SkillName, system : BOOLEAN, from : Package \cup {NoSkill}]
Archive == Seq(SkillFile \cup {"outside"})
Upload ==
  [pc : {"extract", "copy", "check", "insert"}, of : Package, left : Archive, row : Nat,
   name : SkillName \cup {NoSkill}, crossed : BOOLEAN, shared : BOOLEAN]
Deletion == [pc : {"delete"}, row : Nat, crossed : BOOLEAN]

ASSUME SkillAssumption ==
  /\ \A p \in Package : Contents(p).entries \in Archive
  /\ Torn \notin Package \cup {NoSkill}
  /\ NoSkill \notin Package /\ NoSkill \notin Upload /\ NoSkill \notin Deletion
  /\ MaxSkills \in Nat /\ MaxUploads \in Nat /\ MaxSkillFaults \in Nat

SkillTypeOK ==
  /\ skill \in Seq(SkillRow)
  /\ Len(skill) <= MaxSkills
  /\ unpacked \in [Directory -> [SkillFile -> Package \cup {NoSkill, Torn}]]
  /\ uploader \in [Uploader -> Upload \cup Deletion \cup {NoSkill}]
  /\ uploads \in 0..MaxUploads /\ skillFaults \in 0..MaxSkillFaults
  /\ unsure \subseteq SkillName /\ atRisk \subseteq Directory \X SkillFile

SkillInit ==
  /\ skill = <<>>
  /\ unpacked = [d \in Directory |-> [f \in SkillFile |-> NoSkill]]
  /\ uploader = [u \in Uploader |-> NoSkill]
  /\ uploads = 0 /\ skillFaults = 0 /\ unsure = {} /\ atRisk = {}

-------------------------------------------------------------------------------
Opens(u, fields) ==
  /\ uploader[u] = NoSkill
  /\ uploads < MaxUploads /\ uploads' = uploads + 1
  /\ uploader' = [uploader EXCEPT ![u] = fields]

Now(u, pc) == uploader[u] # NoSkill /\ uploader[u].pc = pc
Closes(u) == uploader' = [uploader EXCEPT ![u] = NoSkill]
SkillFault == skillFaults < MaxSkillFaults /\ skillFaults' = skillFaults + 1

Rows(name) == {i \in DOMAIN skill : skill[i].name = name}

(* An archive is opened and its directory made.                            *)
UploadSysSkill(u, p) ==
  /\ Opens(u, [pc |-> "extract", of |-> p, left |-> Contents(p).entries, row |-> 0,
               name |-> NoSkill, crossed |-> FALSE, shared |-> FALSE])
  /\ UNCHANGED <<skill, unpacked, skillFaults, unsure, atRisk>>

(* One entry over what is there.  The file is emptied as it is opened, by  *)
(* every upload that has it open, and an entry that leads out, or a file   *)
(* that cannot be opened, ends the call and leaves the entries before it.  *)
Copying(u, d, f) ==
  Now(u, "copy") /\ Contents(uploader[u].of).dir = d /\ Head(uploader[u].left) = f
Unpacking(u, d) == (Now(u, "extract") \/ Now(u, "copy")) /\ Contents(uploader[u].of).dir = d

OpenSkillFile(u) ==
  LET d == Contents(uploader[u].of).dir
      f == Head(uploader[u].left)
      met == \E w \in Uploader : Copying(w, d, f)
  IN  /\ Now(u, "extract") /\ uploader[u].left # <<>>
      /\ \/ /\ f # "outside"
            /\ unpacked' = [unpacked EXCEPT ![d][f] = Torn]
            /\ uploader' = [w \in Uploader |->
                 IF w = u THEN [uploader[u] EXCEPT !.pc = "copy", !.crossed = @ \/ met, !.shared = met]
                 ELSE IF Unpacking(w, d)
                      THEN [uploader[w] EXCEPT !.crossed = TRUE, !.shared = @ \/ Copying(w, d, f)]
                      ELSE uploader[w]]
            /\ atRisk' = IF met THEN atRisk \cup {<<d, f>>} ELSE atRisk \ {<<d, f>>}
            /\ UNCHANGED skillFaults
         \/ f = "outside" /\ Closes(u) /\ UNCHANGED <<unpacked, skillFaults, atRisk>>
         \/ f # "outside" /\ SkillFault /\ Closes(u) /\ UNCHANGED <<unpacked, atRisk>>
      /\ UNCHANGED <<skill, uploads, unsure>>

(* The copy, each upload at a place of its own in the file: what they have *)
(* open at once is of the last of them, of another or of none.  A copy     *)
(* that fails ends the call and leaves the part it has written.            *)
CopySkillFile(u) ==
  LET p == uploader[u].of
      d == Contents(p).dir
      f == Head(uploader[u].left)
      mixed == IF uploader[u].shared THEN {Torn, unpacked[d][f]} ELSE {}
  IN  /\ Now(u, "copy")
      /\ \/ /\ \E file \in {p} \cup mixed : unpacked' = [unpacked EXCEPT ![d][f] = file]
            /\ uploader' = [uploader EXCEPT ![u].pc = "extract", ![u].left = Tail(@), ![u].shared = FALSE]
            /\ UNCHANGED <<skillFaults, atRisk>>
         \/ /\ SkillFault /\ Closes(u)
            /\ \E file \in {Torn} \cup mixed : unpacked' = [unpacked EXCEPT ![d][f] = file]
            /\ atRisk' = atRisk \cup {<<d, f>>}
      /\ UNCHANGED <<skill, uploads, unsure>>

(* The directory's SKILL.md, whosever it is; a torn one may say anything.  *)
NamesIn(d) ==
  LET p == unpacked[d]["SKILL.md"] IN
  CASE p = Torn -> SkillName [] p = NoSkill -> {d} [] OTHER -> {Contents(p).says}

(* Faulty variant: an archive is named before it is unpacked whole.        *)
ParseFirst(u) ==
  /\ Now(u, "extract")
  /\ \E name \in NamesIn(Contents(uploader[u].of).dir) :
       uploader' = [uploader EXCEPT ![u].pc = "check", ![u].name = name, ![u].left = <<>>]
  /\ UNCHANGED <<skill, unpacked, uploads, skillFaults, unsure, atRisk>>

(* One that cannot be read is as none, which nobody is told of.            *)
ParseSkillMd(u) ==
  LET d == Contents(uploader[u].of).dir IN
  /\ Now(u, "extract") /\ uploader[u].left = <<>>
  /\ \/ /\ \E name \in NamesIn(d) : uploader' = [uploader EXCEPT ![u].pc = "check", ![u].name = name]
        /\ UNCHANGED skillFaults
     \/ /\ SkillFault
        /\ uploader' = [uploader EXCEPT ![u].pc = "check", ![u].name = d, ![u].crossed = TRUE]
  /\ UNCHANGED <<skill, unpacked, uploads, unsure, atRisk>>

(* The first row of the name, deleted or not, says whether it is taken.    *)
Taken(name) ==
  Rows(name) # {} /\ skill[CHOOSE i \in Rows(name) : \A j \in Rows(name) : i <= j].state = "live"

Checking(name) == \E w \in Uploader : uploader[w] # NoSkill /\ Now(w, "insert") /\ uploader[w].name = name

CheckSkill(u) ==
  LET name == uploader[u].name IN
  /\ Now(u, "check")
  /\ IF Taken(name) THEN Closes(u) /\ UNCHANGED unsure
     ELSE /\ uploader' = [uploader EXCEPT ![u].pc = "insert"]
          /\ unsure' = IF Checking(name) \/ Rows(name) # {} THEN unsure \cup {name} ELSE unsure
  /\ UNCHANGED <<skill, unpacked, uploads, skillFaults, atRisk>>

NewSkill(name, system, from) ==
  Append(skill, [state |-> "live", name |-> name, system |-> system, from |-> from])

(* The row says the ghost's package when no other was unpacked meanwhile   *)
(* and its SKILL.md, if any, was read.                                     *)
InsertSkill(u) ==
  /\ Now(u, "insert")
  /\ \/ /\ Len(skill) < MaxSkills
        /\ skill' = NewSkill(uploader[u].name, FALSE, IF uploader[u].crossed THEN NoSkill ELSE uploader[u].of)
        /\ UNCHANGED skillFaults
     \/ SkillFault /\ UNCHANGED skill
  /\ Closes(u)
  /\ UNCHANGED <<unpacked, uploads, unsure, atRisk>>

-------------------------------------------------------------------------------
(* A row may be created, or changed whatever its state, without a look.    *)
CreateSysSkill(name, system) ==
  /\ uploads < MaxUploads /\ uploads' = uploads + 1
  /\ Len(skill) < MaxSkills
  /\ skill' = NewSkill(name, system, NoSkill)
  /\ unsure' = unsure \cup {name}
  /\ UNCHANGED <<unpacked, uploader, skillFaults, atRisk>>

UpdateSysSkill(i, name) ==
  /\ uploads < MaxUploads /\ uploads' = uploads + 1
  /\ skill' = [skill EXCEPT ![i].name = name, ![i].from = NoSkill]
  /\ unsure' = unsure \cup {name}
  /\ UNCHANGED <<unpacked, uploader, skillFaults, atRisk>>

(* Delete reads the row, and then marks it; the directory stays.           *)
DeleteSysSkill(u, i) ==
  /\ skill[i].state = "live" /\ ~skill[i].system
  /\ Opens(u, [pc |-> "delete", row |-> i, crossed |-> FALSE])
  /\ UNCHANGED <<skill, unpacked, skillFaults, unsure, atRisk>>

DeleteSkillRow(u) ==
  /\ Now(u, "delete")
  /\ \/ skill' = [skill EXCEPT ![uploader[u].row].state = "deleted"] /\ UNCHANGED skillFaults
     \/ SkillFault /\ UNCHANGED skill
  /\ Closes(u)
  /\ UNCHANGED <<unpacked, uploads, unsure, atRisk>>

SkillNext ==
  \/ \E u \in Uploader :
       \/ \E p \in Package : UploadSysSkill(u, p)
       \/ OpenSkillFile(u) \/ CopySkillFile(u) \/ ParseSkillMd(u)
       \/ CheckSkill(u) \/ InsertSkill(u) \/ DeleteSkillRow(u)
       \/ \E i \in DOMAIN skill : DeleteSysSkill(u, i)
  \/ \E name \in SkillName, system \in BOOLEAN : CreateSysSkill(name, system)
  \/ \E i \in DOMAIN skill, name \in SkillName : UpdateSysSkill(i, name)

SkillSpec == SkillInit /\ [][SkillNext]_skillVars

-------------------------------------------------------------------------------
(* Properties.                                                             *)

(* Skills are kept apart.  A name and type is of one live skill, unless    *)
(* two uploads of it were between their look and their row at once, the    *)
(* first row of the name had been deleted, or the name was given without a *)
(* look.  A package that says its name is given a row of that name, and    *)
(* none of its files is missing, unless another was unpacked into its      *)
(* directory at the same time or its SKILL.md could not be read.  And a    *)
(* file is whole, its package's or a later one's, unless it is being       *)
(* copied, its last copy failed or two uploads had it open at once         *)
(* (UploadSysSkill, the order of extractSkillZip, extractFile,             *)
(* FindByNameAndType and Create).                                          *)
SkillsApart ==
  /\ \A name \in SkillName \ unsure : Cardinality({i \in Rows(name) : skill[i].state = "live"}) <= 1
  /\ \A i \in DOMAIN skill : LET p == skill[i].from IN
       p # NoSkill =>
         LET files == {Contents(p).entries[k] : k \in DOMAIN Contents(p).entries} IN
         /\ "SKILL.md" \in files => skill[i].name = Contents(p).says
         /\ \A f \in files : unpacked[Contents(p).dir][f] # NoSkill
  /\ \A d \in Directory, f \in SkillFile :
       unpacked[d][f] = Torn => <<d, f>> \in atRisk \/ \E u \in Uploader : Copying(u, d, f)
===============================================================================
