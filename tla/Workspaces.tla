------------------------------ MODULE Workspaces -------------------------------
(***************************************************************************)
(* Workspace files: changes are made into a patch, and a patch is applied  *)
(* (workspace.Handler: Import, BuildPatch, ApplyPatch).                    *)
(*                                                                         *)
(* A text is a sequence of symbols, of which one, NL, ends a line.  A      *)
(* change names its file by a path, of which two may mean one file; it     *)
(* names what it replaces by line numbers, or by a text and its            *)
(* occurrence.  git is external: a diff is a pair of texts, and it applies *)
(* to the text it was made from (the files of an instance are shorter than *)
(* the context of a hunk).                                                 *)
(*                                                                         *)
(* A step is a request, but for ApplyPatch, which runs git twice.          *)
(***************************************************************************)
EXTENDS Naturals, Sequences, SequencesExt, FiniteSetsExt

CONSTANTS
  File, Path, Symbol,
  FileOf(_),      \* the file a path means (safePath), or NoFile
  NL, NoFile,
  Texts,          \* what an editor may save
  ChangeLists,    \* the requests BuildPatch may get
  MaxEdits        \* bound: files saved and patches built

(* A change goes by lines if it has a first one; without a last one it is  *)
(* about that line.  Otherwise it goes by what it finds.                   *)
Change == [path : Path, start : Nat, end : Nat, find : Seq(Symbol), occurrence : Nat,
           replace : Seq(Symbol)]

ASSUME WorkAssumption ==
  /\ NoFile \notin File /\ \A p \in Path : FileOf(p) \in File \cup {NoFile}
  /\ NL \in Symbol /\ Texts \subseteq Seq(Symbol)
  /\ ChangeLists \subseteq Seq(Change)

VARIABLES
  imported,   \* is the workspace in the handler's map
  disk,       \* the files
  built,      \* the last answer of BuildPatch, and what it was asked
  applying,   \* the patch ApplyPatch has checked and not yet applied
  edits       \* what the bound counts

workVars == <<imported, disk, built, applying, edits>>

Nothing == [asked |-> <<>>, from |-> <<>>, patch |-> <<>>]

WorkTypeOK ==
  /\ imported \in BOOLEAN
  /\ disk \in [File -> Seq(Symbol)]
  /\ built = Nothing \/ /\ built.asked \in ChangeLists
                        /\ {built.from, built.patch} \subseteq [File -> Seq(Symbol)]
  /\ applying = Nothing \/ {applying.from, applying.patch} \subseteq [File -> Seq(Symbol)]
  /\ edits \in Nat

WorkInit ==
  /\ imported = FALSE
  /\ disk \in [File -> Texts]
  /\ built = Nothing /\ applying = Nothing
  /\ edits = 0

-------------------------------------------------------------------------------
(* The order of the changes: a stable insertion sort, in which a change    *)
(* goes before the ones it is compared with as long as it is "less".       *)

(* Faulty variant: the lines of a file go up.                              *)
LineLessUp(c, d) ==
  c.path = d.path /\ c.start > 0 /\ d.start > 0 /\ c.start < d.start

LineLess(c, d) ==
  c.path = d.path /\ c.start > 0 /\ d.start > 0 /\ c.start > d.start

Insert(sorted, c) ==
  LET place == Max({0} \cup {p \in DOMAIN sorted : ~LineLess(c, sorted[p])})
  IN  SubSeq(sorted, 1, place) \o <<c>> \o SubSeq(sorted, place + 1, Len(sorted))

Ordered(changes) == FoldLeft(Insert, <<>>, changes)

-------------------------------------------------------------------------------
(* Texts and their lines.                                                  *)
Ends(text) == text # <<>> /\ Last(text) = NL

Closed(text) == IF Ends(text) THEN text ELSE Append(text, NL)

(* Where each line of a text starts.                                       *)
LineStarts(text) ==
  LET starts[i \in 0 .. Len(text)] ==
        IF i = 0 THEN <<1>>
        ELSE IF text[i] = NL /\ i < Len(text) THEN Append(starts[i - 1], i + 1) ELSE starts[i - 1]
  IN  starts[Len(text)]

Refused == [refused |-> TRUE, text |-> <<>>]
Text(text) == [refused |-> FALSE, text |-> text]

(* replaceLineRange                                                        *)
ReplaceLineRange(text, first, last, replacement) ==
  LET starts == LineStarts(text)
      from == starts[first]
      to == IF last < Len(starts) THEN starts[last + 1] ELSE Len(text) + 1
  IN  IF first = 0 \/ last < first \/ text = <<>> THEN Refused
      ELSE IF first = Len(starts) + 1
      THEN Text(IF replacement = <<>> THEN text
                ELSE IF Ends(text) THEN text \o Closed(replacement)
                ELSE text \o <<NL>> \o replacement)
      ELSE IF last > Len(starts) THEN Refused
      ELSE Text(SubSeq(text, 1, from - 1)
                \o (IF replacement # <<>> /\ (to <= Len(text) \/ Ends(text))
                    THEN Closed(replacement) ELSE replacement)
                \o SubSeq(text, to, Len(text)))

(* Where a text is found: from the left, without overlaps.                 *)
Matches(text, find) ==
  LET At(p) == p + Len(find) <= Len(text) + 1 /\ SubSeq(text, p, p + Len(find) - 1) = find
      found[p \in 0 .. Len(text)] ==
        IF p = 0 THEN <<>>
        ELSE LET before == found[p - 1]
                 offset == IF before = <<>> THEN 1 ELSE Last(before) + Len(find)
             IN  IF offset <= p /\ At(p) THEN Append(before, p) ELSE before
  IN  found[Len(text)]

(* replaceOccurrence; 0 asks for the only one.                             *)
ReplaceOccurrence(text, find, replacement, occurrence) ==
  LET places == Matches(text, find)
      at == places[IF occurrence = 0 THEN 1 ELSE occurrence]
  IN  IF places = <<>> \/ (occurrence = 0 /\ Len(places) > 1) \/ occurrence > Len(places)
      THEN Refused
      ELSE Text(SubSeq(text, 1, at - 1) \o replacement \o SubSeq(text, at + Len(find), Len(text)))

-------------------------------------------------------------------------------
(* buildWorkspacePatch.                                                    *)
Changed(text, c) ==
  IF c.start > 0
  THEN ReplaceLineRange(text, c.start, IF c.end = 0 THEN c.start ELSE c.end, c.replace)
  ELSE IF c.find = <<>> THEN Refused
  ELSE ReplaceOccurrence(text, c.find, c.replace, c.occurrence)

(* The files after one more change; nothing is left once one is refused.   *)
Apply(files, c) ==
  IF files.refused \/ FileOf(c.path) = NoFile THEN [files EXCEPT !.refused = TRUE]
  ELSE LET next == Changed(files.texts[FileOf(c.path)], c)
       IN  [refused |-> next.refused, texts |-> [files.texts EXCEPT ![FileOf(c.path)] = next.text]]

Patched(texts, changes) == FoldLeft(Apply, [refused |-> FALSE, texts |-> texts], Ordered(changes))

Import ==
  /\ imported' = TRUE
  /\ UNCHANGED <<disk, built, applying, edits>>

(* A patch of nothing is refused as well.                                  *)
BuildPatch(changes) ==
  LET after == Patched(disk, changes) IN
  /\ imported /\ ~after.refused /\ after.texts # disk
  /\ built' = [asked |-> changes, from |-> disk, patch |-> after.texts]
  /\ edits < MaxEdits /\ edits' = edits + 1
  /\ UNCHANGED <<imported, disk, applying>>

(* git apply: the files a patch is about are as it knows them.             *)
Applies(p) == \A f \in File : p.from[f] # p.patch[f] => disk[f] = p.from[f]

(* ApplyPatch tries the patch, and then, unless that was all, applies it.  *)
CheckPatch(dryRun) ==
  /\ imported /\ built # Nothing /\ applying = Nothing
  /\ Applies(built)
  /\ applying' = IF dryRun THEN Nothing ELSE built
  /\ UNCHANGED <<imported, disk, built, edits>>

ApplyPatch ==
  /\ applying # Nothing
  /\ disk' = IF Applies(applying)
             THEN [f \in File |-> IF applying.from[f] # applying.patch[f] THEN applying.patch[f] ELSE disk[f]]
             ELSE disk
  /\ applying' = Nothing
  /\ UNCHANGED <<imported, built, edits>>

(* An editor saves a file; the service restarts and forgets its workspaces.*)
EditFile(f, text) ==
  /\ edits < MaxEdits
  /\ edits' = edits + 1
  /\ disk' = [disk EXCEPT ![f] = text]
  /\ UNCHANGED <<imported, built, applying>>

RestartWorkspaces ==
  /\ imported
  /\ imported' = FALSE
  /\ applying' = Nothing
  /\ UNCHANGED <<disk, built, edits>>

WorkNext ==
  \/ Import \/ ApplyPatch \/ RestartWorkspaces
  \/ \E changes \in ChangeLists : BuildPatch(changes)
  \/ \E dryRun \in BOOLEAN : CheckPatch(dryRun)
  \/ \E f \in File, text \in Texts : EditFile(f, text)

WorkSpec == WorkInit /\ [][WorkNext]_workVars

-------------------------------------------------------------------------------
(* Properties.                                                             *)

(* Line numbers mean the lines the file had when the patch was asked for:  *)
(* where all changes of a request go by lines, each line once, the changes *)
(* of a file stand together and spell it in one way, every one of them     *)
(* replaces the lines it names, whatever the others add and remove (the    *)
(* order buildWorkspacePatch sorts its changes in, and replaceLineRange).  *)
LineSeq(text) ==
  IF text = <<>> THEN <<>>
  ELSE LET starts == LineStarts(text)
           end(i) == IF i < Len(starts) THEN starts[i + 1] - 2
                     ELSE IF Ends(text) THEN Len(text) - 1 ELSE Len(text)
       IN  [i \in DOMAIN starts |-> SubSeq(text, starts[i], end(i))]

LastLine(c) == IF c.end = 0 THEN c.start ELSE c.end

ByLines(changes) ==
  /\ \A i \in DOMAIN changes : changes[i].start > 0
  /\ \A i, j \in DOMAIN changes :
       (i < j /\ FileOf(changes[i].path) = FileOf(changes[j].path)) =>
         /\ \A k \in i .. j : changes[k].path = changes[i].path
         /\ LastLine(changes[i]) < changes[j].start \/ LastLine(changes[j]) < changes[i].start

(* The lines of a file, each replaced, left out or kept.                   *)
AsNumbered(f, changes, text) ==
  LET lines == LineSeq(text)
      Here(i) == {k \in DOMAIN changes : FileOf(changes[k].path) = f /\ changes[k].start = i}
      Inside(i) == \E k \in DOMAIN changes :
                     FileOf(changes[k].path) = f /\ changes[k].start < i /\ i <= LastLine(changes[k])
  IN  FlattenSeq([i \in 1 .. Len(lines) + 1 |->
        IF Here(i) # {} THEN LineSeq(changes[CHOOSE k \in Here(i) : TRUE].replace)
        ELSE IF Inside(i) \/ i > Len(lines) THEN <<>> ELSE <<lines[i]>>])

LinesAsNumbered ==
  (built # Nothing /\ ByLines(built.asked)) =>
    \A f \in File : LineSeq(built.patch[f]) = AsNumbered(f, built.asked, built.from[f])
===============================================================================
