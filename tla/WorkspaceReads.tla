----------------------------- MODULE WorkspaceReads ------------------------------
(***************************************************************************)
(* What a client is shown of a workspace, and by which line numbers:       *)
(* workspace.Handler's Context, Search, Tree and ReadFile.  The numbers    *)
(* are those that it builds a patch with (Workspaces).                     *)
(*                                                                         *)
(* A symbol of a text is a word, and sizes are in symbols.  A query is a   *)
(* sequence of words, in lower case, and the files that it names.  Texts   *)
(* are searched in lower case as well, which may be longer or shorter.     *)
(*                                                                         *)
(* A step is the start of a request, or the reading of one file by it: an  *)
(* editor may save files while a request goes through them.                *)
(***************************************************************************)
EXTENDS Workspaces, FiniteSets

CONSTANTS
  PathOrder,        \* the files that are not in an ignored folder, by their paths
  TextLike,         \* those whose names end like a text's (isTextLike)
  PathWords(_),     \* the words in the path of a file
  Manifest,         \* package.json, go.mod, readme.md
  ShortWords,       \* words of one letter
  ToLower(_),       \* strings.ToLower: symbol by symbol, to any number of them
  Queries,          \* what Context may be asked: [words, names, limit]
  MaxReadLength,    \* maxReadBytes
  MaxExcerpt, MaxContext, MaxContextFiles,   \* maxContextFileBytes, maxContextBytes
  MaxScan, MaxSearchHits,                    \* bufio.MaxScanTokenSize
  Dirs,             \* the folder, and all those in it
  Within(_),        \* what a folder holds, by name
  Ignored,          \* the folders of ignoredDirs
  Dangling,         \* entries that cannot be read, such as links to nothing
  MaxTreeEntries

ASSUME ReadsAssumption ==
  /\ PathOrder \in Seq(File) /\ IsInjective(PathOrder)
  /\ \A query \in Queries : query.words \in Seq(Symbol) \ {<<>>}
  /\ \A text \in Texts : \A p \in 0 .. Len(text) :
       LET before == ToLower(SubSeq(text, 1, p))
           after == ToLower(SubSeq(text, p + 1, Len(text)))
       IN  {before, after} \subseteq Seq(Symbol) /\ ToLower(text) = before \o after
  /\ {MaxReadLength, MaxExcerpt, MaxContext, MaxContextFiles, MaxScan, MaxSearchHits, MaxTreeEntries} \subseteq Nat
  /\ IsFiniteSet(Dirs) /\ \A d \in Dirs : Within(d) \in Seq(Range(Within(d)))

VARIABLE reading    \* the request under way, or its answer

readsVars == <<workVars, reading>>

NoReading == [kind |-> "none", todo |-> <<>>]

ReadsInit == WorkInit /\ reading = NoReading

Complete(kind) == reading.kind = kind /\ reading.todo = <<>>

-------------------------------------------------------------------------------
(* queryTokens: the words of a query, or all of it where it has none.      *)
Tokens(words) ==
  LET long == {<<w>> : w \in Range(words) \ ShortWords}
  IN  IF long = {} THEN {words} ELSE long

Has(text, token) == Matches(text, token) # <<>>

(* contextScore                                                            *)
Score(f, text, tokens) ==
  8 * Cardinality({token \in tokens : Range(token) \subseteq PathWords(f)})
  + 2 * Cardinality({token \in tokens : Has(ToLower(text), token)})
  + (IF f \in Manifest THEN 1 ELSE 0)

NewlinesIn(text, from, to) == {p \in from .. to : text[p] = NL}

(* textLineCount                                                           *)
LineCount(text) ==
  Cardinality(NewlinesIn(text, 1, Len(text))) + (IF text = <<>> \/ Ends(text) THEN 0 ELSE 1)

(* contextExcerptWithLine.  The index of a match in the text in lower case *)
(* is taken for one in the text, and may be behind its end.                *)
FirstMatch(text, tokens) ==
  LET lower == ToLower(text)
      places == {Matches(lower, token)[1] : token \in {t \in tokens : Has(lower, t)}}
  IN  IF places = {} THEN 1 ELSE Min(places)

(* Where the window begins: a third of it before the match, unless the     *)
(* text ends first.                                                        *)
Window(text, tokens) ==
  Max({1, Min({FirstMatch(text, tokens) - (MaxExcerpt \div 3), Len(text) - MaxExcerpt + 1})})

(* What is shown begins with the first line that begins in the window, and *)
(* ends with the last one that ends there.                                 *)
Cut(text, begin) ==
  LET to == begin + MaxExcerpt - 1
      head == NewlinesIn(text, begin, to)
      from == IF begin > 1 /\ head # {} THEN Min(head) + 1 ELSE begin
      tail == NewlinesIn(text, from, to)
  IN  [begin |-> begin, from |-> from, last |-> IF to < Len(text) /\ tail # {} THEN Max(tail) ELSE to]

LineAt(text, p) == Cardinality(NewlinesIn(text, 1, p - 1)) + 1

(* Faulty variant: the lines are counted before the window is moved to the *)
(* start of one.                                                           *)
ExcerptCountedFirst(text, tokens) ==
  LET cut == Cut(text, Window(text, tokens))
  IN  IF Len(text) <= MaxExcerpt THEN [content |-> text, line |-> 1]
      ELSE [content |-> SubSeq(text, cut.from, cut.last), line |-> LineAt(text, cut.begin)]

Excerpt(text, tokens) ==
  LET cut == Cut(text, Window(text, tokens))
  IN  IF Len(text) <= MaxExcerpt THEN [content |-> text, line |-> 1]
      ELSE [content |-> SubSeq(text, cut.from, cut.last), line |-> LineAt(text, cut.from)]

-------------------------------------------------------------------------------
(* Context: every readable file that has a score is a candidate.           *)
Readable(f) == f \in TextLike /\ Len(disk[f]) <= MaxReadLength

BeginContext(query) ==
  /\ imported
  /\ reading' = [kind |-> "context", todo |-> PathOrder, query |-> query, tokens |-> Tokens(query.words),
                 found |-> <<>>, files |-> <<>>]
  /\ UNCHANGED workVars

Candidate(f) ==
  LET text == disk[f]
      excerpt == Excerpt(text, reading.tokens)
  IN  [file |-> f, content |-> excerpt.content, start |-> excerpt.line,
       score |-> Score(f, text, reading.tokens), lines |-> LineCount(text), of |-> text]

(* The candidates are sorted by their scores; they come by their paths.    *)
Ranked(sorted, e) ==
  LET place == Max({0} \cup {p \in DOMAIN sorted : sorted[p].score >= e.score})
  IN  SubSeq(sorted, 1, place) \o <<e>> \o SubSeq(sorted, place + 1, Len(sorted))

(* The files that a query names, if there are any (preferNamedContextFiles)*)
Preferred(found, query) ==
  LET named == {e \in Range(found) : e.file \in query.names}
  IN  IF named # {} THEN named ELSE Range(found)

LimitOf(query) == IF query.limit \in 1 .. MaxContextFiles THEN query.limit ELSE MaxContextFiles

Total(files) == FoldLeft(LAMBDA sum, e : sum + Len(e.content), 0, files)

(* One more file, as much of it as there is room for.                      *)
Add(files, e, limit) ==
  IF Len(files) >= limit \/ Total(files) >= MaxContext THEN files
  ELSE Append(files, [e EXCEPT !.content = SubSeq(@, 1, Min({Len(@), MaxContext - Total(files)}))])

Best(found, query) ==
  LET preferred == Preferred(found, query)
  IN  FoldLeft(LAMBDA files, e : IF e \in preferred THEN Add(files, e, LimitOf(query)) ELSE files,
               <<>>, FoldLeft(Ranked, <<>>, found))

ReadForContext ==
  /\ reading.kind = "context" /\ reading.todo # <<>>
  /\ LET f == Head(reading.todo)
         found == IF Readable(f) /\ Candidate(f).score > 0 THEN Append(reading.found, Candidate(f))
                  ELSE reading.found
         over == Tail(reading.todo) = <<>>
     IN  reading' = [reading EXCEPT !.todo = Tail(@), !.found = found,
                                    !.files = IF over THEN Best(found, reading.query) ELSE <<>>]
  /\ UNCHANGED workVars

-------------------------------------------------------------------------------
(* Search: the lines with the query in them.  A line that is too long for  *)
(* bufio.Scanner ends the search of its file.                              *)
BeginSearch(words) ==
  /\ imported
  /\ reading' = [kind |-> "search", todo |-> PathOrder, words |-> words, hits |-> <<>>, of |-> <<>>]
  /\ UNCHANGED workVars

(* scanFile                                                                *)
Scanned(text) ==
  LET lines == LineSeq(text)
      long == {i \in DOMAIN lines : Len(lines[i]) > MaxScan}
  IN  IF long = {} THEN lines ELSE SubSeq(lines, 1, Min(long) - 1)

ScanFile(hits, f, words) ==
  LET lines == Scanned(disk[f])
      more[i \in 0 .. Len(lines)] ==
        IF i = 0 THEN hits
        ELSE IF Len(more[i - 1]) < MaxSearchHits /\ Has(ToLower(lines[i]), words)
        THEN Append(more[i - 1], [file |-> f, line |-> i])
        ELSE more[i - 1]
  IN  more[Len(lines)]

ReadForSearch ==
  /\ reading.kind = "search" /\ reading.todo # <<>>
  /\ LET f == Head(reading.todo) IN
     reading' = [reading EXCEPT !.todo = Tail(@),
                                !.hits = IF Readable(f) THEN ScanFile(@, f, reading.words) ELSE @,
                                !.of = Append(@, IF Readable(f) THEN disk[f] ELSE <<>>)]
  /\ UNCHANGED workVars

(* ReadFile *)
ReadFile(f) ==
  /\ imported
  /\ Len(disk[f]) <= MaxReadLength
  /\ reading' = [kind |-> "file", todo |-> <<>>, content |-> disk[f], lines |-> LineCount(disk[f])]
  /\ UNCHANGED workVars

-------------------------------------------------------------------------------
(* Tree: a folder and what is in it, folders first, depth first, until     *)
(* enough entries have been counted.                                       *)
Entries == Dirs \cup UNION {Range(Within(d)) : d \in Dirs}

(* A folder that cannot be read is not shown, nor is what it holds.        *)
Open(e) == e \in Dirs \ Dangling

Children(e) ==
  LET Those(kind) == FoldLeft(LAMBDA those, c : IF c \in kind THEN Append(those, c) ELSE those, <<>>, Within(e))
  IN  IF Open(e) THEN Those(Dirs \ Ignored) \o Those(Entries \ Dirs) ELSE <<>>

(* buildTree: one entry after the other is counted, until there are enough *)
(* or none is left.  What is in a folder comes before what comes after it. *)
(* An entry that cannot be read is counted, not shown.                     *)
BuildTree(path) ==
  LET shown[n \in 0 .. MaxTreeEntries] ==
        IF n = 0 THEN [left |-> Children(path), nodes |-> {path}, count |-> 0]
        ELSE LET before == shown[n - 1]
                 child == Head(before.left)
             IN  IF before.left = <<>> THEN before
                 ELSE [left |-> Children(child) \o Tail(before.left),
                       nodes |-> before.nodes \cup ({child} \ Dangling), count |-> before.count + 1]
  IN  shown[MaxTreeEntries]

(* Faulty variant: a tree of as many entries as there may be is never said *)
(* to be cut short.                                                        *)
TreeSaidWhole(path) ==
  /\ imported /\ path \notin Dangling
  /\ reading' = [kind |-> "tree", todo |-> <<>>, path |-> path, nodes |-> BuildTree(path).nodes,
                 truncated |-> BuildTree(path).count > MaxTreeEntries]
  /\ UNCHANGED workVars

Tree(path) ==
  /\ imported /\ path \notin Dangling
  /\ reading' = [kind |-> "tree", todo |-> <<>>, path |-> path, nodes |-> BuildTree(path).nodes,
                 truncated |-> BuildTree(path).count >= MaxTreeEntries]
  /\ UNCHANGED workVars

-------------------------------------------------------------------------------
ReadsNext ==
  \/ (Import \/ RestartWorkspaces) /\ UNCHANGED reading
  \/ \E f \in File, text \in Texts : EditFile(f, text) /\ UNCHANGED reading
  \/ ReadForContext \/ ReadForSearch
  \/ \E query \in Queries : BeginContext(query) \/ BeginSearch(query.words)
  \/ \E f \in File : ReadFile(f)
  \/ \E path \in Entries : Tree(path)

ReadsSpec == ReadsInit /\ [][ReadsNext]_readsVars

-------------------------------------------------------------------------------
(* Properties.                                                             *)

ReadsTypeOK ==
  /\ WorkTypeOK
  /\ reading.kind \in {"none", "context", "search", "file", "tree"}
  /\ Range(reading.todo) \subseteq File

(* A client may take the lines of an excerpt for lines of the file: the    *)
(* i-th of them is line start + i - 1, whole but for the first and the     *)
(* last, which may lack their outer ends, and the excerpts are within      *)
(* their limits (collectContextFiles, contextExcerptWithLine).             *)
Numbered(e) ==
  LET shown == LineSeq(e.content)
      lines == LineSeq(e.of)
  IN  \A i \in DOMAIN shown :
        /\ e.start + i - 1 \in DOMAIN lines
        /\ i \in 2 .. Len(shown) - 1 => shown[i] = lines[e.start + i - 1]
        /\ i = 1 /\ i < Len(shown) => IsSuffix(shown[i], lines[e.start])
        /\ i = Len(shown) /\ i > 1 => IsPrefix(shown[i], lines[e.start + i - 1])
        /\ i = 1 /\ i = Len(shown) => Has(lines[e.start], shown[i]) \/ shown[i] = <<>>

(* An excerpt that is not cut for want of room shows the first place in    *)
(* the text where a word of the query is, if the line of it begins less    *)
(* than a third of the window before it, and ends in the window, and if    *)
(* lower case keeps the length of what is before it: the code promises no  *)
(* more (contextExcerptWithLine).                                          *)
PlacesOf(text, tokens) ==
  {p \in 1 .. Len(text) : \E token \in tokens : IsPrefix(token, ToLower(SubSeq(text, p, Len(text))))}

ShowsMatch(e) ==
  LET text == e.of
      places == PlacesOf(text, reading.tokens)
      place == Min(places)
      start == Max({0} \cup NewlinesIn(text, 1, place - 1)) + 1
      end == Min({Len(text)} \cup NewlinesIn(text, place, Len(text)))
      kept == \A p \in 1 .. place : Len(ToLower(SubSeq(text, 1, p - 1))) = p - 1
      fits == place - start < MaxExcerpt \div 3 /\ end < Window(text, reading.tokens) + MaxExcerpt
  IN  (places # {} /\ kept /\ fits /\ MaxContext >= MaxExcerpt) => Has(e.content, SubSeq(text, start, end))

(* Nothing better is left out: what is not shown of the files that a query *)
(* names, or of all that have a score where it names none, has a lower     *)
(* score than what is, and is left out for want of room only.              *)
NothingBetter ==
  LET files == Range(reading.files)
      named == {e \in Range(reading.found) : e.file \in reading.query.names}
      rivals == IF named = {} THEN Range(reading.found) ELSE named
      left == {e \in rivals : e.file \notin {x.file : x \in files}}
  IN  /\ \A e \in left, x \in files : e.score <= x.score
      /\ left # {} => Len(reading.files) = LimitOf(reading.query) \/ Total(reading.files) = MaxContext

ContextAsRead ==
  Complete("context") =>
    /\ \A e \in Range(reading.files) : Numbered(e) /\ Len(e.content) <= MaxExcerpt
    /\ reading.files # <<>> => ShowsMatch(reading.files[1])
    /\ Total(reading.files) <= MaxContext
    /\ NothingBetter

(* The lines that a search finds, by the numbers they have in a patch: all *)
(* that there are, or as many as it may list, but for those of a file from *)
(* a line on that is too long for the scanner, of which the answer says    *)
(* nothing (Search, scanFile).                                             *)
HitsOf(f, text, words) ==
  {[file |-> f, line |-> i] : i \in {j \in DOMAIN LineSeq(text) : Has(ToLower(LineSeq(text)[j]), words)}}

Unscanned(h) ==
  \E i \in DOMAIN PathOrder :
    LET lines == LineSeq(reading.of[i])
    IN  PathOrder[i] = h.file /\ \E j \in DOMAIN lines : j <= h.line /\ Len(lines[j]) > MaxScan

SearchWhole ==
  Complete("search") =>
    LET all == UNION {HitsOf(PathOrder[i], reading.of[i], reading.words) : i \in DOMAIN PathOrder} IN
    /\ Range(reading.hits) \subseteq all
    /\ \A i, j \in DOMAIN reading.hits : reading.hits[i] = reading.hits[j] => i = j
    /\ Len(reading.hits) <= MaxSearchHits
    /\ Len(reading.hits) < MaxSearchHits => \A h \in all \ Range(reading.hits) : Unscanned(h)

(* A tree that does not say it is cut short is whole, and one that is, is  *)
(* within its limit: its entries, none under an ignored one (Tree,         *)
(* buildTree).                                                             *)
ShownIn(d) == IF Open(d) THEN Range(Within(d)) \ (Ignored \cap Dirs) ELSE {}

Below(path) ==
  LET in[n \in 0 .. Cardinality(Entries)] ==
        IF n = 0 THEN {path} ELSE in[n - 1] \cup UNION {ShownIn(d) : d \in in[n - 1]}
  IN  in[Cardinality(Entries)] \ Dangling

TreeWhole ==
  Complete("tree") =>
    /\ reading.nodes \subseteq Below(reading.path)
    /\ ~reading.truncated => reading.nodes = Below(reading.path)
    /\ Cardinality(reading.nodes) <= MaxTreeEntries + 1

(* Lists are as whole as they may be taken for, and the count of lines of  *)
(* a file is theirs (textLineCount).                                       *)
ListedWhole ==
  /\ SearchWhole /\ TreeWhole
  /\ Complete("file") => reading.lines = Len(LineSeq(reading.content))

(* What a client is shown of its files is what was there when they were    *)
(* read, by the numbers that a patch will use; trees are whole or said not *)
(* to be, and searches that are not full, but for lines too long to scan.  *)
ShownAsRead == ContextAsRead /\ ListedWhole
===============================================================================
